SPECIFICATION Spec
CONSTANTS
    m1 = m1
    m2 = m2
    Nil = Nil
    NoKey = NoKey
    Posts = {m1, m2}
    KeyOf <- MCKeyOf
    SoundsLike <- MCSoundsLike
    Provider = "openai"
    McpEnabled = TRUE
INVARIANTS TypeOK OwnWords
CHECK_DEADLOCK FALSE
