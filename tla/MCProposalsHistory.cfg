CONSTANTS
    m1 = m1
    m2 = m2
    d1 = d1
    d2 = d2
    d3 = d3
    r1 = r1
    Nil = Nil
    NoKey = NoKey
    KeyOf <- MCKeyOf
    Posts = {m1, m2}
    Deliveries = {d1, d2}
    Requests = {r1}
    Payloads <- MCPayloads
    AutoApply = {m2}
    MayDie = {d1}
    MayBeKilled = {d1}
    MayFail = {d1, d2, r1}
SPECIFICATION SpecH
INVARIANTS TypeOK AuditIsTrue CreatedIsAudited AppliedIsComplete AtMostOnce AllOrNothing
PROPERTIES SupersededNeverOffered TerminalStays
CHECK_DEADLOCK FALSE
