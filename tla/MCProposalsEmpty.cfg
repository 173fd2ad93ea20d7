CONSTANTS
    m1 = m1
    d1 = d1
    r1 = r1
    r2 = r2
    Nil = Nil
    NoKey = NoKey
    KeyOf <- MCKeyOf
    Posts = {m1}
    Deliveries = {d1}
    Requests = {r1}
    Payloads <- MCShort
    AutoApply = {}
    MayDie = {}
    MayBeKilled = {}
    MayFail = {}
SPECIFICATION Spec
INVARIANTS AppliedAffectsItems
CHECK_DEADLOCK FALSE
