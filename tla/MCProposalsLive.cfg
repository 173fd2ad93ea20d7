CONSTANTS
    m1 = m1
    m2 = m2
    d1 = d1
    d2 = d2
    d3 = d3
    r1 = r1
    Nil = Nil
    NoKey = NoKey
    KeyOf <- MCKeyOf
    Posts = {m1, m2}
    Deliveries = {d1, d2, d3}
    Requests = {}
    Payloads <- MCAnswers
    AutoApply = {m2}
    MayDie = {d1}
    MayBeKilled = {d1, d2}
    MayFail = {d1, d2}
SPECIFICATION FairSpecH
PROPERTIES Settles
CHECK_DEADLOCK FALSE
