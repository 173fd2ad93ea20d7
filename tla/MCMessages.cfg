CONSTANTS
    p1 = p1
    p2 = p2
    p3 = p3
    p4 = p4
    k1 = k1
    NoKey = NoKey
    Nobody = Nobody
    Posts = {p1, p2, p3, p4}
    KeyOf <- MCKeyOf
    Faulty = {p1, p4}
SPECIFICATION FairSpec
INVARIANTS TypeOK VersionsIdentify OneMessagePerKey ReplyIsTruthful
PROPERTIES ImplementsIngest CallsEnd
CHECK_DEADLOCK FALSE
