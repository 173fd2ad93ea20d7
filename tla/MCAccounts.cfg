SPECIFICATION FairSpec
CONSTANTS
    g1 = g1
    g2 = g2
    f1 = f1
    f2 = f2
    u1 = u1
    u2 = u2
    bad = bad
    m1 = m1
    m2 = m2
    k1 = k1
    k2 = k2
    utc = utc
    east = east
    west = west
    Nil = Nil
    Registers = {g1, g2}
    Refreshes = {f1, f2}
    Updates = {u1, u2}
    Zones = {utc, east, west}
    Metas = {m1, m2}
    Named = {m1, m2, bad}
    Keys = {k1, k2}
    Zone <- MCZone
    Asks <- MCAsks
    MayFail = {f1}
    MayExpire = {g1}
INVARIANTS TypeOK OneUser ChainEndsLive HeirsAreTrue
PROPERTIES ZoneSerialises CallsEnd
CHECK_DEADLOCK FALSE
