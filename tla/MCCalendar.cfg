SPECIFICATION Spec
CONSTANTS
    p1 = p1
    p2 = p2
    c1 = c1
    i1 = i1
    t1 = t1
    n1 = n1
    noon = noon
    fixed = fixed
    tomorrow = tomorrow
    utc = utc
    east = east
    Nil = Nil
    Proposals = {p1, p2}
    Confirms = {c1}
    ItemCalls = {i1}
    Asked <- MCAsked
    AutoApply = {p1}
    Zones = {utc, east}
    UTC = utc
    ClientZone <- MCClientZone
    FirstZones = {utc, Nil}
    NextZones = {east}
    Ahead <- MCAhead
    Texts = {noon, fixed, tomorrow}
    Words <- MCWords
    Moments = {20, 26, 50}
    SlotsPerDay = 48
    Wishes = {25}
    Given <- MCGiven
    MostOps = 2
INVARIANTS TypeOK NoSeenOverlap  SuggestionsWereFree
CHECK_DEADLOCK FALSE
