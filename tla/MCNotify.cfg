SPECIFICATION FairSpec
CONSTANTS
    Devices = {d1, d2, d3}
    Platforms = {ios, web}
    Batches = {b1, b2}
    Targets <- MCTargets
    Modes <- MCModes
    PlatformsOf <- MCPlatformsOf
    Faulty <- MCFaulty
    MayRegister = {d2}
    MayLeave = {d2}
    Gone = {d1}
    MayDelete = {d3}
    MayAbort = {b2}
    d1 = d1
    d2 = d2
    d3 = d3
    ios = ios
    web = web
    b1 = b1
    b2 = b2
    Nil = Nil
INVARIANTS TypeOK OwnTokenRefused ReportIsTrue
PROPERTIES CallsEnd
CHECK_DEADLOCK FALSE
