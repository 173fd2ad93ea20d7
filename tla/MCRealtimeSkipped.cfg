SPECIFICATION Spec
CONSTANTS
    e1 = e1
    e2 = e2
    None = None
    Events = {e1, e2}
    Before <- MCWorker
    WebSockets = {1, 2, 3}
    Streams = {s1}
    Tasks = {t1, t2}
    Unlucky = {e2}
    MayFail = {t2, s1}
    MayLeave = {1, s1}
    MaxStreamLen = 1
INVARIANTS NobodySkipped
CHECK_DEADLOCK FALSE
