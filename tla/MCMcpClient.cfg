SPECIFICATION FairSpec
CONSTANTS
    Nil = Nil
    Callers = {c1, c2, c3}
    Troubles = 3
    Starters = {c1, c2}
INVARIANTS TypeOK AnswersOwn
PROPERTIES CallsEnd
CHECK_DEADLOCK FALSE
