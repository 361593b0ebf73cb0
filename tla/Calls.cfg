SPECIFICATION FairSpec
CONSTANTS
    c1 = c1
    c2 = c2
    Call <- TwoCalls
    Kind <- AllKinds
    Slow <- OneCall
CHECK_DEADLOCK FALSE
INVARIANTS TypeOK AnswerFits ReadsNeverPanic
PROPERTIES CallsReturn GoroutinesEnd
