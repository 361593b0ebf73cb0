SPECIFICATION FairSpec
CONSTANTS
    n1 = n1
    n2 = n2
    Node <- TwoNodes
    FanOut = 2
    Limit = 4
    MaxRetry = 1
    Fault <- MostFaults
    MaxFaults = 4
CHECK_DEADLOCK FALSE
INVARIANTS TypeOK OwnListed ServesPrefix FewDuplicates
PROPERTIES OnlyGrows Converges
