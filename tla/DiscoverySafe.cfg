SPECIFICATION Spec
CONSTANTS
    n1 = n1
    n2 = n2
    k1 = k1
    k2 = k2
    h1 = h1
    NoNode = NoNode
    NoCommit = NoCommit
    Node <- TwoNodes
    Key <- TwoKeys
    Fault <- FaultKind
    MaxFaults = 1
    PageCapacity = 1
    Worker = Worker
    Handler <- OneHandler
    Member <- OneNode
    Reader <- OneNode
    Writer <- Other
    Asker <- Other
    FanOut = 1
    Input <- AnyTwo
CHECK_DEADLOCK FALSE
INVARIANTS TypeOK SourceHolds ProgressHonest CommitReadsPages
PROPERTY DirectorySpec
