SPECIFICATION Spec
CONSTANTS
    n1 = n1
    n2 = n2
    k1 = k1
    k2 = k2
    h1 = h1
    NoNode = NoNode
    NoCommit = NoCommit
    Node <- TwoNodes
    Key <- TwoKeys
    Fault <- NoFaults
    MaxFaults = 1
    PageCapacity = 2
    Worker = Worker
    Handler <- OneHandler
    Member <- OneNode
    Reader <- OneNode
    Writer <- Other
    Asker <- TwoNodes
    FanOut = 1
    Input <- Distinct
CHECK_DEADLOCK FALSE
INVARIANT CommitComplete
