SPECIFICATION FairSpec
CONSTANTS
    n1 = n1
    n2 = n2
    k1 = k1
    k2 = k2
    h1 = h1
    NoNode = NoNode
    NoCommit = NoCommit
    Node <- TwoNodes
    Key <- TwoKeys
    Fault <- NoFaults
    MaxFaults = 1
    PageCapacity = 1
    Worker = Worker
    Handler <- OneHandler
    Member <- TwoNodes
    Reader <- OneNode
    Writer <- Other
    Asker <- NoNodes
    FanOut = 1
    Input <- Distinct
CHECK_DEADLOCK FALSE
PROPERTIES Discovered PropagationEnds
