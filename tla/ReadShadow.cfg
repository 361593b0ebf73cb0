SPECIFICATION Spec
CONSTANTS
    n1 = n1
    n2 = n2
    n3 = n3
    Node <- TwoNodes
    Member <- Pair
    Asker <- OneNode
    Puller <- Other
    Op <- Reading
    MaxQueries = 1
    MaxCalls = 2
    MaxEvents = 0
CHECK_DEADLOCK FALSE
INVARIANT ReadUsesFoundCid
