SPECIFICATION FairSpec
CONSTANTS
    n1 = n1
    n2 = n2
    n3 = n3
    Node <- ThreeNodes
    Member <- Star
    Asker <- OneNode
    Puller <- OneNode
    Op <- Applying
    MaxQueries = 1
    MaxCalls = 3
    MaxEvents = 1
CHECK_DEADLOCK FALSE
INVARIANTS TypeOK AnswersKnown FirstMemberDecides ApplicationsFirst
PROPERTIES QueriesReturn StopCompletes
