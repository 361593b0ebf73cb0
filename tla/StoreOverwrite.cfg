SPECIFICATION Spec
CONSTANTS
    k1 = k1
    k2 = k2
    m1 = m1
    m2 = m2
    h1 = h1
    h2 = h2
    NoKey = NoKey
    NoCid = NoCid
    Key <- TwoKeys
    Message <- TwoMessages
    KeyOf <- MCKeyOf
    Handler <- TwoHandlers
    Fault <- NoFaults
    MaxFaults = 0
    PageCapacity = 2
    MaxPages = 3
    MaxCalls = 2
CHECK_DEADLOCK FALSE
INVARIANT AckedKept
