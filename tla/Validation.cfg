SPECIFICATION LongFirstSpec
CONSTANTS
    p1 = p1
    p2 = p2
    k = k
    fits = fits
    forged = forged
    long = long
    gone = gone
    junk = junk
    Comma = comma
    Semicolon = semicolon
    Flood = flood
    KeyText <- OneKey
    CidText <- Cids
    Junk <- Other
    Fits <- Fitting
    Long <- TooLong
    Unread <- Nobodys
    Page <- TwoPages
    Percentage = 75
    MaxRetry = 1
    Entry <- Places
    Text <- Texts
    Fault <- FaultKind
    MaxFaults = 4
CHECK_DEADLOCK FALSE
INVARIANTS TypeOK AcceptsValidated LosesOnlyDamaged ErrorsRejectNothing RetriesAbsorb
PROPERTY ValidationEnds
