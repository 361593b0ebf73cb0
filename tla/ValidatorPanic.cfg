SPECIFICATION Spec
CONSTANTS
    p1 = p1
    p2 = p2
    k = k
    fits = fits
    forged = forged
    long = long
    gone = gone
    junk = junk
    Comma = comma
    Semicolon = semicolon
    Flood = flood
    KeyText <- OneKey
    CidText <- Cids
    Junk <- Other
    Fits <- Fitting
    Long <- TooLong
    Unread <- Nobodys
    Page <- TwoPages
    Percentage = 100
    MaxRetry = 1
    Entry <- InARow
    Text <- TwoGood
    Fault <- Errors
    MaxFaults = 2
CHECK_DEADLOCK FALSE
INVARIANT NoPanic
