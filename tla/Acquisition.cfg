\* Every redirect graph of two URLs, two origins, bodies around the limit.
CONSTANTS
    u1 = u1
    u2 = u2
    w1 = w1
    home = home
    away = away
    Urls <- MCUrls
    Start = u1
    MaxBytes = 2
    SizeBound = 4
    Answers <- MCAnswers
    ClientLimit = 2
    HopBound = 4
    Sites <- MCSites
    Origin <- MCOrigin
    CookieScope <- MCScope
    MaxRedirects = 2
SPECIFICATION FairSpec
INVARIANTS
    EveryHopApproved
    LimitsExact
    
    SessionInScope
PROPERTIES
    NothingSentAfterStop
    Returns
CHECK_DEADLOCK FALSE
