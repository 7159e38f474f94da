\* A refresh, a data request and a logout at once; requests die or are over a
\* limit, answers are lost, nothing is prompt. The browser stops at the bounds.
SPECIFICATION BrowserSpec
CONSTANTS
    c1 = c1
    c2 = c2
    c3 = c3
    d1 = d1
    l1 = l1
    Requests <- OneEach
    Calls <- OneCall
    TabOf <- SameTab
    Data <- OneData
    Logouts <- OneLogout
    MaxSessions = 4
    MaxTime = 2
    Faults = {"abort", "limit", "slow", "network"}
    Tabs = {1}
    Lifetime = 100
    IdleTimeout = 100
    LockStale = 2
    AskUntil = 2
    MaxInFlight = 3
    NoCall = NoCall
    NoLock = NoLock
    Never = Never
PROPERTIES
    ExpiredIsTrue
    LogoutEndsSession
CHECK_DEADLOCK FALSE
