\* Two tabs, one with two calls; nothing fails and nothing is slow. The browser stops at the bounds.
SPECIFICATION BrowserSpec
CONSTANTS
    c1 = c1
    c2 = c2
    c3 = c3
    d1 = d1
    l1 = l1
    Requests <- ThreeCalls
    Calls <- ThreeCalls
    TabOf <- SharedTab
    Data <- None
    Logouts <- None
    MaxSessions = 5
    MaxTime = 3
    Faults = {}
    Tabs = {1, 2}
    Lifetime = 100
    IdleTimeout = 100
    LockStale = 2
    AskUntil = 3
    MaxInFlight = 3
    NoCall = NoCall
    NoLock = NoLock
    Never = Never
INVARIANTS
    BrowserTypeOK
    SingleFlight
    SessionKept
CHECK_DEADLOCK FALSE
