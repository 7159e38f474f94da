\* Two tabs with a call each; backends and tabs die, nothing is prompt, and the clock reaches the last deadline. The browser stops at the bounds.
SPECIFICATION FairBrowserSpec
CONSTANTS
    c1 = c1
    c2 = c2
    c3 = c3
    d1 = d1
    l1 = l1
    Requests <- TwoCalls
    Calls <- TwoCalls
    TabOf <- TwoTabs
    Data <- None
    Logouts <- None
    MaxSessions = 3
    MaxTime = 2
    Faults = {"abort", "limit", "slow", "crash"}
    Tabs = {1, 2}
    Lifetime = 100
    IdleTimeout = 100
    LockStale = 1
    AskUntil = 1
    MaxInFlight = 3
    NoCall = NoCall
    NoLock = NoLock
    Never = Never
PROPERTIES
    CallsReturn
CHECK_DEADLOCK FALSE
