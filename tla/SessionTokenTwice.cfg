\* Two concurrent requests and no failure at all; not even time need pass.
SPECIFICATION Spec
CONSTANTS
    r1 = r1
    r2 = r2
    Requests <- TwoRequests
    MaxSessions = 3
    Lifetime = 2
    IdleTimeout = 1
    MaxTime = 0
    Faults = {}
SYMMETRY RequestSymmetry
INVARIANTS
    OneLiveToken
