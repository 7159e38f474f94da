\* Two concurrent requests; every call may fail, only the select of the
\* family's start may not.
SPECIFICATION Spec
CONSTANTS
    r1 = r1
    r2 = r2
    Requests <- TwoRequests
    MaxSessions = 2
    Lifetime = 2
    IdleTimeout = 1
    MaxTime = 2
    Faults = {"abort", "write", "caught", "limit"}
SYMMETRY RequestSymmetry
INVARIANTS
    CapHolds
