\* One request at a time, of up to three tokens.  Calls may fail, only the
\* revocation of the old token may not.
SPECIFICATION Spec
CONSTANTS
    r1 = r1
    r2 = r2
    Requests <- OneRequest
    MaxSessions = 3
    Lifetime = 1
    IdleTimeout = 0
    MaxTime = 2
    Faults = {"abort", "read", "limit", "caught"}
INVARIANTS
    TypeOK
    OneLiveToken
PROPERTIES
    FamilyStaysDead
