\* Two saves of a hospital unit's budget, each of any payload once; or two pages of
\* orders and one of receipts, with two edits in all; or two plans typed and one save of
\* the multi-year budget.  Behaviours end where the bounds end them.
SPECIFICATION SavesSpec
CONSTANTS
    p1 = p1
    p2 = p2
    p3 = p3
    a1 = a1
    a2 = a2
    Projects = {p1, p2, p3}
    Assets = {a1, a2}
    Requests = {r1, r2}
    Payloads <- ThePayloads
    Hu = Hu
    MaxNumber = 7
    MaxAttempts = 2
    MaxRequests = 2
    FirstCodes <- TheCodes
    FirstOwners <- TheOwners
    Reserved <- TheSequence
    Faults = {"abort", "rpc"}
    None = None
    MaxItem = 2
    MaxQty = 2
    PoUsers = {o1, o2}
    GrUsers = {g1}
    FirstRows <- OneNewOneArrived
    MaxStrokes = 2
    NoDate = NoDate
    Earlier = Earlier
    Today = Today
    NoCopy = NoCopy
    q1 = q1
    q2 = q2
    y1 = y1
    y2 = y2
    MultiYears = {y1, y2}
    PlanPeriods = {q1, q2}
    MultiYearOf <- OnePeriodEach
    NewPeriods = {q2}
    Categories = {k1, k2}
    MaxPlans = 2
    MaxPlanSaves = 1
    Missing = Missing
INVARIANTS
    SavesTypeOK
    GivesUpOnlyWhenCrowded
    OrdersReachTheWorkflow
    ShownPlansAreStored
PROPERTIES
    AnsweredSaveIsWhole
    NoForeignOverwrite
CONSTRAINT OwnWay
SYMMETRY SlotSymmetry
CHECK_DEADLOCK FALSE
