SPECIFICATION Spec
CONSTANTS
    Tasks <- Three
    Steps <- Three
    Order <- GapOrder
    Triggers <- ThreeTriggers
    EventTasks <- ThreeEvent
    Users <- TwoUsers
    SuperAdmins <- Roots
    CanComplete <- ThreeCanComplete
    SlaOverrides = {5}
    Requests = {r1}
    MaxLogs = 2
    Faults = {"abort"}
    NoUser = NoUser
    NoSla = NoSla
    Absent = Absent
    ann = ann
    root = root
INVARIANTS
    TypeOK
    DoneHasItsLog
PROPERTIES
    LedgerSpec
    AnswerSettles
    OverrideKept
