SPECIFICATION FairSpec
CONSTANTS
    Tasks <- Three
    Steps <- Three
    Order <- ChainOrder
    Triggers <- ThreeTriggers
    EventTasks <- ThreeEvent
    Users <- OneUser
    SuperAdmins <- Roots
    CanComplete <- SoloCanComplete
    SlaOverrides = {}
    Requests = {r1, r2}
    MaxLogs = 2
    Faults = {"abort", "read"}
    NoUser = NoUser
    NoSla = NoSla
    Absent = Absent
    ann = ann
    root = root
INVARIANTS
    LoggedRows
PROPERTIES
    RecalculationConverges
