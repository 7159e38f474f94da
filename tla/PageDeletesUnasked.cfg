\* A budget that is empty at first: one project of this user, one of another.
SPECIFICATION PageSpec
CONSTANTS
    HuProjects = {b1, b2}
    HuAssets = {a1}
    AtFirst = {}
    MaxWrites = 3
    MaxStarts = 2
    MaxPeerSaves = 1
    Gone = Gone
    AsIs = AsIs
PROPERTIES
    SendsOnlyRealChanges
CHECK_DEADLOCK FALSE
