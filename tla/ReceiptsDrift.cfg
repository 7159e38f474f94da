\* One user with the receipt page open, and nothing fails.
SPECIFICATION OrdersSpec
CONSTANTS
    MaxItem = 2
    MaxQty = 2
    PoUsers = {}
    GrUsers = {g1}
    FirstRows <- TwoArrived
    MaxStrokes = 1
    NoDate = NoDate
    Earlier = Earlier
    Today = Today
    NoCopy = NoCopy
PROPERTIES
    QtyInSync
CHECK_DEADLOCK FALSE
