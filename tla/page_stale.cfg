SPECIFICATION Spec
CONSTANTS
    NULL = NULL
    EMPTY = EMPTY
    Sessions = {"s1"}
    Clients = {"p1"}
    Kits <- OneKit
    Groups <- GroupsA
    Classes = {"screw"}
    Tags = {"t1"}
    Quantities = {0, 1, 2}
    KitOf <- KitOfA
    ClassOf <- ClassOfA
    Target <- TargetA
    Stock <- StockTwo
    FirstCount <- Nothing
    FirstTag <- Unlabelled
    FirstArchived <- Unpacked
    KitsOf <- KitsOfA
    Requests <- RequestsA
    SessionOf <- OneClient
    Admins = {}
    KitNo <- KitNoA
    RowsOf <- RowsOfA
    Lossy = TRUE
    MaxInFlight = 2
    MaxActs = 3
CHECK_DEADLOCK FALSE
PROPERTY OverrideOnlyUnreachable
