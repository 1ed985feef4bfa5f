SPECIFICATION SystemSpec
CONSTANTS
    NULL = NULL
    EMPTY = EMPTY
    Sessions = {"s1"}
    Clients = {"p1"}
    Kits <- MCKits
    Groups <- MCGroups
    Classes = {"screw"}
    Tags = {"t1", "t2", "t3"}
    Quantities = {0, 1, 2}
    KitOf <- MCKitOf
    ClassOf <- MCClassOf
    Target <- MCTarget
    Stock <- MCStock
    FirstCount <- MCFirstCount
    FirstTag <- MCFirstTag
    FirstArchived <- MCFirstArchived
    KitsOf <- MCKitsOf
    Requests <- RequestsA
    SessionOf <- OneClient
    Admins = {}
    KitNo <- KitNoA
    RowsOf <- RowsOfA
    Lossy = TRUE
    MaxInFlight = 2
    MaxActs = 2
    Full = 2
    MaxResets = 1
CHECK_DEADLOCK FALSE
INVARIANTS TypeOK ResetTypeOK ResetAccounted TagsUnique
PROPERTIES ResetImplemented ResetFresh LabelFinal PageAgrees StatusSettles
