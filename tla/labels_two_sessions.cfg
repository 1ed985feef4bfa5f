SPECIFICATION ServerSpec
CONSTANTS
    NULL = NULL
    EMPTY = EMPTY
    Sessions = {"s1", "s2"}
    Clients = {"page"}
    Kits <- MCKits
    Groups <- MCGroups
    Classes = {"screw"}
    Tags = {"t1", "t2"}
    Quantities = {0, 1, 2}
    KitOf <- MCKitOf
    ClassOf <- MCClassOf
    Target <- MCTarget
    Stock <- MCStock
    FirstCount <- MCFirstCount
    FirstTag <- MCFirstTag
    FirstArchived <- MCFirstArchived
    KitsOf <- Disjoint
    Requests <- MCRequests
INVARIANT TagsUnique
