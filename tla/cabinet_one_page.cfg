SPECIFICATION CabinetSpec
CONSTANTS
    Sessions = {"s1"}
    Pages = {"p1"}
    SessionOf <- OnePage
    RowOrder <- MCRowOrder
    LocationOf <- MCLocationOf
    LocList <- MCLocList
    Blocks = 3
    BlockSize = 2
    Span = 2
    MaxInFlight = 2
    MaxChanges = 3
CHECK_DEADLOCK FALSE
INVARIANTS CabinetTypeOK RewritesAll
PROPERTY CabinetSettles
