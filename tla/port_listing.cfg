SPECIFICATION Spec
CONSTANTS
    Rows <- MCRows
    Pids <- MCPids
    Names = {"a", "b"}
    Filters <- MCFilters
    InitTables <- MCTables
    MaxRows = 4
    MaxChanges = 2
    Slack = 1
INVARIANTS
    TypeOK
    EverySocketOnce
    OneNamePerProcess
    NamesWereHeld
    GivesUpOnlyOnGrowth
    ConnectionsInOneOrder
PROPERTIES
    ImplementsListing
    AlwaysEnds
