SPECIFICATION Spec
CONSTANTS
    Rows <- MCRows
    Pids <- MCPids
    Names = {"a", "b"}
    Filters <- OnlyAll
    InitTables <- TiedTables
    MaxRows = 4
    MaxChanges = 2
    Slack = 1
INVARIANT
    PortsInOneOrder
