SPECIFICATION ViewSpec
CONSTANTS
    Values = {"a", "b"}
    Size <- MCSize
    MaxFileSize = 3
    BufferLimit = 2
    MaxItems = 4
    MaxCrashes = 1

INVARIANTS
    FilesSound

PROPERTIES
    ImplementsTable

CHECK_DEADLOCK FALSE
