SPECIFICATION Spec
CONSTANTS
    Objects = {o1, o2}
    MaxRequests = 2
    MaxGenerations = 2
CHECK_DEADLOCK FALSE
INVARIANTS
    BackendOnlyWhileActivated
    NoForeignTransfer
    NoOrphans
PROPERTIES
    CompletedIsKept
