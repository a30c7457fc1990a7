SPECIFICATION Spec
CONSTANTS
    NAxes = 2
    NGroups = 1
    NServos = 1
    GroupOf <- OneGroup
    MaxPublications = 3
    MaxSessions = 2
CHECK_DEADLOCK FALSE
INVARIANTS
    AcceptedIsOnePublication
    RejectionNeedsReuse
    LossNeedsEarlyCommit
PROPERTIES
    OldSessionNeverReturns
