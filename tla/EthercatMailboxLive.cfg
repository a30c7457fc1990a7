SPECIFICATION FairSpec
CONSTANTS
    Objects = {o1}
    MaxRequests = 2
    MaxGenerations = 1
CHECK_DEADLOCK FALSE
PROPERTIES
    CloseReturns
    RequestsEnd
