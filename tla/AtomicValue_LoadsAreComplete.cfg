SPECIFICATION Spec
CONSTANTS
    Readers = {r1}
    ByteCount = 2
    MaxAttempts = 1
    MaxStores = 2
    ProgramOrder = FALSE
INVARIANTS LoadsAreComplete
