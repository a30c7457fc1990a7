SPECIFICATION Spec
CONSTANTS
    Readers = {r1, r2}
    WordCount = 2
    MaxAttempts = 2
    MaxPublications = 4
PROPERTIES ImplementsRegister ReadsNeverGoBack
CHECK_DEADLOCK TRUE
