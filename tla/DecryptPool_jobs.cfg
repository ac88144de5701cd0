SPECIFICATION FairSpec
CONSTANTS
    MAX_DECRYPT_THREAD = 2
    MaxArgs = 4
    MaxOps = 3
    BadOperands = TRUE
INVARIANTS
    WaitComplete
    
    NoJobOutlives
PROPERTIES
    JobStable
    OperationsReturn
CHECK_DEADLOCK FALSE
