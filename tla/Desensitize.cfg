SPECIFICATION MCSpec
CONSTANTS
    Inputs <- MCInputs
    Codes <- MCCodes
    KTests <- MCKTests
    NUM = 4
    STEP = 3
    max_parallel = 2
    PathHasDigits = FALSE
    Modes = {"replay", "runner"}
INVARIANTS
    
    
    ParallelBounded
    LinesMatch
PROPERTY
    DesensitizeEnds
CHECK_DEADLOCK FALSE
