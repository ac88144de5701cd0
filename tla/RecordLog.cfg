SPECIFICATION LogSpec
CONSTANTS
    DATA_LENGTH = 19
    OldSizes = {0, 5, 40}
    Lengths <- MCLengths
    MaxLength = 57
    INT = 1
    U64 = 3
    ENC_INT32_LENGTH = 2
    ENC_FLOAT4_LENGTH = 4
    ENC_TIMESTAMP_LENGTH = 5
    Requests <- MCRequests
    ItemNames <- MCItemNames
    MaxRecords = 3
INVARIANTS
    BufferInFile
    LogRecovered
    
CHECK_DEADLOCK FALSE
