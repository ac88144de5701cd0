SPECIFICATION ComputeSpec
CONSTANTS
    USECS_PER_DAY = 2
    PlainTexts <- MCTexts
    Patterns <- MCPatterns
    Timestamps <- MCTimestamps
    Ranges <- MCRanges
    Inputs <- MCInputs
    Ciphers <- MCCiphers
    Strs <- MCStrs
    CharBits = 4
    IntBits = 8
    LongBits = 10
    Mantissa = 5
    Exprs <- MCExprs
    Phrases <- MCPhrases
    MaxSymbols = 8
    BULK_SIZE = 3
    Values <- MCValues
    MaxItems = 7
    Width = 5
    Commands <- MCCommands
    Numbers <- MCNumbers
    Bad <- MCBad
    MaxCalls = 2
INVARIANTS
    ExpressionRight
    AggregateRight
    OperatorRight
    
    OverlapFound
    NumbersKept
    ServerRoundTrip
CHECK_DEADLOCK FALSE
