SPECIFICATION Spec
CONSTANTS
    Sessions = {s1, s2}
    Queries = {q1, q2}
    Requests <- QueryRequests
    Results = {r1}
    Zeroed = Zeroed
    Torn = Torn
    MaxCalls = 2
    MaxSwitches = 3
SYMMETRY Symmetry
INVARIANTS
    LogComplete
    
PROPERTY SearchFinds
CHECK_DEADLOCK FALSE
