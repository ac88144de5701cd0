SPECIFICATION FairSpec
CONSTANTS
    ivshmem = ivshmem
    other = other
    NULL = NULL
    Procs = {p1, p2}
    Cards = {other}
    Idevs = {i1}
    Minors = {0}
    Shape <- MCShape
    PAGE_SIZE = 2
    MaxPages = 1
    MaxEvents = 2
INVARIANTS
    AccessesDefined
PROPERTIES
    EventsDelivered
    UnbindEnds
CHECK_DEADLOCK FALSE
