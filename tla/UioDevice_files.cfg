SPECIFICATION Spec
CONSTANTS
    ivshmem = ivshmem
    other = other
    NULL = NULL
    Procs = {p1, p2}
    Cards = {ivshmem, other}
    Idevs = {i1, i2}
    Minors = {0}
    Shape <- MCShape
    PAGE_SIZE = 2
    MaxPages = 2
    MaxEvents = 0
INVARIANTS
    OpenFileKeeps
    NothingLeaks

    
SYMMETRY Alike
CHECK_DEADLOCK FALSE
