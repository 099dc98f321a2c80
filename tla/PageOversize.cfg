\* A request for one page more than there are.
SPECIFICATION Spec
CONSTANTS
    HeapStarts <- ImageEnds
    RamPages <- TightRam
    MaxPages = 5
    Requests <- OneTooMany
    OVERSIZE = TRUE
INVARIANT
    NeverMoreThanMax
CHECK_DEADLOCK FALSE
