\* The 8 GB of os.ld.
SPECIFICATION LayoutSpec
CONSTANTS
    HeapStarts <- ImageEnds
    RamPages <- BoardRam
INVARIANT
    TableBelowPool
CHECK_DEADLOCK FALSE
