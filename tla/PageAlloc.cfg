\* page_init, then every sequence of calls: heaps of five pages and less, every
\* fragmentation by blocks of every size, and one descriptor page_init does not
\* clear. In the RAM of qemu.ld only page_init.
SPECIFICATION FairSpec
CONSTANTS
    HeapStarts <- ImageEnds
    RamPages <- TightAndQemuRam
    MaxPages = 5
    Requests <- UpToAll
    OVERSIZE = FALSE
INVARIANTS
    TypeOK
    PoolFillsRam
    TableBelowPool
    BlocksDisjoint
    FlagsTellBlocks
PROPERTIES
    ImplementsBlockAlloc
    CallsReturn
\* no calls are followed in the large heap
CHECK_DEADLOCK FALSE
