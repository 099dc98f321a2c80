\* Three commands: with the completion of rvos_s requests follow each other and
\* avail.idx wraps; as rvos_s_exp is, the read of the boot gets through.
SPECIFICATION FairSpec
CONSTANTS
    Sectors = {0, 1}
    Data = {d0, d1}
    ZERO = d0
    None = None
    IdxSpan = 2
    MaxCommands = 3
INVARIANTS
    TypeOK
    NoSpurious
    ReportAfterUse
PROPERTIES
    ImplementsDiskService
    CommandReported
CHECK_DEADLOCK FALSE
