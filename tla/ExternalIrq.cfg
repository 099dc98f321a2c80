\* rvos_s, which completes every claim.
SPECIFICATION FairSpec
CONSTANTS
    Sources = {32, 33, 136}
    UART0_IRQ = 32
    Tasks = 3
    RxDepth = 2
    MaxInput = 4
    COMPLETES = TRUE
INVARIANTS
    TypeOK
    TransmitterBound
    NoUnexpectedIrq
PROPERTY
    EveryByteRead
