\* rvos_s_exp, which does not.
SPECIFICATION FairSpec
CONSTANTS
    Sources = {32, 33, 136}
    UART0_IRQ = 32
    Tasks = 1
    RxDepth = 2
    MaxInput = 4
    COMPLETES = FALSE
PROPERTY
    EveryByteRead
