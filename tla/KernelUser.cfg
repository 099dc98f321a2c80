\* Both ports as built: CONFIG_SYSCALL, tasks in U-mode. One task gets to a CSR
\* instruction; another one yields, which is a fault in rvos.
SPECIFICATION PortFairSpec
CONSTANTS
    MAX_TASKS = 3
    STACK_SIZE = 16
    CREATED = 4
    HartId = 0
    CONFIG_SYSCALL = TRUE
    PC <- MCPC
    Value <- MCValue
    ERR <- MCERR
    KernelRegs <- MCKernelRegs
    Sources <- MCSources
    Entry <- MCEntry
    Instr <- UserInstr
    Exec <- MCExec
INVARIANTS
    TypeOK
    NoNestedTrap
    TrapContextValid
    NoStaleYield
    TickAlwaysComes
    HaltsOnlyOnPanic
PROPERTIES
    ImplementsFifoTasks
    TasksRun
\* the kernel stops for good in panic()
CHECK_DEADLOCK FALSE
