\* Built without CONFIG_SYSCALL: tasks in S-mode (M-mode in rvos) use the
\* interrupt lock; the task table is one slot short for os_main.
SPECIFICATION PortFairSpec
CONSTANTS
    MAX_TASKS = 3
    STACK_SIZE = 16
    CREATED = 4
    HartId = 0
    CONFIG_SYSCALL = FALSE
    PC <- MCPC
    Value <- MCValue
    ERR <- MCERR
    KernelRegs <- MCKernelRegs
    Sources <- MCSources
    Entry <- MCEntry
    Instr <- SupervisorInstr
    Exec <- MCExec
INVARIANTS
    NoNestedTrap
PROPERTIES
    ImplementsFifoTasks
    TasksRun
