----------------------------- MODULE KernelPorts -----------------------------
(***************************************************************************)
(* The two ports of the control core side by side, each from its own       *)
(* initial states and with its own steps: rvos_s_exp (Kernel) and rvos     *)
(* (MachineKernel). Both have to implement FifoTasks. port never changes.  *)
(***************************************************************************)
EXTENDS MachineKernel

VARIABLE port

portVars == <<port, vars>>

OnBoard == port = "rvos_s_exp"
OnBareMachine == port = "rvos"

(* plic_init of rvos enables UART0 only. *)
Enabled == IF OnBareMachine THEN Sources \cap {10} ELSE Sources

PortInit ==
    \/ port = "rvos_s_exp" /\ Init
    \/ port = "rvos" /\ MachineInit

Board(A) == OnBoard /\ A /\ UNCHANGED port
BareMachine(A) == OnBareMachine /\ A /\ UNCHANGED port

BoardStep ==
    \/ Board(StartS) \/ Board(StartKernel) \/ Board(PlicInit) \/ Board(TimerInit)
    \/ Board(SchedInit) \/ Board(TaskCreate) \/ Board(OsMainReturns) \/ Board(Interrupt)
    \/ Board(Compute) \/ Board(Ecall) \/ Board(Fault) \/ Board(TaskYield)
    \/ Board(SpinLock) \/ Board(SpinUnlock)
    \/ Board(TrapVector) \/ Board(SoftwareInterrupt) \/ Board(TimerInterrupt)
    \/ Board(ExternalInterrupt) \/ Board(Syscall) \/ Board(Oops) \/ Board(TrapReturn)
    \/ Board(Schedule) \/ Board(SwitchTo)

BareMachineStep ==
    \/ BareMachine(MachineStart) \/ BareMachine(MachineStartKernel) \/ BareMachine(MachinePlicInit)
    \/ BareMachine(MachineTimerInit) \/ BareMachine(MachineSchedInit) \/ BareMachine(MachineTaskCreate)
    \/ BareMachine(OsMainReturns) \/ BareMachine(Interrupt)
    \/ BareMachine(Compute) \/ BareMachine(MachineEcall) \/ BareMachine(MachineFault)
    \/ BareMachine(MachineYield) \/ BareMachine(MachineLock) \/ BareMachine(MachineUnlock)
    \/ BareMachine(MachineTrapVector) \/ BareMachine(MachineSoftware) \/ BareMachine(MachineTimer)
    \/ BareMachine(MachineExternal) \/ BareMachine(MachineSyscall) \/ BareMachine(MachineOops)
    \/ BareMachine(MachineTrapReturn) \/ BareMachine(MachineSchedule) \/ BareMachine(MachineSwitchTo)

PortHartStep == BoardStep \/ BareMachineStep

PortTimerExpires == UNCHANGED port /\ TimerExpires

PortDeviceRaises == UNCHANGED port /\ \E s \in Enabled : DeviceRaises(s)

PortNext == PortHartStep \/ PortTimerExpires \/ PortDeviceRaises

PortSpec == PortInit /\ [][PortNext]_portVars

(* The hart keeps executing and mtime keeps advancing; devices owe nothing. *)
PortFairSpec == PortSpec /\ WF_portVars(PortHartStep) /\ WF_portVars(PortTimerExpires)

-----------------------------------------------------------------------------
(* On the board every task gets the hart again and again, unless the kernel  *)
(* panics, whatever the devices do: a claimed source stays silent (schedule, *)
(* timer_handler, external_interrupt_handler). On the bare machine a device  *)
(* that was served interrupts again, before the tick can: there the tasks    *)
(* run if from some time on no device interrupts.                            *)
TasksRun ==
    (OnBoard \/ <>[](\A s \in Sources : gateway[s] # "pending")) => RunsUntilPanic
==============================================================================
