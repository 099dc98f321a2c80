--------------------------- MODULE KernelPortsProofs ---------------------------
(***************************************************************************)
(* Both ports, for every number of tasks, every task code and every set of *)
(* devices: safety, and that they implement FifoTasks.                     *)
(*                                                                         *)
(* The M-mode port differs from Kernel in where it starts: mie and MTIP    *)
(* may be set, so KernelInv does not hold at reset. MachineReset does, and *)
(* the first step establishes KernelInv. From there on every step is a     *)
(* step of Kernel, but for the two of MachineFault and MachineExternal     *)
(* that Kernel has not: those keep KernelInv by a proof of their own, and  *)
(* the tasks see nothing of them.                                          *)
(***************************************************************************)
EXTENDS KernelPorts, KernelProofs

(* What start.S of rvos finds, and what keeps mtimecmp from mattering: MIE   *)
(* clear, in M-mode.                                                         *)
MachineReset ==
    /\ at = "reset"
    /\ TypeOK
    /\ mode = "S"
    /\ ~sstatus.sie
    /\ current = -1
    /\ "SSI" \notin sip

PortInv ==
    /\ port \in {"rvos_s_exp", "rvos"}
    /\ IF OnBareMachine /\ at = "reset" THEN MachineReset ELSE KernelInv

-----------------------------------------------------------------------------

(* Both ports start in PortInv.                                              *)
LEMMA PortInitInv == PortInit => PortInv
<1>1. CASE port = "rvos_s_exp" /\ Init
  BY <1>1, InitInv DEF PortInv, OnBareMachine
<1>2. CASE port = "rvos" /\ MachineInit
  <2>1. StatusTypes
    BY <1>2 DEF MachineInit, StatusTypes, Locations, Causes
  <2>2. InterruptTypes
    BY <1>2 DEF MachineInit, InterruptTypes, Interrupts
  <2>3. RegisterTypes
    BY <1>2, KernelAssumption DEF MachineInit, RegisterTypes
  <2>4. SchedTypes
    <3>1. ctx \in [Slots -> TaskState]
      BY <1>2, ImageAssumption DEF MachineInit, Blank, TaskState, GPR
    <3>2. QED
      BY <1>2, <3>1, SizesAssumption DEF MachineInit, SchedTypes
  <2>5. MachineReset
    BY <1>2, <2>1, <2>2, <2>3, <2>4 DEF MachineInit, MachineReset, TypeOK
  <2>6. QED
    BY <1>2, <2>5 DEF PortInv, MachineReset, OnBareMachine
<1>3. QED
  BY <1>1, <1>2 DEF PortInit

-----------------------------------------------------------------------------
(* Leaving reset. *)

(* Before start.S has run, only the timer and start.S can make a step.       *)
LEMMA ResetSteps == MachineReset /\ OnBareMachine /\ PortNext => MachineStart \/ TimerExpires
<1> SUFFICES ASSUME MachineReset, OnBareMachine, PortNext, ~MachineStart, ~TimerExpires PROVE FALSE
  OBVIOUS
<1> USE DEF MachineReset, OnBareMachine
<1>1. CASE BoardStep
  BY <1>1 DEF BoardStep, Board, OnBoard
<1>2. CASE BareMachineStep
  <2>1. CASE \/ BareMachine(MachineStartKernel) \/ BareMachine(MachinePlicInit)
             \/ BareMachine(MachineTimerInit) \/ BareMachine(MachineSchedInit)
             \/ BareMachine(MachineTaskCreate) \/ BareMachine(OsMainReturns) \/ BareMachine(Interrupt)
    BY <2>1 DEF BareMachine, MachineStartKernel, MachinePlicInit, PlicInit, MachineTimerInit, TimerInit,
                MachineSchedInit, SchedInit, MachineTaskCreate, TaskCreate, OsMainReturns, Interrupt
  <2>2. CASE \/ BareMachine(Compute) \/ BareMachine(MachineEcall) \/ BareMachine(MachineFault)
             \/ BareMachine(MachineYield) \/ BareMachine(MachineLock) \/ BareMachine(MachineUnlock)
    BY <2>2 DEF BareMachine, Compute, MachineEcall, MachineFault, MachineYield, TaskYield,
                MachineLock, SpinLock, MachineUnlock, SpinUnlock, TaskAt
  <2>3. CASE \/ BareMachine(MachineTrapVector) \/ BareMachine(MachineSoftware)
             \/ BareMachine(MachineTimer) \/ BareMachine(MachineExternal)
             \/ BareMachine(MachineSyscall) \/ BareMachine(MachineOops)
             \/ BareMachine(MachineTrapReturn) \/ BareMachine(MachineSchedule)
             \/ BareMachine(MachineSwitchTo)
    BY <2>3 DEF BareMachine, MachineTrapVector, TrapVector, MachineSoftware, SoftwareInterrupt,
                MachineTimer, TimerInterrupt, MachineExternal, MachineSyscall, Syscall,
                MachineOops, Oops, MachineTrapReturn, TrapReturn, MachineSchedule, Schedule,
                MachineSwitchTo, SwitchTo
  <2>4. QED
    BY <1>2, <2>1, <2>2, <2>3 DEF BareMachineStep, BareMachine
<1>3. CASE PortDeviceRaises
  BY <1>3 DEF PortDeviceRaises, DeviceRaises
<1>4. QED
  BY <1>1, <1>2, <1>3 DEF PortNext, PortHartStep, PortTimerExpires

(* start.S hands start_kernel a machine as Kernel's boot does.               *)
LEMMA MachineStartInv == MachineReset /\ MachineStart => KernelInv'
<1> SUFFICES ASSUME MachineReset, MachineStart PROVE KernelInv'
  OBVIOUS
<1>1. TypeOK'
  <2>1. sstatus' \in [sie : BOOLEAN, spie : BOOLEAN, spp : {"U", "S"}]
    BY DEF MachineReset, MachineStart, TypeOK, StatusTypes
  <2>2. QED
    BY <2>1 DEF MachineReset, MachineStart, TypeOK, StatusTypes, InterruptTypes, RegisterTypes, SchedTypes,
                Locations, sched, devices
<1>2. KernelMasked'
  BY DEF MachineReset, MachineStart, KernelMasked, TypeOK, StatusTypes
<1>3. BootState'
  BY DEF MachineReset, MachineStart, BootState, Booting, sched
<1>4. ContextOwned'
  BY DEF MachineReset, MachineStart, ContextOwned, Trapped, TypeOK, SchedTypes, sched
<1>5. SourcesEnabled' /\ TrapCause'
  BY DEF MachineStart, SourcesEnabled, TrapCause, Ticking, Scheduling
<1>6. NoStaleYield' /\ HaltsOnlyOnPanic'
  BY DEF MachineStart, NoStaleYield, HaltsOnlyOnPanic
<1>7. QED
  BY <1>1, <1>2, <1>3, <1>4, <1>5, <1>6 DEF KernelInv

(* mtime may pass mtimecmp before start.S has run.                           *)
LEMMA ResetTimer == MachineReset /\ TimerExpires => MachineReset'
<1> SUFFICES ASSUME MachineReset, TimerExpires PROVE MachineReset'
  OBVIOUS
<1>1. TypeOK'
  BY DEF MachineReset, TimerExpires, TypeOK, StatusTypes, InterruptTypes, RegisterTypes, SchedTypes,
         hart, sched
<1>2. QED
  BY <1>1 DEF MachineReset, TimerExpires, hart, sched

-----------------------------------------------------------------------------
(* The steps Kernel has not. *)

(* An instruction illegal in U-mode traps from the task that executes it.    *)
LEMMA MachineFaultInv == KernelInv /\ MachineFault => KernelInv'
<1> SUFFICES ASSUME KernelInv, MachineFault PROVE KernelInv'
  OBVIOUS
<1>1. at = "task" /\ pc \in PC /\ Trap("illegal")
  BY DEF MachineFault, TaskAt, KernelInv, TrapCause
<1>2. StatusTypes'
  BY <1>1 DEF Trap, KernelInv, TypeOK, StatusTypes, Locations, Causes, Exceptions
<1>3. InterruptTypes' /\ RegisterTypes' /\ SchedTypes'
  BY <1>1 DEF Trap, KernelInv, TypeOK, InterruptTypes, RegisterTypes, SchedTypes, sched, devices
<1>4. KernelMasked'
  BY <1>1 DEF Trap, KernelMasked
<1>5. BootState' /\ ContextOwned'
  BY <1>1 DEF Trap, KernelInv, BootState, ContextOwned, Booting, Trapped, sched
<1>6. SourcesEnabled'
  BY <1>1 DEF Trap, KernelInv, SourcesEnabled, Ticking, Scheduling, Locations, devices
<1>7. TrapCause' /\ NoStaleYield' /\ HaltsOnlyOnPanic'
  BY <1>1 DEF Trap, TrapCause, NoStaleYield, HaltsOnlyOnPanic
<1>8. QED
  BY <1>2, <1>3, <1>4, <1>5, <1>6, <1>7 DEF KernelInv, TypeOK

(* A completed source can interrupt again; the task resumes where it was.    *)
LEMMA MachineExternalInv == KernelInv /\ MachineExternal => KernelInv'
<1> SUFFICES ASSUME KernelInv, MachineExternal PROVE KernelInv'
  OBVIOUS
<1> USE DEF MachineExternal, csrs, hart, sched
<1>1. StatusTypes' /\ RegisterTypes' /\ SchedTypes'
  BY DEF KernelInv, TypeOK, StatusTypes, RegisterTypes, SchedTypes, Locations
<1>2. InterruptTypes'
  BY DEF KernelInv, TypeOK, InterruptTypes
<1>3. KernelMasked' /\ BootState' /\ ContextOwned'
  BY DEF KernelInv, KernelMasked, BootState, ContextOwned, Booting, Trapped
<1>4. SourcesEnabled' /\ TrapCause'
  BY DEF KernelInv, SourcesEnabled, TrapCause, Ticking, Scheduling, Locations
<1>5. NoStaleYield' /\ HaltsOnlyOnPanic'
  BY DEF NoStaleYield, HaltsOnlyOnPanic
<1>6. QED
  BY <1>1, <1>2, <1>3, <1>4, <1>5 DEF KernelInv, TypeOK

-----------------------------------------------------------------------------
(* No step leads back to reset. *)
LEMMA NoReset == at # "reset" /\ PortNext => at' # "reset"
<1> SUFFICES ASSUME at # "reset", PortNext PROVE at' # "reset"
  OBVIOUS
<1>1. CASE BoardStep
  BY <1>1 DEF BoardStep, Board, StartS, StartKernel, PlicInit, TimerInit, SchedInit, TaskCreate,
              OsMainReturns, Interrupt, Compute, Ecall, Fault, TaskYield, SpinLock, SpinUnlock, Trap,
              TrapVector, SoftwareInterrupt, TimerInterrupt, ExternalInterrupt, Syscall, Oops,
              TrapReturn, Schedule, SwitchTo, Sret
<1>2. CASE BareMachineStep
  BY <1>2 DEF BareMachineStep, BareMachine, MachineStart, MachineStartKernel, MachinePlicInit, PlicInit,
              MachineTimerInit, TimerInit, MachineSchedInit, SchedInit, MachineTaskCreate, TaskCreate,
              OsMainReturns, Interrupt, Compute, MachineEcall, MachineFault, MachineYield, TaskYield,
              MachineLock, SpinLock, MachineUnlock, SpinUnlock, Trap,
              MachineTrapVector, TrapVector, MachineSoftware, SoftwareInterrupt, MachineTimer,
              TimerInterrupt, MachineExternal, MachineSyscall, Syscall, MachineOops, Oops,
              MachineTrapReturn, TrapReturn, MachineSchedule, Schedule, MachineSwitchTo, SwitchTo, Sret
<1>3. CASE PortTimerExpires \/ PortDeviceRaises
  BY <1>3 DEF PortTimerExpires, TimerExpires, PortDeviceRaises, DeviceRaises
<1>4. QED
  BY <1>1, <1>2, <1>3 DEF PortNext, PortHartStep

(* Out of reset the M-mode port makes Kernel's steps, or one of the two.     *)
LEMMA BareMachineSteps ==
    KernelInv /\ at # "reset" /\ BareMachineStep => HartStep \/ MachineFault \/ MachineExternal
<1> SUFFICES ASSUME KernelInv, at # "reset", BareMachineStep
             PROVE  HartStep \/ MachineFault \/ MachineExternal
  OBVIOUS
<1>1. CASE BareMachine(MachineStart)
  BY <1>1 DEF BareMachine, MachineStart
<1>2. CASE BareMachine(MachineStartKernel)
  <2>1. ~sstatus.sie
    BY <1>2 DEF BareMachine, MachineStartKernel, KernelInv, KernelMasked
  <2>2. StartKernel
    BY <1>2, <2>1 DEF BareMachine, MachineStartKernel, StartKernel
  <2>3. QED
    BY <2>2 DEF HartStep, Boot
<1>3. CASE BareMachine(MachineEcall)
  <2>1. Ecall
    BY <1>3 DEF BareMachine, MachineEcall, Ecall, TaskAt, Calls
  <2>2. QED
    BY <2>1 DEF HartStep, TaskStep
<1>4. CASE \/ BareMachine(MachinePlicInit) \/ BareMachine(MachineTimerInit)
           \/ BareMachine(MachineSchedInit) \/ BareMachine(MachineTaskCreate) \/ BareMachine(OsMainReturns)
  BY <1>4 DEF BareMachine, MachinePlicInit, MachineTimerInit, MachineSchedInit, MachineTaskCreate,
              HartStep, Boot
<1>5. CASE \/ BareMachine(Interrupt) \/ BareMachine(Compute) \/ BareMachine(MachineYield)
           \/ BareMachine(MachineLock) \/ BareMachine(MachineUnlock)
  BY <1>5 DEF BareMachine, MachineYield, MachineLock, MachineUnlock, HartStep, TaskStep
<1>6. CASE \/ BareMachine(MachineTrapVector) \/ BareMachine(MachineSoftware) \/ BareMachine(MachineTimer)
           \/ BareMachine(MachineSyscall) \/ BareMachine(MachineOops)
           \/ BareMachine(MachineTrapReturn) \/ BareMachine(MachineSchedule)
           \/ BareMachine(MachineSwitchTo)
  BY <1>6 DEF BareMachine, MachineTrapVector, MachineSoftware, MachineTimer, MachineSyscall, MachineOops,
              MachineTrapReturn, MachineSchedule, MachineSwitchTo, HartStep, TrapPath
<1>7. CASE BareMachine(MachineFault) \/ BareMachine(MachineExternal)
  BY <1>7 DEF BareMachine
<1>8. QED
  BY <1>1, <1>2, <1>3, <1>4, <1>5, <1>6, <1>7 DEF BareMachineStep

(* Once KernelInv holds, both ports make Kernel's steps, or one of the two.   *)
LEMMA PortSteps ==
    KernelInv /\ (OnBareMachine => at # "reset") /\ PortNext => Next \/ MachineFault \/ MachineExternal
<1> SUFFICES ASSUME KernelInv, OnBareMachine => at # "reset", PortNext
             PROVE  Next \/ MachineFault \/ MachineExternal
  OBVIOUS
<1>1. CASE BoardStep
  BY <1>1 DEF BoardStep, Board, Next, HartStep, Boot, TaskStep, TrapPath
<1>2. CASE BareMachineStep
  <2>1. at # "reset"
    BY <1>2 DEF BareMachineStep, BareMachine
  <2>2. QED
    BY <1>2, <2>1, BareMachineSteps DEF Next
<1>3. CASE PortTimerExpires \/ PortDeviceRaises
  BY <1>3 DEF PortTimerExpires, PortDeviceRaises, Enabled, Next
<1>4. QED
  BY <1>1, <1>2, <1>3 DEF PortNext, PortHartStep

(* Every step of either port keeps KernelInv once it holds.                  *)
LEMMA PortKernelStep ==
    KernelInv /\ (OnBareMachine => at # "reset") /\ PortNext => KernelInv'
  BY PortSteps, InvStep, MachineFaultInv, MachineExternalInv

(* The port is chosen once. *)
LEMMA PortFixed == PortNext => UNCHANGED port
  BY DEF PortNext, PortHartStep, BoardStep, BareMachineStep, Board, BareMachine,
         PortTimerExpires, PortDeviceRaises

(* PortInv is inductive.                                                     *)
LEMMA PortInvStep == PortInv /\ [PortNext]_portVars => PortInv'
<1>1. ASSUME PortInv, PortNext, OnBareMachine /\ at = "reset" PROVE PortInv'
  <2>1. MachineReset /\ (MachineStart \/ TimerExpires)
    BY <1>1, ResetSteps DEF PortInv
  <2>2. CASE MachineStart
    BY <1>1, <2>1, <2>2, MachineStartInv, PortFixed DEF PortInv, MachineStart
  <2>3. CASE TimerExpires
    BY <1>1, <2>1, <2>3, ResetTimer, PortFixed DEF PortInv, MachineReset, OnBareMachine
  <2>4. QED
    BY <2>1, <2>2, <2>3
<1>2. ASSUME PortInv, PortNext, ~(OnBareMachine /\ at = "reset") PROVE PortInv'
  <2>1. KernelInv' /\ port' = port
    BY <1>2, PortKernelStep, PortFixed DEF PortInv
  <2>2. OnBareMachine' => at' # "reset"
    BY <1>2, <2>1, NoReset DEF OnBareMachine
  <2>3. QED
    BY <1>2, <2>1, <2>2 DEF PortInv, OnBareMachine
<1>3. ASSUME PortInv, UNCHANGED portVars PROVE PortInv'
  <2>1. port' = port /\ UNCHANGED vars
    BY <1>3 DEF portVars
  <2>2. KernelInv => KernelInv'
    BY <2>1, InvStep
  <2>3. MachineReset => MachineReset'
    <3>1. TypeOK => TypeOK'
      BY <2>1 DEF TypeOK, StatusTypes, InterruptTypes, RegisterTypes, SchedTypes,
                  vars, csrs, hart, sched, devices
    <3>2. QED
      BY <2>1, <3>1 DEF MachineReset, vars, csrs, hart, sched
  <2>4. at' = at
    BY <2>1 DEF vars
  <2>5. QED
    BY <1>3, <2>1, <2>2, <2>3, <2>4 DEF PortInv, OnBareMachine
<1>4. QED
  BY <1>1, <1>2, <1>3

(* PortInv holds in every state either port reaches.                         *)
THEOREM PortInvariant == PortSpec => []PortInv
  BY PortInitInv, PortInvStep, PTL DEF PortSpec

-----------------------------------------------------------------------------

(* Type correctness of both kernels' state.                                  *)
THEOREM PortsTypeCorrect == PortSpec => []TypeOK
<1>1. PortInv => TypeOK
  BY DEF PortInv, MachineReset, KernelInv
<1>2. QED
  BY <1>1, PortInvariant, PTL

(* Neither kernel is interrupted, at reset or in the trap path (trap_vector).*)
THEOREM PortsNeverNested == PortSpec => []NoNestedTrap
<1>1. PortInv => NoNestedTrap
  BY Masked DEF PortInv, MachineReset, NoNestedTrap, Takeable
<1>2. QED
  BY <1>1, PortInvariant, PTL

(* On both ports the next trap saves into the running task's own context.    *)
THEOREM PortsOwnContext == PortSpec => []TrapContextValid
<1>1. PortInv => TrapContextValid
  <2> SUFFICES ASSUME PortInv, at = "task" PROVE sscratch = current /\ current \in 0 .. top - 1
    BY DEF TrapContextValid
  <2>1. KernelInv
    BY DEF PortInv
  <2>2. sscratch = current /\ current \in -1 .. top - 1 /\ current # -1
    BY <2>1 DEF KernelInv, ContextOwned, Trapped
  <2>3. top \in Nat
    BY <2>1 DEF KernelInv, TypeOK, SchedTypes
  <2>4. QED
    BY <2>2, <2>3
<1>2. QED
  BY <1>1, PortInvariant, PTL

(* No schedule() of either port runs with a yield still pending.             *)
THEOREM PortsYieldAcknowledged == PortSpec => []NoStaleYield
<1>1. PortInv => NoStaleYield
  BY DEF PortInv, MachineReset, KernelInv, NoStaleYield
<1>2. QED
  BY <1>1, PortInvariant, PTL

(* On both ports a tick is coming while a task has the hart (timer_handler). *)
THEOREM PortsTickChain == PortSpec => []TickAlwaysComes
<1>1. PortInv => TickAlwaysComes
  BY DEF PortInv, MachineReset, KernelInv, SourcesEnabled, TickAlwaysComes, Ticking, Locations
<1>2. QED
  BY <1>1, PortInvariant, PTL

(* Both kernels stop in panic only, with the CLINT left as reset left it too.*)
THEOREM PortsStopInPanic == PortSpec => []HaltsOnlyOnPanic
<1>1. PortInv => HaltsOnlyOnPanic
  BY DEF PortInv, MachineReset, KernelInv, HaltsOnlyOnPanic
<1>2. QED
  BY <1>1, PortInvariant, PTL

-----------------------------------------------------------------------------
(* The refinement. *)

(* What rvos brings along from reset besides MachineReset: MPP is U, no trap *)
(* has been taken, and .bss is clear.                                        *)
MachineFresh ==
    /\ sstatus.spp = "U"
    /\ scause = "none"
    /\ BlankSlots

PortRefInv ==
    /\ PortInv
    /\ IF OnBareMachine /\ at = "reset" THEN MachineFresh ELSE RefInv

-----------------------------------------------------------------------------

(* Both ports start in PortRefInv.                                           *)
LEMMA PortRefInit == PortInit => PortRefInv
<1>1. CASE port = "rvos_s_exp" /\ Init
  BY <1>1, PortInitInv, RefInit DEF PortInit, PortRefInv, OnBareMachine
<1>2. CASE port = "rvos" /\ MachineInit
  <2>1. MachineFresh
    BY <1>2 DEF MachineInit, MachineFresh, BlankSlots
  <2>2. QED
    BY <1>2, <2>1, PortInitInv DEF PortInit, PortRefInv, MachineInit, OnBareMachine
<1>3. QED
  BY <1>1, <1>2 DEF PortInit

(* start.S of rvos leaves MPP, MPIE and tp as the first mret needs them.     *)
LEMMA MachineStartRef == MachineReset /\ MachineFresh /\ MachineStart => RefInv'
<1> SUFFICES ASSUME MachineReset, MachineFresh, MachineStart PROVE RefInv'
  OBVIOUS
<1>1. KernelInv'
  BY MachineStartInv
<1>2. ReturnMode'
  BY DEF MachineReset, MachineFresh, MachineStart, ReturnMode, TaskMode, TypeOK, StatusTypes
<1>3. HartKnown' /\ TrapState'
  BY DEF MachineFresh, MachineStart, HartKnown, TrapState
<1>4. BlankSlots'
  BY DEF MachineFresh, MachineStart, BlankSlots, sched
<1>5. QED
  BY <1>1, <1>2, <1>3, <1>4 DEF RefInv

(* An instruction illegal in U-mode is executed by a task in U-mode only.    *)
LEMMA MachineFaultRef == RefInv /\ MachineFault => RefInv'
<1> SUFFICES ASSUME RefInv, MachineFault PROVE RefInv'
  OBVIOUS
<1>1. at = "task" /\ mode = "U" /\ Trap("illegal")
  BY DEF MachineFault, TaskAt
<1>2. KernelInv'
  BY MachineFaultInv DEF RefInv
<1>3. ReturnMode'
  BY <1>1 DEF Trap, RefInv, ReturnMode, TaskMode
<1>4. HartKnown' /\ BlankSlots'
  BY <1>1 DEF Trap, RefInv, HartKnown, BlankSlots, sched
<1>5. TrapState'
  BY <1>1 DEF Trap, RefInv, KernelInv, ContextOwned, TrapState, sched
<1>6. QED
  BY <1>2, <1>3, <1>4, <1>5 DEF RefInv

(* Completing the claim changes the gateway alone.                           *)
LEMMA MachineExternalRef == RefInv /\ MachineExternal => RefInv'
<1> SUFFICES ASSUME RefInv, MachineExternal PROVE RefInv'
  OBVIOUS
<1>1. KernelInv'
  BY MachineExternalInv DEF RefInv
<1>2. QED
  BY <1>1 DEF MachineExternal, RefInv, ReturnMode, HartKnown, BlankSlots, TrapState, csrs, hart, sched

(* PortRefInv is inductive.                                                  *)
LEMMA PortRefStep == PortRefInv /\ [PortNext]_portVars => PortRefInv'
<1>1. ASSUME PortRefInv, PortNext, OnBareMachine /\ at = "reset" PROVE PortRefInv'
  <2>1. MachineReset /\ MachineFresh /\ (MachineStart \/ TimerExpires) /\ PortInv'
    BY <1>1, ResetSteps, PortInvStep DEF PortRefInv, PortInv
  <2>2. CASE MachineStart
    BY <1>1, <2>1, <2>2, MachineStartRef DEF PortRefInv, MachineStart
  <2>3. CASE TimerExpires
    <3>1. MachineFresh' /\ at' = "reset"
      BY <1>1, <2>1, <2>3 DEF TimerExpires, MachineFresh, BlankSlots, sched
    <3>2. QED
      BY <1>1, <2>1, <3>1, PortFixed DEF PortRefInv, OnBareMachine
  <2>4. QED
    BY <2>1, <2>2, <2>3
<1>2. ASSUME PortRefInv, PortNext, ~(OnBareMachine /\ at = "reset") PROVE PortRefInv'
  <2>1. RefInv /\ KernelInv /\ PortInv'
    BY <1>2, PortInvStep DEF PortRefInv, RefInv
  <2>2. Next \/ MachineFault \/ MachineExternal
    BY <1>2, <2>1, PortSteps
  <2>3. RefInv'
    BY <2>1, <2>2, RefStep, MachineFaultRef, MachineExternalRef
  <2>4. OnBareMachine' => at' # "reset"
    BY <1>2, NoReset, PortFixed DEF OnBareMachine
  <2>5. QED
    BY <2>1, <2>3, <2>4 DEF PortRefInv
<1>3. ASSUME PortRefInv, UNCHANGED portVars PROVE PortRefInv'
  <2>1. port' = port /\ UNCHANGED vars /\ PortInv'
    BY <1>3, PortInvStep DEF portVars, PortRefInv
  <2>2. RefInv => RefInv'
    BY <2>1, RefStep
  <2>3. (MachineFresh => MachineFresh') /\ at' = at
    BY <2>1 DEF MachineFresh, BlankSlots, vars, csrs, sched
  <2>4. QED
    BY <1>3, <2>1, <2>2, <2>3 DEF PortRefInv, OnBareMachine
<1>4. QED
  BY <1>1, <1>2, <1>3

-----------------------------------------------------------------------------
(* Steps the tasks do not see. *)

(* At reset there are no tasks to see anything.                              *)
LEMMA ResetStutters ==
    ASSUME MachineReset, MachineStart \/ TimerExpires
    PROVE  UNCHANGED Mapped
<1>1. UNCHANGED <<current, top, ctx, hid, scause>> /\ at = "reset" /\ at' \in {"reset", "start_kernel"}
  BY DEF MachineReset, MachineStart, TimerExpires, sched
<1>2. "SSI" \in sip' <=> "SSI" \in sip
  BY DEF MachineStart, TimerExpires
<1>3. Virt' = Virt
  BY <1>1 DEF Virt
<1>4. Yielding' = Yielding /\ ~HoldsLock /\ ~HoldsLock'
  BY <1>1, <1>2 DEF Yielding, HoldsLock
<1>5. QED
  BY <1>1, <1>3, <1>4, SameQueue DEF Mapped, HoldsLock

(* sepc keeps the pc of the instruction that was illegal.                    *)
LEMMA MachineFaultStutters ==
    ASSUME RefInv, RefInv', MachineFault
    PROVE  UNCHANGED Mapped
<1>1. at = "task" /\ mode = "U" /\ Trap("illegal")
  BY DEF MachineFault, TaskAt
<1>2. at' = "trap_vector" /\ UNCHANGED <<current, top, ctx, hid, sip, reg>> /\ sepc' = pc
  BY <1>1 DEF Trap, sched
<1>3. Virt' = Virt
  BY <1>1, <1>2, VirtForms, VirtFormsNext DEF MachineAt
<1>4. ~HoldsLock /\ ~HoldsLock'
  BY <1>1, <1>2 DEF HoldsLock, RefInv, ReturnMode, TaskMode
<1>5. Yielding' = Yielding
  BY <1>1, <1>2 DEF Yielding
<1>6. QED
  BY <1>2, <1>3, <1>4, <1>5, SameQueue DEF Mapped, HoldsLock

(* The external interrupt of rvos returns where it was taken as well.        *)
LEMMA MachineExternalStutters ==
    ASSUME RefInv, RefInv', MachineExternal
    PROVE  UNCHANGED Mapped
<1>1. UNCHANGED <<current, top, ctx, hid, sip>> /\ at = "trap_handler" /\ at' = "trap_return"
      /\ return_pc' = sepc
  BY DEF MachineExternal, csrs, sched
<1>2. ctx[current].pc = sepc /\ current \in Slots /\ ctx[current] \in TaskState
  BY <1>1, Bounds DEF RefInv, TrapState, Trapped
<1>3. ctx[current] = [pc |-> sepc, r |-> ctx[current].r]
  BY <1>2 DEF TaskState
<1>4. Virt' = Virt
  BY <1>1, <1>2, <1>3, Bounds, VirtForms, VirtFormsNext DEF MachineAt
<1>5. QED
  BY <1>1, <1>4, SameQueue DEF Mapped, HoldsLock, Yielding

-----------------------------------------------------------------------------
(* Both initial states map to the initial state.                             *)
LEMMA PortInitMaps == PortInit => Fifo!Init
<1>1. CASE Init
  BY <1>1, InitMaps
<1>2. CASE MachineInit
  <2>1. Waiting = <<>>
    BY <1>2 DEF MachineInit, Waiting
  <2>2. Virt = [t \in Slots |-> Blank]
    BY <1>2 DEF MachineInit, Virt
  <2>3. QED
    BY <1>2, <2>1, <2>2 DEF MachineInit, Fifo!Init, Fifo!NoTask, Fifo!Slots, Slots,
       Fifo!Blank, Blank, Fifo!GPR, GPR, Yielding, HoldsLock
<1>3. QED
  BY <1>1, <1>2 DEF PortInit

(* Every step of either port maps to a step or a stutter.                    *)
LEMMA PortStepMaps ==
    PortRefInv /\ PortRefInv' /\ [PortNext]_portVars => [Fifo!Next]_(Fifo!vars)
<1> SUFFICES ASSUME PortRefInv, PortRefInv', [PortNext]_portVars PROVE [Fifo!Next]_(Fifo!vars)
  OBVIOUS
<1>1. CASE PortNext /\ OnBareMachine /\ at = "reset"
  <2>1. MachineReset /\ (MachineStart \/ TimerExpires)
    BY <1>1, ResetSteps DEF PortRefInv, PortInv
  <2>2. QED
    BY <2>1, ResetStutters DEF Fifo!vars, Mapped
<1>2. CASE PortNext /\ ~(OnBareMachine /\ at = "reset")
  <2>1. OnBareMachine' => at' # "reset"
    BY <1>2, NoReset, PortFixed DEF OnBareMachine
  <2>2. RefInv /\ KernelInv /\ RefInv'
    BY <1>2, <2>1 DEF PortRefInv, RefInv
  <2>3. Next \/ MachineFault \/ MachineExternal
    BY <1>2, <2>2, PortSteps
  <2>4. CASE Next
    BY <2>2, <2>4, StepMaps
  <2>5. CASE MachineFault
    BY <2>2, <2>5, MachineFaultStutters DEF Fifo!vars, Mapped
  <2>6. CASE MachineExternal
    BY <2>2, <2>6, MachineExternalStutters DEF Fifo!vars, Mapped
  <2>7. QED
    BY <2>3, <2>4, <2>5, <2>6
<1>3. CASE UNCHANGED portVars
  BY <1>3 DEF portVars, vars, csrs, hart, sched, devices, Fifo!vars, Waiting, Cyclic, Virt, Yielding, HoldsLock
<1>4. QED
  BY <1>1, <1>2, <1>3

(* Both kernels give their tasks the machine FifoTasks describes (schedule,  *)
(* switch_to, trap_vector, do_syscall, task_yield, spin_lock).               *)
THEOREM PortsImplementFifoTasks == PortSpec => ImplementsFifoTasks
<1>1. PortSpec => []PortRefInv
  BY PortRefInit, PortRefStep, PTL DEF PortSpec
<1>2. QED
  BY <1>1, PortInitMaps, PortStepMaps, PTL DEF PortSpec, Fifo!Spec, ImplementsFifoTasks
==============================================================================
