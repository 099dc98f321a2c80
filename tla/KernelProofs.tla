----------------------------- MODULE KernelProofs -----------------------------
(***************************************************************************)
(* Kernel for every number of tasks, every task code and every set of      *)
(* devices: safety, and that it implements FifoTasks.                      *)
(*                                                                         *)
(* NoNestedTrap is not inductive by itself: that interrupts stay masked    *)
(* inside the kernel depends on where the kernel was entered from, and a   *)
(* trap is only safe where sscratch names the current task. KernelInv adds *)
(* what each location guarantees to the next.                              *)
(*                                                                         *)
(* RefInv adds what the mapping to FifoTasks needs: the privilege mode     *)
(* sret restores, where the saved pc and the cause of a trap come from,    *)
(* and that a slot is blank until task_create.                             *)
(***************************************************************************)
EXTENDS Kernel, TLAPS, Sequences

Booting == {"reset", "start_kernel", "plic_init", "timer_init", "sched_init", "os_main"}
Ticking == Locations \ {"reset", "start_kernel", "plic_init", "timer_init", "shutdown"}
Scheduling == Ticking \ {"sched_init"}
Trapped == {"trap_vector", "trap_handler", "trap_return"}

(* Supervisor code runs with SIE clear, but for the firmware's own value.    *)
KernelMasked == at # "task" => mode = "S" /\ (sstatus.sie => at = "reset")

(* Until the first dispatch nothing has interrupted, yielded or run; after   *)
(* it there are tasks, if os_main has created any.                           *)
BootState ==
    /\ at \in Booting => current = -1 /\ "SSI" \notin sip
    /\ at = "reset" => Pending = {} /\ ~armed
    /\ at \notin Booting => top > 0 \/ CREATED = 0 \/ at = "shutdown"

(* The context pointer names the current task from its dispatch to the next  *)
(* schedule(), and _current a task that exists.                              *)
ContextOwned ==
    /\ current \in -1 .. top - 1
    /\ at \in {"task", "switch_to"} \union Trapped => current # -1
    /\ at \in {"task"} \union Trapped => sscratch = current

(* The sources the kernel lives by stay enabled, and the tick chain whole.   *)
SourcesEnabled ==
    /\ at \in Ticking => "STI" \in sie /\ (armed \/ "STI" \in sip)
    /\ at \in Scheduling => "SSI" \in sie

(* What a trap knows of its cause: the ecall is one of the kernel's calls,   *)
(* and a timer interrupt is not taken over a pending yield.                  *)
TrapCause ==
    /\ at = "task" => pc \in PC
    /\ at \in {"trap_vector", "trap_handler"} =>
        /\ sepc \in PC
        /\ scause # "none"
        /\ scause = "ecall" => Instr(sepc) \in Calls
        /\ scause = "STI" => "SSI" \notin sip
    /\ at = "trap_return" => return_pc \in PC

KernelInv ==
    /\ TypeOK
    /\ KernelMasked
    /\ BootState
    /\ ContextOwned
    /\ SourcesEnabled
    /\ TrapCause
    /\ NoStaleYield
    /\ HaltsOnlyOnPanic

-----------------------------------------------------------------------------

(* A slot's context can be replaced by any task state.                       *)
LEMMA ContextStore ==
    ASSUME NEW c \in [Slots -> TaskState], NEW i \in Slots, NEW s \in TaskState
    PROVE  [c EXCEPT ![i] = s] \in [Slots -> TaskState]
  OBVIOUS

(* The context task_create leaves is a task state.                           *)
LEMMA FreshContext ==
    ASSUME NEW c \in [Slots -> TaskState], NEW i \in Slots
    PROVE  [pc |-> Entry(i), r |-> [c[i].r EXCEPT !["sp"] = StackTop(i)]] \in TaskState
  BY ImageAssumption DEF TaskState, GPR

(* The result of a system call is a register value.                          *)
LEMMA CallReturns ==
    ASSUME NEW c \in [Slots -> TaskState], NEW i \in Slots, NEW s \in TaskState
    PROVE  [c EXCEPT ![i].r["a0"] = CallResult(s)] \in [Slots -> TaskState]
<1>1. CallResult(s) \in Value
  BY ImageAssumption DEF CallResult
<1>2. QED
  BY <1>1 DEF TaskState, GPR

(* The kernel starts in KernelInv.                                           *)
LEMMA InitInv == Init => KernelInv
<1> SUFFICES ASSUME Init PROVE KernelInv
  OBVIOUS
<1>1. TypeOK
  <2>1. ctx \in [Slots -> TaskState]
    BY ImageAssumption DEF Init, Blank, TaskState, GPR
  <2>2. reg \in [GPR -> Value]
    BY KernelAssumption DEF Init
  <2>3. sstatus \in [sie : BOOLEAN, spie : BOOLEAN, spp : {"U", "S"}]
    BY DEF Init
  <2>4. scause \in Causes /\ at \in Locations /\ mode \in {"U", "S"}
    BY DEF Init, Causes, Locations
  <2>5. hid \in [Slots -> {-1, HartId}] /\ gateway \in [Sources -> {"idle", "pending", "claimed"}]
    BY DEF Init
  <2>6. top \in 0 .. MAX_TASKS
    BY SizesAssumption DEF Init
  <2>7. QED
    BY <2>1, <2>2, <2>3, <2>4, <2>5, <2>6
    DEF Init, TypeOK, StatusTypes, InterruptTypes, RegisterTypes, SchedTypes
<1>2. KernelMasked /\ BootState
  BY DEF Init, KernelMasked, BootState, Booting, Pending
<1>3. ContextOwned /\ SourcesEnabled /\ TrapCause
  BY DEF Init, ContextOwned, SourcesEnabled, TrapCause, Trapped, Ticking, Scheduling, Locations
<1>4. NoStaleYield /\ HaltsOnlyOnPanic
  BY DEF Init, NoStaleYield, HaltsOnlyOnPanic
<1>5. QED
  BY <1>1, <1>2, <1>3, <1>4 DEF KernelInv

-----------------------------------------------------------------------------
(* Code addresses. *)

(* An instruction that does not trap leaves the task in its code.            *)
LEMMA TaskCode ==
    KernelInv /\ (Compute \/ TaskYield \/ SpinLock \/ SpinUnlock) => pc' \in PC
<1> SUFFICES ASSUME KernelInv, Compute \/ TaskYield \/ SpinLock \/ SpinUnlock PROVE pc' \in PC
  OBVIOUS
<1>1. pc \in PC /\ reg \in [GPR -> Value]
  BY DEF Compute, TaskYield, SpinLock, SpinUnlock, TaskAt, TrapCause, KernelInv, TypeOK, RegisterTypes
<1>2. CASE Compute
  <2>1. [pc |-> pc, r |-> reg] \in TaskState
    BY <1>1 DEF TaskState
  <2>2. Exec([pc |-> pc, r |-> reg]) \in TaskState
    BY <2>1, ImageAssumption
  <2>3. QED
    BY <1>2, <2>2 DEF Compute, TaskState
<1>3. CASE TaskYield \/ SpinLock \/ SpinUnlock
  BY <1>1, <1>3, ImageAssumption DEF TaskYield, SpinLock, SpinUnlock, TaskAt
<1>4. QED
  BY <1>2, <1>3

(* The instruction after a system call is in the task's code.                *)
LEMMA AfterEcall == KernelInv /\ Syscall => return_pc' \in PC
  BY ImageAssumption DEF KernelInv, Syscall, TrapCause, Calls

(* switch_to enters the next task in its code.                               *)
LEMMA DispatchCode == KernelInv /\ SwitchTo => current \in Slots /\ pc' \in PC /\ reg' \in [GPR -> Value]
  BY DEF KernelInv, TypeOK, SchedTypes, ContextOwned, SwitchTo, Sret, TaskState

-----------------------------------------------------------------------------
(* Types. One lemma per group of variables, one step per action that gives   *)
(* one of them a value it did not hold before.                               *)

(* Location, privilege mode, sstatus and scause keep their types.            *)
LEMMA StatusStep == KernelInv /\ Next => StatusTypes'
<1> SUFFICES ASSUME KernelInv, Next PROVE StatusTypes'
  OBVIOUS
<1> USE DEF KernelInv, TypeOK, StatusTypes, Locations, Causes, Interrupts, Exceptions, csrs, hart
<1>1. CASE StartS
  BY <1>1 DEF StartS
<1>2. CASE StartKernel \/ PlicInit \/ TimerInit \/ SchedInit \/ TaskCreate \/ OsMainReturns
  BY <1>2 DEF StartKernel, PlicInit, TimerInit, SchedInit, TaskCreate, OsMainReturns
<1>3. CASE Interrupt
  BY <1>3 DEF Interrupt, Trap, Highest
<1>4. ASSUME NEW c \in Exceptions, Trap(c) PROVE StatusTypes'
  BY <1>4 DEF Trap
<1>5. CASE Compute \/ TaskYield
  BY <1>5 DEF Compute, TaskYield
<1>6. CASE SpinLock
  BY <1>6 DEF SpinLock
<1>7. CASE SpinUnlock
  BY <1>7 DEF SpinUnlock
<1>8. CASE TrapVector \/ SoftwareInterrupt \/ TimerInterrupt \/ ExternalInterrupt
  BY <1>8 DEF TrapVector, SoftwareInterrupt, TimerInterrupt, ExternalInterrupt
<1>9. CASE Syscall \/ Oops \/ Schedule
  BY <1>9 DEF Syscall, Oops, Schedule
<1>10. CASE TrapReturn
  BY <1>10 DEF TrapReturn, Sret
<1>11. CASE SwitchTo
  BY <1>11 DEF SwitchTo, Sret
<1>12. CASE TimerExpires \/ \E s \in Sources : DeviceRaises(s)
  BY <1>12 DEF TimerExpires, DeviceRaises
<1>13. QED
  BY <1>1, <1>2, <1>3, <1>4, <1>5, <1>6, <1>7, <1>8, <1>9, <1>10, <1>11, <1>12
     DEF Next, HartStep, Boot, TaskStep, TrapPath, Ecall, Fault

(* The enable and pending bits, the timer and the gateways keep their types. *)
LEMMA InterruptStep == KernelInv /\ Next => InterruptTypes'
<1> SUFFICES ASSUME KernelInv, Next PROVE InterruptTypes'
  OBVIOUS
<1> USE DEF KernelInv, TypeOK, InterruptTypes, Interrupts, csrs, devices
<1>1. CASE Boot
  BY <1>1 DEF Boot, StartS, StartKernel, PlicInit, TimerInit, SchedInit, TaskCreate, OsMainReturns,
              TimerLoad
<1>2. CASE Interrupt \/ TaskStep
  BY <1>2 DEF Interrupt, TaskStep, Compute, Ecall, Fault, TaskYield, SpinLock, SpinUnlock, Trap
<1>3. CASE TrapVector \/ SoftwareInterrupt \/ Oops \/ Schedule
  BY <1>3 DEF TrapVector, SoftwareInterrupt, Oops, Schedule
<1>4. CASE TimerInterrupt \/ TrapReturn \/ SwitchTo
  BY <1>4 DEF TimerInterrupt, TimerLoad, TrapReturn, SwitchTo
<1>5. CASE ExternalInterrupt
  BY <1>5 DEF ExternalInterrupt
<1>6. CASE Syscall
  BY <1>6 DEF Syscall
<1>7. CASE TimerExpires
  BY <1>7 DEF TimerExpires
<1>8. ASSUME NEW s \in Sources, DeviceRaises(s) PROVE InterruptTypes'
  BY <1>8 DEF DeviceRaises
<1>9. QED
  BY <1>1, <1>2, <1>3, <1>4, <1>5, <1>6, <1>7, <1>8 DEF Next, HartStep, TrapPath

(* No register is saved after trap_vector has used it for itself.            *)
LEMMA NothingOverwritten ==
    ASSUME RegisterTypes, NEW old
    PROVE  ContextStored(old) = [pc |-> sepc, r |-> reg]
<1>1. reg = [g \in GPR |-> reg[g]]
  BY DEF RegisterTypes
<1>2. "t6" \in GPR /\ "t5" \in GPR
  BY DEF GPR
<1> DEFINE swapped == [reg EXCEPT !["t6"] = sscratch]
           saved == RegSave(swapped, old.r)
           stored == [saved EXCEPT !["t6"] = reg["t6"]]
<1>3. \A g \in GPR : g # "t6" => saved[g] = reg[g]
  BY <1>1 DEF RegSave
<1>4. stored = [g \in GPR |-> reg[g]]
  BY <1>2, <1>3 DEF RegSave
<1>5. ContextStored(old) = [pc |-> sepc, r |-> stored]
  BY <1>1, <1>2 DEF ContextStored
<1>6. QED
  BY <1>1, <1>4, <1>5

(* The pc's stay in task code and the registers hold values.                 *)
LEMMA RegisterStep == KernelInv /\ Next => RegisterTypes'
<1> SUFFICES ASSUME KernelInv, Next PROVE RegisterTypes'
  OBVIOUS
<1> USE DEF KernelInv, TypeOK, RegisterTypes, csrs, hart
<1>1. CASE Boot
  BY <1>1 DEF Boot, StartS, StartKernel, PlicInit, TimerInit, SchedInit, TaskCreate, OsMainReturns
<1>2. CASE Interrupt \/ Ecall \/ Fault
  BY <1>2 DEF Interrupt, Ecall, Fault, Trap, KERNEL_PC
<1>3. CASE Compute
  <2>1. [pc |-> pc, r |-> reg] \in TaskState
    BY <1>3 DEF Compute, TaskAt, TrapCause, TaskState
  <2>2. Exec([pc |-> pc, r |-> reg]) \in TaskState
    BY <2>1, ImageAssumption
  <2>3. QED
    BY <1>3, <2>2, TaskCode DEF Compute, TaskState
<1>4. CASE TaskYield \/ SpinLock \/ SpinUnlock
  BY <1>4, TaskCode DEF TaskYield, SpinLock, SpinUnlock
<1>5. CASE TrapVector
  BY <1>5, KernelAssumption DEF TrapVector
<1>6. CASE SoftwareInterrupt \/ TimerInterrupt \/ ExternalInterrupt \/ Oops \/ Schedule
  BY <1>6 DEF SoftwareInterrupt, TimerInterrupt, ExternalInterrupt, Oops, Schedule
<1>7. CASE Syscall
  BY <1>7, AfterEcall DEF Syscall
<1>8. CASE TrapReturn
  <2>1. sscratch \in Slots
    BY <1>8 DEF TrapReturn, ContextOwned, Trapped, SchedTypes
  <2>2. QED
    BY <1>8, <2>1 DEF TrapReturn, Sret, Saved, SchedTypes, TaskState
<1>9. CASE SwitchTo
  BY <1>9, DispatchCode DEF SwitchTo, Sret
<1>10. CASE TimerExpires \/ \E s \in Sources : DeviceRaises(s)
  BY <1>10 DEF TimerExpires, DeviceRaises
<1>11. QED
  BY <1>1, <1>2, <1>3, <1>4, <1>5, <1>6, <1>7, <1>8, <1>9, <1>10
     DEF Next, HartStep, TaskStep, TrapPath

(* The task table, its contexts and the pointers into it keep their types.   *)
LEMMA SchedStep == KernelInv /\ Next => SchedTypes'
<1> SUFFICES ASSUME KernelInv, Next PROVE SchedTypes'
  OBVIOUS
<1> USE DEF KernelInv, TypeOK, SchedTypes, csrs, sched
<1>1. CASE StartS \/ StartKernel \/ PlicInit \/ TimerInit \/ SchedInit \/ OsMainReturns
  BY <1>1 DEF StartS, StartKernel, PlicInit, TimerInit, SchedInit, OsMainReturns
<1>2. CASE TaskCreate
  <2>1. top \in Slots /\ top + 1 \in 0 .. MAX_TASKS
    BY <1>2, SizesAssumption DEF TaskCreate, Slots
  <2>2. [pc |-> Entry(top), r |-> [ctx[top].r EXCEPT !["sp"] = StackTop(top)]] \in TaskState
    BY <2>1, FreshContext
  <2>3. ctx' \in [Slots -> TaskState]
    BY <1>2, <2>1, <2>2, ContextStore DEF TaskCreate
  <2>4. QED
    BY <1>2, <2>1, <2>3 DEF TaskCreate
<1>3. CASE Interrupt \/ TaskStep
  BY <1>3 DEF Interrupt, TaskStep, Compute, Ecall, Fault, TaskYield, SpinLock, SpinUnlock, Trap
<1>4. CASE TrapVector
  <2>1. [pc |-> sepc, r |-> reg] \in TaskState
    BY <1>4 DEF TrapVector, TrapCause, RegisterTypes, TaskState
  <2>2. ContextStored(ctx[sscratch]) = [pc |-> sepc, r |-> reg]
    BY NothingOverwritten
  <2>3. QED
    BY <1>4, <2>1, <2>2 DEF TrapVector
<1>5. CASE SoftwareInterrupt \/ TimerInterrupt \/ ExternalInterrupt \/ Oops \/ TrapReturn
  BY <1>5 DEF SoftwareInterrupt, TimerInterrupt, ExternalInterrupt, Oops, TrapReturn
<1>6. CASE Syscall
  <2>1. sscratch \in Slots /\ Saved(sscratch) \in TaskState
    BY <1>6 DEF Syscall, ContextOwned, Trapped, Saved
  <2>2. ctx' \in [Slots -> TaskState]
    BY <1>6, <2>1, CallReturns DEF Syscall
  <2>3. hid' \in [Slots -> {-1, HartId}]
    BY <1>6 DEF Syscall, RegisterTypes
  <2>4. QED
    BY <1>6, <2>2, <2>3 DEF Syscall
<1>7. CASE Schedule
  <2>1. top > 0 => (current + 1) % top \in Slots
    BY SizesAssumption DEF Slots
  <2>2. QED
    BY <1>7, <2>1, SizesAssumption DEF Schedule
<1>8. CASE SwitchTo
  BY <1>8 DEF SwitchTo
<1>9. CASE TimerExpires \/ \E s \in Sources : DeviceRaises(s)
  BY <1>9 DEF TimerExpires, DeviceRaises
<1>10. QED
  BY <1>1, <1>2, <1>3, <1>4, <1>5, <1>6, <1>7, <1>8, <1>9 DEF Next, HartStep, Boot, TrapPath

(* Every step keeps every type.                                              *)
LEMMA TypeStep == KernelInv /\ [Next]_vars => TypeOK'
<1>1. KernelInv /\ Next => TypeOK'
  BY StatusStep, InterruptStep, RegisterStep, SchedStep DEF TypeOK
<1>2. KernelInv /\ UNCHANGED vars => TypeOK'
  BY DEF KernelInv, TypeOK, StatusTypes, InterruptTypes, RegisterTypes, SchedTypes,
         vars, csrs, hart, sched, devices
<1>3. QED
  BY <1>1, <1>2

-----------------------------------------------------------------------------
(* Masking. *)
LEMMA Masked == KernelInv => NoNestedTrap
  BY DEF KernelInv, KernelMasked, BootState, NoNestedTrap, Takeable

(* A trap is taken from a task only.                                         *)
LEMMA TrapsFromTasks == KernelInv /\ (Interrupt \/ Ecall \/ Fault) => at = "task" /\ at' = "trap_vector"
  BY Masked DEF NoNestedTrap, Interrupt, Ecall, Fault, TaskAt, Trap

(* Traps mask, sret restores; nothing else in the kernel touches SIE.        *)
LEMMA KernelMaskedStep == KernelInv /\ Next => KernelMasked'
<1> SUFFICES ASSUME KernelInv, Next PROVE KernelMasked'
  OBVIOUS
<1> USE DEF KernelInv, KernelMasked, Locations, Booting, Ticking, Scheduling, Trapped, csrs, hart, sched, devices
<1>1. CASE Boot
  BY <1>1 DEF Boot, StartS, StartKernel, PlicInit, TimerInit, SchedInit, TaskCreate, OsMainReturns,
              TimerLoad
<1>2. CASE Interrupt
  BY <1>2, TrapsFromTasks DEF Interrupt, Trap
<1>3. CASE Ecall \/ Fault
  BY <1>3, TrapsFromTasks DEF Ecall, Fault, Trap
<1>4. CASE Compute \/ TaskYield \/ SpinLock \/ SpinUnlock
  BY <1>4 DEF Compute, TaskYield, SpinLock, SpinUnlock, TaskAt
<1>5. CASE TrapVector
  BY <1>5 DEF TrapVector
<1>6. CASE SoftwareInterrupt \/ TimerInterrupt
  BY <1>6 DEF SoftwareInterrupt, TimerInterrupt, TimerLoad
<1>7. CASE ExternalInterrupt \/ Syscall \/ Oops
  BY <1>7 DEF ExternalInterrupt, Syscall, Oops
<1>8. CASE TrapReturn \/ SwitchTo
  BY <1>8 DEF TrapReturn, SwitchTo, Sret
<1>9. CASE Schedule
  BY <1>9 DEF Schedule
<1>10. CASE TimerExpires \/ \E s \in Sources : DeviceRaises(s)
  BY <1>10 DEF TimerExpires, DeviceRaises
<1>11. QED
  BY <1>1, <1>2, <1>3, <1>4, <1>5, <1>6, <1>7, <1>8, <1>9, <1>10
     DEF Next, HartStep, TaskStep, TrapPath

(* Boot leaves its locations for good.                                       *)
LEMMA BootStateStep == KernelInv /\ Next => BootState'
<1> SUFFICES ASSUME KernelInv, Next PROVE BootState'
  OBVIOUS
<1> USE DEF KernelInv, BootState, Locations, Booting, Ticking, Scheduling, Trapped, csrs, hart, sched, devices
<1>1. CASE Boot
  BY <1>1, SizesAssumption, KernelAssumption
     DEF Boot, StartS, StartKernel, PlicInit, TimerInit, SchedInit, TaskCreate, OsMainReturns,
         TimerLoad, KernelMasked, TypeOK, SchedTypes
<1>2. CASE Interrupt
  BY <1>2, TrapsFromTasks DEF Interrupt, Trap
<1>3. CASE Ecall \/ Fault
  BY <1>3, TrapsFromTasks DEF Ecall, Fault, Trap
<1>4. CASE Compute \/ TaskYield \/ SpinLock \/ SpinUnlock
  BY <1>4 DEF Compute, TaskYield, SpinLock, SpinUnlock, TaskAt
<1>5. CASE TrapVector
  BY <1>5 DEF TrapVector
<1>6. CASE SoftwareInterrupt \/ TimerInterrupt
  BY <1>6 DEF SoftwareInterrupt, TimerInterrupt, TimerLoad
<1>7. CASE ExternalInterrupt \/ Syscall \/ Oops
  BY <1>7 DEF ExternalInterrupt, Syscall, Oops
<1>8. CASE TrapReturn \/ SwitchTo
  BY <1>8 DEF TrapReturn, SwitchTo, Sret
<1>9. CASE Schedule
  BY <1>9 DEF Schedule
<1>10. CASE TimerExpires \/ \E s \in Sources : DeviceRaises(s)
  BY <1>10 DEF TimerExpires, DeviceRaises
<1>11. QED
  BY <1>1, <1>2, <1>3, <1>4, <1>5, <1>6, <1>7, <1>8, <1>9, <1>10
     DEF Next, HartStep, TaskStep, TrapPath

(* switch_to moves sscratch to the task schedule() chose.                    *)
LEMMA ContextOwnedStep == KernelInv /\ Next => ContextOwned'
<1> SUFFICES ASSUME KernelInv, Next PROVE ContextOwned'
  OBVIOUS
<1> USE DEF KernelInv, ContextOwned, Locations, Booting, Ticking, Scheduling, Trapped, csrs, hart, sched, devices
<1>1. CASE Boot
  BY <1>1, SizesAssumption DEF Boot, StartS, StartKernel, PlicInit, TimerInit, SchedInit, TaskCreate, OsMainReturns,
     BootState, TypeOK, SchedTypes
<1>2. CASE Interrupt
  BY <1>2, TrapsFromTasks DEF Interrupt, Trap
<1>3. CASE Ecall \/ Fault
  BY <1>3, TrapsFromTasks DEF Ecall, Fault, Trap
<1>4. CASE Compute \/ TaskYield \/ SpinLock \/ SpinUnlock
  BY <1>4 DEF Compute, TaskYield, SpinLock, SpinUnlock, TaskAt
<1>5. CASE TrapVector
  BY <1>5 DEF TrapVector
<1>6. CASE SoftwareInterrupt \/ TimerInterrupt
  BY <1>6 DEF SoftwareInterrupt, TimerInterrupt, TimerLoad
<1>7. CASE ExternalInterrupt \/ Syscall \/ Oops
  BY <1>7 DEF ExternalInterrupt, Syscall, Oops
<1>8. CASE TrapReturn \/ SwitchTo
  BY <1>8 DEF TrapReturn, SwitchTo, Sret
<1>9. CASE Schedule
  <2>1. top \in Nat
    BY DEF TypeOK, SchedTypes
  <2>2. top > 0 => (current + 1) % top \in 0 .. top - 1
    BY <2>1
  <2>3. QED
    BY <1>9, <2>1, <2>2 DEF Schedule
<1>10. CASE TimerExpires \/ \E s \in Sources : DeviceRaises(s)
  BY <1>10 DEF TimerExpires, DeviceRaises
<1>11. QED
  BY <1>1, <1>2, <1>3, <1>4, <1>5, <1>6, <1>7, <1>8, <1>9, <1>10
     DEF Next, HartStep, TaskStep, TrapPath

(* Each tick is reloaded before the handler of the last one gives up the hart. *)
LEMMA SourcesEnabledStep == KernelInv /\ Next => SourcesEnabled'
<1> SUFFICES ASSUME KernelInv, Next PROVE SourcesEnabled'
  OBVIOUS
<1> USE DEF KernelInv, SourcesEnabled, Locations, Booting, Ticking, Scheduling, Trapped, csrs, hart, sched, devices
<1>1. CASE Boot
  BY <1>1 DEF Boot, StartS, StartKernel, PlicInit, TimerInit, SchedInit, TaskCreate, OsMainReturns,
              TimerLoad, KernelMasked
<1>2. CASE Interrupt
  BY <1>2, TrapsFromTasks DEF Interrupt, Trap
<1>3. CASE Ecall \/ Fault
  BY <1>3, TrapsFromTasks DEF Ecall, Fault, Trap
<1>4. CASE Compute \/ TaskYield \/ SpinLock \/ SpinUnlock
  BY <1>4 DEF Compute, TaskYield, SpinLock, SpinUnlock, TaskAt
<1>5. CASE TrapVector
  BY <1>5 DEF TrapVector
<1>6. CASE SoftwareInterrupt \/ TimerInterrupt
  BY <1>6 DEF SoftwareInterrupt, TimerInterrupt, TimerLoad
<1>7. CASE ExternalInterrupt \/ Syscall \/ Oops
  BY <1>7 DEF ExternalInterrupt, Syscall, Oops
<1>8. CASE TrapReturn \/ SwitchTo
  BY <1>8 DEF TrapReturn, SwitchTo, Sret
<1>9. CASE Schedule
  BY <1>9 DEF Schedule
<1>10. CASE TimerExpires \/ \E s \in Sources : DeviceRaises(s)
  BY <1>10 DEF TimerExpires, DeviceRaises
<1>11. QED
  BY <1>1, <1>2, <1>3, <1>4, <1>5, <1>6, <1>7, <1>8, <1>9, <1>10
     DEF Next, HartStep, TaskStep, TrapPath

(* A pending yield is taken before a tick; a call returns after its ecall.    *)
LEMMA TrapCauseStep == KernelInv /\ Next => TrapCause'
<1> SUFFICES ASSUME KernelInv, Next PROVE TrapCause'
  OBVIOUS
<1> USE DEF KernelInv, TrapCause, Locations, Booting, Ticking, Scheduling, Trapped, csrs, hart, sched, devices
<1>1. CASE Boot
  BY <1>1 DEF Boot, StartS, StartKernel, PlicInit, TimerInit, SchedInit, TaskCreate, OsMainReturns,
              TimerLoad, KernelMasked
<1>2. CASE Interrupt
  BY <1>2, TrapsFromTasks DEF Interrupt, Trap, Highest, Takeable, Pending, SourcesEnabled
<1>3. CASE Ecall \/ Fault
  <2>1. at = "task" /\ at' = "trap_vector"
    BY <1>3, TrapsFromTasks
  <2>2. sepc' = pc /\ scause' = IF Ecall THEN "ecall" ELSE "illegal"
    BY <1>3 DEF Ecall, Fault, Trap, TaskAt, LockOps, Calls
  <2>3. Ecall => Instr(pc) \in Calls
    BY DEF Ecall, TaskAt
  <2>4. QED
    BY <2>1, <2>2, <2>3
<1>4. CASE Compute \/ TaskYield \/ SpinLock \/ SpinUnlock
  BY <1>4, TaskCode DEF Compute, TaskYield, SpinLock, SpinUnlock, TaskAt
<1>5. CASE TrapVector
  BY <1>5 DEF TrapVector
<1>6. CASE SoftwareInterrupt \/ TimerInterrupt
  BY <1>6 DEF SoftwareInterrupt, TimerInterrupt, TimerLoad
<1>7. CASE ExternalInterrupt \/ Syscall \/ Oops
  BY <1>7, AfterEcall DEF ExternalInterrupt, Syscall, Oops
<1>8. CASE TrapReturn \/ SwitchTo
  <2>1. pc' \in PC
    BY <1>8, DispatchCode DEF TrapReturn, Sret
  <2>2. at' = "task"
    BY <1>8 DEF TrapReturn, SwitchTo, Sret
  <2>3. QED
    BY <2>1, <2>2
<1>9. CASE Schedule
  BY <1>9 DEF Schedule
<1>10. CASE TimerExpires \/ \E s \in Sources : DeviceRaises(s)
  BY <1>10 DEF TimerExpires, DeviceRaises
<1>11. QED
  BY <1>1, <1>2, <1>3, <1>4, <1>5, <1>6, <1>7, <1>8, <1>9, <1>10
     DEF Next, HartStep, TaskStep, TrapPath

(* schedule() is reached with SSIP clear, from boot, a yield or a tick.      *)
LEMMA NoStaleYieldStep == KernelInv /\ Next => NoStaleYield'
<1> SUFFICES ASSUME KernelInv, Next PROVE NoStaleYield'
  OBVIOUS
<1> USE DEF KernelInv, NoStaleYield, Locations, Booting, Ticking, Scheduling, Trapped, csrs, hart, sched, devices
<1>1. CASE Boot
  BY <1>1 DEF Boot, StartS, StartKernel, PlicInit, TimerInit, SchedInit, TaskCreate, OsMainReturns,
              BootState
<1>2. CASE Interrupt
  BY <1>2, TrapsFromTasks DEF Interrupt, Trap
<1>3. CASE Ecall \/ Fault
  BY <1>3, TrapsFromTasks DEF Ecall, Fault, Trap
<1>4. CASE Compute \/ TaskYield \/ SpinLock \/ SpinUnlock
  BY <1>4 DEF Compute, TaskYield, SpinLock, SpinUnlock, TaskAt
<1>5. CASE TrapVector
  BY <1>5 DEF TrapVector
<1>6. CASE SoftwareInterrupt \/ TimerInterrupt
  BY <1>6 DEF SoftwareInterrupt, TimerInterrupt, TimerLoad, TrapCause
<1>7. CASE ExternalInterrupt \/ Syscall \/ Oops
  BY <1>7 DEF ExternalInterrupt, Syscall, Oops
<1>8. CASE TrapReturn \/ SwitchTo
  BY <1>8 DEF TrapReturn, SwitchTo, Sret
<1>9. CASE Schedule
  BY <1>9 DEF Schedule
<1>10. CASE TimerExpires \/ \E s \in Sources : DeviceRaises(s)
  BY <1>10 DEF TimerExpires, DeviceRaises
<1>11. QED
  BY <1>1, <1>2, <1>3, <1>4, <1>5, <1>6, <1>7, <1>8, <1>9, <1>10
     DEF Next, HartStep, TaskStep, TrapPath

(* The kernel stops in panic only.                                           *)
LEMMA HaltsOnlyOnPanicStep == KernelInv /\ Next => HaltsOnlyOnPanic'
<1> SUFFICES ASSUME KernelInv, Next PROVE HaltsOnlyOnPanic'
  OBVIOUS
<1> USE DEF KernelInv, HaltsOnlyOnPanic, Locations, Booting, Ticking, Scheduling, Trapped, csrs, hart, sched, devices
<1>1. CASE Boot
  BY <1>1 DEF Boot, StartS, StartKernel, PlicInit, TimerInit, SchedInit, TaskCreate, OsMainReturns,
              TimerLoad, KernelMasked
<1>2. CASE Interrupt
  BY <1>2, TrapsFromTasks DEF Interrupt, Trap
<1>3. CASE Ecall \/ Fault
  BY <1>3, TrapsFromTasks DEF Ecall, Fault, Trap
<1>4. CASE Compute \/ TaskYield \/ SpinLock \/ SpinUnlock
  BY <1>4 DEF Compute, TaskYield, SpinLock, SpinUnlock, TaskAt
<1>5. CASE TrapVector
  BY <1>5 DEF TrapVector
<1>6. CASE SoftwareInterrupt \/ TimerInterrupt
  BY <1>6 DEF SoftwareInterrupt, TimerInterrupt, TimerLoad
<1>7. CASE ExternalInterrupt \/ Syscall \/ Oops
  BY <1>7 DEF ExternalInterrupt, Syscall, Oops
<1>8. CASE TrapReturn \/ SwitchTo
  BY <1>8 DEF TrapReturn, SwitchTo, Sret
<1>9. CASE Schedule
  BY <1>9 DEF Schedule, BootState, TypeOK, SchedTypes
<1>10. CASE TimerExpires \/ \E s \in Sources : DeviceRaises(s)
  BY <1>10 DEF TimerExpires, DeviceRaises
<1>11. QED
  BY <1>1, <1>2, <1>3, <1>4, <1>5, <1>6, <1>7, <1>8, <1>9, <1>10
     DEF Next, HartStep, TaskStep, TrapPath

-----------------------------------------------------------------------------
(* KernelInv is inductive.                                                   *)
LEMMA InvStep == KernelInv /\ [Next]_vars => KernelInv'
<1>1. KernelInv /\ Next => KernelInv'
  BY TypeStep, KernelMaskedStep, BootStateStep, ContextOwnedStep, SourcesEnabledStep, TrapCauseStep,
     NoStaleYieldStep, HaltsOnlyOnPanicStep DEF KernelInv
<1>2. KernelInv /\ UNCHANGED vars => KernelInv'
  <2> SUFFICES ASSUME KernelInv, UNCHANGED vars PROVE KernelInv'
    OBVIOUS
  <2>1. TypeOK'
    BY TypeStep
  <2>2. QED
    BY <2>1 DEF KernelInv, KernelMasked, BootState, ContextOwned, SourcesEnabled, TrapCause,
         NoStaleYield, HaltsOnlyOnPanic, Pending, vars, csrs, hart, sched, devices
<1>3. QED
  BY <1>1, <1>2

(* KernelInv holds in every state the kernel reaches.                        *)
THEOREM KernelInvariant == Spec => []KernelInv
  BY InitInv, InvStep, PTL DEF Spec

(* Type correctness of the kernel's state (struct context, _top, _current).  *)
THEOREM TypeCorrect == Spec => []TypeOK
<1>1. KernelInv => TypeOK
  BY DEF KernelInv
<1>2. QED
  BY <1>1, KernelInvariant, PTL

(* No interrupt is taken inside the kernel (trap_vector, boot).              *)
THEOREM NeverNested == Spec => []NoNestedTrap
  BY Masked, KernelInvariant, PTL

(* The next trap saves into the running task's own context.                  *)
THEOREM OwnContext == Spec => []TrapContextValid
<1>1. KernelInv => TrapContextValid
  <2> SUFFICES ASSUME KernelInv, at = "task" PROVE sscratch = current /\ current \in 0 .. top - 1
    BY DEF TrapContextValid
  <2>1. sscratch = current /\ current \in -1 .. top - 1 /\ current # -1
    BY DEF KernelInv, ContextOwned, Trapped
  <2>2. top \in Nat
    BY DEF KernelInv, TypeOK, SchedTypes
  <2>3. QED
    BY <2>1, <2>2
<1>2. QED
  BY <1>1, KernelInvariant, PTL

(* schedule() never runs with a yield still pending (trap_handler case 1).   *)
THEOREM YieldAcknowledged == Spec => []NoStaleYield
<1>1. KernelInv => NoStaleYield
  BY DEF KernelInv
<1>2. QED
  BY <1>1, KernelInvariant, PTL

(* The tick chain is never broken while a task has the hart (timer_handler). *)
THEOREM TickChain == Spec => []TickAlwaysComes
<1>1. KernelInv => TickAlwaysComes
  BY DEF KernelInv, SourcesEnabled, TickAlwaysComes, Ticking, Locations
<1>2. QED
  BY <1>1, KernelInvariant, PTL

(* The kernel stops in panic only: an unhandled exception, or no task.       *)
THEOREM StopsInPanic == Spec => []HaltsOnlyOnPanic
<1>1. KernelInv => HaltsOnlyOnPanic
  BY DEF KernelInv
<1>2. QED
  BY <1>1, KernelInvariant, PTL

-----------------------------------------------------------------------------
(* Kernel implements FifoTasks.                                              *)

TaskMode == IF CONFIG_SYSCALL THEN "U" ELSE "S"

(* sret always returns to the tasks' mode, and in S-mode with SIE set.       *)
ReturnMode ==
    /\ at = "reset" => sstatus.spp = "U"
    /\ at = "task" => mode = TaskMode
    /\ at \notin {"reset", "task"} =>
        sstatus.spp = TaskMode /\ (~CONFIG_SYSCALL => sstatus.spie)

HartKnown == at # "reset" => tp = HartId

BlankSlots == \A i \in Slots : i >= top => ctx[i] = Blank

(* From trap_vector to the handler: what the cause says of the pending bits, *)
(* and that the saved pc is sepc.                                            *)
TrapState ==
    /\ current = -1 => scause = "none"
    /\ at \in {"trap_vector", "trap_handler"} =>
        /\ scause = "SSI" => "SSI" \in sip
        /\ scause = "ecall" => CONFIG_SYSCALL /\ "SSI" \notin sip
    /\ at = "trap_handler" => ctx[current].pc = sepc

RefInv == KernelInv /\ ReturnMode /\ HartKnown /\ BlankSlots /\ TrapState

(* The kernel starts in RefInv.                                              *)
LEMMA RefInit == Init => RefInv
<1> SUFFICES ASSUME Init PROVE RefInv
  OBVIOUS
<1>1. KernelInv
  BY InitInv
<1>2. ReturnMode /\ HartKnown /\ TrapState
  BY DEF Init, ReturnMode, HartKnown, TrapState
<1>3. BlankSlots
  BY DEF Init, BlankSlots
<1>4. QED
  BY <1>1, <1>2, <1>3 DEF RefInv

(* A trap saves the mode and, in S-mode, the set SIE it interrupted.         *)
LEMMA ReturnModeStep == RefInv /\ Next => ReturnMode'
<1> SUFFICES ASSUME RefInv, Next PROVE ReturnMode'
  OBVIOUS
<1> USE DEF RefInv, ReturnMode, csrs, hart, sched, devices
<1>1. CASE Boot
  <2>1. CASE StartS
    BY <2>1 DEF StartS, TaskMode
  <2>2. CASE ~StartS
    BY <1>1, <2>2 DEF Boot, StartKernel, PlicInit, TimerInit, SchedInit, TaskCreate, OsMainReturns
  <2>3. QED
    BY <2>1, <2>2
<1>2. CASE Interrupt
  <2>1. at = "task" /\ at' = "trap_vector"
    BY <1>2, TrapsFromTasks
  <2>2. mode = "U" \/ sstatus.sie
    BY <1>2 DEF Interrupt, Takeable
  <2>3. mode = TaskMode /\ sstatus' = [sie |-> FALSE, spie |-> sstatus.sie, spp |-> mode]
    BY <1>2, <2>1 DEF Interrupt, Trap
  <2>4. QED
    BY <2>1, <2>2, <2>3 DEF TaskMode
<1>3. CASE Ecall \/ Fault
  <2>1. at = "task" /\ at' = "trap_vector" /\ mode = TaskMode
    BY <1>3, TrapsFromTasks
  <2>2. CONFIG_SYSCALL
    BY <1>3, <2>1 DEF Ecall, Fault, TaskMode
  <2>3. sstatus' = [sie |-> FALSE, spie |-> sstatus.sie, spp |-> mode]
    BY <1>3 DEF Ecall, Fault, Trap
  <2>4. QED
    BY <2>1, <2>2, <2>3
<1>4. CASE Compute \/ TaskYield \/ SpinLock \/ SpinUnlock
  BY <1>4 DEF Compute, TaskYield, SpinLock, SpinUnlock, TaskAt
<1>5. CASE TrapVector
  BY <1>5 DEF TrapVector
<1>6. CASE SoftwareInterrupt \/ TimerInterrupt
  BY <1>6 DEF SoftwareInterrupt, TimerInterrupt, TimerLoad
<1>7. CASE ExternalInterrupt \/ Syscall \/ Oops
  BY <1>7 DEF ExternalInterrupt, Syscall, Oops
<1>8. CASE TrapReturn \/ SwitchTo
  BY <1>8 DEF TrapReturn, SwitchTo, Sret
<1>9. CASE Schedule
  BY <1>9 DEF Schedule
<1>10. CASE TimerExpires \/ \E s \in Sources : DeviceRaises(s)
  BY <1>10 DEF TimerExpires, DeviceRaises
<1>11. QED
  BY <1>1, <1>2, <1>3, <1>4, <1>5, <1>6, <1>7, <1>8, <1>9, <1>10
     DEF Next, HartStep, TaskStep, TrapPath

(* tp is written once, at entry.                                             *)
LEMMA HartKnownStep == RefInv /\ Next => HartKnown'
<1> SUFFICES ASSUME RefInv, Next PROVE HartKnown'
  OBVIOUS
<1> USE DEF RefInv, HartKnown, csrs, hart, sched, devices
<1>1. CASE Boot
  BY <1>1 DEF Boot, StartS, StartKernel, PlicInit, TimerInit, SchedInit, TaskCreate, OsMainReturns
<1>2. CASE Interrupt
  BY <1>2, TrapsFromTasks DEF Interrupt, Trap
<1>3. CASE Ecall \/ Fault
  BY <1>3, TrapsFromTasks DEF Ecall, Fault, Trap
<1>4. CASE Compute \/ TaskYield \/ SpinLock \/ SpinUnlock
  BY <1>4 DEF Compute, TaskYield, SpinLock, SpinUnlock, TaskAt
<1>5. CASE TrapVector
  BY <1>5 DEF TrapVector
<1>6. CASE SoftwareInterrupt \/ TimerInterrupt
  BY <1>6 DEF SoftwareInterrupt, TimerInterrupt, TimerLoad
<1>7. CASE ExternalInterrupt \/ Syscall \/ Oops
  BY <1>7 DEF ExternalInterrupt, Syscall, Oops
<1>8. CASE TrapReturn \/ SwitchTo
  BY <1>8 DEF TrapReturn, SwitchTo, Sret
<1>9. CASE Schedule
  BY <1>9 DEF Schedule
<1>10. CASE TimerExpires \/ \E s \in Sources : DeviceRaises(s)
  BY <1>10 DEF TimerExpires, DeviceRaises
<1>11. QED
  BY <1>1, <1>2, <1>3, <1>4, <1>5, <1>6, <1>7, <1>8, <1>9, <1>10
     DEF Next, HartStep, TaskStep, TrapPath

(* Only task_create writes a slot at or above _top.                          *)
LEMMA BlankSlotsStep == RefInv /\ Next => BlankSlots'
<1> SUFFICES ASSUME RefInv, Next PROVE BlankSlots'
  OBVIOUS
<1> USE DEF RefInv, BlankSlots, csrs, hart, sched, devices, KernelInv, TypeOK, SchedTypes, ContextOwned, Slots, Trapped
<1>1. CASE Boot
  <2>1. CASE TaskCreate
    <3>1. top \in Nat /\ top' = top + 1 /\ \A i \in Slots : i /= top => ctx'[i] = ctx[i]
      BY <2>1 DEF TaskCreate
    <3>2. QED
      BY <3>1
  <2>2. CASE ~TaskCreate
    BY <1>1, <2>2 DEF Boot, StartS, StartKernel, PlicInit, TimerInit, SchedInit, OsMainReturns
  <2>3. QED
    BY <2>1, <2>2
<1>2. CASE Interrupt
  BY <1>2, TrapsFromTasks DEF Interrupt, Trap
<1>3. CASE Ecall \/ Fault
  BY <1>3, TrapsFromTasks DEF Ecall, Fault, Trap
<1>4. CASE Compute \/ TaskYield \/ SpinLock \/ SpinUnlock
  BY <1>4 DEF Compute, TaskYield, SpinLock, SpinUnlock, TaskAt
<1>5. CASE TrapVector
  BY <1>5 DEF TrapVector
<1>6. CASE SoftwareInterrupt \/ TimerInterrupt
  BY <1>6 DEF SoftwareInterrupt, TimerInterrupt, TimerLoad
<1>7. CASE ExternalInterrupt \/ Syscall \/ Oops
  <2>1. CASE Syscall
    <3>1. \A i \in Slots : i >= top => i /= sscratch
      BY <2>1 DEF Syscall
    <3>2. \A i \in Slots : i /= sscratch => ctx'[i] = ctx[i]
      BY <2>1 DEF Syscall
    <3>3. top' = top
      BY <2>1 DEF Syscall
    <3>4. QED
      BY <3>1, <3>2, <3>3
  <2>2. CASE ExternalInterrupt \/ Oops
    BY <2>2 DEF ExternalInterrupt, Oops
  <2>3. QED
    BY <1>7, <2>1, <2>2
<1>8. CASE TrapReturn \/ SwitchTo
  BY <1>8 DEF TrapReturn, SwitchTo, Sret
<1>9. CASE Schedule
  BY <1>9 DEF Schedule
<1>10. CASE TimerExpires \/ \E s \in Sources : DeviceRaises(s)
  BY <1>10 DEF TimerExpires, DeviceRaises
<1>11. QED
  BY <1>1, <1>2, <1>3, <1>4, <1>5, <1>6, <1>7, <1>8, <1>9, <1>10
     DEF Next, HartStep, TaskStep, TrapPath

(* Traps come from tasks, and a task has no interrupt takeable.              *)
LEMMA TrapStateStep == RefInv /\ Next => TrapState'
<1> SUFFICES ASSUME RefInv, Next PROVE TrapState'
  OBVIOUS
<1> USE DEF RefInv, TrapState, csrs, hart, sched, devices, KernelInv, TypeOK, SchedTypes, ContextOwned, BootState, Trapped, Booting
<1>1. CASE Boot
  BY <1>1 DEF Boot, StartS, StartKernel, PlicInit, TimerInit, SchedInit, TaskCreate, OsMainReturns
<1>2. CASE Interrupt
  <2>1. at = "task" /\ at' = "trap_vector" /\ current /= -1 /\ current' = current
    BY <1>2, TrapsFromTasks DEF Interrupt, Trap
  <2>2. scause' = Highest(Takeable) /\ sip' = sip
    BY <1>2 DEF Interrupt, Trap
  <2>3. scause' = "SSI" => "SSI" \in sip
    BY <2>2 DEF Highest, Takeable, Pending
  <2>4. scause' /= "ecall"
    BY <2>2 DEF Highest
  <2>5. QED
    BY <2>1, <2>2, <2>3, <2>4
<1>3. CASE Ecall \/ Fault
  <2>1. at = "task" /\ at' = "trap_vector" /\ current /= -1 /\ current' = current
    BY <1>3, TrapsFromTasks DEF Ecall, Fault, Trap
  <2>2. scause' = (IF Ecall THEN "ecall" ELSE "illegal") /\ sip' = sip
    BY <1>3 DEF Ecall, Fault, Trap, TaskAt, LockOps, Calls
  <2>3. CONFIG_SYSCALL /\ "SSI" \notin sip
    <3>1. CONFIG_SYSCALL /\ mode = "U" /\ Takeable = {}
      BY <1>3, <2>1 DEF Ecall, Fault, TaskAt, ReturnMode, TaskMode
    <3>2. "SSI" \in sie
      BY <2>1 DEF SourcesEnabled, Scheduling, Ticking, Locations
    <3>3. QED
      BY <3>1, <3>2 DEF Takeable, Pending
  <2>4. QED
    BY <2>1, <2>2, <2>3
<1>4. CASE Compute \/ TaskYield \/ SpinLock \/ SpinUnlock
  BY <1>4 DEF Compute, TaskYield, SpinLock, SpinUnlock, TaskAt
<1>5. CASE TrapVector
  <2>1. ContextStored(ctx[sscratch]) = [pc |-> sepc, r |-> reg]
    BY NothingOverwritten
  <2>2. QED
    BY <1>5, <2>1 DEF TrapVector
<1>6. CASE SoftwareInterrupt \/ TimerInterrupt
  BY <1>6 DEF SoftwareInterrupt, TimerInterrupt, TimerLoad
<1>7. CASE ExternalInterrupt \/ Syscall \/ Oops
  BY <1>7 DEF ExternalInterrupt, Syscall, Oops
<1>8. CASE TrapReturn \/ SwitchTo
  BY <1>8 DEF TrapReturn, SwitchTo, Sret
<1>9. CASE Schedule
  BY <1>9 DEF Schedule
<1>10. CASE TimerExpires \/ \E s \in Sources : DeviceRaises(s)
  BY <1>10 DEF TimerExpires, DeviceRaises
<1>11. QED
  BY <1>1, <1>2, <1>3, <1>4, <1>5, <1>6, <1>7, <1>8, <1>9, <1>10
     DEF Next, HartStep, TaskStep, TrapPath

(* RefInv is inductive.                                                      *)
LEMMA RefStep == RefInv /\ [Next]_vars => RefInv'
<1>1. RefInv /\ Next => RefInv'
  BY InvStep, ReturnModeStep, HartKnownStep, BlankSlotsStep, TrapStateStep DEF RefInv
<1>2. RefInv /\ UNCHANGED vars => RefInv'
  <2> SUFFICES ASSUME RefInv, UNCHANGED vars PROVE RefInv'
    OBVIOUS
  <2>1. KernelInv'
    BY InvStep DEF RefInv
  <2>2. QED
    BY <2>1 DEF RefInv, ReturnMode, HartKnown, BlankSlots, TrapState, vars, csrs, hart, sched, devices
<1>3. QED
  BY <1>1, <1>2

-----------------------------------------------------------------------------
(* The mapping of one step. Mapped is the whole abstract state.              *)

Mapped == <<Waiting, current, Virt, hid, Yielding, HoldsLock>>

(* Where the running task's machine is, location by location.                *)
MachineAt ==
    /\ at = "task" => Virt = [ctx EXCEPT ![current] = [pc |-> pc, r |-> reg]]
    /\ at = "trap_vector" => Virt = [ctx EXCEPT ![current] = [pc |-> sepc, r |-> reg]]
    /\ at = "trap_return" => Virt = [ctx EXCEPT ![current] = [pc |-> return_pc, r |-> ctx[current].r]]
    /\ at \notin {"task", "trap_vector", "trap_return"} => Virt = ctx

(* Virt has the form its location says.                                      *)
LEMMA VirtForms == RefInv => MachineAt
  BY DEF RefInv, KernelInv, TypeOK, SchedTypes, Virt, MachineAt

(* The same of the next state.                                               *)
LEMMA VirtFormsNext == RefInv' => MachineAt'
  BY VirtForms, PTL

(* The queue depends on _current and _top alone.                             *)
LEMMA SameQueue == UNCHANGED <<current, top>> => Waiting' = Waiting
  BY DEF Waiting, Cyclic

(* The lock can be held in task code only.                                   *)
LEMMA LockLocal == at # "task" => ~HoldsLock
  BY DEF HoldsLock

(* The same of the next state.                                               *)
LEMMA LockLocalNext == at' # "task" => ~HoldsLock'
  BY DEF HoldsLock

(* The ranges the mapping reads off KernelInv.                               *)
LEMMA Bounds ==
    RefInv =>
        /\ top \in Nat /\ current \in -1 .. top - 1
        /\ ctx \in [Slots -> TaskState]
        /\ at \in {"task", "switch_to"} \union Trapped => current \in Slots
        /\ at \in {"task"} \union Trapped => sscratch = current
  BY DEF RefInv, KernelInv, TypeOK, SchedTypes, ContextOwned

-----------------------------------------------------------------------------
(* Steps the tasks do not see. *)

(* Boot, but for task_create.                                                *)
LEMMA BootStutters ==
    ASSUME RefInv, RefInv', Boot, ~TaskCreate
    PROVE  UNCHANGED Mapped
<1>1. UNCHANGED <<current, top, ctx, hid, scause>> /\ current = -1 /\ scause = "none"
  BY DEF Boot, StartS, StartKernel, PlicInit, TimerInit, SchedInit, OsMainReturns, csrs, sched,
         RefInv, KernelInv, BootState, Booting, TrapState
<1>2. at # "task" /\ at' \notin {"task", "trap_vector", "trap_return"} /\ at \notin {"trap_vector", "trap_return"}
  BY DEF Boot, StartS, StartKernel, PlicInit, TimerInit, SchedInit, OsMainReturns
<1>3. "SSI" \in sip' <=> "SSI" \in sip
  BY DEF Boot, StartS, StartKernel, PlicInit, TimerInit, TimerLoad, SchedInit, OsMainReturns, csrs
<1>4. Virt' = Virt
  BY <1>1, <1>2, VirtForms, VirtFormsNext DEF MachineAt
<1>5. Yielding' = Yielding
  BY <1>1, <1>3 DEF Yielding
<1>6. QED
  BY <1>1, <1>2, <1>4, <1>5, SameQueue DEF Mapped, HoldsLock

(* Taking a trap: sepc keeps the pc, and a masked task takes no interrupt.   *)
LEMMA TrapStutters ==
    ASSUME RefInv, RefInv', Interrupt \/ Ecall \/ Fault
    PROVE  UNCHANGED Mapped
<1>1. at = "task" /\ at' = "trap_vector"
  BY TrapsFromTasks DEF RefInv
<1>2. UNCHANGED <<current, top, ctx, hid, sip, reg>> /\ sepc' = pc
  BY DEF Interrupt, Ecall, Fault, Trap, sched
<1>3. Virt' = Virt
  BY <1>1, <1>2, VirtForms, VirtFormsNext DEF MachineAt
<1>4. ~HoldsLock
  BY <1>1 DEF HoldsLock, Interrupt, Takeable, Ecall, Fault, RefInv, ReturnMode, TaskMode
<1>5. QED
  BY <1>1, <1>2, <1>3, <1>4, SameQueue DEF Mapped, HoldsLock, Yielding

(* trap_vector stores what the task had.                                     *)
LEMMA VectorStutters ==
    ASSUME RefInv, RefInv', TrapVector
    PROVE  UNCHANGED Mapped
<1>1. ctx' = [ctx EXCEPT ![current] = [pc |-> sepc, r |-> reg]]
  <2>1. ContextStored(ctx[current]) = [pc |-> sepc, r |-> reg]
    BY NothingOverwritten DEF RefInv, KernelInv, TypeOK
  <2>2. QED
    BY <2>1, Bounds DEF TrapVector, Trapped
<1>2. UNCHANGED <<current, top, hid, sip>> /\ at = "trap_vector" /\ at' = "trap_handler"
  BY DEF TrapVector, csrs
<1>3. Virt' = Virt
  BY <1>1, <1>2, VirtForms, VirtFormsNext DEF MachineAt
<1>4. QED
  BY <1>2, <1>3, SameQueue DEF Mapped, HoldsLock, Yielding

(* Handlers that go on to schedule() or to panic; schedule() with no task.   *)
LEMMA HandlerStutters ==
    ASSUME RefInv, RefInv', SoftwareInterrupt \/ TimerInterrupt \/ Oops \/ (Schedule /\ top <= 0)
    PROVE  UNCHANGED Mapped
<1>1. UNCHANGED <<current, top, ctx, hid>>
  BY DEF SoftwareInterrupt, TimerInterrupt, Oops, Schedule, sched
<1>2. at \notin {"task", "trap_vector", "trap_return"} /\ at' \notin {"task", "trap_vector", "trap_return"}
  BY DEF SoftwareInterrupt, TimerInterrupt, Oops, Schedule
<1>3. Virt' = Virt
  BY <1>1, <1>2, VirtForms, VirtFormsNext DEF MachineAt
<1>4. Yielding' = Yielding
  <2>1. CASE SoftwareInterrupt
    BY <2>1 DEF SoftwareInterrupt, Yielding, RefInv, TrapState
  <2>2. CASE TimerInterrupt
    BY <2>2 DEF TimerInterrupt, TimerLoad, Yielding
  <2>3. CASE Oops
    BY <2>3 DEF Oops, Yielding, csrs
  <2>4. CASE Schedule /\ top <= 0
    BY <2>4, Bounds DEF Schedule, Yielding, csrs, RefInv, TrapState
  <2>5. QED
    BY <2>1, <2>2, <2>3, <2>4
<1>5. QED
  BY <1>1, <1>2, <1>3, <1>4, SameQueue DEF Mapped, HoldsLock

(* An external interrupt returns where it was taken.                         *)
LEMMA ExternalStutters ==
    ASSUME RefInv, RefInv', ExternalInterrupt
    PROVE  UNCHANGED Mapped
<1>1. UNCHANGED <<current, top, ctx, hid, sip>> /\ at = "trap_handler" /\ at' = "trap_return"
      /\ return_pc' = sepc
  BY DEF ExternalInterrupt, csrs, sched
<1>2. ctx[current].pc = sepc /\ current \in Slots /\ ctx[current] \in TaskState
  BY <1>1, Bounds DEF RefInv, TrapState, Trapped
<1>3. ctx[current] = [pc |-> sepc, r |-> ctx[current].r]
  BY <1>2 DEF TaskState
<1>4. Virt' = Virt
  BY <1>1, <1>2, <1>3, Bounds, VirtForms, VirtFormsNext DEF MachineAt
<1>5. QED
  BY <1>1, <1>4, SameQueue DEF Mapped, HoldsLock, Yielding

(* sret gives the task back what was kept for it, with SIE set in S-mode.    *)
LEMMA ReturnStutters ==
    ASSUME RefInv, RefInv', TrapReturn \/ SwitchTo
    PROVE  UNCHANGED Mapped
<1>1. UNCHANGED <<current, top, ctx, hid, sip>> /\ at \in {"trap_return", "switch_to"} /\ at' = "task"
  BY DEF TrapReturn, SwitchTo, Sret, sched
<1>2. current \in Slots /\ ctx[current] \in TaskState
  BY <1>1, Bounds DEF Trapped
<1>3. ctx[current] = [pc |-> ctx[current].pc, r |-> ctx[current].r]
  BY <1>2 DEF TaskState
<1>4. Virt' = Virt
  <2>1. CASE TrapReturn
    BY <2>1, <1>1, <1>2, Bounds, VirtForms, VirtFormsNext DEF MachineAt, TrapReturn, Sret, Saved, Trapped
  <2>2. CASE SwitchTo
    BY <2>2, <1>1, <1>2, <1>3, Bounds, VirtForms, VirtFormsNext DEF MachineAt, SwitchTo, Sret
  <2>3. QED
    BY <2>1, <2>2
<1>5. ~HoldsLock'
  BY <1>1 DEF HoldsLock, TrapReturn, SwitchTo, Sret, RefInv, ReturnMode
<1>6. QED
  BY <1>1, <1>4, <1>5, SameQueue DEF Mapped, HoldsLock, Yielding

(* Time and devices.                                                         *)
LEMMA OutsideStutters ==
    ASSUME RefInv, RefInv', TimerExpires \/ \E s \in Sources : DeviceRaises(s)
    PROVE  UNCHANGED Mapped
<1>1. UNCHANGED <<at, current, top, ctx, hid, sstatus, pc, reg, sepc, return_pc, scause>>
  BY DEF TimerExpires, DeviceRaises, csrs, hart, sched
<1>2. "SSI" \in sip' <=> "SSI" \in sip
  BY DEF TimerExpires, DeviceRaises, csrs
<1>3. Virt' = Virt
  BY <1>1 DEF Virt
<1>4. QED
  BY <1>1, <1>2, <1>3, SameQueue DEF Mapped, HoldsLock, Yielding

-----------------------------------------------------------------------------
(* Steps the tasks see. *)

(* task_create fills a blank slot and queues its task.                       *)
LEMMA CreateSimulates ==
    ASSUME RefInv, RefInv', TaskCreate
    PROVE  Fifo!Create
<1>1. current = -1 /\ at = "os_main" /\ at' = "os_main" /\ top \in Slots /\ top \in Nat
  BY Bounds, SizesAssumption DEF TaskCreate, Slots, RefInv, KernelInv, BootState, Booting
<1>2. UNCHANGED <<current, hid, sip, scause, sstatus>> /\ top' = top + 1
  BY DEF TaskCreate, csrs
<1>3. Waiting = [i \in 1 .. top |-> i - 1] /\ Waiting' = [i \in 1 .. top + 1 |-> i - 1]
  BY <1>1, <1>2 DEF Waiting
<1>4. Waiting \in Seq(Int) /\ Len(Waiting) = top
  BY <1>1, <1>3
<1>5. Waiting' = Append(Waiting, Len(Waiting))
  BY <1>1, <1>3, <1>4
<1>6. Virt' = [Virt EXCEPT ![Len(Waiting)] = Fifo!Fresh(Len(Waiting))]
  <2>1. Virt = ctx /\ Virt' = ctx'
    BY <1>1, VirtForms, VirtFormsNext DEF MachineAt
  <2>2. ctx[top] = Blank
    BY <1>1 DEF RefInv, BlankSlots
  <2>3. [Blank.r EXCEPT !["sp"] = StackTop(top)] =
           [g \in GPR |-> IF g = "sp" THEN StackTop(top) ELSE 0]
    BY DEF Blank, GPR
  <2>4. ctx' = [ctx EXCEPT ![top] = [pc |-> Entry(top), r |-> [g \in GPR |-> IF g = "sp" THEN StackTop(top) ELSE 0]]]
    BY <1>1, <2>2, <2>3, Bounds DEF TaskCreate
  <2>5. QED
    BY <1>4, <2>1, <2>4 DEF Fifo!Fresh, Fifo!StackTop, Fifo!GPR, StackTop, GPR
<1>7. Len(Waiting) < MAX_TASKS
  BY <1>4 DEF TaskCreate
<1>8. QED
  BY <1>1, <1>2, <1>5, <1>6, <1>7 DEF Fifo!Create, Fifo!NoTask, Yielding, HoldsLock

(* (current + 1) % top without the %.                                        *)
LEMMA NextInCycle ==
    ASSUME NEW n \in Nat, n > 0, NEW c \in -1 .. n - 1
    PROVE  (c + 1) % n = IF c + 1 < n THEN c + 1 ELSE 0
  OBVIOUS

(* schedule() moves the head of the queue to the hart.                       *)
LEMMA DispatchSimulates ==
    ASSUME RefInv, RefInv', Schedule, top > 0
    PROVE  Fifo!Dispatch
<1> DEFINE queue == IF current = -1 THEN Waiting ELSE Append(Waiting, current)
           next == IF current + 1 < top THEN current + 1 ELSE 0
<1>1. top \in Nat /\ current \in -1 .. top - 1
  BY Bounds
<1>2. current' = next /\ UNCHANGED <<top, ctx, hid, sip, scause>> /\ at = "schedule" /\ at' = "switch_to"
  BY <1>1, NextInCycle DEF Schedule, csrs
<1>3. queue = [i \in 1 .. top |-> IF current + i < top THEN current + i ELSE current + i - top]
  <2>1. CASE current = -1
    BY <1>1, <2>1 DEF Waiting
  <2>2. CASE current # -1
    BY <1>1, <2>2 DEF Waiting, Cyclic
  <2>3. QED
    BY <2>1, <2>2
<1> HIDE DEF queue
<1>4. queue \in Seq(Int) /\ Len(queue) = top
  <2>1. \A i \in 1 .. top : (IF current + i < top THEN current + i ELSE current + i - top) \in Int
    BY <1>1
  <2>2. queue \in [1 .. top -> Int]
    BY <1>3, <2>1
  <2>3. QED
    BY <1>1, <2>2
<1>5. queue # <<>> /\ Head(queue) = next
  BY <1>1, <1>3, <1>4
<1>6. Tail(queue) = [i \in 1 .. top - 1 |-> queue[i + 1]]
  BY <1>1, <1>3, <1>4, <1>5
<1>7. Waiting' = [i \in 1 .. top - 1 |-> IF next + i < top THEN next + i ELSE next + i - top]
  BY <1>1, <1>2 DEF Waiting, Cyclic
<1>8. Waiting' = Tail(queue)
  BY <1>1, <1>3, <1>6, <1>7
<1>9. Virt' = Virt
  BY <1>2, VirtForms, VirtFormsNext DEF MachineAt
<1>10. ~Yielding'
  BY <1>2 DEF Yielding, RefInv, KernelInv, NoStaleYield
<1>11. QED
  BY <1>2, <1>5, <1>8, <1>9, <1>10 DEF queue, Fifo!Dispatch, Fifo!NoTask, HoldsLock, Yielding

(* A task with a yield pending executes only while it holds the lock.        *)
LEMMA YieldStops ==
    ASSUME RefInv, at = "task", Takeable = {}
    PROVE  Yielding => HoldsLock
<1>1. "SSI" \in sie /\ mode = TaskMode
  BY DEF RefInv, KernelInv, SourcesEnabled, Scheduling, Ticking, Locations, ReturnMode
<1>2. QED
  BY <1>1 DEF Yielding, HoldsLock, Takeable, Pending, TaskMode

(* A plain instruction is the task's own step.                               *)
LEMMA ComputeSimulates ==
    ASSUME RefInv, RefInv', Compute
    PROVE  Fifo!Compute
<1>1. at = "task" /\ at' = "task" /\ Takeable = {} /\ Instr(pc) = "compute" /\ current \in Slots
  BY Bounds DEF Compute, TaskAt
<1>2. UNCHANGED <<current, top, ctx, hid, sip, scause, sstatus>>
  BY DEF Compute, csrs, sched
<1>3. [pc |-> pc', r |-> reg'] = Exec([pc |-> pc, r |-> reg])
  <2>1. [pc |-> pc, r |-> reg] \in TaskState
    BY <1>1 DEF TaskState, RefInv, KernelInv, TypeOK, RegisterTypes, TrapCause
  <2>2. Exec([pc |-> pc, r |-> reg]) \in TaskState
    BY <2>1, ImageAssumption
  <2>3. QED
    BY <2>2 DEF Compute, TaskState
<1>4. Virt[current] = [pc |-> pc, r |-> reg] /\ Virt' = [Virt EXCEPT ![current] = [pc |-> pc', r |-> reg']]
  BY <1>1, <1>2, Bounds, VirtForms, VirtFormsNext DEF MachineAt
<1>5. Fifo!Executes("compute", Exec(Virt[current]))
  <2>1. current # -1
    BY <1>1 DEF Slots
  <2>2. Yielding => HoldsLock
    BY <1>1, YieldStops
  <2>3. Instr(Virt[current].pc) = "compute"
    BY <1>1, <1>4
  <2>4. Virt' = [Virt EXCEPT ![current] = Exec(Virt[current])]
    BY <1>3, <1>4
  <2>5. QED
    BY <2>1, <2>2, <2>3, <2>4 DEF Fifo!Executes, Fifo!NoTask
<1>6. QED
  BY <1>1, <1>2, <1>5, SameQueue DEF Fifo!Compute, Yielding, HoldsLock

(* The three S-mode calls that do not trap.                                  *)
LEMMA InlineSimulates ==
    ASSUME RefInv, RefInv', TaskYield \/ SpinLock \/ SpinUnlock
    PROVE  Fifo!Yield \/ Fifo!Lock \/ Fifo!Unlock
<1>1. at = "task" /\ at' = "task" /\ Takeable = {} /\ current \in Slots /\ ~CONFIG_SYSCALL
  BY Bounds DEF TaskYield, SpinLock, SpinUnlock, TaskAt, RefInv, ReturnMode, TaskMode
<1>2. UNCHANGED <<current, top, ctx, hid, scause, reg>> /\ pc' = pc + 4
  BY DEF TaskYield, SpinLock, SpinUnlock, sched
<1>3. Virt[current] = [pc |-> pc, r |-> reg] /\ Virt' = [Virt EXCEPT ![current] = [pc |-> pc + 4, r |-> reg]]
  BY <1>1, <1>2, Bounds, VirtForms, VirtFormsNext DEF MachineAt
<1>4. Fifo!Skip4(Virt[current]) = [pc |-> pc + 4, r |-> reg]
  BY <1>3 DEF Fifo!Skip4
<1>5. ASSUME NEW kind, Instr(pc) = kind PROVE Fifo!Executes(kind, Fifo!Skip4(Virt[current]))
  <2>1. current # -1
    BY <1>1 DEF Slots
  <2>2. Yielding => HoldsLock
    BY <1>1, YieldStops
  <2>3. Instr(Virt[current].pc) = kind
    BY <1>3, <1>5
  <2>4. Virt' = [Virt EXCEPT ![current] = Fifo!Skip4(Virt[current])]
    BY <1>3, <1>4
  <2>5. QED
    BY <2>1, <2>2, <2>3, <2>4 DEF Fifo!Executes, Fifo!NoTask
<1>6. CASE TaskYield
  BY <1>1, <1>2, <1>5, <1>6, SameQueue DEF TaskYield, TaskAt, Fifo!Yield, Yielding, HoldsLock
<1>7. CASE SpinLock
  BY <1>1, <1>2, <1>5, <1>7, SameQueue DEF SpinLock, TaskAt, Fifo!Lock, Yielding, HoldsLock,
     RefInv, KernelInv, TypeOK, StatusTypes
<1>8. CASE SpinUnlock
  BY <1>1, <1>2, <1>5, <1>8, SameQueue DEF SpinUnlock, TaskAt, Fifo!Unlock, Yielding, HoldsLock,
     RefInv, KernelInv, TypeOK, StatusTypes
<1>9. QED
  BY <1>6, <1>7, <1>8

(* A system call takes effect in the handler, on the saved context.          *)
LEMMA SyscallSimulates ==
    ASSUME RefInv, RefInv', Syscall
    PROVE  Fifo!Gethid \/ Fifo!BadCall \/ Fifo!Yield
<1>1. /\ at = "trap_handler" /\ at' = "trap_return" /\ current \in Slots /\ sscratch = current
      /\ CONFIG_SYSCALL /\ "SSI" \notin sip /\ scause = "ecall"
      /\ ctx[current].pc = sepc /\ Instr(sepc) \in Calls /\ tp = HartId
  BY Bounds DEF Syscall, Trapped, RefInv, KernelInv, TrapState, TrapCause, HartKnown
<1>2. UNCHANGED <<current, top, scause>> /\ return_pc' = sepc + 4
  BY DEF Syscall
<1>3. Virt = ctx /\ Saved(sscratch) = ctx[current] /\ ctx[current] \in TaskState
  BY <1>1, Bounds, VirtForms DEF MachineAt, Saved
<1>4. ctx' = [ctx EXCEPT ![current].r["a0"] = CallResult(ctx[current])]
  BY <1>1, <1>3 DEF Syscall
<1>5. Virt' = [ctx EXCEPT ![current] = AfterCall(ctx[current])]
  BY <1>1, <1>2, <1>3, <1>4, Bounds, VirtForms, VirtFormsNext DEF MachineAt, AfterCall, TaskState
<1>6. Fifo!AfterCall(ctx[current]) = AfterCall(ctx[current])
  BY DEF Fifo!AfterCall, AfterCall, Fifo!CallResult, CallResult, Fifo!StoresHid, StoresHid, Fifo!NULL, NULL
<1>7. ~Yielding /\ HoldsLock' = HoldsLock
  BY <1>1 DEF Yielding, HoldsLock
<1>8. ASSUME NEW kind, Instr(sepc) = kind PROVE Fifo!Executes(kind, Fifo!AfterCall(Virt[current]))
  BY <1>1, <1>3, <1>5, <1>6, <1>7, <1>8 DEF Fifo!Executes, Fifo!NoTask, Slots
<1>9. Waiting' = Waiting
  BY <1>2, SameQueue
<1>10. CASE Instr(sepc) = "gethid"
  <2>1. Fifo!Executes("gethid", Fifo!AfterCall(Virt[current]))
    BY <1>8, <1>10
  <2>2. hid' = IF Fifo!StoresHid(Virt[current]) THEN [hid EXCEPT ![current] = HartId] ELSE hid
    BY <1>1, <1>3, <1>10 DEF Syscall, Fifo!StoresHid, StoresHid, Fifo!NULL, NULL
  <2>3. sip' = sip
    BY <1>1, <1>10 DEF Syscall
  <2>4. Yielding' = Yielding
    BY <1>1, <2>3 DEF Yielding
  <2>5. QED
    BY <1>2, <1>7, <1>9, <2>1, <2>2, <2>4 DEF Fifo!Gethid
<1>11. CASE Instr(sepc) = "yield"
  <2>1. Fifo!Executes("yield", Fifo!AfterCall(Virt[current]))
    BY <1>8, <1>11
  <2>2. hid' = hid /\ "SSI" \in sip'
    BY <1>11 DEF Syscall
  <2>3. Yielding' = TRUE
    BY <2>2 DEF Yielding
  <2>4. QED
    BY <1>1, <1>2, <1>7, <1>9, <2>1, <2>2, <2>3 DEF Fifo!Yield
<1>12. CASE Instr(sepc) = "badcall"
  <2>1. Fifo!Executes("badcall", Fifo!AfterCall(Virt[current]))
    BY <1>8, <1>12
  <2>2. hid' = hid /\ sip' = sip
    BY <1>12 DEF Syscall
  <2>3. Yielding' = Yielding
    BY <1>1, <2>2 DEF Yielding
  <2>4. QED
    BY <1>2, <1>7, <1>9, <2>1, <2>2, <2>3 DEF Fifo!BadCall
<1>13. QED
  BY <1>1, <1>10, <1>11, <1>12 DEF Calls

-----------------------------------------------------------------------------
(* The initial states map to the initial state.                              *)
LEMMA InitMaps == Init => Fifo!Init
<1> SUFFICES ASSUME Init PROVE Fifo!Init
  OBVIOUS
<1>1. Waiting = <<>>
  BY DEF Init, Waiting
<1>2. Virt = [t \in Slots |-> Blank]
  BY DEF Init, Virt
<1>3. QED
  BY <1>1, <1>2 DEF Init, Fifo!Init, Fifo!NoTask, Fifo!Slots, Slots, Fifo!Blank, Blank, Fifo!GPR, GPR,
     Yielding, HoldsLock

(* Every step maps to a step or a stutter.                                   *)
LEMMA StepMaps == RefInv /\ RefInv' /\ [Next]_vars => [Fifo!Next]_(Fifo!vars)
<1> SUFFICES ASSUME RefInv, RefInv', [Next]_vars PROVE [Fifo!Next]_(Fifo!vars)
  OBVIOUS
<1>1. Fifo!vars = Mapped
  BY DEF Fifo!vars, Mapped
<1>2. CASE Boot
  BY <1>1, <1>2, BootStutters, CreateSimulates DEF Fifo!Next, Fifo!vars, Mapped
<1>3. CASE Interrupt \/ Ecall \/ Fault
  BY <1>3, TrapStutters DEF Fifo!vars, Mapped
<1>4. CASE Compute
  BY <1>4, ComputeSimulates DEF Fifo!Next
<1>5. CASE TaskYield \/ SpinLock \/ SpinUnlock
  BY <1>5, InlineSimulates DEF Fifo!Next
<1>6. CASE TrapVector
  BY <1>6, VectorStutters DEF Fifo!vars, Mapped
<1>7. CASE SoftwareInterrupt \/ TimerInterrupt \/ Oops \/ (Schedule /\ top <= 0)
  BY <1>7, HandlerStutters DEF Fifo!vars, Mapped
<1>8. CASE Schedule /\ top > 0
  BY <1>8, DispatchSimulates DEF Fifo!Next
<1>9. CASE ExternalInterrupt
  BY <1>9, ExternalStutters DEF Fifo!vars, Mapped
<1>10. CASE Syscall
  BY <1>10, SyscallSimulates DEF Fifo!Next
<1>11. CASE TrapReturn \/ SwitchTo
  BY <1>11, ReturnStutters DEF Fifo!vars, Mapped
<1>12. CASE TimerExpires \/ \E s \in Sources : DeviceRaises(s)
  BY <1>12, OutsideStutters DEF Fifo!vars, Mapped
<1>13. CASE UNCHANGED vars
  BY <1>13 DEF vars, csrs, hart, sched, devices, Fifo!vars, Waiting, Cyclic, Virt, Yielding, HoldsLock
<1>14. top \in Nat
  BY Bounds
<1>15. QED
  BY <1>2, <1>3, <1>4, <1>5, <1>6, <1>7, <1>8, <1>9, <1>10, <1>11, <1>12, <1>13, <1>14
     DEF Next, HartStep, TaskStep, TrapPath

(* The kernel gives its tasks the machine FifoTasks describes (schedule,     *)
(* switch_to, trap_vector, do_syscall, task_yield, spin_lock).               *)
THEOREM KernelImplementsFifoTasks == Spec => ImplementsFifoTasks
<1>1. Spec => []RefInv
  BY RefInit, RefStep, PTL DEF Spec
<1>2. QED
  BY <1>1, InitMaps, StepMaps, PTL DEF Spec, Fifo!Spec, ImplementsFifoTasks
==============================================================================
