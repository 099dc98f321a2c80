-------------------------------- MODULE Kernel --------------------------------
(***************************************************************************)
(* The control core of rvos_s_exp on its one hart: boot (start.S,          *)
(* kernel.c), trap entry and return (entry.S, trap.c), the round-robin     *)
(* scheduler and the context switch (sched.c, entry.S), the timer tick,    *)
(* the system calls (syscall.c), the interrupt lock (lock.c) and the claim *)
(* of an external interrupt (plic.c).                                      *)
(*                                                                         *)
(* Between trap_vector and sret the kernel runs with sstatus.SIE clear, so *)
(* each piece of it is one action; NoNestedTrap checks that this is so.    *)
(* The hart itself (when a trap is taken, what it writes, what sret does)  *)
(* follows the RISC-V privileged architecture and is external.             *)
(***************************************************************************)
EXTENDS TaskImage

CONSTANTS
    CREATED,        \* task_create calls made by os_main
    Sources,        \* PLIC ids of the devices enabled by plic_init
    KernelRegs      \* what the kernel's C code may leave in the registers

ASSUME KernelAssumption ==
    /\ CREATED \in Nat
    /\ Sources \subseteq Nat
    /\ KernelRegs \subseteq [GPR -> Value] /\ KernelRegs # {}

VARIABLES
    at,         \* where the hart is executing, see Locations
    mode,       \* privilege mode
    sstatus,    \* sstatus.SIE, SPIE, SPP
    sie,        \* enabled supervisor interrupts
    sip,        \* SSIP and STIP; SEIP follows the PLIC
    sscratch,   \* the ctx_tasks slot it points to, -1 for NULL
    sepc, scause,
    pc, reg,    \* program counter and registers of the hart
    tp,         \* register tp: the hart id
    return_pc,  \* trap_handler's result
    top, current, ctx,      \* _top, _current, ctx_tasks
    hid,        \* the word each task passes to gethid, -1 while unset
    armed,      \* the machine timer has a deadline ahead of mtime
    gateway     \* PLIC gateway of every source

csrs == <<sstatus, sie, sip, sscratch, sepc, scause>>
hart == <<mode, pc, reg, tp>>
sched == <<top, current, ctx>>
devices == <<armed, gateway>>
vars == <<at, csrs, hart, return_pc, sched, hid, devices>>

Locations == {"reset", "start_kernel", "plic_init", "timer_init", "sched_init", "os_main",
              "task", "trap_vector", "trap_handler", "trap_return", "schedule", "switch_to",
              "shutdown"}

Interrupts == {"SEI", "SSI", "STI"}
Exceptions == {"ecall", "illegal"}

KERNEL_PC == -1     \* stands for any address outside the tasks' code

(* ctx_tasks[i], or NULL: the register state a pointer to it stands for. *)
Saved(i) == IF i \in Slots THEN ctx[i] ELSE Blank

-----------------------------------------------------------------------------
(* The hart. *)

Pending == sip \union (IF \E s \in Sources : gateway[s] = "pending" THEN {"SEI"} ELSE {})

(* Interrupts the hart takes before its next instruction: S-mode needs SIE. *)
Takeable == IF mode = "U" \/ sstatus.sie THEN Pending \cap sie ELSE {}

(* Fixed priority: external, software, timer. *)
Highest(S) == IF "SEI" \in S THEN "SEI" ELSE IF "SSI" \in S THEN "SSI" ELSE "STI"

Trap(cause) ==
    /\ scause' = cause
    /\ sepc' = pc
    /\ sstatus' = [sie |-> FALSE, spie |-> sstatus.sie, spp |-> mode]
    /\ mode' = "S"
    /\ pc' = KERNEL_PC
    /\ at' = "trap_vector"
    /\ UNCHANGED <<sie, sip, sscratch, reg, tp, return_pc, sched, hid, devices>>

(* sret to epc with the registers regs. *)
Sret(epc, regs) ==
    /\ sepc' = epc
    /\ pc' = epc
    /\ reg' = regs
    /\ mode' = sstatus.spp
    /\ sstatus' = [sie |-> sstatus.spie, spie |-> TRUE, spp |-> "U"]
    /\ at' = "task"

Interrupt ==
    /\ at \notin {"reset", "shutdown"}
    /\ Takeable # {}
    /\ Trap(Highest(Takeable))

(* mtime reaches the deadline of the last timer_load. *)
TimerExpires ==
    /\ armed
    /\ armed' = FALSE
    /\ sip' = sip \union {"STI"}
    /\ UNCHANGED <<at, sstatus, sie, sscratch, sepc, scause, hart, return_pc, sched, hid, gateway>>

(* A device raises its line. A source claimed and not completed stays silent. *)
DeviceRaises(s) ==
    /\ at \notin {"reset", "start_kernel", "plic_init"}
    /\ gateway[s] = "idle"
    /\ gateway' = [gateway EXCEPT ![s] = "pending"]
    /\ UNCHANGED <<at, csrs, hart, return_pc, sched, hid, armed>>

-----------------------------------------------------------------------------
(* Boot. *)

(* Mutant: csrci sstatus forgotten. *)
StartSUnmasked ==
    /\ at = "reset"
    /\ tp' = HartId
    /\ sie' = {}
    /\ sstatus' = [sstatus EXCEPT !.spie = TRUE]
    /\ at' = "start_kernel"
    /\ UNCHANGED <<sip, sscratch, sepc, scause, mode, pc, reg, return_pc, sched, hid, devices>>

(* entry: hart id to tp, interrupts off, SPP and SPIE for the first sret. *)
StartS ==
    /\ at = "reset"
    /\ tp' = HartId
    /\ sie' = {}
    /\ sstatus' = [sie  |-> FALSE,
                   spie |-> sstatus.spie \/ ~CONFIG_SYSCALL,
                   spp  |-> IF CONFIG_SYSCALL THEN sstatus.spp ELSE "S"]
    /\ at' = "start_kernel"
    /\ UNCHANGED <<sip, sscratch, sepc, scause, mode, pc, reg, return_pc, sched, hid, devices>>

(* start_kernel up to plic_init: gives up when interrupts are on. *)
StartKernel ==
    /\ at = "start_kernel"
    /\ at' = IF sstatus.sie THEN "shutdown" ELSE "plic_init"
    /\ UNCHANGED <<csrs, hart, return_pc, sched, hid, devices>>

PlicInit ==
    /\ at = "plic_init"
    /\ sie' = sie \union {"SEI"}
    /\ at' = "timer_init"
    /\ UNCHANGED <<sstatus, sip, sscratch, sepc, scause, hart, return_pc, sched, hid, devices>>

(* timer_load: the firmware sets the deadline and clears STIP. *)
TimerLoad ==
    /\ armed' = TRUE
    /\ sip' = sip \ {"STI"}

TimerInit ==
    /\ at = "timer_init"
    /\ TimerLoad
    /\ sie' = sie \union {"STI"}
    /\ at' = "sched_init"
    /\ UNCHANGED <<sstatus, sscratch, sepc, scause, hart, return_pc, sched, hid, gateway>>

SchedInit ==
    /\ at = "sched_init"
    /\ sscratch' = -1
    /\ sie' = sie \union {"SSI"}
    /\ at' = "os_main"
    /\ UNCHANGED <<sstatus, sip, sepc, scause, hart, return_pc, sched, hid, devices>>

(* Mutant: _top <= MAX_TASKS. *)
TaskCreateOneMore ==
    /\ at = "os_main"
    /\ top < CREATED
    /\ top <= MAX_TASKS
    /\ ctx' = [ctx EXCEPT ![top] = [pc |-> Entry(top), r |-> [@.r EXCEPT !["sp"] = StackTop(top)]]]
    /\ top' = top + 1
    /\ UNCHANGED <<at, csrs, hart, return_pc, current, hid, devices>>

(* task_create; the calls it refuses, when the table is full, change nothing. *)
TaskCreate ==
    /\ at = "os_main"
    /\ top < CREATED
    /\ top < MAX_TASKS
    /\ ctx' = [ctx EXCEPT ![top] = [pc |-> Entry(top), r |-> [@.r EXCEPT !["sp"] = StackTop(top)]]]
    /\ top' = top + 1
    /\ UNCHANGED <<at, csrs, hart, return_pc, current, hid, devices>>

OsMainReturns ==
    /\ at = "os_main"
    /\ top >= CREATED \/ top >= MAX_TASKS
    /\ at' = "schedule"
    /\ UNCHANGED <<csrs, hart, return_pc, sched, hid, devices>>

-----------------------------------------------------------------------------
(* Task code. An instruction executes only when no interrupt is takeable.   *)

TaskAt(kinds) == at = "task" /\ Takeable = {} /\ Instr(pc) \in kinds

Compute ==
    /\ TaskAt({"compute"})
    /\ LET next == Exec([pc |-> pc, r |-> reg])
       IN pc' = next.pc /\ reg' = next.r
    /\ UNCHANGED <<at, csrs, mode, tp, return_pc, sched, hid, devices>>

(* gethid and generalized_syscall. *)
Ecall ==
    /\ TaskAt(Calls)
    /\ CONFIG_SYSCALL
    /\ Trap("ecall")

(* A CSR instruction, as in spin_lock, is illegal in U-mode. *)
Fault ==
    /\ TaskAt(LockOps)
    /\ mode = "U"
    /\ Trap("illegal")

(* task_yield called directly, by a task in S-mode. *)
TaskYield ==
    /\ TaskAt({"yield"})
    /\ ~CONFIG_SYSCALL
    /\ sip' = sip \union {"SSI"}
    /\ pc' = pc + 4
    /\ UNCHANGED <<at, sstatus, sie, sscratch, sepc, scause, mode, reg, tp, return_pc, sched, hid, devices>>

(* Mutant: spin_lock clears SPIE instead of SIE. *)
SpinLockWrongBit ==
    /\ TaskAt({"lock"})
    /\ mode = "S"
    /\ sstatus' = [sstatus EXCEPT !.spie = FALSE]
    /\ pc' = pc + 4
    /\ UNCHANGED <<at, sie, sip, sscratch, sepc, scause, mode, reg, tp, return_pc, sched, hid, devices>>

SpinLock ==
    /\ TaskAt({"lock"})
    /\ mode = "S"
    /\ sstatus' = [sstatus EXCEPT !.sie = FALSE]
    /\ pc' = pc + 4
    /\ UNCHANGED <<at, sie, sip, sscratch, sepc, scause, mode, reg, tp, return_pc, sched, hid, devices>>

(* Mutant: spin_unlock does not set SIE. *)
SpinUnlockKept ==
    /\ TaskAt({"unlock"})
    /\ mode = "S"
    /\ pc' = pc + 4
    /\ UNCHANGED <<at, csrs, mode, reg, tp, return_pc, sched, hid, devices>>

SpinUnlock ==
    /\ TaskAt({"unlock"})
    /\ mode = "S"
    /\ sstatus' = [sstatus EXCEPT !.sie = TRUE]
    /\ pc' = pc + 4
    /\ UNCHANGED <<at, sie, sip, sscratch, sepc, scause, mode, reg, tp, return_pc, sched, hid, devices>>

-----------------------------------------------------------------------------
(* The trap path. *)

(* reg_save: the registers but t6, which holds the address.                  *)
RegSave(regs, old) == [g \in GPR |-> IF g = "t6" THEN old[g] ELSE regs[g]]

(* Mutant: mv t5, t6 before reg_save. *)
ContextStoredLate(old) ==
    LET swapped == [reg EXCEPT !["t6"] = sscratch]
        moved == [swapped EXCEPT !["t5"] = swapped["t6"]]
        saved == RegSave(moved, old.r)
        back == [moved EXCEPT !["t6"] = reg["t6"]]
    IN [pc |-> sepc, r |-> [saved EXCEPT !["t6"] = back["t6"]]]

(* The context trap_vector leaves where old was: t6 is swapped with sscratch *)
(* and saves the others, then t5 takes over the address, t6 is read back and *)
(* stored; a0 takes sepc there last.                                         *)
ContextStored(old) ==
    LET swapped == [reg EXCEPT !["t6"] = sscratch]
        saved == RegSave(swapped, old.r)
        moved == [swapped EXCEPT !["t5"] = swapped["t6"]]
        back == [moved EXCEPT !["t6"] = reg["t6"]]
    IN [pc |-> sepc, r |-> [saved EXCEPT !["t6"] = back["t6"]]]

(* Interrupts are off, nothing comes in between; the context pointer goes    *)
(* back to sscratch and the C code runs.                                     *)
TrapVector ==
    /\ at = "trap_vector"
    /\ ctx' = [ctx EXCEPT ![sscratch] = ContextStored(@)]
    /\ reg' \in KernelRegs
    /\ at' = "trap_handler"
    /\ UNCHANGED <<csrs, mode, pc, tp, return_pc, top, current, hid, devices>>

(* Mutant: schedule() before the pending bit is cleared. *)
SoftwareInterruptUncleared ==
    /\ at = "trap_handler"
    /\ scause = "SSI"
    /\ at' = "schedule"
    /\ UNCHANGED <<csrs, hart, return_pc, sched, hid, devices>>

(* case 1: the pending bit is cleared first, schedule() does not come back. *)
SoftwareInterrupt ==
    /\ at = "trap_handler"
    /\ scause = "SSI"
    /\ sip' = sip \ {"SSI"}
    /\ at' = "schedule"
    /\ UNCHANGED <<sstatus, sie, sscratch, sepc, scause, hart, return_pc, sched, hid, devices>>

(* Mutant: something timer_check calls ends in spin_unlock. *)
TimerInterruptUnlocking ==
    /\ at = "trap_handler"
    /\ scause = "STI"
    /\ TimerLoad
    /\ sstatus' = [sstatus EXCEPT !.sie = TRUE]
    /\ at' = "schedule"
    /\ UNCHANGED <<sie, sscratch, sepc, scause, hart, return_pc, sched, hid, gateway>>

(* case 5, timer_handler: the next tick is loaded before schedule(). *)
TimerInterrupt ==
    /\ at = "trap_handler"
    /\ scause = "STI"
    /\ TimerLoad
    /\ at' = "schedule"
    /\ UNCHANGED <<sstatus, sie, sscratch, sepc, scause, hart, return_pc, sched, hid, gateway>>

(* The claim register of context tp: lowest id first, 0 when none is pending. *)
Claimed ==
    LET candidates == {s \in Sources : tp = HartId /\ gateway[s] = "pending"}
    IN IF candidates = {} THEN 0
       ELSE CHOOSE s \in candidates : \A d \in candidates : s <= d

(* case 9, external_interrupt_handler: claims, serves, does not complete. *)
ExternalInterrupt ==
    /\ at = "trap_handler"
    /\ scause = "SEI"
    /\ gateway' = [s \in Sources |-> IF s = Claimed THEN "claimed" ELSE gateway[s]]
    /\ return_pc' = sepc
    /\ at' = "trap_return"
    /\ UNCHANGED <<csrs, hart, sched, hid, armed>>

(* case 8, do_syscall on the caller's context, then past the ecall. *)
Syscall ==
    /\ at = "trap_handler"
    /\ scause = "ecall"
    /\ LET cxt == Saved(sscratch)
           nr == Instr(sepc)
       IN /\ ctx' = [ctx EXCEPT ![sscratch].r["a0"] = CallResult(cxt)]
          /\ hid' = IF nr = "gethid" /\ StoresHid(cxt) THEN [hid EXCEPT ![sscratch] = tp] ELSE hid
          /\ sip' = IF nr = "yield" THEN sip \union {"SSI"} ELSE sip
    /\ return_pc' = sepc + 4
    /\ at' = "trap_return"
    /\ UNCHANGED <<sstatus, sie, sscratch, sepc, scause, hart, top, current, devices>>

(* Any other exception: panic, which asks the firmware to shut down. *)
Oops ==
    /\ at = "trap_handler"
    /\ scause = "illegal"
    /\ at' = "shutdown"
    /\ UNCHANGED <<csrs, hart, return_pc, sched, hid, devices>>

TrapReturn ==
    /\ at = "trap_return"
    /\ Sret(return_pc, Saved(sscratch).r)
    /\ UNCHANGED <<sie, sip, sscratch, scause, tp, return_pc, sched, hid, devices>>

(* Mutant: the cycle is one task short. *)
ScheduleShort ==
    /\ at = "schedule"
    /\ IF top <= 0
       THEN at' = "shutdown" /\ UNCHANGED current
       ELSE at' = "switch_to" /\ current' = IF top = 1 THEN 0 ELSE (current + 1) % (top - 1)
    /\ UNCHANGED <<csrs, hart, return_pc, top, ctx, hid, devices>>

(* schedule(): round robin over the tasks created; panics when there is none. *)
Schedule ==
    /\ at = "schedule"
    /\ IF top <= 0
       THEN at' = "shutdown" /\ UNCHANGED current
       ELSE at' = "switch_to" /\ current' = (current + 1) % top
    /\ UNCHANGED <<csrs, hart, return_pc, top, ctx, hid, devices>>

(* Mutant: switch_to does not move sscratch. *)
SwitchToStale ==
    /\ at = "switch_to"
    /\ Sret(ctx[current].pc, ctx[current].r)
    /\ UNCHANGED <<sie, sip, sscratch, scause, tp, return_pc, sched, hid, devices>>

SwitchTo ==
    /\ at = "switch_to"
    /\ sscratch' = current
    /\ Sret(ctx[current].pc, ctx[current].r)
    /\ UNCHANGED <<sie, sip, scause, tp, return_pc, sched, hid, devices>>

-----------------------------------------------------------------------------
(* The firmware enters with sstatus.SIE and SPIE and sie as it left them,    *)
(* SPP clear, paging off, and .bss is cleared before any of it is used.      *)
Init ==
    /\ at = "reset"
    /\ mode = "S"
    /\ sstatus \in [sie : BOOLEAN, spie : BOOLEAN, spp : {"U"}]
    /\ sie \in {{}, Interrupts}
    /\ sip = {}
    /\ sscratch = -1
    /\ sepc = KERNEL_PC
    /\ scause = "none"
    /\ pc = KERNEL_PC
    /\ reg \in KernelRegs
    /\ tp = -1
    /\ return_pc = KERNEL_PC
    /\ top = 0
    /\ current = -1
    /\ ctx = [i \in Slots |-> Blank]
    /\ hid = [i \in Slots |-> -1]
    /\ armed = FALSE
    /\ gateway = [s \in Sources |-> "idle"]

Boot == StartS \/ StartKernel \/ PlicInit \/ TimerInit \/ SchedInit \/ TaskCreate \/ OsMainReturns
TaskStep == Compute \/ Ecall \/ Fault \/ TaskYield \/ SpinLock \/ SpinUnlock
TrapPath == TrapVector \/ SoftwareInterrupt \/ TimerInterrupt \/ ExternalInterrupt \/ Syscall
            \/ Oops \/ TrapReturn \/ Schedule \/ SwitchTo

HartStep == Boot \/ Interrupt \/ TaskStep \/ TrapPath

Next == HartStep \/ TimerExpires \/ \E s \in Sources : DeviceRaises(s)

Spec == Init /\ [][Next]_vars

(* The hart keeps executing and mtime keeps advancing; devices owe nothing. *)
Fairness == WF_vars(HartStep) /\ WF_vars(TimerExpires)

FairSpec == Spec /\ Fairness

-----------------------------------------------------------------------------
(* Properties. *)

Causes == Interrupts \union Exceptions \union {"none"}

(* Every variable keeps its type: in particular a saved context is always a  *)
(* whole task state, and the pointer in sscratch is a slot or NULL.          *)
StatusTypes ==
    /\ at \in Locations
    /\ mode \in {"U", "S"}
    /\ sstatus \in [sie : BOOLEAN, spie : BOOLEAN, spp : {"U", "S"}]
    /\ scause \in Causes

InterruptTypes ==
    /\ sie \subseteq Interrupts
    /\ sip \subseteq {"SSI", "STI"}
    /\ armed \in BOOLEAN
    /\ gateway \in [Sources -> {"idle", "pending", "claimed"}]

RegisterTypes ==
    /\ {pc, sepc, return_pc} \subseteq PC \union {KERNEL_PC}
    /\ reg \in [GPR -> Value]
    /\ tp \in {-1, HartId}

SchedTypes ==
    /\ {sscratch, current} \subseteq Slots \union {-1}
    /\ top \in 0 .. MAX_TASKS
    /\ ctx \in [Slots -> TaskState]
    /\ hid \in [Slots -> {-1, HartId}]

TypeOK == StatusTypes /\ InterruptTypes /\ RegisterTypes /\ SchedTypes

(* No interrupt is ever taken inside the kernel, which saves one level of    *)
(* context only: not during boot, while sscratch is NULL, and not between    *)
(* trap_vector and sret, where it would overwrite the interrupted context.   *)
NoNestedTrap == at # "task" => Takeable = {}

(* Whenever a task executes, the next trap will save into that task's own    *)
(* context: sscratch, _current and the table agree (entry.S, schedule).      *)
TrapContextValid == at = "task" => sscratch = current /\ current \in 0 .. top - 1

(* A yield is acknowledged before its task is descheduled: a pending bit     *)
(* that survived schedule() would make the NEXT task lose its turn           *)
(* (trap_handler case 1 clears SSIP before it calls schedule).               *)
NoStaleYield == at \in {"schedule", "switch_to"} => "SSI" \notin sip

(* While a task has the hart, a tick is on its way or pending, and timer     *)
(* interrupts are enabled: the tick chain is never broken, although every    *)
(* link is made by a handler that leaves through schedule() and does not     *)
(* return (timer_handler).                                                   *)
TickAlwaysComes == at = "task" => "STI" \in sie /\ (armed \/ "STI" \in sip)

(* The kernel stops only because a task trapped with an exception it does    *)
(* not handle, or because os_main created no task: start_kernel never finds  *)
(* interrupts on, whatever the firmware left in sstatus (start.S), and       *)
(* schedule() always finds the tasks that were created.                      *)
HaltsOnlyOnPanic == at = "shutdown" => scause = "illegal" \/ CREATED = 0

(* The hart keeps every task going: whatever the others execute, each task   *)
(* created gets the hart again and again (schedule, timer_handler).          *)
EveryTaskRuns == \A t \in Slots : t < CREATED => []<>(at = "task" /\ current = t)

(* The same where some task may fault: until it does, and the kernel panics, *)
(* every task gets the hart again and again.                                 *)
RunsUntilPanic == EveryTaskRuns \/ <>(at = "shutdown")

(* The tasks' view: each machine is the register file while its task has the *)
(* hart, spread over sepc, the registers and return_pc on the way in and out *)
(* of a trap, and the saved context otherwise.                               *)
Virt ==
    [t \in Slots |->
        IF t # current THEN ctx[t]
        ELSE CASE at = "task"        -> [pc |-> pc, r |-> reg]
               [] at = "trap_vector" -> [pc |-> sepc, r |-> reg]
               [] at = "trap_return" -> [pc |-> return_pc, r |-> ctx[t].r]
               [] OTHER              -> ctx[t]]

(* The task n places on in the cycle of schedule(), for n up to top.         *)
Cyclic(n) == IF n < top THEN n ELSE n - top

(* Before the first dispatch the tasks wait in the order of creation.        *)
Waiting ==
    IF current = -1 THEN [i \in 1 .. top |-> i - 1]
    ELSE [i \in 1 .. top - 1 |-> Cyclic(current + i)]

(* A yield is over when schedule() takes the hart away, not when SSIP clears. *)
Yielding == "SSI" \in sip \/ (scause = "SSI" /\ at = "schedule")

HoldsLock == at = "task" /\ ~CONFIG_SYSCALL /\ ~sstatus.sie

(* The dispatch is the schedule() step: from there to switch_to's sret the   *)
(* chosen task is running with its saved context.                            *)
Fifo == INSTANCE FifoTasks WITH
    run <- current, ready <- Waiting, task <- Virt, yielding <- Yielding, masked <- HoldsLock

(* The kernel implements the tasks' abstract machine: traps are invisible,   *)
(* registers survive preemption, dispatch is FIFO, a yield relinquishes the  *)
(* hart at once, a task that holds the lock is not descheduled.              *)
ImplementsFifoTasks == Fifo!Spec

==============================================================================
