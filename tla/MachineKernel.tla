---------------------------- MODULE MachineKernel ----------------------------
(***************************************************************************)
(* The M-mode port, src/rvos: the control core of Kernel on the bare       *)
(* machine. Scheduler, switch and trap entry are the same code with other  *)
(* CSR names, so their actions are Kernel's, and Kernel's variables stand  *)
(* for the machine-mode registers: sstatus for mstatus.MIE, MPIE, MPP; sie *)
(* for mie; sip for MSIP and MTIP; sscratch, sepc, scause for the m ones;  *)
(* mode "S" for M-mode. The CLINT takes the firmware's place: armed says   *)
(* that mtimecmp is ahead of mtime.                                        *)
(*                                                                         *)
(* What differs: the boot takes the machine as it finds it, a claim is     *)
(* completed, gethid is the only system call, and task_yield reads mhartid *)
(* and so is for tasks in M-mode. Harts other than 0 are parked in start.S *)
(* and have no part.                                                       *)
(***************************************************************************)
EXTENDS Kernel

ASSUME MachineAssumption == HartId = 0

(* After reset: mstatus.MIE clear, as "default mstatus is 0" (start.S:54)    *)
(* has it; mie, MPIE and mtimecmp are whatever they are.                     *)
MachineInit ==
    /\ at = "reset"
    /\ mode = "S"
    /\ sstatus \in [sie : {FALSE}, spie : BOOLEAN, spp : {"U"}]
    /\ sie \in {{}, Interrupts}
    /\ armed \in BOOLEAN
    /\ sip = IF armed THEN {} ELSE {"STI"}
    /\ sscratch = -1
    /\ sepc = KERNEL_PC
    /\ scause = "none"
    /\ pc = KERNEL_PC
    /\ reg \in KernelRegs
    /\ tp = -1
    /\ return_pc = KERNEL_PC
    /\ top = 0
    /\ current = -1
    /\ ctx = [i \in Slots |-> Blank]
    /\ hid = [i \in Slots |-> -1]
    /\ gateway = [s \in Sources |-> "idle"]

-----------------------------------------------------------------------------
(* Boot. *)

(* Mutant: 1 << 3, which is MIE. *)
MachineStartMie ==
    /\ at = "reset"
    /\ tp' = HartId
    /\ sstatus' = [sstatus EXCEPT !.sie = TRUE, !.spp = IF CONFIG_SYSCALL THEN @ ELSE "S"]
    /\ at' = "start_kernel"
    /\ UNCHANGED <<sie, sip, sscratch, sepc, scause, mode, pc, reg, return_pc, sched, hid, devices>>

(* hart 0: MPIE, and MPP unless tasks are to run in U-mode. *)
MachineStart ==
    /\ at = "reset"
    /\ tp' = HartId
    /\ sstatus' = [sstatus EXCEPT !.spie = TRUE, !.spp = IF CONFIG_SYSCALL THEN @ ELSE "S"]
    /\ at' = "start_kernel"
    /\ UNCHANGED <<sie, sip, sscratch, sepc, scause, mode, pc, reg, return_pc, sched, hid, devices>>

(* start_kernel does not look at interrupts. *)
MachineStartKernel ==
    /\ at = "start_kernel"
    /\ at' = "plic_init"
    /\ UNCHANGED <<csrs, hart, return_pc, sched, hid, devices>>

MachinePlicInit == PlicInit

(* Mutant: mtimecmp is left as reset left it. *)
MachineTimerInitUnloaded ==
    /\ at = "timer_init"
    /\ sie' = sie \union {"STI"}
    /\ sip' = sip \ {"STI"}
    /\ at' = "sched_init"
    /\ UNCHANGED <<sstatus, sscratch, sepc, scause, hart, return_pc, sched, hid, devices>>

(* timer_load writes mtimecmp, which also takes MTIP away. *)
MachineTimerInit == TimerInit

MachineSchedInit == SchedInit

MachineTaskCreate == TaskCreate

MachineBoot ==
    \/ MachineStart \/ MachineStartKernel \/ MachinePlicInit \/ MachineTimerInit
    \/ MachineSchedInit \/ MachineTaskCreate \/ OsMainReturns

-----------------------------------------------------------------------------
(* Task code. *)

(* gethid, or an ecall with a number that is none. *)
MachineEcall ==
    /\ TaskAt({"gethid", "badcall"})
    /\ CONFIG_SYSCALL
    /\ Trap("ecall")

(* mstatus and mhartid are illegal in U-mode. *)
MachineFault ==
    /\ TaskAt(LockOps \union {"yield"})
    /\ mode = "U"
    /\ Trap("illegal")

(* CLINT_MSIP of the own hart. *)
MachineYield == TaskYield

MachineLock == SpinLock

MachineUnlock == SpinUnlock

MachineTaskStep ==
    \/ Compute \/ MachineEcall \/ MachineFault \/ MachineYield \/ MachineLock \/ MachineUnlock

-----------------------------------------------------------------------------
(* The trap path. *)

MachineTrapVector == TrapVector

(* case 3: CLINT_MSIP is cleared, then schedule(). *)
MachineSoftware == SoftwareInterrupt

(* case 7, timer_handler. *)
MachineTimer == TimerInterrupt

(* case 11: claim, serve, complete. *)
MachineExternal ==
    /\ at = "trap_handler"
    /\ scause = "SEI"
    /\ gateway' = [s \in Sources |-> IF s = Claimed THEN "idle" ELSE gateway[s]]
    /\ return_pc' = sepc
    /\ at' = "trap_return"
    /\ UNCHANGED <<csrs, hart, sched, hid, armed>>

(* case 8, do_syscall. *)
MachineSyscall == Syscall

(* default: panic, which loops. *)
MachineOops == Oops

MachineTrapReturn == TrapReturn

MachineSchedule == Schedule

MachineSwitchTo == SwitchTo

MachineTrapPath ==
    \/ MachineTrapVector \/ MachineSoftware \/ MachineTimer \/ MachineExternal \/ MachineSyscall
    \/ MachineOops \/ MachineTrapReturn \/ MachineSchedule \/ MachineSwitchTo

-----------------------------------------------------------------------------
MachineHartStep == MachineBoot \/ Interrupt \/ MachineTaskStep \/ MachineTrapPath

MachineNext == MachineHartStep \/ TimerExpires \/ \E s \in Sources : DeviceRaises(s)

MachineSpec == MachineInit /\ [][MachineNext]_vars
==============================================================================
