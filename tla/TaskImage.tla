------------------------------ MODULE TaskImage ------------------------------
(***************************************************************************)
(* What a task is, for the kernel and for its abstract specification: a    *)
(* program counter and the general-purpose registers (struct context of    *)
(* os.h), and the code image all tasks share.                              *)
(*                                                                         *)
(* Four registers stand for the thirty: sp (the ordinary ones, set up by   *)
(* task_create), a0 (argument and result of a system call, and scratch of  *)
(* trap_vector), t5 and t6 (the two trap_vector uses as base pointers).    *)
(* tp is not a register of a task: entry.S leaves it alone because it      *)
(* holds the hart id.                                                      *)
(***************************************************************************)
EXTENDS Integers

CONSTANTS
    MAX_TASKS,      \* slots of ctx_tasks and task_stack
    STACK_SIZE,     \* bytes of one task's stack
    PC,             \* addresses of task code
    Value,          \* what a register can hold
    ERR,            \* the value -1 of a register, (reg_t)-1
    Entry(_),       \* start_routin handed to the (i+1)-th task_create
    Instr(_),       \* what the instruction at an address does, see Kinds
    Exec(_),        \* effect of a plain instruction on a task's state
    HartId,         \* the hart the firmware starts the kernel on
    CONFIG_SYSCALL  \* build flag: tasks run in U-mode and use ecall

GPR == {"sp", "a0", "t5", "t6"}

TaskState == [pc : PC, r : [GPR -> Value]]

Slots == 0 .. MAX_TASKS - 1

NULL == 0

(* &task_stack[i][STACK_SIZE - 1] & ~7, relative to task_stack. *)
StackTop(i) == ((i * STACK_SIZE + STACK_SIZE - 1) \div 8) * 8

(* A slot of ctx_tasks before task_create: .bss, cleared by start.S. *)
Blank == [pc |-> 0, r |-> [g \in GPR |-> 0]]

(* The context task_create leaves in slot i. *)
Fresh(i) == [pc |-> Entry(i), r |-> [g \in GPR |-> IF g = "sp" THEN StackTop(i) ELSE 0]]

Calls == {"gethid", "yield", "badcall"}    \* kernel services
LockOps == {"lock", "unlock"}              \* spin_lock and spin_unlock: they write sstatus
Kinds == {"compute"} \union Calls \union LockOps

(* *ptr_hid is written unless the pointer is NULL. *)
StoresHid(s) == s.r["a0"] # NULL

(* The value a0 holds once the system call at s has been served. *)
CallResult(s) ==
    CASE Instr(s.pc) = "gethid" -> IF StoresHid(s) THEN 0 ELSE ERR
      [] Instr(s.pc) = "yield"  -> 0
      [] OTHER                  -> ERR

(* The task after the system call at s: the result in a0, the next instruction. *)
AfterCall(s) == [pc |-> s.pc + 4, r |-> [s.r EXCEPT !["a0"] = CallResult(s)]]

Skip4(s) == [s EXCEPT !.pc = @ + 4]

ASSUME SizesAssumption ==
    /\ MAX_TASKS \in Nat \ {0}
    /\ STACK_SIZE \in Nat \ {0}
    /\ HartId \in Nat
    /\ CONFIG_SYSCALL \in BOOLEAN

ASSUME ImageAssumption ==
    /\ PC \subseteq Nat
    /\ 0 \in PC
    /\ 0 \in Value /\ ERR \in Value
    /\ \A i \in Slots : Entry(i) \in PC /\ StackTop(i) \in Value
    /\ \A p \in PC :
        /\ Instr(p) \in Kinds
        /\ Instr(p) # "compute" => p + 4 \in PC
        \* the system call stubs are compiled for U-mode tasks only
        /\ ~CONFIG_SYSCALL => Instr(p) \notin {"gethid", "badcall"}
    /\ \A s \in TaskState : Exec(s) \in TaskState
==============================================================================
