-------------------------------- MODULE Printf --------------------------------
(***************************************************************************)
(* printf.c: every task and the kernel format into the one out_buf and     *)
(* hand it to uart_puts. A task can be preempted between any two of its    *)
(* steps and resume in a buffer that others have formatted in since; what  *)
(* it prints may then be a mixture. A handler prints in one go, interrupts *)
(* being off. A text is its length, a byte of out_buf who wrote it.        *)
(***************************************************************************)
EXTENDS Integers

CONSTANTS
    Tasks,          \* tasks, scheduled round robin
    SIZE,           \* sizeof(out_buf)
    Lengths,        \* lengths of what tasks print
    KernelLengths   \* lengths of what the kernel prints

ASSUME PrintfAssumption ==
    /\ Tasks \in Nat \ {0}
    /\ SIZE \in Nat \ {0}
    /\ Lengths \subseteq Nat
    /\ KernelLengths \subseteq 0 .. SIZE - 2

Task == 0 .. Tasks - 1
NUL == "nul"
Kernel == "kernel"
Text == "task"
Bytes == 0 .. SIZE - 1

VARIABLES
    out_buf,
    current,    \* the task that has the hart
    at,         \* where each task is: idle, format, puts, or in the while(1) of _vprintf
    res,        \* length of its text, the result of the first _vsnprintf
    pos         \* pos of the second _vsnprintf, then how far uart_puts is

vars == <<out_buf, current, at, res, pos>>

(* .bss. *)
Init ==
    /\ out_buf = [b \in Bytes |-> NUL]
    /\ current = 0
    /\ at = [t \in Task |-> "idle"]
    /\ res = [t \in Task |-> 0]
    /\ pos = [t \in Task |-> 0]

(* Mutant: res > sizeof(out_buf) gives up. *)
FitsBarely(n) == n <= SIZE

(* Not res+1 >= sizeof(out_buf). *)
Fits(n) == n + 1 < SIZE

(* The first pass only counts. *)
Measure(n) ==
    /\ at[current] = "idle"
    /\ res' = [res EXCEPT ![current] = n]
    /\ pos' = [pos EXCEPT ![current] = 0]
    /\ at' = [at EXCEPT ![current] = IF Fits(n) THEN "format" ELSE "overflow"]
    /\ UNCHANGED <<out_buf, current>>

(* One byte of the second pass, whose n is res + 1. *)
Format ==
    /\ at[current] = "format" /\ pos[current] < res[current]
    /\ out_buf' = [out_buf EXCEPT ![pos[current]] = Text]
    /\ pos' = [pos EXCEPT ![current] = @ + 1]
    /\ UNCHANGED <<current, at, res>>

Terminate ==
    /\ at[current] = "format" /\ pos[current] >= res[current]
    /\ out_buf' = [out_buf EXCEPT ![pos[current]] = NUL]
    /\ pos' = [pos EXCEPT ![current] = 0]
    /\ at' = [at EXCEPT ![current] = "puts"]
    /\ UNCHANGED <<current, res>>

Puts ==
    /\ at[current] = "puts" /\ out_buf[pos[current]] # NUL
    /\ pos' = [pos EXCEPT ![current] = @ + 1]
    /\ UNCHANGED <<out_buf, current, at, res>>

PutsEnd ==
    /\ at[current] = "puts" /\ out_buf[pos[current]] = NUL
    /\ at' = [at EXCEPT ![current] = "idle"]
    /\ UNCHANGED <<out_buf, current, res, pos>>

(* A trap handler prints between two steps of the task. *)
KernelPrints(n) ==
    /\ out_buf' = [b \in Bytes |-> IF b < n THEN Kernel ELSE IF b = n THEN NUL ELSE out_buf[b]]
    /\ UNCHANGED <<current, at, res, pos>>

(* The tick. *)
Preempt ==
    /\ current' = (current + 1) % Tasks
    /\ UNCHANGED <<out_buf, at, res, pos>>

Printing == (\E n \in Lengths : Measure(n)) \/ Format \/ Terminate \/ Puts \/ PutsEnd

Next == Printing \/ (\E n \in KernelLengths : KernelPrints(n)) \/ Preempt

Spec == Init /\ [][Next]_vars

-----------------------------------------------------------------------------
(* Properties. *)

(* The variables keep their types; no task reads or writes past the buffer.  *)
TypeOK ==
    /\ out_buf \in [Bytes -> {NUL, Text, Kernel}]
    /\ current \in Task
    /\ at \in [Task -> {"idle", "format", "puts", "overflow"}]
    /\ res \in [Task -> Nat]
    /\ pos \in [Task -> Bytes]

(* However many others have formatted in the buffer since, a task that       *)
(* prints it still has a terminator ahead of it (_vprintf, uart_puts).       *)
PutsWillEnd ==
    \A t \in Task : at[t] = "puts" => \E b \in pos[t] .. SIZE - 1 : out_buf[b] = NUL
==============================================================================
