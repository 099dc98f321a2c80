------------------------------ MODULE FifoTasks ------------------------------
(***************************************************************************)
(* What the kernel promises its tasks (sched.c, "a simple cycle FIFO       *)
(* schedular"; task_yield, "causes the calling task to relinquish the CPU  *)
(* and a new task gets to run"; spin_lock): every task is a machine of its *)
(* own whose state only its own instructions and system calls change, the  *)
(* processor goes round the tasks in the order they were created, a task   *)
(* that yields executes nothing more until another dispatch, and a task    *)
(* that holds the interrupt lock is not descheduled.                       *)
(* Nothing here mentions traps, contexts, registers saved or interrupts.   *)
(***************************************************************************)
EXTENDS TaskImage, Sequences

NoTask == -1

VARIABLES
    ready,      \* tasks waiting for the processor, in order
    run,        \* the task that has it, NoTask before the first dispatch
    task,       \* state of every task
    hid,        \* the word gethid fills for each task, -1 while unset
    yielding,   \* the running task has yielded and not been descheduled yet
    masked      \* the running task holds the interrupt lock

vars == <<ready, run, task, hid, yielding, masked>>

Init ==
    /\ ready = <<>>
    /\ run = NoTask
    /\ task = [t \in Slots |-> Blank]
    /\ hid = [t \in Slots |-> -1]
    /\ yielding = FALSE
    /\ masked = FALSE

(* Tasks are created before the first dispatch, in slots 0, 1, ... *)
Create ==
    /\ run = NoTask
    /\ Len(ready) < MAX_TASKS
    /\ task' = [task EXCEPT ![Len(ready)] = Fresh(Len(ready))]
    /\ ready' = Append(ready, Len(ready))
    /\ UNCHANGED <<run, hid, yielding, masked>>

(* The task that waited longest runs next; the one that ran queues up last. *)
Dispatch ==
    /\ ~masked
    /\ LET queue == IF run = NoTask THEN ready ELSE Append(ready, run)
       IN /\ queue # <<>>
          /\ run' = Head(queue)
          /\ ready' = Tail(queue)
    /\ yielding' = FALSE
    /\ UNCHANGED <<task, hid, masked>>

(* The running task executes the instruction at its pc. *)
Executes(kind, next) ==
    /\ run # NoTask
    /\ yielding => masked
    /\ Instr(task[run].pc) = kind
    /\ task' = [task EXCEPT ![run] = next]

Compute ==
    /\ Executes("compute", Exec(task[run]))
    /\ UNCHANGED <<ready, run, hid, yielding, masked>>

Gethid ==
    /\ Executes("gethid", AfterCall(task[run]))
    /\ hid' = IF StoresHid(task[run]) THEN [hid EXCEPT ![run] = HartId] ELSE hid
    /\ UNCHANGED <<ready, run, yielding, masked>>

BadCall ==
    /\ Executes("badcall", AfterCall(task[run]))
    /\ UNCHANGED <<ready, run, hid, yielding, masked>>

Yield ==
    /\ Executes("yield", IF CONFIG_SYSCALL THEN AfterCall(task[run]) ELSE Skip4(task[run]))
    /\ yielding' = TRUE
    /\ UNCHANGED <<ready, run, hid, masked>>

Lock ==
    /\ Executes("lock", Skip4(task[run]))
    /\ masked' = TRUE
    /\ UNCHANGED <<ready, run, hid, yielding>>

Unlock ==
    /\ Executes("unlock", Skip4(task[run]))
    /\ masked' = FALSE
    /\ UNCHANGED <<ready, run, hid, yielding>>

Next == Create \/ Dispatch \/ Compute \/ Gethid \/ BadCall \/ Yield \/ Lock \/ Unlock

Spec == Init /\ [][Next]_vars
==============================================================================
