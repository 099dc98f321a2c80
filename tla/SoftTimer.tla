------------------------------- MODULE SoftTimer -------------------------------
(***************************************************************************)
(* The software timers of timer.c: S-mode tasks create and delete timers   *)
(* under the interrupt lock, the tick handler fires them. A task can be    *)
(* preempted between any two of its steps while SIE is set; the handler is *)
(* split where the callback runs, since the callback is a task's code.     *)
(*                                                                         *)
(* _tick counts modulo TickSpan, 2^32 in the code. When a timer is due is  *)
(* kept apart from it, as the ticks left: so the counter goes round and no *)
(* bound on the ticks is needed. Nor is there one on the calls: the name   *)
(* of a timer that is gone is given to a new one.                          *)
(***************************************************************************)
EXTENDS Integers, FiniteSets

CONSTANTS
    Tasks,      \* number of tasks, scheduled round robin
    Names,      \* bound: timers being created or in use at one time
    MAX_TIMER,  \* slots of timer_list
    Timeouts,   \* values of the timeout argument, none of them 0
    TickSpan,   \* values of _tick and timeout_tick
    Beyond      \* what the word after timer_list may hold: NULL or USED

NULL == 0           \* of a func
USED == -1         \* a word that is no handler

ASSUME TimerAssumption ==
    /\ Tasks \in Nat \ {0}
    /\ MAX_TIMER \in Nat \ {0}
    /\ Names \in Nat
    /\ TickSpan \in Nat \ {0}
    /\ Timeouts \subseteq 1 .. TickSpan - 1
    /\ Beyond \subseteq {NULL, USED}

NoHandle == -1      \* timer_create's NULL

Ids == 1 .. Names   \* timers

(* Slot MAX_TIMER is the memory after the array, which timer_create reads    *)
(* and may write when its search falls off the end.                          *)
Slots == 0 .. MAX_TIMER - 1
Memory == 0 .. MAX_TIMER

VARIABLES
    func,       \* .func of every slot: the timer whose handler it is, or NULL
    timeout,    \* .timeout_tick of every slot
    tick,       \* _tick
    sie,        \* sstatus.SIE
    at,         \* task code, or a point of timer_handler: check, callback, clear, return
    slot,       \* the slot whose timer the handler is firing
    current,    \* the task that has the hart
    op,         \* what each task is executing
    handle,     \* what timer_create returned for the timers in use
    kept,       \* slots that somebody has the handle of an earlier timer of
    left,       \* ticks until each created timer is due; 0 or below when it is late
    waited,     \* ticks at which it was due since a timer was last created in a lower slot
    crossed,    \* timers that met the wrap of _tick: set beyond it, or alive at it
    status      \* gone, creating, live, or stray: written behind the list

taskvars == <<op, handle, kept, left, waited, crossed, status>>
vars == <<func, timeout, tick, sie, at, slot, current, taskvars>>

Idle == [do |-> "idle"]

Init ==
    /\ \E beyond \in Beyond : func = [s \in Memory |-> IF s = MAX_TIMER THEN beyond ELSE NULL]
    /\ timeout = [s \in Memory |-> 0]
    /\ tick = 0
    /\ sie = TRUE
    /\ at = "task"
    /\ slot = 0
    /\ current = 0
    /\ op = [t \in 0 .. Tasks - 1 |-> Idle]
    /\ handle = [x \in Ids |-> NoHandle]
    /\ kept = {}
    /\ left = [x \in Ids |-> 0]
    /\ waited = [x \in Ids |-> 0]
    /\ crossed = {}
    /\ status = [x \in Ids |-> "gone"]

(* The timer in slot s is no longer awaited; its handle is still around.     *)
Ends(s) ==
    /\ status' = [x \in Ids |-> IF func[s] = x THEN "gone" ELSE status[x]]
    /\ handle' = [x \in Ids |-> IF func[s] = x THEN NoHandle ELSE handle[x]]
    /\ kept' = IF func[s] \in Ids THEN kept \union {s} ELSE kept
    /\ left' = [x \in Ids |-> IF func[s] = x THEN 0 ELSE left[x]]
    /\ waited' = [x \in Ids |-> IF func[s] = x THEN 0 ELSE waited[x]]
    /\ crossed' = crossed \ {func[s]}

-----------------------------------------------------------------------------
(* timer_create, by the running task. *)

Doing(step) == at = "task" /\ op[current].do = step

Goto(step) == op' = [op EXCEPT ![current].do = step]

(* The name of a timer that is gone, and that no call still is about.        *)
Free(x) ==
    /\ status[x] = "gone"
    /\ \A t \in 0 .. Tasks - 1 : op[t].do \in {"delete", "remove", "removed"} => op[t].id # x

(* The first slot with a NULL func; past the last one when there is none.    *)
Search ==
    LET free == {s \in Slots : func[s] = NULL}
    IN IF free = {} THEN MAX_TIMER ELSE CHOOSE s \in free : \A r \in free : s <= r

(* Mutant: interrupts stay on. *)
SpinLockNothing == UNCHANGED sie

SpinLock == sie' = FALSE

SpinUnlock == sie' = TRUE

(* The arguments pass the check at the head of timer_create, and it locks.   *)
(* Free names are interchangeable: the timer takes that of its slot, if free. *)
CreateCall(x, n) ==
    /\ Doing("idle")
    /\ Free(x)
    /\ (Search + 1 \in Ids /\ Free(Search + 1)) => x = Search + 1
    /\ SpinLock
    /\ status' = [status EXCEPT ![x] = "creating"]
    /\ op' = [op EXCEPT ![current] = [do |-> "find", id |-> x, timeout |-> n, t |-> 0]]
    /\ UNCHANGED <<func, timeout, tick, at, slot, current, handle, kept, left, waited, crossed>>

CreateFind ==
    /\ Doing("find")
    /\ op' = [op EXCEPT ![current].t = Search,
                        ![current].do = IF func[Search] = NULL THEN "func" ELSE "full"]
    /\ UNCHANGED <<func, timeout, tick, sie, at, slot, current, handle, kept, left, waited, crossed, status>>

CreateFull ==
    /\ Doing("full")
    /\ SpinUnlock
    /\ op' = [op EXCEPT ![current] = Idle]
    /\ status' = [status EXCEPT ![op[current].id] = "gone"]
    /\ UNCHANGED <<func, timeout, tick, at, slot, current, handle, kept, left, waited, crossed>>

CreateFunc ==
    /\ Doing("func")
    /\ func' = [func EXCEPT ![op[current].t] = op[current].id]
    /\ Goto("timeout")
    /\ UNCHANGED <<timeout, tick, sie, at, slot, current, handle, kept, left, waited, crossed, status>>

CreateTimeout ==
    /\ Doing("timeout")
    /\ timeout' = [timeout EXCEPT ![op[current].t] = (tick + op[current].timeout) % TickSpan]
    /\ Goto("created")
    /\ UNCHANGED <<func, tick, sie, at, slot, current, handle, kept, left, waited, crossed, status>>

(* The unlock and the return: from here the caller counts on the timer; the  *)
(* one written behind the list is not in it.                                 *)
CreateUnlock ==
    /\ Doing("created")
    /\ SpinUnlock
    /\ handle' = [handle EXCEPT ![op[current].id] = op[current].t]
    /\ left' = [left EXCEPT ![op[current].id] = op[current].timeout]
    /\ waited' = [x \in Ids |-> IF handle[x] > op[current].t THEN 0 ELSE waited[x]]
    /\ crossed' = IF tick + op[current].timeout < TickSpan THEN crossed
                  ELSE crossed \union {op[current].id}
    /\ status' = [status EXCEPT ![op[current].id] = IF op[current].t \in Slots THEN "live" ELSE "stray"]
    /\ op' = [op EXCEPT ![current] = Idle]
    /\ UNCHANGED <<func, timeout, tick, at, slot, current, kept>>

-----------------------------------------------------------------------------
(* timer_delete, by the running task, of a timer in use or with the handle   *)
(* of one that has fired or been deleted long ago. The call names the timer  *)
(* the caller means, which may be gone when the lock is taken.               *)

DeleteCall(x) ==
    /\ Doing("idle")
    /\ handle[x] # NoHandle
    /\ op' = [op EXCEPT ![current] = [do |-> "delete", id |-> x, t |-> handle[x]]]
    /\ UNCHANGED <<func, timeout, tick, sie, at, slot, current, handle, kept, left, waited, crossed, status>>

DeleteOld(s) ==
    /\ Doing("idle")
    /\ s \in kept
    /\ op' = [op EXCEPT ![current] = [do |-> "delete", id |-> NULL, t |-> s]]
    /\ UNCHANGED <<func, timeout, tick, sie, at, slot, current, handle, kept, left, waited, crossed, status>>

DeleteLock ==
    /\ Doing("delete")
    /\ SpinLock
    /\ Goto("remove")
    /\ UNCHANGED <<func, timeout, tick, at, slot, current, handle, kept, left, waited, crossed, status>>

(* Mutant: the slot after the one that matches. *)
DeleteRemoveNext ==
    /\ Doing("remove")
    /\ LET s == op[current].t + 1
       IN IF s \in Slots
          THEN func' = [func EXCEPT ![s] = NULL] /\ Ends(s)
          ELSE UNCHANGED <<func, handle, kept, left, waited, crossed, status>>
    /\ Goto("removed")
    /\ UNCHANGED <<timeout, tick, sie, at, slot, current>>

(* The slot is matched by address; whatever timer is in it by now goes.      *)
DeleteRemove ==
    /\ Doing("remove")
    /\ LET s == op[current].t
       IN IF s \in Slots
          THEN func' = [func EXCEPT ![s] = NULL] /\ Ends(s)
          ELSE UNCHANGED <<func, handle, kept, left, waited, crossed, status>>
    /\ Goto("removed")
    /\ UNCHANGED <<timeout, tick, sie, at, slot, current>>

DeleteUnlock ==
    /\ Doing("removed")
    /\ SpinUnlock
    /\ op' = [op EXCEPT ![current] = Idle]
    /\ UNCHANGED <<func, timeout, tick, at, slot, current, handle, kept, left, waited, crossed, status>>

-----------------------------------------------------------------------------
(* timer_handler. A tick is taken between two steps of a task.               *)

(* A late timer is not told from one that is late by a round of _tick more.  *)
OneLess(n) == IF n = 1 - TickSpan THEN 0 ELSE n - 1

Tick ==
    /\ sie' = FALSE
    /\ tick' = (tick + 1) % TickSpan
    /\ left' = [x \in Ids |-> IF status[x] # "live" THEN left[x] ELSE OneLess(left[x])]
    /\ crossed' = IF tick' = 0 THEN crossed \union {x \in Ids : status[x] = "live"} ELSE crossed
    /\ waited' = [x \in Ids |-> IF status[x] # "live" \/ left'[x] > 0 \/ x \in crossed' THEN 0
                                ELSE IF waited[x] < MAX_TIMER THEN waited[x] + 1 ELSE waited[x]]
    /\ at' = "check"
    /\ UNCHANGED <<func, timeout, slot, current, op, handle, kept, status>>

TakeTick == at = "task" /\ sie /\ Tick

(* Mutant: the loop goes one slot too far. *)
ExpiredBeyond == {s \in Memory : func[s] \in Ids /\ tick >= timeout[s]}

(* Mutant: _tick + 1 >= timeout_tick. *)
ExpiredEarly == {s \in Slots : func[s] # NULL /\ tick + 1 >= timeout[s]}

(* Mutant: the scan stops at the first slot in use. *)
ExpiredFirstOnly ==
    {s \in Slots : func[s] # NULL /\ tick >= timeout[s] /\ \A r \in 0 .. s - 1 : func[r] = NULL}

(* Mutant: _tick > timeout_tick. *)
ExpiredLater == {s \in Slots : func[s] # NULL /\ tick > timeout[s]}

(* timer_check: the slots whose timer has expired. *)
Expired == {s \in Slots : func[s] # NULL /\ tick >= timeout[s]}

CheckNone ==
    /\ at = "check"
    /\ Expired = {}
    /\ at' = "return"
    /\ UNCHANGED <<func, timeout, tick, sie, slot, current, taskvars>>

(* Only the lowest expired slot is served: the scan breaks after it.         *)
CheckFires ==
    /\ at = "check"
    /\ \E s \in Expired :
        /\ \A r \in Expired : s <= r
        /\ slot' = s
        /\ Ends(s)
    /\ at' = "callback"
    /\ UNCHANGED <<func, timeout, tick, sie, current, op>>

CallbackReturns ==
    /\ at = "callback"
    /\ at' = "clear"
    /\ UNCHANGED <<func, timeout, tick, sie, slot, current, taskvars>>

(* Mutant: the fired timer keeps its slot. *)
ClearNot ==
    /\ at = "clear"
    /\ at' = "return"
    /\ UNCHANGED <<func, timeout, tick, sie, slot, current, taskvars>>

Clear ==
    /\ at = "clear"
    /\ func' = [func EXCEPT ![slot] = NULL]
    /\ at' = "return"
    /\ UNCHANGED <<timeout, tick, sie, slot, current, taskvars>>

(* timer_load and schedule(): the next task resumes with SIE set.            *)
Return ==
    /\ at = "return"
    /\ at' = "task"
    /\ sie' = TRUE
    /\ current' = (current + 1) % Tasks
    /\ slot' = 0
    /\ UNCHANGED <<func, timeout, tick, taskvars>>

-----------------------------------------------------------------------------
CallStep ==
    \/ CreateFind \/ CreateFull \/ CreateFunc \/ CreateTimeout \/ CreateUnlock
    \/ DeleteLock \/ DeleteRemove \/ DeleteUnlock

TaskStep ==
    \/ \E x \in Ids, n \in Timeouts : CreateCall(x, n)
    \/ \E x \in Ids : DeleteCall(x)
    \/ \E s \in Slots : DeleteOld(s)
    \/ CallStep

Handler ==
    \/ TakeTick \/ CheckNone \/ CheckFires \/ CallbackReturns
    \/ Clear \/ Return

Next == TaskStep \/ Handler

Spec == Init /\ [][Next]_vars

(* A call once entered runs on when its task has the hart, the handler runs  *)
(* on, and a tick stays pending until SIE is set; nobody has to call.        *)
Fairness ==
    /\ WF_vars(CallStep)
    /\ WF_vars(CheckNone \/ CheckFires \/ CallbackReturns \/ Clear \/ Return)
    /\ SF_vars(TakeTick)

FairSpec == Spec /\ Fairness

-----------------------------------------------------------------------------
(* Properties. *)

Steps == {"idle", "find", "full", "func", "timeout", "created",
          "delete", "remove", "removed"}

(* The variables keep their types; the handler serves slots of timer_list.   *)
TypeOK ==
    /\ func \in [Memory -> Ids \union {NULL, USED}]
    /\ timeout \in [Memory -> 0 .. TickSpan - 1]
    /\ tick \in 0 .. TickSpan - 1
    /\ sie \in BOOLEAN
    /\ at \in {"task", "check", "callback", "clear", "return"}
    /\ slot \in Slots
    /\ current \in 0 .. Tasks - 1
    /\ \A t \in 0 .. Tasks - 1 : op[t].do \in Steps
    /\ handle \in [Ids -> Memory \union {NoHandle}]
    /\ kept \subseteq Slots
    /\ left \in [Ids -> 1 - TickSpan .. TickSpan - 1]
    /\ waited \in [Ids -> 0 .. MAX_TIMER]
    /\ crossed \subseteq Ids
    /\ status \in [Ids -> {"gone", "creating", "live", "stray"}]

(* A timer whose timer_create has returned stays in its slot, with its own   *)
(* expiry, until it fires or somebody deletes that slot: no other task, no   *)
(* tick in the middle of a creation and no timer written behind the list     *)
(* gets at it (spin_lock in timer.c:66), whatever old handles are deleted.   *)
LiveTimersIntact ==
    \A x \in Ids : status[x] = "live" =>
        /\ handle[x] \in Slots
        /\ func[handle[x]] = x
        /\ timeout[handle[x]] = (tick + left[x]) % TickSpan

(* timer_delete for a timer that is in the list by the time the lock is held *)
(* removes that one and no other. With the handle of one that has fired or   *)
(* been deleted by then it removes whoever has the slot (timer.c:95), also   *)
(* when the tick came between the call and spin_lock.                        *)
DeletesItsOwn ==
    [][at = "task" => \A x \in Ids : (status[x] = "live" /\ status'[x] = "gone") =>
            LET meant == op[current].id
            IN meant \in Ids => meant = x \/ status[meant] = "gone"]_vars

(* A handler is called only for a timer that is live and whose tick has      *)
(* come: not early, not twice, not after its deletion, not half created.     *)
(* Only a timer set across the wrap of _tick fires early.                    *)
FiresWhenDue ==
    [][at = "check" /\ at' = "callback" =>
            LET x == func[slot']
            IN status[x] = "live" /\ (left[x] <= 0 \/ x \in crossed)]_vars

(* What fired is never found in the list again: "once time, just delete it   *)
(* after timeout" (timer.c:115). Nor is what was deleted or refused.         *)
FiresOnce ==
    at \in {"task", "check"} =>
        \A s \in Slots : func[s] # NULL => status[func[s]] \in {"creating", "live"}

(* One timer fires per tick, the one in the lowest slot, so an expired timer *)
(* may have to wait; but for one tick per slot below its own and no more,    *)
(* counted again when a timer is created in one of those, unless _tick wraps *)
(* while it waits (the scan of timer_check and its break).                   *)
LateByOthersOnly ==
    at = "task" => \A x \in Ids : status[x] = "live" /\ x \notin crossed => waited[x] <= handle[x]

(* A timer is created in a slot below that of x.                             *)
CreatedBelow(x) ==
    \E y \in Ids : status[y] = "creating" /\ status'[y] = "live" /\ handle'[y] < handle[x]

(* A timer in the list fires or is deleted in the end, those the wrap makes  *)
(* late included, unless timers are created below it for ever: those expire  *)
(* again and again, and then timer_check never gets to it (timer.c:109).     *)
EveryTimerEnds == \A x \in Ids : []<>(status[x] # "live") \/ []<><<CreatedBelow(x)>>_vars
==============================================================================
