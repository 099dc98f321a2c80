---------------------------- MODULE SoftTimerProofs ----------------------------
(***************************************************************************)
(* The software timers for every number of tasks, slots, timers and values *)
(* of _tick, and any number of calls: no timer is lost or overwritten, a   *)
(* deletion takes the timer that is meant while it is there, a timer fires *)
(* once, never early but across the wrap, and is passed over only for the  *)
(* timers in lower slots.                                                  *)
(*                                                                         *)
(* The argument: every timer found in a slot has an owner, a caller who    *)
(* holds its handle, the one call that is inside the lock, or the handler  *)
(* that is firing it. And each tick that an expired timer has to wait      *)
(* takes a timer out of the slots below its own, where at first there were *)
(* no more than slots.                                                     *)
(***************************************************************************)
EXTENDS SoftTimer, FiniteSetTheorems, WellFoundedInduction, TLAPS

Task == 0 .. Tasks - 1

CreateSteps == {"find", "full", "func", "timeout", "created"}
DeleteSteps == {"delete", "remove", "removed"}

(* The steps between spin_lock and spin_unlock. *)
Inside == {"find", "full", "func", "timeout", "created", "remove", "removed"}

CreateOp == [do : CreateSteps, id : Ids, timeout : Timeouts, t : Memory]
DeleteOp == [do : DeleteSteps, id : Ids \union {NULL}, t : Memory]

OpTypes == op \in [Task -> {Idle} \union CreateOp \union DeleteOp]

Statuses == {"gone", "creating", "live", "stray"}

(* The lock: who is inside has the hart, and no tick comes.                  *)
OneInside == \A t \in Task : op[t].do \in Inside => t = current /\ at = "task" /\ ~sie

Creators == \A t \in Task : op[t].do \in CreateSteps => status[op[t].id] = "creating"

(* What the call inside the lock has read and written stays so.              *)
Writing ==
    LET me == op[current] IN
    /\ me.do = "func" => func[me.t] = NULL
    /\ me.do \in {"timeout", "created"} => func[me.t] = me.id
    /\ me.do = "created" => timeout[me.t] = (tick + me.timeout) % TickSpan

(* Who has a handle: the callers whose timer_create has returned.            *)
Handles ==
    \A x \in Ids :
        /\ status[x] \in {"gone", "creating"} => handle[x] = NoHandle /\ waited[x] = 0
        /\ status[x] = "stray" => handle[x] = MAX_TIMER

(* A timer that is meant to be deleted is gone, or it is where it was.       *)
Means(o) == status[o.id] = "gone" \/ (status[o.id] \in {"live", "stray"} /\ handle[o.id] = o.t)

Meant == \A t \in Task : op[t].do \in DeleteSteps /\ op[t].id \in Ids => Means(op[t])

(* Whose the timer in a slot is.                                             *)
Owner(s, x) ==
    \/ status[x] = "live" /\ handle[x] = s /\ s \in Slots
    \/ status[x] = "stray" /\ s = MAX_TIMER
    \/ /\ status[x] = "creating"
       /\ op[current].do \in {"timeout", "created"} /\ op[current].id = x /\ op[current].t = s
    \/ status[x] = "gone" /\ at \in {"callback", "clear"} /\ s = slot

Owned ==
    /\ \A s \in Memory, x \in Ids : func[s] = x => Owner(s, x)
    /\ \A s \in Slots : func[s] # USED

(* The handler clears the slot of the timer it fired.                        *)
Firing == at \in {"callback", "clear"} => \A x \in Ids : func[slot] = x => status[x] = "gone"

(* A timer that did not meet the wrap is due at a tick of this round.        *)
DueThisRound == \A x \in Ids : status[x] = "live" /\ x \notin crossed => tick + left[x] \in 0 .. TickSpan - 1

(* The slots below n in which, by these states and handles, a timer is.      *)
LiveBelow(n, states, handles) == {s \in 0 .. n - 1 : \E y \in Ids : states[y] = "live" /\ handles[y] = s}

(* The ticks that a timer has waited and those it may still have to wait.    *)
PassedOver ==
    \A x \in Ids : status[x] = "live" /\ x \notin crossed =>
        waited[x] + Cardinality(LiveBelow(handle[x], status, handle))
            <= handle[x] + (IF at = "check" /\ left[x] <= 0 THEN 1 ELSE 0)

TimerInv ==
    /\ TypeOK /\ OpTypes
    /\ OneInside /\ Creators /\ Writing
    /\ Handles /\ Meant
    /\ Owned /\ Firing /\ LiveTimersIntact
    /\ DueThisRound /\ PassedOver

-----------------------------------------------------------------------------
(* Arithmetic of the tick counter, and the least free slot. *)

LEMMA ModUnique ==
    ASSUME NEW n \in Nat \ {0}, NEW a \in Int, NEW r \in 0 .. n - 1, NEW q \in Int, a = n * q + r
    PROVE  a % n = r
  OBVIOUS

(* Once around changes nothing.                                              *)
LEMMA ModShift ==
    ASSUME NEW a \in Int, NEW n \in Nat \ {0}
    PROVE  (a + n) % n = a % n
<1>1. a = n * (a \div n) + (a % n)
  OBVIOUS
<1> DEFINE q == (a \div n) + 1  r == a % n
<1>2. a + n = n * q + r
  BY <1>1
<1>3. q \in Int /\ r \in 0 .. n - 1 /\ a + n \in Int
  OBVIOUS
<1> HIDE DEF q, r
<1>4. (a + n) % n = r
  BY <1>2, <1>3, ModUnique
<1>5. QED
  BY <1>4 DEF r

(* A step of _tick, and one tick less left: the expiry is where it was.      *)
LEMMA TickShift ==
    ASSUME NEW n \in Nat \ {0}, NEW c \in 0 .. n - 1, NEW l \in Int
    PROVE  /\ (c + 1) % n = IF c + 1 = n THEN 0 ELSE c + 1
           /\ (((c + 1) % n) + (l - 1)) % n = (c + l) % n
<1>1. (c + 1) % n = IF c + 1 = n THEN 0 ELSE c + 1
  <2>1. CASE c + 1 = n
    <3>1. n = n * 1 + 0 /\ 0 \in 0 .. n - 1
      OBVIOUS
    <3>2. n % n = 0
      BY <3>1, ModUnique
    <3>3. QED
      BY <2>1, <3>2
  <2>2. CASE c + 1 # n
    <3>1. c + 1 \in 0 .. n - 1 /\ c + 1 = n * 0 + (c + 1)
      BY <2>2
    <3>2. QED
      BY <2>2, <3>1, ModUnique
  <2>3. QED
    BY <2>1, <2>2
<1>2. CASE c + 1 = n
  <2>1. c + l = (0 + (l - 1)) + n /\ 0 + (l - 1) \in Int
    BY <1>2
  <2>2. QED
    BY <1>1, <1>2, <2>1, ModShift
<1>3. CASE c + 1 # n
  <2>1. (c + 1) + (l - 1) = c + l
    OBVIOUS
  <2>2. QED
    BY <1>1, <1>3, <2>1
<1>4. QED
  BY <1>1, <1>2, <1>3

(* What is due in this round is due at its own tick.                         *)
LEMMA ModSmall ==
    ASSUME NEW n \in Nat \ {0}, NEW a \in 0 .. n - 1
    PROVE  a % n = a
<1>1. a = n * 0 + a
  OBVIOUS
<1>2. QED
  BY <1>1, ModUnique

(* A timer late by a whole round is due now.                                 *)
LEMMA OneLessShift ==
    ASSUME TickSpan \in Nat \ {0}, NEW c \in 0 .. TickSpan - 1, NEW l \in 1 - TickSpan .. TickSpan - 1
    PROVE  /\ OneLess(l) \in 1 - TickSpan .. TickSpan - 1
           /\ (((c + 1) % TickSpan) + OneLess(l)) % TickSpan = (c + l) % TickSpan
<1> l \in Int
  OBVIOUS
<1>1. CASE l = 1 - TickSpan
  <2> DEFINE d == (c + 1) % TickSpan
  <2>1. (d + (l - 1)) % TickSpan = (c + l) % TickSpan
    BY TickShift
  <2>2. d \in Int
    OBVIOUS
  <2> HIDE DEF d
  <2>3. d + (l - 1) \in Int /\ (d + (l - 1)) + TickSpan = d + 0
    BY <1>1, <2>2
  <2>4. (d + 0) % TickSpan = (d + (l - 1)) % TickSpan
    BY <2>3, ModShift
  <2>5. OneLess(l) = 0
    BY <1>1 DEF OneLess
  <2>6. (d + OneLess(l)) % TickSpan = (c + l) % TickSpan
    BY <2>1, <2>4, <2>5
  <2>7. QED
    BY <2>5, <2>6 DEF d
<1>2. CASE l # 1 - TickSpan
  <2>1. OneLess(l) = l - 1
    BY <1>2 DEF OneLess
  <2>2. (((c + 1) % TickSpan) + (l - 1)) % TickSpan = (c + l) % TickSpan
    BY TickShift
  <2>3. l - 1 \in 1 - TickSpan .. TickSpan - 1
    BY <1>2
  <2>4. QED
    BY <2>1, <2>2, <2>3
<1>3. QED
  BY <1>1, <1>2

(* No more slots below n than n.                                             *)
LEMMA Below ==
    ASSUME NEW n \in Nat, NEW S \in SUBSET (0 .. n - 1)
    PROVE  IsFiniteSet(S) /\ Cardinality(S) \in Nat /\ Cardinality(S) <= n
<1>1. IsFiniteSet(0 .. n - 1) /\ Cardinality(0 .. n - 1) = IF 0 > n - 1 THEN 0 ELSE (n - 1) - 0 + 1
  BY FS_Interval
<1>2. Cardinality(0 .. n - 1) = n
  BY <1>1
<1>3. IsFiniteSet(S) /\ Cardinality(S) <= Cardinality(0 .. n - 1)
  BY <1>1, FS_Subset
<1>4. QED
  BY <1>2, <1>3, FS_CardinalityType

LEMMA FewerBelow ==
    ASSUME NEW n \in Nat, NEW states, NEW handles, NEW later, NEW moved,
           \A y \in Ids : later[y] = "live" /\ moved[y] \in 0 .. n - 1 =>
               states[y] = "live" /\ handles[y] = moved[y]
    PROVE  /\ Cardinality(LiveBelow(n, later, moved)) \in Nat /\ Cardinality(LiveBelow(n, later, moved)) <= n
           /\ Cardinality(LiveBelow(n, states, handles)) \in Nat
           /\ Cardinality(LiveBelow(n, later, moved)) <= Cardinality(LiveBelow(n, states, handles))
           /\ \A s \in LiveBelow(n, states, handles) : s \notin LiveBelow(n, later, moved) =>
                 Cardinality(LiveBelow(n, later, moved)) + 1 <= Cardinality(LiveBelow(n, states, handles))
<1> DEFINE B == LiveBelow(n, states, handles)
<1> DEFINE L == LiveBelow(n, later, moved)
<1>1. B \in SUBSET (0 .. n - 1) /\ L \in SUBSET (0 .. n - 1) /\ L \in SUBSET B
  BY DEF LiveBelow
<1> HIDE DEF B, L
<1>2. IsFiniteSet(B) /\ Cardinality(B) \in Nat
  BY <1>1, Below
<1>3. Cardinality(L) \in Nat /\ Cardinality(L) <= n
  BY <1>1, Below
<1>4. Cardinality(L) <= Cardinality(B)
  BY <1>1, <1>2, FS_Subset
<1>5. ASSUME NEW s \in B, s \notin L PROVE Cardinality(L) + 1 <= Cardinality(B)
  <2>1. IsFiniteSet(B \ {s}) /\ Cardinality(B \ {s}) = Cardinality(B) - 1
    BY <1>2, <1>5, FS_RemoveElement
  <2>2. Cardinality(L) <= Cardinality(B \ {s})
    BY <1>1, <1>5, <2>1, FS_Subset
  <2>3. QED
    BY <1>2, <1>3, <2>1, <2>2
<1>6. QED
  BY <1>2, <1>3, <1>4, <1>5 DEF B, L

LEMMA Least ==
    ASSUME NEW S \in SUBSET Nat, S # {}
    PROVE  \E s \in S : \A r \in S : s <= r
<1>1. PICK s \in S : \A r \in S : <<r, s>> \notin OpToRel(<, Nat)
  BY WFMin, NatLessThanWellFounded
<1>2. ASSUME NEW r \in S PROVE s <= r
  <2>1. s \in Nat /\ r \in Nat
    OBVIOUS
  <2>2. ~(r < s)
    BY <1>1, <2>1 DEF OpToRel
  <2>3. QED
    BY <2>1, <2>2
<1>3. QED
  BY <1>2

(* The search ends in a free slot or behind the list.                        *)
LEMMA SearchEnds == Search \in Memory /\ (Search \in Slots => func[Search] = NULL)
<1> DEFINE free == {s \in Slots : func[s] = NULL}
<1>1. CASE free = {}
  BY <1>1, TimerAssumption DEF Search, Memory, Slots
<1>2. CASE free # {}
  <2>1. free \in SUBSET Nat
    BY TimerAssumption DEF Slots
  <2>2. \E s \in free : \A r \in free : s <= r
    BY <1>2, <2>1, Least
  <2>3. Search = CHOOSE s \in free : \A r \in free : s <= r
    BY <1>2 DEF Search
  <2>4. Search \in free
    BY <2>2, <2>3
  <2>5. QED
    BY <2>4, TimerAssumption DEF Slots, Memory
<1>3. QED
  BY <1>1, <1>2

-----------------------------------------------------------------------------
(* The calls. *)

LEMMA Types ==
    ASSUME TimerInv
    PROVE  /\ Tasks \in Nat \ {0} /\ current \in Task
           /\ TickSpan \in Nat \ {0} /\ tick \in 0 .. TickSpan - 1
           /\ Names \in Nat /\ \A x \in Ids : x \in Nat \ {0}
           /\ MAX_TIMER \in Nat \ {0} /\ Slots \subseteq Memory /\ MAX_TIMER \notin Slots
           /\ Memory = Slots \union {MAX_TIMER} /\ Slots \subseteq Nat
<1>1. Tasks \in Nat \ {0} /\ TickSpan \in Nat \ {0} /\ MAX_TIMER \in Nat \ {0} /\ Names \in Nat
  BY TimerAssumption
<1>2. current \in Task /\ tick \in 0 .. TickSpan - 1
  BY DEF TimerInv, TypeOK, Task
<1>3. /\ Slots \subseteq Memory /\ MAX_TIMER \notin Slots
      /\ Memory = Slots \union {MAX_TIMER} /\ Slots \subseteq Nat
  BY <1>1 DEF Slots, Memory
<1>4. \A x \in Ids : x \in Nat \ {0}
  BY <1>1 DEF Ids
<1>5. QED
  BY <1>1, <1>2, <1>3, <1>4

LEMMA OpForms ==
    ASSUME OpTypes, NEW t \in Task
    PROVE  /\ op[t].do \in CreateSteps => op[t] \in CreateOp
           /\ op[t].do \in DeleteSteps => op[t] \in DeleteOp
           /\ op[t].do \in Steps
  BY DEF OpTypes, Idle, CreateOp, DeleteOp, CreateSteps, DeleteSteps, Steps

(* What a step does to the call of the running task.                         *)
LEMMA GotoCreate ==
    ASSUME OpTypes, current \in Task, NEW s \in CreateSteps, op[current].do \in CreateSteps, Goto(s)
    PROVE  /\ OpTypes' /\ op'[current].do = s /\ op'[current].id = op[current].id
           /\ op'[current].t = op[current].t /\ op'[current].timeout = op[current].timeout
           /\ \A t \in Task : t # current => op'[t] = op[t]
<1>1. op[current] \in CreateOp
  BY OpForms
<1>2. [op[current] EXCEPT !.do = s] \in CreateOp
  BY <1>1 DEF CreateOp
<1>3. op' = [op EXCEPT ![current] = [op[current] EXCEPT !.do = s]]
  BY DEF Goto
<1>4. QED
  BY <1>1, <1>2, <1>3 DEF OpTypes, CreateOp

LEMMA GotoDelete ==
    ASSUME OpTypes, current \in Task, NEW s \in DeleteSteps, op[current].do \in DeleteSteps, Goto(s)
    PROVE  /\ OpTypes' /\ op'[current].do = s /\ op'[current].id = op[current].id
           /\ op'[current].t = op[current].t
           /\ \A t \in Task : t # current => op'[t] = op[t]
<1>1. op[current] \in DeleteOp
  BY OpForms
<1>2. [op[current] EXCEPT !.do = s] \in DeleteOp
  BY <1>1 DEF DeleteOp
<1>3. op' = [op EXCEPT ![current] = [op[current] EXCEPT !.do = s]]
  BY DEF Goto
<1>4. QED
  BY <1>1, <1>2, <1>3 DEF OpTypes, DeleteOp

LEMMA PutOp ==
    ASSUME OpTypes, current \in Task, NEW o \in {Idle} \union CreateOp \union DeleteOp,
           op' = [op EXCEPT ![current] = o]
    PROVE  OpTypes' /\ op'[current] = o /\ \A t \in Task : t # current => op'[t] = op[t]
  BY DEF OpTypes

(* A step of a call keeps the lock.                                          *)
LEMMA KeepsLock ==
    ASSUME OneInside, at' = "task", current' = current,
           \A t \in Task : t # current => op'[t] = op[t],
           op'[current].do \in Inside => ~sie'
    PROVE  OneInside'
  BY DEF OneInside, Task

(* What was passed over stays so where no timer comes and no tick passes.    *)
LEMMA KeepsPassed ==
    ASSUME TimerInv, at # "check", at' # "check",
           \A x \in Ids : status'[x] = "live" =>
               status[x] = "live" /\ handle'[x] = handle[x] /\ waited'[x] = waited[x]
               /\ (x \in crossed' <=> x \in crossed)
    PROVE  PassedOver'
<1> SUFFICES ASSUME NEW x \in Ids, status'[x] = "live", x \notin crossed'
             PROVE  waited'[x] + Cardinality(LiveBelow(handle'[x], status', handle')) <= handle'[x] + 0
  BY DEF PassedOver, LiveBelow
<1>1. status[x] = "live" /\ x \notin crossed /\ waited'[x] = waited[x] /\ handle'[x] = handle[x]
  OBVIOUS
<1>2. handle[x] \in Nat /\ waited[x] \in Nat
  BY <1>1, Types DEF TimerInv, LiveTimersIntact, TypeOK
<1>3. waited[x] + Cardinality(LiveBelow(handle[x], status, handle)) <= handle[x] + 0
  BY <1>1 DEF TimerInv, PassedOver
<1>4. /\ Cardinality(LiveBelow(handle[x], status, handle)) \in Nat
      /\ Cardinality(LiveBelow(handle[x], status', handle')) \in Nat
      /\ Cardinality(LiveBelow(handle[x], status', handle')) <= Cardinality(LiveBelow(handle[x], status, handle))
  BY <1>2, FewerBelow
<1>5. QED
  BY <1>1, <1>2, <1>3, <1>4

(* Steps that change nothing but the call and SIE.                           *)
LEMMA OpStep ==
    ASSUME TimerInv,
           UNCHANGED <<func, timeout, tick, at, slot, current, handle, kept, left, waited, crossed, status>>,
           at = "task", sie' \in BOOLEAN, OpTypes',
           \A t \in Task : t # current => op'[t] = op[t],
           op[current].do \notin {"timeout", "created"}, op'[current].do \notin {"timeout", "created"},
           op'[current].do \in CreateSteps => op[current].do \in CreateSteps /\ op'[current].id = op[current].id,
           op'[current].do \in DeleteSteps /\ op'[current].id \in Ids => Means(op'[current]),
           op'[current].do \in Inside => ~sie',
           op'[current].do = "func" => func[op'[current].t] = NULL
    PROVE  TimerInv'
<1>1. current \in Task
  BY Types
<1>2. TypeOK'
  <2>1. \A t \in Task : op'[t].do \in Steps
    BY OpForms DEF OpTypes, Idle, CreateOp, DeleteOp, CreateSteps, DeleteSteps, Steps
  <2>2. QED
    BY <2>1 DEF TimerInv, TypeOK, Task
<1>3. OneInside'
  BY KeepsLock DEF TimerInv
<1>4. Creators'
  BY <1>1 DEF TimerInv, Creators, Task
<1>5. Writing'
  BY DEF TimerInv, Writing
<1>6. Handles' /\ Meant'
  BY <1>1 DEF TimerInv, Handles, Meant, Means, Task
<1>7. Owned'
  BY DEF TimerInv, Owned, Owner
<1>8. Firing' /\ LiveTimersIntact' /\ DueThisRound'
  BY DEF TimerInv, Firing, LiveTimersIntact, DueThisRound
<1>9. PassedOver'
  BY KeepsPassed
<1>10. QED
  BY <1>2, <1>3, <1>4, <1>5, <1>6, <1>7, <1>8, <1>9 DEF TimerInv

LEMMA CallOpSteps ==
    ASSUME TimerInv,
           \/ (\E x \in Ids : DeleteCall(x)) \/ (\E s \in Slots : DeleteOld(s))
           \/ CreateFind \/ DeleteLock \/ DeleteUnlock
    PROVE  TimerInv'
<1>1. current \in Task /\ OpTypes /\ OneInside /\ Meant
  BY Types DEF TimerInv
<1>2. /\ at = "task"
      /\ UNCHANGED <<func, timeout, tick, at, slot, current, handle, kept, left, waited, crossed, status>>
      /\ op[current].do \notin {"timeout", "created"}
  BY DEF DeleteCall, DeleteOld, CreateFind, DeleteLock, DeleteUnlock, Doing
<1>3. sie \in BOOLEAN
  BY DEF TimerInv, TypeOK
<1>4. ASSUME NEW i \in Ids \union {NULL}, NEW s \in Memory, sie' = sie,
             op' = [op EXCEPT ![current] = [do |-> "delete", id |-> i, t |-> s]],
             i \in Ids => status[i] \in {"live", "stray"} /\ handle[i] = s
      PROVE  TimerInv'
  <2> DEFINE o == [do |-> "delete", id |-> i, t |-> s]
  <2>1. o \in DeleteOp /\ op' = [op EXCEPT ![current] = o] /\ o.do = "delete" /\ o.id = i /\ o.t = s
    BY <1>4 DEF DeleteOp, DeleteSteps
  <2> HIDE DEF o
  <2>2. OpTypes' /\ op'[current] = o /\ \A t \in Task : t # current => op'[t] = op[t]
    BY <1>1, <2>1, PutOp
  <2>3. op'[current].id \in Ids => Means(op'[current])
    BY <1>4, <2>1, <2>2 DEF Means
  <2>4. QED
    BY <1>2, <1>3, <1>4, <2>1, <2>2, <2>3, OpStep DEF CreateSteps, Inside
<1>5. ASSUME NEW x \in Ids, DeleteCall(x) PROVE TimerInv'
  <2>1. /\ handle[x] # NoHandle /\ sie' = sie
        /\ op' = [op EXCEPT ![current] = [do |-> "delete", id |-> x, t |-> handle[x]]]
    BY <1>5 DEF DeleteCall
  <2>2. handle[x] \in Memory /\ status[x] \in {"live", "stray"}
    BY <2>1 DEF TimerInv, TypeOK, Handles
  <2>3. QED
    BY <1>4, <2>1, <2>2
<1>6. ASSUME NEW s \in Slots, DeleteOld(s) PROVE TimerInv'
  <2>1. sie' = sie /\ op' = [op EXCEPT ![current] = [do |-> "delete", id |-> NULL, t |-> s]]
    BY <1>6 DEF DeleteOld
  <2>2. s \in Memory /\ NULL \notin Ids
    BY Types DEF NULL
  <2>3. QED
    BY <1>4, <2>1, <2>2
<1>7. CASE CreateFind
  <2> DEFINE next == IF func[Search] = NULL THEN "func" ELSE "full"
  <2> DEFINE o == [op[current] EXCEPT !.t = Search, !.do = next]
  <2>1. op[current].do = "find" /\ sie' = sie
    BY <1>7 DEF CreateFind, Doing
  <2>2. op' = [op EXCEPT ![current].t = Search, ![current].do = next]
    BY <1>7 DEF CreateFind
  <2>3. op[current] \in CreateOp
    BY <1>1, <2>1, OpForms DEF CreateSteps
  <2>4. next \in CreateSteps /\ next \in {"func", "full"} /\ (next = "func" => func[Search] = NULL)
    BY DEF CreateSteps
  <2> HIDE DEF next
  <2>5. o \in CreateOp /\ o.do = next /\ o.id = op[current].id /\ o.t = Search
    BY <2>3, <2>4, SearchEnds DEF CreateOp
  <2>6. op' = [op EXCEPT ![current] = o]
    BY <1>1, <2>2, <2>3 DEF CreateOp, OpTypes
  <2> HIDE DEF o
  <2>7. OpTypes' /\ op'[current] = o /\ \A t \in Task : t # current => op'[t] = op[t]
    BY <1>1, <2>5, <2>6, PutOp
  <2>8. ~sie'
    BY <1>1, <2>1 DEF OneInside, Inside
  <2>9. op'[current].do \notin DeleteSteps
    BY <2>4, <2>5, <2>7 DEF DeleteSteps
  <2>10. QED
    BY <1>2, <1>3, <2>1, <2>4, <2>5, <2>7, <2>8, <2>9, OpStep DEF CreateSteps
<1>8. CASE DeleteLock
  <2>1. op[current].do = "delete" /\ Goto("remove") /\ sie' = FALSE
    BY <1>8 DEF DeleteLock, Doing, SpinLock
  <2>2. /\ OpTypes' /\ op'[current].do = "remove"
        /\ op'[current].id = op[current].id /\ op'[current].t = op[current].t
        /\ \A t \in Task : t # current => op'[t] = op[t]
    BY <1>1, <2>1, GotoDelete DEF DeleteSteps
  <2>3. op'[current].id \in Ids => Means(op'[current])
    BY <1>1, <2>1, <2>2 DEF Meant, Means, DeleteSteps
  <2>4. QED
    BY <1>2, <2>1, <2>2, <2>3, OpStep DEF CreateSteps
<1>9. CASE DeleteUnlock
  <2>1. op' = [op EXCEPT ![current] = Idle] /\ sie' = TRUE /\ Idle.do = "idle"
    BY <1>9 DEF DeleteUnlock, SpinUnlock, Idle
  <2>2. OpTypes' /\ op'[current].do = "idle" /\ \A t \in Task : t # current => op'[t] = op[t]
    BY <1>1, <2>1, PutOp
  <2>3. QED
    BY <1>2, <2>1, <2>2, OpStep DEF CreateSteps, DeleteSteps, Inside
<1>10. QED
  BY <1>5, <1>6, <1>7, <1>8, <1>9

(* The steps keep the type of the call.                                      *)
LEMMA OpsTyped == ASSUME OpTypes PROVE \A t \in 0 .. Tasks - 1 : op[t].do \in Steps
  BY OpForms DEF Task

LEMMA OpsTypedNext == (OpTypes => \A t \in 0 .. Tasks - 1 : op[t].do \in Steps)'
<1>1. OpTypes => \A t \in 0 .. Tasks - 1 : op[t].do \in Steps
  BY OpsTyped
<1>2. QED
  BY <1>1, PTL

(* While a call is inside the lock the others' calls are before or behind it. *)
LEMMA OthersCall ==
    ASSUME TimerInv, at = "task", \A t \in Task : t # current => op'[t] = op[t]
    PROVE  \A t \in Task : t # current => op'[t].do \notin CreateSteps
  BY DEF TimerInv, OneInside, CreateSteps, Inside

LEMMA CreateCallStep ==
    ASSUME TimerInv, NEW x \in Ids, NEW n \in Timeouts, CreateCall(x, n)
    PROVE  TimerInv'
<1>1. /\ at = "task" /\ at' = "task" /\ op[current].do = "idle" /\ status[x] = "gone" /\ sie' = FALSE
      /\ \A t \in Task : op[t].do \in DeleteSteps => op[t].id # x
      /\ status' = [status EXCEPT ![x] = "creating"]
      /\ UNCHANGED <<func, timeout, tick, slot, current, handle, kept, left, waited, crossed>>
  BY DEF CreateCall, Free, SpinLock, Doing, Task, DeleteSteps
<1> DEFINE o == [do |-> "find", id |-> x, timeout |-> n, t |-> 0]
<1>2. op' = [op EXCEPT ![current] = o] /\ o \in CreateOp /\ o.do = "find" /\ o.id = x
  BY TimerAssumption DEF CreateCall, CreateOp, CreateSteps, Memory
<1> HIDE DEF o
<1>3. current \in Task /\ OpTypes /\ status \in [Ids -> Statuses]
  BY Types DEF TimerInv, TypeOK, Statuses
<1>4. OpTypes' /\ op'[current] = o /\ \A t \in Task : t # current => op'[t] = op[t]
  BY <1>2, <1>3, PutOp
<1>5. status'[x] = "creating" /\ \A y \in Ids : y # x => status'[y] = status[y]
  BY <1>1, <1>3
<1>6. TypeOK'
  <2>1. status' \in [Ids -> Statuses]
    BY <1>1, <1>3 DEF Statuses
  <2>2. QED
    BY <1>1, <1>4, <2>1, OpsTypedNext DEF TimerInv, TypeOK, Statuses
<1>7. OneInside'
  BY <1>1, <1>4, KeepsLock DEF TimerInv
<1>8. Creators'
  BY <1>1, <1>2, <1>4, <1>5, OthersCall DEF Creators, Task
<1>9. Writing'
  BY <1>1, <1>2, <1>4 DEF Writing
<1>10. Handles'
  BY <1>1, <1>5 DEF TimerInv, Handles
<1>11. Meant'
  <2> SUFFICES ASSUME NEW t \in Task, op'[t].do \in DeleteSteps, op'[t].id \in Ids PROVE Means(op[t])' /\ op'[t] = op[t]
    BY DEF Meant, Means, Task
  <2>1. t # current
    BY <1>2, <1>4 DEF DeleteSteps
  <2>2. op'[t] = op[t] /\ op[t].id # x
    BY <1>1, <1>4, <2>1
  <2>3. Means(op[t])
    BY <2>2 DEF TimerInv, Meant
  <2>4. QED
    BY <1>1, <1>5, <2>2, <2>3 DEF Means
<1>12. Owned'
  <2>1. \A s \in Memory : func[s] # x
    BY <1>1 DEF TimerInv, Owned, Owner
  <2>2. \A s \in Memory, y \in Ids : func[s] = y => y # x /\ Owner(s, y)
    BY <2>1 DEF TimerInv, Owned
  <2>3. QED
    BY <1>1, <1>2, <1>4, <1>5, <2>2 DEF Owned, Owner, TimerInv
<1>13. Firing' /\ LiveTimersIntact' /\ DueThisRound'
  BY <1>1, <1>5 DEF TimerInv, Firing, LiveTimersIntact, DueThisRound
<1>14. PassedOver'
  BY <1>1, <1>5, KeepsPassed
<1>15. QED
  BY <1>4, <1>6, <1>7, <1>8, <1>9, <1>10, <1>11, <1>12, <1>13, <1>14 DEF TimerInv

(* A call that has the lock, and only it, changes a timer that nobody means  *)
(* to delete yet.                                                            *)
LEMMA KeepsMeant ==
    ASSUME TimerInv, current \in Task, \A t \in Task : t # current => op'[t] = op[t],
           op'[current].do \notin DeleteSteps,
           \A x \in Ids : status[x] \in {"gone", "live", "stray"} => status'[x] = status[x] /\ handle'[x] = handle[x]
    PROVE  Meant'
<1> SUFFICES ASSUME NEW t \in Task, op'[t].do \in DeleteSteps, op'[t].id \in Ids PROVE Means(op[t])' /\ op'[t] = op[t]
  BY DEF Meant, Means, Task
<1>1. op'[t] = op[t]
  OBVIOUS
<1>2. Means(op[t]) /\ op[t].id \in Ids
  BY <1>1 DEF TimerInv, Meant
<1>3. QED
  BY <1>1, <1>2 DEF Means

LEMMA CreateFullStep ==
    ASSUME TimerInv, CreateFull
    PROVE  TimerInv'
<1>1. /\ at = "task" /\ at' = "task" /\ op[current].do = "full" /\ sie' = TRUE
      /\ op' = [op EXCEPT ![current] = Idle] /\ Idle.do = "idle"
      /\ status' = [status EXCEPT ![op[current].id] = "gone"]
      /\ UNCHANGED <<func, timeout, tick, slot, current, handle, kept, left, waited, crossed>>
  BY DEF CreateFull, Doing, SpinUnlock, Idle
<1>2. current \in Task /\ OpTypes /\ status \in [Ids -> Statuses]
  BY Types DEF TimerInv, TypeOK, Statuses
<1>3. OpTypes' /\ op'[current].do = "idle" /\ \A t \in Task : t # current => op'[t] = op[t]
  BY <1>1, <1>2, PutOp
<1> DEFINE x == op[current].id
<1>4. x \in Ids /\ status[x] = "creating"
  BY <1>1, <1>2, OpForms DEF TimerInv, Creators, CreateOp, CreateSteps
<1> HIDE DEF x
<1>5. status'[x] = "gone" /\ \A y \in Ids : y # x => status'[y] = status[y]
  BY <1>1, <1>2, <1>4 DEF x
<1>6. TypeOK'
  <2>1. status' \in [Ids -> Statuses]
    BY <1>1, <1>2 DEF Statuses
  <2>2. QED
    BY <1>1, <1>3, <2>1, OpsTypedNext DEF TimerInv, TypeOK, Statuses
<1>7. OneInside'
  BY <1>1, <1>3, KeepsLock DEF TimerInv, Inside
<1>8. Creators'
  BY <1>1, <1>3, OthersCall DEF Creators, CreateSteps, Task
<1>9. Writing'
  BY <1>1, <1>3 DEF Writing
<1>10. Handles'
  BY <1>1, <1>4, <1>5 DEF TimerInv, Handles
<1>11. Meant'
  BY <1>1, <1>2, <1>3, <1>4, <1>5, KeepsMeant DEF DeleteSteps
<1>12. Owned'
  <2>1. \A s \in Memory, y \in Ids : func[s] = y => y # x /\ Owner(s, y)
    BY <1>1, <1>4 DEF TimerInv, Owned, Owner
  <2>2. QED
    BY <1>1, <1>3, <1>5, <2>1 DEF Owned, Owner, TimerInv
<1>13. Firing' /\ LiveTimersIntact' /\ DueThisRound'
  BY <1>1, <1>4, <1>5 DEF TimerInv, Firing, LiveTimersIntact, DueThisRound
<1>14. PassedOver'
  BY <1>1, <1>4, <1>5, KeepsPassed
<1>15. QED
  BY <1>3, <1>6, <1>7, <1>8, <1>9, <1>10, <1>11, <1>12, <1>13, <1>14 DEF TimerInv

(* The call inside the lock, and nobody else is.                             *)
LEMMA InCreate ==
    ASSUME TimerInv, op[current].do \in {"func", "timeout", "created"}
    PROVE  /\ at = "task" /\ ~sie /\ current \in Task /\ OpTypes
           /\ op[current].id \in Ids /\ status[op[current].id] = "creating"
           /\ op[current].t \in Memory /\ op[current].timeout \in Timeouts
<1>1. current \in Task /\ OpTypes
  BY Types DEF TimerInv
<1>2. op[current] \in CreateOp
  BY <1>1, OpForms DEF CreateSteps
<1>3. at = "task" /\ ~sie
  BY <1>1 DEF TimerInv, OneInside, Inside
<1>4. status[op[current].id] = "creating"
  BY <1>1 DEF TimerInv, Creators, CreateSteps
<1>5. QED
  BY <1>1, <1>2, <1>3, <1>4 DEF CreateOp

(* A handler written over a free slot takes nobody's place.                  *)
LEMMA CreateFuncStep ==
    ASSUME TimerInv, CreateFunc
    PROVE  TimerInv'
<1> DEFINE x == op[current].id  s == op[current].t
<1>1. /\ at' = at /\ op[current].do = "func" /\ Goto("timeout")
      /\ func' = [func EXCEPT ![s] = x]
      /\ UNCHANGED <<timeout, tick, sie, slot, current, handle, kept, left, waited, crossed, status>>
  BY DEF CreateFunc, Doing
<1>2. /\ at = "task" /\ ~sie /\ current \in Task /\ OpTypes
      /\ x \in Ids /\ status[x] = "creating" /\ s \in Memory
  BY <1>1, InCreate
<1>3. /\ OpTypes' /\ op'[current].do = "timeout" /\ op'[current].id = x /\ op'[current].t = s
      /\ \A t \in Task : t # current => op'[t] = op[t]
  BY <1>1, <1>2, GotoCreate DEF CreateSteps
<1>4. func[s] = NULL /\ \A r \in Memory : func[r] # x
  BY <1>1, <1>2 DEF TimerInv, Writing, Owned, Owner
<1> HIDE DEF x, s
<1>5. func'[s] = x /\ \A r \in Memory : r # s => func'[r] = func[r]
  BY <1>1, <1>2 DEF TimerInv, TypeOK
<1>6. TypeOK'
  <2>1. func' \in [Memory -> Ids \union {NULL, USED}]
    BY <1>1, <1>2 DEF TimerInv, TypeOK
  <2>2. QED
    BY <1>1, <1>3, <2>1, OpsTypedNext DEF TimerInv, TypeOK
<1>7. OneInside'
  BY <1>1, <1>2, <1>3, KeepsLock DEF TimerInv
<1>8. Creators'
  <2>1. \A t \in Task : t # current => op'[t].do \notin CreateSteps
    BY <1>1, <1>2, <1>3, OthersCall
  <2>2. QED
    BY <1>1, <1>2, <1>3, <2>1 DEF Creators, Task
<1>9. Writing'
  BY <1>1, <1>3, <1>5 DEF Writing
<1>10. Owned'
  <2>1. ASSUME NEW r \in Memory, NEW y \in Ids, func'[r] = y PROVE Owner(r, y)'
    <3>1. CASE r = s
      BY <1>1, <1>2, <1>3, <1>5, <2>1, <3>1 DEF Owner
    <3>2. CASE r # s
      <4>1. func[r] = y /\ Owner(r, y)
        BY <1>5, <2>1, <3>2 DEF TimerInv, Owned
      <4>2. QED
        BY <1>1, <1>2, <4>1 DEF Owner
    <3>3. QED
      BY <3>1, <3>2
  <2>2. \A r \in Slots : func'[r] # USED
    <3>1. x # USED
      BY <1>2, Types DEF USED
    <3>2. QED
      BY <1>5, <3>1, Types DEF TimerInv, Owned
  <2>3. QED
    BY <2>1, <2>2 DEF Owned
<1>11. Firing'
  BY <1>1, <1>2 DEF Firing
<1>12. LiveTimersIntact'
  <2>1. \A y \in Ids : status[y] = "live" => handle[y] # s
    BY <1>4, Types DEF TimerInv, LiveTimersIntact, NULL
  <2>2. QED
    BY <1>1, <1>5, <2>1, Types DEF TimerInv, LiveTimersIntact
<1>13. DueThisRound'
  BY <1>1 DEF TimerInv, DueThisRound
<1>14. Handles' /\ Meant'
  <2>1. Handles'
    BY <1>1 DEF TimerInv, Handles
  <2>2. op'[current].do \notin DeleteSteps
    BY <1>3 DEF DeleteSteps
  <2>3. QED
    BY <1>1, <1>2, <1>3, <2>1, <2>2, KeepsMeant
<1>15. PassedOver'
  BY <1>1, <1>2, KeepsPassed
<1>16. QED
  BY <1>3, <1>6, <1>7, <1>8, <1>9, <1>10, <1>11, <1>12, <1>13, <1>14, <1>15 DEF TimerInv

LEMMA CreateTimeoutStep ==
    ASSUME TimerInv, CreateTimeout
    PROVE  TimerInv'
<1> DEFINE x == op[current].id  s == op[current].t  n == op[current].timeout
<1>1. /\ at' = at /\ op[current].do = "timeout" /\ Goto("created")
      /\ timeout' = [timeout EXCEPT ![s] = (tick + n) % TickSpan]
      /\ UNCHANGED <<func, tick, sie, slot, current, handle, kept, left, waited, crossed, status>>
  BY DEF CreateTimeout, Doing
<1>2. /\ at = "task" /\ ~sie /\ current \in Task /\ OpTypes
      /\ x \in Ids /\ status[x] = "creating" /\ s \in Memory /\ n \in Timeouts
  BY <1>1, InCreate
<1>3. /\ OpTypes' /\ op'[current].do = "created" /\ op'[current].id = x /\ op'[current].t = s
      /\ op'[current].timeout = n
      /\ \A t \in Task : t # current => op'[t] = op[t]
  BY <1>1, <1>2, GotoCreate DEF CreateSteps
<1>4. func[s] = x
  BY <1>1 DEF TimerInv, Writing
<1> HIDE DEF x, s, n
<1>5. (tick + n) % TickSpan \in 0 .. TickSpan - 1
  BY <1>2, Types, TimerAssumption
<1>6. timeout'[s] = (tick + n) % TickSpan /\ \A r \in Memory : r # s => timeout'[r] = timeout[r]
  BY <1>1, <1>2 DEF TimerInv, TypeOK
<1>7. TypeOK'
  <2>1. timeout' \in [Memory -> 0 .. TickSpan - 1]
    BY <1>1, <1>2, <1>5 DEF TimerInv, TypeOK
  <2>2. QED
    BY <1>1, <1>3, <2>1, OpsTypedNext DEF TimerInv, TypeOK
<1>8. OneInside'
  BY <1>1, <1>2, <1>3, KeepsLock DEF TimerInv
<1>9. Creators'
  <2>1. \A t \in Task : t # current => op'[t].do \notin CreateSteps
    BY <1>1, <1>2, <1>3, OthersCall
  <2>2. QED
    BY <1>1, <1>2, <1>3, <2>1 DEF Creators, Task
<1>10. Writing'
  BY <1>1, <1>3, <1>4, <1>6 DEF Writing
<1>11. Owned'
  BY <1>1, <1>3 DEF TimerInv, Owned, Owner, x, s
<1>12. Firing' /\ DueThisRound'
  BY <1>1, <1>2 DEF TimerInv, Firing, DueThisRound
<1>13. LiveTimersIntact'
  <2>1. \A y \in Ids : status[y] = "live" => handle[y] # s
    BY <1>2, <1>4 DEF TimerInv, LiveTimersIntact
  <2>2. QED
    BY <1>1, <1>6, <2>1, Types DEF TimerInv, LiveTimersIntact
<1>14. Handles' /\ Meant'
  <2>1. Handles'
    BY <1>1 DEF TimerInv, Handles
  <2>2. op'[current].do \notin DeleteSteps
    BY <1>3 DEF DeleteSteps
  <2>3. QED
    BY <1>1, <1>2, <1>3, <2>1, <2>2, KeepsMeant
<1>15. PassedOver'
  BY <1>1, <1>2, KeepsPassed
<1>16. QED
  BY <1>3, <1>7, <1>8, <1>9, <1>10, <1>11, <1>12, <1>13, <1>14, <1>15 DEF TimerInv

(* The caller counts on what is in the slot by now.                          *)
LEMMA CreateUnlockStep ==
    ASSUME TimerInv, CreateUnlock
    PROVE  TimerInv'
<1> DEFINE x == op[current].id  s == op[current].t  n == op[current].timeout
<1>1. /\ at' = at /\ op[current].do = "created" /\ sie' = TRUE
      /\ op' = [op EXCEPT ![current] = Idle] /\ Idle.do = "idle"
      /\ handle' = [handle EXCEPT ![x] = s]
      /\ left' = [left EXCEPT ![x] = n]
      /\ waited' = [y \in Ids |-> IF handle[y] > s THEN 0 ELSE waited[y]]
      /\ crossed' = IF tick + n < TickSpan THEN crossed ELSE crossed \union {x}
      /\ status' = [status EXCEPT ![x] = IF s \in Slots THEN "live" ELSE "stray"]
      /\ UNCHANGED <<func, timeout, tick, slot, current, kept>>
  BY DEF CreateUnlock, Doing, SpinUnlock, Idle
<1>2. /\ at = "task" /\ ~sie /\ current \in Task /\ OpTypes
      /\ x \in Ids /\ status[x] = "creating" /\ s \in Memory /\ n \in Timeouts
  BY <1>1, InCreate
<1>3. OpTypes' /\ op'[current].do = "idle" /\ \A t \in Task : t # current => op'[t] = op[t]
  BY <1>1, <1>2, PutOp
<1>4. func[s] = x /\ timeout[s] = (tick + n) % TickSpan
  BY <1>1 DEF TimerInv, Writing
<1>5. n \in 1 .. TickSpan - 1
  BY <1>2, TimerAssumption
<1>6. \A r \in Memory, y \in Ids : func[r] = y => IF y = x THEN r = s ELSE Owner(r, y)
  BY <1>1, <1>2 DEF TimerInv, Owned, Owner
<1>7. \A r \in Memory, y \in Ids : func[r] = y /\ y # x =>
          \/ status[y] = "live" /\ handle[y] = r /\ r \in Slots
          \/ status[y] = "stray" /\ r = MAX_TIMER
  BY <1>2, <1>6 DEF Owner
<1> HIDE DEF x, s, n
<1>8. /\ status'[x] = IF s \in Slots THEN "live" ELSE "stray"
      /\ handle'[x] = s /\ left'[x] = n
      /\ \A y \in Ids : y # x => status'[y] = status[y] /\ handle'[y] = handle[y] /\ left'[y] = left[y]
                             /\ (y \in crossed' <=> y \in crossed)
  BY <1>1, <1>2 DEF TimerInv, TypeOK
<1>9. s \in Nat /\ (s \notin Slots => s = MAX_TIMER)
  BY <1>2, Types
<1>10. handle[x] = NoHandle /\ waited[x] = 0
  BY <1>2 DEF TimerInv, Handles
<1>11. waited'[x] = 0 /\ \A y \in Ids : waited'[y] = 0 \/ (waited'[y] = waited[y] /\ ~(handle[y] > s))
  BY <1>1, <1>2, <1>10
<1>12. TypeOK'
  <2>1. handle' \in [Ids -> Memory \union {NoHandle}] /\ crossed' \subseteq Ids
        /\ status' \in [Ids -> {"gone", "creating", "live", "stray"}]
    BY <1>1, <1>2 DEF TimerInv, TypeOK
  <2>2. left' \in [Ids -> 1 - TickSpan .. TickSpan - 1]
    <3>1. n \in 1 - TickSpan .. TickSpan - 1
      BY <1>5, Types
    <3>2. QED
      BY <1>1, <1>2, <3>1 DEF TimerInv, TypeOK
  <2>3. waited' \in [Ids -> 0 .. MAX_TIMER]
    <3>1. 0 \in 0 .. MAX_TIMER
      BY Types
    <3>2. QED
      BY <1>1, <3>1 DEF TimerInv, TypeOK
  <2>4. QED
    BY <1>1, <1>3, <2>1, <2>2, <2>3, OpsTypedNext DEF TimerInv, TypeOK
<1>13. OneInside'
  BY <1>1, <1>2, <1>3, KeepsLock DEF TimerInv, Inside
<1>14. Creators'
  <2>1. \A t \in Task : op'[t].do \notin CreateSteps
    BY <1>1, <1>2, <1>3, OthersCall DEF CreateSteps
  <2>2. QED
    BY <1>1, <2>1 DEF Creators, Task
<1>15. Writing'
  BY <1>1, <1>3 DEF Writing
<1>16. Handles'
  <2> SUFFICES ASSUME NEW y \in Ids
               PROVE  /\ status'[y] \in {"gone", "creating"} => handle'[y] = NoHandle /\ waited'[y] = 0
                      /\ status'[y] = "stray" => handle'[y] = MAX_TIMER
    BY DEF Handles
  <2>1. CASE y = x
    BY <1>8, <1>9, <2>1
  <2>2. CASE y # x
    BY <1>8, <1>11, <2>2 DEF TimerInv, Handles
  <2>3. QED
    BY <2>1, <2>2
<1>17. Meant'
  <2>1. \A y \in Ids : status[y] \in {"gone", "live", "stray"} => status'[y] = status[y] /\ handle'[y] = handle[y]
    BY <1>2, <1>8
  <2>2. QED
    BY <1>2, <1>3, <2>1, KeepsMeant DEF DeleteSteps
<1>18. Owned'
  <2>1. ASSUME NEW r \in Memory, NEW y \in Ids, func[r] = y PROVE Owner(r, y)'
    <3>1. CASE y = x
      BY <1>6, <1>8, <1>9, <2>1, <3>1 DEF Owner
    <3>2. CASE y # x
      BY <1>7, <1>8, <2>1, <3>2 DEF Owner
    <3>3. QED
      BY <3>1, <3>2
  <2>2. QED
    BY <1>1, <2>1 DEF TimerInv, Owned
<1>19. Firing'
  BY <1>1, <1>2 DEF Firing
<1>20. LiveTimersIntact'
  <2> SUFFICES ASSUME NEW y \in Ids, status'[y] = "live"
               PROVE  /\ handle'[y] \in Slots /\ func[handle'[y]] = y
                      /\ timeout[handle'[y]] = (tick + left'[y]) % TickSpan
    BY <1>1 DEF LiveTimersIntact
  <2>1. CASE y = x
    BY <1>4, <1>8, <2>1
  <2>2. CASE y # x
    BY <1>8, <2>2 DEF TimerInv, LiveTimersIntact
  <2>3. QED
    BY <2>1, <2>2
<1>21. DueThisRound'
  <2> SUFFICES ASSUME NEW y \in Ids, status'[y] = "live", y \notin crossed' PROVE tick + left'[y] \in 0 .. TickSpan - 1
    BY <1>1 DEF DueThisRound
  <2>1. CASE y = x
    <3>1. tick + n < TickSpan
      BY <1>1, <2>1
    <3>2. QED
      BY <1>5, <1>8, <2>1, <3>1, Types
  <2>2. CASE y # x
    BY <1>8, <2>2 DEF TimerInv, DueThisRound
  <2>3. QED
    BY <2>1, <2>2
<1>22. PassedOver'
  <2> SUFFICES ASSUME NEW y \in Ids, status'[y] = "live", y \notin crossed'
               PROVE  waited'[y] + Cardinality(LiveBelow(handle'[y], status', handle')) <= handle'[y] + 0
    BY <1>1, <1>2 DEF PassedOver
  <2> DEFINE new == Cardinality(LiveBelow(handle'[y], status', handle'))
  <2> DEFINE old == Cardinality(LiveBelow(handle'[y], status, handle))
  <2>1. handle'[y] \in Nat
    BY <1>20, Types DEF LiveTimersIntact
  <2>2. new \in Nat /\ new <= handle'[y]
    BY <2>1, FewerBelow
  <2>3. CASE waited'[y] = 0
    <3> HIDE DEF new
    <3>1. QED
      BY <2>1, <2>2, <2>3 DEF new
  <2>4. CASE y # x /\ waited'[y] = waited[y] /\ ~(handle[y] > s)
    <3>1. status[y] = "live" /\ y \notin crossed /\ handle'[y] = handle[y] /\ handle'[y] <= s
      BY <1>8, <1>9, <2>1, <2>4
    <3>2. waited[y] + old <= handle'[y] + 0
      BY <1>2, <3>1 DEF TimerInv, PassedOver
    <3>3. \A z \in Ids : status'[z] = "live" /\ handle'[z] \in 0 .. handle'[y] - 1 =>
              status[z] = "live" /\ handle[z] = handle'[z]
      <4> SUFFICES ASSUME NEW z \in Ids, status'[z] = "live", handle'[z] \in 0 .. handle'[y] - 1
                   PROVE  status[z] = "live" /\ handle[z] = handle'[z]
        OBVIOUS
      <4>1. handle'[z] # s
        BY <1>9, <2>1, <3>1
      <4>2. z # x
        BY <1>8, <4>1
      <4>3. QED
        BY <1>8, <4>2
    <3>4. new <= old /\ old \in Nat
      BY <2>1, <3>3, FewerBelow
    <3>5. waited[y] \in Nat
      BY DEF TimerInv, TypeOK
    <3> HIDE DEF new, old
    <3>6. QED
      BY <2>1, <2>2, <2>4, <3>2, <3>4, <3>5 DEF new
  <2>5. QED
    BY <1>11, <2>3, <2>4
<1>23. QED
  BY <1>3, <1>12, <1>13, <1>14, <1>15, <1>16, <1>17, <1>18, <1>19, <1>20, <1>21, <1>22 DEF TimerInv

(* What is left of a timer that ended, and of all the others.                *)
EndsOnly(s) ==
    /\ \A x \in Ids : func[s] = x =>
          /\ status[x] = "live" /\ handle[x] = s
          /\ status'[x] = "gone" /\ handle'[x] = NoHandle /\ waited'[x] = 0
    /\ \A x \in Ids : func[s] # x =>
          /\ status'[x] = status[x] /\ handle'[x] = handle[x] /\ left'[x] = left[x]
          /\ waited'[x] = waited[x] /\ (x \in crossed' <=> x \in crossed)

(* Only a timer that is live leaves the list, by a deletion or by firing.    *)
LEMMA EndsLive ==
    ASSUME TimerInv, NEW s \in Slots, Ends(s),
           at \notin {"callback", "clear"}, op[current].do \notin {"timeout", "created"}
    PROVE  /\ status' \in [Ids -> {"gone", "creating", "live", "stray"}]
           /\ handle' \in [Ids -> Memory \union {NoHandle}] /\ kept' \subseteq Slots
           /\ left' \in [Ids -> 1 - TickSpan .. TickSpan - 1] /\ waited' \in [Ids -> 0 .. MAX_TIMER]
           /\ crossed' \subseteq Ids
           /\ EndsOnly(s)
<1>1. status' \in [Ids -> {"gone", "creating", "live", "stray"}]
  BY DEF Ends, TimerInv, TypeOK
<1>2. handle' \in [Ids -> Memory \union {NoHandle}] /\ kept' \subseteq Slots
  BY DEF Ends, TimerInv, TypeOK
<1>3. left' \in [Ids -> 1 - TickSpan .. TickSpan - 1] /\ waited' \in [Ids -> 0 .. MAX_TIMER]
  <2>1. 0 \in 1 - TickSpan .. TickSpan - 1 /\ 0 \in 0 .. MAX_TIMER
    BY Types
  <2>2. QED
    BY <2>1 DEF Ends, TimerInv, TypeOK
<1>4. crossed' \subseteq Ids
  BY DEF Ends, TimerInv, TypeOK
<1>5. ASSUME NEW x \in Ids, func[s] = x PROVE status[x] = "live" /\ handle[x] = s
  <2>1. Owner(s, x) /\ s # MAX_TIMER
    BY <1>5, Types DEF TimerInv, Owned
  <2>2. QED
    BY <1>5, <2>1 DEF Owner
<1>6. EndsOnly(s)
  BY <1>5 DEF EndsOnly, Ends
<1>7. QED
  BY <1>1, <1>2, <1>3, <1>4, <1>6

(* The callers of the others find theirs as before.                          *)
LEMMA EndsCalls ==
    ASSUME TimerInv, NEW s \in Slots, EndsOnly(s), at' = at \/ at # "task",
           \A t \in Task : t # current => op'[t] = op[t],
           op'[current] = op[current] \/ (op'[current].do \notin CreateSteps /\ op[current].do \in DeleteSteps
                                         /\ op'[current].id = op[current].id /\ op'[current].t = op[current].t)
    PROVE  Creators' /\ Handles' /\ Meant'
<1>1. Creators'
  <2> SUFFICES ASSUME NEW t \in Task, op'[t].do \in CreateSteps PROVE status'[op'[t].id] = "creating"
    BY DEF Creators, Task
  <2>1. op'[t] = op[t]
    OBVIOUS
  <2>2. op[t].id \in Ids /\ status[op[t].id] = "creating"
    BY <2>1, OpForms DEF TimerInv, Creators, CreateOp
  <2>3. QED
    BY <2>1, <2>2 DEF EndsOnly
<1>2. Handles'
  BY DEF TimerInv, Handles, EndsOnly
<1>3. Meant'
  <2> SUFFICES ASSUME NEW t \in Task, op'[t].do \in DeleteSteps, op'[t].id \in Ids PROVE Means(op[t])'
    BY DEF Meant, Means, Task
  <2>1. op[t].do \in DeleteSteps /\ op'[t].id = op[t].id /\ op'[t].t = op[t].t
    OBVIOUS
  <2>2. Means(op[t])
    BY <2>1 DEF TimerInv, Meant
  <2>3. QED
    BY <2>1, <2>2 DEF Means, EndsOnly
<1>4. QED
  BY <1>1, <1>2, <1>3

(* A deletion by a handle of long ago takes whoever is in the slot, alone.   *)
LEMMA DeleteRemoveStep ==
    ASSUME TimerInv, DeleteRemove
    PROVE  TimerInv'
<1> DEFINE s == op[current].t
<1>1. /\ at' = at /\ op[current].do = "remove" /\ Goto("removed")
      /\ UNCHANGED <<timeout, tick, sie, slot, current>>
      /\ IF s \in Slots THEN func' = [func EXCEPT ![s] = NULL] /\ Ends(s)
         ELSE UNCHANGED <<func, handle, kept, left, waited, crossed, status>>
  BY DEF DeleteRemove, Doing
<1>2. current \in Task /\ OpTypes
  BY Types DEF TimerInv
<1>3. at = "task" /\ ~sie
  BY <1>1, <1>2 DEF TimerInv, OneInside, Inside
<1>4. /\ OpTypes' /\ op'[current].do = "removed" /\ \A t \in Task : t # current => op'[t] = op[t]
      /\ op'[current].id = op[current].id /\ op'[current].t = op[current].t
  BY <1>1, <1>2, GotoDelete DEF DeleteSteps
<1>5. OneInside'
  BY <1>1, <1>3, <1>4, KeepsLock DEF TimerInv
<1>6. Writing'
  BY <1>1, <1>4 DEF Writing
<1>7. Firing'
  BY <1>1, <1>3 DEF Firing
<1> HIDE DEF s
<1>8. CASE s \notin Slots
  <2>1. UNCHANGED <<func, handle, kept, left, waited, crossed, status>>
    BY <1>1, <1>8
  <2>2. TypeOK'
    BY <1>1, <1>4, <2>1, OpsTypedNext DEF TimerInv, TypeOK
  <2>3. Creators' /\ Handles'
    <3>1. \A t \in Task : op'[t].do \notin CreateSteps
      BY <1>1, <1>3, <1>4, OthersCall DEF CreateSteps
    <3>2. QED
      BY <1>1, <2>1, <3>1 DEF TimerInv, Creators, Handles, Task
  <2>4. Meant'
    <3> SUFFICES ASSUME NEW t \in Task, op'[t].do \in DeleteSteps, op'[t].id \in Ids PROVE Means(op[t])'
      BY DEF Meant, Means, Task
    <3>1. op[t].do \in DeleteSteps /\ op'[t].id = op[t].id /\ op'[t].t = op[t].t
      BY <1>1, <1>4 DEF DeleteSteps
    <3>2. Means(op[t])
      BY <3>1 DEF TimerInv, Meant
    <3>3. QED
      BY <2>1, <3>1, <3>2 DEF Means
  <2>5. Owned'
    BY <1>1, <1>3, <2>1 DEF TimerInv, Owned, Owner
  <2>6. LiveTimersIntact' /\ DueThisRound'
    BY <1>1, <2>1 DEF TimerInv, LiveTimersIntact, DueThisRound
  <2>7. PassedOver'
    BY <1>1, <1>3, <2>1, KeepsPassed
  <2>8. QED
    BY <1>4, <1>5, <1>6, <1>7, <2>2, <2>3, <2>4, <2>5, <2>6, <2>7 DEF TimerInv
<1>9. CASE s \in Slots
  <2>1. func' = [func EXCEPT ![s] = NULL] /\ Ends(s)
    BY <1>1, <1>9
  <2>2. /\ status' \in [Ids -> {"gone", "creating", "live", "stray"}]
        /\ handle' \in [Ids -> Memory \union {NoHandle}] /\ kept' \subseteq Slots
        /\ left' \in [Ids -> 1 - TickSpan .. TickSpan - 1] /\ waited' \in [Ids -> 0 .. MAX_TIMER]
        /\ crossed' \subseteq Ids
        /\ EndsOnly(s)
    BY <1>1, <1>3, <1>9, <2>1, EndsLive
  <2>3. func'[s] = NULL /\ \A r \in Memory : r # s => func'[r] = func[r]
    BY <1>9, <2>1, Types DEF TimerInv, TypeOK
  <2>4. TypeOK'
    <3>1. func' \in [Memory -> Ids \union {NULL, USED}]
      BY <2>1 DEF TimerInv, TypeOK
    <3>2. QED
      BY <1>1, <1>4, <2>2, <3>1, OpsTypedNext DEF TimerInv, TypeOK
  <2>5. Creators' /\ Handles' /\ Meant'
    BY <1>1, <1>4, <1>9, <2>2, EndsCalls DEF CreateSteps, DeleteSteps
  <2>6. Owned'
    <3>1. ASSUME NEW r \in Memory, NEW x \in Ids, func'[r] = x PROVE Owner(r, x)'
      <4>1. r # s /\ func[r] = x
        BY <2>3, <3>1, Types DEF NULL
      <4>2. Owner(r, x)
        BY <4>1 DEF TimerInv, Owned
      <4>3. func[s] # x
        BY <1>1, <1>3, <2>2, <4>1, <4>2 DEF Owner, EndsOnly
      <4>4. status'[x] = status[x] /\ handle'[x] = handle[x]
        BY <2>2, <4>3 DEF EndsOnly
      <4>5. QED
        BY <1>1, <1>3, <4>2, <4>4 DEF Owner
    <3>2. \A r \in Slots : func'[r] # USED
      BY <2>3, Types DEF TimerInv, Owned, NULL, USED
    <3>3. QED
      BY <3>1, <3>2 DEF Owned
  <2>7. LiveTimersIntact'
    <3> SUFFICES ASSUME NEW x \in Ids, status'[x] = "live"
                 PROVE  /\ handle'[x] \in Slots /\ func'[handle'[x]] = x
                        /\ timeout[handle'[x]] = (tick + left'[x]) % TickSpan
      BY <1>1 DEF LiveTimersIntact
    <3>1. status[x] = "live" /\ func[s] # x /\ left'[x] = left[x] /\ handle'[x] = handle[x]
      BY <2>2 DEF EndsOnly
    <3>2. handle[x] \in Slots /\ func[handle[x]] = x
          /\ timeout[handle[x]] = (tick + left[x]) % TickSpan
      BY <3>1 DEF TimerInv, LiveTimersIntact
    <3>3. func'[handle[x]] = x
      BY <2>3, <3>1, <3>2, Types
    <3>4. QED
      BY <3>1, <3>2, <3>3
  <2>8. DueThisRound'
    BY <1>1, <2>2 DEF TimerInv, DueThisRound, EndsOnly
  <2>9. PassedOver'
    <3>1. \A x \in Ids : status'[x] = "live" =>
               status[x] = "live" /\ handle'[x] = handle[x] /\ waited'[x] = waited[x]
               /\ (x \in crossed' <=> x \in crossed)
      BY <2>2 DEF EndsOnly
    <3>2. QED
      BY <1>1, <1>3, <3>1, KeepsPassed
  <2>10. QED
    BY <1>4, <1>5, <1>6, <1>7, <2>4, <2>5, <2>6, <2>7, <2>8, <2>9 DEF TimerInv
<1>10. QED
  BY <1>8, <1>9

-----------------------------------------------------------------------------
(* The handler. *)

(* Outside the lock no call is half done.                                    *)
LEMMA NobodyInside ==
    ASSUME TimerInv, sie \/ at # "task"
    PROVE  \A t \in Task : op[t].do \notin Inside
  BY DEF TimerInv, OneInside, TypeOK

(* Where _tick did not wrap, a timer whose tick has come is found expired.   *)
LEMMA LateIsExpired ==
    ASSUME TimerInv, NEW x \in Ids, status[x] = "live", x \notin crossed, left[x] <= 0
    PROVE  handle[x] \in Expired
<1>1. tick + left[x] \in 0 .. TickSpan - 1
  BY DEF TimerInv, DueThisRound
<1>2. left[x] \in Int /\ tick \in Nat /\ TickSpan \in Nat \ {0}
  BY Types DEF TimerInv, TypeOK
<1>3. handle[x] \in Slots /\ func[handle[x]] = x /\ timeout[handle[x]] = (tick + left[x]) % TickSpan
  BY DEF TimerInv, LiveTimersIntact
<1>4. timeout[handle[x]] = tick + left[x]
  BY <1>1, <1>2, <1>3, ModSmall
<1>5. QED
  BY <1>1, <1>2, <1>3, <1>4, Types DEF Expired, NULL

(* The expiries of the live timers are where they were, a tick nearer.       *)
LEMMA TakeTickStep ==
    ASSUME TimerInv, TakeTick
    PROVE  TimerInv'
<1>1. /\ at = "task" /\ sie /\ sie' = FALSE /\ at' = "check"
      /\ tick' = (tick + 1) % TickSpan
      /\ left' = [x \in Ids |-> IF status[x] # "live" THEN left[x] ELSE OneLess(left[x])]
      /\ crossed' = IF tick' = 0 THEN crossed \union {x \in Ids : status[x] = "live"} ELSE crossed
      /\ waited' = [x \in Ids |-> IF status[x] # "live" \/ left'[x] > 0 \/ x \in crossed' THEN 0
                                  ELSE IF waited[x] < MAX_TIMER THEN waited[x] + 1 ELSE waited[x]]
      /\ UNCHANGED <<func, timeout, slot, current, op, handle, kept, status>>
  BY DEF TakeTick, Tick
<1>2. \A t \in Task : op[t].do \notin Inside
  BY <1>1, NobodyInside
<1>3. tick' = IF tick + 1 = TickSpan THEN 0 ELSE tick + 1
  BY <1>1, Types, TickShift
<1>4. TickSpan \in Nat \ {0} /\ tick \in 0 .. TickSpan - 1
      /\ \A x \in Ids : left[x] \in 1 - TickSpan .. TickSpan - 1
  BY Types DEF TimerInv, TypeOK
<1>5. TypeOK'
  <2>1. tick' \in 0 .. TickSpan - 1
    BY <1>3, <1>4
  <2>2. left' \in [Ids -> 1 - TickSpan .. TickSpan - 1]
    BY <1>1, <1>4, OneLessShift
  <2>3. crossed' \subseteq Ids
    BY <1>1 DEF TimerInv, TypeOK
  <2>4. waited' \in [Ids -> 0 .. MAX_TIMER]
    <3>1. \A x \in Ids : waited'[x] \in 0 .. MAX_TIMER
      BY <1>1, Types DEF TimerInv, TypeOK
    <3>2. QED
      BY <1>1, <3>1
  <2>5. QED
    BY <1>1, <2>1, <2>2, <2>3, <2>4 DEF TimerInv, TypeOK
<1>6. OpTypes' /\ Creators' /\ Meant'
  BY <1>1 DEF TimerInv, OpTypes, Creators, Meant, Means
<1>7. OneInside' /\ Writing'
  BY <1>1, <1>2, Types DEF OneInside, Writing, Inside
<1>8. Owned' /\ Firing'
  BY <1>1, <1>2, Types DEF TimerInv, Owned, Owner, Firing, Inside
<1>9. Handles'
  BY <1>1 DEF TimerInv, Handles
<1>10. LiveTimersIntact'
  <2> SUFFICES ASSUME NEW x \in Ids, status[x] = "live"
               PROVE  /\ handle[x] \in Slots /\ func[handle[x]] = x
                      /\ timeout[handle[x]] = (tick' + left'[x]) % TickSpan
    BY <1>1 DEF LiveTimersIntact
  <2>1. handle[x] \in Slots /\ func[handle[x]] = x /\ timeout[handle[x]] = (tick + left[x]) % TickSpan
    BY DEF TimerInv, LiveTimersIntact
  <2>2. left'[x] = OneLess(left[x])
    BY <1>1
  <2>3. (((tick + 1) % TickSpan) + OneLess(left[x])) % TickSpan = (tick + left[x]) % TickSpan
    BY <1>4, OneLessShift
  <2>4. QED
    BY <1>1, <2>1, <2>2, <2>3
<1>11. DueThisRound'
  <2> SUFFICES ASSUME NEW x \in Ids, status[x] = "live", x \notin crossed' PROVE tick' + left'[x] \in 0 .. TickSpan - 1
    BY <1>1 DEF DueThisRound
  <2>1. x \notin crossed /\ tick' = tick + 1
    BY <1>1, <1>3
  <2>2. tick + left[x] \in 0 .. TickSpan - 1
    BY <2>1 DEF TimerInv, DueThisRound
  <2>3. left'[x] = OneLess(left[x])
    BY <1>1
  <2>4. left[x] \in 1 - TickSpan .. TickSpan - 1 /\ tick' \in 0 .. TickSpan - 1
    BY <1>4, <1>5 DEF TypeOK
  <2>5. left[x] # 1 - TickSpan
    BY <1>4, <2>1, <2>2, <2>4
  <2>6. left'[x] = left[x] - 1
    BY <2>3, <2>5 DEF OneLess
  <2>7. QED
    BY <1>4, <2>1, <2>2, <2>4, <2>6
<1>12. PassedOver'
  <2> SUFFICES ASSUME NEW x \in Ids, status[x] = "live", x \notin crossed'
               PROVE  waited'[x] + Cardinality(LiveBelow(handle[x], status, handle))
                          <= handle[x] + (IF left'[x] <= 0 THEN 1 ELSE 0)
    BY <1>1 DEF PassedOver
  <2> DEFINE below == Cardinality(LiveBelow(handle[x], status, handle))
  <2>1. x \notin crossed
    BY <1>1
  <2>2. handle[x] \in Nat /\ waited[x] \in Nat /\ left'[x] \in Int
    BY <1>5, Types DEF TimerInv, LiveTimersIntact, TypeOK
  <2>3. below \in Nat /\ below <= handle[x]
    BY <2>2, FewerBelow
  <2>4. waited[x] + below <= handle[x] + 0
    BY <1>1, <2>1 DEF TimerInv, PassedOver
  <2>5. CASE left'[x] > 0
    <3>1. waited'[x] = 0
      BY <1>1, <2>5
    <3> HIDE DEF below
    <3>2. QED
      BY <2>2, <2>3, <2>5, <3>1 DEF below
  <2>6. CASE left'[x] <= 0
    <3>1. waited'[x] = waited[x] + 1 \/ waited'[x] = waited[x] \/ waited'[x] = 0
      BY <1>1
    <3> HIDE DEF below
    <3>2. waited'[x] + below <= handle[x] + 1
      BY <2>2, <2>3, <2>4, <3>1
    <3>3. QED
      BY <2>6, <3>2 DEF below
  <2>7. QED
    BY <2>2, <2>5, <2>6
<1>13. QED
  BY <1>5, <1>6, <1>7, <1>8, <1>9, <1>10, <1>11, <1>12 DEF TimerInv

(* The places of the handler where nothing is written.                       *)
LEMMA HandlerMoveStep ==
    ASSUME TimerInv, CheckNone \/ CallbackReturns \/ Return
    PROVE  TimerInv'
<1>1. /\ at \in {"check", "callback", "return"}
      /\ UNCHANGED <<func, timeout, tick, op, handle, kept, left, waited, crossed, status>>
      /\ at' \in {"return", "clear", "task"}
  BY DEF CheckNone, CallbackReturns, Return, taskvars
<1>2. \A t \in Task : op[t].do \notin Inside
  BY <1>1, NobodyInside
<1>3. current' \in Task /\ slot' \in Slots /\ sie' \in BOOLEAN
  <2>1. current \in Task /\ slot \in Slots /\ sie \in BOOLEAN
    BY Types DEF TimerInv, TypeOK
  <2>2. (current + 1) % Tasks \in Task /\ 0 \in Slots
    BY Types DEF Task, Slots
  <2>3. QED
    BY <2>1, <2>2 DEF CheckNone, CallbackReturns, Return
<1>4. TypeOK' /\ OpTypes' /\ Creators'
  BY <1>1, <1>3 DEF TimerInv, TypeOK, OpTypes, Creators, Task
<1>5. OneInside' /\ Writing' /\ Handles' /\ Meant'
  BY <1>1, <1>2, <1>3 DEF TimerInv, OneInside, Writing, Inside, Handles, Meant, Means
<1>6. Owned' /\ Firing'
  <2>1. /\ at = "callback" => at' = "clear" /\ slot' = slot
        /\ at # "callback" => at \notin {"callback", "clear"} /\ at' \notin {"callback", "clear"}
    BY <1>1 DEF CheckNone, CallbackReturns, Return
  <2>2. \A s \in Memory, x \in Ids : Owner(s, x) => Owner(s, x)'
    BY <1>1, <1>2, <2>1, Types DEF Owner, Inside
  <2>3. QED
    BY <1>1, <2>1, <2>2 DEF TimerInv, Owned, Firing
<1>7. LiveTimersIntact' /\ DueThisRound'
  BY <1>1 DEF TimerInv, LiveTimersIntact, DueThisRound
<1>8. PassedOver'
  <2>1. ASSUME at = "check", NEW x \in Ids, status[x] = "live", x \notin crossed PROVE ~(left[x] <= 0)
    <3>1. Expired = {}
      BY <2>1 DEF CheckNone, CallbackReturns, Return
    <3>2. QED
      BY <2>1, <3>1, LateIsExpired
  <2>2. QED
    BY <1>1, <2>1 DEF TimerInv, PassedOver
<1>9. QED
  BY <1>4, <1>5, <1>6, <1>7, <1>8 DEF TimerInv

(* What fires was live, and its tick has come or _tick has wrapped meanwhile. *)
LEMMA FiringFacts ==
    ASSUME TimerInv, CheckFires
    PROVE  \E s \in Slots :
               /\ func[s] \in Ids /\ slot' = s /\ Ends(s) /\ \A r \in Expired : s <= r
               /\ status[func[s]] = "live"
               /\ left[func[s]] <= 0 \/ func[s] \in crossed
<1>1. PICK s \in Expired : slot' = s /\ Ends(s) /\ \A r \in Expired : s <= r
  BY DEF CheckFires
<1>2. s \in Slots /\ func[s] # NULL /\ tick >= timeout[s] /\ at = "check"
  BY <1>1 DEF Expired, CheckFires
<1>3. func[s] \in Ids
  BY <1>2, Types DEF TimerInv, TypeOK, Owned
<1>4. current \in Task /\ op[current].do \notin {"timeout", "created"}
  BY <1>2, NobodyInside, Types DEF Inside
<1> DEFINE x == func[s]
<1>5. status[x] = "live" /\ handle[x] = s
  <2>1. EndsOnly(s)
    BY <1>1, <1>2, <1>4, EndsLive
  <2>2. QED
    BY <1>3, <2>1 DEF EndsOnly
<1>6. ASSUME left[x] > 0, x \notin crossed PROVE FALSE
  <2>1. timeout[s] = (tick + left[x]) % TickSpan /\ tick + left[x] \in 0 .. TickSpan - 1
    BY <1>3, <1>5, <1>6 DEF TimerInv, LiveTimersIntact, DueThisRound
  <2>2. timeout[s] = tick + left[x]
    BY <2>1, ModSmall, Types
  <2>3. left[x] \in Int /\ tick \in Int
    BY <1>3, Types DEF TimerInv, TypeOK
  <2>4. QED
    BY <1>2, <1>6, <2>2, <2>3
<1>7. left[x] \in Int
  BY <1>3, Types DEF TimerInv, TypeOK
<1>8. QED
  BY <1>1, <1>2, <1>3, <1>5, <1>6, <1>7

(* A timer below goes for good: who was late had one more below it.          *)
LEMMA CheckFiresStep ==
    ASSUME TimerInv, CheckFires
    PROVE  TimerInv'
<1>1. PICK s \in Slots : /\ func[s] \in Ids /\ slot' = s /\ Ends(s) /\ \A r \in Expired : s <= r
                         /\ status[func[s]] = "live"
  BY FiringFacts
<1>2. at = "check" /\ at' = "callback" /\ UNCHANGED <<func, timeout, tick, sie, current, op>>
  BY DEF CheckFires
<1>3. current \in Task /\ \A t \in Task : op[t].do \notin Inside
  BY <1>2, NobodyInside, Types
<1>4. /\ status' \in [Ids -> {"gone", "creating", "live", "stray"}]
      /\ handle' \in [Ids -> Memory \union {NoHandle}] /\ kept' \subseteq Slots
      /\ left' \in [Ids -> 1 - TickSpan .. TickSpan - 1] /\ waited' \in [Ids -> 0 .. MAX_TIMER]
      /\ crossed' \subseteq Ids
      /\ EndsOnly(s)
  BY <1>1, <1>2, <1>3, EndsLive DEF Inside
<1>5. TypeOK' /\ OpTypes'
  BY <1>1, <1>2, <1>4 DEF TimerInv, TypeOK, OpTypes
<1>6. OneInside' /\ Writing'
  BY <1>2, <1>3 DEF OneInside, Writing, Inside
<1>7. Creators' /\ Handles' /\ Meant'
  BY <1>2, <1>4, EndsCalls
<1>8. Owned'
  <2>1. ASSUME NEW r \in Memory, NEW x \in Ids, func[r] = x PROVE Owner(r, x)'
    <3>1. Owner(r, x)
      BY <2>1 DEF TimerInv, Owned
    <3>2. CASE x = func[s]
      <4>1. status[x] = "live" /\ handle[x] = s /\ status'[x] = "gone"
        BY <1>4, <3>2 DEF EndsOnly
      <4>2. r = s
        BY <1>2, <3>1, <4>1 DEF Owner
      <4>3. QED
        BY <1>1, <1>2, <4>1, <4>2 DEF Owner
    <3>3. CASE x # func[s]
      <4>1. status'[x] = status[x] /\ handle'[x] = handle[x]
        BY <1>4, <3>3 DEF EndsOnly
      <4>2. QED
        BY <1>2, <1>3, <3>1, <4>1 DEF Owner, Inside
    <3>4. QED
      BY <3>2, <3>3
  <2>2. QED
    BY <1>2, <2>1 DEF TimerInv, Owned
<1>9. Firing'
  BY <1>1, <1>2, <1>4 DEF Firing, EndsOnly
<1>10. LiveTimersIntact' /\ DueThisRound'
  BY <1>2, <1>4 DEF TimerInv, LiveTimersIntact, DueThisRound, EndsOnly
<1>11. PassedOver'
  <2> SUFFICES ASSUME NEW x \in Ids, status'[x] = "live", x \notin crossed'
               PROVE  waited'[x] + Cardinality(LiveBelow(handle'[x], status', handle')) <= handle'[x] + 0
    BY <1>2 DEF PassedOver
  <2> DEFINE new == Cardinality(LiveBelow(handle[x], status', handle'))
  <2> DEFINE old == Cardinality(LiveBelow(handle[x], status, handle))
  <2>1. /\ func[s] # x /\ status[x] = "live" /\ x \notin crossed
        /\ waited'[x] = waited[x] /\ handle'[x] = handle[x]
    BY <1>4 DEF EndsOnly
  <2>2. handle[x] \in Slots /\ handle[x] \in Nat /\ waited[x] \in Nat /\ left[x] \in Int /\ s \in Nat
        /\ func[handle[x]] = x
    BY <2>1, Types DEF TimerInv, LiveTimersIntact, TypeOK
  <2>3. waited[x] + old <= handle[x] + (IF left[x] <= 0 THEN 1 ELSE 0)
    BY <1>2, <2>1 DEF TimerInv, PassedOver
  <2>4. \A y \in Ids : status'[y] = "live" => status[y] = "live" /\ handle[y] = handle'[y] /\ handle[y] # s
    <3>1. \A y \in Ids : status[y] = "live" /\ handle[y] = s => func[s] = y
      BY DEF TimerInv, LiveTimersIntact
    <3>2. QED
      BY <1>4, <3>1 DEF EndsOnly
  <2>5. /\ new \in Nat /\ old \in Nat /\ new <= old
        /\ \A r \in LiveBelow(handle[x], status, handle) :
              r \notin LiveBelow(handle[x], status', handle') => new + 1 <= old
    BY <2>2, <2>4, FewerBelow
  <2>6. CASE left[x] <= 0
    <3>1. s <= handle[x]
      BY <1>1, <2>1, <2>6, LateIsExpired
    <3>2. s # handle[x]
      BY <2>1, <2>2
    <3>3. s \in 0 .. handle[x] - 1
      BY <2>2, <3>1, <3>2
    <3>4. s \in LiveBelow(handle[x], status, handle)
      BY <1>1, <1>4, <3>3 DEF LiveBelow, EndsOnly
    <3>5. s \notin LiveBelow(handle[x], status', handle')
      BY <2>4 DEF LiveBelow
    <3>6. new + 1 <= old
      BY <2>5, <3>4, <3>5
    <3> HIDE DEF new, old
    <3>7. waited[x] + new <= handle[x] + 0
      BY <2>2, <2>3, <2>5, <2>6, <3>6
    <3>8. QED
      BY <2>1, <3>7 DEF new
  <2>7. CASE ~(left[x] <= 0)
    <3> HIDE DEF new, old
    <3>1. waited[x] + new <= handle[x] + 0
      BY <2>2, <2>3, <2>5, <2>7
    <3>2. QED
      BY <2>1, <3>1 DEF new
  <2>8. QED
    BY <2>6, <2>7
<1>12. QED
  BY <1>5, <1>6, <1>7, <1>8, <1>9, <1>10, <1>11 DEF TimerInv

(* The slot is free again, and it was nobody's.                              *)
LEMMA ClearStep ==
    ASSUME TimerInv, Clear
    PROVE  TimerInv'
<1>1. /\ at = "clear" /\ at' = "return" /\ func' = [func EXCEPT ![slot] = NULL]
      /\ UNCHANGED <<timeout, tick, sie, slot, current, op, handle, kept, left, waited, crossed, status>>
  BY DEF Clear, taskvars
<1>2. \A t \in Task : op[t].do \notin Inside
  BY <1>1, NobodyInside
<1>3. slot \in Slots /\ slot \in Memory /\ current \in Task
  BY Types DEF TimerInv, TypeOK
<1>4. func'[slot] = NULL /\ \A r \in Memory : r # slot => func'[r] = func[r]
  BY <1>1, <1>3 DEF TimerInv, TypeOK
<1>5. TypeOK' /\ OpTypes' /\ Creators' /\ Handles' /\ Meant'
  <2>1. func' \in [Memory -> Ids \union {NULL, USED}]
    BY <1>1 DEF TimerInv, TypeOK
  <2>2. QED
    BY <1>1, <2>1 DEF TimerInv, TypeOK, OpTypes, Creators, Handles, Meant, Means
<1>6. OneInside' /\ Writing' /\ Firing'
  BY <1>1, <1>2, <1>3 DEF OneInside, Writing, Firing, Inside
<1>7. Owned'
  <2>1. ASSUME NEW r \in Memory, NEW x \in Ids, func'[r] = x PROVE Owner(r, x)'
    <3>1. r # slot /\ func[r] = x
      BY <1>4, <2>1, Types DEF NULL
    <3>2. Owner(r, x)
      BY <3>1 DEF TimerInv, Owned
    <3>3. QED
      BY <1>1, <3>1, <3>2 DEF Owner
  <2>2. \A r \in Slots : func'[r] # USED
    BY <1>4, Types DEF TimerInv, Owned, NULL, USED
  <2>3. QED
    BY <2>1, <2>2 DEF Owned
<1>8. LiveTimersIntact'
  <2> SUFFICES ASSUME NEW x \in Ids, status[x] = "live" PROVE func'[handle[x]] = x
    BY <1>1 DEF TimerInv, LiveTimersIntact
  <2>1. handle[x] \in Memory /\ func[handle[x]] = x
    BY Types DEF TimerInv, LiveTimersIntact
  <2>2. handle[x] # slot
    BY <1>1, <2>1 DEF TimerInv, Firing
  <2>3. QED
    BY <1>4, <2>1, <2>2
<1>9. DueThisRound'
  BY <1>1 DEF TimerInv, DueThisRound
<1>10. PassedOver'
  BY <1>1, KeepsPassed
<1>11. QED
  BY <1>5, <1>6, <1>7, <1>8, <1>9, <1>10 DEF TimerInv

-----------------------------------------------------------------------------
(* Together. *)

LEMMA InitInv == Init => TimerInv
<1> SUFFICES ASSUME Init PROVE TimerInv
  OBVIOUS
<1>1. PICK beyond \in Beyond : func = [s \in Memory |-> IF s = MAX_TIMER THEN beyond ELSE NULL]
  BY DEF Init
<1>2. /\ timeout = [s \in Memory |-> 0] /\ tick = 0 /\ sie = TRUE /\ at = "task" /\ slot = 0 /\ current = 0
      /\ op = [t \in 0 .. Tasks - 1 |-> Idle] /\ handle = [x \in Ids |-> NoHandle]
      /\ kept = {} /\ left = [x \in Ids |-> 0] /\ waited = [x \in Ids |-> 0] /\ crossed = {}
      /\ status = [x \in Ids |-> "gone"]
      /\ Idle.do = "idle"
  BY DEF Init, Idle
<1>3. 0 \in 1 - TickSpan .. TickSpan - 1 /\ 0 \in 0 .. MAX_TIMER
  BY TimerAssumption
<1>4. func \in [Memory -> {NULL, USED}] /\ \A s \in Slots : func[s] = NULL
  BY <1>1, TimerAssumption DEF Memory, Slots
<1>5. TypeOK
  BY <1>2, <1>3, <1>4, TimerAssumption DEF TypeOK, Steps, Slots
<1>6. \A t \in Task : op[t].do = "idle"
  BY <1>2 DEF Task
<1>7. OpTypes /\ OneInside /\ Creators
  BY <1>2, <1>6 DEF OpTypes, OneInside, Creators, CreateSteps, Inside, Task
<1>8. Writing
  BY <1>2, <1>6, TimerAssumption DEF Writing, Task
<1>9. Owned
  <2>1. \A s \in Memory, x \in Ids : func[s] # x
    BY <1>4 DEF Ids, NULL, USED
  <2>2. QED
    BY <1>4, <2>1 DEF Owned, NULL, USED
<1>10. Firing /\ LiveTimersIntact /\ DueThisRound /\ PassedOver
  BY <1>2 DEF Firing, LiveTimersIntact, DueThisRound, PassedOver
<1>11. Handles /\ Meant
  BY <1>2, <1>6 DEF Handles, Meant, DeleteSteps
<1>12. QED
  BY <1>5, <1>7, <1>8, <1>9, <1>10, <1>11 DEF TimerInv

LEMMA StutterStep == TimerInv /\ UNCHANGED vars => TimerInv'
<1> SUFFICES ASSUME TimerInv, UNCHANGED vars PROVE TimerInv'
  OBVIOUS
<1>1. UNCHANGED <<func, timeout, tick, sie, at, slot, current, op, handle, kept, left, waited, crossed, status>>
  BY DEF vars, taskvars
<1>2. TypeOK' /\ OpTypes' /\ OneInside' /\ Creators' /\ Writing' /\ Handles' /\ Meant'
  BY <1>1 DEF TimerInv, TypeOK, OpTypes, OneInside, Creators, Writing, Handles, Meant, Means
<1>3. Owned' /\ Firing' /\ LiveTimersIntact' /\ DueThisRound' /\ PassedOver'
  BY <1>1 DEF TimerInv, Owned, Owner, Firing, LiveTimersIntact, DueThisRound, PassedOver
<1>4. QED
  BY <1>2, <1>3 DEF TimerInv

(* TimerInv is inductive.                                                    *)
THEOREM TimerInvariant == Spec => []TimerInv
<1>1. TimerInv /\ [Next]_vars => TimerInv'
  <2> SUFFICES ASSUME TimerInv, [Next]_vars PROVE TimerInv'
    OBVIOUS
  <2>1. CASE \E x \in Ids, n \in Timeouts : CreateCall(x, n)
    BY <2>1, CreateCallStep
  <2>2. CASE (\E x \in Ids : DeleteCall(x)) \/ (\E s \in Slots : DeleteOld(s))
    BY <2>2, CallOpSteps
  <2>3. CASE CallStep
    BY <2>3, CallOpSteps, CreateFullStep, CreateFuncStep, CreateTimeoutStep, CreateUnlockStep, DeleteRemoveStep
    DEF CallStep
  <2>4. CASE Handler
    BY <2>4, TakeTickStep, HandlerMoveStep, CheckFiresStep, ClearStep DEF Handler
  <2>5. CASE UNCHANGED vars
    BY <2>5, StutterStep
  <2>6. QED
    BY <2>1, <2>2, <2>3, <2>4, <2>5 DEF Next, TaskStep
<1>2. QED
  BY <1>1, InitInv, PTL DEF Spec

(* The search, the handler and the calls stay inside timer_list and the word *)
(* behind it.                                                                *)
THEOREM TimerTypes == Spec => []TypeOK
<1>1. TimerInv => TypeOK
  BY DEF TimerInv
<1>2. QED
  BY <1>1, TimerInvariant, PTL

(* Whatever the other tasks, the ticks and old handles do, a timer that was  *)
(* created stays in its slot with its expiry.                                *)
THEOREM TimersStay == Spec => []LiveTimersIntact
<1>1. TimerInv => LiveTimersIntact
  BY DEF TimerInv
<1>2. QED
  BY <1>1, TimerInvariant, PTL

(* Before a task runs, and when the list is scanned, only timers that are    *)
(* awaited are in it: what has fired is out.                                 *)
THEOREM FiredAreGone == Spec => []FiresOnce
<1>1. TimerInv => FiresOnce
  <2> SUFFICES ASSUME TimerInv, at \in {"task", "check"}, NEW s \in Slots, func[s] # NULL
               PROVE  status[func[s]] \in {"creating", "live"}
    BY DEF FiresOnce
  <2>1. func[s] \in Ids
    BY Types DEF TimerInv, TypeOK, Owned
  <2>2. Owner(s, func[s])
    BY <2>1, Types DEF TimerInv, Owned
  <2>3. QED
    BY <2>2, Types DEF Owner
<1>2. QED
  BY <1>1, TimerInvariant, PTL

(* An expired timer is passed over once for each slot below its own, counted *)
(* from the last timer that was created there.                               *)
THEOREM LateByOthers == Spec => []LateByOthersOnly
<1>1. TimerInv => LateByOthersOnly
  <2> SUFFICES ASSUME TimerInv, at = "task", NEW x \in Ids, status[x] = "live", x \notin crossed
               PROVE  waited[x] <= handle[x]
    BY DEF LateByOthersOnly
  <2> DEFINE below == Cardinality(LiveBelow(handle[x], status, handle))
  <2>1. handle[x] \in Nat /\ waited[x] \in Nat
    BY Types DEF TimerInv, LiveTimersIntact, TypeOK
  <2>2. below \in Nat
    BY <2>1, FewerBelow
  <2>3. waited[x] + below <= handle[x] + 0
    BY DEF TimerInv, PassedOver
  <2> HIDE DEF below
  <2>4. QED
    BY <2>1, <2>2, <2>3
<1>2. QED
  BY <1>1, TimerInvariant, PTL

(* No handler is called but of a live timer whose tick has come, or that met *)
(* the wrap.                                                                 *)
THEOREM NoneFiresEarly == Spec => FiresWhenDue
<1>1. TimerInv /\ [Next]_vars =>
        [at = "check" /\ at' = "callback" =>
            LET x == func[slot']
            IN status[x] = "live" /\ (left[x] <= 0 \/ x \in crossed)]_vars
  <2> SUFFICES ASSUME TimerInv, [Next]_vars, at = "check", at' = "callback"
               PROVE  status[func[slot']] = "live" /\ (left[func[slot']] <= 0 \/ func[slot'] \in crossed)
    OBVIOUS
  <2>1. CheckFires
    BY DEF Next, Handler, TakeTick, CheckNone, CallbackReturns, Clear, Return,
           TaskStep, CallStep, CreateCall, DeleteCall, DeleteOld, Doing,
           CreateFind, CreateFull, CreateFunc, CreateTimeout, CreateUnlock,
           DeleteLock, DeleteRemove, DeleteUnlock, vars
  <2>2. QED
    BY <2>1, FiringFacts
<1>2. QED
  BY <1>1, TimerInvariant, PTL DEF Spec, FiresWhenDue

(* A deletion that finds its timer in the list takes that timer out of it    *)
(* and no other.                                                             *)
THEOREM DeletionsTakeTheirOwn == Spec => DeletesItsOwn
<1>1. TimerInv /\ [Next]_vars =>
        [at = "task" => \A x \in Ids : (status[x] = "live" /\ status'[x] = "gone") =>
            LET meant == op[current].id
            IN meant \in Ids => meant = x \/ status[meant] = "gone"]_vars
  <2> SUFFICES ASSUME TimerInv, [Next]_vars, at = "task",
                      NEW x \in Ids, status[x] = "live", status'[x] = "gone",
                      op[current].id \in Ids, status[op[current].id] # "gone"
               PROVE  op[current].id = x
    OBVIOUS
  <2>1. current \in Task /\ OpTypes
    BY Types DEF TimerInv
  <2>2. DeleteRemove
    <3>1. CASE \E y \in Ids, n \in Timeouts : CreateCall(y, n)
      BY <3>1 DEF CreateCall, TimerInv, TypeOK
    <3>2. CASE CreateFull
      <4>1. op[current].do = "full" /\ status' = [status EXCEPT ![op[current].id] = "gone"]
        BY <3>2 DEF CreateFull, Doing
      <4>2. status[op[current].id] = "creating"
        BY <2>1, <4>1 DEF TimerInv, Creators, CreateSteps
      <4>3. QED
        BY <4>1, <4>2 DEF TimerInv, TypeOK
    <3>3. CASE CreateUnlock
      BY <3>3 DEF CreateUnlock, TimerInv, TypeOK
    <3>4. CASE \/ (\E y \in Ids : DeleteCall(y)) \/ (\E s \in Slots : DeleteOld(s))
               \/ CreateFind \/ CreateFunc \/ CreateTimeout \/ DeleteLock \/ DeleteUnlock
      BY <3>4 DEF DeleteCall, DeleteOld, CreateFind, CreateFunc, CreateTimeout, DeleteLock, DeleteUnlock
    <3>5. CASE Handler
      BY <3>5 DEF Handler, TakeTick, Tick, CheckNone, CheckFires, CallbackReturns, Clear, Return
    <3>6. CASE UNCHANGED vars
      BY <3>6 DEF vars, taskvars
    <3>7. QED
      BY <3>1, <3>2, <3>3, <3>4, <3>5, <3>6 DEF Next, TaskStep, CallStep
  <2> DEFINE s == op[current].t
  <2>3. op[current].do = "remove" /\ s \in Slots /\ Ends(s)
    BY <2>2 DEF DeleteRemove, Doing
  <2>4. Means(op[current])
    BY <2>1, <2>3 DEF TimerInv, Meant, DeleteSteps
  <2>5. EndsOnly(s)
    BY <2>3, EndsLive
  <2> HIDE DEF s
  <2>6. func[s] = x
    BY <2>5 DEF EndsOnly
  <2>7. handle[op[current].id] = s /\ status[op[current].id] \in {"live", "stray"}
    BY <2>4 DEF Means, s
  <2>8. status[op[current].id] = "live"
    BY <2>3, <2>7, Types DEF TimerInv, Handles
  <2>9. func[s] = op[current].id
    BY <2>7, <2>8 DEF TimerInv, LiveTimersIntact
  <2>10. QED
    BY <2>6, <2>9
<1>2. QED
  BY <1>1, TimerInvariant, PTL DEF Spec, DeletesItsOwn
==============================================================================
