---------------------------- MODULE SoftTimerRearm ----------------------------
(***************************************************************************)
(* SoftTimer with callbacks that set the next timer, the one way to have a *)
(* periodic timer, and with what the trap path makes of it. spin_unlock    *)
(* sets SIE; the tick is still pending, timer_load comes after             *)
(* timer_check; and there is one context per task, found through sscratch, *)
(* for whatever is interrupted: the trap inside timer_handler saves the    *)
(* handler over the task, and when the task's turn comes the handler goes  *)
(* on where it was.                                                        *)
(***************************************************************************)
EXTENDS SoftTimer

VARIABLE ctx    \* what the context of each task holds: its own code, or a place of the handler

rearmVars == <<vars, ctx>>

Own == [at |-> "task", slot |-> 0]

InitRearm == Init /\ ctx = [t \in 0 .. Tasks - 1 |-> Own]

(* timer_create as above, in one piece, and its spin_unlock. *)
CallbackRearms(x, n) ==
    /\ at = "callback"
    /\ Free(x)
    /\ func[Search] = NULL
    /\ func' = [func EXCEPT ![Search] = x]
    /\ timeout' = [timeout EXCEPT ![Search] = (tick + n) % TickSpan]
    /\ handle' = [handle EXCEPT ![x] = Search]
    /\ left' = [left EXCEPT ![x] = n]
    /\ waited' = [y \in Ids |-> IF handle[y] > Search THEN 0 ELSE waited[y]]
    /\ crossed' = IF tick + n < TickSpan THEN crossed ELSE crossed \union {x}
    /\ status' = [status EXCEPT ![x] = IF Search \in Slots THEN "live" ELSE "stray"]
    /\ SpinUnlock
    /\ at' = "clear"
    /\ UNCHANGED <<tick, slot, current, op, kept, ctx>>

CallbackRefused ==
    /\ at = "callback"
    /\ func[Search] # NULL
    /\ SpinUnlock
    /\ at' = "clear"
    /\ UNCHANGED <<func, timeout, tick, slot, current, taskvars, ctx>>

(* The pending tick, taken inside the handler before timer_load. *)
NestedTick ==
    /\ at \in {"clear", "return"} /\ sie
    /\ Tick
    /\ ctx' = [ctx EXCEPT ![current] = [at |-> at, slot |-> slot]]

(* timer_load, schedule() and what the next context holds. *)
ReturnRearm ==
    /\ at = "return"
    /\ current' = (current + 1) % Tasks
    /\ at' = ctx[current'].at
    /\ slot' = ctx[current'].slot
    /\ sie' = TRUE
    /\ UNCHANGED <<func, timeout, tick, taskvars, ctx>>

HandlerRearm ==
    \/ (TakeTick \/ CheckNone \/ CheckFires \/ CallbackReturns \/ Clear) /\ UNCHANGED ctx
    \/ \E x \in Ids, n \in Timeouts : CallbackRearms(x, n)
    \/ CallbackRefused \/ NestedTick \/ ReturnRearm

NextRearm == HandlerRearm \/ (TaskStep /\ UNCHANGED ctx)

SpecRearm == InitRearm /\ [][NextRearm]_rearmVars /\ WF_rearmVars(HandlerRearm)

-----------------------------------------------------------------------------
(* "once time, just delete it after timeout" (timer.c:115): the handler of a *)
(* timer is called once, while the timer is live.                            *)
CalledOnce ==
    [][at = "check" /\ at' = "callback" => status[func[slot']] = "live"]_rearmVars
==============================================================================
