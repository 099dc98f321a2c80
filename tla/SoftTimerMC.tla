----------------------------- MODULE SoftTimerMC -----------------------------
(* Instances of SoftTimer for TLC. *)
EXTENDS SoftTimer

UsedOrNull == {USED, NULL}
==============================================================================
