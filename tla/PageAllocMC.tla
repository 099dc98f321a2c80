----------------------------- MODULE PageAllocMC -----------------------------
(* Instances of PageAlloc for TLC, on the memories of HeapLayoutMC. *)
EXTENDS PageAlloc, HeapLayoutMC

UpToAll == 0 .. MaxPages

OneTooMany == {1, MaxPages + 1}
==============================================================================
