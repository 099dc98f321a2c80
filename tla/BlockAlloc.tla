------------------------------ MODULE BlockAlloc ------------------------------
(***************************************************************************)
(* What page.c promises its callers: blocks of contiguous pages that do    *)
(* not overlap, found first fit from the low end of the heap, refused only *)
(* when no such run of pages is left. No descriptors, no loops.            *)
(***************************************************************************)
EXTENDS Integers

CONSTANT
    Requests    \* sizes the callers ask for

NoBlock == -1   \* page_alloc's NULL

VARIABLES
    num_pages,  \* _num_pages, 0 until page_init has counted
    blocks,     \* blocks handed out and not freed
    answer      \* what the last page_alloc to return was asked and answered

Pages(b) == b.start .. b.start + b.len - 1

Fits(i, n) ==
    /\ i + n <= num_pages
    /\ \A b \in blocks : Pages(b) \cap (i .. i + n - 1) = {}

Init ==
    /\ num_pages = 0
    /\ blocks = {}
    /\ answer = [n |-> 0, p |-> NoBlock]

Open ==
    /\ num_pages = 0
    /\ num_pages' \in Nat \ {0}
    /\ UNCHANGED <<blocks, answer>>

Alloc(n) ==
    \E i \in 0 .. num_pages - 1 :
        /\ n > 0 /\ Fits(i, n)
        /\ \A h \in 0 .. i - 1 : ~Fits(h, n)
        /\ blocks' = blocks \union {[start |-> i, len |-> n]}
        /\ answer' = [n |-> n, p |-> i]
        /\ UNCHANGED num_pages

Refuse(n) ==
    /\ \A i \in 0 .. num_pages - 1 : ~Fits(i, IF n = 0 THEN 1 ELSE n)
    /\ answer' = [n |-> n, p |-> NoBlock]
    /\ UNCHANGED <<num_pages, blocks>>

(* No pages: the address of the first free page, or of the end of the heap,  *)
(* and nothing changes hands.                                                *)
AllocNothing ==
    \E i \in 0 .. num_pages :
        /\ i < num_pages => Fits(i, 1)
        /\ \A h \in 0 .. i - 1 : ~Fits(h, 1)
        /\ answer' = [n |-> 0, p |-> i]
        /\ UNCHANGED <<num_pages, blocks>>

Free(b) ==
    /\ blocks' = blocks \ {b}
    /\ UNCHANGED <<num_pages, answer>>

Next ==
    \/ Open
    \/ \E n \in Requests : Alloc(n) \/ Refuse(n)
    \/ 0 \in Requests /\ AllocNothing
    \/ \E b \in blocks : Free(b)

Spec == Init /\ [][Next]_<<num_pages, blocks, answer>>
==============================================================================
