------------------------------- MODULE PageAlloc -------------------------------
(***************************************************************************)
(* The page allocator of page.c: page_init (HeapLayout), then page_alloc   *)
(* and page_free loop iteration by loop iteration: the scan for a free     *)
(* page, the check of the pages after it, the marking of the block, and    *)
(* the walk of page_free from a block's first descriptor to the one with   *)
(* PAGE_LAST. It is called by one thread of control at a time (it has no   *)
(* lock; os_main runs before the first task).                              *)
(*                                                                         *)
(* Pages are numbered from _alloc_start, descriptors from HEAP_START.      *)
(* page_init clears the first _num_pages bytes of the area it reserves for *)
(* them; what the others hold is whatever was in RAM. The descriptors of a *)
(* heap of more than MaxPages pages are not followed, and nobody calls.    *)
(***************************************************************************)
EXTENDS HeapLayout

CONSTANTS
    MaxPages,   \* the largest heap in which calls are followed
    Requests,   \* npages of the calls
    OVERSIZE    \* whether callers ask for more pages than there are

ASSUME PageAssumption ==
    /\ MaxPages \in Nat \ {0}
    /\ Requests \subseteq Nat
    /\ OVERSIZE \in BOOLEAN

DescTable == MaxPages + 1
Descs == -1 .. DescTable - 1    \* -1 is the byte before the table
Flags == SUBSET {"taken", "last"}
NULL == -1

VARIABLES
    flags,      \* the descriptors
    at,         \* idle, or the loop being executed: scan, check, mark, clear
    npages,     \* argument of page_alloc
    i, j, k,    \* its loop counters
    page,       \* page_free's descriptor
    held,       \* the callers' blocks: what page_alloc returned and nobody freed
    answer      \* the last answer of page_alloc

vars == <<layoutVars, flags, at, npages, i, j, k, page, held, answer>>

IsFree(d) == "taken" \notin flags[d]
IsLast(d) == "last" \in flags[d]

Init ==
    /\ LayoutInit
    /\ flags \in {[d \in Descs |-> g] : g \in Flags}
    /\ at = "idle"
    /\ npages = 0 /\ i = 0 /\ j = 0 /\ k = 0 /\ page = 0
    /\ held = {}
    /\ answer = [n |-> 0, p |-> NULL]

-----------------------------------------------------------------------------
(* page_init; the loop of ClearDescriptor is where the table is written.     *)

(* Mutant: the loop ends one descriptor early. *)
InitClearShort ==
    /\ cleared < DescTable
    /\ ClearDescriptor
    /\ flags' = IF cleared < num_pages - 1 THEN [flags EXCEPT ![cleared] = {}] ELSE flags
    /\ UNCHANGED <<at, npages, i, j, k, page, held, answer>>

InitClear ==
    /\ cleared < DescTable
    /\ ClearDescriptor
    /\ flags' = [flags EXCEPT ![cleared] = {}]
    /\ UNCHANGED <<at, npages, i, j, k, page, held, answer>>

(* The rest of the loop, where the descriptors are not followed. *)
InitClearRest ==
    /\ stage = "clear"
    /\ cleared = DescTable /\ cleared < num_pages
    /\ cleared' = num_pages
    /\ UNCHANGED <<heap_start, ram_pages, stage, num_pages, alloc_start, alloc_end>>
    /\ UNCHANGED <<flags, at, npages, i, j, k, page, held, answer>>

InitPlace ==
    /\ CountPages \/ PlacePool
    /\ UNCHANGED <<flags, at, npages, i, j, k, page, held, answer>>

PageInit == InitClear \/ InitClearRest \/ InitPlace

-----------------------------------------------------------------------------
(* page_alloc *)

(* A return: the locals are gone. *)
Leave ==
    /\ at' = "idle"
    /\ npages' = 0 /\ i' = 0 /\ j' = 0 /\ k' = 0 /\ page' = 0

Ready == stage = "done" /\ num_pages <= MaxPages /\ at = "idle"

AllocCall(n) ==
    /\ Ready
    /\ n <= num_pages \/ OVERSIZE
    /\ npages' = n
    /\ i' = 0
    /\ at' = "scan"
    /\ UNCHANGED <<layoutVars, flags, j, k, page, held, answer>>

(* Mutant: i < _num_pages - npages. *)
InRangeShort == IF npages <= num_pages THEN i < num_pages - npages ELSE i + npages <= DescTable

(* i <= _num_pages - npages, in unsigned arithmetic: a request for more than *)
(* _num_pages wraps the bound around and the scan goes on. The model follows *)
(* it to the end of the reserved table only.                                 *)
InRange == IF npages <= num_pages THEN i <= num_pages - npages ELSE i + npages <= DescTable

ScanTaken ==
    /\ at = "scan" /\ InRange /\ ~IsFree(i)
    /\ i' = i + 1
    /\ UNCHANGED <<layoutVars, flags, at, npages, j, k, page, held, answer>>

ScanFree ==
    /\ at = "scan" /\ InRange /\ IsFree(i)
    /\ j' = i + 1
    /\ at' = "check"
    /\ UNCHANGED <<layoutVars, flags, npages, i, k, page, held, answer>>

ReturnNull ==
    /\ at = "scan" /\ ~InRange
    /\ Leave
    /\ answer' = [n |-> npages, p |-> NULL]
    /\ UNCHANGED <<layoutVars, flags, held>>

CheckFree ==
    /\ at = "check" /\ j < i + npages /\ IsFree(j)
    /\ j' = j + 1
    /\ UNCHANGED <<layoutVars, flags, at, npages, i, k, page, held, answer>>

(* Mutant: the scan does not go on to the next page. *)
CheckTakenStays ==
    /\ at = "check" /\ j < i + npages /\ ~IsFree(j)
    /\ at' = "scan"
    /\ UNCHANGED <<layoutVars, flags, npages, i, j, k, page, held, answer>>

CheckTaken ==
    /\ at = "check" /\ j < i + npages /\ ~IsFree(j)
    /\ i' = i + 1
    /\ at' = "scan"
    /\ UNCHANGED <<layoutVars, flags, npages, j, k, page, held, answer>>

(* Mutant: the last page of the block is not looked at. *)
FoundEarly ==
    /\ at = "check" /\ j >= i + npages - 1
    /\ k' = i
    /\ at' = "mark"
    /\ UNCHANGED <<layoutVars, flags, npages, i, j, page, held, answer>>

Found ==
    /\ at = "check" /\ j >= i + npages
    /\ k' = i
    /\ at' = "mark"
    /\ UNCHANGED <<layoutVars, flags, npages, i, j, page, held, answer>>

MarkTaken ==
    /\ at = "mark" /\ k < i + npages
    /\ flags' = [flags EXCEPT ![k] = @ \union {"taken"}]
    /\ k' = k + 1
    /\ UNCHANGED <<layoutVars, at, npages, i, j, page, held, answer>>

(* What the caller has got; a request for no pages gives it none. *)
Hand == IF npages = 0 THEN held ELSE held \union {[start |-> i, len |-> npages]}

(* page_k-- and PAGE_LAST, then the block is the caller's. Where no page was *)
(* marked the flag goes to the descriptor before page i.                     *)
MarkLast ==
    /\ at = "mark" /\ k >= i + npages
    /\ flags' = [flags EXCEPT ![k - 1] = @ \union {"last"}]
    /\ Leave
    /\ held' = Hand
    /\ answer' = [n |-> npages, p |-> i]
    /\ UNCHANGED <<layoutVars>>

-----------------------------------------------------------------------------
(* page_free. The address checks at its head (NULL, at or past _alloc_end)   *)
(* leave at once and change nothing.                                         *)

(* A caller gives a block back. *)
FreeCall(b) ==
    /\ Ready
    /\ page' = b.start
    /\ held' = held \ {b}
    /\ at' = "clear"
    /\ UNCHANGED <<layoutVars, flags, npages, i, j, k, answer>>

(* A second page_free of a block whose first page nobody holds. *)
FreeAgain(d) ==
    /\ Ready
    /\ \A b \in held : d \notin b.start .. b.start + b.len - 1
    /\ page' = d
    /\ at' = "clear"
    /\ UNCHANGED <<layoutVars, flags, npages, i, j, k, held, answer>>

(* Mutant: the walk has no end. *)
ClearNextEndless ==
    /\ at = "clear" /\ ~IsFree(page)
    /\ flags' = [flags EXCEPT ![page] = {}]
    /\ page' = page + 1
    /\ UNCHANGED <<layoutVars, at, npages, i, j, k, held, answer>>

ClearNext ==
    /\ at = "clear" /\ ~IsFree(page) /\ ~IsLast(page)
    /\ flags' = [flags EXCEPT ![page] = {}]
    /\ page' = page + 1
    /\ UNCHANGED <<layoutVars, at, npages, i, j, k, held, answer>>

ClearLast ==
    /\ at = "clear" /\ ~IsFree(page) /\ IsLast(page)
    /\ flags' = [flags EXCEPT ![page] = {}]
    /\ Leave
    /\ UNCHANGED <<layoutVars, held, answer>>

ClearNothing ==
    /\ at = "clear" /\ IsFree(page)
    /\ Leave
    /\ UNCHANGED <<layoutVars, flags, held, answer>>

-----------------------------------------------------------------------------
Call ==
    \/ \E n \in Requests : AllocCall(n)
    \/ \E b \in held : FreeCall(b)
    \/ \E d \in 0 .. num_pages - 1 : FreeAgain(d)

Body ==
    \/ ScanTaken \/ ScanFree \/ ReturnNull
    \/ CheckFree \/ CheckTaken \/ Found
    \/ MarkTaken \/ MarkLast
    \/ ClearNext \/ ClearLast \/ ClearNothing

Next == PageInit \/ Call \/ Body

Spec == Init /\ [][Next]_vars

(* page_init and a call once entered run on; nobody has to call. *)
FairSpec == Spec /\ WF_vars(PageInit \/ Body)

-----------------------------------------------------------------------------
(* Properties. *)

BlockPages(b) == b.start .. b.start + b.len - 1

Block == [start : 0 .. DescTable, len : 1 .. DescTable]

(* The descriptors, counters and blocks keep their types: no loop of a call  *)
(* reads or writes a descriptor outside the reserved table, but for the one  *)
(* before it.                                                                *)
TypeOK ==
    /\ flags \in [Descs -> Flags]
    /\ at \in {"idle", "scan", "check", "mark", "clear"}
    /\ npages \in 0 .. DescTable
    /\ {i, j, k} \subseteq 0 .. DescTable
    /\ page \in 0 .. DescTable - 1
    /\ held \subseteq Block
    /\ answer \in [n : 0 .. DescTable, p : -1 .. DescTable]

(* Two callers never hold the same page.                                     *)
BlocksDisjoint ==
    \A a, b \in held : a # b => BlockPages(a) \cap BlockPages(b) = {}

(* Between calls the descriptors tell exactly the callers' blocks: without   *)
(* this the next page_free frees too little or a neighbour's pages, steps    *)
(* after the call that went wrong (page_init clearing, page_alloc marking,   *)
(* page_free walking). A request for no pages, which sets PAGE_LAST on the   *)
(* descriptor of a page it does not hand out, must leave it so too.          *)
FlagsTellBlocks ==
    Ready =>
        \A d \in 0 .. num_pages - 1 :
            /\ ~IsFree(d) <=> \E b \in held : d \in BlockPages(b)
            /\ IsLast(d) <=> \E b \in held : d = b.start + b.len - 1

Blocks == INSTANCE BlockAlloc WITH blocks <- held

(* page.c implements first-fit allocation of disjoint blocks, and refuses a  *)
(* request only when no run of free pages is long enough.                    *)
ImplementsBlockAlloc == Blocks!Spec

(* page_init and every call return: the scan, the inner loops and the walk   *)
(* terminate.                                                                *)
CallsReturn == (stage # "done" \/ at # "idle") ~> (stage = "done" /\ at = "idle")

(* "_num_pages holds the actual max number of pages we can allocate."        *)
(* (page.c:20): nobody is given a block of more pages.                       *)
NeverMoreThanMax == \A b \in held : b.len <= num_pages
==============================================================================
