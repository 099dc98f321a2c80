------------------------------ MODULE HeapLayout ------------------------------
(***************************************************************************)
(* page_init of page.c on the memory the linker scripts give it: how many  *)
(* pages there are, where the descriptors lie, where the pool starts and   *)
(* ends. Addresses are offsets from RAM_START. RAM_LENGHT is a number of   *)
(* pages, as it is in every linker script, and the end of the pool is kept *)
(* as a page number: 8 GB do not fit TLC's integers.                       *)
(***************************************************************************)
EXTENDS Integers

CONSTANTS
    HeapStarts, \* what _heap_start, the end of .bss, may be
    RamPages    \* RAM_LENGHT in pages, one value per linker script

PAGE_SIZE == 4096

(* Mutant: half of the pages. *)
ReservedFour == 4

Reserved == 8       \* pages set aside for the descriptors, one byte each

ASSUME LayoutAssumption ==
    /\ HeapStarts \subseteq Nat
    /\ RamPages \subseteq Nat
    \* the image leaves more than the reserved pages free
    /\ \A h \in HeapStarts, r \in RamPages : (h + PAGE_SIZE - 1) \div PAGE_SIZE + Reserved < r

VARIABLES
    heap_start, ram_pages,  \* the memory page_init finds
    stage,                  \* start, clear, done
    num_pages,              \* _num_pages
    cleared,                \* descriptors cleared by the loop, its i
    alloc_start,            \* _alloc_start
    alloc_end               \* _alloc_end, as a page number

layoutVars == <<heap_start, ram_pages, stage, num_pages, cleared, alloc_start, alloc_end>>

(* Mutant: rounds down. *)
AlignPageDown(address) == (address \div PAGE_SIZE) * PAGE_SIZE

(* _align_page, to the border of a page. *)
AlignPage(address) == ((address + PAGE_SIZE - 1) \div PAGE_SIZE) * PAGE_SIZE

(* HEAP_SIZE / PAGE_SIZE, HEAP_SIZE being ram_pages * PAGE_SIZE - heap_start: *)
(* the last page of the image is lost to the heap when it is used in part.    *)
HeapPages == ram_pages - AlignPage(heap_start) \div PAGE_SIZE

CountPages ==
    /\ stage = "start"
    /\ num_pages' = HeapPages - Reserved
    /\ stage' = "clear"
    /\ UNCHANGED <<heap_start, ram_pages, cleared, alloc_start, alloc_end>>

(* One descriptor of the clearing loop. *)
ClearDescriptor ==
    /\ stage = "clear"
    /\ cleared < num_pages
    /\ cleared' = cleared + 1
    /\ UNCHANGED <<heap_start, ram_pages, stage, num_pages, alloc_start, alloc_end>>

PlacePool ==
    /\ stage = "clear"
    /\ cleared >= num_pages
    /\ alloc_start' = AlignPage(heap_start + Reserved * PAGE_SIZE)
    /\ alloc_end' = alloc_start' \div PAGE_SIZE + num_pages
    /\ stage' = "done"
    /\ UNCHANGED <<heap_start, ram_pages, num_pages, cleared>>

LayoutInit ==
    /\ heap_start \in HeapStarts
    /\ ram_pages \in RamPages
    /\ stage = "start"
    /\ num_pages = 0
    /\ cleared = 0
    /\ alloc_start = 0
    /\ alloc_end = 0

LayoutNext == CountPages \/ ClearDescriptor \/ PlacePool

LayoutSpec == LayoutInit /\ [][LayoutNext]_layoutVars

-----------------------------------------------------------------------------
(* The pool begins on a page border above the image and the reserved pages,  *)
(* and no page of it lies past the end of RAM; none is wasted either.        *)
PoolFillsRam ==
    stage = "done" =>
        /\ alloc_start % PAGE_SIZE = 0
        /\ alloc_start >= heap_start + Reserved * PAGE_SIZE
        /\ alloc_end = ram_pages

(* The descriptors of all pages lie below the pool: "We reserved 8 Page      *)
(* (8 x 4096) to hold the Page structures" (page.c:82).                      *)
TableBelowPool == stage \in {"clear", "done"} => num_pages <= Reserved * PAGE_SIZE
==============================================================================
