---------------------------- MODULE PageAllocProofs ----------------------------
(***************************************************************************)
(* page.c for every memory, every number of pages and every order of the   *)
(* calls: the layout page_init computes, and that page_alloc and page_free *)
(* hand out disjoint blocks first fit (BlockAlloc).                        *)
(*                                                                         *)
(* What is said of the calls assumes that nobody asks for more pages than  *)
(* there are. InRange wraps around otherwise, and page.c grants the        *)
(* request.                                                                *)
(*                                                                         *)
(* FlagsTellBlocks speaks of the moments between calls. PageInv says what  *)
(* the descriptors tell while a block is marked or walked, and how much of *)
(* the heap the loops of page_alloc have looked at.                        *)
(***************************************************************************)
EXTENDS PageAlloc, TLAPS

-----------------------------------------------------------------------------
(* page_init. *)

(* _align_page returns the first page border at or above the address.        *)
LEMMA AlignBorder ==
    ASSUME NEW a \in Nat
    PROVE  /\ AlignPage(a) \in Nat
           /\ AlignPage(a) % PAGE_SIZE = 0
           /\ AlignPage(a) >= a
           /\ AlignPage(a) < a + PAGE_SIZE
  BY DEF AlignPage, PAGE_SIZE

(* Whole pages added before aligning are added to the border.                *)
LEMMA AlignShift ==
    ASSUME NEW a \in Nat
    PROVE  AlignPage(a + Reserved * PAGE_SIZE) = AlignPage(a) + Reserved * PAGE_SIZE
  BY DEF AlignPage, PAGE_SIZE, Reserved

(* HEAP_SIZE / PAGE_SIZE, the division the code writes, is HeapPages: it     *)
(* drops the part of a page the image has used.                              *)
THEOREM HeapPagesIsQuotient ==
    ASSUME NEW h \in Nat, NEW r \in Nat, h <= r * PAGE_SIZE
    PROVE  (r * PAGE_SIZE - h) \div PAGE_SIZE = r - AlignPage(h) \div PAGE_SIZE
  BY DEF AlignPage, PAGE_SIZE

(* What is known of the variables before the pool is placed.                 *)
LayoutInv ==
    /\ heap_start \in HeapStarts /\ ram_pages \in RamPages
    /\ stage \in {"start", "clear", "done"}
    /\ stage = "start" => num_pages = 0 /\ cleared = 0
    /\ stage # "start" => num_pages = HeapPages - Reserved
    /\ cleared \in Nat
    /\ PoolFillsRam

(* The image leaves pages for the pool.                                      *)
LEMMA PagesLeft == LayoutInv /\ stage # "start" => num_pages \in Nat \ {0}
<1> SUFFICES ASSUME LayoutInv, stage # "start" PROVE num_pages \in Nat \ {0}
  OBVIOUS
<1>1. heap_start \in Nat /\ ram_pages \in Nat
      /\ (heap_start + PAGE_SIZE - 1) \div PAGE_SIZE + Reserved < ram_pages
  BY LayoutAssumption DEF LayoutInv
<1>2. AlignPage(heap_start) \div PAGE_SIZE = (heap_start + PAGE_SIZE - 1) \div PAGE_SIZE
  BY <1>1 DEF AlignPage, PAGE_SIZE
<1>3. (heap_start + PAGE_SIZE - 1) \div PAGE_SIZE \in Int
  BY <1>1 DEF PAGE_SIZE
<1>4. num_pages = ram_pages - (heap_start + PAGE_SIZE - 1) \div PAGE_SIZE - Reserved
  BY <1>2 DEF LayoutInv, HeapPages
<1>5. QED
  BY <1>1, <1>3, <1>4 DEF Reserved

LEMMA PagesLeftNext == (LayoutInv /\ stage # "start" => num_pages \in Nat \ {0})'
  BY PagesLeft, PTL

(* Every step of page_init keeps LayoutInv, also where PageAlloc makes one    *)
(* step of the rest of the loop.                                             *)
LEMMA LayoutStep ==
    LayoutInv /\ (LayoutNext \/ InitClearRest \/ UNCHANGED layoutVars) => LayoutInv'
<1> SUFFICES ASSUME LayoutInv, LayoutNext \/ InitClearRest \/ UNCHANGED layoutVars PROVE LayoutInv'
  OBVIOUS
<1> USE DEF LayoutInv, PoolFillsRam
<1>1. CASE CountPages
  BY <1>1 DEF CountPages, HeapPages
<1>2. CASE ClearDescriptor
  BY <1>2 DEF ClearDescriptor, HeapPages
<1>3. CASE PlacePool
  <2>1. heap_start \in Nat /\ ram_pages \in Nat
    BY LayoutAssumption
  <2>2. alloc_start' = AlignPage(heap_start) + Reserved * PAGE_SIZE
    BY <1>3, <2>1, AlignShift DEF PlacePool
  <2>3. /\ alloc_start' % PAGE_SIZE = 0
        /\ alloc_start' >= heap_start + Reserved * PAGE_SIZE
        /\ alloc_start' \div PAGE_SIZE = AlignPage(heap_start) \div PAGE_SIZE + Reserved
    <3> DEFINE border == AlignPage(heap_start)
    <3>1. border \in Nat /\ border % PAGE_SIZE = 0 /\ border >= heap_start
      BY <2>1, AlignBorder
    <3>2. alloc_start' = border + Reserved * PAGE_SIZE
      BY <2>2
    <3> HIDE DEF border
    <3>3. /\ (border + Reserved * PAGE_SIZE) % PAGE_SIZE = 0
          /\ (border + Reserved * PAGE_SIZE) \div PAGE_SIZE = border \div PAGE_SIZE + Reserved
          /\ border + Reserved * PAGE_SIZE >= heap_start + Reserved * PAGE_SIZE
      BY <2>1, <3>1 DEF PAGE_SIZE, Reserved
    <3>4. QED
      BY <3>2, <3>3 DEF border
  <2>4. num_pages = ram_pages - AlignPage(heap_start) \div PAGE_SIZE - Reserved
    BY <1>3 DEF PlacePool, HeapPages
  <2>5. AlignPage(heap_start) \div PAGE_SIZE \in Int
    BY <2>1, AlignBorder DEF PAGE_SIZE
  <2>6. alloc_end' = ram_pages'
    BY <1>3, <2>1, <2>3, <2>4, <2>5 DEF PlacePool, Reserved
  <2>7. UNCHANGED <<heap_start, ram_pages, num_pages, cleared>> /\ stage' = "done"
    BY <1>3 DEF PlacePool
  <2>8. num_pages' = HeapPages' - Reserved
    BY <1>3, <2>7 DEF PlacePool, HeapPages
  <2>9. QED
    BY <2>3, <2>6, <2>7, <2>8
<1>4. CASE UNCHANGED layoutVars
  BY <1>4 DEF layoutVars, HeapPages
<1>5. CASE InitClearRest
  <2>1. num_pages \in Nat
    BY <1>5, PagesLeft DEF InitClearRest
  <2>2. QED
    BY <1>5, <2>1 DEF InitClearRest, HeapPages
<1>6. QED
  BY <1>1, <1>2, <1>3, <1>4, <1>5 DEF LayoutNext

(* page_init makes LayoutInv true and keeps it.                              *)
LEMMA LayoutInductive == LayoutSpec => []LayoutInv
<1>1. LayoutInit => LayoutInv
  BY DEF LayoutInit, LayoutInv, PoolFillsRam
<1>2. LayoutInv /\ [LayoutNext]_layoutVars => LayoutInv'
  BY LayoutStep
<1>3. QED
  BY <1>1, <1>2, PTL DEF LayoutSpec

(* The pool of page_init is page aligned, clear of the reserved pages, and   *)
(* ends where RAM ends.                                                      *)
THEOREM PoolInRam == LayoutSpec => []PoolFillsRam
<1>1. LayoutInv => PoolFillsRam
  BY DEF LayoutInv
<1>2. QED
  BY <1>1, LayoutInductive, PTL

(* The comment at page.c:82 holds up to 128 MB of RAM, and it is the RAM of  *)
(* the linker script that decides.                                           *)
THEOREM TableFits ==
    ASSUME \A r \in RamPages : r <= Reserved * PAGE_SIZE
    PROVE  LayoutSpec => []TableBelowPool
<1>1. LayoutInv => TableBelowPool
  <2> SUFFICES ASSUME LayoutInv, stage \in {"clear", "done"} PROVE num_pages <= Reserved * PAGE_SIZE
    BY DEF TableBelowPool
  <2>1. heap_start \in Nat /\ ram_pages \in Nat /\ ram_pages <= Reserved * PAGE_SIZE
    BY LayoutAssumption DEF LayoutInv
  <2>2. num_pages = ram_pages - AlignPage(heap_start) \div PAGE_SIZE - Reserved
    BY DEF LayoutInv, HeapPages
  <2>3. AlignPage(heap_start) \div PAGE_SIZE \in Nat
    BY <2>1, AlignBorder DEF PAGE_SIZE
  <2>4. QED
    BY <2>1, <2>2, <2>3 DEF PAGE_SIZE, Reserved
<1>2. QED
  BY <1>1, LayoutInductive, PTL

-----------------------------------------------------------------------------
(* The invariant of the calls. *)

Pool == 0 .. num_pages - 1

(* Where the calls are followed. *)
Open == stage = "done" /\ num_pages <= MaxPages

Covered(d) == \E b \in held : d \in BlockPages(b)
EndsBlock(d) == \E b \in held : d = b.start + b.len - 1

(* A descriptor tells what the callers hold. *)
Told(d) == (~IsFree(d) <=> Covered(d)) /\ (IsLast(d) <=> EndsBlock(d))

(* A run of n pages from page h is nobody's. *)
Run(h, n) == h + n <= num_pages /\ \A d \in h .. h + n - 1 : ~Covered(d)

(* What has been cleared stays clear until the pool is placed; nobody has    *)
(* called before.                                                            *)
Cleared ==
    /\ stage = "clear" => \A d \in 0 .. MaxPages : d < cleared => flags[d] = {}
    /\ ~Open => at = "idle" /\ held = {}

InPool == \A b \in held : b.start + b.len <= num_pages

(* page_alloc has passed over page h only when nothing fits there; what is   *)
(* behind it, and in front of j, is free.                                    *)
Looking ==
    /\ at \in {"scan", "check", "mark"} =>
        /\ npages \in Requests /\ npages <= num_pages
        /\ \A h \in 0 .. i - 1 : ~Run(h, IF npages = 0 THEN 1 ELSE npages)
    /\ at = "scan" => i <= num_pages - npages + 1
    /\ at \in {"check", "mark"} => i <= num_pages - npages /\ (i < num_pages => ~Covered(i))
    /\ at = "check" =>
        /\ j >= i + 1 /\ (j = i + 1 \/ j <= i + npages)
        /\ \A d \in i .. j - 1 : d < num_pages => ~Covered(d)
    /\ at = "mark" => k \in i .. i + npages /\ Run(i, npages)

(* The descriptors agree with held but for the pages being marked.           *)
Marking ==
    /\ at \in {"idle", "scan", "check"} /\ Open => \A d \in Pool : Told(d)
    /\ at = "mark" => \A d \in Pool : IF d \in i .. k - 1 THEN flags[d] = {"taken"} ELSE Told(d)

(* page_free is on a free page, or on one of a run that nobody holds, that   *)
(* is taken as far as page e, and ends there.                                *)
WalkTo(e) ==
    \A d \in Pool :
        IF d \in page .. e THEN ~Covered(d) /\ ~IsFree(d) /\ (IsLast(d) <=> d = e)
        ELSE Told(d)

Walking ==
    at = "clear" =>
        /\ page \in Pool
        /\ (IsFree(page) /\ \A d \in Pool : Told(d)) \/ \E e \in page .. num_pages - 1 : WalkTo(e)

CallInv == InPool /\ BlocksDisjoint /\ Looking /\ Marking /\ Walking

PageInv == LayoutInv /\ TypeOK /\ Cleared /\ CallInv

(* A block of held is a run of pages of the pool.                            *)
LEMMA HeldBlocks ==
    ASSUME PageInv, NEW b \in held
    PROVE  /\ b.start \in Nat /\ b.len \in Nat \ {0} /\ b.start + b.len <= num_pages
           /\ b = [start |-> b.start, len |-> b.len]
           /\ \A d \in BlockPages(b) : d \in Pool
<1>1. b \in Block /\ b.start + b.len <= num_pages
  BY DEF PageInv, CallInv, InPool, TypeOK
<1>2. b.start \in Nat /\ b.len \in Nat \ {0}
  BY <1>1, PageAssumption DEF Block, DescTable
<1>3. b = [start |-> b.start, len |-> b.len]
  BY <1>1 DEF Block
<1>4. num_pages \in Int
  <2>1. CASE stage = "start"
    BY <2>1 DEF PageInv, LayoutInv
  <2>2. CASE stage # "start"
    BY <2>2, PagesLeft DEF PageInv
  <2>3. QED
    BY <2>1, <2>2
<1>5. \A d \in BlockPages(b) : d \in Pool
  BY <1>1, <1>2, <1>4 DEF BlockPages, Pool
<1>6. QED
  BY <1>1, <1>2, <1>3, <1>5

(* The calls run after page_init, on a heap that is followed.                *)
LEMMA InCall ==
    ASSUME PageInv, at # "idle"
    PROVE  Open /\ num_pages \in Nat \ {0} /\ num_pages <= MaxPages
  BY PagesLeft DEF PageInv, Cleared, Open

(* page_init finds nobody and leaves all descriptors of the pool clear.      *)
LEMMA InitInv == Init => PageInv
<1> SUFFICES ASSUME Init PROVE PageInv
  OBVIOUS
<1>1. LayoutInv /\ stage = "start"
  BY DEF Init, LayoutInit, LayoutInv, PoolFillsRam
<1>2. TypeOK
  BY PageAssumption DEF Init, TypeOK, DescTable, NULL
<1>3. Cleared
  BY <1>1 DEF Init, Cleared
<1>4. CallInv
  BY <1>1 DEF Init, CallInv, InPool, BlocksDisjoint, Looking, Marking, Walking, Open
<1>5. QED
  BY <1>1, <1>2, <1>3, <1>4 DEF PageInv

-----------------------------------------------------------------------------
(* The steps of page_init. *)
LEMMA PageInitStep == PageInv /\ PageInit => PageInv'
<1> SUFFICES ASSUME PageInv, PageInit PROVE PageInv'
  OBVIOUS
<1>1. LayoutInv'
  BY LayoutStep DEF PageInv, PageInit, InitClear, InitPlace, LayoutNext
<1>2. stage # "done" /\ at = "idle" /\ held = {} /\ at' = "idle" /\ held' = {}
  BY DEF PageInv, Cleared, Open, PageInit, InitClear, InitClearRest, InitPlace, CountPages, PlacePool,
         ClearDescriptor
<1>3. UNCHANGED <<npages, i, j, k, page, answer>>
  BY DEF PageInit, InitClear, InitClearRest, InitPlace
<1>4. TypeOK'
  <2>1. flags' \in [Descs -> Flags]
    BY DEF PageInv, TypeOK, PageInit, InitClear, InitClearRest, InitPlace, Flags
  <2>2. QED
    BY <1>2, <1>3, <2>1 DEF PageInv, TypeOK
<1>5. num_pages' \in Nat
  BY <1>1, PagesLeftNext DEF LayoutInv
<1>6. CASE InitClear
  <2>1. cleared \in Nat /\ cleared <= MaxPages /\ stage = "clear"
        /\ stage' = "clear" /\ cleared' = cleared + 1 /\ flags' = [flags EXCEPT ![cleared] = {}]
    BY <1>6, PageAssumption DEF PageInv, LayoutInv, InitClear, ClearDescriptor, DescTable
  <2>2. Cleared'
    BY <1>2, <2>1, PageAssumption DEF PageInv, Cleared, TypeOK, Descs, DescTable
  <2>3. CallInv'
    BY <1>2, <2>1 DEF CallInv, InPool, BlocksDisjoint, Looking, Marking, Walking, Open
  <2>4. QED
    BY <1>1, <1>4, <2>2, <2>3 DEF PageInv
<1>7. CASE InitClearRest \/ (CountPages /\ UNCHANGED flags)
  <2>1. stage' = "clear" /\ flags' = flags
    BY <1>7 DEF InitClearRest, CountPages
  <2>2. Cleared'
    BY <1>2, <1>7, <2>1, PageAssumption
    DEF PageInv, LayoutInv, Cleared, InitClearRest, CountPages, DescTable, Open
  <2>3. CallInv'
    BY <1>2, <2>1 DEF CallInv, InPool, BlocksDisjoint, Looking, Marking, Walking, Open
  <2>4. QED
    BY <1>1, <1>4, <2>2, <2>3 DEF PageInv
<1>8. CASE PlacePool /\ UNCHANGED flags
  <2>1. stage' = "done" /\ stage = "clear" /\ cleared >= num_pages /\ num_pages' = num_pages
        /\ flags' = flags /\ cleared \in Nat
    BY <1>8 DEF PlacePool, PageInv, LayoutInv
  <2>2. Open' => \A d \in Pool' : Told(d)'
    <3> SUFFICES ASSUME Open', NEW d \in Pool' PROVE Told(d)'
      OBVIOUS
    <3>1. d \in 0 .. MaxPages /\ d < cleared
      BY <1>5, <2>1, PageAssumption DEF Open, Pool
    <3>2. flags'[d] = {}
      BY <2>1, <3>1 DEF PageInv, Cleared
    <3>3. QED
      BY <1>2, <3>2 DEF Told, IsFree, IsLast, Covered, EndsBlock
  <2>3. Cleared'
    BY <1>2, <2>1 DEF Cleared
  <2>4. CallInv'
    BY <1>2, <2>2 DEF CallInv, InPool, BlocksDisjoint, Looking, Marking, Walking
  <2>5. QED
    BY <1>1, <1>4, <2>3, <2>4 DEF PageInv
<1>9. CASE InitPlace
  <2>1. flags' = flags
    BY <1>9 DEF InitPlace
  <2>2. QED
    BY <1>7, <1>8, <1>9, <2>1 DEF InitPlace
<1>10. QED
  BY <1>6, <1>7, <1>9 DEF PageInit

-----------------------------------------------------------------------------
(* What a step leaves alone. *)

(* The table is what the descriptors of a call can be.                       *)
LEMMA CallTypes ==
    ASSUME PageInv, Open
    PROVE  /\ MaxPages \in Nat /\ num_pages \in Nat \ {0} /\ num_pages <= MaxPages
           /\ DescTable = MaxPages + 1
           /\ npages \in 0 .. MaxPages + 1
           /\ i \in 0 .. MaxPages + 1 /\ j \in 0 .. MaxPages + 1 /\ k \in 0 .. MaxPages + 1
           /\ page \in 0 .. MaxPages
           /\ flags \in [-1 .. MaxPages -> SUBSET {"taken", "last"}]
<1>1. MaxPages \in Nat /\ DescTable = MaxPages + 1
  BY PageAssumption DEF DescTable
<1>2. num_pages \in Nat \ {0} /\ num_pages <= MaxPages
  BY PagesLeft DEF PageInv, Open
<1>3. Descs = -1 .. MaxPages
  BY <1>1 DEF Descs
<1>4. QED
  BY <1>1, <1>2, <1>3 DEF PageInv, TypeOK, Flags

(* The calls leave the layout alone.                                         *)
LEMMA SameLayout ==
    ASSUME PageInv, UNCHANGED layoutVars
    PROVE  /\ LayoutInv' /\ num_pages' = num_pages /\ stage' = stage
           /\ (Open' <=> Open) /\ Pool' = Pool
<1>1. LayoutInv'
  BY LayoutStep DEF PageInv
<1>2. QED
  BY <1>1 DEF layoutVars, Open, Pool

(* The pages of the callers depend on held alone.                            *)
LEMMA SameHeld ==
    ASSUME held' = held
    PROVE  /\ \A d : (Covered(d)' <=> Covered(d)) /\ (EndsBlock(d)' <=> EndsBlock(d))
           /\ BlocksDisjoint' <=> BlocksDisjoint
  BY DEF Covered, EndsBlock, BlockPages, BlocksDisjoint

LEMMA SameRun ==
    ASSUME held' = held, num_pages' = num_pages
    PROVE  /\ \A h, n : Run(h, n)' <=> Run(h, n)
           /\ InPool' <=> InPool
  BY DEF Run, Covered, BlockPages, InPool

LEMMA SameTold ==
    ASSUME held' = held, NEW d, flags'[d] = flags[d]
    PROVE  Told(d)' <=> Told(d)
  BY SameHeld DEF Told, IsFree, IsLast

(* A block covers its last page.                                             *)
LEMMA EndsCovered ==
    ASSUME PageInv, NEW d, EndsBlock(d)
    PROVE  Covered(d)
<1>1. PICK b \in held : d = b.start + b.len - 1
  BY DEF EndsBlock
<1>2. d \in BlockPages(b)
  BY <1>1, HeldBlocks DEF BlockPages
<1>3. QED
  BY <1>2 DEF Covered

-----------------------------------------------------------------------------
(* page_alloc: the call and the scan. *)

LEMMA AllocCallStep ==
    ASSUME ~OVERSIZE, PageInv, NEW n \in Requests, AllocCall(n)
    PROVE  PageInv'
<1>1. Open /\ at = "idle" /\ at' = "scan" /\ npages' = n /\ i' = 0 /\ n <= num_pages
      /\ UNCHANGED <<flags, j, k, page, held, answer>> /\ UNCHANGED layoutVars
  BY DEF AllocCall, Ready, Open
<1>2. n \in Nat
  BY PageAssumption
<1>3. LayoutInv' /\ num_pages' = num_pages /\ Open' /\ Pool' = Pool
  BY <1>1, SameLayout
<1>4. TypeOK'
  BY <1>1, <1>2, CallTypes DEF PageInv, TypeOK
<1>5. Looking'
  BY <1>1, <1>2, <1>3, CallTypes DEF Looking
<1>6. Marking'
  BY <1>1, <1>3, SameTold DEF PageInv, CallInv, Marking
<1>7. QED
  BY <1>1, <1>3, <1>4, <1>5, <1>6, SameHeld, SameRun DEF PageInv, Cleared, CallInv, Walking, Open

(* One step of the loops that look for a run.                                *)
LEMMA LookStep ==
    ASSUME ~OVERSIZE, PageInv, ScanTaken \/ ScanFree \/ CheckFree \/ CheckTaken \/ Found
    PROVE  PageInv'
<1>1. /\ at \in {"scan", "check"} /\ at' \in {"scan", "check", "mark"}
      /\ UNCHANGED <<flags, npages, page, held, answer>> /\ UNCHANGED layoutVars
  BY DEF ScanTaken, ScanFree, CheckFree, CheckTaken, Found
<1>2. Open
  BY <1>1, InCall
<1>3. LayoutInv' /\ num_pages' = num_pages /\ Open' /\ Pool' = Pool /\ stage = "done" /\ stage' = "done"
  BY <1>1, <1>2, SameLayout DEF Open
<1>4. /\ npages \in Requests /\ npages <= num_pages /\ npages \in Nat
      /\ \A h \in 0 .. i - 1 : ~Run(h, IF npages = 0 THEN 1 ELSE npages)
      /\ \A d \in Pool : Told(d)
  BY <1>1, <1>2, PageAssumption DEF PageInv, CallInv, Looking, Marking
<1> DEFINE Size == IF npages = 0 THEN 1 ELSE npages
<1>5. Size \in Nat \ {0} /\ Size' = Size
  BY <1>1, <1>4
<1>6. \A h : Run(h, Size)' <=> Run(h, Size)
  BY <1>1, <1>3, <1>5, SameRun
<1>7. Run(i, npages)' <=> (i' + npages <= num_pages /\ \A d \in i' .. i' + npages - 1 : ~Covered(d))
  BY <1>1, <1>3, SameHeld DEF Run
<1> HIDE DEF Size
<1>8. TypeOK' /\ Looking' /\ (at' = "mark" => k' = i')
  <2>1. CASE ScanTaken
    <3>1. at = "scan" /\ at' = "scan" /\ i <= num_pages - npages /\ i' = i + 1 /\ ~IsFree(i) /\ j' = j /\ k' = k
      BY <1>4, <2>1 DEF ScanTaken, InRange
    <3>2. ~Run(i, Size)
      <4>1. CASE i < num_pages
        <5>1. i \in Pool /\ i \in i .. i + Size - 1
          BY <1>2, <1>5, <4>1, CallTypes DEF Pool
        <5>2. Covered(i)
          BY <1>4, <3>1, <5>1 DEF Told
        <5>3. QED
          BY <5>1, <5>2 DEF Run
      <4>2. CASE i >= num_pages
        BY <1>2, <1>5, <4>2, CallTypes DEF Run
      <4>3. QED
        BY <1>2, <4>1, <4>2, CallTypes
    <3>3. \A h \in 0 .. i' - 1 : ~Run(h, Size)'
      BY <1>2, <1>4, <1>6, <3>1, <3>2, CallTypes DEF Size
    <3>4. TypeOK'
      BY <1>1, <1>2, <1>4, <3>1, CallTypes DEF PageInv, TypeOK
    <3>5. Looking'
      BY <1>1, <1>2, <1>3, <1>4, <3>1, <3>3, CallTypes DEF Looking, Size
    <3>6. QED
      BY <3>1, <3>4, <3>5
  <2>2. CASE ScanFree
    <3>1. at = "scan" /\ at' = "check" /\ i <= num_pages - npages /\ i' = i /\ IsFree(i) /\ j' = i + 1 /\ k' = k
      BY <1>4, <2>2 DEF ScanFree, InRange
    <3>2. i < num_pages => ~Covered(i)
      BY <1>2, <1>4, <3>1, CallTypes DEF Told, Pool
    <3>3. \A d \in i .. i : d = i
      BY <1>2, CallTypes
    <3>4. TypeOK'
      BY <1>1, <1>2, <1>4, <3>1, CallTypes DEF PageInv, TypeOK
    <3>5. \A h \in 0 .. i' - 1 : ~Run(h, Size)'
      BY <1>4, <1>6, <3>1 DEF Size
    <3>6. \A d \in i .. i' : d < num_pages => ~Covered(d)'
      BY <1>1, <3>1, <3>2, <3>3, SameHeld
    <3>7. Looking'
      BY <1>1, <1>2, <1>3, <1>4, <3>1, <3>5, <3>6, CallTypes DEF Looking, Size
    <3>8. QED
      BY <3>1, <3>4, <3>7
  <2>3. CASE CheckFree
    <3>1. at = "check" /\ at' = "check" /\ j < i + npages /\ IsFree(j) /\ i' = i /\ j' = j + 1 /\ k' = k
      BY <2>3 DEF CheckFree
    <3>2. i <= num_pages - npages /\ j >= i + 1 /\ \A d \in i .. j - 1 : d < num_pages => ~Covered(d)
      BY <3>1 DEF PageInv, CallInv, Looking
    <3>3. ~Covered(j)
      BY <1>2, <1>4, <3>1, <3>2, CallTypes DEF Told, Pool
    <3>4. \A d \in i' .. j' - 1 : d < num_pages => ~Covered(d)'
      BY <1>1, <1>2, <3>1, <3>2, <3>3, CallTypes, SameHeld
    <3>5. TypeOK'
      BY <1>1, <1>2, <1>4, <3>1, <3>2, CallTypes DEF PageInv, TypeOK
    <3>6. \A h \in 0 .. i' - 1 : ~Run(h, Size)'
      BY <1>4, <1>6, <3>1 DEF Size
    <3>7. i' < num_pages => ~Covered(i)'
      <4>1. i' \in i' .. j' - 1
        BY <1>2, <3>1, <3>2, CallTypes
      <4>2. QED
        BY <3>4, <4>1
    <3>8. Looking'
      BY <1>1, <1>2, <1>3, <1>4, <3>1, <3>2, <3>4, <3>6, <3>7, CallTypes DEF Looking, Size
    <3>9. QED
      BY <3>1, <3>5, <3>8
  <2>4. CASE CheckTaken
    <3>1. at = "check" /\ at' = "scan" /\ j < i + npages /\ ~IsFree(j) /\ i' = i + 1 /\ j' = j /\ k' = k
      BY <2>4 DEF CheckTaken
    <3>2. i <= num_pages - npages /\ j >= i + 1
      BY <3>1 DEF PageInv, CallInv, Looking
    <3>3. Covered(j) /\ Size = npages
      BY <1>2, <1>4, <3>1, <3>2, CallTypes DEF Told, Pool, Size
    <3>4. ~Run(i, Size)
      BY <1>2, <1>4, <3>1, <3>2, <3>3, CallTypes DEF Run
    <3>5. \A h \in 0 .. i' - 1 : ~Run(h, Size)'
      BY <1>2, <1>4, <1>6, <3>1, <3>4, CallTypes DEF Size
    <3>6. TypeOK'
      BY <1>1, <1>2, <1>4, <3>1, <3>2, CallTypes DEF PageInv, TypeOK
    <3>7. Looking'
      BY <1>1, <1>2, <1>3, <1>4, <3>1, <3>2, <3>5, CallTypes DEF Looking, Size
    <3>8. QED
      BY <3>1, <3>6, <3>7
  <2>5. CASE Found
    <3>1. at = "check" /\ at' = "mark" /\ j >= i + npages /\ i' = i /\ j' = j /\ k' = i
      BY <2>5 DEF Found
    <3>2. i <= num_pages - npages /\ (i < num_pages => ~Covered(i))
          /\ \A d \in i .. j - 1 : d < num_pages => ~Covered(d)
      BY <3>1 DEF PageInv, CallInv, Looking
    <3>3. Run(i, npages)'
      BY <1>2, <1>4, <1>7, <3>1, <3>2, CallTypes
    <3>4. \A h \in 0 .. i' - 1 : ~Run(h, Size)'
      BY <1>4, <1>6, <3>1 DEF Size
    <3>5. TypeOK'
      BY <1>1, <1>2, <1>4, <3>1, <3>2, CallTypes DEF PageInv, TypeOK
    <3>6. i' < num_pages => ~Covered(i)'
      BY <1>1, <3>1, <3>2, SameHeld
    <3>7. Looking'
      BY <1>1, <1>2, <1>3, <1>4, <3>1, <3>2, <3>3, <3>4, <3>6, CallTypes DEF Looking, Size
    <3>8. QED
      BY <3>1, <3>5, <3>7
  <2>6. QED
    BY <2>1, <2>2, <2>3, <2>4, <2>5
<1>9. \A d \in Pool : Told(d)'
  BY <1>1, <1>4, SameTold
<1>10. Marking'
  <2>1. at' = "mark" => i' .. k' - 1 = {}
    BY <1>8 DEF TypeOK
  <2>2. QED
    BY <1>1, <1>3, <1>9, <2>1 DEF Marking
<1>11. QED
  BY <1>1, <1>3, <1>8, <1>10, SameHeld, SameRun DEF PageInv, Cleared, CallInv, Walking, Open

(* The scan has reached the end.                                             *)
LEMMA ReturnNullStep ==
    ASSUME PageInv, ReturnNull
    PROVE  PageInv'
<1>1. /\ at = "scan" /\ at' = "idle" /\ UNCHANGED layoutVars /\ UNCHANGED <<flags, held>>
      /\ npages' = 0 /\ i' = 0 /\ j' = 0 /\ k' = 0 /\ page' = 0 /\ answer' = [n |-> npages, p |-> NULL]
  BY DEF ReturnNull, Leave
<1>2. Open
  BY <1>1, InCall
<1>3. LayoutInv' /\ Open' /\ Pool' = Pool
  BY <1>1, <1>2, SameLayout
<1>4. TypeOK'
  BY <1>1, <1>2, CallTypes DEF PageInv, TypeOK, NULL
<1>5. Marking'
  BY <1>1, <1>2, <1>3, SameTold DEF PageInv, CallInv, Marking
<1>6. QED
  BY <1>1, <1>3, <1>4, <1>5, SameHeld, SameRun, SameLayout
  DEF PageInv, Cleared, CallInv, Looking, Walking, Open

-----------------------------------------------------------------------------
(* page_alloc: the marking. *)

(* The page was free and no block ends there, so its descriptor was clear.   *)
LEMMA MarkTakenStep ==
    ASSUME PageInv, MarkTaken
    PROVE  PageInv'
<1>1. /\ at = "mark" /\ at' = "mark" /\ k < i + npages /\ k' = k + 1
      /\ flags' = [flags EXCEPT ![k] = @ \union {"taken"}]
      /\ UNCHANGED layoutVars /\ UNCHANGED <<npages, i, j, page, held, answer>>
  BY DEF MarkTaken
<1>2. Open
  BY <1>1, InCall
<1>3. LayoutInv' /\ num_pages' = num_pages /\ stage' = stage /\ Open' /\ Pool' = Pool
  BY <1>1, <1>2, SameLayout
<1>4. /\ k \in i .. i + npages /\ Run(i, npages) /\ npages \in Nat /\ npages <= num_pages
      /\ \A d \in Pool : IF d \in i .. k - 1 THEN flags[d] = {"taken"} ELSE Told(d)
  BY <1>1, PageAssumption DEF PageInv, CallInv, Looking, Marking
<1>5. k \in Pool /\ k \notin i .. k - 1 /\ k \in i .. i + npages - 1 /\ i + npages <= num_pages
  BY <1>1, <1>2, <1>4, CallTypes DEF Run, Pool
<1>6. flags[k] = {}
  <2>1. Told(k) /\ ~Covered(k)
    BY <1>4, <1>5 DEF Run
  <2>2. "taken" \notin flags[k] /\ "last" \notin flags[k]
    BY <2>1, EndsCovered DEF Told, IsFree, IsLast
  <2>3. k \in -1 .. MaxPages
    BY <1>2, <1>5, CallTypes DEF Pool
  <2>4. flags[k] \in SUBSET {"taken", "last"}
    BY <1>2, <2>3, CallTypes
  <2>5. QED
    BY <2>2, <2>4
<1>7. flags'[k] = {"taken"} /\ \A d \in Pool : d # k => flags'[d] = flags[d]
  BY <1>1, <1>2, <1>5, <1>6, CallTypes DEF Pool
<1>8. Marking'
  <2> SUFFICES ASSUME NEW d \in Pool
               PROVE IF d \in i .. k THEN flags'[d] = {"taken"} ELSE Told(d)'
    BY <1>1, <1>3, <1>2, CallTypes DEF Marking
  <2>1. CASE d = k
    BY <1>2, <1>5, <1>7, <2>1, CallTypes
  <2>2. CASE d # k
    <3>1. flags'[d] = flags[d] /\ (Told(d)' <=> Told(d))
      BY <1>1, <1>7, <2>2, SameTold
    <3>2. d \in i .. k <=> d \in i .. k - 1
      BY <1>2, <2>2, CallTypes
    <3>3. QED
      BY <1>4, <3>1, <3>2
  <2>3. QED
    BY <2>1, <2>2
<1>9. TypeOK'
  <2>1. flags' \in [Descs -> Flags]
    BY <1>1 DEF PageInv, TypeOK, Flags
  <2>2. QED
    BY <1>1, <1>2, <1>5, <2>1, CallTypes DEF PageInv, TypeOK
<1>10. Looking'
  <2>1. \A h, n : Run(h, n)' <=> Run(h, n)
    BY <1>1, <1>3, SameRun
  <2>2. k' \in i' .. i' + npages'
    BY <1>1, <1>2, <1>5, CallTypes
  <2>3. Run(i, npages)'
    BY <1>1, <1>3, <1>4, SameHeld DEF Run
  <2>4. QED
    BY <1>1, <1>3, <2>1, <2>2, <2>3, SameHeld DEF PageInv, CallInv, Looking
<1>11. QED
  BY <1>1, <1>3, <1>8, <1>9, <1>10, SameHeld, SameRun DEF PageInv, Cleared, CallInv, Walking, Open

(* Where page i - 1 is somebody's and page i nobody's, a block ends at i - 1. *)
LEMMA EndBefore ==
    ASSUME PageInv, Open, Covered(i - 1), i < num_pages => ~Covered(i)
    PROVE  EndsBlock(i - 1)
<1>1. PICK b \in held : i - 1 \in BlockPages(b)
  BY DEF Covered
<1>2. b.start \in Nat /\ b.len \in Nat \ {0} /\ b.start + b.len <= num_pages
  BY HeldBlocks
<1>3. i \notin BlockPages(b)
  BY <1>2, CallTypes DEF Covered, BlockPages
<1>4. i - 1 = b.start + b.len - 1
  <2>1. i \in Int /\ b.start \in Int /\ b.len \in Int
    BY <1>2, CallTypes
  <2>2. i - 1 \in b.start .. b.start + b.len - 1 /\ i \notin b.start .. b.start + b.len - 1
    BY <1>1, <1>3 DEF BlockPages
  <2>3. QED
    BY <2>1, <2>2
<1>5. QED
  BY <1>4 DEF EndsBlock

(* What MarkLast does to the pages of the callers.                           *)
LEMMA MarkLastStep ==
    ASSUME PageInv, MarkLast
    PROVE  PageInv'
<1>1. /\ at = "mark" /\ at' = "idle" /\ k >= i + npages /\ UNCHANGED layoutVars
      /\ flags' = [flags EXCEPT ![k - 1] = @ \union {"last"}]
      /\ npages' = 0 /\ i' = 0 /\ j' = 0 /\ k' = 0 /\ page' = 0
      /\ held' = Hand /\ answer' = [n |-> npages, p |-> i]
  BY DEF MarkLast, Leave
<1>2. Open
  BY <1>1, InCall
<1>3. LayoutInv' /\ num_pages' = num_pages /\ stage' = stage /\ Open' /\ Pool' = Pool
  BY <1>1, <1>2, SameLayout
<1>4. /\ k = i + npages /\ Run(i, npages) /\ npages \in Nat /\ i + npages <= num_pages
      /\ (i < num_pages => ~Covered(i))
      /\ \A d \in Pool : IF d \in i .. k - 1 THEN flags[d] = {"taken"} ELSE Told(d)
      /\ \A h \in 0 .. i - 1 : ~Run(h, IF npages = 0 THEN 1 ELSE npages)
  <2>1. /\ k \in i .. i + npages /\ Run(i, npages) /\ npages \in Nat
        /\ (i < num_pages => ~Covered(i))
        /\ \A d \in Pool : IF d \in i .. k - 1 THEN flags[d] = {"taken"} ELSE Told(d)
        /\ \A h \in 0 .. i - 1 : ~Run(h, IF npages = 0 THEN 1 ELSE npages)
    BY <1>1, PageAssumption DEF PageInv, CallInv, Looking, Marking
  <2>2. QED
    BY <1>1, <1>2, <2>1, CallTypes DEF Run
<1>5. k - 1 \in -1 .. MaxPages /\ i \in Nat
  BY <1>2, <1>4, CallTypes
<1>6. /\ flags'[k - 1] = flags[k - 1] \union {"last"}
      /\ \A d \in Pool : d # k - 1 => flags'[d] = flags[d]
  BY <1>1, <1>2, <1>5, CallTypes DEF Pool
<1>7. held' \subseteq Block /\ InPool' /\ BlocksDisjoint' /\ \A d \in Pool : Told(d)'
  <2>1. CASE npages = 0
    <3>1. held' = held
      BY <1>1, <2>1 DEF Hand
    <3>2. \A d \in Pool : d \notin i .. k - 1
      BY <1>4, <1>5, <2>1
    <3>3. \A d \in Pool : d # i - 1 => Told(d)'
      BY <1>4, <1>5, <1>6, <2>1, <3>1, <3>2, SameTold
    <3>4. ASSUME NEW e \in Pool, e = i - 1 PROVE Told(e)'
      <4>1. i - 1 \in 0 .. i - 1 /\ i - 1 \in Pool /\ \A d \in i - 1 .. i - 1 + 1 - 1 : d = i - 1
        BY <1>2, <1>4, <1>5, <3>4, CallTypes DEF Pool
      <4>2. Covered(i - 1)
        <5>1. ~Run(i - 1, 1)
          BY <1>4, <2>1, <4>1
        <5>2. i - 1 + 1 <= num_pages
          BY <1>4, <1>5, <2>1
        <5>3. QED
          BY <4>1, <5>1, <5>2 DEF Run
      <4>3. EndsBlock(i - 1)
        BY <1>2, <1>4, <4>2, EndBefore
      <4>4. Told(i - 1)
        BY <1>4, <3>2, <4>1
      <4>5. flags'[i - 1] = flags[i - 1] \union {"last"}
        BY <1>4, <1>5, <1>6, <2>1
      <4>6. QED
        BY <3>1, <3>4, <4>2, <4>3, <4>4, <4>5, SameHeld DEF Told, IsFree, IsLast
    <3>5. QED
      <4>1. \A d \in Pool : Told(d)'
        BY <3>3, <3>4
      <4>2. QED
        BY <1>3, <3>1, <4>1, SameHeld, SameRun DEF PageInv, CallInv, TypeOK
  <2>2. CASE npages # 0
    <3>0. \A d \in i .. k - 1 : ~Covered(d)
      <4>1. k - 1 = i + npages - 1
        BY <1>4, <1>5
      <4>2. QED
        BY <1>4, <4>1 DEF Run
    <3> DEFINE new == [start |-> i, len |-> npages]
    <3>1. held' = held \union {new} /\ new.start = i /\ new.len = npages
      BY <1>1, <2>2 DEF Hand
    <3>2. BlockPages(new) = i .. k - 1 /\ new.start + new.len - 1 = k - 1
      BY <1>4, <1>5, <3>1 DEF BlockPages
    <3>3. new \in Block
      BY <1>2, <1>4, <2>2, CallTypes DEF Block
    <3> HIDE DEF new
    <3>4. \A b \in held : BlockPages(b) \cap (i .. k - 1) = {}
      <4> SUFFICES ASSUME NEW b \in held, NEW d \in BlockPages(b), d \in i .. k - 1 PROVE FALSE
        OBVIOUS
      <4>1. Covered(d)
        BY DEF Covered
      <4>2. QED
        BY <3>0, <4>1
    <3>5. BlocksDisjoint'
      <4> SUFFICES ASSUME NEW a \in held', NEW b \in held', a # b
                   PROVE BlockPages(a) \cap BlockPages(b) = {}
        BY DEF BlocksDisjoint, BlockPages
      <4>1. CASE a \in held /\ b \in held
        BY <4>1 DEF PageInv, CallInv, BlocksDisjoint
      <4>2. CASE a = new \/ b = new
        BY <3>1, <3>2, <3>4, <4>2
      <4>3. QED
        BY <3>1, <4>1, <4>2
    <3>6. InPool'
      BY <1>3, <1>4, <3>1 DEF PageInv, CallInv, InPool
    <3>7. \A d : Covered(d)' <=> Covered(d) \/ d \in i .. k - 1
      BY <3>1, <3>2 DEF Covered, BlockPages
    <3>8. \A d : EndsBlock(d)' <=> EndsBlock(d) \/ d = k - 1
      BY <3>1, <3>2 DEF EndsBlock
    <3>9. ASSUME NEW d \in Pool PROVE Told(d)'
      <4>1. CASE d \in i .. k - 1
        <5>1. flags[d] = {"taken"} /\ ~Covered(d)
          BY <1>4, <3>0, <4>1
        <5>2. Covered(d)' /\ ~EndsBlock(d)
          BY <3>7, <4>1, <5>1, EndsCovered
        <5>3. "taken" \in flags'[d] /\ ("last" \in flags'[d] <=> d = k - 1)
          BY <1>6, <5>1
        <5>4. QED
          BY <3>8, <5>2, <5>3 DEF Told, IsFree, IsLast
      <4>2. CASE d \notin i .. k - 1
        <5>1. Told(d) /\ d # k - 1
          BY <1>4, <1>5, <2>2, <4>2
        <5>2. flags'[d] = flags[d]
          BY <1>6, <5>1
        <5>3. QED
          BY <3>7, <3>8, <4>2, <5>1, <5>2 DEF Told, IsFree, IsLast
      <4>3. QED
        BY <4>1, <4>2
    <3>10. held' \subseteq Block
      BY <3>1, <3>3 DEF PageInv, TypeOK
    <3>11. QED
      BY <3>5, <3>6, <3>9, <3>10
  <2>3. QED
    BY <2>1, <2>2
<1>8. TypeOK'
  <2>1. flags' \in [Descs -> Flags]
    BY <1>1 DEF PageInv, TypeOK, Flags
  <2>2. QED
    BY <1>1, <1>2, <1>4, <1>5, <1>7, <2>1, CallTypes DEF PageInv, TypeOK
<1>9. QED
  BY <1>1, <1>2, <1>3, <1>7, <1>8 DEF PageInv, Cleared, CallInv, Looking, Marking, Walking, Open

-----------------------------------------------------------------------------
(* page_free. *)

(* The walk from a block's first page ends on its last one: blocks are       *)
(* disjoint, so no other block's end lies on the way.                        *)
LEMMA FreeCallStep ==
    ASSUME PageInv, NEW b \in held, FreeCall(b)
    PROVE  PageInv'
<1>1. /\ Open /\ at = "idle" /\ at' = "clear" /\ page' = b.start /\ held' = held \ {b}
      /\ UNCHANGED layoutVars /\ UNCHANGED <<flags, npages, i, j, k, answer>>
  BY DEF FreeCall, Ready, Open
<1>2. LayoutInv' /\ num_pages' = num_pages /\ stage' = stage /\ Open' /\ Pool' = Pool
  BY <1>1, SameLayout
<1> DEFINE e == b.start + b.len - 1
<1>3. /\ BlockPages(b) = b.start .. e /\ e \in b.start .. num_pages - 1
      /\ b.start \in Pool /\ e \in Int /\ b.start \in Nat /\ e \in BlockPages(b)
  <2>1. b.start \in Nat /\ b.len \in Nat \ {0} /\ b.start + b.len <= num_pages /\ num_pages \in Nat
    BY <1>1, HeldBlocks, CallTypes
  <2>2. QED
    BY <2>1 DEF BlockPages, Pool
<1> HIDE DEF e
<1>4. \A d \in BlockPages(b) : Covered(d) /\ ~Covered(d)' /\ (EndsBlock(d) <=> d = e)
  <2> SUFFICES ASSUME NEW d \in BlockPages(b)
               PROVE  Covered(d) /\ ~Covered(d)' /\ (EndsBlock(d) <=> d = e)
    OBVIOUS
  <2>1. \A c \in held : c # b => d \notin BlockPages(c)
    BY DEF PageInv, CallInv, BlocksDisjoint
  <2>2. \A c \in held : d = c.start + c.len - 1 => d \in BlockPages(c)
    BY HeldBlocks DEF BlockPages
  <2>3. Covered(d)
    BY DEF Covered
  <2>4. ~Covered(d)'
    BY <1>1, <2>1 DEF Covered, BlockPages
  <2>5. EndsBlock(d) <=> d = e
    BY <2>1, <2>2 DEF EndsBlock, e
  <2>6. QED
    BY <2>3, <2>4, <2>5
<1>5. \A d : d \notin BlockPages(b) => (Covered(d)' <=> Covered(d)) /\ (EndsBlock(d)' <=> EndsBlock(d))
  <2>1. ASSUME NEW d, d \notin BlockPages(b) PROVE Covered(d)' <=> Covered(d)
    BY <1>1, <2>1 DEF Covered, BlockPages
  <2>2. ASSUME NEW d, d \notin BlockPages(b) PROVE EndsBlock(d)' <=> EndsBlock(d)
    <3>1. d # e
      BY <1>3, <2>2
    <3>2. QED
      BY <1>1, <3>1 DEF EndsBlock, e
  <2>3. QED
    BY <2>1, <2>2
<1>6. \A d \in Pool : Told(d)
  BY <1>1 DEF PageInv, CallInv, Marking
<1>7. Walking'
  <2> SUFFICES page' \in Pool' /\ \E f \in page' .. num_pages' - 1 : WalkTo(f)'
    BY DEF Walking
  <2>1. \A d \in Pool : IF d \in b.start .. e THEN ~Covered(d)' /\ ~IsFree(d)' /\ (IsLast(d)' <=> d = e)
                       ELSE Told(d)'
    BY <1>1, <1>3, <1>4, <1>5, <1>6 DEF Told, IsFree, IsLast
  <2>2. WalkTo(e)'
    BY <1>1, <1>2, <2>1 DEF WalkTo, e
  <2>3. QED
    BY <1>1, <1>2, <1>3, <2>2
<1>8. TypeOK'
  <2>1. page' \in 0 .. DescTable - 1
    BY <1>1, <1>3, CallTypes DEF Pool
  <2>2. QED
    BY <1>1, <2>1 DEF PageInv, TypeOK
<1>9. InPool' /\ BlocksDisjoint'
  BY <1>1, <1>2 DEF PageInv, CallInv, InPool, BlocksDisjoint, BlockPages
<1>10. QED
  BY <1>1, <1>2, <1>7, <1>8, <1>9 DEF PageInv, Cleared, CallInv, Looking, Marking, Open

(* A page nobody holds is free.                                              *)
LEMMA FreeAgainStep ==
    ASSUME PageInv, NEW d \in 0 .. num_pages - 1, FreeAgain(d)
    PROVE  PageInv'
<1>1. /\ Open /\ at = "idle" /\ at' = "clear" /\ page' = d
      /\ \A b \in held : d \notin BlockPages(b)
      /\ UNCHANGED layoutVars /\ UNCHANGED <<flags, npages, i, j, k, held, answer>>
  BY DEF FreeAgain, Ready, Open, BlockPages
<1>2. LayoutInv' /\ num_pages' = num_pages /\ stage' = stage /\ Open' /\ Pool' = Pool
  BY <1>1, SameLayout
<1>3. \A c \in Pool : Told(c) /\ Told(c)'
  BY <1>1, SameTold DEF PageInv, CallInv, Marking
<1>4. IsFree(page)'
  BY <1>1, <1>3 DEF Told, Covered, IsFree, Pool
<1>5. TypeOK'
  <2>1. page' \in 0 .. DescTable - 1
    BY <1>1, CallTypes
  <2>2. QED
    BY <1>1, <2>1 DEF PageInv, TypeOK
<1>6. Walking'
  BY <1>1, <1>2, <1>3, <1>4 DEF Walking, Pool
<1>7. QED
  BY <1>1, <1>2, <1>5, <1>6, SameHeld, SameRun DEF PageInv, Cleared, CallInv, Looking, Marking, Open

(* One descriptor of the walk. A walk on a free page has nothing to undo.    *)
LEMMA ClearStep ==
    ASSUME PageInv, ClearNext \/ ClearLast \/ ClearNothing
    PROVE  PageInv'
<1>1. at = "clear" /\ UNCHANGED layoutVars /\ UNCHANGED <<held, answer>>
  BY DEF ClearNext, ClearLast, ClearNothing
<1>2. Open
  BY <1>1, InCall
<1>3. LayoutInv' /\ num_pages' = num_pages /\ stage' = stage /\ Open' /\ Pool' = Pool
  BY <1>1, <1>2, SameLayout
<1>4. page \in Pool /\ page \in -1 .. MaxPages /\ flags' \in [Descs -> Flags]
  <2>1. page \in Pool
    BY <1>1 DEF PageInv, CallInv, Walking
  <2>2. page \in -1 .. MaxPages
    BY <1>2, CallTypes
  <2>3. flags' = flags \/ flags' = [flags EXCEPT ![page] = {}]
    BY DEF ClearNext, ClearLast, ClearNothing
  <2>4. flags' \in [Descs -> Flags]
    BY <2>3 DEF PageInv, TypeOK, Flags
  <2>5. QED
    BY <2>1, <2>2, <2>4
<1>5. InPool' /\ BlocksDisjoint'
  BY <1>1, <1>3, SameHeld, SameRun DEF PageInv, CallInv
<1>6. CASE ClearNothing
  <2>1. at' = "idle" /\ flags' = flags /\ IsFree(page)
        /\ npages' = 0 /\ i' = 0 /\ j' = 0 /\ k' = 0 /\ page' = 0
    BY <1>6 DEF ClearNothing, Leave
  <2>2. \A d \in Pool : Told(d)
    <3>1. ASSUME NEW e \in page .. num_pages - 1, WalkTo(e) PROVE FALSE
      BY <1>2, <1>4, <2>1, <3>1, CallTypes DEF WalkTo
    <3>2. QED
      BY <1>1, <3>1 DEF PageInv, CallInv, Walking
  <2>3. Marking'
    BY <1>1, <1>3, <2>1, <2>2, SameTold DEF Marking
  <2>4. TypeOK'
    BY <1>1, <1>2, <1>4, <2>1, CallTypes DEF PageInv, TypeOK
  <2>5. QED
    BY <1>1, <1>3, <1>5, <2>1, <2>3, <2>4 DEF PageInv, Cleared, CallInv, Looking, Walking, Open
<1>7. CASE ClearNext \/ ClearLast
  <2>1. ~IsFree(page) /\ flags' = [flags EXCEPT ![page] = {}]
    BY <1>7 DEF ClearNext, ClearLast
  <2>2. PICK e \in page .. num_pages - 1 : WalkTo(e)
    BY <1>1, <2>1 DEF PageInv, CallInv, Walking
  <2>3. page \in page .. e /\ e \in Nat /\ e <= num_pages - 1
    BY <1>2, <2>2, CallTypes
  <2>4. ~Covered(page) /\ (IsLast(page) <=> page = e)
    BY <1>4, <2>2, <2>3 DEF WalkTo
  <2>5. flags'[page] = {} /\ \A d \in Pool : d # page => flags'[d] = flags[d]
    BY <1>2, <1>4, <2>1, CallTypes DEF Pool
  <2>6. \A d \in Pool : IF d \in page + 1 .. e THEN ~Covered(d) /\ flags'[d] = flags[d] /\ ~IsFree(d) /\ (IsLast(d) <=> d = e)
                       ELSE Told(d)'
    <3> SUFFICES ASSUME NEW d \in Pool
                 PROVE IF d \in page + 1 .. e THEN ~Covered(d) /\ flags'[d] = flags[d] /\ ~IsFree(d) /\ (IsLast(d) <=> d = e)
                       ELSE Told(d)'
      OBVIOUS
    <3>1. CASE d = page
      <4>1. ~EndsBlock(d)
        BY <2>4, <3>1, EndsCovered
      <4>2. d \notin page + 1 .. e
        BY <1>2, <2>3, <3>1, CallTypes
      <4>3. "taken" \notin flags'[d] /\ "last" \notin flags'[d]
        BY <2>5, <3>1
      <4>4. ~Covered(d)' /\ ~EndsBlock(d)'
        BY <1>1, <2>4, <3>1, <4>1, SameHeld
      <4>5. Told(d)'
        BY <4>3, <4>4 DEF Told, IsFree, IsLast
      <4>6. QED
        BY <4>2, <4>5
    <3>2. CASE d # page
      <4>1. flags'[d] = flags[d]
        BY <2>5, <3>2
      <4>2. d \in page + 1 .. e <=> d \in page .. e
        BY <1>2, <2>3, <3>2, CallTypes
      <4>3. d \notin page .. e => Told(d)'
        BY <1>1, <2>2, <4>1, SameTold DEF WalkTo
      <4>4. QED
        BY <2>2, <4>1, <4>2, <4>3 DEF WalkTo
    <3>3. QED
      BY <3>1, <3>2
  <2>7. CASE ClearLast
    <3>1. at' = "idle" /\ IsLast(page)
          /\ npages' = 0 /\ i' = 0 /\ j' = 0 /\ k' = 0 /\ page' = 0
      BY <2>7 DEF ClearLast, Leave
    <3>2. page + 1 .. e = {}
      BY <2>3, <2>4, <3>1
    <3>3. Marking'
      BY <1>3, <2>6, <3>1, <3>2 DEF Marking
    <3>4. TypeOK'
      BY <1>1, <1>2, <1>4, <3>1, CallTypes DEF PageInv, TypeOK
    <3>5. QED
      BY <1>1, <1>3, <1>5, <3>1, <3>3, <3>4 DEF PageInv, Cleared, CallInv, Looking, Walking, Open
  <2>8. CASE ClearNext
    <3>1. at' = "clear" /\ ~IsLast(page) /\ page' = page + 1 /\ UNCHANGED <<npages, i, j, k>>
      BY <1>1, <2>8 DEF ClearNext
    <3>2. page + 1 \in Pool /\ e \in page + 1 .. num_pages - 1
      BY <1>2, <2>3, <2>4, <3>1, CallTypes DEF Pool
    <3>3. WalkTo(e)'
      BY <1>1, <1>3, <2>6, <3>1, SameHeld DEF WalkTo, IsFree, IsLast
    <3>4. Walking'
      BY <1>3, <3>1, <3>2, <3>3 DEF Walking
    <3>5. TypeOK'
      BY <1>1, <1>2, <1>4, <3>1, <3>2, CallTypes DEF PageInv, TypeOK, Pool
    <3>6. QED
      BY <1>1, <1>3, <1>5, <3>1, <3>4, <3>5 DEF PageInv, Cleared, CallInv, Looking, Marking, Open
  <2>9. QED
    BY <1>7, <2>7, <2>8
<1>8. QED
  BY <1>6, <1>7

-----------------------------------------------------------------------------
(* Together. *)

LEMMA StutterStep == PageInv /\ UNCHANGED vars => PageInv'
<1> SUFFICES ASSUME PageInv, UNCHANGED vars PROVE PageInv'
  OBVIOUS
<1>1. UNCHANGED layoutVars /\ UNCHANGED <<flags, at, npages, i, j, k, page, held, answer>>
  BY DEF vars
<1>2. LayoutInv' /\ num_pages' = num_pages /\ stage' = stage /\ (Open' <=> Open) /\ Pool' = Pool
      /\ cleared' = cleared
  BY <1>1, SameLayout DEF layoutVars
<1>3. TypeOK' /\ Cleared'
  BY <1>1, <1>2 DEF PageInv, TypeOK, Cleared
<1>4. InPool' /\ BlocksDisjoint'
  BY <1>1, <1>2, SameHeld, SameRun DEF PageInv, CallInv
<1>5. \A d : Told(d)' <=> Told(d)
  BY <1>1, SameTold
<1>6. Looking'
  BY <1>1, <1>2, SameHeld DEF PageInv, CallInv, Looking, Run
<1>7. Marking'
  BY <1>1, <1>2, <1>5 DEF PageInv, CallInv, Marking
<1>8. Walking'
  BY <1>1, <1>2, <1>5, SameHeld DEF PageInv, CallInv, Walking, WalkTo, IsFree, IsLast
<1>9. QED
  BY <1>2, <1>3, <1>4, <1>6, <1>7, <1>8 DEF PageInv, CallInv

(* PageInv is inductive.                                                     *)
LEMMA PageInductive == ASSUME ~OVERSIZE PROVE Spec => []PageInv
<1>1. PageInv /\ [Next]_vars => PageInv'
  <2> SUFFICES ASSUME PageInv, [Next]_vars PROVE PageInv'
    OBVIOUS
  <2>1. CASE PageInit
    BY <2>1, PageInitStep
  <2>2. CASE Call
    BY <2>2, AllocCallStep, FreeCallStep, FreeAgainStep DEF Call
  <2>3. CASE Body
    BY <2>3, LookStep, ReturnNullStep, MarkTakenStep, MarkLastStep, ClearStep DEF Body
  <2>4. CASE UNCHANGED vars
    BY <2>4, StutterStep
  <2>5. QED
    BY <2>1, <2>2, <2>3, <2>4 DEF Next
<1>2. QED
  BY <1>1, InitInv, PTL DEF Spec

(* No loop of page_alloc or page_free leaves the table page_init wrote.      *)
THEOREM PageTypes == ASSUME ~OVERSIZE PROVE Spec => []TypeOK
<1>1. PageInv => TypeOK
  BY DEF PageInv
<1>2. QED
  BY <1>1, PageInductive, PTL

(* Two callers never hold the same page, whatever was allocated and freed in *)
(* between.                                                                  *)
THEOREM NoPageTwice == ASSUME ~OVERSIZE PROVE Spec => []BlocksDisjoint
<1>1. PageInv => BlocksDisjoint
  BY DEF PageInv, CallInv
<1>2. QED
  BY <1>1, PageInductive, PTL

(* Between calls the descriptors tell the callers' blocks and nothing else.  *)
THEOREM DescriptorsTellBlocks == ASSUME ~OVERSIZE PROVE Spec => []FlagsTellBlocks
<1>1. PageInv => FlagsTellBlocks
  BY DEF PageInv, CallInv, Marking, FlagsTellBlocks, Ready, Open, Told, Covered, EndsBlock, Pool
<1>2. QED
  BY <1>1, PageInductive, PTL

(* The pool ends where RAM ends, after page_init and for good: no call moves *)
(* it, whatever is asked for.                                                *)
THEOREM PoolStays == Spec => []PoolFillsRam
<1>1. Init => LayoutInv
  BY DEF Init, LayoutInit, LayoutInv, PoolFillsRam
<1>2. LayoutInv /\ [Next]_vars => LayoutInv'
  <2>1. [Next]_vars => LayoutNext \/ InitClearRest \/ UNCHANGED layoutVars
    BY DEF Next, PageInit, InitClear, InitPlace, LayoutNext, Call, AllocCall, FreeCall, FreeAgain, Body,
           ScanTaken, ScanFree, ReturnNull, CheckFree, CheckTaken, Found, MarkTaken, MarkLast,
           ClearNext, ClearLast, ClearNothing, vars
  <2>2. QED
    BY <2>1, LayoutStep
<1>3. LayoutInv => PoolFillsRam
  BY DEF LayoutInv
<1>4. QED
  BY <1>1, <1>2, <1>3, PTL DEF Spec

-----------------------------------------------------------------------------
(* page.c implements BlockAlloc. *)

LEMMA FitsIsRun == \A h, n : Blocks!Fits(h, n) <=> Run(h, n)
  BY DEF Blocks!Fits, Blocks!Pages, Run, Covered, BlockPages

(* A NULL: the scan passed over every page, and the pages past the bound     *)
(* have too few behind them.                                                 *)
LEMMA RefuseSimulated ==
    ASSUME ~OVERSIZE, PageInv, ReturnNull
    PROVE  npages \in Requests /\ Blocks!Refuse(npages)
<1>1. at = "scan" /\ ~InRange /\ UNCHANGED layoutVars /\ held' = held /\ answer' = [n |-> npages, p |-> NULL]
  BY DEF ReturnNull, Leave
<1>2. Open /\ num_pages' = num_pages
  BY <1>1, InCall DEF layoutVars
<1>3. npages \in Requests /\ npages <= num_pages
      /\ \A h \in 0 .. i - 1 : ~Run(h, IF npages = 0 THEN 1 ELSE npages)
  BY <1>1 DEF PageInv, CallInv, Looking
<1>4. i > num_pages - npages
  BY <1>1, <1>2, <1>3, CallTypes DEF InRange
<1>5. ASSUME NEW h \in 0 .. num_pages - 1 PROVE ~Run(h, IF npages = 0 THEN 1 ELSE npages)
  <2>1. CASE h < i
    BY <1>2, <1>3, <2>1, CallTypes
  <2>2. CASE h >= i
    <3>1. npages # 0 /\ h + npages > num_pages
      BY <1>2, <1>4, <2>2, CallTypes
    <3>2. QED
      BY <1>2, <3>1, CallTypes DEF Run
  <2>3. QED
    BY <1>2, <2>1, <2>2, CallTypes
<1>6. QED
  BY <1>1, <1>2, <1>3, <1>5, FitsIsRun DEF Blocks!Refuse, Blocks!NoBlock, NULL

(* A block: the first run of pages that is long enough.                      *)
LEMMA AllocSimulated ==
    ASSUME PageInv, MarkLast
    PROVE  Blocks!Next
<1>1. at = "mark" /\ k >= i + npages /\ UNCHANGED layoutVars
      /\ held' = Hand /\ answer' = [n |-> npages, p |-> i]
  BY DEF MarkLast, Leave
<1>2. Open /\ num_pages' = num_pages
  BY <1>1, InCall DEF layoutVars
<1>3. npages \in Requests /\ i <= num_pages - npages /\ (i < num_pages => ~Covered(i)) /\ Run(i, npages)
      /\ \A h \in 0 .. i - 1 : ~Run(h, IF npages = 0 THEN 1 ELSE npages)
  BY <1>1 DEF PageInv, CallInv, Looking
<1>4. CASE npages = 0
  <2>1. i < num_pages => Run(i, 1)
    BY <1>2, <1>3, CallTypes DEF Run
  <2>2. i \in 0 .. num_pages
    BY <1>2, <1>3, <1>4, CallTypes
  <2>3. Blocks!AllocNothing
    BY <1>1, <1>2, <1>3, <1>4, <2>1, <2>2, FitsIsRun DEF Blocks!AllocNothing, Hand
  <2>4. QED
    BY <1>3, <1>4, <2>3 DEF Blocks!Next
<1>5. CASE npages # 0
  <2>1. i \in 0 .. num_pages - 1 /\ npages > 0
    BY <1>2, <1>3, <1>5, CallTypes
  <2>2. Blocks!Alloc(npages)
    BY <1>1, <1>2, <1>3, <1>5, <2>1, FitsIsRun DEF Blocks!Alloc, Hand
  <2>3. QED
    BY <1>3, <2>2 DEF Blocks!Next
<1>6. QED
  BY <1>4, <1>5

(* The first fit of BlockAlloc is what the loops compute: every return of    *)
(* page_alloc answers as it must, and every page_free gives one block back.  *)
THEOREM RefinesBlockAlloc == ASSUME ~OVERSIZE PROVE Spec => ImplementsBlockAlloc
<1>1. Init => Blocks!Init
  BY DEF Init, LayoutInit, Blocks!Init, Blocks!NoBlock, NULL
<1>2. PageInv /\ [Next]_vars => [Blocks!Next]_<<num_pages, held, answer>>
  <2> SUFFICES ASSUME PageInv, [Next]_vars
               PROVE  Blocks!Next \/ UNCHANGED <<num_pages, held, answer>>
    OBVIOUS
  <2>1. CASE PageInit
    <3>1. UNCHANGED <<held, answer>>
      BY <2>1 DEF PageInit, InitClear, InitClearRest, InitPlace
    <3>2. CASE InitClear \/ InitClearRest \/ PlacePool
      BY <3>1, <3>2 DEF InitClear, InitClearRest, ClearDescriptor, PlacePool
    <3>3. CASE CountPages
      <4>1. num_pages = 0 /\ stage' # "start"
        BY <3>3 DEF CountPages, PageInv, LayoutInv
      <4>2. LayoutInv'
        BY <3>3, LayoutStep DEF PageInv, LayoutNext
      <4>3. num_pages' \in Nat \ {0}
        BY <4>1, <4>2, PagesLeftNext
      <4>4. Blocks!Open
        BY <3>1, <4>1, <4>3 DEF Blocks!Open
      <4>5. QED
        BY <4>4 DEF Blocks!Next
    <3>4. QED
      BY <2>1, <3>2, <3>3 DEF PageInit, InitPlace
  <2>2. CASE Call
    <3>1. CASE \E n \in Requests : AllocCall(n)
      BY <3>1 DEF AllocCall, layoutVars
    <3>2. CASE \E b \in held : FreeCall(b)
      <4>1. PICK b \in held : FreeCall(b)
        BY <3>2
      <4>2. Blocks!Free(b)
        BY <4>1 DEF FreeCall, layoutVars, Blocks!Free
      <4>3. QED
        BY <4>2 DEF Blocks!Next
    <3>3. CASE \E d \in 0 .. num_pages - 1 : FreeAgain(d)
      BY <3>3 DEF FreeAgain, layoutVars
    <3>4. QED
      BY <2>2, <3>1, <3>2, <3>3 DEF Call
  <2>3. CASE Body
    <3>1. CASE ReturnNull
      BY <3>1, RefuseSimulated DEF Blocks!Next
    <3>2. CASE MarkLast
      BY <3>2, AllocSimulated
    <3>3. CASE ScanTaken \/ ScanFree \/ CheckFree \/ CheckTaken \/ Found \/ MarkTaken
      BY <3>3 DEF ScanTaken, ScanFree, CheckFree, CheckTaken, Found, MarkTaken, layoutVars
    <3>4. CASE ClearNext \/ ClearLast \/ ClearNothing
      BY <3>4 DEF ClearNext, ClearLast, ClearNothing, layoutVars
    <3>5. QED
      BY <2>3, <3>1, <3>2, <3>3, <3>4 DEF Body
  <2>4. CASE UNCHANGED vars
    BY <2>4 DEF vars, layoutVars
  <2>5. QED
    BY <2>1, <2>2, <2>3, <2>4 DEF Next
<1>3. QED
  BY <1>1, <1>2, PageInductive, PTL DEF Spec, ImplementsBlockAlloc, Blocks!Spec
==============================================================================
