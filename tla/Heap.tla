-------------------------------- MODULE Heap --------------------------------
(***************************************************************************)
(* The memory of one kernel: the page manager that init_pmm_manager chose, *)
(* the clients that take pages from it directly (kernel stacks, page       *)
(* tables, user pages: held), and the object allocator above it, which     *)
(* takes pages from the same pool: SLOB in the first fit kernel of lab8,   *)
(* SLUB in the buddy kernel of lab2.                                       *)
(*                                                                         *)
(* Every operation runs with interrupts off or is not interrupted by code  *)
(* that allocates, so it is one step.  A request that is refused changes   *)
(* nothing and is no step: what is refused is the subject of AnswersExact. *)
(***************************************************************************)
EXTENDS Slob, Slub

CONSTANTS PageSizes,   \* the numbers of pages clients ask for
          ObjectSizes, \* the sizes given to kmalloc, in units
          TopStaysFree,\* bound: clients of first and best fit stop before
                       \* the last page of the memory is in use
          MaxPages,    \* bound: pages in use at a time
          MaxObjects   \* bound: objects in use at a time

VARIABLES pmm_manager, pmm, held, slob, slub,
          objs  \* the objects given out and not yet freed, as their holders know them

memVars == <<pmm_manager, pmm, held, slob, slub, objs>>

(* Nobody asks for no page: default_alloc_pages asserts n > 0.              *)
ASSUME HeapAssumption ==
    /\ PageSizes \subseteq Nat \ {0}
    /\ \A size \in ObjectSizes : AssertHolds(size)

HeapInit ==
    /\ pmm_manager \in Managers
    /\ pmm = init_memmap(pmm_manager)
    /\ held = {}
    /\ slob = slob_init
    /\ slub = slub_init
    /\ objs = {}

-----------------------------------------------------------------------------
(* What is in use: the runs of pages of each owner.                         *)
PagesAsked(n) == IF pmm_manager = "buddy" THEN 2^order_of(n) ELSE n

HeapUnits(heap) ==
    UNION {Run(b, heap.ring[b].units) : b \in DOMAIN heap.ring \ {arena}}
    \cup UNION {Run(b, heap.used[b]) : b \in DOMAIN heap.used}

HeapPages(heap) == {p \in Pages : p * UNITS \in HeapUnits(heap)}

BigRuns(heap) == {<<heap.bigblocks[i].pages, 2^heap.bigblocks[i].order>> : i \in DOMAIN heap.bigblocks}

UsedRuns ==
    {<<r.page, PagesAsked(r.n)>> : r \in held} \cup {<<p, 1>> : p \in HeapPages(slob)}
    \cup BigRuns(slob) \cup {<<sl, 1>> : sl \in DOMAIN slub.slab}

Covered(runs) == UNION {Run(r[1], r[2]) : r \in runs}
PageCount(runs) == Cardinality(UNION {{r} \X Run(r[1], r[2]) : r \in runs})

-----------------------------------------------------------------------------
AllocPages(n) ==
    \E got \in {alloc_pages(pmm_manager, pmm, n)} :
        /\ got.page # null
        /\ pmm' = got.m
        /\ held' = held \cup {[page |-> got.page, n |-> n]}
        /\ UNCHANGED <<pmm_manager, slob, slub, objs>>

FreePages(r) ==
    /\ pmm' = free_pages(pmm_manager, pmm, r.page, r.n)
    /\ held' = held \ {r}
    /\ UNCHANGED <<pmm_manager, slob, slub, objs>>

KMalloc(size) ==
    /\ pmm_manager = "first_fit"
    /\ \E got \in {kmalloc(pmm_manager, [m |-> pmm, h |-> slob], size)} :
        /\ pmm' = got.m
        /\ slob' = got.h
        /\ objs' = IF got.obj = null THEN objs ELSE objs \cup {<<got.obj>>}
    /\ UNCHANGED <<pmm_manager, held, slub>>

KFree(obj) ==
    \E left \in {kfree(pmm_manager, [m |-> pmm, h |-> slob], obj)} :
        /\ pmm' = left.m
        /\ slob' = left.h
        /\ objs' = objs \ {<<obj>>}
        /\ UNCHANGED <<pmm_manager, held, slub>>

SlubAlloc(k) ==
    /\ pmm_manager = "buddy"
    /\ \E got \in {slub_alloc(pmm_manager, pmm, slub, k)} :
        /\ got.obj # <<>>
        /\ pmm' = got.m
        /\ slub' = got.c
        /\ objs' = objs \cup {got.obj}
    /\ UNCHANGED <<pmm_manager, held, slob>>

SlubFree(obj) ==
    \E left \in {slub_free(pmm_manager, pmm, slub, obj)} :
        /\ pmm' = left.m
        /\ slub' = left.c
        /\ objs' = objs \ {obj}
        /\ UNCHANGED <<pmm_manager, held, slob>>

(* Clients stay within MaxPages and MaxObjects.                             *)
HeapNext ==
    /\ \/ \E n \in PageSizes : AllocPages(n)
       \/ \E r \in held : FreePages(r)
       \/ \E size \in ObjectSizes : KMalloc(size)
       \/ \E obj \in objs : Len(obj) = 1 /\ KFree(obj[1])
       \/ \E k \in Caches : SlubAlloc(k)
       \/ \E obj \in objs : Len(obj) = 2 /\ SlubFree(obj)
    /\ TopStaysFree /\ pmm_manager # "buddy" => NPages - 1 \notin Covered(UsedRuns')
    /\ PageCount(UsedRuns') <= MaxPages
    /\ Cardinality(objs') <= MaxObjects

HeapSpec == HeapInit /\ [][HeapNext]_memVars

-----------------------------------------------------------------------------
(* Properties.                                                              *)

(* The values the fields of the managers and the allocators may have.       *)
MemTypeOK ==
    /\ pmm_manager \in Managers
    /\ pmm.next \in [Pages \cup {HEAD} -> Pages \cup {HEAD}]
    /\ pmm.prev \in [Pages \cup {HEAD} -> Pages \cup {HEAD}]
    /\ pmm.property \in [Pages -> 0..NPages]
    /\ pmm.free \subseteq Pages
    /\ held \subseteq [page : Pages, n : PageSizes]
    /\ \A b \in DOMAIN slob.ring : slob.ring[b].units \in 1..NPages * UNITS
    /\ slob.slobfree \in DOMAIN slob.ring
    /\ \A sl \in DOMAIN slub.slab : slub.slab[sl].inuse \in 1..Total[slub.slab[sl].cache]

FreeRuns == {<<p, pmm.property[p]>> : p \in pmm.free}

(* The list of first fit and best fit: linked both ways, in the order of    *)
(* addresses, holding just the heads of free blocks, and no two blocks that *)
(* could be one.                                                            *)
ListOk ==
    LET list == FreeList(pmm)
        at(i) == IF i \in DOMAIN list THEN list[i] ELSE HEAD
    IN  /\ ToSet(list) = pmm.free
        /\ \A i \in 0..Len(list) : pmm.next[at(i)] = at(i + 1) /\ pmm.prev[at(i + 1)] = at(i)
        /\ \A i \in 1..Len(list) - 1 : list[i] + pmm.property[list[i]] < list[i + 1]
        /\ pmm.nr_free = PageCount(FreeRuns)

(* The lists of the buddies: blocks of their order at multiples of their    *)
(* size, and no block beside its free buddy below the largest order.        *)
BuddyOk ==
    /\ UNION {ToSet(pmm.area[k]) : k \in Orders} = pmm.free
    /\ \A k \in Orders :
          /\ pmm.nr_free[k] = Len(pmm.area[k]) * 2^k
          /\ \A p \in ToSet(pmm.area[k]) :
                /\ pmm.property[p] = 2^k
                /\ p % (2^k) = 0
                /\ k + 1 < MAX_ORDER => ~Contains(pmm.area[k], buddy_of(p, k))

(* default_free_pages, best_fit_free_pages, buddy_free_pages and the        *)
(* allocators above: whatever was asked for and freed, and in what order,   *)
(* every page is in one free block or in use by one owner, the manager's    *)
(* lists and counts say so, free blocks are merged, and no assertion on     *)
(* PG_property failed.                                                      *)
PagesExact ==
    /\ Covered(FreeRuns \cup UsedRuns) = Pages
    /\ PageCount(FreeRuns) + PageCount(UsedRuns) = Cardinality(Pages)
    /\ IF pmm_manager = "buddy" THEN BuddyOk ELSE ListOk
    /\ ~pmm.failed

(* slob_alloc and slob_free: the ring rises once round, its blocks and the  *)
(* blocks in use cut the heap's pages without overlap or gap, and no two    *)
(* free blocks touch.                                                       *)
SlobOk ==
    LET blocks == {<<b, slob.ring[b].units>> : b \in DOMAIN slob.ring \ {arena}}
                  \cup {<<b, slob.used[b]>> : b \in DOMAIN slob.used}
    IN  /\ Cardinality({b \in DOMAIN slob.ring : slob.ring[b].next <= b}) = 1
        /\ {slob.ring[b].next : b \in DOMAIN slob.ring} = DOMAIN slob.ring
        /\ Covered(blocks) = UNION {Run(p * UNITS, UNITS) : p \in HeapPages(slob)}
        /\ PageCount(blocks) = Cardinality(Covered(blocks))
        /\ \A b \in DOMAIN slob.ring : b + slob.ring[b].units \notin DOMAIN slob.ring
        /\ \A i \in DOMAIN slob.bigblocks : slob.used[slob.bigblocks[i].bb] = BB_UNITS

(* slub_alloc and slub_free: a slab is in the list its inuse says, once,    *)
(* and its free objects are those without a bit.                            *)
SlubOk ==
    /\ \A sl \in DOMAIN slub.slab :
          LET slab == slub.slab[sl]
              k == slab.cache
          IN  /\ slab.inuse = Cardinality(slab.bitmap)
              /\ IsInjective(slab.freelist)
              /\ ToSet(slab.freelist) = 0..Total[k] - 1 \ slab.bitmap
              /\ Contains(slub.full[k], sl) <=> slab.inuse = Total[k]
              /\ Contains(slub.partial[k], sl) <=> slab.inuse \in 1..Total[k] - 1
    /\ \A k \in Caches : IsInjective(slub.full[k]) /\ IsInjective(slub.partial[k])
                           /\ slub.empty[k] = <<>>

(* kmalloc, kfree, slub_alloc, slub_free: no object of the heap overlaps    *)
(* another, none is lost, and the bookkeeping is exact.                     *)
ObjectsExact ==
    /\ MemTypeOK
    /\ SlobOk
    /\ SlubOk
    /\ objs = {<<obj>> : obj \in Objects(slob)}
              \cup UNION {{sl} \X slub.slab[sl].bitmap : sl \in DOMAIN slub.slab}

(* The placements a request of n pages may get.                             *)
Places(n) ==
    LET size == PagesAsked(n)
    IN  {p \in Pages : /\ Run(p, size) \subseteq Covered(FreeRuns)
                       /\ pmm_manager = "buddy" => p % size = 0}

RightPage(n, page, places) ==
    IF places = {} THEN page = null
    ELSE /\ page \in places
         /\ pmm_manager = "first_fit" => page = Min(places)
         /\ pmm_manager = "best_fit" =>
              pmm.property[page] = Min({r[2] : r \in {f \in FreeRuns : f[2] >= n}})

HasRoom(n) ==
    \/ \E b \in DOMAIN slob.ring : slob.ring[b].units >= n
    \/ pmm.free # {}

PagesAnswered ==
    \A n \in 1..Cardinality(Pages) :
        RightPage(n, alloc_pages(pmm_manager, pmm, n).page, Places(n))

ObjectsAnswered ==
    pmm_manager = "first_fit" => \A n \in 2..UNITS - 2 :
        slob_alloc(pmm_manager, [m |-> pmm, h |-> slob], n).obj # null <=> HasRoom(n)

(* alloc_pages answers NULL just when there is no run of free pages of the  *)
(* size asked for (at a multiple of it, for the buddies), and otherwise     *)
(* with such a run, of the smallest free block for best fit, the lowest for *)
(* first fit; kmalloc answers NULL just when neither the heap's pages nor   *)
(* the pool have the room.                                                  *)
AnswersExact == PagesAnswered /\ ObjectsAnswered

(* basic_check of default_pmm.c (line 188) asserts p0 != p1 && p0 != p2 &&  *)
(* p1 != p2 of three pages it was given: no allocation answers with a page  *)
(* in use.                                                                  *)
BlocksDistinct ==
    \A n \in PageSizes :
        LET page == alloc_pages(pmm_manager, pmm, n).page
        IN  page # null => Run(page, n) \cap Covered(UsedRuns) = {}

=============================================================================
