--------------------------------- MODULE Pmm ---------------------------------
(***************************************************************************)
(* The physical page managers behind pmm_manager: first fit                *)
(* (lab8/kern/mm/default_pmm.c), best fit (lab2/kern/mm/best_fit_pmm.c)    *)
(* and the buddy system (lab2/kern/mm/buddy_pmm.c).                        *)
(*                                                                         *)
(* Pages are numbered; those below FirstFree hold the kernel and are never *)
(* given out, so that 0 can stand for NULL.  m is the state all managers   *)
(* share or own:                                                           *)
(*   next, prev  page_link of the heads of free blocks, and of free_list   *)
(*               itself, which is HEAD: the pointers as the code sets      *)
(*               them, since it relies on list_add and list_del            *)
(*   property    p->property, which is stale in pages that head no block   *)
(*   free        the pages with PG_property set                            *)
(*   nr_free     the count of free pages, one per order for the buddies    *)
(*   area        buddy_areas[k].free_list, as a sequence                   *)
(*   failed      an assertion of free_pages has failed                     *)
(***************************************************************************)
EXTENDS Integers, Sequences, FiniteSets, SequencesExt, FiniteSetsExt

CONSTANTS Managers,   \* "first_fit", "best_fit", "buddy": what pmm_manager may be
          NPages,     \* npage: the pages of the machine
          FirstFree,  \* the first page that page_init hands to init_memmap
          MAX_ORDER   \* buddy blocks have 2^k pages, k < MAX_ORDER

ASSUME PmmAssumption ==
    /\ {NPages, FirstFree, MAX_ORDER} \subseteq Nat \ {0}
    /\ FirstFree < NPages

(* As in the machine of 2^15 pages: every buddy that is asked for lies in   *)
(* the array of pages, and the bound of buddy_of, which counts them from    *)
(* physical address 0, never cuts.                                          *)
ASSUME BuddyAssumption == "buddy" \in Managers => NPages % (2^(MAX_ORDER - 1)) = 0

Pages == FirstFree .. NPages - 1
HEAD == NPages
null == 0
Orders == 0 .. MAX_ORDER - 1

Run(p, n) == p .. p + n - 1

-----------------------------------------------------------------------------
(* list_add, list_add_before, list_del of libs/list.h: the assignments in   *)
(* the order of the code, which matters when the arguments are one entry.   *)
LinkedIn(m, e, before, after) ==
    [m EXCEPT !.next[before] = e, !.prev[after] = e,
              !.next[e] = after, !.prev[e] = before]

list_add(m, le, e) == LinkedIn(m, e, le, m.next[le])
list_add_before(m, le, e) == LinkedIn(m, e, m.prev[le], le)
(* An entry that nothing points to any more has its link and its property   *)
(* written before they are read again; until then they have no value here.  *)
list_del(m, e) ==
    LET cut == [m EXCEPT !.next[m.prev[e]] = m.next[e], !.prev[m.next[e]] = m.prev[e]]
    IN  IF \E x \in DOMAIN m.next : x # e /\ e \in {cut.next[x], cut.prev[x]} THEN cut
        ELSE [cut EXCEPT !.next[e] = HEAD, !.prev[e] = HEAD, !.property[e] = 0]

(* The free list as the loops over it meet it, up to HEAD.  The bound only  *)
(* cuts lists that a broken link has closed to a cycle.                     *)
Entries(m) ==
    LET entry[i \in 1..NPages] ==
            LET before == IF i = 1 THEN HEAD ELSE entry[i - 1]
            IN  IF i > 1 /\ before = HEAD THEN HEAD ELSE m.next[before]
    IN  entry

FreeList(m) ==
    LET entry == Entries(m)
        ends  == {i \in 1..NPages : entry[i] = HEAD}
    IN  [i \in 1..(IF ends = {} THEN NPages ELSE Min(ends) - 1) |-> entry[i]]

-----------------------------------------------------------------------------
(* First fit and best fit.                                                  *)

(* The block an allocation takes: the first that is large enough; of best   *)
(* fit the first of the smallest ones.                                      *)
Pick(manager, m, list, fits) ==
    LET small == {i \in fits : \A j \in fits : m.property[list[i]] <= m.property[list[j]]}
    IN  IF fits = {} THEN null
        ELSE list[Min(IF manager = "best_fit" THEN small ELSE fits)]

Search(manager, m, list, n) ==
    Pick(manager, m, list, {i \in DOMAIN list : m.property[list[i]] >= n})

TakesFirst(manager, m, n) == IF m.nr_free < n THEN null ELSE m.next[HEAD]    \* wrong
Chosen(manager, m, n) == IF n > m.nr_free THEN null ELSE Search(manager, m, FreeList(m), n)

(* The rest of the block takes its place in the list.                       *)
WithRest(cut, m, page, n) ==
    IF m.property[page] = n THEN cut
    ELSE list_add([cut EXCEPT !.property[page + n] = m.property[page] - n,
                              !.free = @ \cup {page + n}], m.prev[page], page + n)

Answer(m, page, n) ==
    [page |-> page,
     m |-> IF page = null THEN m
           ELSE [WithRest(list_del(m, page), m, page, n) EXCEPT !.nr_free = @ - n,
                                                                !.free = @ \ {page}]]

list_alloc_pages(manager, m, n) == Answer(m, Chosen(manager, m, n), n)

(* A freed block goes before the first one above it.  The loop has no break *)
(* after the list_add at the end of the list, so that it meets the new      *)
(* block itself, the last entry now, and adds it once more, behind itself.  *)
Inserted(m, base, list) ==
    LET above == {i \in DOMAIN list : base < list[i]}
    IN  IF list = <<>> THEN list_add(m, HEAD, base)
        ELSE IF above # {} THEN list_add_before(m, list[Min(above)], base)
        ELSE list_add(list_add(m, Last(list), base), base, base)

(* Merging a block into the one before it, if the two are adjacent.         *)
NotAbsorbed(m, p, q) == [m EXCEPT !.free = @ \ {q}]                       \* wrong
Absorbed(m, p, q) ==
    list_del([m EXCEPT !.property[p] = @ + m.property[q], !.free = @ \ {q}], q)

Adjacent(m, p, q) == p # HEAD /\ q # HEAD /\ p + m.property[p] = q

(* First with the block before, then with the one after.                    *)
MergedUp(m, p) ==
    IF Adjacent(m, p, m.next[p]) THEN Absorbed(m, p, m.next[p]) ELSE m

MergedBoth(m, base) ==
    LET low == m.prev[base]
    IN  IF Adjacent(m, low, base) THEN MergedUp(Absorbed(m, low, base), low)
        ELSE MergedUp(m, base)

list_free_pages(m, base, n) ==
    MergedBoth(Inserted([m EXCEPT !.property[base] = n, !.nr_free = @ + n,
                                  !.failed = @ \/ m.free \cap Run(base, n) # {},
                                  !.free = @ \cup {base}], base, FreeList(m)), base)

-----------------------------------------------------------------------------
(* The buddy system.                                                        *)
order_of(n) == Min({k \in 0..n : 2^k >= n})

(* idx ^ block_size, for a block that starts at a multiple of its size.     *)
buddy_of(p, k) == IF (p \div 2^k) % 2 = 0 THEN p + 2^k ELSE p - 2^k

(* Halving a block of order j down to order k.                              *)
Halved(m, k, j) ==
    LET p == Head(m.area[j])
        halves == {p + 2^i : i \in k..j - 1}
    IN  [page |-> p, m |->
         [m EXCEPT !.area = [i \in Orders |-> IF i = j THEN Tail(@[i])
                                ELSE IF i \in k..j - 1 THEN <<p + 2^i>> \o @[i] ELSE @[i]],
                   !.nr_free = [i \in Orders |-> IF i = j THEN @[i] - 2^i
                                ELSE IF i \in k..j - 1 THEN @[i] + 2^i ELSE @[i]],
                   !.property = [q \in DOMAIN @ |-> IF q = p THEN 0
                                ELSE IF q \in halves THEN q - p ELSE @[q]],
                   !.free = (@ \ {p}) \cup halves]]

Smallest(m, k, full) ==
    IF full = {} THEN [page |-> null, m |-> m] ELSE Halved(m, k, Min(full))

buddy_alloc_pages(m, n) ==
    Smallest(m, order_of(n), {j \in Orders : j >= order_of(n) /\ m.area[j] # <<>>})

(* Every caller frees the whole block it was given, and that block starts   *)
(* at a multiple of its size: the outer loop is entered once.  The loop of  *)
(* the merge goes up while the buddy of that order is a free block.         *)
Block(base, i) == base - (base % (2^i))

Buddy(base, i) == buddy_of(Block(base, i), i)

Merges(m, buddy, i) ==
    /\ i + 1 < MAX_ORDER
    /\ buddy \in m.free
    /\ m.property[buddy] = 2^i

(* The block of order top at p takes in what merged on the way up from k.   *)
Joined(m, base, k, top, p, merged) ==
    [m EXCEPT !.property = [q \in DOMAIN @ |-> IF q = p THEN 2^top
                              ELSE IF q \in merged \cup {base} THEN 0 ELSE @[q]],
              !.free = (@ \ (merged \cup {base})) \cup {p},
              !.failed = @ \/ base \in m.free,
              !.nr_free = [i \in Orders |-> IF i = top THEN @[i] + 2^i
                             ELSE IF i \in k..top - 1 THEN @[i] - 2^i ELSE @[i]],
              !.area = [i \in Orders |-> IF i = top THEN <<p>> \o @[i]
                             ELSE IF i \in k..top - 1 THEN Remove(@[i], Buddy(base, i)) ELSE @[i]]]

MergedTo(m, base, k, top) ==
    Joined(m, base, k, top, Block(base, top), {Buddy(base, i) : i \in k..top - 1})

buddy_free_pages(m, base, n) ==
    MergedTo(m, base, order_of(n),
             Min({i \in order_of(n)..MAX_ORDER : ~Merges(m, Buddy(base, i), i)}))

-----------------------------------------------------------------------------
(* alloc_pages, free_pages of pmm.c, and the pages as page_init hands them  *)
(* to init_memmap: one block, or the largest aligned ones of the buddies,   *)
(* each put at the head of its list.                                        *)
alloc_pages(manager, m, n) ==
    IF manager = "buddy" THEN buddy_alloc_pages(m, n) ELSE list_alloc_pages(manager, m, n)

free_pages(manager, m, base, n) ==
    IF manager = "buddy" THEN buddy_free_pages(m, base, n) ELSE list_free_pages(m, base, n)

InitOrder(p) == Max({k \in Orders : p % (2^k) = 0 /\ p + 2^k <= NPages})

InitBlocks ==
    LET start[p \in FirstFree..NPages] ==
            p = FirstFree \/ \E q \in FirstFree..p - 1 : start[q] /\ q + 2^InitOrder(q) = p
    IN  {p \in Pages : start[p]}

PagesIn(blocks, size, areas, count, start) ==
    [next     |-> [e \in Pages \cup {HEAD} |-> IF e = HEAD THEN start ELSE HEAD],
     prev     |-> [e \in Pages \cup {HEAD} |-> IF e = HEAD THEN start ELSE HEAD],
     property |-> [p \in Pages |-> IF p \in blocks THEN size[p] ELSE 0],
     free     |-> blocks,
     area     |-> areas,
     nr_free  |-> count,
     failed   |-> FALSE]

init_memmap(manager) ==
    LET size == [p \in InitBlocks |-> 2^InitOrder(p)]
        of(k) == {p \in InitBlocks : InitOrder(p) = k}
    IN  IF manager = "buddy"
        THEN PagesIn(InitBlocks, size,
                     [k \in Orders |-> Reverse(SetToSortSeq(of(k), <))],
                     [k \in Orders |-> Cardinality(of(k)) * 2^k], HEAD)
        ELSE PagesIn({FirstFree}, [p \in {FirstFree} |-> NPages - FirstFree],
                     [k \in Orders |-> <<>>], NPages - FirstFree, FirstFree)

=============================================================================
