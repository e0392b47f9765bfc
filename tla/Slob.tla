-------------------------------- MODULE Slob --------------------------------
(***************************************************************************)
(* The kernel heap of lab8: the SLOB allocator of kern/mm/kmalloc.c over   *)
(* the page managers of Pmm.                                               *)
(*                                                                         *)
(* An address counts SLOB_UNITs, UNITS of them to a page, and the sizes    *)
(* asked for are units too.  The static block arena lies at address 0, in  *)
(* the kernel's own image.  h is the state of the allocator:               *)
(*   ring      the free blocks: units and next of the header at an address *)
(*   slobfree  where the next search starts                                *)
(*   used      the blocks given out: the units their header still says     *)
(*   bigblocks the list of bigblock_t, the newest first                    *)
(* and s is the pair of it and of the page manager's state, [m, h].        *)
(***************************************************************************)
EXTENDS Pmm

CONSTANTS UNITS,     \* PAGE_SIZE / SLOB_UNIT
          BB_UNITS   \* SLOB_UNITS(sizeof(bigblock_t))

ASSUME SlobAssumption == {UNITS, BB_UNITS} \subseteq Nat /\ 2 < BB_UNITS + 1 /\ BB_UNITS + 1 < UNITS

arena == 0

slob_init == [ring |-> [b \in {arena} |-> [units |-> 1, next |-> arena]], slobfree |-> arena,
              used |-> <<>>, bigblocks |-> <<>>]

-----------------------------------------------------------------------------
(* cur and prev of the i-th turn of a loop that starts at slobfree.         *)
At(h, i) == LET cur[j \in 0..i] == IF j = 0 THEN h.slobfree ELSE h.ring[cur[j - 1]].next
            IN  cur[i]

(* One turn round the ring, which ends at slobfree itself.                  *)
Turn(h) == 1..Cardinality(DOMAIN h.ring)

Unlinked(h, a) == Restrict(h.ring, DOMAIN h.ring \ {a})

(* The first block with room, taken whole or cut at its end.                *)
Fitting(h, n) == {i \in Turn(h) : h.ring[At(h, i)].units >= n}

Cutting(h, n, prev, cur) ==
    LET node == h.ring[cur]
        rest == [units |-> node.units - n, next |-> node.next]
    IN  [h EXCEPT !.ring = IF node.units = n
                           THEN [Unlinked(h, cur) EXCEPT ![prev].next = node.next]
                           ELSE (cur + n :> rest) @@ [Unlinked(h, cur) EXCEPT ![prev].next = cur + n],
                  !.used = (cur :> n) @@ @,
                  !.slobfree = prev]

(* The reinsertion point: the block below b whose next is above it, or the  *)
(* last one when b is outside the range of all.                             *)
Below(h, b) ==
    At(h, Min({i \in 0..Cardinality(DOMAIN h.ring) :
                 LET cur == At(h, i)
                     next == h.ring[cur].next
                 IN  \/ b > cur /\ b < next
                     \/ cur >= next /\ (b > cur \/ b < next)}))

(* The block of size units at b joins cur, whose next is then after.        *)
Joining(h, ring, cur, b, size, after) ==
    [h EXCEPT !.ring = IF cur + h.ring[cur].units = b
                       THEN [ring EXCEPT ![cur] = [units |-> @.units + size, next |-> after]]
                       ELSE (b :> [units |-> size, next |-> after]) @@ [ring EXCEPT ![cur].next = b],
              !.used = Restrict(@, DOMAIN @ \ {b}),
              !.slobfree = cur]

Between(h, b, n, cur, next) ==
    IF b + n = next
    THEN Joining(h, Unlinked(h, next), cur, b, n + h.ring[next].units, h.ring[next].next)
    ELSE Joining(h, h.ring, cur, b, n, next)

FreedAfter(h, b, n, cur) == Between(h, b, n, cur, h.ring[cur].next)

slob_free(h, b, n) == FreedAfter(h, b, n, Below(h, b))

(* slob_alloc with align = 0, as every caller has it: a page is added when  *)
(* no block has room.                                                       *)
CutAt(s, n, i) == [obj |-> At(s.h, i), m |-> s.m, h |-> Cutting(s.h, n, At(s.h, i - 1), At(s.h, i))]

Cut(s, n) == CutAt(s, n, Min(Fitting(s.h, n)))

Refilled(s, got, n) ==
    IF got.page = null THEN [obj |-> null, m |-> s.m, h |-> s.h]
    ELSE Cut([m |-> got.m, h |-> slob_free(s.h, got.page * UNITS, UNITS)], n)

slob_alloc(manager, s, n) ==
    IF Fitting(s.h, n) # {} THEN Cut(s, n)
    ELSE Refilled(s, alloc_pages(manager, s.m, 1), n)

-----------------------------------------------------------------------------
(* kmalloc: small sizes with a header of one unit; larger ones as pages of  *)
(* their own, recorded in a bigblock_t that comes from the heap as well.    *)
(* A size within one unit of the limit fails the assertion of slob_alloc,   *)
(* so callers are taken to ask for none.                                    *)
Small(size) == size < UNITS - 1
AssertHolds(size) == Small(size) => size + 2 < UNITS

find_order(size) ==
    LET order[n \in 0..size] == IF n <= UNITS THEN 0 ELSE 1 + order[n \div 2]
    IN  order[size]

BigBlockLost(s) == s                                                     \* wrong
GivesBack(s) == [s EXCEPT !.h = slob_free(@, s.obj, BB_UNITS)]

BehindHeader(block) == [block EXCEPT !.obj = IF @ = null THEN null ELSE @ + 1]

(* The way on with a bigblock_t bb and the answer to the request for pages. *)
Recorded(bb, order, got) ==
    IF bb.obj = null THEN bb
    ELSE IF got.page = null THEN [GivesBack(bb) EXCEPT !.obj = null]
    ELSE [obj |-> got.page * UNITS, m |-> got.m,
          h |-> [bb.h EXCEPT !.bigblocks =
                   <<[bb |-> bb.obj, order |-> order, pages |-> got.page]>> \o @]]

Large(manager, bb, order) == Recorded(bb, order, alloc_pages(manager, bb.m, 2^order))

kmalloc(manager, s, size) ==
    IF Small(size) THEN BehindHeader(slob_alloc(manager, s, size + 1))
    ELSE Large(manager, slob_alloc(manager, s, BB_UNITS), find_order(size))

(* kfree: a page-aligned block may still be a small one, if its header is   *)
(* the last unit of the page before.                                        *)
BigOf(h, obj) == {i \in DOMAIN h.bigblocks : h.bigblocks[i].pages * UNITS = obj}

PagesBack(manager, s, i, big) ==
    [m |-> free_pages(manager, s.m, big.pages, 2^big.order),
     h |-> slob_free([s.h EXCEPT !.bigblocks = RemoveAt(@, i)], big.bb, BB_UNITS)]

kfree(manager, s, obj) ==
    IF obj % UNITS = 0 /\ BigOf(s.h, obj) # {}
    THEN LET i == Min(BigOf(s.h, obj)) IN PagesBack(manager, s, i, s.h.bigblocks[i])
    ELSE [m |-> s.m, h |-> slob_free(s.h, obj - 1, s.h.used[obj - 1])]

(* The objects callers hold.                                                *)
Objects(h) ==
    {h.bigblocks[i].pages * UNITS : i \in DOMAIN h.bigblocks}
    \cup {b + 1 : b \in DOMAIN h.used \ {h.bigblocks[i].bb : i \in DOMAIN h.bigblocks}}

=============================================================================
