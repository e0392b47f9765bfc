-------------------------------- MODULE Slub --------------------------------
(***************************************************************************)
(* The object allocator of lab2, kern/mm/slub.c, over the page managers of *)
(* Pmm.  A slab is a page; c is the state of the allocator:                *)
(*   slab   of every slab its cache, freelist, inuse and the bits set in   *)
(*          its bitmap; objects of a slab are numbered from 0              *)
(*   full, partial, empty  slabs_full, slabs_partial, slabs_free of every  *)
(*          cache, the head first                                          *)
(***************************************************************************)
EXTENDS Pmm

CONSTANT Total  \* obj_num of a slab, of every cache (an index of caches[])

ASSUME SlubAssumption == \A k \in DOMAIN Total : Total[k] \in Nat \ {0}

Caches == DOMAIN Total

slub_init == [slab |-> <<>>, full |-> [k \in Caches |-> <<>>],
              partial |-> [k \in Caches |-> <<>>], empty |-> [k \in Caches |-> <<>>]]

slab_create(c, k, page) ==
    [c EXCEPT !.slab = (page :> [cache |-> k, inuse |-> 0, bitmap |-> {},
                                 freelist |-> [i \in 1..Total[k] |-> i - 1]]) @@ @,
              !.empty[k] = <<page>> \o @]

(* The slab the object comes from heads slabs_partial; it leaves for        *)
(* slabs_full with its last object.                                         *)
FullMoved(c, k, sl) ==
    IF c.slab[sl].inuse # Total[k] THEN c
    ELSE [c EXCEPT !.partial[k] = Tail(@), !.full[k] = <<sl>> \o @]

Given(c, k) ==
    LET sl  == Head(c.partial[k])
        obj == Head(c.slab[sl].freelist)
    IN  [obj |-> <<sl, obj>>,
         c   |-> FullMoved([c EXCEPT !.slab[sl].freelist = Tail(@),
                                     !.slab[sl].inuse = @ + 1,
                                     !.slab[sl].bitmap = @ \cup {obj}], k, sl)]

Ready(c, k) ==
    IF c.partial[k] # <<>> THEN c
    ELSE [c EXCEPT !.empty[k] = Tail(@), !.partial[k] = <<Head(c.empty[k])>>]

Grown(c, k, got) ==
    IF got.page = null THEN [obj |-> <<>>, m |-> got.m, c |-> c]
    ELSE Given(Ready(slab_create(c, k, got.page), k), k) @@ [m |-> got.m]

slub_alloc(manager, m, c, k) ==
    IF c.partial[k] = <<>> /\ c.empty[k] = <<>> THEN Grown(c, k, alloc_pages(manager, m, 1))
    ELSE Given(Ready(c, k), k) @@ [m |-> m]

(* A full slab becomes a partial one; an unused one gives its page back.    *)
TakenBack(c, sl, k, o) ==
    LET back == [c EXCEPT !.slab[sl].freelist = <<o>> \o @, !.slab[sl].inuse = @ - 1,
                          !.slab[sl].bitmap = @ \ {o}]
    IN  IF Contains(c.full[k], sl)
        THEN [back EXCEPT !.full[k] = Remove(@, sl), !.partial[k] = <<sl>> \o @]
        ELSE back

Shrunk(manager, m, c, sl, k) ==
    IF c.slab[sl].inuse = 0 /\ Contains(c.partial[k], sl)
    THEN [m |-> free_pages(manager, m, sl, 1),
          c |-> [c EXCEPT !.partial[k] = Remove(@, sl),
                          !.slab = Restrict(@, DOMAIN @ \ {sl})]]
    ELSE [m |-> m, c |-> c]

SlabFreed(manager, m, c, sl, k, o) == Shrunk(manager, m, TakenBack(c, sl, k, o), sl, k)

slub_free(manager, m, c, obj) == SlabFreed(manager, m, c, obj[1], c.slab[obj[1]].cache, obj[2])

=============================================================================
