------------------------------- MODULE MCHeap -------------------------------
EXTENDS Heap, TLC

(* Slabs of two caches: three objects, and one that fills its slab alone.   *)
MCTotal == <<3, 1>>

=============================================================================
