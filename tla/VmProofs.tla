------------------------------ MODULE VmProofs ------------------------------
(***************************************************************************)
(* The memory of processes in lab5, for any finite set of processes, any   *)
(* number of frames, any geometry of page tables and any programs laid out *)
(* as the linker does: page_ref is exact, areas and tables are in order,   *)
(* frames are lost only as README.md says, and each process sees a memory  *)
(* of its own.                                                             *)
(***************************************************************************)
EXTENDS Vm, QueueProofs

-----------------------------------------------------------------------------
(* The loops.  A turn of each, under one name, so that what FoldLeft does   *)
(* with it is said once.                                                    *)
Turn(s, t) ==
    IF t.loop = "unmap_range" THEN UnmapPage(s, t.p, t.a)
    ELSE IF t.loop = "exit_range" THEN ExitDirectory(s, t.p, t.a, t.lo, t.hi)
    ELSE IF t.loop = "copy_range" THEN CopyPage(s, t.p, t.from, t.a)
    ELSE IF t.loop = "unmap" THEN unmap_range(s, t.p, t.a.lo, t.a.hi)
    ELSE IF t.loop = "exit" THEN exit_range(s, t.p, t.a.lo, t.a.hi)
    ELSE IF t.loop = "dup_mmap" THEN CopyArea(s, t.p, t.from, t.a)
    ELSE IF t.loop = "segment" THEN LoadFrom(s, t.p, t.a, t.seg)
    ELSE LoadSegment(s, t.p, t.a)

IsFold(f, s, turns, n) ==
    f = [t \in SUBSET (1..n) |-> IF t = {} THEN s ELSE Turn(f[t \ {Max(t)}], turns[Max(t)])]

(* The largest of some indices is one of them, and FoldLeft takes it off    *)
(* first.                                                                   *)
LEMMA MaxIn ==
    ASSUME NEW n \in Nat, NEW t \in SUBSET (1..n), t # {}
    PROVE  /\ Max(t) \in t /\ \A k \in t : k <= Max(t)
           /\ n \in t => Max(t) = n
<1> DEFINE U == {k \in Nat : \A i \in t : i <= k}
<1>1. t \subseteq Int /\ n \in U /\ U \subseteq Nat
  OBVIOUS
<1>2. PICK k \in U : \A i \in U : k <= i
  BY <1>1, LeastNat
<1>3. k \in t
  <2> SUFFICES ASSUME k \notin t PROVE FALSE
    OBVIOUS
  <2>1. k \in Nat /\ \A i \in t : i \in 1..n /\ i <= k /\ i # k
    BY <1>2
  <2>2. k - 1 \in U
    <3>1. PICK i \in t : TRUE
      OBVIOUS
    <3>2. k >= 1
      BY <2>1, <3>1
    <3> QED BY <2>1, <3>2
  <2> QED BY <1>2, <2>1, <2>2
<1>4. Max(t) \in t /\ \A i \in t : Max(t) >= i
  BY <1>2, <1>3 DEF Max
<1>5. Max(t) \in 1..n
  BY <1>4
<1> QED BY <1>4, <1>5

(* The function by which a fold of the community modules is defined exists: *)
(* it is built up from the functions for fewer turns.                       *)
LEMMA FoldExists ==
    ASSUME NEW s, NEW turns, NEW n \in Nat
    PROVE  \E f : IsFold(f, s, turns, n)
<1> DEFINE T == {k \in Nat : \E f : IsFold(f, s, turns, k)}
<1>1. 0 \in T
  <2>1. IsFold([t \in SUBSET (1..0) |-> s], s, turns, 0)
    BY DEF IsFold
  <2> QED BY <2>1
<1>2. ASSUME NEW k \in Nat, k \in T PROVE k + 1 \in T
  <2>1. PICK f : IsFold(f, s, turns, k)
    BY <1>2
  <2> DEFINE g == [t \in SUBSET (1..(k + 1)) |->
                      IF k + 1 \in t THEN Turn(f[t \ {k + 1}], turns[k + 1]) ELSE f[t]]
  <2>2. ASSUME NEW t \in SUBSET (1..(k + 1))
        PROVE  g[t] = IF t = {} THEN s ELSE Turn(g[t \ {Max(t)}], turns[Max(t)])
    <3>1. CASE k + 1 \in t
      <4>1. Max(t) = k + 1
        BY <3>1, MaxIn
      <4>2. t \ {k + 1} \in SUBSET (1..(k + 1))
        OBVIOUS
      <4>3. g[t \ {k + 1}] = f[t \ {k + 1}]
        BY <4>2
      <4> QED BY <3>1, <4>1, <4>3
    <3>2. CASE k + 1 \notin t /\ t # {}
      <4>1. t \in SUBSET (1..k)
        BY <3>2
      <4>2. Max(t) \in t /\ Max(t) # k + 1
        BY <3>2, <4>1, MaxIn
      <4>3. g[t \ {Max(t)}] = f[t \ {Max(t)}]
        BY <3>2
      <4>4. f[t] = Turn(f[t \ {Max(t)}], turns[Max(t)])
        BY <2>1, <3>2, <4>1 DEF IsFold
      <4>5. g[t] = f[t]
        BY <3>2
      <4> QED BY <3>2, <4>3, <4>4, <4>5
    <3>3. CASE t = {}
      <4>1. t \in SUBSET (1..k) /\ k + 1 \notin t
        BY <3>3
      <4>2. f[t] = s
        BY <2>1, <3>3, <4>1 DEF IsFold
      <4> QED BY <3>3, <4>1, <4>2
    <3> QED BY <3>1, <3>2, <3>3
  <2>3. IsFold(g, s, turns, k + 1)
    <3> HIDE DEF g
    <3>1. g = [t \in SUBSET (1..(k + 1)) |-> g[t]]
      BY DEF g
    <3> QED BY <2>2, <3>1 DEF IsFold
  <2> QED BY <2>3
<1> HIDE DEF T
<1>3. Nat \subseteq T
  BY <1>1, <1>2, SetInduction
<1> QED BY <1>3 DEF T

(* The states after each turn.                                              *)
Steps(h, s, turns, n) == h[0] = s /\ \A k \in 1..n : h[k] = Turn(h[k - 1], turns[k])

(* Along the first k turns the fold goes from state to state as a loop      *)
(* does.                                                                    *)
LEMMA FoldSteps ==
    ASSUME NEW s, NEW turns, NEW n \in Nat, NEW f, IsFold(f, s, turns, n)
    PROVE  \E h : Steps(h, s, turns, n) /\ h[n] = f[1..n]
<1>1. f[{}] = s /\ 1..0 = {}
  BY DEF IsFold
<1>2. ASSUME NEW k \in 1..n PROVE f[1..k] = Turn(f[1..(k - 1)], turns[k])
  <2>1. 1..k \in SUBSET (1..n) /\ k \in 1..k /\ k \in Nat
    OBVIOUS
  <2>2. Max(1..k) = k
    BY <2>1, MaxIn
  <2>3. (1..k) \ {k} = 1..(k - 1)
    BY <2>1
  <2> QED BY <2>1, <2>2, <2>3 DEF IsFold
<1> DEFINE h == [k \in 0..n |-> f[1..k]]
<1>3. h[0] = s /\ h[n] = f[1..n]
  BY <1>1
<1>4. \A k \in 1..n : h[k] = f[1..k] /\ h[k - 1] = f[1..(k - 1)]
  OBVIOUS
<1> HIDE DEF h
<1>5. Steps(h, s, turns, n)
  BY <1>2, <1>3, <1>4 DEF Steps
<1> QED BY <1>3, <1>5

(* A fold over n turns is what the last one leaves.                          *)
Loop(s, turns, n) == (CHOOSE f : IsFold(f, s, turns, n))[1..n]

(* A FoldLeft over turns is a loop: it has a history, in which each state   *)
(* follows from the one before.                                             *)
LEMMA LoopSteps ==
    ASSUME NEW s, NEW turns, NEW n \in Nat
    PROVE  \E h : Steps(h, s, turns, n) /\ h[n] = Loop(s, turns, n)
<1> DEFINE g == CHOOSE f : IsFold(f, s, turns, n)
<1>1. IsFold(g, s, turns, n)
  BY FoldExists
<1>2. g[1..n] = Loop(s, turns, n)
  BY DEF Loop
<1> HIDE DEF g
<1> QED BY <1>1, <1>2, FoldSteps

(* unmap_range goes from page to page.                                      *)
UnmapRun(f, s, p, lo, hi) ==
    /\ f[0] = s
    /\ \A k \in 1..(hi - lo) : f[k] = UnmapPage(f[k - 1], p, lo + k - 1)
    /\ unmap_range(s, p, lo, hi) = f[hi - lo]

(* The history of the loop of unmap_range.                                  *)
LEMMA UnmapSteps ==
    ASSUME NEW s, NEW p, NEW lo \in Nat, NEW hi \in Nat, lo <= hi
    PROVE  \E f : UnmapRun(f, s, p, lo, hi)
<1> DEFINE n == hi - lo
           seq == Upto(lo, hi)
           turns == [k \in 1..n |-> [loop |-> "unmap_range", p |-> p, a |-> lo + k - 1]]
           Is(f) == f = [t \in SUBSET DOMAIN seq |->
                            IF t = {} THEN s ELSE UnmapPage(f[t \ {Max(t)}], p, seq[Max(t)])]
<1>1. n \in Nat /\ DOMAIN seq = 1..n /\ \A k \in 1..n : seq[k] = lo + k - 1
  BY DEF Upto
<1>2. unmap_range(s, p, lo, hi) = (CHOOSE f : Is(f))[DOMAIN seq]
  BY DEF unmap_range, FoldLeft, MapThenFoldSet
<1> HIDE DEF seq, n
<1>3. \A t \in SUBSET (1..n) : t # {} => Max(t) \in 1..n
  BY <1>1, MaxIn
<1>4. \A x : \A k \in 1..n : Turn(x, turns[k]) = UnmapPage(x, p, seq[k])
  BY <1>1 DEF Turn
<1> HIDE DEF turns
<1>5. \A f : IsFold(f, s, turns, n) <=> Is(f)
  <2>1. \A f : \A t \in SUBSET (1..n) : t # {} =>
           Turn(f[t \ {Max(t)}], turns[Max(t)]) = UnmapPage(f[t \ {Max(t)}], p, seq[Max(t)])
    BY <1>3, <1>4
  <2> QED BY <1>1, <2>1 DEF IsFold
<1> HIDE DEF Is
<1>6. unmap_range(s, p, lo, hi) = Loop(s, turns, n)
  BY <1>1, <1>2, <1>5 DEF Loop
<1>7. PICK h : Steps(h, s, turns, n) /\ h[n] = Loop(s, turns, n)
  BY <1>1, LoopSteps
<1>8. h[0] = s /\ \A k \in 1..n : h[k] = UnmapPage(h[k - 1], p, lo + k - 1)
  BY <1>1, <1>4, <1>7 DEF Steps
<1> QED BY <1>6, <1>7, <1>8 DEF n, UnmapRun

(* exit_range goes from directory to directory.                             *)
ExitRangeRun(f, s, p, lo, hi) ==
    /\ f[0] = s
    /\ \A k \in 1..(PDX1(hi - 1) + 1 - PDX1(lo)) : f[k] = ExitDirectory(f[k - 1], p, PDX1(lo) + k - 1, lo, hi)
    /\ exit_range(s, p, lo, hi) = f[PDX1(hi - 1) + 1 - PDX1(lo)]

(* The history of the loop of exit_range over the directories.              *)
LEMMA ExitRangeSteps ==
    ASSUME NEW s, NEW p, NEW lo, NEW hi, PDX1(lo) \in Nat, PDX1(hi - 1) \in Nat,
           PDX1(lo) <= PDX1(hi - 1)
    PROVE  \E f : ExitRangeRun(f, s, p, lo, hi)
<1> DEFINE n == PDX1(hi - 1) + 1 - PDX1(lo)
           seq == Upto(PDX1(lo), PDX1(hi - 1) + 1)
           turns == [k \in 1..n |-> [loop |-> "exit_range", p |-> p, a |-> PDX1(lo) + k - 1, lo |-> lo, hi |-> hi]]
           Is(f) == f = [t \in SUBSET DOMAIN seq |->
                            IF t = {} THEN s ELSE ExitDirectory(f[t \ {Max(t)}], p, seq[Max(t)], lo, hi)]
<1>1. n \in Nat /\ DOMAIN seq = 1..n /\ \A k \in 1..n : seq[k] = PDX1(lo) + k - 1
  BY DEF Upto
<1>2. exit_range(s, p, lo, hi) = (CHOOSE f : Is(f))[DOMAIN seq]
  BY DEF exit_range, FoldLeft, MapThenFoldSet
<1> HIDE DEF seq, n
<1>3. \A t \in SUBSET (1..n) : t # {} => Max(t) \in 1..n
  BY <1>1, MaxIn
<1>4. \A x : \A k \in 1..n : Turn(x, turns[k]) = ExitDirectory(x, p, seq[k], lo, hi)
  BY <1>1 DEF Turn
<1> HIDE DEF turns
<1>5. \A f : IsFold(f, s, turns, n) <=> Is(f)
  <2>1. \A f : \A t \in SUBSET (1..n) : t # {} =>
           Turn(f[t \ {Max(t)}], turns[Max(t)]) = ExitDirectory(f[t \ {Max(t)}], p, seq[Max(t)], lo, hi)
    BY <1>3, <1>4
  <2> QED BY <1>1, <2>1 DEF IsFold
<1> HIDE DEF Is
<1>6. exit_range(s, p, lo, hi) = Loop(s, turns, n)
  BY <1>1, <1>2, <1>5 DEF Loop
<1>7. PICK h : Steps(h, s, turns, n) /\ h[n] = Loop(s, turns, n)
  BY <1>1, LoopSteps
<1>8. h[0] = s /\ \A k \in 1..n : h[k] = ExitDirectory(h[k - 1], p, PDX1(lo) + k - 1, lo, hi)
  BY <1>1, <1>4, <1>7 DEF Steps
<1> QED BY <1>6, <1>7, <1>8 DEF n, ExitRangeRun

(* copy_range goes from page to page.                                       *)
CopyRun(f, s, to, from, lo, hi) ==
    /\ f[0] = s
    /\ \A k \in 1..(hi - lo) : f[k] = CopyPage(f[k - 1], to, from, lo + k - 1)
    /\ copy_range(s, to, from, lo, hi) = f[hi - lo]

(* The history of the loop of copy_range.                                   *)
LEMMA CopySteps ==
    ASSUME NEW s, NEW to, NEW from, NEW lo \in Nat, NEW hi \in Nat, lo <= hi
    PROVE  \E f : CopyRun(f, s, to, from, lo, hi)
<1> DEFINE n == hi - lo
           seq == Upto(lo, hi)
           turns == [k \in 1..n |-> [loop |-> "copy_range", p |-> to, from |-> from, a |-> lo + k - 1]]
           Is(f) == f = [t \in SUBSET DOMAIN seq |->
                            IF t = {} THEN s ELSE CopyPage(f[t \ {Max(t)}], to, from, seq[Max(t)])]
<1>1. n \in Nat /\ DOMAIN seq = 1..n /\ \A k \in 1..n : seq[k] = lo + k - 1
  BY DEF Upto
<1>2. copy_range(s, to, from, lo, hi) = (CHOOSE f : Is(f))[DOMAIN seq]
  BY DEF copy_range, FoldLeft, MapThenFoldSet
<1> HIDE DEF seq, n
<1>3. \A t \in SUBSET (1..n) : t # {} => Max(t) \in 1..n
  BY <1>1, MaxIn
<1>4. \A x : \A k \in 1..n : Turn(x, turns[k]) = CopyPage(x, to, from, seq[k])
  BY <1>1 DEF Turn
<1> HIDE DEF turns
<1>5. \A f : IsFold(f, s, turns, n) <=> Is(f)
  <2>1. \A f : \A t \in SUBSET (1..n) : t # {} =>
           Turn(f[t \ {Max(t)}], turns[Max(t)]) = CopyPage(f[t \ {Max(t)}], to, from, seq[Max(t)])
    BY <1>3, <1>4
  <2> QED BY <1>1, <2>1 DEF IsFold
<1> HIDE DEF Is
<1>6. copy_range(s, to, from, lo, hi) = Loop(s, turns, n)
  BY <1>1, <1>2, <1>5 DEF Loop
<1>7. PICK h : Steps(h, s, turns, n) /\ h[n] = Loop(s, turns, n)
  BY <1>1, LoopSteps
<1>8. h[0] = s /\ \A k \in 1..n : h[k] = CopyPage(h[k - 1], to, from, lo + k - 1)
  BY <1>1, <1>4, <1>7 DEF Steps
<1> QED BY <1>6, <1>7, <1>8 DEF n, CopyRun

(* The two loops of exit_mmap go from area to area.                         *)
UnmapAreasRun(f, s, p, mmap) ==
    /\ f[0] = s
    /\ \A k \in 1..(Len(mmap)) : f[k] = unmap_range(f[k - 1], p, mmap[k].lo, mmap[k].hi)
    /\ UnmapAreas(s, p, mmap) = f[Len(mmap)]

(* The history of the first loop of exit_mmap.                              *)
LEMMA UnmapAreasSteps ==
    ASSUME NEW s, NEW p, NEW A, NEW mmap \in Seq(A)
    PROVE  \E f : UnmapAreasRun(f, s, p, mmap)
<1> DEFINE n == Len(mmap)
           seq == mmap
           turns == [k \in 1..n |-> [loop |-> "unmap", p |-> p, a |-> mmap[k]]]
           Is(f) == f = [t \in SUBSET DOMAIN seq |->
                            IF t = {} THEN s ELSE unmap_range(f[t \ {Max(t)}], p, seq[Max(t)].lo, seq[Max(t)].hi)]
<1>1. n \in Nat /\ DOMAIN seq = 1..n /\ \A k \in 1..n : seq[k] = mmap[k]
  OBVIOUS
<1>2. UnmapAreas(s, p, mmap) = (CHOOSE f : Is(f))[DOMAIN seq]
  BY DEF UnmapAreas, FoldLeft, MapThenFoldSet
<1> HIDE DEF seq, n
<1>3. \A t \in SUBSET (1..n) : t # {} => Max(t) \in 1..n
  BY <1>1, MaxIn
<1>4. \A x : \A k \in 1..n : Turn(x, turns[k]) = unmap_range(x, p, seq[k].lo, seq[k].hi)
  BY <1>1 DEF Turn
<1> HIDE DEF turns
<1>5. \A f : IsFold(f, s, turns, n) <=> Is(f)
  <2>1. \A f : \A t \in SUBSET (1..n) : t # {} =>
           Turn(f[t \ {Max(t)}], turns[Max(t)]) = unmap_range(f[t \ {Max(t)}], p, seq[Max(t)].lo, seq[Max(t)].hi)
    BY <1>3, <1>4
  <2> QED BY <1>1, <2>1 DEF IsFold
<1> HIDE DEF Is
<1>6. UnmapAreas(s, p, mmap) = Loop(s, turns, n)
  BY <1>1, <1>2, <1>5 DEF Loop
<1>7. PICK h : Steps(h, s, turns, n) /\ h[n] = Loop(s, turns, n)
  BY <1>1, LoopSteps
<1>8. h[0] = s /\ \A k \in 1..n : h[k] = unmap_range(h[k - 1], p, mmap[k].lo, mmap[k].hi)
  BY <1>1, <1>4, <1>7 DEF Steps
<1> QED BY <1>6, <1>7, <1>8 DEF n, UnmapAreasRun

(* (the second)                                                             *)
ExitAreasRun(f, s, p, mmap) ==
    /\ f[0] = s
    /\ \A k \in 1..(Len(mmap)) : f[k] = exit_range(f[k - 1], p, mmap[k].lo, mmap[k].hi)
    /\ ExitAreas(s, p, mmap) = f[Len(mmap)]

(* The history of the second loop of exit_mmap.                             *)
LEMMA ExitAreasSteps ==
    ASSUME NEW s, NEW p, NEW A, NEW mmap \in Seq(A)
    PROVE  \E f : ExitAreasRun(f, s, p, mmap)
<1> DEFINE n == Len(mmap)
           seq == mmap
           turns == [k \in 1..n |-> [loop |-> "exit", p |-> p, a |-> mmap[k]]]
           Is(f) == f = [t \in SUBSET DOMAIN seq |->
                            IF t = {} THEN s ELSE exit_range(f[t \ {Max(t)}], p, seq[Max(t)].lo, seq[Max(t)].hi)]
<1>1. n \in Nat /\ DOMAIN seq = 1..n /\ \A k \in 1..n : seq[k] = mmap[k]
  OBVIOUS
<1>2. ExitAreas(s, p, mmap) = (CHOOSE f : Is(f))[DOMAIN seq]
  BY DEF ExitAreas, FoldLeft, MapThenFoldSet
<1> HIDE DEF seq, n
<1>3. \A t \in SUBSET (1..n) : t # {} => Max(t) \in 1..n
  BY <1>1, MaxIn
<1>4. \A x : \A k \in 1..n : Turn(x, turns[k]) = exit_range(x, p, seq[k].lo, seq[k].hi)
  BY <1>1 DEF Turn
<1> HIDE DEF turns
<1>5. \A f : IsFold(f, s, turns, n) <=> Is(f)
  <2>1. \A f : \A t \in SUBSET (1..n) : t # {} =>
           Turn(f[t \ {Max(t)}], turns[Max(t)]) = exit_range(f[t \ {Max(t)}], p, seq[Max(t)].lo, seq[Max(t)].hi)
    BY <1>3, <1>4
  <2> QED BY <1>1, <2>1 DEF IsFold
<1> HIDE DEF Is
<1>6. ExitAreas(s, p, mmap) = Loop(s, turns, n)
  BY <1>1, <1>2, <1>5 DEF Loop
<1>7. PICK h : Steps(h, s, turns, n) /\ h[n] = Loop(s, turns, n)
  BY <1>1, LoopSteps
<1>8. h[0] = s /\ \A k \in 1..n : h[k] = exit_range(h[k - 1], p, mmap[k].lo, mmap[k].hi)
  BY <1>1, <1>4, <1>7 DEF Steps
<1> QED BY <1>6, <1>7, <1>8 DEF n, ExitAreasRun

(* dup_mmap goes from area to area, backwards.                              *)
DupRun(f, s, to, from) ==
    /\ f[0] = s
    /\ \A k \in 1..(Len(s.mm[from].mmap)) : f[k] = CopyArea(f[k - 1], to, from, s.mm[from].mmap[Len(s.mm[from].mmap) - k + 1])
    /\ dup_mmap(s, to, from) = f[Len(s.mm[from].mmap)]

(* The history of the loop of dup_mmap, from the last area to the first.    *)
LEMMA DupSteps ==
    ASSUME NEW s, NEW to, NEW from, NEW A, s.mm[from].mmap \in Seq(A)
    PROVE  \E f : DupRun(f, s, to, from)
<1> DEFINE n == Len(s.mm[from].mmap)
           seq == Reverse(s.mm[from].mmap)
           turns == [k \in 1..n |-> [loop |-> "dup_mmap", p |-> to, from |-> from, a |-> s.mm[from].mmap[Len(s.mm[from].mmap) - k + 1]]]
           Is(f) == f = [t \in SUBSET DOMAIN seq |->
                            IF t = {} THEN s ELSE CopyArea(f[t \ {Max(t)}], to, from, seq[Max(t)])]
<1>1. n \in Nat /\ DOMAIN seq = 1..n /\ \A k \in 1..n : seq[k] = s.mm[from].mmap[Len(s.mm[from].mmap) - k + 1]
  BY DEF Reverse
<1>2. dup_mmap(s, to, from) = (CHOOSE f : Is(f))[DOMAIN seq]
  BY DEF dup_mmap, FoldLeft, MapThenFoldSet
<1> HIDE DEF seq, n
<1>3. \A t \in SUBSET (1..n) : t # {} => Max(t) \in 1..n
  BY <1>1, MaxIn
<1>4. \A x : \A k \in 1..n : Turn(x, turns[k]) = CopyArea(x, to, from, seq[k])
  BY ZenonT(60), <1>1 DEF Turn
<1> HIDE DEF turns
<1>5. \A f : IsFold(f, s, turns, n) <=> Is(f)
  <2>1. \A f : \A t \in SUBSET (1..n) : t # {} =>
           Turn(f[t \ {Max(t)}], turns[Max(t)]) = CopyArea(f[t \ {Max(t)}], to, from, seq[Max(t)])
    BY <1>3, <1>4
  <2> QED BY <1>1, <2>1 DEF IsFold
<1> HIDE DEF Is
<1>6. dup_mmap(s, to, from) = Loop(s, turns, n)
  BY <1>1, <1>2, <1>5 DEF Loop
<1>7. PICK h : Steps(h, s, turns, n) /\ h[n] = Loop(s, turns, n)
  BY <1>1, LoopSteps
<1>8. h[0] = s /\ \A k \in 1..n : h[k] = CopyArea(h[k - 1], to, from, s.mm[from].mmap[Len(s.mm[from].mmap) - k + 1])
  BY <1>1, <1>4, <1>7 DEF Steps
<1> QED BY <1>6, <1>7, <1>8 DEF n, DupRun

(* load_icode goes from page to page of a segment.                          *)
SegmentRun(f, s, p, seg) ==
    /\ f[0] = mm_map(s, p, seg.lo, seg.hi)
    /\ \A k \in 1..(seg.hi - seg.lo) : f[k] = LoadFrom(f[k - 1], p, seg.lo + k - 1, seg)
    /\ LoadSegment(s, p, seg) = f[seg.hi - seg.lo]

(* The history of the loops of load_icode over the pages of a segment.      *)
LEMMA SegmentSteps ==
    ASSUME NEW s, NEW p, NEW seg, seg.lo \in Nat, seg.hi \in Nat, seg.lo <= seg.hi
    PROVE  \E f : SegmentRun(f, s, p, seg)
<1> DEFINE n == seg.hi - seg.lo
           seq == Upto(seg.lo, seg.hi)
           turns == [k \in 1..n |-> [loop |-> "segment", p |-> p, a |-> seg.lo + k - 1, seg |-> seg]]
           Is(f) == f = [t \in SUBSET DOMAIN seq |->
                            IF t = {} THEN mm_map(s, p, seg.lo, seg.hi) ELSE LoadFrom(f[t \ {Max(t)}], p, seq[Max(t)], seg)]
<1>1. n \in Nat /\ DOMAIN seq = 1..n /\ \A k \in 1..n : seq[k] = seg.lo + k - 1
  BY DEF Upto
<1>2. LoadSegment(s, p, seg) = (CHOOSE f : Is(f))[DOMAIN seq]
  BY DEF LoadSegment, FoldLeft, MapThenFoldSet
<1> HIDE DEF seq, n
<1>3. \A t \in SUBSET (1..n) : t # {} => Max(t) \in 1..n
  BY <1>1, MaxIn
<1>4. \A x : \A k \in 1..n : Turn(x, turns[k]) = LoadFrom(x, p, seq[k], seg)
  BY <1>1 DEF Turn
<1> HIDE DEF turns
<1>5. \A f : IsFold(f, mm_map(s, p, seg.lo, seg.hi), turns, n) <=> Is(f)
  <2>1. \A f : \A t \in SUBSET (1..n) : t # {} =>
           Turn(f[t \ {Max(t)}], turns[Max(t)]) = LoadFrom(f[t \ {Max(t)}], p, seq[Max(t)], seg)
    BY <1>3, <1>4
  <2> QED BY <1>1, <2>1 DEF IsFold
<1> HIDE DEF Is
<1>6. LoadSegment(s, p, seg) = Loop(mm_map(s, p, seg.lo, seg.hi), turns, n)
  BY <1>1, <1>2, <1>5 DEF Loop
<1>7. PICK h : Steps(h, mm_map(s, p, seg.lo, seg.hi), turns, n) /\ h[n] = Loop(mm_map(s, p, seg.lo, seg.hi), turns, n)
  BY <1>1, LoopSteps
<1>8. h[0] = mm_map(s, p, seg.lo, seg.hi) /\ \A k \in 1..n : h[k] = LoadFrom(h[k - 1], p, seg.lo + k - 1, seg)
  BY <1>1, <1>4, <1>7 DEF Steps
<1> QED BY <1>6, <1>7, <1>8 DEF n, SegmentRun

(* load_icode goes from segment to segment.                                 *)
LoadRun(f, s, p, prog) ==
    /\ f[0] = s
    /\ \A k \in 1..(Len(prog)) : f[k] = LoadSegment(f[k - 1], p, prog[k])
    /\ LoadSegments(s, p, prog) = f[Len(prog)]

(* The history of the loop of load_icode over the segments.                 *)
LEMMA LoadSteps ==
    ASSUME NEW s, NEW p, NEW A, NEW prog \in Seq(A)
    PROVE  \E f : LoadRun(f, s, p, prog)
<1> DEFINE n == Len(prog)
           seq == prog
           turns == [k \in 1..n |-> [loop |-> "load_icode", p |-> p, a |-> prog[k]]]
           Is(f) == f = [t \in SUBSET DOMAIN seq |->
                            IF t = {} THEN s ELSE LoadSegment(f[t \ {Max(t)}], p, seq[Max(t)])]
<1>1. n \in Nat /\ DOMAIN seq = 1..n /\ \A k \in 1..n : seq[k] = prog[k]
  OBVIOUS
<1>2. LoadSegments(s, p, prog) = (CHOOSE f : Is(f))[DOMAIN seq]
  BY DEF LoadSegments, FoldLeft, MapThenFoldSet
<1> HIDE DEF seq, n
<1>3. \A t \in SUBSET (1..n) : t # {} => Max(t) \in 1..n
  BY <1>1, MaxIn
<1>4. \A x : \A k \in 1..n : Turn(x, turns[k]) = LoadSegment(x, p, seq[k])
  BY <1>1 DEF Turn
<1> HIDE DEF turns
<1>5. \A f : IsFold(f, s, turns, n) <=> Is(f)
  <2>1. \A f : \A t \in SUBSET (1..n) : t # {} =>
           Turn(f[t \ {Max(t)}], turns[Max(t)]) = LoadSegment(f[t \ {Max(t)}], p, seq[Max(t)])
    BY <1>3, <1>4
  <2> QED BY <1>1, <2>1 DEF IsFold
<1> HIDE DEF Is
<1>6. LoadSegments(s, p, prog) = Loop(s, turns, n)
  BY <1>1, <1>2, <1>5 DEF Loop
<1>7. PICK h : Steps(h, s, turns, n) /\ h[n] = Loop(s, turns, n)
  BY <1>1, LoopSteps
<1>8. h[0] = s /\ \A k \in 1..n : h[k] = LoadSegment(h[k - 1], p, prog[k])
  BY <1>1, <1>4, <1>7 DEF Steps
<1> QED BY <1>6, <1>7, <1>8 DEF n, LoadRun

-----------------------------------------------------------------------------
(* Pages, tables and directories.                                           *)

(* What VmAssumption says of the sizes, for the steps that need no more.    *)
LEMMA Sizes ==
    /\ VASize \in Nat \ {0} /\ PTSIZE \in Nat \ {0} /\ PDSIZE \in Nat \ {0}
    /\ USTACKSIZE \in Nat \ {0} /\ USTACKSIZE <= VASize
    /\ NPages \in Nat /\ IsFiniteSet(Procs) /\ 0 \in Values
    /\ PDSIZE % PTSIZE = 0
  BY VmAssumption

(* The quotient grows with the dividend.                                    *)
LEMMA DivMonotone ==
    ASSUME NEW B \in Nat \ {0}, NEW i \in Nat, NEW j \in Nat, i <= j
    PROVE  i \div B <= j \div B
<1> DEFINE k == (i \div B) - (j \div B)
<1>1. /\ i \div B \in Nat /\ i % B \in 0..(B - 1) /\ i = B * (i \div B) + (i % B)
      /\ j \div B \in Nat /\ j % B \in 0..(B - 1) /\ j = B * (j \div B) + (j % B)
  BY DivMod
<1>2. i - j = B * k + (i % B) - (j % B)
  BY <1>1, Factor
<1>3. k \in Int /\ (k >= 1 => B * k >= B)
  BY <1>1, Multiple
<1>4. k >= 1 => i - j > 0
  <2> HIDE DEF k
  <2> QED BY <1>1, <1>2, <1>3
<1> QED BY <1>1, <1>4

(* A quotient is the only one whose multiples enclose the dividend.         *)
LEMMA DivUnique ==
    ASSUME NEW B \in Nat \ {0}, NEW i \in Nat, NEW q \in Nat, B * q <= i, i < B * q + B
    PROVE  i \div B = q
<1> DEFINE k == (i \div B) - q
<1>1. /\ i \div B \in Nat /\ i % B \in 0..(B - 1) /\ i = B * (i \div B) + (i % B)
  BY DivMod
<1>2. B * (i \div B) - B * q = B * k /\ B * q \in Int /\ B * (i \div B) \in Int
  BY <1>1, Factor, Multiple
<1>3. k \in Int /\ (k >= 1 => B * k >= B) /\ (k <= -1 => B * k <= -B)
  BY <1>1, Multiple
<1>4. k < 1 /\ k > -1
  <2> HIDE DEF k
  <2> QED BY <1>1, <1>2, <1>3
<1> QED BY <1>1, <1>4

(* All pages of a table are under one directory.                            *)
LEMMA SameDirectory ==
    ASSUME NEW a \in Addrs, NEW b \in Addrs, PDX0(a) = PDX0(b)
    PROVE  PDX1(a) = PDX1(b)
<1> DEFINE K == PDSIZE \div PTSIZE
<1>1. K \in Nat /\ PDSIZE = PTSIZE * K /\ K # 0
  <2>1. K \in Nat /\ PDSIZE = PTSIZE * K + (PDSIZE % PTSIZE)
    BY Sizes, DivMod
  <2> QED BY <2>1, Sizes
<1>2. ASSUME NEW c \in Nat PROVE c \div PDSIZE = (c \div PTSIZE) \div K
  <2> DEFINE t == c \div PTSIZE
             r == c % PTSIZE
             d == t \div K
             u == t % K
  <2>1. t \in Nat /\ r \in 0..(PTSIZE - 1) /\ c = PTSIZE * t + r
    BY Sizes, DivMod
  <2>2. d \in Nat /\ u \in 0..(K - 1) /\ t = K * d + u
    BY <1>1, <2>1, DivMod
  <2> HIDE DEF t, r, d, u, K
  <2>3. c = PDSIZE * d + PTSIZE * u + r
    <3>1. PTSIZE * (K * d) = (PTSIZE * K) * d /\ PTSIZE * (K * d + u) = PTSIZE * (K * d) + PTSIZE * u
      BY <1>1, <2>2, Sizes
    <3> QED BY <1>1, <2>1, <2>2, <3>1
  <2>4. PTSIZE * u >= 0 /\ PTSIZE * u + PTSIZE <= PDSIZE /\ PTSIZE * u \in Int
    <3>1. PTSIZE * (K - 1 - u) >= 0 /\ PTSIZE * (K - 1 - u) = PTSIZE * K - PTSIZE - PTSIZE * u
      BY <1>1, <2>2, Sizes
    <3>2. PTSIZE * u >= 0 /\ PTSIZE * u \in Int
      BY <2>2, Sizes
    <3> QED BY <1>1, <3>1, <3>2, Sizes
  <2>5. PDSIZE * d \in Int
    BY <2>2, Sizes
  <2>6. PDSIZE * d <= c /\ c < PDSIZE * d + PDSIZE
    BY <2>1, <2>3, <2>4, <2>5, Sizes
  <2>7. c \div PDSIZE = d
    BY <2>2, <2>6, Sizes, DivUnique
  <2> QED BY <2>7 DEF d, t
<1>3. a \in Nat /\ b \in Nat
  BY Sizes DEF Addrs
<1> QED BY <1>2, <1>3 DEF PDX0, PDX1

(* The quotients of a range are those from the first to the last.           *)
LEMMA QuotientsOfRange ==
    ASSUME NEW B \in Nat \ {0}, NEW lo \in Nat, NEW hi \in Nat, lo < hi
    PROVE  /\ \A a \in lo..(hi - 1) : a \div B \in (lo \div B)..((hi - 1) \div B)
           /\ \A t \in (lo \div B)..((hi - 1) \div B) : \E a \in lo..(hi - 1) : a \div B = t
           /\ lo \div B \in Nat /\ (hi - 1) \div B \in Nat /\ lo \div B <= (hi - 1) \div B
<1>1. \A a \in lo..(hi - 1) : a \div B \in Nat
  BY DivMod
<1>2. ASSUME NEW a \in lo..(hi - 1)
      PROVE  lo \div B <= a \div B /\ a \div B <= (hi - 1) \div B
  BY DivMonotone
<1>3. ASSUME NEW t \in (lo \div B)..((hi - 1) \div B)
      PROVE  \E a \in lo..(hi - 1) : a \div B = t
  <2> DEFINE a == B * t
  <2>1. t \in Nat /\ lo \in lo..(hi - 1) /\ hi - 1 \in lo..(hi - 1)
    BY <1>1
  <2>2. a \in Nat
    BY <2>1
  <2>3. a \div B = t
    BY <2>1, <2>2, DivUnique
  <2>4. CASE a < lo
    <3>1. t <= lo \div B
      <4> HIDE DEF a
      <4> QED BY <2>2, <2>3, <2>4, DivMonotone
    <3> QED BY <2>1, <3>1, <1>1
  <2>5. CASE a >= lo
    <3>1. B * ((hi - 1) \div B) <= hi - 1
      <4>1. hi - 1 \in Nat
        OBVIOUS
      <4>2. (hi - 1) \div B \in Nat /\ (hi - 1) % B \in 0..(B - 1)
            /\ hi - 1 = B * ((hi - 1) \div B) + ((hi - 1) % B)
        BY <4>1, DivMod
      <4>3. B * ((hi - 1) \div B) \in Int
        BY <4>2, Multiple
      <4> QED BY <4>1, <4>2, <4>3
    <3>2. a <= B * ((hi - 1) \div B)
      <4> DEFINE e == (hi - 1) \div B
      <4>1. e \in Nat /\ t <= e
        BY <2>1, <1>1
      <4> HIDE DEF e
      <4>2. B * (e - t) = B * e - B * t /\ B * (e - t) >= 0
        BY <2>1, <4>1
      <4>3. B * e \in Int /\ B * t \in Int
        BY <2>1, <4>1
      <4>4. B * t <= B * e
        BY <4>2, <4>3
      <4> QED BY <4>4 DEF e
    <3>3. B * ((hi - 1) \div B) \in Int
      BY <2>1, <1>1, Multiple
    <3>4. a \in lo..(hi - 1)
      <4> HIDE DEF a
      <4> QED BY <2>2, <2>5, <3>1, <3>2, <3>3
    <3> QED BY <2>3, <3>4
  <2> HIDE DEF a
  <2> QED BY <2>2, <2>4, <2>5
<1>4. lo \in lo..(hi - 1) /\ hi - 1 \in lo..(hi - 1)
  OBVIOUS
<1> QED BY <1>1, <1>2, <1>3, <1>4

(* The tables and the directories of a range of pages.                      *)
LEMMA TablesOfRange ==
    ASSUME NEW lo \in Nat, NEW hi \in Nat, lo < hi
    PROVE  /\ \A a \in lo..(hi - 1) : PDX0(a) \in PDX0(lo)..PDX0(hi - 1) /\ PDX1(a) \in PDX1(lo)..PDX1(hi - 1)
           /\ \A t \in PDX0(lo)..PDX0(hi - 1) : \E a \in lo..(hi - 1) : PDX0(a) = t
           /\ \A d \in PDX1(lo)..PDX1(hi - 1) : \E a \in lo..(hi - 1) : PDX1(a) = d
           /\ PDX1(lo) \in Nat /\ PDX1(hi - 1) \in Nat /\ PDX1(lo) <= PDX1(hi - 1)
<1>1. /\ \A a \in lo..(hi - 1) : PDX0(a) \in PDX0(lo)..PDX0(hi - 1)
      /\ \A t \in PDX0(lo)..PDX0(hi - 1) : \E a \in lo..(hi - 1) : PDX0(a) = t
  <2>1. PTSIZE \in Nat \ {0}
    BY Sizes
  <2> QED BY <2>1, QuotientsOfRange DEF PDX0
<1>2. /\ \A a \in lo..(hi - 1) : PDX1(a) \in PDX1(lo)..PDX1(hi - 1)
      /\ \A d \in PDX1(lo)..PDX1(hi - 1) : \E a \in lo..(hi - 1) : PDX1(a) = d
      /\ PDX1(lo) \in Nat /\ PDX1(hi - 1) \in Nat /\ PDX1(lo) <= PDX1(hi - 1)
  <2>1. PDSIZE \in Nat \ {0}
    BY Sizes
  <2> QED BY <2>1, QuotientsOfRange DEF PDX1
<1> QED BY <1>1, <1>2

-----------------------------------------------------------------------------
(* States of the memory, as they come out of every function of pmm.c.       *)

Entry == [page : Frames \cup {NULL}, w : BOOLEAN, cow : BOOLEAN]
Area == {area \in [lo : Addrs, hi : 1..VASize] : area.lo < area.hi}
Mm == [pgdir : BOOLEAN, dirs : SUBSET DirNumbers, tables : SUBSET TableNumbers,
       pte : [Addrs -> Entry], mmap : Seq(Area)]
State == [nfree : Nat, free : SUBSET Frames, ref : [Frames -> Nat], data : [Frames -> Values],
          mm : [Procs -> Mm], ok : BOOLEAN, short : BOOLEAN, stopped : BOOLEAN]

PageAt(s, p, a) == s.mm[p].pte[a].page

(* What process p reads at a.                                               *)
See(s, p, a) == IF PageAt(s, p, a) = NULL THEN UNMAPPED ELSE s.data[PageAt(s, p, a)]

(* There are finitely many pages, tables and directories.                   *)
LEMMA NumbersFinite == IsFiniteSet(DirNumbers) /\ IsFiniteSet(TableNumbers) /\ IsFiniteSet(Addrs)
<1> DEFINE top == VASize - 1
<1>1. ASSUME NEW B \in Nat \ {0}
      PROVE  /\ top \div B \in Nat
             /\ \A a \in Addrs : a \div B \in 0..(top \div B)
  <2>1. top \in Nat /\ \A a \in Addrs : a \in Nat /\ a <= top
    BY Sizes DEF Addrs
  <2> HIDE DEF top
  <2>2. top \div B \in Nat
    BY <2>1, DivMod
  <2>3. ASSUME NEW a \in Addrs PROVE a \div B \in 0..(top \div B)
    <3>1. a \div B \in Nat /\ a \div B <= top \div B
      BY <2>1, DivMod, DivMonotone
    <3> QED BY <2>2, <3>1
  <2> QED BY <2>2, <2>3
<1> HIDE DEF top
<1>2. DirNumbers \in SUBSET (0..(top \div PDSIZE)) /\ top \div PDSIZE \in Nat
  BY <1>1, Sizes DEF DirNumbers, PDX1
<1>3. TableNumbers \in SUBSET (0..(top \div PTSIZE)) /\ top \div PTSIZE \in Nat
  BY <1>1, Sizes DEF TableNumbers, PDX0
<1>4. \A k \in Nat : IsFiniteSet(0..k)
  BY FS_Interval
<1>5. IsFiniteSet(Addrs)
  BY Sizes, FS_Interval DEF Addrs
<1> QED BY <1>2, <1>3, <1>4, <1>5, FS_Subset

(* The sets whose sizes are compared.                                       *)
LEMMA CountsAre ==
    ASSUME NEW s
    PROVE  /\ IsFiniteSet(Frames \ s.free) /\ Cardinality(Frames \ s.free) \in Nat
           /\ IsFiniteSet(Roots(s)) /\ Cardinality(Roots(s)) \in Nat
           /\ IsFiniteSet(Directories(s)) /\ Cardinality(Directories(s)) \in Nat
           /\ IsFiniteSet(PageTables(s)) /\ Cardinality(PageTables(s)) \in Nat
           /\ \A page : IsFiniteSet(MappingsIn(s, page)) /\ Cardinality(MappingsIn(s, page)) \in Nat
<1>1. IsFiniteSet(Frames) /\ IsFiniteSet(Procs)
  BY Sizes, FS_Interval DEF Frames
<1>2. /\ IsFiniteSet(Procs \X DirNumbers) /\ IsFiniteSet(Procs \X TableNumbers)
      /\ IsFiniteSet(Procs \X Addrs)
  BY <1>1, NumbersFinite, FS_Product
<1>3. /\ Frames \ s.free \in SUBSET Frames /\ Roots(s) \in SUBSET Procs
      /\ Directories(s) \in SUBSET (Procs \X DirNumbers)
      /\ PageTables(s) \in SUBSET (Procs \X TableNumbers)
      /\ \A page : MappingsIn(s, page) \in SUBSET (Procs \X Addrs)
  BY DEF Roots, Directories, PageTables, MappingsIn
<1>4. /\ IsFiniteSet(Frames \ s.free) /\ IsFiniteSet(Roots(s)) /\ IsFiniteSet(Directories(s))
      /\ IsFiniteSet(PageTables(s)) /\ \A page : IsFiniteSet(MappingsIn(s, page))
  BY <1>1, <1>2, <1>3, FS_Subset
<1> QED BY <1>4, FS_CardinalityType

(* A frame that is taken for a table, or given back from one, is not lost.  *)
LEMMA LostTerms ==
    ASSUME NEW s \in State, NEW t \in State, NEW k \in Int, t.nfree = s.nfree - k, t.free = s.free,
           \/ /\ Cardinality(Roots(t)) = Cardinality(Roots(s)) + k
              /\ Directories(t) = Directories(s) /\ PageTables(t) = PageTables(s)
           \/ /\ Cardinality(Directories(t)) = Cardinality(Directories(s)) + k
              /\ Roots(t) = Roots(s) /\ PageTables(t) = PageTables(s)
           \/ /\ Cardinality(PageTables(t)) = Cardinality(PageTables(s)) + k
              /\ Directories(t) = Directories(s) /\ Roots(t) = Roots(s)
    PROVE  LostIn(t) = LostIn(s)
<1>1. s.nfree \in Nat /\ NPages \in Nat
  BY Sizes DEF State
<1>2. PICK f \in Nat, r \in Nat, d \in Nat, n \in Nat :
         /\ f = Cardinality(Frames \ s.free) /\ r = Cardinality(Roots(s))
         /\ d = Cardinality(Directories(s)) /\ n = Cardinality(PageTables(s))
  BY CountsAre
<1>3. LostIn(s) = NPages - s.nfree - f - r - d - n
  BY <1>2 DEF LostIn
<1>4. \/ LostIn(t) = NPages - (s.nfree - k) - f - (r + k) - d - n
      \/ LostIn(t) = NPages - (s.nfree - k) - f - r - (d + k) - n
      \/ LostIn(t) = NPages - (s.nfree - k) - f - r - d - (n + k)
  BY <1>2 DEF LostIn
<1> QED BY <1>1, <1>2, <1>3, <1>4

(* alloc_page, as get_pte and setup_pgdir use it.                           *)
LEMMA TakeFrameIs ==
    ASSUME NEW s \in State, NEW t, t = TakeFrame(s)
    PROVE  /\ t \in State /\ t.mm = s.mm /\ t.free = s.free /\ t.ref = s.ref /\ t.data = s.data
           /\ (t.stopped <=> s.stopped)
           /\ s.nfree = 0 => t.nfree = 0 /\ ~t.ok /\ t.short
           /\ s.nfree # 0 => t.nfree = s.nfree - 1 /\ (t.ok <=> s.ok) /\ (t.short <=> s.short)
<1>1. CASE s.nfree = 0
  <2>1. t = [s EXCEPT !.ok = FALSE, !.short = TRUE]
    BY <1>1 DEF TakeFrame
  <2> QED BY <1>1, <2>1 DEF State
<1>2. CASE s.nfree # 0
  <2>1. t = [s EXCEPT !.nfree = @ - 1]
    BY <1>2 DEF TakeFrame
  <2>2. s.nfree - 1 \in Nat
    BY <1>2 DEF State
  <2> QED BY <1>2, <2>1, <2>2 DEF State
<1> QED BY <1>1, <1>2

(* Only what hangs below the page directory of p changes.                   *)
OnlyTables(s, t, p) ==
    /\ t.free = s.free /\ t.ref = s.ref /\ t.data = s.data /\ (t.stopped <=> s.stopped)
    /\ \A q \in Procs \ {p} : t.mm[q] = s.mm[q]
    /\ (t.mm[p].pgdir <=> s.mm[p].pgdir) /\ t.mm[p].pte = s.mm[p].pte /\ t.mm[p].mmap = s.mm[p].mmap

(* A frame is taken for one thing, or none is left.                         *)
LEMMA MakeDirectoryIs ==
    ASSUME NEW s \in State, s.ok, NEW p \in Procs, NEW d \in DirNumbers, NEW t, t = MakeDirectory(s, p, d)
    PROVE  /\ t \in State /\ OnlyTables(s, t, p) /\ t.mm[p].tables = s.mm[p].tables
           /\ s.mm[p].dirs \subseteq t.mm[p].dirs
           /\ t.ok => t.mm[p].dirs = s.mm[p].dirs \cup {d} /\ (t.short <=> s.short)
           /\ ~t.ok => t.short /\ t.mm[p].dirs = s.mm[p].dirs
           /\ LostIn(t) = LostIn(s)
<1> DEFINE taken == TakeFrame(s)
<1>1. /\ taken \in State /\ taken.mm = s.mm /\ taken.free = s.free /\ taken.ref = s.ref /\ taken.data = s.data
      /\ (taken.stopped <=> s.stopped)
      /\ s.nfree = 0 => taken.nfree = 0 /\ ~taken.ok /\ taken.short
      /\ s.nfree # 0 => taken.nfree = s.nfree - 1 /\ (taken.ok <=> s.ok) /\ (taken.short <=> s.short)
  BY TakeFrameIs
<1> HIDE DEF taken
<1>2. t = IF d \in s.mm[p].dirs THEN s
          ELSE IF taken.ok THEN [taken EXCEPT !.mm[p].dirs = @ \cup {d}]
          ELSE taken
  BY DEF MakeDirectory, taken
<1>3. CASE d \in s.mm[p].dirs
  BY <1>2, <1>3 DEF OnlyTables
<1>4. CASE d \notin s.mm[p].dirs /\ ~taken.ok
  <2>1. t = taken /\ s.nfree = 0
    BY <1>1, <1>2, <1>4
  <2>2. LostIn(t) = LostIn(s)
    BY <1>1, <2>1 DEF LostIn, Roots, Directories, PageTables
  <2> QED BY <1>1, <1>4, <2>1, <2>2 DEF OnlyTables
<1>5. CASE d \notin s.mm[p].dirs /\ taken.ok
  <2>1. t = [taken EXCEPT !.mm[p].dirs = @ \cup {d}] /\ s.nfree # 0
    BY <1>1, <1>2, <1>5
  <2>2. /\ t \in State /\ t.nfree = s.nfree - 1 /\ t.ok /\ (t.short <=> s.short)
        /\ t.free = s.free /\ t.ref = s.ref /\ t.data = s.data /\ (t.stopped <=> s.stopped)
        /\ \A q \in Procs \ {p} : t.mm[q] = s.mm[q]
        /\ (t.mm[p].pgdir <=> s.mm[p].pgdir) /\ t.mm[p].pte = s.mm[p].pte /\ t.mm[p].mmap = s.mm[p].mmap
        /\ t.mm[p].tables = s.mm[p].tables /\ t.mm[p].dirs = s.mm[p].dirs \cup {d}
    <3> DEFINE old == s.mm[p]
               new == [old EXCEPT !.dirs = @ \cup {d}]
    <3>1. s.mm \in [Procs -> Mm] /\ old \in Mm
      BY DEF State
    <3>2. /\ new \in Mm /\ (new.pgdir <=> old.pgdir) /\ new.pte = old.pte /\ new.mmap = old.mmap
          /\ new.tables = old.tables /\ new.dirs = old.dirs \cup {d}
      BY <3>1 DEF Mm
    <3>3. t = [taken EXCEPT !.mm = [s.mm EXCEPT ![p] = new]]
      BY <1>1, <2>1
    <3> HIDE DEF old, new
    <3>4. [s.mm EXCEPT ![p] = new] \in [Procs -> Mm] /\ [s.mm EXCEPT ![p] = new][p] = new
          /\ \A q \in Procs \ {p} : [s.mm EXCEPT ![p] = new][q] = s.mm[q]
      BY <3>1, <3>2
    <3>5. t \in State /\ t.mm = [s.mm EXCEPT ![p] = new] /\ t.nfree = taken.nfree /\ (t.ok <=> taken.ok)
          /\ (t.short <=> taken.short) /\ t.free = s.free /\ t.ref = s.ref /\ t.data = s.data /\ (t.stopped <=> s.stopped)
      BY <1>1, <3>3, <3>4 DEF State
    <3> QED BY <1>1, <1>5, <2>1, <3>2, <3>4, <3>5 DEF old
  <2>3. Roots(t) = Roots(s)
    BY <2>2 DEF Roots
  <2>4. PageTables(t) = PageTables(s)
    BY <2>2 DEF PageTables
  <2>5. Directories(t) = Directories(s) \cup {<<p, d>>} /\ <<p, d>> \notin Directories(s)
    BY <1>5, <2>2 DEF Directories
  <2>6. Cardinality(Directories(t)) = Cardinality(Directories(s)) + 1
    BY <2>5, CountsAre, FS_AddElement
  <2>7. LostIn(t) = LostIn(s)
    BY <2>2, <2>3, <2>4, <2>6, LostTerms
  <2> QED BY <2>2, <2>7 DEF OnlyTables
<1> QED BY <1>3, <1>4, <1>5

(* The second half of get_pte: the table is there, or the frames have run   *)
(* out, or the first half had failed.                                       *)
LEMMA MakeTableIs ==
    ASSUME NEW s \in State, NEW p \in Procs, NEW n \in TableNumbers, NEW t, t = MakeTable(s, p, n)
    PROVE  /\ t \in State /\ OnlyTables(s, t, p) /\ t.mm[p].dirs = s.mm[p].dirs
           /\ s.mm[p].tables \subseteq t.mm[p].tables
           /\ t.ok => s.ok /\ t.mm[p].tables = s.mm[p].tables \cup {n} /\ (t.short <=> s.short)
           /\ ~t.ok => (s.short \/ s.ok => t.short) /\ t.mm[p].tables = s.mm[p].tables
           /\ LostIn(t) = LostIn(s)
<1> DEFINE taken == TakeFrame(s)
<1>1. /\ taken \in State /\ taken.mm = s.mm /\ taken.free = s.free /\ taken.ref = s.ref /\ taken.data = s.data
      /\ (taken.stopped <=> s.stopped)
      /\ s.nfree = 0 => taken.nfree = 0 /\ ~taken.ok /\ taken.short
      /\ s.nfree # 0 => taken.nfree = s.nfree - 1 /\ (taken.ok <=> s.ok) /\ (taken.short <=> s.short)
  BY TakeFrameIs
<1> HIDE DEF taken
<1>2. t = IF ~s.ok \/ n \in s.mm[p].tables THEN s
          ELSE IF taken.ok THEN [taken EXCEPT !.mm[p].tables = @ \cup {n}]
          ELSE taken
  BY DEF MakeTable, taken
<1>3. CASE ~s.ok \/ n \in s.mm[p].tables
  <2>1. t = s
    BY <1>2, <1>3
  <2>2. t.mm[p].tables = s.mm[p].tables /\ (t.ok => n \in s.mm[p].tables)
    BY <1>3, <2>1
  <2> QED BY <2>1, <2>2 DEF OnlyTables
<1>4. CASE s.ok /\ n \notin s.mm[p].tables /\ ~taken.ok
  <2>1. t = taken /\ s.nfree = 0
    BY <1>1, <1>2, <1>4
  <2>2. LostIn(t) = LostIn(s)
    BY <1>1, <2>1 DEF LostIn, Roots, Directories, PageTables
  <2> QED BY <1>1, <1>4, <2>1, <2>2 DEF OnlyTables
<1>5. CASE s.ok /\ n \notin s.mm[p].tables /\ taken.ok
  <2>1. t = [taken EXCEPT !.mm[p].tables = @ \cup {n}] /\ s.nfree # 0
    BY <1>1, <1>2, <1>5
  <2>2. /\ t \in State /\ t.nfree = s.nfree - 1 /\ t.ok /\ (t.short <=> s.short)
        /\ t.free = s.free /\ t.ref = s.ref /\ t.data = s.data /\ (t.stopped <=> s.stopped)
        /\ \A q \in Procs \ {p} : t.mm[q] = s.mm[q]
        /\ (t.mm[p].pgdir <=> s.mm[p].pgdir) /\ t.mm[p].pte = s.mm[p].pte /\ t.mm[p].mmap = s.mm[p].mmap
        /\ t.mm[p].dirs = s.mm[p].dirs /\ t.mm[p].tables = s.mm[p].tables \cup {n}
    <3> DEFINE old == s.mm[p]
               new == [old EXCEPT !.tables = @ \cup {n}]
    <3>1. s.mm \in [Procs -> Mm] /\ old \in Mm
      BY DEF State
    <3>2. /\ new \in Mm /\ (new.pgdir <=> old.pgdir) /\ new.pte = old.pte /\ new.mmap = old.mmap
          /\ new.dirs = old.dirs /\ new.tables = old.tables \cup {n}
      BY <3>1 DEF Mm
    <3>3. t = [taken EXCEPT !.mm = [s.mm EXCEPT ![p] = new]]
      BY <1>1, <2>1
    <3> HIDE DEF old, new
    <3>4. [s.mm EXCEPT ![p] = new] \in [Procs -> Mm] /\ [s.mm EXCEPT ![p] = new][p] = new
          /\ \A q \in Procs \ {p} : [s.mm EXCEPT ![p] = new][q] = s.mm[q]
      BY <3>1, <3>2
    <3>5. t \in State /\ t.mm = [s.mm EXCEPT ![p] = new] /\ t.nfree = taken.nfree /\ (t.ok <=> taken.ok)
          /\ (t.short <=> taken.short) /\ t.free = s.free /\ t.ref = s.ref /\ t.data = s.data /\ (t.stopped <=> s.stopped)
      BY <1>1, <3>3, <3>4 DEF State
    <3> QED BY <1>1, <1>5, <2>1, <3>2, <3>4, <3>5 DEF old
  <2>3. Roots(t) = Roots(s)
    BY <2>2 DEF Roots
  <2>4. Directories(t) = Directories(s)
    BY <2>2 DEF Directories
  <2>5. PageTables(t) = PageTables(s) \cup {<<p, n>>} /\ <<p, n>> \notin PageTables(s)
    BY <1>5, <2>2 DEF PageTables
  <2>6. Cardinality(PageTables(t)) = Cardinality(PageTables(s)) + 1
    BY <2>5, CountsAre, FS_AddElement
  <2>7. LostIn(t) = LostIn(s)
    BY <2>2, <2>3, <2>4, <2>6, LostTerms
  <2> QED BY <1>5, <2>2, <2>7 DEF OnlyTables
<1> QED BY <1>3, <1>4, <1>5

(* get_pte adds a directory and a table, or fails for want of frames,       *)
(* perhaps with the directory in place; it loses nothing.                   *)
LEMMA GetPteIs ==
    ASSUME NEW s \in State, s.ok, NEW p \in Procs, NEW a \in Addrs, NEW t, t = get_pte(s, p, a)
    PROVE  /\ t \in State /\ OnlyTables(s, t, p) /\ LostIn(t) = LostIn(s)
           /\ s.mm[p].dirs \subseteq t.mm[p].dirs /\ s.mm[p].tables \subseteq t.mm[p].tables
           /\ t.ok => /\ (t.short <=> s.short)
                      /\ t.mm[p].dirs = s.mm[p].dirs \cup {PDX1(a)}
                      /\ t.mm[p].tables = s.mm[p].tables \cup {PDX0(a)}
           /\ ~t.ok => t.short /\ t.mm[p].tables = s.mm[p].tables
<1> DEFINE u == MakeDirectory(s, p, PDX1(a))
<1>1. PDX1(a) \in DirNumbers /\ PDX0(a) \in TableNumbers
  BY DEF DirNumbers, TableNumbers
<1>2. /\ u \in State /\ OnlyTables(s, u, p) /\ u.mm[p].tables = s.mm[p].tables
      /\ s.mm[p].dirs \subseteq u.mm[p].dirs
      /\ u.ok => u.mm[p].dirs = s.mm[p].dirs \cup {PDX1(a)} /\ (u.short <=> s.short)
      /\ ~u.ok => u.short /\ u.mm[p].dirs = s.mm[p].dirs
      /\ LostIn(u) = LostIn(s)
  BY <1>1, MakeDirectoryIs
<1>3. t = MakeTable(u, p, PDX0(a))
  BY DEF get_pte
<1> HIDE DEF u
<1>4. /\ t \in State /\ OnlyTables(u, t, p) /\ t.mm[p].dirs = u.mm[p].dirs
      /\ u.mm[p].tables \subseteq t.mm[p].tables
      /\ t.ok => u.ok /\ t.mm[p].tables = u.mm[p].tables \cup {PDX0(a)} /\ (t.short <=> u.short)
      /\ ~t.ok => (u.short \/ u.ok => t.short) /\ t.mm[p].tables = u.mm[p].tables
      /\ LostIn(t) = LostIn(u)
  BY <1>1, <1>2, <1>3, MakeTableIs
<1>5. OnlyTables(s, t, p)
  BY <1>2, <1>4 DEF OnlyTables
<1> QED BY <1>2, <1>4, <1>5

-----------------------------------------------------------------------------
(* What is true of the memory between any two steps of a call.  x is the    *)
(* page the call has taken and not mapped yet, or NULL.                     *)

Counted(s) == \A page \in Frames : s.ref[page] = Cardinality(MappingsIn(s, page))
FreeIs(s, x) == s.free = {page \in Frames : s.ref[page] = 0} \ {x}

(* A page that may be written has one entry.                                *)
Owned(s) ==
    \A p \in Procs : \A a \in Addrs :
        s.mm[p].pte[a].w => ~s.mm[p].pte[a].cow /\ PageAt(s, p, a) # NULL /\ s.ref[PageAt(s, p, a)] = 1
Clean(s) == \A p \in Procs : \A a \in Addrs : PageAt(s, p, a) = NULL => s.mm[p].pte[a] = NoEntry

(* A frame is mapped at the same address wherever it is.                    *)
OneAddress(s) ==
    \A p, q \in Procs : \A a, b \in Addrs :
        PageAt(s, p, a) = PageAt(s, q, b) /\ PageAt(s, p, a) # NULL => a = b

FramesOk(s, x) == Counted(s) /\ FreeIs(s, x) /\ Owned(s) /\ Clean(s) /\ OneAddress(s)

InArea(s, p, a) == find_vma(s, p, a) # {}
Mapped(s) ==
    \A p \in Procs : \A a \in Addrs :
        PageAt(s, p, a) # NULL => InArea(s, p, a) /\ PDX0(a) \in s.mm[p].tables
Hang(s) == \A p \in Procs : \A a \in Addrs : PDX0(a) \in s.mm[p].tables => PDX1(a) \in s.mm[p].dirs
RisingAreas(mmap) == \A i, j \in DOMAIN mmap : i < j => mmap[i].hi <= mmap[j].lo
Rising(s) == \A p \in Procs : RisingAreas(s.mm[p].mmap)
Rooted(s) == \A p \in Procs : ~s.mm[p].pgdir => s.mm[p] = NoMm
PlacesOk(s) == Mapped(s) /\ Hang(s) /\ Rising(s) /\ Rooted(s)

InHand(s, x) == x # NULL => x \in Frames /\ s.ref[x] = 0
Sound(s, x) == s \in State /\ LostIn(s) >= 0 /\ InHand(s, x) /\ FramesOk(s, x) /\ PlacesOk(s)

(* Every directory has a table and every table a page of an area, until an  *)
(* allocation fails.                                                        *)
Snug(s, p) ==
    /\ \A d \in s.mm[p].dirs : \E a \in Addrs : PDX1(a) = d /\ PDX0(a) \in s.mm[p].tables
    /\ \A n \in s.mm[p].tables : \E a \in Addrs : PDX0(a) = n /\ InArea(s, p, a)
Tight(s, p) == s.short \/ Snug(s, p)

(* What a call for p leaves to the others: all but the bits of an entry.    *)
Apart(s, t, p) ==
    \A q \in Procs \ {p} :
        /\ (t.mm[q].pgdir <=> s.mm[q].pgdir) /\ t.mm[q].dirs = s.mm[q].dirs
        /\ t.mm[q].tables = s.mm[q].tables /\ t.mm[q].mmap = s.mm[q].mmap
        /\ \A a \in Addrs : PageAt(t, q, a) = PageAt(s, q, a) /\ See(t, q, a) = See(s, q, a)

(* And what it does to the frames as a whole.                               *)
Keeps(s, t, p) ==
    /\ Apart(s, t, p)
    /\ LostIn(t) = LostIn(s)
    /\ (t.mm[p].pgdir <=> s.mm[p].pgdir)
    /\ s.short => t.short
    /\ Tight(s, p) => Tight(t, p)

(* What two calls for p leave to the others, both together do.              *)
LEMMA ApartTransitive ==
    ASSUME NEW s, NEW t, NEW u, NEW p, Apart(s, t, p), Apart(t, u, p)
    PROVE  Apart(s, u, p)
BY DEF Apart

(* The same of the frames as a whole.                                       *)
LEMMA KeepsTransitive ==
    ASSUME NEW s, NEW t, NEW u, NEW p, Keeps(s, t, p), Keeps(t, u, p)
    PROVE  Keeps(s, u, p)
<1>1. Apart(s, u, p)
  BY ApartTransitive DEF Keeps
<1> QED BY <1>1 DEF Keeps

(* The frames depend on the entries only.                                   *)
LEMMA FramesSame ==
    ASSUME NEW s, NEW t, NEW x, FramesOk(s, x), t.ref = s.ref, t.free = s.free,
           \A q \in Procs : t.mm[q].pte = s.mm[q].pte
    PROVE  FramesOk(t, x)
<1>1. \A q \in Procs : \A a \in Addrs : PageAt(t, q, a) = PageAt(s, q, a)
  BY DEF PageAt
<1>2. \A page : MappingsIn(t, page) = MappingsIn(s, page)
  BY DEF MappingsIn
<1>3. Counted(t) /\ FreeIs(t, x)
  BY <1>2 DEF FramesOk, Counted, FreeIs
<1>4. Owned(t)
  BY <1>1 DEF FramesOk, Owned
<1>5. Clean(t)
  BY <1>1 DEF FramesOk, Clean
<1>6. OneAddress(t)
  BY <1>1 DEF FramesOk, OneAddress
<1> QED BY <1>3, <1>4, <1>5, <1>6 DEF FramesOk

(* get_pte for a page of an area keeps the memory right, with a page in     *)
(* hand or without; where the table is there it does nothing.               *)
LEMMA GetPteSound ==
    ASSUME NEW x, NEW s, Sound(s, x), s.ok, NEW p \in Procs, s.mm[p].pgdir, NEW a \in Addrs, InArea(s, p, a),
           NEW t, t = get_pte(s, p, a)
    PROVE  /\ Sound(t, x) /\ Keeps(s, t, p) /\ OnlyTables(s, t, p)
           /\ t.ok => PDX0(a) \in t.mm[p].tables /\ (t.short <=> s.short)
           /\ ~t.ok => t.short
           /\ PDX0(a) \in s.mm[p].tables => t = s
<1>1. s \in State
  BY DEF Sound
<1>2. /\ t \in State /\ OnlyTables(s, t, p) /\ LostIn(t) = LostIn(s)
      /\ s.mm[p].dirs \subseteq t.mm[p].dirs /\ s.mm[p].tables \subseteq t.mm[p].tables
      /\ t.ok => /\ (t.short <=> s.short)
                 /\ t.mm[p].dirs = s.mm[p].dirs \cup {PDX1(a)}
                 /\ t.mm[p].tables = s.mm[p].tables \cup {PDX0(a)}
      /\ ~t.ok => t.short /\ t.mm[p].tables = s.mm[p].tables
  BY <1>1, GetPteIs
<1>3. /\ t.ref = s.ref /\ t.free = s.free /\ t.data = s.data
      /\ \A q \in Procs : t.mm[q].pte = s.mm[q].pte /\ t.mm[q].mmap = s.mm[q].mmap
                          /\ (t.mm[q].pgdir <=> s.mm[q].pgdir)
      /\ \A q \in Procs \ {p} : t.mm[q] = s.mm[q]
  BY <1>2 DEF OnlyTables
<1>4. FramesOk(t, x) /\ InHand(t, x)
  BY <1>3, FramesSame DEF Sound, InHand
<1>5. \A q \in Procs : \A b \in Addrs : PageAt(t, q, b) = PageAt(s, q, b) /\ (InArea(t, q, b) <=> InArea(s, q, b))
  BY <1>3 DEF PageAt, InArea, find_vma
<1>6. Mapped(t)
  <2>1. \A q \in Procs : s.mm[q].tables \subseteq t.mm[q].tables
    BY <1>2, <1>3
  <2> QED BY <1>5, <2>1 DEF Sound, PlacesOk, Mapped
<1>7. Hang(t)
  <2> SUFFICES ASSUME NEW q \in Procs, NEW b \in Addrs, PDX0(b) \in t.mm[q].tables
               PROVE  PDX1(b) \in t.mm[q].dirs
    BY DEF Hang
  <2>1. CASE q # p \/ PDX0(b) \in s.mm[q].tables
    BY <1>2, <1>3, <2>1 DEF Sound, PlacesOk, Hang
  <2>2. CASE q = p /\ PDX0(b) \notin s.mm[q].tables
    <3>1. t.ok /\ PDX0(b) = PDX0(a)
      BY <1>2, <2>2
    <3> QED BY <1>2, <2>2, <3>1, SameDirectory
  <2> QED BY <2>1, <2>2
<1>8. Rising(t)
  BY <1>3 DEF Sound, PlacesOk, Rising
<1>9. Rooted(t)
  BY <1>3 DEF Sound, PlacesOk, Rooted
<1>10. Apart(s, t, p)
  BY <1>3, <1>5 DEF Apart, See
<1>11. Tight(s, p) => Tight(t, p)
  <2> SUFFICES ASSUME Snug(s, p), t.ok PROVE Snug(t, p)
    BY <1>2 DEF Tight
  <2>1. ASSUME NEW d \in t.mm[p].dirs PROVE \E b \in Addrs : PDX1(b) = d /\ PDX0(b) \in t.mm[p].tables
    BY <1>2 DEF Snug
  <2>2. ASSUME NEW n \in t.mm[p].tables PROVE \E b \in Addrs : PDX0(b) = n /\ InArea(t, p, b)
    <3>1. CASE n = PDX0(a)
      BY <1>5, <3>1
    <3>2. CASE n \in s.mm[p].tables
      BY <1>5, <3>2 DEF Snug
    <3> QED BY <1>2, <3>1, <3>2
  <2> QED BY <2>1, <2>2 DEF Snug
<1>12. Keeps(s, t, p)
  BY <1>2, <1>3, <1>10, <1>11 DEF Keeps
<1>13. Sound(t, x)
  BY <1>2, <1>4, <1>6, <1>7, <1>8, <1>9 DEF Sound, PlacesOk
<1>14. PDX0(a) \in s.mm[p].tables => t = s
  <2>1. PDX0(a) \in s.mm[p].tables => PDX1(a) \in s.mm[p].dirs
    BY DEF Sound, PlacesOk, Hang
  <2> QED BY <2>1 DEF get_pte, MakeDirectory, MakeTable
<1> QED BY <1>2, <1>12, <1>13, <1>14

-----------------------------------------------------------------------------
(* Frames of user pages.                                                    *)

(* The least of some numbers is one of them.                                *)
LEMMA MinIn ==
    ASSUME NEW S, S \subseteq Nat, S # {}
    PROVE  Min(S) \in S /\ \A k \in S : Min(S) <= k
<1>1. \E k \in S : \A i \in S : k <= i
  BY LeastNat
<1> QED BY <1>1 DEF Min

(* A frame that is taken for a user page, or given back from one, is not    *)
(* lost.                                                                    *)
LEMMA LostFrames ==
    ASSUME NEW s \in State, NEW t \in State, NEW k \in Int, t.nfree = s.nfree - k,
           Cardinality(Frames \ t.free) = Cardinality(Frames \ s.free) + k,
           Roots(t) = Roots(s), Directories(t) = Directories(s), PageTables(t) = PageTables(s)
    PROVE  LostIn(t) = LostIn(s)
<1>1. s.nfree \in Nat /\ NPages \in Nat
  BY Sizes DEF State
<1>2. PICK f \in Nat, r \in Nat, d \in Nat, n \in Nat :
         /\ f = Cardinality(Frames \ s.free) /\ r = Cardinality(Roots(s))
         /\ d = Cardinality(Directories(s)) /\ n = Cardinality(PageTables(s))
  BY CountsAre
<1>3. LostIn(s) = NPages - s.nfree - f - r - d - n
  BY <1>2 DEF LostIn
<1>4. LostIn(t) = NPages - (s.nfree - k) - (f + k) - r - d - n
  BY <1>2 DEF LostIn
<1> QED BY <1>1, <1>2, <1>3, <1>4

(* The entries of p other than the one at a, and the other processes, stay. *)
OneEntry(s, t, p, a) ==
    /\ \A q \in Procs \ {p} : t.mm[q] = s.mm[q]
    /\ (t.mm[p].pgdir <=> s.mm[p].pgdir) /\ t.mm[p].dirs = s.mm[p].dirs
    /\ t.mm[p].tables = s.mm[p].tables /\ t.mm[p].mmap = s.mm[p].mmap
    /\ \A b \in Addrs \ {a} : t.mm[p].pte[b] = s.mm[p].pte[b]

OthersStay(s, t, p, a) ==
    \A q \in Procs : \A b \in Addrs :
        (q # p \/ b # a) => t.mm[q].pte[b] = s.mm[q].pte[b] /\ PageAt(t, q, b) = PageAt(s, q, b)
ShapeStays(s, t) ==
    \A q \in Procs : /\ (t.mm[q].pgdir <=> s.mm[q].pgdir) /\ t.mm[q].dirs = s.mm[q].dirs
                     /\ t.mm[q].tables = s.mm[q].tables /\ t.mm[q].mmap = s.mm[q].mmap
                     /\ \A b \in Addrs : InArea(t, q, b) <=> InArea(s, q, b)

(* A step that changes one entry changes no table and no other entry.       *)
LEMMA OneEntryIs ==
    ASSUME NEW s, NEW t, NEW p \in Procs, NEW a \in Addrs, OneEntry(s, t, p, a)
    PROVE  /\ Roots(t) = Roots(s) /\ Directories(t) = Directories(s) /\ PageTables(t) = PageTables(s)
           /\ OthersStay(s, t, p, a) /\ ShapeStays(s, t)
<1>1. \A q \in Procs : /\ (t.mm[q].pgdir <=> s.mm[q].pgdir) /\ t.mm[q].dirs = s.mm[q].dirs
                       /\ t.mm[q].tables = s.mm[q].tables /\ t.mm[q].mmap = s.mm[q].mmap
  BY DEF OneEntry
<1>2. Roots(t) = Roots(s) /\ Directories(t) = Directories(s) /\ PageTables(t) = PageTables(s)
  BY <1>1 DEF Roots, Directories, PageTables
<1>3. ASSUME NEW q \in Procs, NEW b \in Addrs, q # p \/ b # a
      PROVE  t.mm[q].pte[b] = s.mm[q].pte[b] /\ PageAt(t, q, b) = PageAt(s, q, b)
  <2>1. CASE q # p
    BY <2>1 DEF OneEntry, PageAt
  <2>2. CASE q = p
    <3>1. b \in Addrs \ {a}
      BY <1>3, <2>2
    <3> QED BY <2>2, <3>1 DEF OneEntry, PageAt
  <2> QED BY <2>1, <2>2
<1>4. \A q \in Procs : \A b \in Addrs : InArea(t, q, b) <=> InArea(s, q, b)
  BY <1>1 DEF InArea, find_vma
<1>5. OthersStay(s, t, p, a)
  BY <1>3 DEF OthersStay
<1>6. ShapeStays(s, t)
  BY <1>1, <1>4 DEF ShapeStays
<1> QED BY <1>2, <1>5, <1>6

(* An entry may be set where the area and the table are there, or cleared.  *)
LEMMA PlacesKept ==
    ASSUME NEW s, NEW t, NEW p \in Procs, NEW a \in Addrs, PlacesOk(s), OneEntry(s, t, p, a), s.mm[p].pgdir,
           PageAt(t, p, a) # NULL => InArea(s, p, a) /\ PDX0(a) \in s.mm[p].tables
    PROVE  PlacesOk(t) /\ (Snug(s, p) => Snug(t, p))
<1>1. /\ \A q \in Procs : \A b \in Addrs : (q # p \/ b # a) => PageAt(t, q, b) = PageAt(s, q, b)
      /\ \A q \in Procs : /\ (t.mm[q].pgdir <=> s.mm[q].pgdir) /\ t.mm[q].dirs = s.mm[q].dirs
                          /\ t.mm[q].tables = s.mm[q].tables /\ t.mm[q].mmap = s.mm[q].mmap
      /\ \A q \in Procs : \A b \in Addrs : InArea(t, q, b) <=> InArea(s, q, b)
  <2>1. OthersStay(s, t, p, a) /\ ShapeStays(s, t)
    BY OneEntryIs
  <2> QED BY <2>1 DEF OthersStay, ShapeStays
<1>2. Mapped(t)
  <2> SUFFICES ASSUME NEW q \in Procs, NEW b \in Addrs, PageAt(t, q, b) # NULL
               PROVE  InArea(t, q, b) /\ PDX0(b) \in t.mm[q].tables
    BY DEF Mapped
  <2>1. CASE q # p \/ b # a
    BY <1>1, <2>1 DEF PlacesOk, Mapped
  <2>2. CASE q = p /\ b = a
    BY <1>1, <2>2
  <2> QED BY <2>1, <2>2
<1>3. Hang(t) /\ Rising(t)
  BY <1>1 DEF PlacesOk, Hang, Rising
<1>4. Rooted(t)
  BY <1>1 DEF PlacesOk, Rooted, OneEntry
<1>5. Snug(s, p) => Snug(t, p)
  <2>1. t.mm[p].dirs = s.mm[p].dirs /\ t.mm[p].tables = s.mm[p].tables
    BY <1>1
  <2>2. \A b \in Addrs : InArea(t, p, b) <=> InArea(s, p, b)
    BY <1>1
  <2> QED BY <2>1, <2>2 DEF Snug
<1> QED BY <1>2, <1>3, <1>4, <1>5 DEF PlacesOk

(* What is mapped has a count, is not free and is not in hand.              *)
LEMMA MappedIs ==
    ASSUME NEW x, NEW s, Sound(s, x), NEW p \in Procs, NEW a \in Addrs, PageAt(s, p, a) # NULL
    PROVE  /\ PageAt(s, p, a) \in Frames /\ s.ref[PageAt(s, p, a)] \in Nat \ {0}
           /\ PageAt(s, p, a) \notin s.free /\ PageAt(s, p, a) # x
<1> DEFINE page == PageAt(s, p, a)
<1>1. page \in Frames
  BY DEF Sound, State, Mm, Entry, PageAt
<1>2. <<p, a>> \in MappingsIn(s, page)
  BY DEF MappingsIn, PageAt
<1> HIDE DEF page
<1>3. Cardinality(MappingsIn(s, page)) # 0
  BY <1>2, CountsAre, FS_EmptySet
<1>4. s.ref[page] \in Nat \ {0}
  BY <1>1, <1>3 DEF Sound, State, FramesOk, Counted
<1>5. page \notin s.free /\ page # x
  <2>1. s.ref[page] # 0 /\ page # NULL
    BY <1>1, <1>4 DEF Frames, NULL
  <2>2. s.free = {other \in Frames : s.ref[other] = 0} \ {x}
    BY DEF Sound, FramesOk, FreeIs
  <2>3. x # NULL => s.ref[x] = 0
    BY DEF Sound, InHand
  <2> QED BY <2>1, <2>2, <2>3
<1> QED BY <1>1, <1>4, <1>5 DEF page

(* How many entries a frame has after one entry has changed.                *)
LEMMA MapCount ==
    ASSUME NEW s, NEW t, NEW p \in Procs, NEW a \in Addrs, OneEntry(s, t, p, a), NEW page
    PROVE  Cardinality(MappingsIn(t, page)) =
               Cardinality(MappingsIn(s, page)) + (IF PageAt(t, p, a) = page THEN 1 ELSE 0)
                                                - (IF PageAt(s, p, a) = page THEN 1 ELSE 0)
<1>1. \A q \in Procs : \A b \in Addrs : (q # p \/ b # a) => PageAt(t, q, b) = PageAt(s, q, b)
  <2>1. OthersStay(s, t, p, a)
    BY OneEntryIs
  <2> QED BY <2>1 DEF OthersStay
<1>2. /\ \A u : MappingsIn(u, page) = {pa \in Procs \X Addrs : PageAt(u, pa[1], pa[2]) = page}
      /\ <<p, a>> \in Procs \X Addrs
  BY DEF MappingsIn, PageAt
<1>3. PICK S : S = MappingsIn(s, page) \ {<<p, a>>}
  OBVIOUS
<1>4. ASSUME NEW u \in {s, t}
      PROVE  /\ PageAt(u, p, a) = page => MappingsIn(u, page) = S \cup {<<p, a>>}
             /\ PageAt(u, p, a) # page => MappingsIn(u, page) = S
  <2>1. ASSUME NEW pa \in Procs \X Addrs, pa # <<p, a>>
        PROVE  PageAt(u, pa[1], pa[2]) = PageAt(s, pa[1], pa[2])
    <3>1. pa = <<pa[1], pa[2]>> /\ pa[1] \in Procs /\ pa[2] \in Addrs
      OBVIOUS
    <3>2. pa[1] # p \/ pa[2] # a
      BY <2>1, <3>1
    <3> QED BY <1>1, <3>1, <3>2
  <2>2. S \subseteq Procs \X Addrs /\ \A pa \in Procs \X Addrs : pa \in S <=> pa # <<p, a>> /\ PageAt(s, pa[1], pa[2]) = page
    BY <1>2, <1>3
  <2>3. \A pa \in Procs \X Addrs : pa \in MappingsIn(u, page) <=> PageAt(u, pa[1], pa[2]) = page
    BY <1>2
  <2>4. MappingsIn(u, page) \subseteq Procs \X Addrs
    BY <1>2
  <2>5. <<p, a>>[1] = p /\ <<p, a>>[2] = a
    OBVIOUS
  <2> QED BY <1>2, <2>1, <2>2, <2>3, <2>4, <2>5
<1>5. IsFiniteSet(S) /\ <<p, a>> \notin S
  BY <1>3, CountsAre, FS_RemoveElement
<1>6. Cardinality(S) \in Nat /\ Cardinality(S \cup {<<p, a>>}) = Cardinality(S) + 1
  BY <1>5, FS_AddElement, FS_CardinalityType
<1>7. PICK c \in Nat : c = Cardinality(S) /\ c + 1 = Cardinality(S \cup {<<p, a>>})
  BY <1>6
<1>8. /\ PageAt(s, p, a) = page => Cardinality(MappingsIn(s, page)) = c + 1
      /\ PageAt(s, p, a) # page => Cardinality(MappingsIn(s, page)) = c
  BY <1>4, <1>7
<1>9. /\ PageAt(t, p, a) = page => Cardinality(MappingsIn(t, page)) = c + 1
      /\ PageAt(t, p, a) # page => Cardinality(MappingsIn(t, page)) = c
  BY <1>4, <1>7
<1>10. CASE PageAt(s, p, a) = page /\ PageAt(t, p, a) = page
  BY <1>8, <1>9, <1>10
<1>11. CASE PageAt(s, p, a) = page /\ PageAt(t, p, a) # page
  BY <1>8, <1>9, <1>11
<1>12. CASE PageAt(s, p, a) # page /\ PageAt(t, p, a) = page
  BY <1>8, <1>9, <1>12
<1>13. CASE PageAt(s, p, a) # page /\ PageAt(t, p, a) # page
  BY <1>8, <1>9, <1>13
<1> QED BY <1>10, <1>11, <1>12, <1>13

(* What every process reads stays.                                          *)
SameView(s, t) == \A q \in Procs : \A b \in Addrs : See(t, q, b) = See(s, q, b)

(* Nothing is changed but what is told of the frames.                       *)
LEMMA SameTables ==
    ASSUME NEW s, NEW t, NEW x, NEW p \in Procs, t.mm = s.mm, t.ref = s.ref, LostIn(t) = LostIn(s),
           s.short => t.short, SameView(s, t), FramesOk(s, NULL) \/ FramesOk(s, x), PlacesOk(s)
    PROVE  Keeps(s, t, p) /\ PlacesOk(t) /\ Counted(t) /\ Owned(t) /\ Clean(t) /\ OneAddress(t)
<1>1. \A q \in Procs : \A a \in Addrs : PageAt(t, q, a) = PageAt(s, q, a) /\ (InArea(t, q, a) <=> InArea(s, q, a))
  BY DEF PageAt, InArea, find_vma
<1>2. Counted(t)
  <2>1. \A page : MappingsIn(t, page) = MappingsIn(s, page)
    BY DEF MappingsIn
  <2> QED BY <2>1 DEF FramesOk, Counted
<1>3. Owned(t)
  BY <1>1 DEF FramesOk, Owned
<1>4. Clean(t)
  BY <1>1 DEF FramesOk, Clean
<1>5. OneAddress(t)
  BY <1>1 DEF FramesOk, OneAddress
<1>6. Mapped(t)
  BY <1>1 DEF PlacesOk, Mapped
<1>7. Hang(t) /\ Rising(t)
  BY DEF PlacesOk, Hang, Rising
<1>8. Rooted(t)
  BY DEF PlacesOk, Rooted
<1>9. Apart(s, t, p)
  BY <1>1 DEF Apart, SameView
<1>10. Tight(s, p) => Tight(t, p)
  BY <1>1 DEF Tight, Snug
<1>11. Keeps(s, t, p)
  BY <1>9, <1>10 DEF Keeps
<1> QED BY <1>2, <1>3, <1>4, <1>5, <1>6, <1>7, <1>8, <1>11 DEF PlacesOk

(* alloc_page of a user page, when a frame is left: it is there.            *)
LEMMA AllocSound ==
    ASSUME NEW s, Sound(s, NULL), s.nfree # 0, NEW v \in Values, NEW p \in Procs,
           NEW page, page = NextFrame(s), NEW t, t = alloc_page(s, v)
    PROVE  /\ page \in Frames /\ page # NULL /\ s.ref[page] = 0
           /\ Sound(t, page) /\ Keeps(s, t, p) /\ SameView(s, t)
           /\ t.mm = s.mm /\ t.ref = s.ref /\ t.data[page] = v
           /\ (t.ok <=> s.ok) /\ (t.short <=> s.short) /\ (t.stopped <=> s.stopped)
<1>1. s \in State /\ LostIn(s) >= 0 /\ FramesOk(s, NULL) /\ PlacesOk(s)
  BY DEF Sound
<1>2. s.free # {}
  <2>1. PICK f \in Nat, r \in Nat, d \in Nat, n \in Nat :
           /\ f = Cardinality(Frames \ s.free) /\ r = Cardinality(Roots(s))
           /\ d = Cardinality(Directories(s)) /\ n = Cardinality(PageTables(s))
    BY CountsAre
  <2>2. NPages - s.nfree - f - r - d - n >= 0
    BY <1>1, <2>1 DEF LostIn
  <2>3. f < NPages
    BY <1>1, <2>2, Sizes DEF State
  <2>4. Cardinality(Frames) = NPages
    BY Sizes, FS_Interval DEF Frames
  <2>5. Frames \ s.free # Frames
    BY <2>1, <2>3, <2>4
  <2> QED BY <2>5
<1>3. page = Min(s.free) /\ s.free \subseteq Nat /\ s.free \subseteq Frames
  BY <1>1 DEF NextFrame, State, Frames
<1>4. page \in s.free /\ page \in Frames
  BY <1>2, <1>3, MinIn
<1>5. page # NULL /\ s.ref[page] = 0
  BY <1>1, <1>4 DEF FramesOk, FreeIs, Frames, NULL
<1>6. t = [[s EXCEPT !.nfree = @ - 1] EXCEPT !.free = @ \ {page}, !.data[page] = v]
  BY <1>5 DEF alloc_page, TakeFrame
<1>7. /\ t \in State /\ t.nfree = s.nfree - 1 /\ t.free = s.free \ {page}
      /\ t.data = [s.data EXCEPT ![page] = v]
      /\ t.mm = s.mm /\ t.ref = s.ref /\ (t.ok <=> s.ok) /\ (t.short <=> s.short) /\ (t.stopped <=> s.stopped)
  <2>1. s.nfree - 1 \in Nat /\ s.free \ {page} \in SUBSET Frames /\ [s.data EXCEPT ![page] = v] \in [Frames -> Values]
    BY <1>1, <1>4 DEF State
  <2> QED BY <1>1, <1>6, <2>1 DEF State
<1>8. LostIn(t) = LostIn(s)
  <2>1. Frames \ t.free = (Frames \ s.free) \cup {page} /\ page \notin Frames \ s.free
    BY <1>4, <1>7
  <2>2. Cardinality(Frames \ t.free) = Cardinality(Frames \ s.free) + 1
    BY <2>1, CountsAre, FS_AddElement
  <2>3. Roots(t) = Roots(s) /\ Directories(t) = Directories(s) /\ PageTables(t) = PageTables(s)
    BY <1>7 DEF Roots, Directories, PageTables
  <2> QED BY <1>1, <1>7, <2>2, <2>3, LostFrames
<1>9. SameView(s, t)
  <2> SUFFICES ASSUME NEW q \in Procs, NEW b \in Addrs PROVE See(t, q, b) = See(s, q, b)
    BY DEF SameView
  <2>1. PageAt(t, q, b) = PageAt(s, q, b)
    BY <1>7 DEF PageAt
  <2>2. CASE PageAt(s, q, b) # NULL
    <3>1. PageAt(s, q, b) \in Frames /\ s.ref[PageAt(s, q, b)] # 0
      BY <2>2, MappedIs
    <3>2. PageAt(s, q, b) # page
      BY <1>5, <3>1
    <3>3. t.data[PageAt(s, q, b)] = s.data[PageAt(s, q, b)]
      BY <1>1, <1>7, <3>1, <3>2 DEF State
    <3> QED BY <2>1, <3>3 DEF See
  <2> QED BY <2>1, <2>2 DEF See
<1>10. Keeps(s, t, p) /\ PlacesOk(t) /\ Counted(t) /\ Owned(t) /\ Clean(t) /\ OneAddress(t)
  BY <1>1, <1>7, <1>8, <1>9, SameTables
<1>11. FreeIs(t, page) /\ InHand(t, page)
  <2>1. s.free = {other \in Frames : s.ref[other] = 0} \ {NULL}
    BY <1>1 DEF FramesOk, FreeIs
  <2>2. NULL \notin Frames
    BY DEF Frames, NULL
  <2>3. t.free = {other \in Frames : t.ref[other] = 0} \ {page}
    BY <1>7, <2>1, <2>2
  <2> QED BY <1>4, <1>5, <1>7, <2>3 DEF FreeIs, InHand
<1>12. Sound(t, page)
  BY <1>1, <1>7, <1>8, <1>10, <1>11 DEF Sound, FramesOk
<1>13. t.data[page] = v
  BY <1>1, <1>4, <1>7 DEF State
<1> QED BY <1>4, <1>5, <1>7, <1>9, <1>10, <1>12, <1>13

(* alloc_page, when no frame is left.                                       *)
LEMMA AllocFails ==
    ASSUME NEW s, Sound(s, NULL), s.nfree = 0, NEW p \in Procs, NEW t, t = TakeFrame(s)
    PROVE  /\ NextFrame(s) = NULL /\ \A v : alloc_page(s, v) = t
           /\ Sound(t, NULL) /\ Keeps(s, t, p) /\ SameView(s, t)
           /\ t.mm = s.mm /\ ~t.ok /\ t.short /\ (t.stopped <=> s.stopped)
<1>1. s \in State /\ LostIn(s) >= 0 /\ InHand(s, NULL) /\ FramesOk(s, NULL) /\ PlacesOk(s)
  BY DEF Sound
<1>2. /\ t \in State /\ t.mm = s.mm /\ t.free = s.free /\ t.ref = s.ref /\ t.data = s.data
      /\ (t.stopped <=> s.stopped) /\ t.nfree = s.nfree /\ ~t.ok /\ t.short
  BY <1>1, TakeFrameIs
<1>3. SameView(s, t)
  BY <1>2 DEF SameView, See, PageAt
<1>4. LostIn(t) = LostIn(s)
  BY <1>2 DEF LostIn, Roots, Directories, PageTables
<1>5. Keeps(s, t, p) /\ PlacesOk(t) /\ Counted(t) /\ Owned(t) /\ Clean(t) /\ OneAddress(t)
  BY <1>1, <1>2, <1>3, <1>4, SameTables
<1>6. FreeIs(t, NULL)
  BY <1>1, <1>2 DEF FramesOk, FreeIs
<1>7. Sound(t, NULL)
  BY <1>1, <1>2, <1>4, <1>5, <1>6 DEF Sound, FramesOk, InHand
<1>8. NextFrame(s) = NULL /\ \A v : alloc_page(s, v) = t
  BY DEF NextFrame, alloc_page
<1> QED BY <1>2, <1>3, <1>5, <1>7, <1>8

(* free_page of the page in hand.                                           *)
LEMMA FreeSound ==
    ASSUME NEW page, NEW s, Sound(s, page), page # NULL, NEW p \in Procs, NEW t, t = free_page(s, page)
    PROVE  /\ Sound(t, NULL) /\ Keeps(s, t, p) /\ SameView(s, t)
           /\ t.mm = s.mm /\ (t.ok <=> s.ok) /\ (t.short <=> s.short) /\ (t.stopped <=> s.stopped)
<1>1. s \in State /\ LostIn(s) >= 0 /\ FramesOk(s, page) /\ PlacesOk(s) /\ page \in Frames /\ s.ref[page] = 0
  BY DEF Sound, InHand
<1>2. t = [s EXCEPT !.nfree = @ + 1, !.free = @ \cup {page}, !.data[page] = 0]
  BY DEF free_page
<1>3. /\ t \in State /\ t.nfree = s.nfree + 1 /\ t.free = s.free \cup {page}
      /\ t.data = [s.data EXCEPT ![page] = 0]
      /\ t.mm = s.mm /\ t.ref = s.ref /\ (t.ok <=> s.ok) /\ (t.short <=> s.short) /\ (t.stopped <=> s.stopped)
  <2>1. s.nfree + 1 \in Nat /\ s.free \cup {page} \in SUBSET Frames /\ [s.data EXCEPT ![page] = 0] \in [Frames -> Values]
    BY <1>1, Sizes DEF State
  <2> QED BY <1>1, <1>2, <2>1 DEF State
<1>4. s.free = {other \in Frames : s.ref[other] = 0} \ {page}
  BY <1>1 DEF FramesOk, FreeIs
<1>5. LostIn(t) = LostIn(s)
  <2>1. Frames \ s.free = (Frames \ t.free) \cup {page} /\ page \notin Frames \ t.free
    BY <1>1, <1>3, <1>4
  <2>2. Cardinality(Frames \ s.free) = Cardinality(Frames \ t.free) + 1
    BY <2>1, CountsAre, FS_AddElement
  <2>3. Roots(t) = Roots(s) /\ Directories(t) = Directories(s) /\ PageTables(t) = PageTables(s)
    BY <1>3 DEF Roots, Directories, PageTables
  <2>4. s.nfree = t.nfree - 1
    BY <1>1, <1>3 DEF State
  <2>5. LostIn(s) = LostIn(t)
    <3>1. s \in State /\ t \in State /\ 1 \in Int
      BY <1>1, <1>3
    <3> QED BY <3>1, <2>2, <2>3, <2>4, LostFrames
  <2> QED BY <2>5
<1>6. SameView(s, t)
  <2> SUFFICES ASSUME NEW q \in Procs, NEW b \in Addrs PROVE See(t, q, b) = See(s, q, b)
    BY DEF SameView
  <2>1. PageAt(t, q, b) = PageAt(s, q, b)
    BY <1>3 DEF PageAt
  <2>2. CASE PageAt(s, q, b) # NULL
    <3>1. PageAt(s, q, b) \in Frames /\ PageAt(s, q, b) # page
      BY <2>2, MappedIs
    <3>2. t.data[PageAt(s, q, b)] = s.data[PageAt(s, q, b)]
      BY <1>1, <1>3, <3>1 DEF State
    <3> QED BY <2>1, <3>2 DEF See
  <2> QED BY <2>1, <2>2 DEF See
<1>7. Keeps(s, t, p) /\ PlacesOk(t) /\ Counted(t) /\ Owned(t) /\ Clean(t) /\ OneAddress(t)
  BY <1>1, <1>3, <1>5, <1>6, SameTables
<1>8. FreeIs(t, NULL)
  <2>1. NULL \notin Frames
    BY DEF Frames, NULL
  <2>2. t.free = {other \in Frames : t.ref[other] = 0} \ {NULL}
    BY <1>1, <1>3, <1>4, <2>1
  <2> QED BY <2>2 DEF FreeIs
<1>9. Sound(t, NULL)
  BY <1>1, <1>3, <1>5, <1>7, <1>8 DEF Sound, FramesOk, InHand
<1> QED BY <1>3, <1>6, <1>7, <1>9

-----------------------------------------------------------------------------
(* Entries.                                                                 *)

WithEntry(mm, p, a, e) == [mm EXCEPT ![p] = [mm[p] EXCEPT !.pte = [mm[p].pte EXCEPT ![a] = e]]]

(* An entry that is written is read back, and no other has changed.         *)
LEMMA EntrySet ==
    ASSUME NEW s \in State, NEW p \in Procs, NEW a \in Addrs, NEW e \in Entry, NEW t,
           t.mm = WithEntry(s.mm, p, a, e)
    PROVE  t.mm \in [Procs -> Mm] /\ OneEntry(s, t, p, a) /\ t.mm[p].pte[a] = e
<1> DEFINE old == s.mm[p]
           pte == [old.pte EXCEPT ![a] = e]
           new == [old EXCEPT !.pte = pte]
<1>1. s.mm \in [Procs -> Mm] /\ old \in Mm /\ old.pte \in [Addrs -> Entry]
  BY DEF State, Mm
<1>2. pte \in [Addrs -> Entry] /\ pte[a] = e /\ \A b \in Addrs \ {a} : pte[b] = old.pte[b]
  BY <1>1
<1> HIDE DEF pte
<1>3. /\ new \in Mm /\ new.pte = pte /\ (new.pgdir <=> old.pgdir) /\ new.dirs = old.dirs
      /\ new.tables = old.tables /\ new.mmap = old.mmap
  BY <1>1, <1>2 DEF Mm
<1>4. t.mm = [s.mm EXCEPT ![p] = new]
  BY DEF WithEntry, pte
<1> HIDE DEF new, old
<1>5. t.mm \in [Procs -> Mm] /\ t.mm[p] = new /\ \A q \in Procs \ {p} : t.mm[q] = s.mm[q]
  BY <1>1, <1>3, <1>4
<1> QED BY <1>2, <1>3, <1>5 DEF OneEntry, old

(* A frame that is mapped once is mapped by one process.                    *)
LEMMA Sole ==
    ASSUME NEW x, NEW s, Sound(s, x), NEW p \in Procs, NEW a \in Addrs, NEW q \in Procs, NEW b \in Addrs,
           PageAt(s, p, a) # NULL, PageAt(s, q, b) = PageAt(s, p, a), s.ref[PageAt(s, p, a)] = 1
    PROVE  q = p /\ b = a
<1> DEFINE page == PageAt(s, p, a)
<1>1. page \in Frames
  BY MappedIs
<1>2. <<p, a>> \in MappingsIn(s, page) /\ <<q, b>> \in MappingsIn(s, page)
  BY DEF MappingsIn, PageAt
<1> HIDE DEF page
<1>3. Cardinality(MappingsIn(s, page)) = 1
  BY <1>1 DEF Sound, FramesOk, Counted, page
<1>4. PICK pa : MappingsIn(s, page) = {pa}
  BY <1>3, CountsAre, FS_Singleton
<1> QED BY <1>2, <1>4

(* All that is read elsewhere stays.                                        *)
ViewStays(s, t, p, a) ==
    \A q \in Procs : \A b \in Addrs : (q # p \/ b # a) => See(t, q, b) = See(s, q, b)

(* What is told of the whole, when it is right but for one entry.           *)
LEMMA OneEntryKeeps ==
    ASSUME NEW s, NEW t, NEW p \in Procs, NEW a \in Addrs, PlacesOk(s), s.mm[p].pgdir,
           OneEntry(s, t, p, a), ViewStays(s, t, p, a), LostIn(t) = LostIn(s), (t.short <=> s.short),
           PageAt(t, p, a) # NULL => InArea(s, p, a) /\ PDX0(a) \in s.mm[p].tables
    PROVE  Keeps(s, t, p) /\ PlacesOk(t)
<1>1. PlacesOk(t) /\ (Snug(s, p) => Snug(t, p))
  BY PlacesKept
<1>2. Apart(s, t, p)
  <2>1. OthersStay(s, t, p, a) /\ ShapeStays(s, t)
    BY OneEntryIs
  <2> QED BY <2>1 DEF Apart, OthersStay, ShapeStays, ViewStays
<1>3. (t.mm[p].pgdir <=> s.mm[p].pgdir)
  BY DEF OneEntry
<1>4. Tight(s, p) => Tight(t, p)
  BY <1>1 DEF Tight
<1> QED BY <1>1, <1>2, <1>3, <1>4 DEF Keeps

(* page_remove_pte.                                                         *)
LEMMA RemoveSound ==
    ASSUME NEW x, NEW s, Sound(s, x), NEW p \in Procs, NEW a \in Addrs, PageAt(s, p, a) # NULL,
           NEW t, t = page_remove_pte(s, p, a)
    PROVE  /\ Sound(t, x) /\ Keeps(s, t, p) /\ OneEntry(s, t, p, a) /\ ViewStays(s, t, p, a)
           /\ t.mm[p].pte[a] = NoEntry
           /\ (t.ok <=> s.ok) /\ (t.short <=> s.short) /\ (t.stopped <=> s.stopped)
<1> DEFINE page == PageAt(s, p, a)
           left == [s EXCEPT !.ref[page] = @ - 1, !.mm[p].pte[a] = NoEntry]
<1>1. s \in State /\ LostIn(s) >= 0 /\ InHand(s, x) /\ FramesOk(s, x) /\ PlacesOk(s)
  BY DEF Sound
<1>2. page \in Frames /\ s.ref[page] \in Nat \ {0} /\ page \notin s.free /\ page # x /\ page # NULL
  BY MappedIs
<1>3. s.mm[p].pgdir
  <2>1. NoMm.pte[a].page = NULL
    BY DEF NoMm, NoEntry
  <2> QED BY <1>1, <2>1 DEF PlacesOk, Rooted, PageAt
<1>4. t = IF left.ref[page] = 0 THEN free_page(left, page) ELSE left
  BY DEF page_remove_pte, PageAt
<1> DEFINE ref == [s.ref EXCEPT ![page] = @ - 1]
           mm == WithEntry(s.mm, p, a, NoEntry)
<1>5. NoEntry \in Entry
  BY DEF NoEntry, Entry
<1>6. ref \in [Frames -> Nat] /\ ref[page] = s.ref[page] - 1 /\ \A other \in Frames \ {page} : ref[other] = s.ref[other]
  <2>1. s.ref \in [Frames -> Nat] /\ s.ref[page] - 1 \in Nat
    BY <1>1, <1>2 DEF State
  <2> QED BY <1>2, <2>1
<1>7. left = [s EXCEPT !.ref = ref, !.mm = mm]
  BY DEF WithEntry
<1> HIDE DEF page, ref, mm, left
<1>8. mm \in [Procs -> Mm]
  <2> DEFINE u == [mm |-> mm]
  <2>1. u.mm = WithEntry(s.mm, p, a, NoEntry)
    BY DEF mm
  <2>2. u.mm \in [Procs -> Mm]
    <3> HIDE DEF u
    <3> QED BY <1>1, <1>5, <2>1, EntrySet
  <2> QED BY <2>2
<1>9. /\ left \in State /\ left.ref = ref /\ left.mm = mm /\ left.nfree = s.nfree /\ left.free = s.free
      /\ left.data = s.data /\ (left.ok <=> s.ok) /\ (left.short <=> s.short) /\ (left.stopped <=> s.stopped)
  BY <1>1, <1>6, <1>7, <1>8 DEF State
<1>10. /\ t \in State /\ t.ref = ref /\ t.mm = mm /\ (t.ok <=> s.ok) /\ (t.short <=> s.short) /\ (t.stopped <=> s.stopped)
       /\ s.ref[page] # 1 => t.nfree = s.nfree /\ t.free = s.free /\ t.data = s.data
       /\ s.ref[page] = 1 => /\ t.nfree = s.nfree + 1 /\ t.free = s.free \cup {page}
                             /\ t.data = [s.data EXCEPT ![page] = 0]
  <2>1. CASE s.ref[page] # 1
    <3>1. t = left
      BY <1>2, <1>4, <1>6, <1>9, <2>1
    <3> QED BY <1>9, <2>1, <3>1
  <2>2. CASE s.ref[page] = 1
    <3>1. t = free_page(left, page)
      BY <1>4, <1>6, <1>9, <2>2
    <3>2. t = [left EXCEPT !.nfree = @ + 1, !.free = @ \cup {page}, !.data[page] = 0]
      BY <3>1 DEF free_page
    <3>3. /\ left.nfree + 1 \in Nat /\ left.free \cup {page} \in SUBSET Frames
          /\ [left.data EXCEPT ![page] = 0] \in [Frames -> Values]
      BY <1>2, <1>9, Sizes DEF State
    <3> QED BY <1>9, <2>2, <3>2, <3>3 DEF State
  <2> QED BY <2>1, <2>2
<1>11. OneEntry(s, t, p, a) /\ t.mm[p].pte[a] = NoEntry
  <2>1. t.mm = WithEntry(s.mm, p, a, NoEntry)
    BY <1>10 DEF mm
  <2> QED BY <1>1, <1>5, <2>1, EntrySet
<1>12. PageAt(t, p, a) = NULL
  BY <1>11 DEF PageAt, NoEntry
<1>13. OthersStay(s, t, p, a) /\ ShapeStays(s, t) /\ Roots(t) = Roots(s)
       /\ Directories(t) = Directories(s) /\ PageTables(t) = PageTables(s)
  BY <1>11, OneEntryIs
<1>14. ASSUME NEW q \in Procs, NEW b \in Addrs, q # p \/ b # a
       PROVE  PageAt(t, q, b) = PageAt(s, q, b) /\ t.mm[q].pte[b] = s.mm[q].pte[b]
  BY <1>13, <1>14 DEF OthersStay
<1>15. Counted(t)
  <2> SUFFICES ASSUME NEW other \in Frames PROVE t.ref[other] = Cardinality(MappingsIn(t, other))
    BY DEF Counted
  <2>1. PICK c \in Nat : c = Cardinality(MappingsIn(s, other))
    BY CountsAre
  <2>2. s.ref[other] = c
    BY <1>1, <2>1 DEF FramesOk, Counted
  <2>3. NULL # other
    BY DEF Frames, NULL
  <2>4. Cardinality(MappingsIn(t, other)) = c + (IF PageAt(t, p, a) = other THEN 1 ELSE 0) - (IF PageAt(s, p, a) = other THEN 1 ELSE 0)
    BY <1>11, <2>1, MapCount
  <2>5. CASE other = page
    BY <1>2, <1>6, <1>10, <1>12, <2>2, <2>3, <2>4, <2>5 DEF page
  <2>6. CASE other # page
    BY <1>6, <1>10, <1>12, <2>2, <2>3, <2>4, <2>6 DEF page
  <2> QED BY <2>5, <2>6
<1>16. FreeIs(t, x)
  <2>1. s.free = {other \in Frames : s.ref[other] = 0} \ {x}
    BY <1>1 DEF FramesOk, FreeIs
  <2>2. CASE s.ref[page] = 1
    <3>1. ref[page] = 0 /\ t.free = s.free \cup {page}
      BY <1>6, <1>10, <2>2
    <3>2. t.free = {other \in Frames : ref[other] = 0} \ {x}
      BY <1>2, <1>6, <2>1, <3>1
    <3> QED BY <1>10, <3>2 DEF FreeIs
  <2>3. CASE s.ref[page] # 1
    <3>1. ref[page] # 0 /\ t.free = s.free
      BY <1>2, <1>6, <1>10, <2>3
    <3>2. t.free = {other \in Frames : ref[other] = 0} \ {x}
      BY <1>2, <1>6, <2>1, <3>1
    <3> QED BY <1>10, <3>2 DEF FreeIs
  <2> QED BY <2>2, <2>3
<1>17. Owned(t)
  <2> SUFFICES ASSUME NEW q \in Procs, NEW b \in Addrs, t.mm[q].pte[b].w
               PROVE  ~t.mm[q].pte[b].cow /\ PageAt(t, q, b) # NULL /\ t.ref[PageAt(t, q, b)] = 1
    BY DEF Owned
  <2>1. q # p \/ b # a
    BY <1>11 DEF NoEntry
  <2>2. PageAt(t, q, b) = PageAt(s, q, b) /\ t.mm[q].pte[b] = s.mm[q].pte[b]
    BY <1>14, <2>1
  <2>3. ~s.mm[q].pte[b].cow /\ PageAt(s, q, b) # NULL /\ s.ref[PageAt(s, q, b)] = 1
    BY <1>1, <2>2 DEF FramesOk, Owned
  <2>4. PageAt(s, q, b) # page
    BY <2>1, <2>3, Sole DEF page
  <2>5. PageAt(s, q, b) \in Frames
    BY <2>3, MappedIs
  <2> QED BY <1>6, <1>10, <2>2, <2>3, <2>4, <2>5
<1>18. Clean(t)
  <2> SUFFICES ASSUME NEW q \in Procs, NEW b \in Addrs, PageAt(t, q, b) = NULL PROVE t.mm[q].pte[b] = NoEntry
    BY DEF Clean
  <2>1. CASE q # p \/ b # a
    BY <1>1, <1>14, <2>1 DEF FramesOk, Clean
  <2> QED BY <1>11, <2>1
<1>19. OneAddress(t)
  <2> SUFFICES ASSUME NEW q \in Procs, NEW r \in Procs, NEW b \in Addrs, NEW c \in Addrs,
                      PageAt(t, q, b) = PageAt(t, r, c), PageAt(t, q, b) # NULL
               PROVE  b = c
    BY DEF OneAddress
  <2>1. (q # p \/ b # a) /\ (r # p \/ c # a)
    BY <1>12
  <2>2. PageAt(t, q, b) = PageAt(s, q, b) /\ PageAt(t, r, c) = PageAt(s, r, c)
    BY <1>14, <2>1
  <2> QED BY ZenonT(60), <1>1, <2>2 DEF FramesOk, OneAddress
<1>20. ViewStays(s, t, p, a)
  <2> SUFFICES ASSUME NEW q \in Procs, NEW b \in Addrs, q # p \/ b # a PROVE See(t, q, b) = See(s, q, b)
    BY DEF ViewStays
  <2>1. PageAt(t, q, b) = PageAt(s, q, b)
    BY <1>14
  <2>2. CASE PageAt(s, q, b) # NULL
    <3>1. PageAt(s, q, b) \in Frames
      BY <2>2, MappedIs
    <3>2. s.ref[page] = 1 => PageAt(s, q, b) # page
      BY <2>2, Sole DEF page
    <3>3. t.data[PageAt(s, q, b)] = s.data[PageAt(s, q, b)]
      BY <1>1, <1>10, <3>1, <3>2 DEF State
    <3> QED BY <2>1, <3>3 DEF See
  <2> QED BY <2>1, <2>2 DEF See
<1>21. LostIn(t) = LostIn(s)
  <2>1. CASE s.ref[page] # 1
    BY <1>10, <1>13, <2>1 DEF LostIn
  <2>2. CASE s.ref[page] = 1
    <3>1. Frames \ s.free = (Frames \ t.free) \cup {page} /\ page \notin Frames \ t.free
      BY <1>2, <1>10, <2>2
    <3>2. Cardinality(Frames \ s.free) = Cardinality(Frames \ t.free) + 1
      BY <3>1, CountsAre, FS_AddElement
    <3>3. s.nfree = t.nfree - 1
      BY <1>1, <1>10, <2>2 DEF State
    <3>4. LostIn(s) = LostIn(t)
      <4>1. s \in State /\ t \in State /\ 1 \in Int
        BY <1>1, <1>10
      <4> QED BY <4>1, <1>13, <3>2, <3>3, LostFrames
    <3> QED BY <3>4
  <2> QED BY <2>1, <2>2
<1>22. Keeps(s, t, p) /\ PlacesOk(t)
  BY <1>1, <1>3, <1>10, <1>11, <1>12, <1>20, <1>21, OneEntryKeeps
<1>23. InHand(t, x)
  <2>1. x # NULL => x \in Frames \ {page} /\ s.ref[x] = 0
    BY <1>1, <1>2 DEF InHand
  <2> QED BY <1>6, <1>10, <2>1 DEF InHand
<1>24. Sound(t, x)
  BY <1>1, <1>10, <1>15, <1>16, <1>17, <1>18, <1>19, <1>21, <1>22, <1>23 DEF Sound, FramesOk
<1> QED BY <1>10, <1>11, <1>20, <1>22, <1>24

(* The end of page_insert, when there is nothing at the address.            *)
Put(s, p, page, a, e) == [s EXCEPT !.ref[page] = @ + 1, !.mm[p].pte[a] = e]

(* All that map the page do it at this address, and may only read.          *)
ReadAt(s, page, a) ==
    \A q \in Procs : \A b \in Addrs : PageAt(s, q, b) = page => b = a /\ ~s.mm[q].pte[b].w

(* The page that an entry is made for: taken for it, or mapped already.     *)
GivenPage(s, x, page, a, e) ==
    /\ page \in Frames /\ (x = page \/ (x = NULL /\ s.ref[page] # 0)) /\ ReadAt(s, page, a)
    /\ e \in Entry /\ e.page = page /\ (e.w => x = page /\ ~e.cow)

(* page_insert into an empty entry, of the page in hand or of one that is   *)
(* mapped elsewhere at the same address, keeps the memory right.            *)
LEMMA PutSound ==
    ASSUME NEW x, NEW s, Sound(s, x), NEW p \in Procs, NEW a \in Addrs, PageAt(s, p, a) = NULL,
           s.mm[p].pgdir, InArea(s, p, a), PDX0(a) \in s.mm[p].tables,
           NEW page, NEW e, GivenPage(s, x, page, a, e), NEW t, t = Put(s, p, page, a, e)
    PROVE  /\ Sound(t, NULL) /\ Keeps(s, t, p) /\ OneEntry(s, t, p, a) /\ ViewStays(s, t, p, a)
           /\ t.mm[p].pte[a] = e /\ t.data = s.data
           /\ (t.ok <=> s.ok) /\ (t.short <=> s.short) /\ (t.stopped <=> s.stopped)
<1>1. s \in State /\ LostIn(s) >= 0 /\ InHand(s, x) /\ FramesOk(s, x) /\ PlacesOk(s)
  BY DEF Sound
<1>2. /\ page \in Frames /\ (x = page \/ (x = NULL /\ s.ref[page] # 0)) /\ ReadAt(s, page, a)
      /\ e \in Entry /\ e.page = page /\ (e.w => x = page /\ ~e.cow)
  BY DEF GivenPage
<1>3. page # NULL /\ (x = page => s.ref[page] = 0)
  BY <1>1, <1>2 DEF InHand, Frames, NULL
<1> DEFINE ref == [s.ref EXCEPT ![page] = @ + 1]
           mm == WithEntry(s.mm, p, a, e)
<1>4. ref \in [Frames -> Nat] /\ ref[page] = s.ref[page] + 1 /\ \A other \in Frames \ {page} : ref[other] = s.ref[other]
  <2>1. s.ref \in [Frames -> Nat] /\ s.ref[page] + 1 \in Nat
    BY <1>1, <1>2 DEF State
  <2> QED BY <1>2, <2>1
<1>5. t = [s EXCEPT !.ref = ref, !.mm = mm]
  BY DEF WithEntry, Put
<1> HIDE DEF ref, mm
<1>6. mm \in [Procs -> Mm]
  <2> DEFINE u == [mm |-> mm]
  <2>1. u.mm = WithEntry(s.mm, p, a, e)
    BY DEF mm
  <2>2. u.mm \in [Procs -> Mm]
    <3> HIDE DEF u
    <3> QED BY <1>1, <1>2, <2>1, EntrySet
  <2> QED BY <2>2
<1>7. /\ t \in State /\ t.ref = ref /\ t.mm = mm /\ t.nfree = s.nfree /\ t.free = s.free
      /\ t.data = s.data /\ (t.ok <=> s.ok) /\ (t.short <=> s.short) /\ (t.stopped <=> s.stopped)
  BY <1>1, <1>4, <1>5, <1>6 DEF State
<1>8. OneEntry(s, t, p, a) /\ t.mm[p].pte[a] = e
  <2>1. t.mm = WithEntry(s.mm, p, a, e)
    BY <1>7 DEF mm
  <2> QED BY <1>1, <1>2, <2>1, EntrySet
<1>9. PageAt(t, p, a) = page
  BY <1>2, <1>8 DEF PageAt
<1>10. OthersStay(s, t, p, a) /\ ShapeStays(s, t) /\ Roots(t) = Roots(s)
       /\ Directories(t) = Directories(s) /\ PageTables(t) = PageTables(s)
  BY <1>8, OneEntryIs
<1>11. ASSUME NEW q \in Procs, NEW b \in Addrs, q # p \/ b # a
       PROVE  PageAt(t, q, b) = PageAt(s, q, b) /\ t.mm[q].pte[b] = s.mm[q].pte[b]
  BY <1>10, <1>11 DEF OthersStay
<1>12. Counted(t)
  <2> SUFFICES ASSUME NEW other \in Frames PROVE t.ref[other] = Cardinality(MappingsIn(t, other))
    BY DEF Counted
  <2>1. PICK c \in Nat : c = Cardinality(MappingsIn(s, other))
    BY CountsAre
  <2>2. s.ref[other] = c
    BY <1>1, <2>1 DEF FramesOk, Counted
  <2>3. NULL # other
    BY DEF Frames, NULL
  <2>4. Cardinality(MappingsIn(t, other)) = c + (IF PageAt(t, p, a) = other THEN 1 ELSE 0) - (IF PageAt(s, p, a) = other THEN 1 ELSE 0)
    BY <1>8, <2>1, MapCount
  <2>5. CASE other = page
    BY <1>4, <1>7, <1>9, <2>2, <2>3, <2>4, <2>5
  <2>6. CASE other # page
    BY <1>4, <1>7, <1>9, <2>2, <2>3, <2>4, <2>6
  <2> QED BY <2>5, <2>6
<1>13. FreeIs(t, NULL)
  <2>1. s.free = {other \in Frames : s.ref[other] = 0} \ {x}
    BY <1>1 DEF FramesOk, FreeIs
  <2>2. ref[page] # 0 /\ s.ref[page] \in Nat /\ NULL \notin Frames
    <3>1. s.ref[page] \in Nat
      BY <1>1, <1>2 DEF State
    <3>2. NULL \notin Frames
      BY DEF Frames, NULL
    <3> QED BY <1>4, <3>1, <3>2
  <2>3. s.free = {other \in Frames : ref[other] = 0} \ {NULL}
    <3>1. CASE x = page
      BY <1>2, <1>3, <1>4, <2>1, <2>2, <3>1
    <3>2. CASE x = NULL /\ s.ref[page] # 0
      BY <1>2, <1>4, <2>1, <2>2, <3>2
    <3> QED BY <1>2, <3>1, <3>2
  <2> QED BY <1>7, <2>3 DEF FreeIs
<1>14. Owned(t)
  <2> SUFFICES ASSUME NEW q \in Procs, NEW b \in Addrs, t.mm[q].pte[b].w
               PROVE  ~t.mm[q].pte[b].cow /\ PageAt(t, q, b) # NULL /\ t.ref[PageAt(t, q, b)] = 1
    BY DEF Owned
  <2>1. CASE q = p /\ b = a
    <3>1. e.w /\ x = page /\ ~e.cow
      BY <1>2, <1>8, <2>1
    <3>2. t.ref[page] = 1
      BY <1>3, <1>4, <1>7, <3>1
    <3> QED BY <1>3, <1>8, <1>9, <2>1, <3>1, <3>2
  <2>2. CASE q # p \/ b # a
    <3>1. PageAt(t, q, b) = PageAt(s, q, b) /\ t.mm[q].pte[b] = s.mm[q].pte[b]
      BY <1>11, <2>2
    <3>2. ~s.mm[q].pte[b].cow /\ PageAt(s, q, b) # NULL /\ s.ref[PageAt(s, q, b)] = 1
      BY <1>1, <3>1 DEF FramesOk, Owned
    <3>3. PageAt(s, q, b) # page
      BY <1>2, <3>1 DEF ReadAt
    <3>4. PageAt(s, q, b) \in Frames
      BY <3>2, MappedIs
    <3> QED BY <1>4, <1>7, <3>1, <3>2, <3>3, <3>4
  <2> QED BY <2>1, <2>2
<1>15. Clean(t)
  <2> SUFFICES ASSUME NEW q \in Procs, NEW b \in Addrs, PageAt(t, q, b) = NULL PROVE t.mm[q].pte[b] = NoEntry
    BY DEF Clean
  <2>1. q # p \/ b # a
    BY <1>3, <1>9
  <2> QED BY <1>1, <1>11, <2>1 DEF FramesOk, Clean
<1>16. OneAddress(t)
  <2>1. ASSUME NEW q \in Procs, NEW b \in Addrs, PageAt(t, q, b) = page PROVE b = a
    <3>1. CASE q # p \/ b # a
      BY <1>2, <1>11, <2>1, <3>1 DEF ReadAt
    <3> QED BY <3>1
  <2> SUFFICES ASSUME NEW q \in Procs, NEW r \in Procs, NEW b \in Addrs, NEW c \in Addrs,
                      PageAt(t, q, b) = PageAt(t, r, c), PageAt(t, q, b) # NULL
               PROVE  b = c
    BY DEF OneAddress
  <2>2. CASE PageAt(t, q, b) = page
    BY <2>1, <2>2
  <2>3. CASE PageAt(t, q, b) # page
    <3>1. (q # p \/ b # a) /\ (r # p \/ c # a)
      BY <1>9, <2>3
    <3>2. PageAt(t, q, b) = PageAt(s, q, b) /\ PageAt(t, r, c) = PageAt(s, r, c)
      BY <1>11, <3>1
    <3> QED BY <1>1, <3>2 DEF FramesOk, OneAddress
  <2> QED BY <2>2, <2>3
<1>17. ViewStays(s, t, p, a)
  BY <1>7, <1>11 DEF ViewStays, See
<1>18. LostIn(t) = LostIn(s)
  BY <1>7, <1>10 DEF LostIn
<1>19. Keeps(s, t, p) /\ PlacesOk(t)
  BY <1>1, <1>7, <1>8, <1>17, <1>18, OneEntryKeeps
<1>20. Sound(t, NULL)
  BY <1>1, <1>7, <1>12, <1>13, <1>14, <1>15, <1>16, <1>18, <1>19 DEF Sound, FramesOk, InHand
<1> QED BY <1>7, <1>8, <1>17, <1>19, <1>20

(* What a call leaves of p at other addresses, and of its areas.            *)
OnePage(s, t, p, a) ==
    /\ t.mm[p].mmap = s.mm[p].mmap
    /\ \A b \in Addrs \ {a} : PageAt(t, p, b) = PageAt(s, p, b) /\ See(t, p, b) = See(s, p, b)

(* Two steps for the same page are one.                                     *)
LEMMA OnePageTransitive ==
    ASSUME NEW s, NEW t, NEW u, NEW p, NEW a, OnePage(s, t, p, a), OnePage(t, u, p, a)
    PROVE  OnePage(s, u, p, a)
BY DEF OnePage

(* A step that changes one entry shows in one page.                         *)
LEMMA OneEntryPage ==
    ASSUME NEW s, NEW t, NEW p \in Procs, NEW a, OneEntry(s, t, p, a), ViewStays(s, t, p, a)
    PROVE  OnePage(s, t, p, a)
BY DEF OneEntry, ViewStays, OnePage, PageAt

(* page_remove_pte of an entry whose page is known.                         *)
Without(s, p, a, page) == [s EXCEPT !.ref[page] = @ - 1, !.mm[p].pte[a] = NoEntry]
Removed(s, p, a, page) ==
    IF Without(s, p, a, page).ref[page] = 0 THEN free_page(Without(s, p, a, page), page)
    ELSE Without(s, p, a, page)

(* The count of the new page may as well be raised after the old is gone.   *)
LEMMA RemoveCounted ==
    ASSUME NEW s \in State, NEW p \in Procs, NEW a \in Addrs, NEW page \in Frames,
           NEW old \in Frames, old = PageAt(s, p, a), old # page, NEW u, u = page_remove_pte(s, p, a)
    PROVE  /\ u.ref[page] = s.ref[page] /\ u.data[page] = s.data[page]
           /\ page_remove_pte([s EXCEPT !.ref[page] = @ + 1], p, a) = [u EXCEPT !.ref[page] = @ + 1]
<1> DEFINE ref == [s.ref EXCEPT ![old] = @ - 1]
           more == [s.ref EXCEPT ![page] = @ + 1]
           both == [more EXCEPT ![old] = @ - 1]
           mm == WithEntry(s.mm, p, a, NoEntry)
           left == [s EXCEPT !.ref = ref, !.mm = mm]
           counted == [s EXCEPT !.ref = more]
           last == [s EXCEPT !.ref = both, !.mm = mm]
<1>1. s.ref \in [Frames -> Nat] /\ s.data \in [Frames -> Values]
  BY DEF State
<1>2. /\ both = [ref EXCEPT ![page] = @ + 1] /\ ref[page] = s.ref[page]
      /\ both[old] = s.ref[old] - 1 /\ ref[old] = s.ref[old] - 1
  BY <1>1
<1>3. u = IF ref[old] = 0 THEN free_page(left, old) ELSE left
  <2>1. left.ref[old] = ref[old]
    BY DEF State
  <2>2. left = [s EXCEPT !.ref[old] = @ - 1, !.mm[p].pte[a] = NoEntry]
    BY DEF WithEntry
  <2> HIDE DEF left
  <2> QED BY SMTT(60), <2>1, <2>2 DEF page_remove_pte, PageAt
<1>4. page_remove_pte(counted, p, a) = IF both[old] = 0 THEN free_page(last, old) ELSE last
  <2>1. last.ref[old] = both[old]
    BY DEF State
  <2>2. counted.mm = s.mm /\ counted.ref = more
    BY DEF State
  <2>3. Without(counted, p, a, old) = last
    <3>1. last = [counted EXCEPT !.ref = both, !.mm = mm]
      BY DEF State
    <3>2. Without(counted, p, a, old) =
             [counted EXCEPT !.ref = [counted.ref EXCEPT ![old] = counted.ref[old] - 1],
                             !.mm = WithEntry(counted.mm, p, a, NoEntry)]
      <4> HIDE DEF counted
      <4> QED BY DEF Without, WithEntry
    <3>3. [counted.ref EXCEPT ![old] = counted.ref[old] - 1] = both /\ WithEntry(counted.mm, p, a, NoEntry) = mm
      BY <2>2
    <3> HIDE DEF last, counted, both, mm
    <3> QED BY <3>1, <3>2, <3>3
  <2>4. counted.mm[p].pte[a].page = old
    BY <2>2 DEF PageAt
  <2>5. page_remove_pte(counted, p, a) =
           IF Without(counted, p, a, old).ref[old] = 0 THEN free_page(Without(counted, p, a, old), old)
           ELSE Without(counted, p, a, old)
    <3> HIDE DEF counted
    <3>1. page_remove_pte(counted, p, a) = Removed(counted, p, a, counted.mm[p].pte[a].page)
      BY DEF page_remove_pte, Removed, Without
    <3> QED BY <2>4, <3>1 DEF Removed
  <2> HIDE DEF last, counted, both
  <2> QED BY <2>1, <2>3, <2>5
<1>5. last = [left EXCEPT !.ref[page] = @ + 1] /\ left.ref[page] = s.ref[page] /\ left.data = s.data
  <2>1. left.ref = ref /\ left.data = s.data
    BY DEF State
  <2>2. last = [left EXCEPT !.ref = both]
    BY DEF State
  <2> HIDE DEF last, left, both, ref
  <2> QED BY <1>2, <2>1, <2>2
<1>6. counted = [s EXCEPT !.ref[page] = @ + 1]
  OBVIOUS
<1> HIDE DEF last, left, both, ref, counted, mm, more
<1>8. CASE ref[old] # 0
  <2>1. u = left /\ page_remove_pte(counted, p, a) = last
    BY <1>2, <1>3, <1>4, <1>8
  <2> QED BY <1>5, <1>6, <2>1
<1>9. CASE ref[old] = 0
  <2>1. u = free_page(left, old) /\ page_remove_pte(counted, p, a) = free_page(last, old)
    BY <1>2, <1>3, <1>4, <1>9
  <2>2. free_page(last, old) = [free_page(left, old) EXCEPT !.ref[page] = @ + 1]
        /\ free_page(left, old).ref = left.ref
        /\ free_page(left, old).data = [left.data EXCEPT ![old] = 0]
    <3>1. left.nfree = s.nfree /\ left.free = s.free /\ left.ref = ref /\ left.data = s.data /\ left.mm = mm
      BY DEF left, State
    <3>2. free_page(left, old) = [s EXCEPT !.nfree = s.nfree + 1, !.free = s.free \cup {old},
                                           !.data = [s.data EXCEPT ![old] = 0], !.ref = ref, !.mm = mm]
      BY DEF free_page, left, State
    <3>3. free_page(last, old) = [s EXCEPT !.nfree = s.nfree + 1, !.free = s.free \cup {old},
                                           !.data = [s.data EXCEPT ![old] = 0], !.ref = both, !.mm = mm]
      BY DEF free_page, last, State
    <3>4. free_page(left, old).ref = ref /\ free_page(left, old).data = [s.data EXCEPT ![old] = 0]
      BY <3>2 DEF State
    <3>5. free_page(last, old) = [free_page(left, old) EXCEPT !.ref = both]
      BY <3>2, <3>3 DEF State
    <3> QED BY <1>2, <3>1, <3>4, <3>5
  <2>3. u.data[page] = s.data[page]
    BY <1>1, <1>5, <2>1, <2>2
  <2> QED BY <1>5, <1>6, <2>1, <2>2, <2>3
<1> QED BY <1>8, <1>9

(* What page_insert leaves.                                                 *)
Inserted(x, s, t, p, page, a, e) ==
    /\ t.ok => Sound(t, NULL) /\ t.mm[p].pte[a] = e /\ See(t, p, a) = s.data[page] /\ (t.short <=> s.short)
    /\ ~t.ok => Sound(t, x) /\ t.short /\ PageAt(t, p, a) = PageAt(s, p, a)
    /\ Keeps(s, t, p) /\ OnePage(s, t, p, a) /\ (t.stopped <=> s.stopped)
    /\ PDX0(a) \in s.mm[p].tables => t.ok

(* page_insert: the entry is made, the count of its page and that of a page *)
(* it replaces follow, or no frame was left for a table.                    *)
LEMMA InsertSound ==
    ASSUME NEW x, NEW s, Sound(s, x), s.ok, NEW p \in Procs, s.mm[p].pgdir, NEW a \in Addrs,
           InArea(s, p, a), NEW page, PageAt(s, p, a) # page, NEW e, GivenPage(s, x, page, a, e),
           NEW t, t = page_insert(s, p, page, a, e.w, e.cow)
    PROVE  Inserted(x, s, t, p, page, a, e)
<1> DEFINE pt == get_pte(s, p, a)
<1>1. /\ Sound(pt, x) /\ Keeps(s, pt, p) /\ OnlyTables(s, pt, p)
      /\ pt.ok => PDX0(a) \in pt.mm[p].tables /\ (pt.short <=> s.short)
      /\ ~pt.ok => pt.short
      /\ PDX0(a) \in s.mm[p].tables => pt = s
  BY GetPteSound
<1> DEFINE old == pt.mm[p].pte[a].page
           counted == [pt EXCEPT !.ref[page] = @ + 1]
           cleared == IF old = NULL THEN counted
                      ELSE IF old = page THEN [counted EXCEPT !.ref[page] = @ - 1]
                      ELSE page_remove_pte(counted, p, a)
<1>2. t = IF pt.ok THEN [cleared EXCEPT !.mm[p].pte[a] = e] ELSE pt
  <2>1. e = [page |-> page, w |-> e.w, cow |-> e.cow]
    BY DEF GivenPage, Entry
  <2>2. t = IF pt.ok THEN [cleared EXCEPT !.mm[p].pte[a] = [page |-> page, w |-> e.w, cow |-> e.cow]] ELSE pt
    BY DEF page_insert
  <2> HIDE DEF cleared, pt
  <2> QED BY <2>1, <2>2
<1> HIDE DEF pt, cleared, counted, old
<1>3. /\ pt.ref = s.ref /\ pt.data = s.data /\ (pt.stopped <=> s.stopped)
      /\ \A q \in Procs : pt.mm[q].pte = s.mm[q].pte /\ pt.mm[q].mmap = s.mm[q].mmap /\ (pt.mm[q].pgdir <=> s.mm[q].pgdir)
  BY <1>1 DEF OnlyTables
<1>4. \A q \in Procs : \A b \in Addrs : PageAt(pt, q, b) = PageAt(s, q, b) /\ (InArea(pt, q, b) <=> InArea(s, q, b))
                                       /\ See(pt, q, b) = See(s, q, b)
  BY <1>3 DEF PageAt, InArea, find_vma, See
<1>5. OnePage(s, pt, p, a)
  BY <1>3, <1>4 DEF OnePage
<1>6. CASE ~pt.ok
  <2>1. t = pt
    BY <1>2, <1>6
  <2> QED BY <1>1, <1>3, <1>4, <1>5, <1>6, <2>1 DEF Inserted
<1>7. GivenPage(pt, x, page, a, e) /\ old = PageAt(s, p, a) /\ old # page
  <2>1. ReadAt(pt, page, a)
    BY <1>3, <1>4 DEF GivenPage, ReadAt
  <2>2. old = PageAt(s, p, a)
    BY <1>3 DEF old, PageAt
  <2> QED BY <1>3, <2>1, <2>2 DEF GivenPage
<1>8. page \in Frames /\ e \in Entry /\ e.page = page /\ page # NULL
  BY DEF GivenPage, Frames, NULL
<1>9. CASE pt.ok
  <2>1. PICK u : u = IF old = NULL THEN pt ELSE page_remove_pte(pt, p, a)
    OBVIOUS
  <2>2. /\ Sound(u, x) /\ Keeps(pt, u, p) /\ OnePage(pt, u, p, a) /\ PageAt(u, p, a) = NULL
        /\ (u.ok <=> pt.ok) /\ (u.short <=> pt.short) /\ (u.stopped <=> pt.stopped)
        /\ OneEntry(pt, u, p, a)
    <3>1. CASE old = NULL
      <4>1. u = pt /\ PageAt(pt, p, a) = NULL
        BY <1>4, <1>7, <2>1, <3>1
      <4> QED BY <1>1, <4>1 DEF OnePage, OneEntry, Keeps, Apart
    <3>2. CASE old # NULL
      <4>1. u = page_remove_pte(pt, p, a) /\ PageAt(pt, p, a) # NULL
        BY <1>4, <1>7, <2>1, <3>2
      <4>2. /\ Sound(u, x) /\ Keeps(pt, u, p) /\ OneEntry(pt, u, p, a) /\ ViewStays(pt, u, p, a)
            /\ u.mm[p].pte[a] = NoEntry
            /\ (u.ok <=> pt.ok) /\ (u.short <=> pt.short) /\ (u.stopped <=> pt.stopped)
        BY <1>1, <4>1, RemoveSound
      <4>3. PageAt(u, p, a) = NULL
        BY <4>2 DEF PageAt, NoEntry
      <4> QED BY <4>2, <4>3, OneEntryPage
    <3> QED BY <3>1, <3>2
  <2>3. u.ref[page] = s.ref[page] /\ u.data[page] = s.data[page] /\ u.mm[p].mmap = s.mm[p].mmap /\ (u.mm[p].pgdir <=> s.mm[p].pgdir)
        /\ u.mm[p].tables = pt.mm[p].tables
        /\ t = Put(u, p, page, a, e)
    <3>1. pt \in State /\ t = [cleared EXCEPT !.mm[p].pte[a] = e]
      BY <1>1, <1>2, <1>9 DEF Sound
    <3>2. u.mm[p].mmap = s.mm[p].mmap /\ (u.mm[p].pgdir <=> s.mm[p].pgdir) /\ u.mm[p].tables = pt.mm[p].tables
      BY <1>3, <2>2 DEF OneEntry
    <3>3. CASE old = NULL
      <4>1. u = pt /\ cleared = [pt EXCEPT !.ref[page] = @ + 1]
        BY <2>1, <3>3 DEF cleared, counted
      <4>2. t = [[pt EXCEPT !.ref[page] = @ + 1] EXCEPT !.mm[p].pte[a] = e]
        BY <3>1, <4>1
      <4>3. t = Put(u, p, page, a, e)
        BY <3>1, <4>1, <4>2 DEF Put, State
      <4> QED BY <1>3, <3>2, <4>1, <4>3
    <3>4. CASE old # NULL
      <4>1. u = page_remove_pte(pt, p, a) /\ cleared = page_remove_pte([pt EXCEPT !.ref[page] = @ + 1], p, a)
        BY <1>7, <2>1, <3>4 DEF cleared, counted
      <4>2. old \in Frames /\ old = PageAt(pt, p, a)
        BY <1>1, <1>4, <1>7, <3>4, MappedIs
      <4>3. /\ u.ref[page] = pt.ref[page] /\ u.data[page] = pt.data[page]
            /\ cleared = [u EXCEPT !.ref[page] = @ + 1]
        BY SMTT(60), <1>7, <1>8, <3>1, <4>1, <4>2, RemoveCounted
      <4>4. t = [[u EXCEPT !.ref[page] = @ + 1] EXCEPT !.mm[p].pte[a] = e] /\ u \in State
        BY <2>2, <3>1, <4>3 DEF Sound
      <4>5. t = Put(u, p, page, a, e)
        BY <4>4 DEF Put, State
      <4> QED BY <1>3, <3>2, <4>3, <4>5
    <3> QED BY <3>3, <3>4
  <2>4. GivenPage(u, x, page, a, e)
    <3>1. OthersStay(pt, u, p, a)
      BY <2>2, OneEntryIs
    <3>2. ASSUME NEW q \in Procs, NEW b \in Addrs, PageAt(u, q, b) = page PROVE b = a /\ ~u.mm[q].pte[b].w
      <4>1. q # p \/ b # a
        BY <1>8, <2>2, <3>2
      <4>2. PageAt(u, q, b) = PageAt(pt, q, b) /\ u.mm[q].pte[b] = pt.mm[q].pte[b]
        BY <3>1, <4>1 DEF OthersStay
      <4> QED BY <1>7, <3>2, <4>2 DEF GivenPage, ReadAt
    <3>3. ReadAt(u, page, a)
      BY <3>2 DEF ReadAt
    <3> QED BY <1>3, <1>7, <2>3, <3>3 DEF GivenPage
  <2>5. InArea(u, p, a) /\ PDX0(a) \in u.mm[p].tables /\ u.mm[p].pgdir
    <3>1. InArea(u, p, a)
      BY <2>3 DEF InArea, find_vma
    <3> QED BY <1>1, <1>9, <2>3, <3>1
  <2>6. /\ Sound(t, NULL) /\ Keeps(u, t, p) /\ OneEntry(u, t, p, a) /\ ViewStays(u, t, p, a)
        /\ t.mm[p].pte[a] = e /\ t.data = u.data
        /\ (t.ok <=> u.ok) /\ (t.short <=> u.short) /\ (t.stopped <=> u.stopped)
    BY <2>2, <2>3, <2>4, <2>5, PutSound
  <2>7. Keeps(s, t, p)
    BY <1>1, <2>2, <2>6, KeepsTransitive
  <2>8. OnePage(s, t, p, a)
    BY <1>5, <2>2, <2>6, OneEntryPage, OnePageTransitive
  <2>9. See(t, p, a) = s.data[page]
    BY <1>8, <2>3, <2>6 DEF See, PageAt
  <2>10. t.ok /\ (t.short <=> s.short) /\ (t.stopped <=> s.stopped)
    BY <1>1, <1>3, <1>9, <2>2, <2>6
  <2> QED BY <2>6, <2>7, <2>8, <2>9, <2>10 DEF Inserted
<1> QED BY <1>6, <1>9

(* A page in hand is not mapped: an entry may be made for it.               *)
LEMMA FreshPage ==
    ASSUME NEW page, NEW s, Sound(s, page), page # NULL, NEW a, NEW w \in BOOLEAN,
           NEW e, e = [page |-> page, w |-> w, cow |-> FALSE]
    PROVE  GivenPage(s, page, page, a, e) /\ \A q \in Procs : \A b \in Addrs : PageAt(s, q, b) # page
<1>1. \A q \in Procs : \A b \in Addrs : PageAt(s, q, b) # page
  BY MappedIs
<1>2. page \in Frames
  BY DEF Sound, InHand
<1>3. e \in Entry /\ e.page = page /\ ~e.cow
  BY <1>2 DEF Entry
<1> QED BY <1>1, <1>2, <1>3 DEF GivenPage, ReadAt

(* A page is there after it was taken and put into an empty place.          *)
LEMMA SeeSame ==
    ASSUME NEW s, NEW t, NEW p \in Procs, NEW a, SameView(s, t), t.mm = s.mm
    PROVE  OnePage(s, t, p, a) /\ \A b \in Addrs : PageAt(t, p, b) = PageAt(s, p, b) /\ (InArea(t, p, b) <=> InArea(s, p, b))
BY DEF SameView, OnePage, PageAt, InArea, find_vma

(* pgdir_alloc_page.                                                        *)
LEMMA AllocPageSound ==
    ASSUME NEW s, Sound(s, NULL), s.ok, NEW p \in Procs, s.mm[p].pgdir, NEW a \in Addrs, InArea(s, p, a),
           NEW w \in BOOLEAN, NEW value \in Values, NEW t, t = pgdir_alloc_page(s, p, a, w, value)
    PROVE  /\ Sound(t, NULL) /\ Keeps(s, t, p) /\ OnePage(s, t, p, a) /\ (t.stopped <=> s.stopped)
           /\ t.ok => See(t, p, a) = value /\ (t.short <=> s.short)
           /\ ~t.ok => t.short
<1> DEFINE page == NextFrame(s)
           u == alloc_page(s, value)
           put == page_insert(u, p, page, a, w, FALSE)
           e == [page |-> page, w |-> w, cow |-> FALSE]
<1>1. t = IF page = NULL THEN u ELSE IF ~put.ok THEN free_page(put, page) ELSE put
  BY DEF pgdir_alloc_page
<1>2. CASE s.nfree = 0
  <2> DEFINE v == TakeFrame(s)
  <2>1. /\ page = NULL /\ u = v /\ Sound(v, NULL) /\ Keeps(s, v, p) /\ SameView(s, v)
        /\ v.mm = s.mm /\ ~v.ok /\ v.short /\ (v.stopped <=> s.stopped)
    BY <1>2, AllocFails
  <2>2. t = v
    BY <1>1, <2>1
  <2> QED BY <2>1, <2>2, SeeSame
<1>3. CASE s.nfree # 0
  <2>0. page = NextFrame(s) /\ u = alloc_page(s, value)
    OBVIOUS
  <2> HIDE DEF page, u
  <2>1. /\ page \in Frames /\ page # NULL /\ s.ref[page] = 0
        /\ Sound(u, page) /\ Keeps(s, u, p) /\ SameView(s, u)
        /\ u.mm = s.mm /\ u.ref = s.ref /\ u.data[page] = value
        /\ (u.ok <=> s.ok) /\ (u.short <=> s.short) /\ (u.stopped <=> s.stopped)
    BY <1>3, <2>0, AllocSound
  <2>2. GivenPage(u, page, page, a, e) /\ PageAt(u, p, a) # page
    BY <2>1, FreshPage
  <2>3. OnePage(s, u, p, a) /\ InArea(u, p, a) /\ u.mm[p].pgdir
    BY <2>1, SeeSame
  <2> HIDE DEF e
  <2>4. put = page_insert(u, p, page, a, e.w, e.cow) /\ u.ok
    BY <2>1 DEF e
  <2> HIDE DEF put
  <2>5. /\ put.ok => Sound(put, NULL) /\ put.mm[p].pte[a] = e /\ See(put, p, a) = u.data[page] /\ (put.short <=> u.short)
        /\ ~put.ok => Sound(put, page) /\ put.short
        /\ Keeps(u, put, p) /\ OnePage(u, put, p, a) /\ (put.stopped <=> u.stopped)
    <3>1. Inserted(page, u, put, p, page, a, e)
      BY <2>1, <2>2, <2>3, <2>4, InsertSound
    <3> QED BY <3>1 DEF Inserted
  <2>6. Keeps(s, put, p) /\ OnePage(s, put, p, a)
    BY <2>1, <2>3, <2>5, KeepsTransitive, OnePageTransitive
  <2>7. CASE put.ok
    <3>1. t = put
      BY <1>1, <2>1, <2>7
    <3> QED BY <2>1, <2>5, <2>6, <2>7, <3>1
  <2>8. CASE ~put.ok
    <3>1. t = free_page(put, page)
      BY <1>1, <2>1, <2>8
    <3>2. /\ Sound(t, NULL) /\ Keeps(put, t, p) /\ SameView(put, t)
          /\ t.mm = put.mm /\ (t.ok <=> put.ok) /\ (t.short <=> put.short) /\ (t.stopped <=> put.stopped)
      BY <2>1, <2>5, <2>8, <3>1, FreeSound
    <3>3. Keeps(s, t, p) /\ OnePage(s, t, p, a)
      BY <2>6, <3>2, SeeSame, KeepsTransitive, OnePageTransitive
    <3> QED BY <2>1, <2>5, <2>8, <3>2, <3>3
  <2> QED BY <2>7, <2>8
<1> QED BY <1>2, <1>3

-----------------------------------------------------------------------------
(* unmap_range and exit_range.                                              *)

(* What unmapping leaves of p: nothing new.                                 *)
Unmapped(s, t, p) ==
    /\ (t.mm[p].pgdir <=> s.mm[p].pgdir) /\ t.mm[p].dirs = s.mm[p].dirs
    /\ t.mm[p].tables = s.mm[p].tables /\ t.mm[p].mmap = s.mm[p].mmap
    /\ \A b \in Addrs : PageAt(s, p, b) = NULL => PageAt(t, p, b) = NULL
    /\ (t.ok <=> s.ok) /\ (t.short <=> s.short) /\ (t.stopped <=> s.stopped)

(* What two loops have unmapped both together have.                         *)
LEMMA UnmappedTransitive ==
    ASSUME NEW s, NEW t, NEW u, NEW p, Unmapped(s, t, p), Unmapped(t, u, p)
    PROVE  Unmapped(s, u, p)
BY DEF Unmapped

(* A loop without turns changes nothing.                                    *)
LEMMA KeepsItself == ASSUME NEW s, NEW p PROVE Keeps(s, s, p) /\ Unmapped(s, s, p)
BY DEF Keeps, Apart, Unmapped

(* A turn of unmap_range: the entry is gone, and the frame with it if this  *)
(* was the last one; the memory stays right.                                *)
LEMMA UnmapPageSound ==
    ASSUME NEW s, Sound(s, NULL), NEW p \in Procs, NEW a \in Addrs, NEW t, t = UnmapPage(s, p, a)
    PROVE  Sound(t, NULL) /\ Keeps(s, t, p) /\ Unmapped(s, t, p) /\ PageAt(t, p, a) = NULL
<1>1. CASE PageAt(s, p, a) = NULL
  <2>1. t = s
    BY <1>1 DEF UnmapPage, PageAt
  <2> QED BY <1>1, <2>1, KeepsItself
<1>2. CASE PageAt(s, p, a) # NULL
  <2>1. t = page_remove_pte(s, p, a)
    BY <1>2 DEF UnmapPage, PageAt
  <2>2. /\ Sound(t, NULL) /\ Keeps(s, t, p) /\ OneEntry(s, t, p, a)
        /\ t.mm[p].pte[a] = NoEntry
        /\ (t.ok <=> s.ok) /\ (t.short <=> s.short) /\ (t.stopped <=> s.stopped)
    BY <1>2, <2>1, RemoveSound
  <2>3. PageAt(t, p, a) = NULL
    BY <2>2 DEF PageAt, NoEntry
  <2>4. \A b \in Addrs : PageAt(s, p, b) = NULL => PageAt(t, p, b) = NULL
    BY <2>2, <2>3 DEF OneEntry, PageAt
  <2> QED BY <2>2, <2>3, <2>4 DEF Unmapped, OneEntry
<1> QED BY <1>1, <1>2

(* unmap_range leaves no entry in the range.                                *)
LEMMA UnmapRangeSound ==
    ASSUME NEW s, Sound(s, NULL), NEW p \in Procs, NEW lo \in Nat, NEW hi \in Nat, lo <= hi, hi <= VASize,
           NEW t, t = unmap_range(s, p, lo, hi)
    PROVE  Sound(t, NULL) /\ Keeps(s, t, p) /\ Unmapped(s, t, p) /\ \A a \in lo..(hi - 1) : PageAt(t, p, a) = NULL
<1>0. PICK f : UnmapRun(f, s, p, lo, hi)
  BY UnmapSteps
<1>1. /\ f[0] = s
      /\ \A k \in 1..(hi - lo) : f[k] = UnmapPage(f[k - 1], p, lo + k - 1)
      /\ t = f[hi - lo]
  BY <1>0 DEF UnmapRun
<1> DEFINE Done(k) == /\ Sound(f[k], NULL) /\ Keeps(s, f[k], p) /\ Unmapped(s, f[k], p)
                      /\ \A a \in lo..(lo + k - 1) : PageAt(f[k], p, a) = NULL
           T == {k \in Nat : k <= hi - lo => Done(k)}
<1>2. 0 \in T
  BY <1>1, KeepsItself
<1>3. ASSUME NEW k \in Nat, k \in T PROVE k + 1 \in T
  <2> SUFFICES ASSUME k + 1 <= hi - lo PROVE Done(k + 1)
    OBVIOUS
  <2>1. Done(k) /\ k + 1 \in 1..(hi - lo) /\ lo + k \in Addrs
    BY <1>3, Sizes DEF Addrs
  <2>2. f[k + 1] = UnmapPage(f[k], p, lo + k)
    <3>1. f[k + 1] = UnmapPage(f[(k + 1) - 1], p, lo + (k + 1) - 1)
      BY <1>1, <2>1
    <3>2. (k + 1) - 1 = k /\ lo + (k + 1) - 1 = lo + k
      OBVIOUS
    <3> QED BY <3>1, <3>2
  <2>3. Sound(f[k + 1], NULL) /\ Keeps(f[k], f[k + 1], p) /\ Unmapped(f[k], f[k + 1], p) /\ PageAt(f[k + 1], p, lo + k) = NULL
    BY <2>1, <2>2, UnmapPageSound
  <2>4. Keeps(s, f[k + 1], p) /\ Unmapped(s, f[k + 1], p)
    BY <2>1, <2>3, KeepsTransitive, UnmappedTransitive
  <2>5. ASSUME NEW a \in lo..(lo + (k + 1) - 1) PROVE PageAt(f[k + 1], p, a) = NULL
    <3>1. CASE a = lo + k
      BY <2>3, <3>1
    <3>2. CASE a # lo + k
      <4>1. a \in lo..(lo + k - 1) /\ a \in Addrs
        BY <2>1, <3>2, Sizes DEF Addrs
      <4>2. PageAt(f[k], p, a) = NULL
        BY <2>1, <4>1
      <4> QED BY <2>3, <4>1, <4>2 DEF Unmapped
    <3> QED BY <3>1, <3>2
  <2> QED BY <2>3, <2>4, <2>5
<1> HIDE DEF T
<1>4. hi - lo \in T
  BY <1>2, <1>3, SetInduction
<1>5. Done(hi - lo)
  BY <1>4 DEF T
<1>6. lo + (hi - lo) - 1 = hi - 1
  OBVIOUS
<1> QED BY <1>1, <1>5, <1>6

(* Every area of p is unmapped.                                             *)
Gone(t, p, area) == \A a \in area.lo..(area.hi - 1) : PageAt(t, p, a) = NULL
Bare(s, p) == \A a \in Addrs : PageAt(s, p, a) = NULL

(* An area is not empty and lies below VASize.                              *)
LEMMA AreaBounds ==
    ASSUME NEW area \in Area
    PROVE  /\ area.lo \in Nat /\ area.hi \in Nat /\ area.lo < area.hi /\ area.hi <= VASize
           /\ \A a \in area.lo..(area.hi - 1) : a \in Addrs
BY Sizes DEF Area, Addrs

(* find_vma finds an area just when one of the list has the address.        *)
LEMMA InAreaIs ==
    ASSUME NEW s, NEW p, NEW A, s.mm[p].mmap \in Seq(A), NEW a
    PROVE  InArea(s, p, a) <=> \E k \in 1..Len(s.mm[p].mmap) : s.mm[p].mmap[k].lo <= a /\ a < s.mm[p].mmap[k].hi
BY DEF InArea, find_vma, Range

(* The first loop of exit_mmap leaves no entry in the areas it has passed.  *)
LEMMA UnmapAreasSound ==
    ASSUME NEW s, Sound(s, NULL), NEW p \in Procs, NEW mmap \in Seq(Area), NEW t, t = UnmapAreas(s, p, mmap)
    PROVE  Sound(t, NULL) /\ Keeps(s, t, p) /\ Unmapped(s, t, p) /\ \A k \in 1..Len(mmap) : Gone(t, p, mmap[k])
<1>0. PICK f : UnmapAreasRun(f, s, p, mmap)
  BY UnmapAreasSteps
<1>1. /\ f[0] = s
      /\ \A k \in 1..Len(mmap) : f[k] = unmap_range(f[k - 1], p, mmap[k].lo, mmap[k].hi)
      /\ t = f[Len(mmap)]
  BY <1>0 DEF UnmapAreasRun
<1> DEFINE Done(k) == /\ Sound(f[k], NULL) /\ Keeps(s, f[k], p) /\ Unmapped(s, f[k], p)
                      /\ \A i \in 1..k : Gone(f[k], p, mmap[i])
           T == {k \in Nat : k <= Len(mmap) => Done(k)}
<1>2. 0 \in T
  BY <1>1, KeepsItself
<1>3. ASSUME NEW k \in Nat, k \in T PROVE k + 1 \in T
  <2> SUFFICES ASSUME k + 1 <= Len(mmap) PROVE Done(k + 1)
    OBVIOUS
  <2>1. Done(k) /\ k + 1 \in 1..Len(mmap)
    BY <1>3
  <2>2. f[k + 1] = unmap_range(f[k], p, mmap[k + 1].lo, mmap[k + 1].hi)
    <3>1. f[k + 1] = unmap_range(f[(k + 1) - 1], p, mmap[k + 1].lo, mmap[k + 1].hi)
      BY <1>1, <2>1
    <3>2. (k + 1) - 1 = k
      OBVIOUS
    <3> QED BY <3>1, <3>2
  <2>3. mmap[k + 1] \in Area
    BY <2>1
  <2>4. mmap[k + 1].lo \in Nat /\ mmap[k + 1].hi \in Nat /\ mmap[k + 1].lo <= mmap[k + 1].hi /\ mmap[k + 1].hi <= VASize
    BY <2>3, AreaBounds
  <2>5. /\ Sound(f[k + 1], NULL) /\ Keeps(f[k], f[k + 1], p) /\ Unmapped(f[k], f[k + 1], p)
        /\ Gone(f[k + 1], p, mmap[k + 1])
    BY <2>1, <2>2, <2>4, UnmapRangeSound DEF Gone
  <2>6. Keeps(s, f[k + 1], p) /\ Unmapped(s, f[k + 1], p)
    BY <2>1, <2>5, KeepsTransitive, UnmappedTransitive
  <2>7. ASSUME NEW i \in 1..(k + 1) PROVE Gone(f[k + 1], p, mmap[i])
    <3>1. CASE i = k + 1
      BY <2>5, <3>1
    <3>2. CASE i # k + 1
      <4>1. i \in 1..k /\ mmap[i] \in Area
        BY <2>1, <3>2
      <4>2. Gone(f[k], p, mmap[i]) /\ \A a \in mmap[i].lo..(mmap[i].hi - 1) : a \in Addrs
        BY <2>1, <4>1, AreaBounds
      <4> QED BY <2>5, <4>2 DEF Gone, Unmapped
    <3> QED BY <3>1, <3>2
  <2> QED BY <2>5, <2>6, <2>7
<1> HIDE DEF T
<1>4. Len(mmap) \in T
  BY <1>2, <1>3, SetInduction
<1>5. Done(Len(mmap))
  BY <1>4 DEF T
<1> QED BY <1>1, <1>5

(* At its end the process has no entry at all, since what is mapped is in   *)
(* an area.                                                                 *)
LEMMA UnmapAllSound ==
    ASSUME NEW s, Sound(s, NULL), NEW p \in Procs, NEW t, t = UnmapAreas(s, p, s.mm[p].mmap)
    PROVE  Sound(t, NULL) /\ Keeps(s, t, p) /\ Unmapped(s, t, p) /\ Bare(t, p)
<1>1. s.mm[p].mmap \in Seq(Area)
  BY DEF Sound, State, Mm
<1>2. /\ Sound(t, NULL) /\ Keeps(s, t, p) /\ Unmapped(s, t, p)
      /\ \A k \in 1..Len(s.mm[p].mmap) : Gone(t, p, s.mm[p].mmap[k])
  BY <1>1, UnmapAreasSound
<1>3. t.mm[p].mmap = s.mm[p].mmap
  BY <1>2 DEF Unmapped
<1>4. ASSUME NEW a \in Addrs, PageAt(t, p, a) # NULL PROVE FALSE
  <2>1. InArea(t, p, a)
    BY <1>2, <1>4 DEF Sound, PlacesOk, Mapped
  <2>2. PICK k \in 1..Len(s.mm[p].mmap) : s.mm[p].mmap[k].lo <= a /\ a < s.mm[p].mmap[k].hi
    <3>1. t.mm[p].mmap \in Seq(Area)
      BY <1>1, <1>3
    <3> QED BY <1>3, <2>1, <3>1, InAreaIs
  <2>3. s.mm[p].mmap[k] \in Area
    BY <1>1
  <2>4. a \in s.mm[p].mmap[k].lo..(s.mm[p].mmap[k].hi - 1)
    BY <2>2, <2>3, AreaBounds, Sizes DEF Addrs
  <2> QED BY <1>2, <1>4, <2>4 DEF Gone
<1> QED BY <1>2, <1>4 DEF Bare

(* The number of lost frames is a number.                                   *)
LEMMA LostInt == ASSUME NEW s \in State PROVE LostIn(s) \in Int
<1>1. s.nfree \in Nat
  BY DEF State
<1>2. PICK f \in Nat, r \in Nat, d \in Nat, n \in Nat :
         /\ f = Cardinality(Frames \ s.free) /\ r = Cardinality(Roots(s))
         /\ d = Cardinality(Directories(s)) /\ n = Cardinality(PageTables(s))
  BY CountsAre
<1>3. LostIn(s) = NPages - s.nfree - f - r - d - n
  BY <1>2 DEF LostIn
<1> QED BY <1>1, <1>3, Sizes

(* The frames of p below its page directory are all that becomes fewer.     *)
LEMMA SplitCount ==
    ASSUME NEW S, IsFiniteSet(S), NEW T, T \subseteq S
    PROVE  Cardinality(S) = Cardinality(T) + Cardinality(S \ T) /\ Cardinality(T) \in Nat /\ Cardinality(S \ T) \in Nat
<1>1. IsFiniteSet(T) /\ IsFiniteSet(S \ T) /\ S \cap T = T
  BY FS_Subset
<1>2. Cardinality(S \ T) = Cardinality(S) - Cardinality(T)
  BY <1>1, FS_Difference
<1>3. Cardinality(S) \in Nat /\ Cardinality(T) \in Nat /\ Cardinality(S \ T) \in Nat
  BY <1>1, FS_CardinalityType
<1> QED BY <1>2, <1>3

(* The tables of one process are as many as their numbers.                  *)
LEMMA PairCount ==
    ASSUME NEW p, NEW S, IsFiniteSet(S)
    PROVE  Cardinality({p} \X S) = Cardinality(S)
<1>1. IsFiniteSet({p}) /\ Cardinality({p}) = 1 /\ Cardinality(S) \in Nat
  BY FS_Singleton, FS_CardinalityType
<1>2. Cardinality({p} \X S) = Cardinality({p}) * Cardinality(S)
  BY <1>1, FS_Product
<1> QED BY <1>1, <1>2

(* A process that gives directories back has as many fewer, and so has the  *)
(* system.                                                                  *)
LEMMA DirectoriesShrink ==
    ASSUME NEW s \in State, NEW t, NEW p \in Procs, \A q \in Procs \ {p} : t.mm[q].dirs = s.mm[q].dirs,
           t.mm[p].dirs \subseteq s.mm[p].dirs
    PROVE  /\ Cardinality(Directories(s)) = Cardinality(Directories(t)) + Cardinality(s.mm[p].dirs \ t.mm[p].dirs)
           /\ Cardinality(s.mm[p].dirs \ t.mm[p].dirs) \in Nat
<1> DEFINE X == s.mm[p].dirs \ t.mm[p].dirs
<1>1. s.mm[p].dirs \subseteq DirNumbers
  BY DEF State, Mm
<1>2. IsFiniteSet(X)
  BY <1>1, NumbersFinite, FS_Subset
<1>3. Directories(t) \subseteq Directories(s)
  BY DEF Directories
<1>4. Directories(s) \ Directories(t) = {p} \X X
  <2>1. /\ \A u : \A pd \in Procs \X DirNumbers : pd \in Directories(u) <=> pd[2] \in u.mm[pd[1]].dirs
        /\ Directories(s) \subseteq Procs \X DirNumbers
    BY DEF Directories
  <2>2. ASSUME NEW pd \in Procs \X DirNumbers
        PROVE  pd \in Directories(s) \ Directories(t) <=> pd \in {p} \X X
    <3>1. pd = <<pd[1], pd[2]>> /\ pd[1] \in Procs
      OBVIOUS
    <3>2. pd \in {p} \X X <=> pd[1] = p /\ pd[2] \in X
      <4> HIDE DEF X
      <4> QED BY <3>1
    <3>3. CASE pd[1] = p
      BY <2>1, <3>2, <3>3
    <3>4. CASE pd[1] # p
      BY <2>1, <3>1, <3>2, <3>4
    <3> QED BY <3>3, <3>4
  <2>3. {p} \X X \subseteq Procs \X DirNumbers
    BY <1>1
  <2> HIDE DEF X
  <2> QED BY <2>1, <2>2, <2>3
<1> HIDE DEF X
<1>5. Cardinality({p} \X X) = Cardinality(X) /\ Cardinality(X) \in Nat
  BY <1>2, PairCount, FS_CardinalityType
<1>6. Cardinality(Directories(s)) = Cardinality(Directories(t)) + Cardinality({p} \X X)
  <2>1. IsFiniteSet(Directories(s))
    BY CountsAre
  <2>2. Cardinality(Directories(s)) = Cardinality(Directories(t)) + Cardinality(Directories(s) \ Directories(t))
    BY <1>3, <2>1, SplitCount
  <2> QED BY <1>4, <2>2
<1> QED BY <1>5, <1>6 DEF X

(* The same of tables.                                                      *)
LEMMA TablesShrink ==
    ASSUME NEW s \in State, NEW t, NEW p \in Procs, \A q \in Procs \ {p} : t.mm[q].tables = s.mm[q].tables,
           t.mm[p].tables \subseteq s.mm[p].tables
    PROVE  /\ Cardinality(PageTables(s)) = Cardinality(PageTables(t)) + Cardinality(s.mm[p].tables \ t.mm[p].tables)
           /\ Cardinality(s.mm[p].tables \ t.mm[p].tables) \in Nat
<1> DEFINE X == s.mm[p].tables \ t.mm[p].tables
<1>1. s.mm[p].tables \subseteq TableNumbers
  BY DEF State, Mm
<1>2. IsFiniteSet(X)
  BY <1>1, NumbersFinite, FS_Subset
<1>3. PageTables(t) \subseteq PageTables(s)
  BY DEF PageTables
<1>4. PageTables(s) \ PageTables(t) = {p} \X X
  <2>1. /\ \A u : \A pd \in Procs \X TableNumbers : pd \in PageTables(u) <=> pd[2] \in u.mm[pd[1]].tables
        /\ PageTables(s) \subseteq Procs \X TableNumbers
    BY DEF PageTables
  <2>2. ASSUME NEW pd \in Procs \X TableNumbers
        PROVE  pd \in PageTables(s) \ PageTables(t) <=> pd \in {p} \X X
    <3>1. pd = <<pd[1], pd[2]>> /\ pd[1] \in Procs
      OBVIOUS
    <3>2. pd \in {p} \X X <=> pd[1] = p /\ pd[2] \in X
      <4> HIDE DEF X
      <4> QED BY <3>1
    <3>3. CASE pd[1] = p
      BY <2>1, <3>2, <3>3
    <3>4. CASE pd[1] # p
      BY <2>1, <3>1, <3>2, <3>4
    <3> QED BY <3>3, <3>4
  <2>3. {p} \X X \subseteq Procs \X TableNumbers
    BY <1>1
  <2> HIDE DEF X
  <2> QED BY <2>1, <2>2, <2>3
<1> HIDE DEF X
<1>5. Cardinality({p} \X X) = Cardinality(X) /\ Cardinality(X) \in Nat
  BY <1>2, PairCount, FS_CardinalityType
<1>6. Cardinality(PageTables(s)) = Cardinality(PageTables(t)) + Cardinality({p} \X X)
  <2>1. IsFiniteSet(PageTables(s))
    BY CountsAre
  <2>2. Cardinality(PageTables(s)) = Cardinality(PageTables(t)) + Cardinality(PageTables(s) \ PageTables(t))
    BY <1>3, <2>1, SplitCount
  <2> QED BY <1>4, <2>2
<1> QED BY <1>5, <1>6 DEF X

(* What becomes of the frames when tables of p are given back or forgotten. *)
LEMMA FewerLost ==
    ASSUME NEW s \in State, NEW t \in State, NEW p \in Procs, OnlyTables(s, t, p),
           t.mm[p].dirs \subseteq s.mm[p].dirs, t.mm[p].tables \subseteq s.mm[p].tables
    PROVE  /\ LostIn(t) = LostIn(s) + s.nfree - t.nfree + Cardinality(s.mm[p].dirs \ t.mm[p].dirs)
                                                        + Cardinality(s.mm[p].tables \ t.mm[p].tables)
           /\ Cardinality(s.mm[p].dirs \ t.mm[p].dirs) \in Nat
           /\ Cardinality(s.mm[p].tables \ t.mm[p].tables) \in Nat
<1>1. t.free = s.free /\ \A q \in Procs \ {p} : t.mm[q] = s.mm[q]
  BY DEF OnlyTables
<1>2. Roots(t) = Roots(s)
  BY <1>1 DEF Roots, OnlyTables
<1>3. PICK f \in Nat, r \in Nat, d \in Nat, n \in Nat :
         /\ f = Cardinality(Frames \ t.free) /\ r = Cardinality(Roots(t))
         /\ d = Cardinality(Directories(t)) /\ n = Cardinality(PageTables(t))
  BY CountsAre
<1>4. PICK i \in Nat, j \in Nat :
         /\ i = Cardinality(s.mm[p].dirs \ t.mm[p].dirs) /\ j = Cardinality(s.mm[p].tables \ t.mm[p].tables)
         /\ Cardinality(Directories(s)) = d + i /\ Cardinality(PageTables(s)) = n + j
  <2>1. /\ Cardinality(Directories(s)) = Cardinality(Directories(t)) + Cardinality(s.mm[p].dirs \ t.mm[p].dirs)
        /\ Cardinality(s.mm[p].dirs \ t.mm[p].dirs) \in Nat
    <3>1. \A q \in Procs \ {p} : t.mm[q].dirs = s.mm[q].dirs
      BY <1>1
    <3> QED BY <3>1, DirectoriesShrink
  <2>2. /\ Cardinality(PageTables(s)) = Cardinality(PageTables(t)) + Cardinality(s.mm[p].tables \ t.mm[p].tables)
        /\ Cardinality(s.mm[p].tables \ t.mm[p].tables) \in Nat
    <3>1. \A q \in Procs \ {p} : t.mm[q].tables = s.mm[q].tables
      BY <1>1
    <3> QED BY <3>1, TablesShrink
  <2> QED BY <1>3, <2>1, <2>2
<1>5. LostIn(t) = NPages - t.nfree - f - r - d - n
  BY <1>3 DEF LostIn
<1>6. LostIn(s) = NPages - s.nfree - f - r - (d + i) - (n + j)
  BY <1>1, <1>2, <1>3, <1>4 DEF LostIn
<1>7. s.nfree \in Nat /\ t.nfree \in Nat
  BY DEF State
<1>8. LostIn(t) = LostIn(s) + s.nfree - t.nfree + i + j
  BY <1>5, <1>6, <1>7, Sizes
<1> QED BY <1>4, <1>8

(* Tables that are given back when no entry is left disturb nothing.        *)
LEMMA FewerTables ==
    ASSUME NEW s, Sound(s, NULL), NEW p \in Procs, Bare(s, p), NEW t \in State, OnlyTables(s, t, p),
           LostIn(t) >= 0, \A b \in Addrs : PDX0(b) \in t.mm[p].tables => PDX1(b) \in t.mm[p].dirs,
           s.mm[p].pgdir
    PROVE  Sound(t, NULL) /\ Apart(s, t, p) /\ Bare(t, p)
<1>1. /\ t.ref = s.ref /\ t.free = s.free /\ t.data = s.data
      /\ \A q \in Procs : t.mm[q].pte = s.mm[q].pte /\ t.mm[q].mmap = s.mm[q].mmap
                          /\ (t.mm[q].pgdir <=> s.mm[q].pgdir)
      /\ \A q \in Procs \ {p} : t.mm[q] = s.mm[q]
  BY DEF OnlyTables
<1>2. FramesOk(t, NULL) /\ InHand(t, NULL)
  BY <1>1, FramesSame DEF Sound, InHand
<1>3. \A q \in Procs : \A b \in Addrs : PageAt(t, q, b) = PageAt(s, q, b) /\ (InArea(t, q, b) <=> InArea(s, q, b))
  BY <1>1 DEF PageAt, InArea, find_vma
<1>4. Bare(t, p)
  BY <1>3 DEF Bare
<1>5. Mapped(t)
  <2> SUFFICES ASSUME NEW q \in Procs, NEW b \in Addrs, PageAt(t, q, b) # NULL
               PROVE  InArea(t, q, b) /\ PDX0(b) \in t.mm[q].tables
    BY DEF Mapped
  <2>1. q # p
    BY <1>4 DEF Bare
  <2> QED BY <1>1, <1>3, <2>1 DEF Sound, PlacesOk, Mapped
<1>6. Hang(t)
  <2> SUFFICES ASSUME NEW q \in Procs, NEW b \in Addrs, PDX0(b) \in t.mm[q].tables
               PROVE  PDX1(b) \in t.mm[q].dirs
    BY DEF Hang
  <2>1. CASE q # p
    BY <1>1, <2>1 DEF Sound, PlacesOk, Hang
  <2> QED BY <2>1
<1>7. Rising(t)
  BY <1>1 DEF Sound, PlacesOk, Rising
<1>8. Rooted(t)
  BY <1>1 DEF Sound, PlacesOk, Rooted
<1>9. Apart(s, t, p)
  BY <1>1, <1>3 DEF Apart, See
<1> QED BY <1>2, <1>4, <1>5, <1>6, <1>7, <1>8, <1>9 DEF Sound, PlacesOk

(* Two pages of areas under one directory are in one table.                 *)
Roomy(s, p) ==
    \A a, b \in Addrs : InArea(s, p, a) /\ InArea(s, p, b) /\ PDX1(a) = PDX1(b) => PDX0(a) = PDX0(b)

(* What giving tables back does: frames are forgotten only if there is not  *)
(* room, or some were missing before.                                       *)
Exited(s, t, p) ==
    /\ Apart(s, t, p) /\ LostIn(t) >= LostIn(s)
    /\ (t.mm[p].pgdir <=> s.mm[p].pgdir) /\ t.mm[p].pte = s.mm[p].pte /\ t.mm[p].mmap = s.mm[p].mmap
    /\ t.mm[p].dirs \subseteq s.mm[p].dirs
    /\ (t.ok <=> s.ok) /\ (t.short <=> s.short) /\ (t.stopped <=> s.stopped)
    /\ Roomy(s, p) /\ Snug(s, p) => Snug(t, p) /\ LostIn(t) = LostIn(s)

(* Two steps of exit_range together lose nothing if neither does.           *)
LEMMA ExitedTransitive ==
    ASSUME NEW s \in State, NEW t \in State, NEW u \in State, NEW p \in Procs, Exited(s, t, p), Exited(t, u, p)
    PROVE  Exited(s, u, p)
<1>1. LostIn(u) >= LostIn(s)
  BY LostInt DEF Exited
<1>2. Apart(s, u, p)
  BY ApartTransitive DEF Exited
<1>3. Roomy(s, p) => Roomy(t, p)
  BY DEF Roomy, InArea, find_vma, Exited
<1> QED BY <1>1, <1>2, <1>3 DEF Exited

(* exit_range over no directory changes nothing.                            *)
LEMMA ExitedItself == ASSUME NEW s \in State, NEW p PROVE Exited(s, s, p)
BY LostInt DEF Exited, Apart

(* The tables of p are replaced.                                            *)
NewTables(s, p, nfree, dirs, tables) ==
    [s EXCEPT !.nfree = nfree, !.mm = [s.mm EXCEPT ![p] = [s.mm[p] EXCEPT !.dirs = dirs, !.tables = tables]]]

(* What setting the tables of one process means for the state.              *)
LEMMA NewTablesAre ==
    ASSUME NEW s \in State, NEW p \in Procs, NEW nfree \in Nat, NEW dirs \in SUBSET DirNumbers,
           NEW tables \in SUBSET TableNumbers, NEW t, t = NewTables(s, p, nfree, dirs, tables)
    PROVE  /\ t \in State /\ OnlyTables(s, t, p) /\ t.nfree = nfree
           /\ t.mm[p].dirs = dirs /\ t.mm[p].tables = tables
           /\ (t.ok <=> s.ok) /\ (t.short <=> s.short)
<1> DEFINE old == s.mm[p]
           new == [old EXCEPT !.dirs = dirs, !.tables = tables]
           mm == [s.mm EXCEPT ![p] = new]
<1>1. s.mm \in [Procs -> Mm] /\ old \in Mm
  BY DEF State
<1>2. /\ new \in Mm /\ (new.pgdir <=> old.pgdir) /\ new.pte = old.pte /\ new.mmap = old.mmap
      /\ new.tables = tables /\ new.dirs = dirs
  BY <1>1 DEF Mm
<1>3. t = [s EXCEPT !.nfree = nfree, !.mm = mm]
  BY DEF NewTables
<1> HIDE DEF old, new
<1>4. mm \in [Procs -> Mm] /\ mm[p] = new /\ \A q \in Procs \ {p} : mm[q] = s.mm[q]
  BY <1>1, <1>2
<1> HIDE DEF mm
<1>5. t \in State /\ t.mm = mm /\ t.nfree = nfree /\ t.ok = s.ok
      /\ t.short = s.short /\ t.free = s.free /\ t.ref = s.ref /\ t.data = s.data /\ t.stopped = s.stopped
  BY <1>3, <1>4 DEF State
<1> QED BY <1>2, <1>4, <1>5 DEF OnlyTables, old

(* A turn of exit_range keeps the memory right, and if no directory has two *)
(* tables it gives the directory back with its table.                       *)
LEMMA ExitDirectorySound ==
    ASSUME NEW s, Sound(s, NULL), NEW p \in Procs, Bare(s, p), s.mm[p].pgdir, NEW area \in Area,
           \A a \in area.lo..(area.hi - 1) : InArea(s, p, a),
           NEW d \in PDX1(area.lo)..PDX1(area.hi - 1), NEW t, t = ExitDirectory(s, p, d, area.lo, area.hi)
    PROVE  /\ Sound(t, NULL) /\ Bare(t, p) /\ Exited(s, t, p)
           /\ Roomy(s, p) /\ Snug(s, p) => d \notin t.mm[p].dirs
<1> DEFINE mm == s.mm[p]
           met == Tables(d) \cap PDX0(area.lo)..PDX0(area.hi - 1)
           empty == {n \in met \cap mm.tables : \A a \in Pages(n) : mm.pte[a] = NoEntry}
           left == [s EXCEPT !.nfree = @ + Cardinality(empty), !.mm[p].tables = @ \ empty]
<1>1. s \in State /\ LostIn(s) >= 0 /\ PlacesOk(s) /\ Clean(s) /\ LostIn(s) \in Int
  BY LostInt DEF Sound, FramesOk
<1>2. mm \in Mm /\ mm.dirs \subseteq DirNumbers /\ mm.tables \subseteq TableNumbers
  BY <1>1 DEF State, Mm
<1>3. empty = met \cap mm.tables
  <2>1. \A n : Pages(n) \subseteq Addrs
    BY DEF Pages
  <2>2. \A a \in Addrs : mm.pte[a] = NoEntry
    BY <1>1 DEF Bare, Clean
  <2> QED BY <2>1, <2>2
<1>4. t = IF d \notin mm.dirs THEN s
          ELSE IF met \subseteq mm.tables
               THEN [left EXCEPT !.nfree = @ + 1, !.mm[p].dirs = @ \ {d}, !.mm[p].tables = @ \ Tables(d)]
          ELSE left
  BY DEF ExitDirectory
<1>5. IsFiniteSet(empty) /\ Cardinality(empty) \in Nat
  <2>1. empty \subseteq TableNumbers
    BY <1>2, <1>3
  <2> HIDE DEF empty
  <2> QED BY <2>1, NumbersFinite, FS_Subset, FS_CardinalityType
<1> HIDE DEF empty, met
<1>6. left = NewTables(s, p, s.nfree + Cardinality(empty), mm.dirs, mm.tables \ empty)
  <2>1. [mm EXCEPT !.dirs = mm.dirs, !.tables = mm.tables \ empty] = [mm EXCEPT !.tables = @ \ empty]
    BY <1>2 DEF Mm
  <2> HIDE DEF mm
  <2> QED BY <2>1 DEF NewTables, mm
<1>7. /\ left \in State /\ OnlyTables(s, left, p) /\ left.nfree = s.nfree + Cardinality(empty)
      /\ left.mm[p].dirs = mm.dirs /\ left.mm[p].tables = mm.tables \ empty
      /\ (left.ok <=> s.ok) /\ (left.short <=> s.short)
  <2>1. s.nfree + Cardinality(empty) \in Nat /\ mm.dirs \in SUBSET DirNumbers /\ mm.tables \ empty \in SUBSET TableNumbers
    BY <1>1, <1>2, <1>5 DEF State
  <2> HIDE DEF left, mm
  <2> QED BY <1>1, <1>6, <2>1, NewTablesAre
<1> HIDE DEF left
<1>8. \A n \in met : n \in Tables(d) /\ \E a \in area.lo..(area.hi - 1) : PDX0(a) = n
  <2>1. area.lo \in Nat /\ area.hi \in Nat /\ area.lo < area.hi
    BY AreaBounds
  <2>2. \A n \in PDX0(area.lo)..PDX0(area.hi - 1) : \E a \in area.lo..(area.hi - 1) : PDX0(a) = n
    BY <2>1, TablesOfRange
  <2> QED BY <2>2 DEF met
<1>9. \A b \in Addrs : PDX0(b) \in Tables(d) <=> PDX1(b) = d
  BY SameDirectory DEF Tables
<1>10. \A a \in area.lo..(area.hi - 1) : a \in Addrs /\ InArea(s, p, a)
  BY AreaBounds
<1>11. PICK c \in area.lo..(area.hi - 1) : PDX1(c) = d
  BY AreaBounds, TablesOfRange
<1>12. PDX0(c) \in met
  BY <1>9, <1>10, <1>11, AreaBounds, TablesOfRange DEF met
<1>13. CASE d \notin mm.dirs
  <2>1. t = s
    BY <1>4, <1>13
  <2> QED BY <1>1, <1>13, <2>1, ExitedItself
(* With room, there is one table under the directory, which is met.         *)
<1>14. ASSUME Roomy(s, p), Snug(s, p), d \in mm.dirs
       PROVE  met = {PDX0(c)} /\ mm.tables \cap Tables(d) = {PDX0(c)}
  <2>1. ASSUME NEW b \in Addrs, PDX1(b) = d, InArea(s, p, b) PROVE PDX0(b) = PDX0(c)
    BY <1>10, <1>11, <1>14, <2>1 DEF Roomy
  <2>2. met = {PDX0(c)}
    <3>1. ASSUME NEW n \in met PROVE n = PDX0(c)
      <4>1. PICK b \in area.lo..(area.hi - 1) : PDX0(b) = n
        BY <1>8
      <4>2. n \in Tables(d)
        BY <1>8
      <4> QED BY <1>9, <1>10, <2>1, <4>1, <4>2
    <3> QED BY <1>12, <3>1
  <2>3. ASSUME NEW n \in mm.tables, n \in Tables(d) PROVE n = PDX0(c)
    <3>1. PICK b \in Addrs : PDX0(b) = n /\ InArea(s, p, b)
      BY <1>14 DEF Snug
    <3> QED BY <1>9, <2>1, <2>3, <3>1
  <2>4. PICK b \in Addrs : PDX1(b) = d /\ PDX0(b) \in mm.tables
    BY <1>14 DEF Snug
  <2>5. PDX0(b) \in Tables(d)
    BY <1>9, <2>4
  <2> QED BY <2>2, <2>3, <2>4, <2>5
<1>15. CASE d \in mm.dirs /\ ~(met \subseteq mm.tables)
  <2>1. t = left
    BY <1>4, <1>15
  <2>2. LostIn(t) = LostIn(s)
    <3>1. mm.tables \ (mm.tables \ empty) = empty /\ mm.dirs \ mm.dirs = {}
      BY <1>3
    <3>2. LostIn(left) = LostIn(s) + s.nfree - left.nfree + Cardinality(mm.dirs \ left.mm[p].dirs)
                                                          + Cardinality(mm.tables \ left.mm[p].tables)
      BY <1>1, <1>7, FewerLost
    <3>3. LostIn(left) = LostIn(s) + s.nfree - (s.nfree + Cardinality(empty)) + 0 + Cardinality(empty)
      <4> HIDE DEF mm
      <4> QED BY <1>7, <3>1, <3>2, FS_EmptySet
    <3>4. s.nfree \in Nat
      BY <1>1 DEF State
    <3>5. PICK k \in Nat : k = Cardinality(empty)
      BY <1>5
    <3>6. LostIn(left) = LostIn(s) + s.nfree - (s.nfree + k) + 0 + k
      BY <3>3, <3>5
    <3> QED BY <1>1, <2>1, <3>4, <3>6
  <2>3. \A b \in Addrs : PDX0(b) \in t.mm[p].tables => PDX1(b) \in t.mm[p].dirs
    BY <1>1, <1>7, <2>1 DEF PlacesOk, Hang
  <2>4. Sound(t, NULL) /\ Apart(s, t, p) /\ Bare(t, p)
    BY <1>1, <1>7, <2>1, <2>2, <2>3, FewerTables
  <2>5. Roomy(s, p) /\ Snug(s, p) => met \subseteq mm.tables
    <3> HIDE DEF mm
    <3> QED BY <1>14, <1>15
  <2>6. Exited(s, t, p)
    BY <1>1, <1>7, <1>15, <2>1, <2>2, <2>4, <2>5 DEF Exited, OnlyTables
  <2> QED BY <1>15, <2>4, <2>5, <2>6
<1>16. CASE d \in mm.dirs /\ met \subseteq mm.tables
  <2> DEFINE dirs == mm.dirs \ {d}
             tables == mm.tables \ Tables(d)
             nfree == s.nfree + Cardinality(empty) + 1
  <2>1. t = NewTables(left, p, left.nfree + 1, left.mm[p].dirs \ {d}, left.mm[p].tables \ Tables(d))
    <3>1. t = [left EXCEPT !.nfree = @ + 1, !.mm[p].dirs = @ \ {d}, !.mm[p].tables = @ \ Tables(d)]
      BY <1>4, <1>16
    <3>2. left.mm[p] \in Mm
      BY <1>7 DEF State
    <3>3. [left.mm[p] EXCEPT !.dirs = left.mm[p].dirs \ {d}, !.tables = left.mm[p].tables \ Tables(d)]
            = [left.mm[p] EXCEPT !.dirs = @ \ {d}, !.tables = @ \ Tables(d)]
      BY <3>2 DEF Mm
    <3>4. left \in State
      BY <1>7
    <3> QED BY <3>1, <3>3, <3>4 DEF NewTables, State
  <2>2. /\ t \in State /\ OnlyTables(s, t, p) /\ t.nfree = nfree
        /\ t.mm[p].dirs = dirs /\ t.mm[p].tables = tables
        /\ (t.ok <=> s.ok) /\ (t.short <=> s.short)
    <3>1. /\ left.nfree + 1 \in Nat /\ left.mm[p].dirs \ {d} \in SUBSET DirNumbers
          /\ left.mm[p].tables \ Tables(d) \in SUBSET TableNumbers
      BY <1>1, <1>2, <1>5, <1>7 DEF State
    <3>2. /\ t \in State /\ OnlyTables(left, t, p) /\ t.nfree = left.nfree + 1
          /\ t.mm[p].dirs = left.mm[p].dirs \ {d} /\ t.mm[p].tables = left.mm[p].tables \ Tables(d)
          /\ (t.ok <=> left.ok) /\ (t.short <=> left.short)
      BY <1>7, <2>1, <3>1, NewTablesAre
    <3>3. OnlyTables(s, t, p)
      BY <1>7, <3>2 DEF OnlyTables
    <3>4. (mm.tables \ empty) \ Tables(d) = tables
      BY <1>3, <1>8
    <3> QED BY <1>7, <3>2, <3>3, <3>4
  <2>3. PICK k \in Nat, j \in Nat :
           /\ k = Cardinality(empty) /\ j = Cardinality(mm.tables \ tables) /\ k <= j
           /\ LostIn(t) = LostIn(s) - k + j
           /\ mm.tables \ tables = mm.tables \cap Tables(d)
    <3>1. mm.tables \ tables = mm.tables \cap Tables(d) /\ mm.dirs \ dirs = {d}
      BY <1>16
    <3>2. empty \subseteq mm.tables \ tables
      BY <1>3, <1>8, <3>1
    <3>3. LostIn(t) = LostIn(s) + s.nfree - nfree + Cardinality(mm.dirs \ dirs) + Cardinality(mm.tables \ tables)
          /\ Cardinality(mm.tables \ tables) \in Nat
      <4>1. t.mm[p].dirs \subseteq mm.dirs /\ t.mm[p].tables \subseteq mm.tables
        BY <2>2
      <4>2. /\ LostIn(t) = LostIn(s) + s.nfree - t.nfree + Cardinality(mm.dirs \ t.mm[p].dirs)
                                                          + Cardinality(mm.tables \ t.mm[p].tables)
            /\ Cardinality(mm.tables \ t.mm[p].tables) \in Nat
        BY <1>1, <2>2, <4>1, FewerLost
      <4> HIDE DEF nfree, dirs, tables, mm
      <4> QED BY <2>2, <4>2
    <3>4. IsFiniteSet(mm.tables \ tables)
      BY <1>2, NumbersFinite, FS_Subset
    <3> HIDE DEF tables, dirs, mm
    <3>5. PICK k \in Nat, j \in Nat : k = Cardinality(empty) /\ j = Cardinality(mm.tables \ tables) /\ k <= j
      BY <1>5, <3>2, <3>3, <3>4, FS_Subset
    <3>6. Cardinality(mm.dirs \ dirs) = 1
      BY <3>1, FS_Singleton
    <3>7. s.nfree \in Nat
      BY <1>1 DEF State
    <3>8. LostIn(t) = LostIn(s) + s.nfree - (s.nfree + k + 1) + 1 + j
      BY <3>3, <3>5, <3>6
    <3> QED BY <1>1, <3>1, <3>5, <3>7, <3>8
  <2>4. \A b \in Addrs : PDX0(b) \in t.mm[p].tables => PDX1(b) \in t.mm[p].dirs
    <3> SUFFICES ASSUME NEW b \in Addrs, PDX0(b) \in mm.tables, PDX0(b) \notin Tables(d)
                 PROVE  PDX1(b) \in mm.dirs /\ PDX1(b) # d
      BY <2>2
    <3> QED BY <1>1, <1>9 DEF PlacesOk, Hang
  <2>5. LostIn(t) >= LostIn(s)
    BY <1>1, <2>3
  <2>6. Sound(t, NULL) /\ Apart(s, t, p) /\ Bare(t, p)
    BY <1>1, <2>2, <2>3, <2>4, FewerTables
  <2>7. ASSUME Roomy(s, p), Snug(s, p) PROVE Snug(t, p) /\ LostIn(t) = LostIn(s)
    <3>1. met = {PDX0(c)} /\ mm.tables \cap Tables(d) = {PDX0(c)}
      BY <1>14, <1>16, <2>7
    <3>2. empty = mm.tables \ tables
      BY <1>3, <2>3, <3>1
    <3>3. LostIn(t) = LostIn(s)
      BY <1>1, <2>3, <3>2
    <3>4. \A b \in Addrs : InArea(t, p, b) <=> InArea(s, p, b)
      BY <2>2 DEF OnlyTables, InArea, find_vma
    <3>5. ASSUME NEW e \in t.mm[p].dirs PROVE \E a \in Addrs : PDX1(a) = e /\ PDX0(a) \in t.mm[p].tables
      <4>1. e \in mm.dirs /\ e # d
        BY <2>2
      <4>2. PICK a \in Addrs : PDX1(a) = e /\ PDX0(a) \in mm.tables
        BY <2>7, <4>1 DEF Snug
      <4>3. PDX0(a) \notin Tables(d)
        BY <1>9, <4>1, <4>2
      <4> QED BY <2>2, <4>2, <4>3
    <3>6. ASSUME NEW n \in t.mm[p].tables PROVE \E a \in Addrs : PDX0(a) = n /\ InArea(t, p, a)
      BY <2>2, <2>7, <3>4 DEF Snug
    <3> QED BY <3>3, <3>5, <3>6 DEF Snug
  <2>8. Exited(s, t, p)
    BY <1>1, <2>2, <2>5, <2>6, <2>7 DEF Exited, OnlyTables
  <2> QED BY <2>2, <2>6, <2>8
<1> QED BY <1>13, <1>15, <1>16

(* exit_range keeps the memory right, and if no directory has two tables it *)
(* gives back all that lead to the range.                                   *)
LEMMA ExitRangeSound ==
    ASSUME NEW s, Sound(s, NULL), NEW p \in Procs, Bare(s, p), s.mm[p].pgdir, NEW area \in Area,
           \A a \in area.lo..(area.hi - 1) : InArea(s, p, a), NEW t, t = exit_range(s, p, area.lo, area.hi)
    PROVE  /\ Sound(t, NULL) /\ Bare(t, p) /\ Exited(s, t, p)
           /\ Roomy(s, p) /\ Snug(s, p) => \A a \in area.lo..(area.hi - 1) : PDX1(a) \notin t.mm[p].dirs
<1>1. area.lo \in Nat /\ area.hi \in Nat /\ area.lo < area.hi
  BY AreaBounds
<1>2. /\ PDX1(area.lo) \in Nat /\ PDX1(area.hi - 1) \in Nat /\ PDX1(area.lo) <= PDX1(area.hi - 1)
      /\ \A a \in area.lo..(area.hi - 1) : PDX1(a) \in PDX1(area.lo)..PDX1(area.hi - 1)
  BY <1>1, TablesOfRange
<1>3. PICK f : ExitRangeRun(f, s, p, area.lo, area.hi)
  BY <1>2, ExitRangeSteps
<1>4. PICK lo \in Nat, hi \in Nat : lo = PDX1(area.lo) /\ hi = PDX1(area.hi - 1) + 1 /\ lo < hi
  BY <1>2
<1>5. /\ f[0] = s
      /\ \A k \in 1..(hi - lo) : f[k] = ExitDirectory(f[k - 1], p, lo + k - 1, area.lo, area.hi)
      /\ t = f[hi - lo]
  <2>1. /\ f[0] = s
        /\ \A k \in 1..(PDX1(area.hi - 1) + 1 - PDX1(area.lo)) :
              f[k] = ExitDirectory(f[k - 1], p, PDX1(area.lo) + k - 1, area.lo, area.hi)
        /\ t = f[PDX1(area.hi - 1) + 1 - PDX1(area.lo)]
    BY <1>3 DEF ExitRangeRun
  <2>2. PDX1(area.hi - 1) + 1 - PDX1(area.lo) = hi - lo
    BY <1>2, <1>4
  <2>3. t = f[hi - lo]
    BY <2>1, <2>2
  <2>4. ASSUME NEW k \in 1..(hi - lo)
        PROVE  f[k] = ExitDirectory(f[k - 1], p, lo + k - 1, area.lo, area.hi)
    <3>1. PDX1(area.lo) + k - 1 = lo + k - 1
      BY <1>4
    <3>2. k \in 1..(PDX1(area.hi - 1) + 1 - PDX1(area.lo))
      BY <2>2
    <3>3. f[k] = ExitDirectory(f[k - 1], p, PDX1(area.lo) + k - 1, area.lo, area.hi)
      BY <2>1, <3>2
    <3> QED BY <3>1, <3>3, Zenon
  <2> QED BY <2>1, <2>3, <2>4
<1> DEFINE Left(k) == Roomy(s, p) /\ Snug(s, p) => \A d \in lo..(lo + k - 1) : d \notin f[k].mm[p].dirs
           Done(k) == Sound(f[k], NULL) /\ Bare(f[k], p) /\ Exited(s, f[k], p) /\ Left(k)
           T == {k \in Nat : k <= hi - lo => Done(k)}
<1>6. 0 \in T
  <2>1. s \in State
    BY DEF Sound
  <2> QED BY <1>5, <2>1, ExitedItself
<1>7. ASSUME NEW k \in Nat, k \in T PROVE k + 1 \in T
  <2> SUFFICES ASSUME k + 1 <= hi - lo PROVE Done(k + 1)
    OBVIOUS
  <2>1. Done(k) /\ k + 1 \in 1..(hi - lo) /\ lo + k \in lo..(hi - 1)
    BY <1>7
  <2>2. f[k + 1] = ExitDirectory(f[k], p, lo + k, area.lo, area.hi)
    <3>1. f[k + 1] = ExitDirectory(f[(k + 1) - 1], p, lo + (k + 1) - 1, area.lo, area.hi)
      BY <1>5, <2>1
    <3>2. (k + 1) - 1 = k /\ lo + (k + 1) - 1 = lo + k
      OBVIOUS
    <3> QED BY <3>1, <3>2
  <2>3. f[k].mm[p].pgdir /\ (\A a : InArea(f[k], p, a) <=> InArea(s, p, a))
    BY <2>1 DEF Exited, InArea, find_vma
  <2>4. lo + k \in PDX1(area.lo)..PDX1(area.hi - 1)
    BY <1>2, <1>4, <2>1
  <2>5. /\ Sound(f[k + 1], NULL) /\ Bare(f[k + 1], p) /\ Exited(f[k], f[k + 1], p)
        /\ Roomy(f[k], p) /\ Snug(f[k], p) => lo + k \notin f[k + 1].mm[p].dirs
    BY <2>1, <2>2, <2>3, <2>4, ExitDirectorySound
  <2>6. Exited(s, f[k + 1], p)
    BY <2>1, <2>5, ExitedTransitive DEF Sound
  <2>7. Left(k + 1)
    <3> SUFFICES ASSUME Roomy(s, p), Snug(s, p), NEW d \in lo..(lo + (k + 1) - 1)
                 PROVE  d \notin f[k + 1].mm[p].dirs
      OBVIOUS
    <3>1. Roomy(f[k], p) /\ Snug(f[k], p)
      BY <2>1, <2>3 DEF Exited, Roomy
    <3>2. d = lo + k \/ d \in lo..(lo + k - 1)
      OBVIOUS
    <3>3. f[k + 1].mm[p].dirs \subseteq f[k].mm[p].dirs
      BY <2>5 DEF Exited
    <3> QED BY <2>1, <2>5, <3>1, <3>2, <3>3
  <2> QED BY <2>5, <2>6, <2>7
<1> HIDE DEF T
<1>8. hi - lo \in T
  BY <1>4, <1>6, <1>7, SetInduction
<1>9. Done(hi - lo)
  BY <1>8 DEF T
<1>10. lo + (hi - lo) - 1 = PDX1(area.hi - 1)
  BY <1>2, <1>4
<1> QED BY <1>2, <1>4, <1>5, <1>9, <1>10

(* The pages of an area of p are in it.                                     *)
LEMMA AreaIn ==
    ASSUME NEW s, NEW p, NEW mmap \in Seq(Area), s.mm[p].mmap = mmap, NEW k \in 1..Len(mmap)
    PROVE  mmap[k] \in Area /\ \A a \in mmap[k].lo..(mmap[k].hi - 1) : InArea(s, p, a)
<1>1. mmap[k] \in Area
  OBVIOUS
<1>2. ASSUME NEW a \in mmap[k].lo..(mmap[k].hi - 1) PROVE InArea(s, p, a)
  <2>1. mmap[k].lo <= a /\ a < mmap[k].hi
    BY <1>1, AreaBounds
  <2>2. InArea(s, p, a) <=> \E i \in 1..Len(s.mm[p].mmap) : s.mm[p].mmap[i].lo <= a /\ a < s.mm[p].mmap[i].hi
    BY InAreaIs
  <2> QED BY <2>1, <2>2
<1> QED BY <1>1, <1>2

(* None of the directories of an area is left.                              *)
Undone(t, p, area) == \A a \in area.lo..(area.hi - 1) : PDX1(a) \notin t.mm[p].dirs

(* The second loop of exit_mmap, with the same condition, gives back all    *)
(* directories of the areas.                                                *)
LEMMA ExitAreasSound ==
    ASSUME NEW s, Sound(s, NULL), NEW p \in Procs, Bare(s, p), s.mm[p].pgdir,
           NEW mmap \in Seq(Area), s.mm[p].mmap = mmap, NEW t, t = ExitAreas(s, p, mmap)
    PROVE  /\ Sound(t, NULL) /\ Bare(t, p) /\ Exited(s, t, p)
           /\ Roomy(s, p) /\ Snug(s, p) => \A k \in 1..Len(mmap) : Undone(t, p, mmap[k])
<1>0. PICK f : ExitAreasRun(f, s, p, mmap)
  BY ExitAreasSteps
<1>1. /\ f[0] = s
      /\ \A k \in 1..Len(mmap) : f[k] = exit_range(f[k - 1], p, mmap[k].lo, mmap[k].hi)
      /\ t = f[Len(mmap)]
  BY <1>0 DEF ExitAreasRun
<1> DEFINE Left(k) == Roomy(s, p) /\ Snug(s, p) => \A i \in 1..k : Undone(f[k], p, mmap[i])
           Done(k) == Sound(f[k], NULL) /\ Bare(f[k], p) /\ Exited(s, f[k], p) /\ Left(k)
           T == {k \in Nat : k <= Len(mmap) => Done(k)}
<1>2. 0 \in T
  <2>1. s \in State
    BY DEF Sound
  <2> QED BY <1>1, <2>1, ExitedItself
<1>3. ASSUME NEW k \in Nat, k \in T PROVE k + 1 \in T
  <2> SUFFICES ASSUME k + 1 <= Len(mmap) PROVE Done(k + 1)
    OBVIOUS
  <2>1. Done(k) /\ k + 1 \in 1..Len(mmap)
    BY <1>3
  <2>2. f[k + 1] = exit_range(f[k], p, mmap[k + 1].lo, mmap[k + 1].hi)
    <3>1. f[k + 1] = exit_range(f[(k + 1) - 1], p, mmap[k + 1].lo, mmap[k + 1].hi)
      BY <1>1, <2>1
    <3>2. (k + 1) - 1 = k
      OBVIOUS
    <3> QED BY <3>1, <3>2
  <2>3. f[k].mm[p].pgdir /\ f[k].mm[p].mmap = mmap /\ (Roomy(s, p) => Roomy(f[k], p))
    BY <2>1 DEF Exited, Roomy, InArea, find_vma
  <2>4. mmap[k + 1] \in Area /\ \A a \in mmap[k + 1].lo..(mmap[k + 1].hi - 1) : InArea(f[k], p, a)
    BY <2>1, <2>3, AreaIn
  <2>5. /\ Sound(f[k + 1], NULL) /\ Bare(f[k + 1], p) /\ Exited(f[k], f[k + 1], p)
        /\ Roomy(f[k], p) /\ Snug(f[k], p) => Undone(f[k + 1], p, mmap[k + 1])
    BY <2>1, <2>2, <2>3, <2>4, ExitRangeSound DEF Undone
  <2>6. Exited(s, f[k + 1], p)
    BY <2>1, <2>5, ExitedTransitive DEF Sound
  <2>7. Left(k + 1)
    <3> SUFFICES ASSUME Roomy(s, p), Snug(s, p), NEW i \in 1..(k + 1) PROVE Undone(f[k + 1], p, mmap[i])
      OBVIOUS
    <3>1. Roomy(f[k], p) /\ Snug(f[k], p)
      BY <2>1, <2>3 DEF Exited
    <3>2. i = k + 1 \/ i \in 1..k
      OBVIOUS
    <3>3. f[k + 1].mm[p].dirs \subseteq f[k].mm[p].dirs
      BY <2>5 DEF Exited
    <3> QED BY <2>1, <2>5, <3>1, <3>2, <3>3 DEF Undone
  <2> QED BY <2>5, <2>6, <2>7
<1> HIDE DEF T
<1>4. Len(mmap) \in T
  BY <1>2, <1>3, SetInduction
<1>5. Done(Len(mmap))
  BY <1>4 DEF T
<1> QED BY <1>1, <1>5

(* exit_mmap: nothing is mapped any more, and if the areas are roomy and    *)
(* nothing had failed, no table is left.                                    *)
LEMMA ExitMmapSound ==
    ASSUME NEW s, Sound(s, NULL), NEW p \in Procs, s.mm[p].pgdir, NEW t, t = exit_mmap(s, p)
    PROVE  /\ Sound(t, NULL) /\ Bare(t, p) /\ Apart(s, t, p) /\ LostIn(t) >= LostIn(s) /\ t.mm[p].pgdir
           /\ (t.ok <=> s.ok) /\ (t.short <=> s.short) /\ (t.stopped <=> s.stopped)
           /\ Roomy(s, p) /\ Snug(s, p) => t.mm[p].dirs = {} /\ t.mm[p].tables = {} /\ LostIn(t) = LostIn(s)
<1> DEFINE mmap == s.mm[p].mmap
           u == UnmapAreas(s, p, mmap)
<1>1. u = UnmapAreas(s, p, s.mm[p].mmap) /\ t = ExitAreas(u, p, mmap)
  BY DEF exit_mmap
<1>2. mmap \in Seq(Area)
  BY DEF Sound, State, Mm
<1> HIDE DEF u
<1>3. Sound(u, NULL) /\ Keeps(s, u, p) /\ Unmapped(s, u, p) /\ Bare(u, p)
  BY <1>1, UnmapAllSound
<1>4. u.mm[p].pgdir /\ u.mm[p].mmap = mmap
  BY <1>3 DEF Unmapped
<1> HIDE DEF mmap
<1>5. /\ Sound(t, NULL) /\ Bare(t, p) /\ Exited(u, t, p)
      /\ Roomy(u, p) /\ Snug(u, p) => \A k \in 1..Len(mmap) : Undone(t, p, mmap[k])
  BY <1>1, <1>2, <1>3, <1>4, ExitAreasSound
<1>6. Apart(s, t, p)
  BY <1>3, <1>5, ApartTransitive DEF Keeps, Exited
<1>7. ASSUME Roomy(s, p), Snug(s, p)
      PROVE  t.mm[p].dirs = {} /\ t.mm[p].tables = {} /\ LostIn(t) = LostIn(s)
  <2>1. \A a : InArea(u, p, a) <=> InArea(s, p, a)
    BY <1>3 DEF Unmapped, InArea, find_vma
  <2>2. Roomy(u, p) /\ Snug(u, p)
    BY <1>3, <1>7, <2>1 DEF Unmapped, Roomy, Snug
  <2>3. Snug(t, p) /\ LostIn(t) = LostIn(s) /\ t.mm[p].mmap = mmap
    BY <1>3, <1>4, <1>5, <2>2 DEF Exited, Keeps
  <2>4. ASSUME NEW b \in Addrs, InArea(t, p, b) PROVE PDX1(b) \notin t.mm[p].dirs
    <3>1. PICK k \in 1..Len(mmap) : mmap[k].lo <= b /\ b < mmap[k].hi
      BY <1>2, <2>3, <2>4, InAreaIs
    <3>2. mmap[k] \in Area
      BY <1>2
    <3>3. b \in mmap[k].lo..(mmap[k].hi - 1)
      BY <3>1, <3>2, AreaBounds, Sizes DEF Addrs
    <3> QED BY <1>5, <2>2, <3>3 DEF Undone
  <2>5. ASSUME NEW n \in t.mm[p].tables PROVE FALSE
    <3>1. PICK b \in Addrs : PDX0(b) = n /\ InArea(t, p, b)
      BY <2>3 DEF Snug
    <3>2. PDX1(b) \in t.mm[p].dirs
      BY <1>5, <3>1 DEF Sound, PlacesOk, Hang
    <3> QED BY <2>4, <3>1, <3>2
  <2>6. ASSUME NEW d \in t.mm[p].dirs PROVE FALSE
    BY <2>3, <2>5 DEF Snug
  <2> QED BY <2>3, <2>5, <2>6
<1>8. LostIn(t) >= LostIn(s)
  BY <1>3, <1>5 DEF Keeps, Exited
<1>9. /\ t.mm[p].pgdir /\ (t.ok <=> s.ok) /\ (t.short <=> s.short) /\ (t.stopped <=> s.stopped)
  BY <1>3, <1>4, <1>5 DEF Unmapped, Exited
<1> QED BY <1>5, <1>6, <1>7, <1>8, <1>9

-----------------------------------------------------------------------------
(* An mm goes, and another is made.                                         *)

(* The number of page directories, when p gets one or loses its own.        *)
LEMMA RootCount ==
    ASSUME NEW s, NEW t, NEW p \in Procs, \A q \in Procs \ {p} : t.mm[q].pgdir <=> s.mm[q].pgdir,
           s.mm[p].pgdir, ~t.mm[p].pgdir
    PROVE  Cardinality(Roots(s)) = Cardinality(Roots(t)) + 1
<1>1. Roots(s) = Roots(t) \cup {p} /\ p \notin Roots(t)
  BY DEF Roots
<1>2. IsFiniteSet(Roots(t)) /\ Cardinality(Roots(t)) \in Nat
  BY CountsAre
<1> QED BY <1>1, <1>2, FS_AddElement

(* The entries of an mm that goes are those of none.                        *)
LEMMA BareIs ==
    ASSUME NEW s, Sound(s, NULL), NEW p \in Procs, Bare(s, p)
    PROVE  s.mm[p].pte = NoMm.pte
<1>1. s.mm[p].pte \in [Addrs -> Entry]
  BY DEF Sound, State, Mm
<1>2. \A a \in Addrs : s.mm[p].pte[a] = NoEntry
  BY DEF Sound, FramesOk, Clean, Bare
<1> QED BY <1>1, <1>2 DEF NoMm

(* A process without an mm has no tables, areas or entries.                 *)
LEMMA NoMmIs ==
    /\ NoMm \in Mm /\ ~NoMm.pgdir /\ NoMm.dirs = {} /\ NoMm.tables = {} /\ NoMm.mmap = <<>>
    /\ \A a \in Addrs : NoMm.pte[a].page = NULL
<1>1. NoEntry \in Entry /\ NoEntry.page = NULL
  BY DEF NoEntry, Entry
<1> QED BY <1>1 DEF NoMm, Mm

(* What put_mm leaves.                                                      *)
Put_mm(s, t, p) ==
    /\ Sound(t, NULL) /\ t.mm[p] = NoMm /\ Apart(s, t, p)
    /\ LostIn(t) >= LostIn(s) /\ (Roomy(s, p) /\ Snug(s, p) => LostIn(t) = LostIn(s))
    /\ (t.ok <=> s.ok) /\ (t.short <=> s.short) /\ (t.stopped <=> s.stopped)

(* put_mm leaves the process without an mm; it loses frames only where an   *)
(* allocation had failed before or a directory had two tables.              *)
LEMMA PutMmSound ==
    ASSUME NEW s, Sound(s, NULL), NEW p \in Procs, NEW t, t = put_mm(s, p)
    PROVE  Put_mm(s, t, p)
<1>1. CASE ~s.mm[p].pgdir
  <2>1. t = s
    BY <1>1 DEF put_mm
  <2>2. s.mm[p] = NoMm /\ LostIn(s) \in Int
    BY <1>1, LostInt DEF Sound, PlacesOk, Rooted
  <2>3. Apart(s, s, p)
    BY KeepsItself DEF Keeps
  <2> QED BY <2>1, <2>2, <2>3 DEF Put_mm
<1>2. CASE s.mm[p].pgdir
  <2> DEFINE u == exit_mmap(s, p)
             v == NewTables(u, p, u.nfree, {}, {})
  <2>1. t = [u EXCEPT !.nfree = @ + 1, !.mm[p] = NoMm]
    BY <1>2 DEF put_mm
  <2>2. u = exit_mmap(s, p)
    OBVIOUS
  <2> HIDE DEF u
  <2>3. /\ Sound(u, NULL) /\ Bare(u, p) /\ Apart(s, u, p) /\ LostIn(u) >= LostIn(s) /\ u.mm[p].pgdir
        /\ (u.ok <=> s.ok) /\ (u.short <=> s.short) /\ (u.stopped <=> s.stopped)
        /\ Roomy(s, p) /\ Snug(s, p) => u.mm[p].dirs = {} /\ u.mm[p].tables = {} /\ LostIn(u) = LostIn(s)
    BY <1>2, <2>2, ExitMmapSound
  <2>4. u \in State /\ LostIn(u) >= 0 /\ LostIn(u) \in Int /\ LostIn(s) \in Int
    BY <2>3, LostInt DEF Sound
  <2>5. v = NewTables(u, p, u.nfree, {}, {})
    OBVIOUS
  <2> HIDE DEF v
  <2>6. /\ v \in State /\ OnlyTables(u, v, p) /\ v.nfree = u.nfree /\ v.mm[p].dirs = {} /\ v.mm[p].tables = {}
        /\ (v.ok <=> u.ok) /\ (v.short <=> u.short)
    <3>1. u.nfree \in Nat
      BY <2>4 DEF State
    <3> QED BY <2>4, <2>5, <3>1, NewTablesAre
  <2>7. PICK d \in Nat, n \in Nat :
           /\ d = Cardinality(u.mm[p].dirs) /\ n = Cardinality(u.mm[p].tables) /\ LostIn(v) = LostIn(u) + d + n
    <3>1. u.mm[p].dirs \ {} = u.mm[p].dirs /\ u.mm[p].tables \ {} = u.mm[p].tables
      OBVIOUS
    <3>2. /\ LostIn(v) = LostIn(u) + u.nfree - v.nfree + Cardinality(u.mm[p].dirs \ v.mm[p].dirs)
                                                        + Cardinality(u.mm[p].tables \ v.mm[p].tables)
          /\ Cardinality(u.mm[p].dirs \ v.mm[p].dirs) \in Nat
          /\ Cardinality(u.mm[p].tables \ v.mm[p].tables) \in Nat
      BY <2>4, <2>6, FewerLost
    <3>3. PICK d \in Nat, n \in Nat : d = Cardinality(u.mm[p].dirs) /\ n = Cardinality(u.mm[p].tables)
      BY <2>6, <3>1, <3>2
    <3>4. LostIn(v) = LostIn(u) + u.nfree - u.nfree + d + n
      BY <2>6, <3>1, <3>2, <3>3
    <3>5. u.nfree \in Nat
      BY <2>4 DEF State
    <3> QED BY <2>4, <3>3, <3>4, <3>5
  <2>8. Sound(v, NULL) /\ Apart(u, v, p) /\ Bare(v, p)
    <3>1. LostIn(v) >= 0
      BY <2>4, <2>7
    <3> QED BY <2>3, <2>6, <3>1, FewerTables
  <2>9. /\ t.mm = [v.mm EXCEPT ![p] = NoMm] /\ t.nfree = v.nfree + 1 /\ t.free = v.free /\ t.ref = v.ref
        /\ t.data = v.data /\ (t.ok <=> v.ok) /\ (t.short <=> v.short) /\ (t.stopped <=> v.stopped)
        /\ t \in State
    <3>1. /\ t.mm = [u.mm EXCEPT ![p] = NoMm] /\ t.nfree = u.nfree + 1 /\ t.free = u.free /\ t.ref = u.ref
          /\ t.data = u.data /\ (t.ok <=> u.ok) /\ (t.short <=> u.short) /\ (t.stopped <=> u.stopped)
          /\ t \in State
      <4>1. /\ u = [nfree |-> u.nfree, free |-> u.free, ref |-> u.ref, data |-> u.data, mm |-> u.mm,
                    ok |-> u.ok, short |-> u.short, stopped |-> u.stopped]
            /\ u.nfree \in Nat /\ u.mm \in [Procs -> Mm]
        BY <2>4 DEF State
      <4> DEFINE mm == [u.mm EXCEPT ![p] = NoMm]
      <4>2. mm \in [Procs -> Mm]
        BY <4>1, NoMmIs
      <4>5. mm = [u.mm EXCEPT ![p] = NoMm]
        OBVIOUS
      <4> HIDE DEF mm
      <4>3. t = [u EXCEPT !.nfree = u.nfree + 1, !.mm = mm]
        BY <2>1, <4>1, <4>5
      <4>4. t.mm = mm /\ t.nfree = u.nfree + 1 /\ t \in State
        <5>1. t = [nfree |-> u.nfree + 1, free |-> u.free, ref |-> u.ref, data |-> u.data, mm |-> mm,
                   ok |-> u.ok, short |-> u.short, stopped |-> u.stopped]
          BY <4>1, <4>3
        <5>2. /\ u.nfree + 1 \in Nat /\ u.free \in SUBSET Frames /\ u.ref \in [Frames -> Nat]
              /\ u.data \in [Frames -> Values] /\ u.ok \in BOOLEAN /\ u.short \in BOOLEAN /\ u.stopped \in BOOLEAN
          BY <2>4 DEF State
        <5> QED BY <4>2, <5>1, <5>2 DEF State
      <4> QED BY <2>4, <4>1, <4>3, <4>4, <4>5 DEF State
    <3>2. [v.mm EXCEPT ![p] = NoMm] = [u.mm EXCEPT ![p] = NoMm]
      <4>1. v.mm \in [Procs -> Mm] /\ u.mm \in [Procs -> Mm] /\ \A q \in Procs \ {p} : v.mm[q] = u.mm[q]
        BY <2>4, <2>6 DEF OnlyTables, State
      <4> QED BY <4>1
    <3> QED BY <2>6, <3>1, <3>2 DEF OnlyTables
  <2>10. /\ \A q \in Procs \ {p} : t.mm[q] = v.mm[q]
         /\ t.mm[p] = NoMm
    BY <2>6, <2>9 DEF State
  <2>11. LostIn(t) = LostIn(v)
    <3>1. v.mm[p].pgdir
      BY <2>3, <2>6 DEF OnlyTables
    <3>2. Cardinality(Roots(v)) = Cardinality(Roots(t)) + 1
      <4>1. \A q \in Procs \ {p} : t.mm[q].pgdir <=> v.mm[q].pgdir
        BY <2>10
      <4>2. ~t.mm[p].pgdir
        BY <2>10, NoMmIs
      <4> QED BY <3>1, <4>1, <4>2, RootCount
    <3>3. \A q \in Procs : t.mm[q].dirs = v.mm[q].dirs /\ t.mm[q].tables = v.mm[q].tables
      BY <2>6, <2>10, NoMmIs
    <3>4. Directories(t) = Directories(v) /\ PageTables(t) = PageTables(v)
      BY <3>3 DEF Directories, PageTables
    <3>5. Cardinality(Roots(t)) \in Nat /\ v.nfree \in Nat
      BY <2>6, CountsAre DEF State
    <3>6. t.nfree = v.nfree - (-1) /\ Cardinality(Roots(t)) = Cardinality(Roots(v)) + (-1)
      BY <2>9, <3>2, <3>5
    <3>7. -1 \in Int
      OBVIOUS
    <3> QED BY <2>6, <2>9, <3>4, <3>6, <3>7, LostTerms
  <2>12. FramesOk(t, NULL)
    <3>1. \A q \in Procs : t.mm[q].pte = v.mm[q].pte
      BY <2>8, <2>10, BareIs
    <3>2. FramesOk(v, NULL)
      BY <2>8 DEF Sound
    <3>3. t.ref = v.ref /\ t.free = v.free
      BY <2>9
    <3> QED BY <3>1, <3>2, <3>3, FramesSame
  <2>13. PlacesOk(t)
    <3>1. Mapped(t)
      BY <2>8, <2>10, NoMmIs DEF Sound, PlacesOk, Mapped, PageAt, InArea, find_vma
    <3>2. Hang(t)
      BY <2>8, <2>10, NoMmIs DEF Sound, PlacesOk, Hang
    <3>3. Rising(t)
      BY <2>8, <2>10, NoMmIs DEF Sound, PlacesOk, Rising, RisingAreas
    <3>4. Rooted(t)
      BY <2>8, <2>10 DEF Sound, PlacesOk, Rooted
    <3> QED BY <3>1, <3>2, <3>3, <3>4 DEF PlacesOk
  <2>14. Sound(t, NULL)
    BY <2>4, <2>7, <2>9, <2>11, <2>12, <2>13 DEF Sound, InHand
  <2>15. Apart(s, t, p)
    <3>1. Apart(v, t, p)
      BY <2>9, <2>10 DEF Apart, PageAt, See
    <3> QED BY <2>3, <2>8, <3>1, ApartTransitive
  <2>16. LostIn(t) >= LostIn(s)
    BY <2>3, <2>4, <2>7, <2>11
  <2>17. Roomy(s, p) /\ Snug(s, p) => LostIn(t) = LostIn(s)
    <3>1. u.mm[p].dirs = {} /\ u.mm[p].tables = {} => d = 0 /\ n = 0
      BY <2>7, FS_EmptySet
    <3> QED BY <2>3, <2>4, <2>7, <2>11, <3>1
  <2> QED BY <2>3, <2>6, <2>8, <2>9, <2>10, <2>14, <2>15, <2>16, <2>17 DEF Put_mm, OnlyTables
<1> QED BY <1>1, <1>2

(* setup_pgdir: an mm with nothing in it, or no frame was left for its page *)
(* directory.                                                               *)
Empty(s, p) ==
    /\ s.mm[p].pgdir /\ s.mm[p].dirs = {} /\ s.mm[p].tables = {} /\ s.mm[p].mmap = <<>> /\ Bare(s, p)

(* setup_pgdir gives the process an empty directory, or fails for want of   *)
(* frames.                                                                  *)
LEMMA SetupSound ==
    ASSUME NEW s, Sound(s, NULL), s.ok, NEW p \in Procs, ~s.mm[p].pgdir, NEW t, t = setup_pgdir(s, p)
    PROVE  /\ Sound(t, NULL) /\ Apart(s, t, p) /\ LostIn(t) = LostIn(s) /\ (t.stopped <=> s.stopped)
           /\ t.ok => Empty(t, p) /\ Snug(t, p) /\ (t.short <=> s.short)
           /\ ~t.ok => t.mm = s.mm /\ t.short
<1> DEFINE u == TakeFrame(s)
<1>1. s \in State /\ s.mm[p] = NoMm /\ FramesOk(s, NULL) /\ PlacesOk(s) /\ LostIn(s) >= 0
  BY DEF Sound, PlacesOk, Rooted
<1>2. /\ u \in State /\ u.mm = s.mm /\ u.free = s.free /\ u.ref = s.ref /\ u.data = s.data
      /\ (u.stopped <=> s.stopped)
      /\ s.nfree = 0 => u.nfree = 0 /\ ~u.ok /\ u.short
      /\ s.nfree # 0 => u.nfree = s.nfree - 1 /\ (u.ok <=> s.ok) /\ (u.short <=> s.short)
  BY <1>1, TakeFrameIs
<1>3. t = IF u.ok THEN [u EXCEPT !.mm[p].pgdir = TRUE] ELSE u
  BY DEF setup_pgdir
<1>4. CASE s.nfree = 0
  <2>1. /\ Sound(u, NULL) /\ Keeps(s, u, p) /\ SameView(s, u)
        /\ u.mm = s.mm /\ ~u.ok /\ u.short /\ (u.stopped <=> s.stopped)
    BY <1>4, AllocFails
  <2>2. t = u
    BY <1>3, <2>1
  <2> QED BY <2>1, <2>2 DEF Keeps
<1>5. CASE s.nfree # 0
  <2> HIDE DEF u
  <2> DEFINE new == [NoMm EXCEPT !.pgdir = TRUE]
             mm == [s.mm EXCEPT ![p] = new]
  <2>1. /\ new \in Mm /\ new.pgdir /\ new.dirs = {} /\ new.tables = {} /\ new.mmap = <<>> /\ new.pte = NoMm.pte
    BY NoMmIs DEF Mm
  <2>2. s.mm \in [Procs -> Mm]
    BY <1>1 DEF State
  <2>3. mm = [u.mm EXCEPT ![p].pgdir = TRUE]
    BY <1>1, <1>2, <2>2
  <2> HIDE DEF new
  <2>4. mm \in [Procs -> Mm] /\ mm[p] = new /\ \A q \in Procs \ {p} : mm[q] = s.mm[q]
    BY <2>1, <2>2
  <2> HIDE DEF mm
  <2>5. t = [u EXCEPT !.mm = mm]
    BY <1>2, <1>3, <1>5, <2>3
  <2>6. /\ t \in State /\ t.mm = mm /\ t.nfree = s.nfree - 1 /\ t.free = s.free /\ t.ref = s.ref /\ t.data = s.data
        /\ t.ok /\ (t.short <=> s.short) /\ (t.stopped <=> s.stopped)
    BY <1>2, <1>5, <2>4, <2>5 DEF State
  <2>7. LostIn(t) = LostIn(s)
    <3>1. Cardinality(Roots(t)) = Cardinality(Roots(s)) + 1
      <4>1. \A q \in Procs \ {p} : s.mm[q].pgdir <=> t.mm[q].pgdir
        BY <2>4, <2>6
      <4>2. t.mm[p].pgdir
        BY <2>1, <2>4, <2>6
      <4> QED BY <4>1, <4>2, RootCount
    <3>2. \A q \in Procs : t.mm[q].dirs = s.mm[q].dirs /\ t.mm[q].tables = s.mm[q].tables
      BY <1>1, <2>1, <2>4, <2>6, NoMmIs
    <3>3. Directories(t) = Directories(s) /\ PageTables(t) = PageTables(s)
      BY <3>2 DEF Directories, PageTables
    <3>4. 1 \in Int
      OBVIOUS
    <3> QED BY <1>1, <2>6, <3>1, <3>3, <3>4, LostTerms
  <2>8. \A q \in Procs : t.mm[q].pte = s.mm[q].pte /\ t.mm[q].mmap = s.mm[q].mmap
    BY <1>1, <2>1, <2>4, <2>6, NoMmIs
  <2>9. FramesOk(t, NULL)
    <3>1. t.ref = s.ref /\ t.free = s.free /\ \A q \in Procs : t.mm[q].pte = s.mm[q].pte
      BY <2>6, <2>8
    <3> QED BY <1>1, <3>1, FramesSame
  <2>10. \A q \in Procs : \A a \in Addrs : PageAt(t, q, a) = PageAt(s, q, a) /\ See(t, q, a) = See(s, q, a)
    BY <2>6, <2>8 DEF PageAt, See
  <2>11. Bare(t, p)
    BY <1>1, <2>10, NoMmIs DEF Bare, PageAt
  <2>12. PlacesOk(t)
    <3>1. Mapped(t)
      BY <1>1, <2>1, <2>4, <2>6, <2>8, <2>10, <2>11 DEF PlacesOk, Mapped, Bare, InArea, find_vma
    <3>2. Hang(t)
      BY <1>1, <2>1, <2>4, <2>6 DEF PlacesOk, Hang
    <3>3. Rising(t)
      BY <1>1, <2>8 DEF PlacesOk, Rising
    <3>4. Rooted(t)
      BY <1>1, <2>1, <2>4, <2>6 DEF PlacesOk, Rooted
    <3> QED BY <3>1, <3>2, <3>3, <3>4 DEF PlacesOk
  <2>13. Sound(t, NULL)
    BY <1>1, <2>6, <2>7, <2>9, <2>12 DEF Sound, InHand
  <2>14. Apart(s, t, p)
    BY <2>4, <2>6, <2>10 DEF Apart
  <2>15. Empty(t, p) /\ Snug(t, p)
    BY <2>1, <2>4, <2>6, <2>11 DEF Empty, Snug
  <2> QED BY <2>6, <2>7, <2>13, <2>14, <2>15
<1> QED BY <1>4, <1>5

(* insert_vma_struct puts an area where the list stays rising, if it        *)
(* overlaps none of it.                                                     *)
Free(mmap, vma) == \A old \in Range(mmap) : old.hi <= vma.lo \/ vma.hi <= old.lo

(* insert_vma_struct puts an area that meets no other in its place: the     *)
(* list stays in order, and holds one area more.                            *)
LEMMA InsertedRises ==
    ASSUME NEW mmap \in Seq(Area), RisingAreas(mmap), NEW vma \in Area, Free(mmap, vma),
           NEW above, above = {i \in DOMAIN mmap : mmap[i].lo > vma.lo},
           NEW new, new = InsertAt(mmap, Min(above \cup {Len(mmap) + 1}), vma)
    PROVE  new \in Seq(Area) /\ RisingAreas(new) /\ Range(new) = Range(mmap) \cup {vma}
<1> DEFINE S == above \cup {Len(mmap) + 1}
           i == Min(S)
<1>1. Len(mmap) \in Nat /\ DOMAIN mmap = 1..Len(mmap) /\ (\A k \in 1..Len(mmap) : mmap[k] \in Area)
      /\ Range(mmap) = {mmap[k] : k \in 1..Len(mmap)}
  BY DEF Range
<1>2. i \in 1..(Len(mmap) + 1) /\ i \in above \cup {Len(mmap) + 1} /\ \A k \in above : i <= k
  <2>1. S \subseteq Nat /\ S # {} /\ S \subseteq 1..(Len(mmap) + 1) /\ above \subseteq S
    BY <1>1
  <2> HIDE DEF S
  <2>2. i \in S /\ \A k \in S : i <= k
    BY <2>1, MinIn
  <2> HIDE DEF i
  <2> QED BY <2>1, <2>2 DEF S
<1>12. new = InsertAt(mmap, i, vma)
  OBVIOUS
<1> HIDE DEF i, S
<1>3. /\ new \in Seq(Area) /\ Len(new) = Len(mmap) + 1 /\ DOMAIN new = 1..(Len(mmap) + 1)
      /\ \A j \in 1..(Len(mmap) + 1) : new[j] = IF j < i THEN mmap[j] ELSE IF j = i THEN vma ELSE mmap[j - 1]
  <2>1. /\ new \in Seq(Area) /\ Len(new) = Len(mmap) + 1
        /\ \A j \in 1..(Len(mmap) + 1) : new[j] = IF j < i THEN mmap[j] ELSE IF j = i THEN vma ELSE mmap[j - 1]
    <3>1. /\ InsertAt(mmap, i, vma) \in Seq(Area)
          /\ Len(InsertAt(mmap, i, vma)) = Len(mmap) + 1
          /\ \A j \in 1..(Len(mmap) + 1) :
                InsertAt(mmap, i, vma)[j] = IF j < i THEN mmap[j] ELSE IF j = i THEN vma ELSE mmap[j - 1]
      BY <1>2, InsertAtElements
    <3> QED BY <1>12, <3>1, Zenon
  <2> QED BY <2>1
<1>4. \A k \in 1..Len(mmap) : mmap[k].lo \in Nat /\ mmap[k].hi \in Nat /\ mmap[k].lo < mmap[k].hi
  BY <1>1, AreaBounds
<1>5. vma.lo \in Nat /\ vma.hi \in Nat /\ vma.lo < vma.hi
  BY AreaBounds
<1>6. \A k \in 1..Len(mmap) : mmap[k].hi <= vma.lo \/ vma.hi <= mmap[k].lo
  BY <1>1 DEF Free
<1>7. ASSUME NEW k \in 1..Len(mmap), k < i PROVE mmap[k].hi <= vma.lo
  <2>1. k \notin above
    BY <1>2, <1>7
  <2>2. ~(mmap[k].lo > vma.lo)
    BY <1>1, <2>1
  <2> QED BY <1>4, <1>5, <1>6, <2>2
<1>8. ASSUME NEW k \in 1..Len(mmap), i <= k PROVE vma.hi <= mmap[k].lo
  <2>1. i \in above
    BY <1>1, <1>2, <1>8
  <2>2. i \in 1..Len(mmap) /\ mmap[i].lo > vma.lo
    BY <1>1, <2>1
  <2>3. vma.hi <= mmap[i].lo
    BY <1>4, <1>5, <1>6, <2>2
  <2>4. i = k \/ mmap[i].hi <= mmap[k].lo
    BY <1>1, <1>8, <2>2 DEF RisingAreas
  <2> QED BY <1>4, <1>5, <2>2, <2>3, <2>4
<1>9. RisingAreas(new)
  <2> SUFFICES ASSUME NEW j \in 1..Len(new), NEW k \in 1..Len(new), j < k PROVE new[j].hi <= new[k].lo
    BY <1>3 DEF RisingAreas
  <2>1. \A x, y \in 1..Len(mmap) : x < y => mmap[x].hi <= mmap[y].lo
    BY <1>1 DEF RisingAreas
  <2>2. i \in Nat /\ j \in 1..(Len(mmap) + 1) /\ k \in 1..(Len(mmap) + 1)
    BY <1>1, <1>2, <1>3
  <2>3. CASE k < i
    <3>1. j \in 1..Len(mmap) /\ k \in 1..Len(mmap) /\ new[j] = mmap[j] /\ new[k] = mmap[k]
      BY <1>1, <1>2, <1>3, <2>2, <2>3
    <3> QED BY <2>1, <3>1
  <2>4. CASE k = i
    <3>1. j \in 1..Len(mmap) /\ new[j] = mmap[j] /\ new[k] = vma /\ j < i
      BY <1>1, <1>2, <1>3, <2>2, <2>4
    <3> QED BY <1>7, <3>1
  <2>5. CASE i < k /\ j < i
    <3>1. j \in 1..Len(mmap) /\ k - 1 \in 1..Len(mmap) /\ new[j] = mmap[j] /\ new[k] = mmap[k - 1] /\ j < k - 1
      BY <1>1, <1>2, <1>3, <2>2, <2>5
    <3> QED BY <2>1, <3>1
  <2>6. CASE i < k /\ j = i
    <3>1. k - 1 \in 1..Len(mmap) /\ new[j] = vma /\ new[k] = mmap[k - 1] /\ i <= k - 1
      BY <1>1, <1>2, <1>3, <2>2, <2>6
    <3> QED BY <1>8, <3>1
  <2>7. CASE i < j
    <3>1. j - 1 \in 1..Len(mmap) /\ k - 1 \in 1..Len(mmap) /\ j - 1 < k - 1 /\ ~(j < i) /\ j # i /\ ~(k < i) /\ k # i
      BY <1>1, <1>2, <2>2, <2>7
    <3>2. new[j] = mmap[j - 1] /\ new[k] = mmap[k - 1]
      BY <1>3, <2>2, <3>1
    <3> QED BY <2>1, <3>1, <3>2
  <2> QED BY <2>2, <2>3, <2>4, <2>5, <2>6, <2>7
<1>10. Range(new) = Range(mmap) \cup {vma}
  <2>1. Range(new) = {new[j] : j \in 1..(Len(mmap) + 1)}
    <3>1. Range(new) = {new[j] : j \in DOMAIN new}
      BY DEF Range
    <3> QED BY <1>3, <3>1
  <2>2. ASSUME NEW j \in 1..(Len(mmap) + 1) PROVE new[j] \in Range(mmap) \cup {vma}
    <3>1. CASE j < i
      <4>1. j \in 1..Len(mmap) /\ new[j] = mmap[j]
        BY <1>1, <1>2, <1>3, <3>1
      <4> QED BY <1>1, <4>1
    <3>2. CASE j = i
      BY <1>3, <3>2
    <3>3. CASE j > i
      <4>1. j - 1 \in 1..Len(mmap) /\ new[j] = mmap[j - 1]
        BY <1>1, <1>2, <1>3, <3>3
      <4> QED BY <1>1, <4>1
    <3> QED BY <1>2, <3>1, <3>2, <3>3
  <2>3. ASSUME NEW k \in 1..Len(mmap) PROVE mmap[k] \in Range(new)
    <3>1. CASE k < i
      <4>1. k \in 1..(Len(mmap) + 1) /\ new[k] = mmap[k]
        BY <1>1, <1>3, <3>1
      <4> QED BY <2>1, <4>1
    <3>2. CASE k >= i
      <4>1. k + 1 \in 1..(Len(mmap) + 1) /\ ~(k + 1 < i) /\ k + 1 # i /\ (k + 1) - 1 = k
        BY <1>1, <1>2, <3>2
      <4>2. new[k + 1] = mmap[k]
        BY <1>3, <4>1
      <4> QED BY <2>1, <4>1, <4>2
    <3> QED BY <1>2, <3>1, <3>2
  <2>4. vma \in Range(new)
    <3>1. new[i] = vma
      BY <1>2, <1>3
    <3> QED BY <1>2, <2>1, <3>1
  <2> QED BY ZenonT(60), <1>1, <2>1, <2>2, <2>3, <2>4
<1> QED BY <1>3, <1>9, <1>10

(* What insert_vma_struct does to the memory of p: one more area.           *)
WithArea(s, t, p, vma) ==
    /\ Sound(t, NULL) /\ Keeps(s, t, p)
    /\ Range(t.mm[p].mmap) = Range(s.mm[p].mmap) \cup {vma}
    /\ \A b \in Addrs : PageAt(t, p, b) = PageAt(s, p, b) /\ See(t, p, b) = See(s, p, b)
    /\ (t.ok <=> s.ok) /\ (t.short <=> s.short) /\ (t.stopped <=> s.stopped)

InVma(vma, a) == vma.lo <= a /\ a < vma.hi

(* find_vma does not depend on the order of the areas.                      *)
LEMMA InAreaRange ==
    ASSUME NEW s, NEW p, NEW a
    PROVE  InArea(s, p, a) <=> \E vma \in Range(s.mm[p].mmap) : InVma(vma, a)
BY DEF InArea, find_vma, InVma

(* After insert_vma_struct the pages of the new area are in an area too.    *)
LEMMA WithAreaIn ==
    ASSUME NEW s, NEW t, NEW p, NEW vma, WithArea(s, t, p, vma), NEW a
    PROVE  InArea(t, p, a) <=> InArea(s, p, a) \/ InVma(vma, a)
BY InAreaRange DEF WithArea

(* insert_vma_struct keeps the memory right.                                *)
LEMMA InsertVmaSound ==
    ASSUME NEW s, Sound(s, NULL), NEW p \in Procs, s.mm[p].pgdir, NEW vma \in Area, Free(s.mm[p].mmap, vma),
           NEW t, t = insert_vma_struct(s, p, vma)
    PROVE  WithArea(s, t, p, vma)
<1> DEFINE mmap == s.mm[p].mmap
           above == {i \in DOMAIN mmap : mmap[i].lo > vma.lo}
           list == InsertAt(mmap, Min(above \cup {Len(mmap) + 1}), vma)
           new == [s.mm[p] EXCEPT !.mmap = list]
           mm == [s.mm EXCEPT ![p] = new]
<1>1. s \in State /\ PlacesOk(s) /\ FramesOk(s, NULL) /\ s.mm \in [Procs -> Mm] /\ s.mm[p] \in Mm
  BY DEF Sound, State
<1>2. mmap \in Seq(Area) /\ RisingAreas(mmap)
  BY <1>1 DEF Mm, PlacesOk, Rising
<1>3. t = [s EXCEPT !.mm[p].mmap = list]
  BY DEF insert_vma_struct
<1>4. list \in Seq(Area) /\ RisingAreas(list) /\ Range(list) = Range(mmap) \cup {vma}
  <2>1. above = {i \in DOMAIN mmap : mmap[i].lo > vma.lo} /\ list = InsertAt(mmap, Min(above \cup {Len(mmap) + 1}), vma)
    OBVIOUS
  <2> HIDE DEF above, list, mmap
  <2>2. Free(mmap, vma)
    BY DEF mmap
  <2> QED BY <1>2, <2>1, <2>2, InsertedRises DEF mmap
<1> HIDE DEF list
<1>5. /\ new \in Mm /\ new.mmap = list /\ new.pte = s.mm[p].pte /\ new.dirs = s.mm[p].dirs
      /\ new.tables = s.mm[p].tables /\ (new.pgdir <=> s.mm[p].pgdir)
  BY <1>1, <1>4 DEF Mm
<1>6. t = [s EXCEPT !.mm = mm]
  BY <1>1, <1>3 DEF State
<1> HIDE DEF new
<1>7. mm \in [Procs -> Mm] /\ mm[p] = new /\ \A q \in Procs \ {p} : mm[q] = s.mm[q]
  BY <1>1, <1>5
<1> HIDE DEF mm
<1>8. /\ t \in State /\ t.mm = mm /\ t.nfree = s.nfree /\ t.free = s.free /\ t.ref = s.ref /\ t.data = s.data
      /\ (t.ok <=> s.ok) /\ (t.short <=> s.short) /\ (t.stopped <=> s.stopped)
  BY <1>1, <1>6, <1>7 DEF State
<1>9. /\ \A q \in Procs : /\ t.mm[q].pte = s.mm[q].pte /\ t.mm[q].dirs = s.mm[q].dirs
                          /\ t.mm[q].tables = s.mm[q].tables /\ (t.mm[q].pgdir <=> s.mm[q].pgdir)
      /\ \A q \in Procs \ {p} : t.mm[q] = s.mm[q]
      /\ t.mm[p].mmap = list
  BY <1>5, <1>7, <1>8
<1>10. \A q \in Procs : \A a \in Addrs : PageAt(t, q, a) = PageAt(s, q, a) /\ See(t, q, a) = See(s, q, a)
  BY <1>8, <1>9 DEF PageAt, See
<1>11. \A q \in Procs : \A a \in Addrs : InArea(s, q, a) => InArea(t, q, a)
  <2> SUFFICES ASSUME NEW q \in Procs, NEW a \in Addrs, InArea(s, q, a) PROVE InArea(t, q, a)
    OBVIOUS
  <2>1. Range(s.mm[q].mmap) \subseteq Range(t.mm[q].mmap)
    <3>1. CASE q = p
      BY <1>4, <1>9, <3>1
    <3>2. CASE q # p
      BY <1>9, <3>2
    <3> QED BY <3>1, <3>2
  <2> QED BY <2>1, InAreaRange
<1>12. FramesOk(t, NULL)
  <2>1. t.ref = s.ref /\ t.free = s.free /\ \A q \in Procs : t.mm[q].pte = s.mm[q].pte
    BY <1>8, <1>9
  <2> QED BY <1>1, <2>1, FramesSame
<1>13. LostIn(t) = LostIn(s)
  <2>1. Roots(t) = Roots(s) /\ Directories(t) = Directories(s) /\ PageTables(t) = PageTables(s)
    BY <1>9 DEF Roots, Directories, PageTables
  <2> QED BY <1>8, <2>1 DEF LostIn
<1>14. PlacesOk(t)
  <2>1. Mapped(t)
    BY <1>1, <1>9, <1>10, <1>11 DEF PlacesOk, Mapped
  <2>2. Hang(t)
    BY <1>1, <1>9 DEF PlacesOk, Hang
  <2>3. Rising(t)
    BY <1>1, <1>4, <1>9 DEF PlacesOk, Rising
  <2>4. Rooted(t)
    BY <1>1, <1>9 DEF PlacesOk, Rooted
  <2> QED BY <2>1, <2>2, <2>3, <2>4 DEF PlacesOk
<1>15. Sound(t, NULL)
  BY <1>8, <1>12, <1>13, <1>14 DEF Sound, InHand
<1>16. Keeps(s, t, p)
  <2>1. Apart(s, t, p)
    BY <1>9, <1>10 DEF Apart
  <2>2. Tight(s, p) => Tight(t, p)
    BY <1>8, <1>9, <1>11 DEF Tight, Snug
  <2> QED BY <1>8, <1>9, <1>13, <2>1, <2>2 DEF Keeps
<1> QED BY <1>4, <1>8, <1>9, <1>10, <1>15, <1>16 DEF WithArea

(* mm_map of an area that overlaps none.                                    *)
LEMMA MmMapSound ==
    ASSUME NEW s, Sound(s, NULL), s.ok, NEW p \in Procs, s.mm[p].pgdir,
           NEW lo \in Nat, NEW hi \in Nat, NEW vma, vma = [lo |-> lo, hi |-> hi], vma \in Area,
           Free(s.mm[p].mmap, vma), NEW t, t = mm_map(s, p, lo, hi)
    PROVE  t.ok /\ WithArea(s, t, p, vma)
<1>1. ASSUME NEW old \in Range(s.mm[p].mmap), old.lo <= lo, lo < old.hi PROVE FALSE
  <2>1. old.hi <= lo \/ hi <= old.lo
    BY DEF Free
  <2>2. old \in Area
    <3>1. s.mm[p].mmap \in Seq(Area)
      BY DEF Sound, State, Mm
    <3> QED BY <3>1 DEF Range
  <2>3. old.lo \in Nat /\ old.hi \in Nat /\ lo < hi
    BY <2>2, AreaBounds
  <2> QED BY <1>1, <2>1, <2>3
<1>2. find_vma(s, p, lo) = {}
  BY <1>1 DEF find_vma
<1>3. t = insert_vma_struct(s, p, vma)
  BY <1>2 DEF mm_map
<1>4. WithArea(s, t, p, vma)
  BY <1>3, InsertVmaSound
<1> QED BY <1>4 DEF WithArea

-----------------------------------------------------------------------------
(* load_icode.                                                              *)

AreaOf(seg) == [lo |-> seg.lo, hi |-> seg.hi]
Content(seg, a) == IF a < seg.file THEN seg.value ELSE 0

(* A segment becomes an area below the stack, with contents.                *)
LEMMA SegmentIs ==
    ASSUME NEW seg, SegmentOk(seg)
    PROVE  /\ seg.lo \in Nat /\ seg.hi \in Nat /\ seg.lo < seg.hi /\ seg.w \in BOOLEAN
           /\ seg.hi <= StackArea.lo /\ StackArea.lo \in Addrs /\ StackArea.hi = VASize /\ StackArea \in Area
           /\ AreaOf(seg) \in Area /\ AreaOf(seg).lo = seg.lo /\ AreaOf(seg).hi = seg.hi
           /\ \A a \in seg.lo..(seg.hi - 1) : a \in Addrs
           /\ \A a : Content(seg, a) \in Values
<1>1. VASize \in Nat /\ USTACKSIZE \in Nat \ {0} /\ USTACKSIZE <= VASize /\ 0 \in Values
  BY Sizes
<1>2. /\ seg.lo \in Nat /\ seg.hi \in Nat /\ seg.lo < seg.hi /\ seg.w \in BOOLEAN
      /\ seg.hi <= VASize - USTACKSIZE /\ seg.value \in Values
  BY DEF SegmentOk
<1>3. /\ StackArea.lo = VASize - USTACKSIZE /\ StackArea.hi = VASize
      /\ VASize - USTACKSIZE \in Nat /\ VASize - USTACKSIZE < VASize
  BY <1>1 DEF StackArea, USTACKTOP
<1>4. StackArea \in Area
  <2>1. VASize - USTACKSIZE \in Addrs /\ VASize \in 1..VASize
    BY <1>1, <1>3 DEF Addrs
  <2> QED BY <1>3, <2>1 DEF StackArea, USTACKTOP, Area
<1>5. AreaOf(seg) \in Area
  <2>1. seg.lo \in Addrs /\ seg.hi \in 1..VASize
    BY <1>1, <1>2, <1>3 DEF Addrs
  <2> QED BY <1>2, <2>1 DEF AreaOf, Area
<1>6. \A a \in seg.lo..(seg.hi - 1) : a \in Addrs
  BY <1>1, <1>2, <1>3 DEF Addrs
<1>7. \A a : Content(seg, a) \in Values
  BY <1>1, <1>2 DEF Content
<1>8. StackArea.lo \in Addrs
  BY <1>1, <1>3 DEF Addrs
<1> QED BY <1>2, <1>3, <1>4, <1>5, <1>6, <1>7, <1>8 DEF AreaOf

(* What a call that builds the memory of p leaves when it has not failed,   *)
(* and what when it has.                                                    *)
Built(s, t, p) ==
    /\ Sound(t, NULL) /\ Keeps(s, t, p) /\ (t.stopped <=> s.stopped)
    /\ (t.ok => (t.short <=> s.short)) /\ (~t.ok => t.short)

(* Two parts of load_icode make one, unless the first had failed and the    *)
(* second had not.                                                          *)
LEMMA BuiltTransitive ==
    ASSUME NEW s, NEW t, NEW u, NEW p, Built(s, t, p), Built(t, u, p), t.ok \/ ~u.ok
    PROVE  Built(s, u, p)
<1>1. Keeps(s, u, p)
  BY KeepsTransitive DEF Built
<1> QED BY <1>1 DEF Built

(* The pages from lo to hi have changed and no others.                      *)
Within(s, t, p, lo, hi) ==
    /\ t.mm[p].mmap = s.mm[p].mmap
    /\ \A b \in Addrs : ~(lo <= b /\ b < hi) => PageAt(t, p, b) = PageAt(s, p, b) /\ See(t, p, b) = See(s, p, b)

Filled(t, p, seg, hi) == \A a \in seg.lo..(hi - 1) : See(t, p, a) = Content(seg, a)

(* The loops over the pages of a segment fill it from the file and with     *)
(* zeroes, or fail for want of frames.                                      *)
LEMMA LoadPagesSound ==
    ASSUME NEW s, Sound(s, NULL), s.ok, NEW p \in Procs, s.mm[p].pgdir, NEW seg, SegmentOk(seg),
           \A a \in seg.lo..(seg.hi - 1) : InArea(s, p, a), NEW f, f[0] = s,
           \A k \in 1..(seg.hi - seg.lo) : f[k] = LoadFrom(f[k - 1], p, seg.lo + k - 1, seg),
           NEW t, t = f[seg.hi - seg.lo]
    PROVE  Built(s, t, p) /\ Within(s, t, p, seg.lo, seg.hi) /\ (t.ok => Filled(t, p, seg, seg.hi))
<1>1. /\ seg.lo \in Nat /\ seg.hi \in Nat /\ seg.lo < seg.hi /\ seg.w \in BOOLEAN
      /\ \A a \in seg.lo..(seg.hi - 1) : a \in Addrs
      /\ \A a : Content(seg, a) \in Values
  BY SegmentIs
<1>2. PICK lo \in Nat, hi \in Nat : lo = seg.lo /\ hi = seg.hi /\ lo < hi
  BY <1>1
<1> DEFINE Done(k) == /\ Built(s, f[k], p) /\ Within(s, f[k], p, lo, lo + k)
                      /\ f[k].ok => Filled(f[k], p, seg, lo + k)
           T == {k \in Nat : k <= hi - lo => Done(k)}
<1>3. 0 \in T
  <2>1. Built(s, s, p)
    BY KeepsItself DEF Built
  <2>2. Within(s, s, p, lo, lo + 0) /\ Filled(s, p, seg, lo + 0)
    BY <1>2 DEF Within, Filled
  <2> QED BY <2>1, <2>2
<1>4. ASSUME NEW k \in Nat, k \in T PROVE k + 1 \in T
  <2> SUFFICES ASSUME k + 1 <= hi - lo PROVE Done(k + 1)
    OBVIOUS
  <2>1. Done(k) /\ k + 1 \in 1..(hi - lo) /\ lo + k \in seg.lo..(seg.hi - 1) /\ lo + k \in Addrs
    BY <1>1, <1>2, <1>4
  <2>2. f[k + 1] = LoadFrom(f[k], p, lo + k, seg)
    <3>1. f[k + 1] = LoadFrom(f[(k + 1) - 1], p, seg.lo + (k + 1) - 1, seg)
      BY <1>2, <2>1
    <3>2. (k + 1) - 1 = k /\ seg.lo + (k + 1) - 1 = lo + k
      BY <1>2
    <3> QED BY <3>1, <3>2
  <2>3. lo + (k + 1) = lo + k + 1
    OBVIOUS
  <2>4. CASE ~f[k].ok
    <3>1. f[k + 1] = f[k]
      BY <2>2, <2>4 DEF LoadFrom, LoadPage
    <3>2. Within(s, f[k + 1], p, lo, lo + (k + 1))
      BY <2>1, <3>1 DEF Within, Addrs
    <3> QED BY <2>1, <2>4, <3>1, <3>2
  <2>5. CASE f[k].ok
    <3>1. f[k + 1] = pgdir_alloc_page(f[k], p, lo + k, seg.w, Content(seg, lo + k))
      BY <2>2, <2>5 DEF LoadFrom, LoadPage, Content
    <3>2. Sound(f[k], NULL) /\ f[k].mm[p].pgdir /\ f[k].mm[p].mmap = s.mm[p].mmap
      BY <2>1 DEF Built, Keeps, Within
    <3>3. InArea(f[k], p, lo + k)
      BY <2>1, <3>2 DEF InArea, find_vma
    <3>4. Content(seg, lo + k) \in Values
      BY <1>1
    <3>5. /\ Sound(f[k + 1], NULL) /\ Keeps(f[k], f[k + 1], p) /\ OnePage(f[k], f[k + 1], p, lo + k)
          /\ (f[k + 1].stopped <=> f[k].stopped)
          /\ f[k + 1].ok => See(f[k + 1], p, lo + k) = Content(seg, lo + k) /\ (f[k + 1].short <=> f[k].short)
          /\ ~f[k + 1].ok => f[k + 1].short
      BY <1>1, <2>1, <2>5, <3>1, <3>2, <3>3, <3>4, AllocPageSound
    <3>6. Built(s, f[k + 1], p)
      <4>1. Built(f[k], f[k + 1], p)
        BY <3>5 DEF Built
      <4> QED BY <2>1, <2>5, <4>1, BuiltTransitive
    <3>7. Within(s, f[k + 1], p, lo, lo + (k + 1))
      <4> SUFFICES ASSUME NEW b \in Addrs, ~(lo <= b /\ b < lo + (k + 1))
                   PROVE  PageAt(f[k + 1], p, b) = PageAt(s, p, b) /\ See(f[k + 1], p, b) = See(s, p, b)
        BY <3>2, <3>5 DEF Within, OnePage
      <4>1. b # lo + k /\ ~(lo <= b /\ b < lo + k)
        BY DEF Addrs
      <4> QED BY <2>1, <3>5, <4>1 DEF Within, OnePage
    <3>8. f[k + 1].ok => Filled(f[k + 1], p, seg, lo + (k + 1))
      <4> SUFFICES ASSUME f[k + 1].ok, NEW a \in seg.lo..(lo + (k + 1) - 1)
                   PROVE  See(f[k + 1], p, a) = Content(seg, a)
        BY DEF Filled
      <4>1. CASE a = lo + k
        BY <3>5, <4>1
      <4>2. CASE a # lo + k
        <5>1. a \in seg.lo..(lo + k - 1) /\ a \in Addrs
          BY <1>1, <1>2, <2>1, <4>2
        <5>2. See(f[k], p, a) = Content(seg, a)
          BY <2>1, <2>5, <5>1 DEF Filled
        <5> QED BY <3>5, <4>2, <5>1, <5>2 DEF OnePage
      <4> QED BY <4>1, <4>2
    <3> QED BY <3>6, <3>7, <3>8
  <2> QED BY <2>4, <2>5
<1> HIDE DEF T
<1>5. hi - lo \in T
  BY <1>2, <1>3, <1>4, SetInduction
<1>6. Done(hi - lo)
  BY <1>2, <1>5 DEF T
<1>7. lo + (hi - lo) = hi
  OBVIOUS
<1>8. t = f[hi - lo]
  BY <1>2
<1> HIDE DEF Done
<1>9. Built(s, t, p) /\ Within(s, t, p, lo, hi) /\ (t.ok => Filled(t, p, seg, hi))
  BY <1>6, <1>7, <1>8, Zenon DEF Done
<1> QED BY <1>2, <1>9

(* A segment that is mapped and filled.                                     *)
Adds(s, t, p, seg) ==
    /\ Built(s, t, p)
    /\ Range(t.mm[p].mmap) = Range(s.mm[p].mmap) \cup {AreaOf(seg)}
    /\ \A b \in Addrs : ~InVma(seg, b) => PageAt(t, p, b) = PageAt(s, p, b) /\ See(t, p, b) = See(s, p, b)
    /\ t.ok => Filled(t, p, seg, seg.hi)

(* A segment that meets no area is added: its area, and its pages with what *)
(* they hold.                                                               *)
LEMMA LoadSegmentSound ==
    ASSUME NEW s, Sound(s, NULL), s.ok, NEW p \in Procs, s.mm[p].pgdir, NEW seg, SegmentOk(seg),
           Free(s.mm[p].mmap, AreaOf(seg)), NEW t, t = LoadSegment(s, p, seg)
    PROVE  Adds(s, t, p, seg)
<1>1. /\ seg.lo \in Nat /\ seg.hi \in Nat /\ seg.lo < seg.hi /\ AreaOf(seg) \in Area
      /\ \A a \in seg.lo..(seg.hi - 1) : a \in Addrs
  BY SegmentIs
<1>2. PICK f : SegmentRun(f, s, p, seg)
  BY <1>1, SegmentSteps
<1>3. /\ f[0] = mm_map(s, p, seg.lo, seg.hi)
      /\ \A k \in 1..(seg.hi - seg.lo) : f[k] = LoadFrom(f[k - 1], p, seg.lo + k - 1, seg)
      /\ t = f[seg.hi - seg.lo]
  BY <1>2 DEF SegmentRun
<1>4. PICK u : u = mm_map(s, p, seg.lo, seg.hi)
  OBVIOUS
<1>5. u.ok /\ WithArea(s, u, p, AreaOf(seg))
  BY <1>1, <1>4, MmMapSound DEF AreaOf
<1>6. \A a \in seg.lo..(seg.hi - 1) : InArea(u, p, a)
  <2> SUFFICES ASSUME NEW a \in seg.lo..(seg.hi - 1) PROVE InVma(AreaOf(seg), a)
    BY <1>5, WithAreaIn
  <2> QED BY <1>1 DEF InVma, AreaOf
<1>7. Sound(u, NULL) /\ u.mm[p].pgdir
  BY <1>5 DEF WithArea, Keeps
<1>8. Built(u, t, p) /\ Within(u, t, p, seg.lo, seg.hi) /\ (t.ok => Filled(t, p, seg, seg.hi))
  BY <1>3, <1>4, <1>5, <1>6, <1>7, LoadPagesSound
<1>9. Built(s, t, p)
  <2>1. Built(s, u, p)
    BY <1>5 DEF Built, WithArea
  <2> QED BY <1>5, <1>8, <2>1, BuiltTransitive
<1>10. Range(t.mm[p].mmap) = Range(s.mm[p].mmap) \cup {AreaOf(seg)}
  BY <1>5, <1>8 DEF WithArea, Within
<1>11. ASSUME NEW b \in Addrs, ~InVma(seg, b)
       PROVE  PageAt(t, p, b) = PageAt(s, p, b) /\ See(t, p, b) = See(s, p, b)
  BY <1>5, <1>8, <1>11 DEF WithArea, Within, InVma
<1> QED BY <1>8, <1>9, <1>10, <1>11 DEF Adds

(* A load that has failed does nothing more.                                *)
LEMMA FailedMap ==
    ASSUME NEW s \in State, ~s.ok, NEW p, NEW lo, NEW hi
    PROVE  mm_map(s, p, lo, hi) = s
<1>1. s.ok = FALSE
  BY DEF State
<1>2. [s EXCEPT !.ok = FALSE] = s
  BY <1>1 DEF State
<1> QED BY <1>2 DEF mm_map

(* After a failure load_icode loads no more segments.                       *)
LEMMA FailedSegment ==
    ASSUME NEW s \in State, ~s.ok, NEW p, NEW seg, SegmentOk(seg)
    PROVE  LoadSegment(s, p, seg) = s
<1>1. seg.lo \in Nat /\ seg.hi \in Nat /\ seg.lo < seg.hi
  BY SegmentIs
<1>2. PICK f : SegmentRun(f, s, p, seg)
  BY <1>1, SegmentSteps
<1>3. /\ f[0] = s
      /\ \A k \in 1..(seg.hi - seg.lo) : f[k] = LoadFrom(f[k - 1], p, seg.lo + k - 1, seg)
      /\ LoadSegment(s, p, seg) = f[seg.hi - seg.lo]
  BY <1>2, FailedMap DEF SegmentRun
<1>4. PICK n \in Nat : n = seg.hi - seg.lo
  BY <1>1
<1> DEFINE T == {k \in Nat : k <= n => f[k] = s}
<1>5. 0 \in T
  BY <1>3
<1>6. ASSUME NEW k \in Nat, k \in T PROVE k + 1 \in T
  <2> SUFFICES ASSUME k + 1 <= n PROVE f[k + 1] = s
    OBVIOUS
  <2>1. f[k + 1] = LoadFrom(f[(k + 1) - 1], p, seg.lo + (k + 1) - 1, seg)
    BY <1>3, <1>4
  <2>2. (k + 1) - 1 = k /\ f[k] = s
    BY <1>6
  <2> QED BY <2>1, <2>2 DEF LoadFrom, LoadPage
<1> HIDE DEF T
<1>7. n \in T
  BY <1>5, <1>6, SetInduction
<1> QED BY <1>3, <1>4, <1>7 DEF T

(* The segments of a program lie apart, in order and below the stack.       *)
LEMMA ProgramIs ==
    ASSUME NEW prog \in Programs
    PROVE  /\ prog \in Seq(Range(prog)) /\ Len(prog) \in Nat /\ DOMAIN prog = 1..Len(prog)
           /\ \A i \in 1..Len(prog) : SegmentOk(prog[i])
           /\ \A i, j \in 1..Len(prog) : i < j => prog[i].hi <= prog[j].lo
           /\ \A i \in 1..Len(prog) : AreaOf(prog[i]) \in AreasOf(prog)
           /\ AreasOf(prog) = {AreaOf(prog[i]) : i \in 1..Len(prog)} \cup {StackArea}
           /\ StackArea \in AreasOf(prog)
<1>1. /\ prog \in Seq(Range(prog))
      /\ \A i \in DOMAIN prog : SegmentOk(prog[i])
      /\ \A i, j \in DOMAIN prog : i < j => prog[i].hi <= prog[j].lo
  BY ProgramAssumption
<1>2. Len(prog) \in Nat /\ DOMAIN prog = 1..Len(prog)
  BY <1>1
<1>3. AreasOf(prog) = {AreaOf(prog[i]) : i \in 1..Len(prog)} \cup {StackArea}
  BY <1>2 DEF AreasOf, AreaOf
<1> QED BY <1>1, <1>2, <1>3

(* The first n segments of a program are there, or loading them has failed. *)
LoadedTo(s, t, p, prog, n) ==
    /\ Built(s, t, p) /\ Range(t.mm[p].mmap) \subseteq AreasOf(prog)
    /\ t.ok => /\ Range(t.mm[p].mmap) = {AreaOf(prog[i]) : i \in 1..n}
               /\ \A i \in 1..n : Filled(t, p, prog[i], prog[i].hi)

(* One more segment on top of those that are loaded.                        *)
LEMMA LoadOneMore ==
    ASSUME NEW s, NEW t, NEW p \in Procs, s.mm[p].pgdir, NEW prog \in Programs, NEW k \in Nat, k + 1 <= Len(prog),
           LoadedTo(s, t, p, prog, k), NEW u, u = LoadSegment(t, p, prog[k + 1])
    PROVE  LoadedTo(s, u, p, prog, k + 1)
<1>1. k + 1 \in 1..Len(prog) /\ SegmentOk(prog[k + 1]) /\ AreaOf(prog[k + 1]) \in AreasOf(prog)
  <2>1. k + 1 \in 1..Len(prog)
    BY ProgramIs
  <2> QED BY <2>1, ProgramIs
<1>2. t \in State /\ Sound(t, NULL) /\ t.mm[p].pgdir
  BY DEF LoadedTo, Built, Sound, Keeps
<1>3. CASE ~t.ok
  <2>1. u = t
    BY <1>1, <1>2, <1>3, FailedSegment
  <2> QED BY <1>3, <2>1 DEF LoadedTo
<1>4. CASE t.ok
  <2> DEFINE seg == prog[k + 1]
  <2>1. /\ Range(t.mm[p].mmap) = {AreaOf(prog[i]) : i \in 1..k}
        /\ \A i \in 1..k : Filled(t, p, prog[i], prog[i].hi)
    BY <1>4 DEF LoadedTo
  <2>2. \A i \in 1..k : i \in 1..Len(prog) /\ prog[i].hi <= seg.lo /\ SegmentOk(prog[i])
    <3> SUFFICES ASSUME NEW i \in 1..k PROVE i \in 1..Len(prog) /\ prog[i].hi <= seg.lo /\ SegmentOk(prog[i])
      OBVIOUS
    <3>1. i \in 1..Len(prog) /\ i < k + 1
      BY ProgramIs
    <3> QED BY <1>1, <3>1, ProgramIs
  <2>3. Free(t.mm[p].mmap, AreaOf(seg))
    BY <2>1, <2>2 DEF Free, AreaOf
  <2> HIDE DEF seg
  <2>4. Adds(t, u, p, seg)
    BY <1>1, <1>2, <1>4, <2>3, LoadSegmentSound DEF seg
  <2>5. Built(s, u, p)
    <3>1. Built(s, t, p) /\ Built(t, u, p)
      BY <2>4 DEF Adds, LoadedTo
    <3> QED BY <1>4, <3>1, BuiltTransitive
  <2>6. Range(u.mm[p].mmap) = {AreaOf(prog[i]) : i \in 1..(k + 1)}
    <3>1. Range(u.mm[p].mmap) = {AreaOf(prog[i]) : i \in 1..k} \cup {AreaOf(prog[k + 1])}
      BY <2>1, <2>4 DEF Adds, seg
    <3>2. 1..(k + 1) = 1..k \cup {k + 1}
      OBVIOUS
    <3> QED BY <3>1, <3>2
  <2>7. Range(u.mm[p].mmap) \subseteq AreasOf(prog)
    BY <1>1, <2>4 DEF Adds, LoadedTo, seg
  <2>8. ASSUME u.ok, NEW i \in 1..(k + 1) PROVE Filled(u, p, prog[i], prog[i].hi)
    <3>1. CASE i = k + 1
      BY <2>4, <2>8, <3>1 DEF Adds, seg
    <3>2. CASE i # k + 1
      <4>1. i \in 1..k /\ SegmentOk(prog[i])
        BY <2>2, <3>2
      <4>2. ASSUME NEW a \in prog[i].lo..(prog[i].hi - 1) PROVE See(u, p, a) = Content(prog[i], a)
        <5>1. See(t, p, a) = Content(prog[i], a)
          BY <2>1, <4>1 DEF Filled
        <5>2. a \in Addrs /\ a < prog[i].hi /\ prog[i].hi \in Nat /\ a \in Nat
          BY <4>1, <4>2, SegmentIs
        <5>3. prog[i].hi <= seg.lo /\ seg.lo \in Nat
          BY <1>1, <2>2, <4>1, SegmentIs DEF seg
        <5>4. ~InVma(seg, a)
          BY <5>2, <5>3 DEF InVma
        <5> QED BY <2>4, <5>1, <5>2, <5>4 DEF Adds
      <4> QED BY <4>2 DEF Filled
    <3> QED BY <3>1, <3>2
  <2> QED BY <2>5, <2>6, <2>7, <2>8 DEF LoadedTo
<1> QED BY <1>3, <1>4

(* All segments are loaded, each with its contents, or one has failed for   *)
(* want of frames.                                                          *)
LEMMA LoadSegmentsSound ==
    ASSUME NEW s, Sound(s, NULL), s.ok, NEW p \in Procs, Empty(s, p), NEW prog \in Programs,
           NEW t, t = LoadSegments(s, p, prog)
    PROVE  LoadedTo(s, t, p, prog, Len(prog))
<1>1. prog \in Seq(Range(prog)) /\ Len(prog) \in Nat
  BY ProgramIs
<1>2. PICK f : LoadRun(f, s, p, prog)
  BY <1>1, LoadSteps
<1>3. /\ f[0] = s
      /\ \A k \in 1..Len(prog) : f[k] = LoadSegment(f[k - 1], p, prog[k])
      /\ t = f[Len(prog)]
  BY <1>2 DEF LoadRun
<1> DEFINE T == {k \in Nat : k <= Len(prog) => LoadedTo(s, f[k], p, prog, k)}
<1>4. 0 \in T
  <2>1. Built(s, s, p)
    BY KeepsItself DEF Built
  <2>2. Range(s.mm[p].mmap) = {}
    BY DEF Empty, Range
  <2>3. 1..0 = {}
    OBVIOUS
  <2> QED BY <1>3, <2>1, <2>2, <2>3 DEF LoadedTo
<1>5. ASSUME NEW k \in Nat, k \in T PROVE k + 1 \in T
  <2> SUFFICES ASSUME k + 1 <= Len(prog) PROVE LoadedTo(s, f[k + 1], p, prog, k + 1)
    OBVIOUS
  <2>1. LoadedTo(s, f[k], p, prog, k) /\ k + 1 \in 1..Len(prog) /\ s.mm[p].pgdir
    BY <1>1, <1>5 DEF Empty
  <2>2. f[k + 1] = LoadSegment(f[k], p, prog[k + 1])
    <3>1. f[k + 1] = LoadSegment(f[(k + 1) - 1], p, prog[k + 1])
      BY <1>3, <2>1
    <3>2. (k + 1) - 1 = k
      OBVIOUS
    <3> QED BY <3>1, <3>2
  <2> QED BY <2>1, <2>2, LoadOneMore
<1> HIDE DEF T
<1>6. Len(prog) \in T
  BY <1>1, <1>4, <1>5, SetInduction
<1> QED BY <1>1, <1>3, <1>6 DEF T

(* After a failed setup_pgdir no segment is loaded.                         *)
LEMMA FailedSegments ==
    ASSUME NEW s \in State, ~s.ok, NEW p, NEW prog \in Programs
    PROVE  LoadSegments(s, p, prog) = s
<1>1. prog \in Seq(Range(prog)) /\ Len(prog) \in Nat /\ \A i \in 1..Len(prog) : SegmentOk(prog[i])
  BY ProgramIs
<1>2. PICK f : LoadRun(f, s, p, prog)
  BY <1>1, LoadSteps
<1>3. /\ f[0] = s
      /\ \A k \in 1..Len(prog) : f[k] = LoadSegment(f[k - 1], p, prog[k])
      /\ LoadSegments(s, p, prog) = f[Len(prog)]
  BY <1>2 DEF LoadRun
<1> DEFINE T == {k \in Nat : k <= Len(prog) => f[k] = s}
<1>4. 0 \in T
  BY <1>3
<1>5. ASSUME NEW k \in Nat, k \in T PROVE k + 1 \in T
  <2> SUFFICES ASSUME k + 1 <= Len(prog) PROVE f[k + 1] = s
    OBVIOUS
  <2>1. k + 1 \in 1..Len(prog) /\ SegmentOk(prog[k + 1])
    BY <1>1
  <2>2. f[k + 1] = LoadSegment(f[(k + 1) - 1], p, prog[k + 1])
    BY <1>3, <2>1
  <2>3. (k + 1) - 1 = k /\ f[k] = s
    BY <1>1, <1>5
  <2> QED BY <2>1, <2>2, <2>3, FailedSegment
<1> HIDE DEF T
<1>6. Len(prog) \in T
  BY <1>1, <1>4, <1>5, SetInduction
<1> QED BY <1>1, <1>3, <1>6 DEF T

(* The marks of a call say nothing of the memory.                           *)
LEMMA MarksSound ==
    ASSUME NEW s, Sound(s, NULL), NEW p \in Procs, NEW t \in State, t.mm = s.mm, t.ref = s.ref, t.free = s.free,
           t.data = s.data, t.nfree = s.nfree, (t.short <=> s.short)
    PROVE  Sound(t, NULL) /\ Keeps(s, t, p) /\ SameView(s, t)
<1>1. FramesOk(s, NULL) /\ PlacesOk(s) /\ LostIn(s) >= 0
  BY DEF Sound
<1>2. SameView(s, t)
  BY DEF SameView, See, PageAt
<1>3. LostIn(t) = LostIn(s)
  BY DEF LostIn, Roots, Directories, PageTables
<1>4. Keeps(s, t, p) /\ PlacesOk(t)
  BY <1>1, <1>2, <1>3, SameTables
<1>5. FramesOk(t, NULL)
  BY <1>1, FramesSame
<1> QED BY <1>1, <1>2, <1>3, <1>4, <1>5 DEF Sound, InHand

(* What load_icode leaves.                                                  *)
Icode(s, t, p, prog) ==
    /\ Sound(t, NULL) /\ Apart(s, t, p) /\ LostIn(t) = LostIn(s) /\ (s.short => t.short)
    /\ ~t.ok => t.short
    /\ t.ok => /\ ~t.stopped /\ t.mm[p].pgdir /\ Range(t.mm[p].mmap) \subseteq AreasOf(prog)
               /\ Tight(t, p) /\ PageAt(t, p, VASize - 1) # NULL
               /\ \A i \in 1..Len(prog) : Filled(t, p, prog[i], prog[i].hi)

(* What pgdir_alloc_page leaves.                                            *)
PageMade(s, t, p, a, value) ==
    /\ Sound(t, NULL) /\ Keeps(s, t, p) /\ OnePage(s, t, p, a) /\ (t.stopped <=> s.stopped)
    /\ t.ok => See(t, p, a) = value /\ (t.short <=> s.short)
    /\ ~t.ok => t.short

(* The stack of a program that is loaded.                                   *)
LEMMA StackSound ==
    ASSUME NEW s, Sound(s, NULL), s.ok, NEW p \in Procs, s.mm[p].pgdir, Tight(s, p), NEW prog \in Programs,
           Range(s.mm[p].mmap) = {AreaOf(prog[i]) : i \in 1..Len(prog)},
           \A i \in 1..Len(prog) : Filled(s, p, prog[i], prog[i].hi), NEW garbage \in Garbage,
           NEW u, u = mm_map(s, p, StackArea.lo, StackArea.hi),
           NEW t, t = LoadPage(u, p, USTACKTOP - 1, TRUE, garbage)
    PROVE  /\ u.ok /\ Sound(t, NULL) /\ Keeps(s, t, p) /\ (~t.ok => t.short)
           /\ t.ok => /\ Range(t.mm[p].mmap) \subseteq AreasOf(prog) /\ PageAt(t, p, VASize - 1) # NULL
                      /\ \A i \in 1..Len(prog) : Filled(t, p, prog[i], prog[i].hi)
<1>1. /\ VASize \in Nat \ {0} /\ USTACKSIZE \in Nat \ {0} /\ USTACKSIZE <= VASize
      /\ Garbage \subseteq Values /\ Values \subseteq Nat
  BY Sizes, VmAssumption
<1>2. /\ StackArea.lo = VASize - USTACKSIZE /\ StackArea.hi = VASize /\ StackArea.lo \in Nat /\ StackArea.hi \in Nat
      /\ StackArea = [lo |-> StackArea.lo, hi |-> StackArea.hi] /\ StackArea \in Area
      /\ VASize - 1 \in Addrs /\ InVma(StackArea, VASize - 1)
  BY <1>1 DEF StackArea, USTACKTOP, Area, Addrs, InVma
<1>3. \A i \in 1..Len(prog) : SegmentOk(prog[i]) /\ prog[i].hi <= StackArea.lo /\ prog[i].hi \in Nat
  BY ProgramIs, SegmentIs
<1>4. Free(s.mm[p].mmap, StackArea)
  BY <1>3 DEF Free, AreaOf
<1>5. u.ok /\ WithArea(s, u, p, StackArea)
  <2> DEFINE lo == StackArea.lo
             hi == StackArea.hi
  <2>1. lo \in Nat /\ hi \in Nat /\ StackArea = [lo |-> lo, hi |-> hi] /\ u = mm_map(s, p, lo, hi)
    BY <1>2
  <2> HIDE DEF lo, hi
  <2> QED BY <1>2, <1>4, <2>1, MmMapSound
<1>11. PICK top \in Addrs : top = VASize - 1 /\ InVma(StackArea, top)
  BY <1>2
<1>6. Sound(u, NULL) /\ Keeps(s, u, p) /\ u.mm[p].pgdir /\ InArea(u, p, top)
  <2>1. Sound(u, NULL) /\ Keeps(s, u, p)
    BY <1>5 DEF WithArea
  <2> QED BY <1>5, <1>11, <2>1, WithAreaIn DEF Keeps
<1>7. t = pgdir_alloc_page(u, p, top, TRUE, garbage)
  BY <1>5, <1>11 DEF LoadPage, USTACKTOP
<1>8. /\ Sound(t, NULL) /\ Keeps(u, t, p) /\ OnePage(u, t, p, top)
      /\ t.ok => See(t, p, top) = garbage
      /\ ~t.ok => t.short
  <2>1. TRUE \in BOOLEAN /\ garbage \in Values
    BY <1>1
  <2>2. Sound(u, NULL) /\ u.ok /\ u.mm[p].pgdir /\ InArea(u, p, top)
    BY <1>5, <1>6
  <2>3. ASSUME NEW w \in BOOLEAN
        PROVE  PageMade(u, pgdir_alloc_page(u, p, top, w, garbage), p, top, garbage)
    <3>1. PICK v : v = pgdir_alloc_page(u, p, top, w, garbage)
      OBVIOUS
    <3>2. PageMade(u, v, p, top, garbage)
      BY <2>1, <2>2, <3>1, AllocPageSound DEF PageMade
    <3> QED BY <3>1, <3>2
  <2>4. PageMade(u, t, p, top, garbage)
    BY <1>7, <2>1, <2>3, Zenon
  <2> QED BY <2>4 DEF PageMade
<1>9. Keeps(s, t, p)
  BY <1>6, <1>8, KeepsTransitive
<1>10. ASSUME t.ok
       PROVE  /\ Range(t.mm[p].mmap) \subseteq AreasOf(prog) /\ PageAt(t, p, VASize - 1) # NULL
              /\ \A i \in 1..Len(prog) : Filled(t, p, prog[i], prog[i].hi)
  <2>1. Range(t.mm[p].mmap) = {AreaOf(prog[i]) : i \in 1..Len(prog)} \cup {StackArea}
    BY <1>5, <1>8 DEF WithArea, OnePage
  <2>2. PageAt(t, p, top) # NULL
    <3>1. garbage \in Nat
      BY <1>1
    <3>2. UNMAPPED \notin Nat
      BY DEF UNMAPPED
    <3>3. See(t, p, top) = garbage
      BY <1>8, <1>10, Zenon
    <3> QED BY <3>1, <3>2, <3>3 DEF See
  <2>3. ASSUME NEW i \in 1..Len(prog), NEW a \in prog[i].lo..(prog[i].hi - 1)
        PROVE  See(t, p, a) = Content(prog[i], a)
    <3>1. a \in Addrs /\ a # top
      <4>1. SegmentOk(prog[i]) /\ prog[i].hi \in Nat /\ prog[i].hi <= VASize - USTACKSIZE
        BY <1>2, <1>3
      <4>2. a \in Addrs /\ a < prog[i].hi /\ a \in Nat
        BY <4>1, SegmentIs
      <4> QED BY <1>1, <1>11, <4>1, <4>2
    <3>2. See(s, p, a) = Content(prog[i], a)
      BY DEF Filled
    <3> QED BY <1>5, <1>8, <3>1, <3>2 DEF WithArea, OnePage
  <2>4. Range(t.mm[p].mmap) \subseteq AreasOf(prog)
    BY <2>1, ProgramIs
  <2> QED BY <1>11, <2>2, <2>3, <2>4 DEF Filled
<1> QED BY <1>5, <1>8, <1>9, <1>10

(* load_icode makes a memory of the program and its stack, or fails for     *)
(* want of frames, or stops the kernel where it asserts that it has them.   *)
LEMMA IcodeSound ==
    ASSUME NEW s, Sound(s, NULL), s.ok, NEW p \in Procs, ~s.mm[p].pgdir, NEW prog \in Programs,
           NEW garbage \in Garbage, NEW t, t = load_icode(s, p, prog, garbage)
    PROVE  Icode(s, t, p, prog)
<1> DEFINE u == setup_pgdir(s, p)
           loaded == LoadSegments(u, p, prog)
           mapped == mm_map(loaded, p, StackArea.lo, StackArea.hi)
           ready == LoadPage(mapped, p, USTACKTOP - 1, TRUE, garbage)
<1>1. t = [ready EXCEPT !.stopped = mapped.ok /\ ~ready.ok]
  BY DEF load_icode
<1>2. /\ u = setup_pgdir(s, p) /\ loaded = LoadSegments(u, p, prog)
      /\ mapped = mm_map(loaded, p, StackArea.lo, StackArea.hi)
      /\ ready = LoadPage(mapped, p, USTACKTOP - 1, TRUE, garbage)
  OBVIOUS
<1> HIDE DEF u, loaded, mapped, ready
<1>3. /\ Sound(u, NULL) /\ Apart(s, u, p) /\ LostIn(u) = LostIn(s) /\ (u.stopped <=> s.stopped)
      /\ u.ok => Empty(u, p) /\ Snug(u, p) /\ (u.short <=> s.short)
      /\ ~u.ok => u.mm = s.mm /\ u.short
  BY <1>2, SetupSound
<1> DEFINE Partly(v) == /\ Sound(v, NULL) /\ Apart(s, v, p) /\ LostIn(v) = LostIn(s) /\ (s.short => v.short)
                        /\ ~v.ok => v.short
<1>4. Partly(u)
  BY <1>3
<1>5. ASSUME NEW v, Sound(v, NULL), ~v.ok
      PROVE  /\ LoadSegments(v, p, prog) = v /\ mm_map(v, p, StackArea.lo, StackArea.hi) = v
             /\ LoadPage(v, p, USTACKTOP - 1, TRUE, garbage) = v
  BY <1>5, FailedSegments, FailedMap DEF Sound, LoadPage
<1>6. ready \in State => /\ t \in State /\ t.mm = ready.mm /\ t.ref = ready.ref /\ t.free = ready.free
                         /\ t.data = ready.data /\ t.nfree = ready.nfree /\ (t.short <=> ready.short)
                         /\ (t.ok <=> ready.ok) /\ (t.stopped <=> mapped.ok /\ ~ready.ok)
  <2> DEFINE stopped == mapped.ok /\ ~ready.ok
  <2>1. stopped \in BOOLEAN /\ (stopped <=> mapped.ok /\ ~ready.ok) /\ t = [ready EXCEPT !.stopped = stopped]
    BY <1>1
  <2> HIDE DEF stopped
  <2>2. ready \in State => /\ t \in State /\ t.mm = ready.mm /\ t.ref = ready.ref /\ t.free = ready.free
                           /\ t.data = ready.data /\ t.nfree = ready.nfree /\ t.short = ready.short
                           /\ t.ok = ready.ok /\ t.stopped = stopped
    BY <2>1 DEF State
  <2> QED BY <2>1, <2>2
<1>7. Sound(ready, NULL) => Sound(t, NULL) /\ Keeps(ready, t, p) /\ SameView(ready, t)
  <2> SUFFICES ASSUME Sound(ready, NULL) PROVE Sound(t, NULL) /\ Keeps(ready, t, p) /\ SameView(ready, t)
    OBVIOUS
  <2>1. ready \in State
    BY DEF Sound
  <2> QED BY <1>6, <2>1, MarksSound
<1>8. Partly(ready) => Partly(t)
  <2> SUFFICES ASSUME Partly(ready) PROVE Partly(t)
    OBVIOUS
  <2>1. ready \in State /\ Sound(t, NULL) /\ Keeps(ready, t, p)
    BY <1>7 DEF Sound
  <2>2. Apart(s, t, p)
    BY <2>1, ApartTransitive DEF Keeps
  <2> QED BY <1>6, <2>1, <2>2 DEF Keeps
<1>9. CASE ~u.ok
  <2>1. loaded = u
    BY <1>2, <1>3, <1>5, <1>9
  <2>2. mapped = u
    BY <1>2, <1>3, <1>5, <1>9, <2>1
  <2>3. ready = u
    BY <1>2, <1>3, <1>5, <1>9, <2>2
  <2>4. Partly(t)
    BY <1>4, <1>8, <2>3
  <2>5. ~t.ok
    BY <1>3, <1>6, <1>9, <2>3 DEF Sound
  <2> QED BY <2>4, <2>5 DEF Icode
<1>10. CASE u.ok
  <2>1. LoadedTo(u, loaded, p, prog, Len(prog))
    BY <1>2, <1>3, <1>10, LoadSegmentsSound
  <2>2. Built(u, loaded, p) /\ Tight(u, p) /\ u.mm[p].pgdir
    BY <1>3, <1>10, <2>1 DEF LoadedTo, Tight, Empty
  <2>3. Keeps(u, loaded, p) /\ Sound(loaded, NULL) /\ Tight(loaded, p) /\ loaded.mm[p].pgdir
    BY <2>2 DEF Built, Keeps
  <2>4. Partly(loaded)
    <3>1. Apart(s, loaded, p)
      BY <1>3, <2>3, ApartTransitive DEF Keeps
    <3> QED BY <1>3, <1>10, <2>2, <2>3, <3>1 DEF Keeps, Built
  <2>5. CASE ~loaded.ok
    <3>1. mapped = loaded
      BY <1>2, <1>5, <2>3, <2>5
    <3>2. ready = loaded
      BY <1>2, <1>5, <2>3, <2>5, <3>1
    <3>3. Partly(t)
      BY <1>8, <2>4, <3>2
    <3>4. ~t.ok
      BY <1>6, <2>3, <2>5, <3>2 DEF Sound
    <3> QED BY <3>3, <3>4 DEF Icode
  <2>6. CASE loaded.ok
    <3>1. /\ Range(loaded.mm[p].mmap) = {AreaOf(prog[i]) : i \in 1..Len(prog)}
          /\ \A i \in 1..Len(prog) : Filled(loaded, p, prog[i], prog[i].hi)
      BY <2>1, <2>6 DEF LoadedTo
    <3>2. /\ mapped.ok /\ Sound(ready, NULL) /\ Keeps(loaded, ready, p) /\ (~ready.ok => ready.short)
          /\ ready.ok => /\ Range(ready.mm[p].mmap) \subseteq AreasOf(prog) /\ PageAt(ready, p, VASize - 1) # NULL
                         /\ \A i \in 1..Len(prog) : Filled(ready, p, prog[i], prog[i].hi)
      BY <1>2, <2>3, <2>6, <3>1, StackSound
    <3>3. Partly(ready)
      <4>1. Apart(s, ready, p)
        BY <2>4, <3>2, ApartTransitive DEF Keeps
      <4> QED BY <2>4, <3>2, <4>1 DEF Keeps
    <3>4. Partly(t)
      BY <1>8, <3>3
    <3>5. ASSUME t.ok
          PROVE  /\ ~t.stopped /\ t.mm[p].pgdir /\ Range(t.mm[p].mmap) \subseteq AreasOf(prog)
                 /\ Tight(t, p) /\ PageAt(t, p, VASize - 1) # NULL
                 /\ \A i \in 1..Len(prog) : Filled(t, p, prog[i], prog[i].hi)
      <4>1. /\ ready \in State /\ t.mm = ready.mm /\ ready.ok /\ ~t.stopped /\ (t.short <=> ready.short)
            /\ Keeps(ready, t, p) /\ SameView(ready, t)
        <5>1. ready \in State
          BY <3>2 DEF Sound
        <5> QED BY <1>6, <1>7, <3>2, <3>5, <5>1
      <4>2. t.mm[p].pgdir /\ Tight(t, p)
        BY <2>3, <3>2, <4>1 DEF Keeps
      <4>3. ASSUME NEW i \in 1..Len(prog) PROVE Filled(t, p, prog[i], prog[i].hi)
        <5>1. SegmentOk(prog[i])
          BY ProgramIs
        <5>2. \A a \in prog[i].lo..(prog[i].hi - 1) : a \in Addrs
          BY <5>1, SegmentIs
        <5>3. Filled(ready, p, prog[i], prog[i].hi)
          BY <3>2, <4>1
        <5> QED BY <4>1, <5>2, <5>3 DEF Filled, SameView
      <4> QED BY <3>2, <4>1, <4>2, <4>3 DEF PageAt
    <3> QED BY <3>4, <3>5 DEF Icode
  <2> QED BY <2>5, <2>6
<1> QED BY <1>9, <1>10

-----------------------------------------------------------------------------
(* copy_range and do_pgfault.                                               *)

(* The bits of an entry are changed: nobody sees it.                        *)
SameMaps(s, t) == \A q \in Procs : \A b \in Addrs : PageAt(t, q, b) = PageAt(s, q, b)

WithBits(s, p, a, e) == [s EXCEPT !.mm[p].pte[a] = e]

(* Changing the bits of an entry, but not its frame, changes what nobody    *)
(* sees, if one that may be written has a frame of its own.                 *)
LEMMA BitsSound ==
    ASSUME NEW x, NEW s, Sound(s, x), NEW p \in Procs, NEW a \in Addrs, PageAt(s, p, a) # NULL,
           NEW e \in Entry, e.page = PageAt(s, p, a), e.w => ~e.cow /\ s.ref[e.page] = 1,
           NEW t, t = WithBits(s, p, a, e), NEW r \in Procs
    PROVE  /\ Sound(t, x) /\ Keeps(s, t, r) /\ SameView(s, t) /\ SameMaps(s, t) /\ ShapeStays(s, t)
           /\ t.mm[p].pte[a] = e /\ t.ref = s.ref /\ t.data = s.data /\ t.nfree = s.nfree
           /\ (t.ok <=> s.ok) /\ (t.short <=> s.short) /\ (t.stopped <=> s.stopped)
<1> DEFINE mm == WithEntry(s.mm, p, a, e)
<1>1. s \in State /\ LostIn(s) >= 0 /\ InHand(s, x) /\ FramesOk(s, x) /\ PlacesOk(s)
  BY DEF Sound
<1>2. t = [s EXCEPT !.mm = mm]
  BY DEF WithEntry, WithBits
<1> HIDE DEF mm
<1>3. mm \in [Procs -> Mm]
  <2> DEFINE u == [mm |-> mm]
  <2>1. u.mm = WithEntry(s.mm, p, a, e)
    BY DEF mm
  <2>2. u.mm \in [Procs -> Mm]
    <3> HIDE DEF u
    <3> QED BY <1>1, <2>1, EntrySet
  <2> QED BY <2>2
<1>4. /\ t \in State /\ t.ref = s.ref /\ t.mm = mm /\ t.nfree = s.nfree /\ t.free = s.free
      /\ t.data = s.data /\ (t.ok <=> s.ok) /\ (t.short <=> s.short) /\ (t.stopped <=> s.stopped)
  BY <1>1, <1>2, <1>3 DEF State
<1>5. OneEntry(s, t, p, a) /\ t.mm[p].pte[a] = e
  <2>1. t.mm = WithEntry(s.mm, p, a, e)
    BY <1>4 DEF mm
  <2> QED BY <1>1, <2>1, EntrySet
<1>6. OthersStay(s, t, p, a) /\ ShapeStays(s, t) /\ Roots(t) = Roots(s)
      /\ Directories(t) = Directories(s) /\ PageTables(t) = PageTables(s)
  BY <1>5, OneEntryIs
<1>7. PageAt(t, p, a) = PageAt(s, p, a)
  BY <1>5 DEF PageAt
<1>8. ASSUME NEW q \in Procs, NEW b \in Addrs
      PROVE  /\ PageAt(t, q, b) = PageAt(s, q, b)
             /\ (q # p \/ b # a) => t.mm[q].pte[b] = s.mm[q].pte[b]
  BY <1>6, <1>7 DEF OthersStay
<1>9. SameMaps(s, t) /\ SameView(s, t)
  BY <1>4, <1>8 DEF SameMaps, SameView, See
<1>10. FramesOk(t, x)
  <2>1. \A page : MappingsIn(t, page) = MappingsIn(s, page)
    <3>1. \A u : \A page : MappingsIn(u, page) = {pa \in Procs \X Addrs : PageAt(u, pa[1], pa[2]) = page}
      BY DEF MappingsIn, PageAt
    <3>2. \A pa \in Procs \X Addrs : pa[1] \in Procs /\ pa[2] \in Addrs
      OBVIOUS
    <3> QED BY <1>8, <3>1, <3>2
  <2>2. Counted(t) /\ FreeIs(t, x)
    BY <1>1, <1>4, <2>1 DEF FramesOk, Counted, FreeIs
  <2>3. Owned(t)
    <3> SUFFICES ASSUME NEW q \in Procs, NEW b \in Addrs, t.mm[q].pte[b].w
                 PROVE  ~t.mm[q].pte[b].cow /\ PageAt(t, q, b) # NULL /\ t.ref[PageAt(t, q, b)] = 1
      BY DEF Owned
    <3>1. CASE q # p \/ b # a
      BY <1>1, <1>4, <1>8, <3>1 DEF FramesOk, Owned
    <3>2. CASE q = p /\ b = a
      <4>1. t.mm[q].pte[b] = e /\ PageAt(t, q, b) = e.page
        BY <1>5, <1>7, <3>2
      <4>2. e.w
        BY <4>1
      <4>3. e.page # NULL /\ t.ref = s.ref
        BY <1>4
      <4> QED BY <4>1, <4>2, <4>3
    <3> QED BY <3>1, <3>2
  <2>4. Clean(t)
    <3> SUFFICES ASSUME NEW q \in Procs, NEW b \in Addrs, PageAt(t, q, b) = NULL
                 PROVE  t.mm[q].pte[b] = NoEntry
      BY DEF Clean
    <3>1. q # p \/ b # a
      BY <1>7
    <3> QED BY <1>1, <1>8, <3>1 DEF FramesOk, Clean
  <2>5. OneAddress(t)
    BY <1>1, <1>8 DEF FramesOk, OneAddress
  <2> QED BY <2>2, <2>3, <2>4, <2>5 DEF FramesOk
<1>11. PlacesOk(t)
  <2>1. Mapped(t)
    BY <1>1, <1>6, <1>8 DEF PlacesOk, Mapped, ShapeStays
  <2>2. Hang(t) /\ Rising(t)
    BY <1>1, <1>6 DEF PlacesOk, Hang, Rising, ShapeStays
  <2>3. Rooted(t)
    <3>1. s.mm[p].pgdir
      <4>1. NoMm.pte[a].page = NULL
        BY NoMmIs
      <4> QED BY <1>1, <4>1 DEF PlacesOk, Rooted, PageAt
    <3> QED BY <1>1, <1>5, <3>1 DEF PlacesOk, Rooted, OneEntry
  <2> QED BY <2>1, <2>2, <2>3 DEF PlacesOk
<1>12. LostIn(t) = LostIn(s)
  BY <1>4, <1>6 DEF LostIn
<1>13. Sound(t, x)
  BY <1>1, <1>4, <1>10, <1>11, <1>12 DEF Sound, InHand
<1>14. Keeps(s, t, r)
  <2>1. Apart(s, t, r)
    BY <1>6, <1>9 DEF Apart, ShapeStays, SameView, SameMaps
  <2>2. Tight(s, r) => Tight(t, r)
    <3>1. t.mm[r].dirs = s.mm[r].dirs /\ t.mm[r].tables = s.mm[r].tables /\ \A b \in Addrs : InArea(t, r, b) <=> InArea(s, r, b)
      BY <1>6 DEF ShapeStays
    <3> QED BY <1>4, <3>1 DEF Tight, Snug
  <2>3. t.mm[r].pgdir <=> s.mm[r].pgdir
    BY <1>6 DEF ShapeStays
  <2> QED BY <1>4, <1>12, <2>1, <2>2, <2>3 DEF Keeps
<1> QED BY <1>4, <1>5, <1>6, <1>9, <1>13, <1>14

(* A frame that is mapped and may not be written may get another entry.     *)
LEMMA ReadOnly ==
    ASSUME NEW s, Sound(s, NULL), NEW p \in Procs, NEW a \in Addrs, NEW page, page = PageAt(s, p, a), page # NULL,
           ~s.mm[p].pte[a].w
    PROVE  ReadAt(s, page, a)
<1> SUFFICES ASSUME NEW q \in Procs, NEW b \in Addrs, PageAt(s, q, b) = page
             PROVE  b = a /\ ~s.mm[q].pte[b].w
  BY DEF ReadAt
<1>1. b = a
  BY DEF Sound, FramesOk, OneAddress
<1>2. ASSUME s.mm[q].pte[b].w PROVE FALSE
  <2>1. s.ref[page] = 1
    BY <1>2 DEF Sound, FramesOk, Owned
  <2>2. p = q
    BY <2>1, Sole
  <2> QED BY <1>1, <1>2, <2>2
<1> QED BY <1>1, <1>2

(* What the copy of one page leaves.                                        *)
Copied(s, t, to, from, a) ==
    /\ Sound(t, NULL) /\ Keeps(s, t, to) /\ OnePage(s, t, to, a) /\ ~t.stopped
    /\ t.ok => See(t, to, a) = See(s, from, a) /\ (t.short <=> s.short)
    /\ ~t.ok => t.short

(* Two steps of copy_range on one page are one.                             *)
LEMMA StepTogether ==
    ASSUME NEW s, NEW t, NEW u, NEW p, NEW a, Keeps(s, t, p), OnePage(s, t, p, a), Keeps(t, u, p), OnePage(t, u, p, a)
    PROVE  Keeps(s, u, p) /\ OnePage(s, u, p, a)
<1>1. Keeps(s, u, p)
  BY KeepsTransitive
<1>2. OnePage(s, u, p, a)
  BY OnePageTransitive
<1> QED BY <1>1, <1>2

(* The state in which the parent may not write the page any more.           *)
Shared(pt, from, a, pte) ==
    IF pte.w THEN [pt EXCEPT !.mm[from].pte[a] = [pte EXCEPT !.w = FALSE, !.cow = TRUE]] ELSE pt

(* The first half of sharing: the entry of the parent loses its right to    *)
(* write, and nothing else changes.                                         *)
LEMMA SharedSound ==
    ASSUME NEW s, Sound(s, NULL), NEW from \in Procs, NEW to \in Procs, NEW a \in Addrs, PageAt(s, from, a) # NULL,
           NEW pte, pte = s.mm[from].pte[a], NEW t, t = Shared(s, from, a, pte)
    PROVE  /\ Sound(t, NULL) /\ Keeps(s, t, to) /\ SameView(s, t) /\ SameMaps(s, t) /\ ShapeStays(s, t)
           /\ ReadAt(t, pte.page, a) /\ t.ref = s.ref /\ t.data = s.data
           /\ (t.ok <=> s.ok) /\ (t.short <=> s.short) /\ (t.stopped <=> s.stopped)
<1>1. pte \in Entry /\ pte.page = PageAt(s, from, a)
  BY DEF Sound, State, Mm, PageAt
<1>2. CASE ~pte.w
  <2>1. t = s
    BY <1>2 DEF Shared
  <2>2. Keeps(s, s, to) /\ SameView(s, s) /\ SameMaps(s, s) /\ ShapeStays(s, s)
    BY KeepsItself DEF SameView, SameMaps, ShapeStays
  <2>3. ReadAt(s, pte.page, a)
    BY <1>1, <1>2, ReadOnly
  <2> QED BY <2>1, <2>2, <2>3
<1>3. CASE pte.w
  <2> DEFINE e == [pte EXCEPT !.w = FALSE, !.cow = TRUE]
  <2>1. e \in Entry /\ e.page = pte.page /\ ~e.w
    BY <1>1 DEF Entry
  <2>2. t = WithBits(s, from, a, e)
    BY <1>3 DEF Shared, WithBits
  <2> HIDE DEF e
  <2>3. /\ Sound(t, NULL) /\ Keeps(s, t, to) /\ SameView(s, t) /\ SameMaps(s, t) /\ ShapeStays(s, t)
        /\ t.mm[from].pte[a] = e /\ t.ref = s.ref /\ t.data = s.data
        /\ (t.ok <=> s.ok) /\ (t.short <=> s.short) /\ (t.stopped <=> s.stopped)
    BY <1>1, <2>1, <2>2, BitsSound
  <2>4. ReadAt(t, pte.page, a)
    <3>1. PageAt(t, from, a) = pte.page /\ pte.page # NULL /\ ~t.mm[from].pte[a].w
      BY <1>1, <2>1, <2>3 DEF PageAt
    <3> QED BY <2>3, <3>1, ReadOnly
  <2> QED BY <2>3, <2>4
<1> QED BY <1>2, <1>3

(* Copy on write: parent and child read the frame of the parent.            *)
LEMMA ShareSound ==
    ASSUME NEW s, Sound(s, NULL), s.ok, ~s.stopped, NEW to \in Procs, NEW from \in Procs, to # from, s.mm[to].pgdir,
           NEW a \in Addrs, InArea(s, to, a), PageAt(s, to, a) = NULL, PDX0(a) \in s.mm[to].tables,
           NEW pte, pte = s.mm[from].pte[a], PageAt(s, from, a) # NULL, NEW shared, shared = Shared(s, from, a, pte),
           NEW e, e = [page |-> pte.page, w |-> FALSE, cow |-> pte.w],
           NEW t, t = page_insert(shared, to, pte.page, a, e.w, e.cow)
    PROVE  Copied(s, t, to, from, a)
<1>1. /\ Sound(shared, NULL) /\ Keeps(s, shared, to) /\ SameView(s, shared) /\ SameMaps(s, shared) /\ ShapeStays(s, shared)
      /\ ReadAt(shared, pte.page, a) /\ shared.ref = s.ref /\ shared.data = s.data
      /\ (shared.ok <=> s.ok) /\ (shared.short <=> s.short) /\ (shared.stopped <=> s.stopped)
  BY SharedSound
<1>2. PICK page : page = pte.page
  OBVIOUS
<1>3. page \in Frames /\ page # NULL /\ s.ref[page] # 0 /\ page = PageAt(s, from, a) /\ pte \in Entry
  <2>1. page = PageAt(s, from, a) /\ pte \in Entry
    BY <1>2 DEF Sound, State, Mm, PageAt
  <2> QED BY <2>1, MappedIs
<1>4. e \in Entry /\ e.page = page /\ ~e.w
  BY <1>2, <1>3 DEF Entry
<1>5. GivenPage(shared, NULL, page, a, e)
  BY <1>1, <1>2, <1>3, <1>4 DEF GivenPage
<1>6. /\ shared.mm[to].pgdir /\ InArea(shared, to, a) /\ PageAt(shared, to, a) = NULL
      /\ PDX0(a) \in shared.mm[to].tables /\ shared.mm[to].mmap = s.mm[to].mmap
  BY <1>1 DEF ShapeStays, SameMaps
<1>7. t = page_insert(shared, to, page, a, e.w, e.cow) /\ shared.ok
  BY <1>1, <1>2
<1>8. /\ t.ok => Sound(t, NULL) /\ See(t, to, a) = shared.data[page] /\ (t.short <=> shared.short)
      /\ Keeps(shared, t, to) /\ OnePage(shared, t, to, a) /\ (t.stopped <=> shared.stopped) /\ t.ok
  <2>1. /\ PageAt(shared, to, a) # page /\ Sound(shared, NULL) /\ shared.ok /\ shared.mm[to].pgdir
        /\ InArea(shared, to, a)
    BY <1>1, <1>3, <1>6
  <2>2. Inserted(NULL, shared, t, to, page, a, e)
    BY <1>5, <1>7, <2>1, InsertSound
  <2> QED BY <1>6, <2>2 DEF Inserted
<1>9. See(t, to, a) = See(s, from, a)
  BY <1>1, <1>3, <1>8 DEF See
<1>10. OnePage(s, shared, to, a)
  BY <1>1, <1>6 DEF OnePage, SameView, SameMaps
<1>11. Keeps(s, t, to) /\ OnePage(s, t, to, a)
  <2>1. Keeps(s, shared, to) /\ OnePage(s, shared, to, a) /\ Keeps(shared, t, to) /\ OnePage(shared, t, to, a)
    BY <1>1, <1>8, <1>10
  <2> QED BY ONLY <2>1, StepTogether
<1> QED BY <1>1, <1>8, <1>9, <1>11 DEF Copied

(* A frame of its own for the child.                                        *)
Duplicated(s, t, to, a, value) ==
    /\ Sound(t, NULL) /\ Keeps(s, t, to) /\ OnePage(s, t, to, a) /\ ~t.stopped
    /\ t.ok /\ See(t, to, a) = value /\ (t.short <=> s.short)

(* A new frame with given contents in an empty entry: the copy of           *)
(* copy_range, and of a fault.                                              *)
LEMMA DuplicateSound ==
    ASSUME NEW s, Sound(s, NULL), s.ok, ~s.stopped, NEW to \in Procs, s.mm[to].pgdir,
           NEW a \in Addrs, InArea(s, to, a), PDX0(a) \in s.mm[to].tables, s.nfree # 0,
           NEW value \in Values, NEW w \in BOOLEAN, NEW page, page = NextFrame(s),
           NEW t, t = page_insert(alloc_page(s, value), to, page, a, w, FALSE)
    PROVE  Duplicated(s, t, to, a, value)
<1>1. PICK u : u = alloc_page(s, value)
  OBVIOUS
<1>2. /\ page \in Frames /\ page # NULL /\ s.ref[page] = 0
      /\ Sound(u, page) /\ Keeps(s, u, to) /\ SameView(s, u)
      /\ u.mm = s.mm /\ u.ref = s.ref /\ u.data[page] = value
      /\ (u.ok <=> s.ok) /\ (u.short <=> s.short) /\ (u.stopped <=> s.stopped)
  BY <1>1, AllocSound
<1>3. PICK e : e = [page |-> page, w |-> w, cow |-> FALSE]
  OBVIOUS
<1>4. GivenPage(u, page, page, a, e) /\ PageAt(u, to, a) # page
  BY <1>2, <1>3, FreshPage
<1>5. OnePage(s, u, to, a) /\ InArea(u, to, a) /\ u.mm[to].pgdir /\ PDX0(a) \in u.mm[to].tables /\ u.ok
  BY <1>2, SeeSame
<1>6. t = page_insert(u, to, page, a, e.w, e.cow)
  BY <1>1, <1>3
<1>7. /\ t.ok => Sound(t, NULL) /\ See(t, to, a) = u.data[page] /\ (t.short <=> u.short)
      /\ Keeps(u, t, to) /\ OnePage(u, t, to, a) /\ (t.stopped <=> u.stopped) /\ t.ok
  <2>1. Inserted(page, u, t, to, page, a, e)
    BY <1>2, <1>4, <1>5, <1>6, InsertSound
  <2> QED BY <1>5, <2>1 DEF Inserted
<1>8. Keeps(s, t, to) /\ OnePage(s, t, to, a)
  <2>1. Keeps(s, u, to) /\ OnePage(s, u, to, a) /\ Keeps(u, t, to) /\ OnePage(u, t, to, a)
    BY <1>2, <1>5, <1>7
  <2> QED BY ONLY <2>1, StepTogether
<1> QED BY <1>2, <1>7, <1>8 DEF Duplicated

(* One page of copy_range.                                                  *)
LEMMA CopyPageSound ==
    ASSUME NEW s, Sound(s, NULL), s.ok, ~s.stopped, NEW to \in Procs, NEW from \in Procs, to # from, s.mm[to].pgdir,
           NEW a \in Addrs, InArea(s, to, a), PageAt(s, to, a) = NULL, NEW t, t = CopyPage(s, to, from, a)
    PROVE  (t.stopped /\ ~t.ok) \/ Copied(s, t, to, from, a)
<1> DEFINE pte == s.mm[from].pte[a]
           pt == get_pte(s, to, a)
<1>1. pte = s.mm[from].pte[a] /\ pte.page = PageAt(s, from, a) /\ pt = get_pte(s, to, a)
  BY DEF PageAt
<1>2. t = IF ~s.ok \/ pte.page = NULL THEN s
          ELSE IF ~pt.ok THEN pt
          ELSE IF share THEN page_insert(Shared(pt, from, a, pte), to, pte.page, a, FALSE, pte.w)
          ELSE IF pt.nfree = 0 THEN [TakeFrame(pt) EXCEPT !.stopped = TRUE]
          ELSE page_insert(alloc_page(pt, s.data[pte.page]), to, NextFrame(pt), a, pte.w, FALSE)
  BY DEF CopyPage, Shared
<1> HIDE DEF pte, pt
<1>3. CASE PageAt(s, from, a) = NULL
  <2>1. t = s
    BY <1>1, <1>2, <1>3
  <2>2. Keeps(s, s, to) /\ OnePage(s, s, to, a)
    BY KeepsItself DEF OnePage
  <2>3. See(s, to, a) = See(s, from, a)
    BY <1>3 DEF See
  <2> QED BY <2>1, <2>2, <2>3 DEF Copied
<1>4. CASE PageAt(s, from, a) # NULL
  <2>1. /\ Sound(pt, NULL) /\ Keeps(s, pt, to) /\ OnlyTables(s, pt, to)
        /\ pt.ok => PDX0(a) \in pt.mm[to].tables /\ (pt.short <=> s.short)
        /\ ~pt.ok => pt.short
    BY <1>1, GetPteSound
  <2>2. /\ pt.ref = s.ref /\ pt.data = s.data /\ (pt.stopped <=> s.stopped)
        /\ pt.mm[from] = s.mm[from] /\ pt.mm[to].pte = s.mm[to].pte /\ pt.mm[to].mmap = s.mm[to].mmap
        /\ (pt.mm[to].pgdir <=> s.mm[to].pgdir)
    BY <2>1 DEF OnlyTables
  <2>3. /\ pt.mm[to].pgdir /\ InArea(pt, to, a) /\ PageAt(pt, to, a) = NULL /\ ~pt.stopped
        /\ pte = pt.mm[from].pte[a] /\ PageAt(pt, from, a) = pte.page /\ pte.page # NULL
        /\ See(pt, from, a) = See(s, from, a) /\ See(pt, from, a) = s.data[pte.page]
    BY <1>1, <1>4, <2>2 DEF InArea, find_vma, PageAt, See
  <2>4. OnePage(s, pt, to, a)
    BY <2>2 DEF OnePage, PageAt, See
  <2>5. CASE ~pt.ok
    <3>1. t = pt
      BY <1>2, <2>3, <2>5
    <3> QED BY <2>1, <2>3, <2>4, <2>5, <3>1 DEF Copied
  <2>6. ASSUME pt.ok, Copied(pt, t, to, from, a) PROVE Copied(s, t, to, from, a)
    <3>1. Keeps(s, t, to) /\ OnePage(s, t, to, a)
      BY <2>1, <2>4, <2>6, StepTogether DEF Copied
    <3> QED BY <2>1, <2>3, <2>6, <3>1 DEF Copied
  <2>7. CASE pt.ok /\ share
    <3>1. PICK e : e = [page |-> pte.page, w |-> FALSE, cow |-> pte.w]
      OBVIOUS
    <3>2. PICK shared : shared = Shared(pt, from, a, pte)
      OBVIOUS
    <3>3. t = page_insert(shared, to, pte.page, a, e.w, e.cow)
      BY <1>2, <2>3, <2>7, <3>1, <3>2
    <3>4. Copied(pt, t, to, from, a)
      BY <2>1, <2>3, <2>7, <3>1, <3>2, <3>3, ShareSound
    <3> QED BY <2>6, <2>7, <3>4
  <2>8. CASE pt.ok /\ ~share /\ pt.nfree = 0
    <3>1. t = [TakeFrame(pt) EXCEPT !.stopped = TRUE]
      BY <1>2, <2>3, <2>8
    <3>2. TakeFrame(pt) \in State /\ ~TakeFrame(pt).ok
      BY <2>1, <2>8, TakeFrameIs DEF Sound
    <3>3. t.stopped = TRUE /\ t.ok = TakeFrame(pt).ok
      BY <3>1, <3>2 DEF State
    <3> QED BY <3>2, <3>3
  <2>9. CASE pt.ok /\ ~share /\ pt.nfree # 0
    <3>1. PICK page : page = NextFrame(pt)
      OBVIOUS
    <3>2. PICK value : value = s.data[pte.page]
      OBVIOUS
    <3>3. PICK w : w = pte.w
      OBVIOUS
    <3>4. t = page_insert(alloc_page(pt, value), to, page, a, w, FALSE)
      BY <1>2, <2>3, <2>9, <3>1, <3>2, <3>3
    <3>5. value \in Values /\ w \in BOOLEAN
      <4>1. pte \in Entry /\ pte.page \in Frames
        <5>1. pte \in Entry
          BY <1>1 DEF Sound, State, Mm
        <5> QED BY <2>3, <5>1 DEF Entry
      <4>2. s.data \in [Frames -> Values]
        BY DEF Sound, State
      <4> QED BY <3>2, <3>3, <4>1, <4>2 DEF Entry
    <3>6. Duplicated(pt, t, to, a, value)
      <4>1. /\ Sound(pt, NULL) /\ pt.ok /\ ~pt.stopped /\ pt.mm[to].pgdir /\ InArea(pt, to, a)
            /\ PDX0(a) \in pt.mm[to].tables /\ pt.nfree # 0
        BY <2>1, <2>3, <2>9
      <4> QED BY <3>1, <3>4, <3>5, <4>1, DuplicateSound
    <3>7. Copied(pt, t, to, from, a)
      BY <2>3, <3>2, <3>6 DEF Copied, Duplicated
    <3> QED BY <2>6, <2>9, <3>7
  <2> QED BY <2>5, <2>7, <2>8, <2>9
<1> QED BY <1>3, <1>4

-----------------------------------------------------------------------------
(* copy_range and dup_mmap.                                                 *)

Stopped(t) == t.stopped /\ ~t.ok

(* What the copy of pages leaves.                                           *)
CopiedTo(s, t, to, from, lo, hi) ==
    /\ Sound(t, NULL) /\ Keeps(s, t, to) /\ Within(s, t, to, lo, hi) /\ ~t.stopped
    /\ t.ok => (\A a \in lo..(hi - 1) : See(t, to, a) = See(s, from, a)) /\ (t.short <=> s.short)
    /\ ~t.ok => t.short

(* copy_range gives the child what the parent has in the range, shared or   *)
(* copied, or fails, or stops the kernel where it asserts that there is a   *)
(* frame.                                                                   *)
LEMMA CopyRangeSound ==
    ASSUME NEW s, Sound(s, NULL), s.ok, ~s.stopped, NEW to \in Procs, NEW from \in Procs, to # from, s.mm[to].pgdir,
           NEW lo \in Nat, NEW hi \in Nat, lo <= hi, hi <= VASize,
           \A a \in lo..(hi - 1) : InArea(s, to, a) /\ PageAt(s, to, a) = NULL,
           NEW t, t = copy_range(s, to, from, lo, hi)
    PROVE  Stopped(t) \/ CopiedTo(s, t, to, from, lo, hi)
<1>0. PICK f : CopyRun(f, s, to, from, lo, hi)
  BY CopySteps
<1>1. /\ f[0] = s
      /\ \A k \in 1..(hi - lo) : f[k] = CopyPage(f[k - 1], to, from, lo + k - 1)
      /\ t = f[hi - lo]
  BY <1>0 DEF CopyRun
<1> DEFINE Done(k) == Stopped(f[k]) \/ CopiedTo(s, f[k], to, from, lo, lo + k)
           T == {k \in Nat : k <= hi - lo => Done(k)}
<1>2. 0 \in T
  <2>1. Keeps(s, s, to)
    BY KeepsItself
  <2>2. Within(s, s, to, lo, lo + 0) /\ \A a \in lo..((lo + 0) - 1) : See(s, to, a) = See(s, from, a)
    BY DEF Within
  <2> QED BY <1>1, <2>1, <2>2 DEF CopiedTo
<1>3. ASSUME NEW k \in Nat, k \in T PROVE k + 1 \in T
  <2> SUFFICES ASSUME k + 1 <= hi - lo PROVE Done(k + 1)
    OBVIOUS
  <2>1. Done(k) /\ k + 1 \in 1..(hi - lo) /\ lo + k \in lo..(hi - 1) /\ lo + k \in Addrs
    BY <1>3, Sizes DEF Addrs
  <2>2. f[k + 1] = CopyPage(f[k], to, from, lo + k)
    <3>1. f[k + 1] = CopyPage(f[(k + 1) - 1], to, from, lo + (k + 1) - 1)
      BY <1>1, <2>1
    <3>2. (k + 1) - 1 = k /\ lo + (k + 1) - 1 = lo + k
      OBVIOUS
    <3> QED BY <3>1, <3>2
  <2>3. CASE ~f[k].ok
    <3>1. f[k + 1] = f[k]
      BY <2>2, <2>3 DEF CopyPage
    <3>2. ASSUME CopiedTo(s, f[k], to, from, lo, lo + k)
          PROVE  CopiedTo(s, f[k + 1], to, from, lo, lo + (k + 1))
      <4>1. Within(s, f[k + 1], to, lo, lo + (k + 1))
        BY <3>1, <3>2 DEF CopiedTo, Within, Addrs
      <4> QED BY <2>3, <3>1, <3>2, <4>1 DEF CopiedTo
    <3> QED BY <2>1, <3>1, <3>2
  <2>4. CASE f[k].ok
    <3>1. CopiedTo(s, f[k], to, from, lo, lo + k)
      BY <2>1, <2>4 DEF Stopped
    <3>2. Sound(f[k], NULL) /\ Keeps(s, f[k], to) /\ Within(s, f[k], to, lo, lo + k) /\ ~f[k].stopped
      BY <3>1 DEF CopiedTo
    <3>3. /\ f[k].mm[to].pgdir /\ InArea(f[k], to, lo + k) /\ PageAt(f[k], to, lo + k) = NULL
          /\ f[k].mm[to].mmap = s.mm[to].mmap
      <4>1. InArea(s, to, lo + k) /\ PageAt(s, to, lo + k) = NULL /\ ~(lo + k < lo + k)
        BY <2>1
      <4> QED BY <2>1, <3>2, <4>1 DEF Keeps, Within, InArea, find_vma
    <3>4. Stopped(f[k + 1]) \/ Copied(f[k], f[k + 1], to, from, lo + k)
      BY <2>1, <2>2, <2>4, <3>2, <3>3, CopyPageSound DEF Stopped
    <3>5. ASSUME Copied(f[k], f[k + 1], to, from, lo + k)
          PROVE  CopiedTo(s, f[k + 1], to, from, lo, lo + (k + 1))
      <4>1. /\ Sound(f[k + 1], NULL) /\ Keeps(f[k], f[k + 1], to) /\ OnePage(f[k], f[k + 1], to, lo + k) /\ ~f[k + 1].stopped
            /\ f[k + 1].ok => See(f[k + 1], to, lo + k) = See(f[k], from, lo + k) /\ (f[k + 1].short <=> f[k].short)
            /\ ~f[k + 1].ok => f[k + 1].short
        BY <3>5 DEF Copied
      <4>2. Keeps(s, f[k + 1], to)
        BY <3>2, <4>1, KeepsTransitive
      <4>3. Within(s, f[k + 1], to, lo, lo + (k + 1))
        <5> SUFFICES ASSUME NEW b \in Addrs, ~(lo <= b /\ b < lo + (k + 1))
                     PROVE  PageAt(f[k + 1], to, b) = PageAt(s, to, b) /\ See(f[k + 1], to, b) = See(s, to, b)
          BY <3>3, <4>1 DEF Within, OnePage
        <5>1. b # lo + k /\ ~(lo <= b /\ b < lo + k)
          BY DEF Addrs
        <5> QED BY <3>2, <4>1, <5>1 DEF Within, OnePage
      <4>4. ASSUME f[k + 1].ok, NEW a \in lo..((lo + (k + 1)) - 1) PROVE See(f[k + 1], to, a) = See(s, from, a)
        <5>1. CASE a = lo + k
          <6>1. See(f[k], from, lo + k) = See(s, from, lo + k)
            BY <2>1, <3>2 DEF Keeps, Apart
          <6> QED BY <4>1, <4>4, <5>1, <6>1
        <5>2. CASE a # lo + k
          <6>1. a \in Int /\ lo <= a /\ a <= lo + k - 1
            BY <5>2
          <6>3. a \in lo..((lo + k) - 1) /\ a \in Addrs
            <7>1. a <= VASize - 1 /\ 0 <= a /\ VASize - 1 \in Int
              BY <6>1, Sizes
            <7> QED BY <6>1, <7>1 DEF Addrs
          <6>2. See(f[k], to, a) = See(s, from, a)
            BY <2>4, <3>1, <6>3 DEF CopiedTo
          <6> QED BY <4>1, <5>2, <6>2, <6>3 DEF OnePage
        <5> QED BY <5>1, <5>2
      <4>5. f[k + 1].ok => (f[k + 1].short <=> s.short)
        BY <2>4, <3>1, <4>1 DEF CopiedTo
      <4>6. f[k + 1].ok => \A a \in lo..((lo + (k + 1)) - 1) : See(f[k + 1], to, a) = See(s, from, a)
        BY <4>4
      <4>7. PICK u, top : u = f[k + 1] /\ top = lo + (k + 1)
        OBVIOUS
      <4>8. CopiedTo(s, u, to, from, lo, top)
        <5>1. u.ok => \A a \in lo..(top - 1) : See(u, to, a) = See(s, from, a)
          BY <4>6, <4>7
        <5>2. Keeps(s, u, to) /\ Within(s, u, to, lo, top) /\ Sound(u, NULL) /\ ~u.stopped
              /\ (u.ok => (u.short <=> s.short)) /\ (~u.ok => u.short)
          BY <4>1, <4>2, <4>3, <4>5, <4>7
        <5> QED BY <5>1, <5>2 DEF CopiedTo
      <4> QED BY <4>7, <4>8
    <3> QED BY <3>4, <3>5
  <2> QED BY <2>3, <2>4
<1> HIDE DEF T
<1>4. hi - lo \in T
  BY <1>2, <1>3, SetInduction
<1>5. Done(hi - lo)
  BY <1>4 DEF T
<1>6. lo + (hi - lo) = hi
  OBVIOUS
<1> HIDE DEF Done
<1> QED BY <1>1, <1>5, <1>6, Zenon DEF Done

(* What dup_mmap leaves after an area.                                      *)
AreaCopied(s, t, to, from, vma) ==
    /\ Sound(t, NULL) /\ Keeps(s, t, to) /\ ~t.stopped
    /\ Range(t.mm[to].mmap) = Range(s.mm[to].mmap) \cup {vma}
    /\ \A b \in Addrs : ~InVma(vma, b) => PageAt(t, to, b) = PageAt(s, to, b) /\ See(t, to, b) = See(s, to, b)
    /\ t.ok => (\A b \in Addrs : InVma(vma, b) => See(t, to, b) = See(s, from, b)) /\ (t.short <=> s.short)
    /\ ~t.ok => t.short

(* A turn of dup_mmap: one more area with what the parent has there.        *)
LEMMA CopyAreaSound ==
    ASSUME NEW s, Sound(s, NULL), s.ok, ~s.stopped, NEW to \in Procs, NEW from \in Procs, to # from, s.mm[to].pgdir,
           NEW vma \in Area, Free(s.mm[to].mmap, vma), NEW t, t = CopyArea(s, to, from, vma)
    PROVE  Stopped(t) \/ AreaCopied(s, t, to, from, vma)
<1>1. PICK u : u = insert_vma_struct(s, to, vma)
  OBVIOUS
<1>2. WithArea(s, u, to, vma)
  BY <1>1, InsertVmaSound
<1>3. /\ Sound(u, NULL) /\ Keeps(s, u, to) /\ Range(u.mm[to].mmap) = Range(s.mm[to].mmap) \cup {vma}
      /\ \A b \in Addrs : PageAt(u, to, b) = PageAt(s, to, b) /\ See(u, to, b) = See(s, to, b)
      /\ u.ok /\ (u.short <=> s.short) /\ ~u.stopped
  BY <1>2 DEF WithArea
<1>4. PICK lo \in Nat, hi \in Nat : lo = vma.lo /\ hi = vma.hi /\ lo <= hi /\ hi <= VASize
  BY AreaBounds
<1>5. t = copy_range(u, to, from, lo, hi)
  BY <1>1, <1>4 DEF CopyArea
<1>6. ASSUME NEW a \in lo..(hi - 1) PROVE InArea(u, to, a) /\ PageAt(u, to, a) = NULL
  <2>1. a \in Addrs /\ InVma(vma, a)
    BY <1>4, <1>6, AreaBounds DEF InVma
  <2>2. InArea(u, to, a)
    BY <1>2, <2>1, WithAreaIn
  <2>3. ~InArea(s, to, a)
    <3> SUFFICES ASSUME NEW old \in Range(s.mm[to].mmap), InVma(old, a) PROVE FALSE
      BY InAreaRange
    <3>1. old.hi <= vma.lo \/ vma.hi <= old.lo
      BY DEF Free
    <3>2. old \in Area
      <4>1. s.mm[to].mmap \in Seq(Area)
        BY DEF Sound, State, Mm
      <4> QED BY <4>1 DEF Range
    <3> QED BY <1>4, <2>1, <3>1, <3>2, AreaBounds DEF InVma
  <2>4. PageAt(s, to, a) = NULL
    BY <2>1, <2>3 DEF Sound, PlacesOk, Mapped
  <2> QED BY <1>3, <2>1, <2>2, <2>4
<1>7. Stopped(t) \/ CopiedTo(u, t, to, from, lo, hi)
  <2>1. u.mm[to].pgdir
    BY <1>3 DEF Keeps
  <2> QED BY <1>3, <1>4, <1>5, <1>6, <2>1, CopyRangeSound
<1>8. ASSUME CopiedTo(u, t, to, from, lo, hi) PROVE AreaCopied(s, t, to, from, vma)
  <2>1. Sound(t, NULL) /\ Keeps(u, t, to) /\ Within(u, t, to, lo, hi) /\ ~t.stopped /\ (~t.ok => t.short)
    BY <1>8 DEF CopiedTo
  <2>2. Keeps(s, t, to)
    BY <1>3, <2>1, KeepsTransitive
  <2>3. t.mm[to].mmap = u.mm[to].mmap
    BY <2>1 DEF Within
  <2>4. ASSUME NEW b \in Addrs, ~InVma(vma, b)
        PROVE  PageAt(t, to, b) = PageAt(s, to, b) /\ See(t, to, b) = See(s, to, b)
    BY <1>3, <1>4, <2>1, <2>4 DEF Within, InVma
  <2>5. ASSUME t.ok, NEW b \in Addrs, InVma(vma, b) PROVE See(t, to, b) = See(s, from, b)
    <3>1. b \in lo..(hi - 1)
      BY <1>4, <2>5 DEF InVma, Addrs
    <3>2. See(t, to, b) = See(u, from, b)
      BY <1>8, <2>5, <3>1 DEF CopiedTo
    <3> QED BY <1>3, <3>2 DEF Keeps, Apart
  <2>6. t.ok => (t.short <=> s.short)
    BY <1>3, <1>8 DEF CopiedTo
  <2> QED BY <1>3, <2>1, <2>2, <2>3, <2>4, <2>5, <2>6 DEF AreaCopied
<1> QED BY <1>7, <1>8

(* What dup_mmap leaves after the last n areas of from.                     *)
LastAreas(mmap, n) == {mmap[i] : i \in (Len(mmap) - n + 1)..Len(mmap)}

Dup(s, t, to, from, n) ==
    /\ Sound(t, NULL) /\ Keeps(s, t, to) /\ ~t.stopped
    /\ Range(t.mm[to].mmap) \subseteq LastAreas(s.mm[from].mmap, n)
    /\ t.ok => /\ Range(t.mm[to].mmap) = LastAreas(s.mm[from].mmap, n)
               /\ \A b \in Addrs : InArea(t, to, b) => See(t, to, b) = See(s, from, b)
               /\ t.short <=> s.short
    /\ ~t.ok => t.short

(* The child has the last n areas of the parent, then the last n + 1.       *)
LEMMA DupOneMore ==
    ASSUME NEW s, Sound(s, NULL), NEW to \in Procs, NEW from \in Procs, to # from, s.mm[to].pgdir,
           NEW n \in Nat, n + 1 <= Len(s.mm[from].mmap), NEW u, u.ok, Dup(s, u, to, from, n),
           NEW vma, vma = s.mm[from].mmap[Len(s.mm[from].mmap) - n], NEW t, t = CopyArea(u, to, from, vma)
    PROVE  Stopped(t) \/ Dup(s, t, to, from, n + 1)
<1> DEFINE mmap == s.mm[from].mmap
           len == Len(mmap)
<1>1. mmap \in Seq(Area) /\ RisingAreas(mmap) /\ len \in Nat /\ DOMAIN mmap = 1..len
  <2>1. mmap \in Seq(Area) /\ RisingAreas(mmap)
    BY DEF Sound, State, Mm, PlacesOk, Rising
  <2> QED BY <2>1
<1>2. /\ Sound(u, NULL) /\ Keeps(s, u, to) /\ ~u.stopped /\ (u.short <=> s.short)
      /\ Range(u.mm[to].mmap) = LastAreas(mmap, n)
      /\ \A b \in Addrs : InArea(u, to, b) => See(u, to, b) = See(s, from, b)
  BY DEF Dup
<1>3. vma = mmap[len - n] /\ len - n \in 1..len /\ vma \in Area
  <2>1. vma = mmap[len - n] /\ n + 1 <= len
    OBVIOUS
  <2> HIDE DEF mmap, len
  <2>2. len - n \in 1..len
    BY <1>1, <2>1
  <2> QED BY <1>1, <2>1, <2>2
<1>4. LastAreas(mmap, n + 1) = LastAreas(mmap, n) \cup {vma}
  <2>1. (len - (n + 1) + 1)..len = ((len - n + 1)..len) \cup {len - n}
    <3>1. PICK last, k : last = len /\ k = len - n
      OBVIOUS
    <3>2. last \in Nat /\ k \in 1..last /\ len - (n + 1) + 1 = k
      BY <3>1, <1>1, <1>3
    <3> HIDE DEF mmap, len
    <3>3. k..last = ((k + 1)..last) \cup {k}
      BY ONLY <3>2
    <3> QED BY <3>1, <3>2, <3>3
  <2> HIDE DEF mmap, len
  <2>2. LastAreas(mmap, n + 1) = {mmap[i] : i \in ((len - n + 1)..len) \cup {len - n}}
    BY <2>1 DEF LastAreas, len
  <2> QED BY <1>3, <2>2 DEF LastAreas, len
<1>5. Free(u.mm[to].mmap, vma)
  <2> SUFFICES ASSUME NEW old \in Range(u.mm[to].mmap) PROVE vma.hi <= old.lo
    BY DEF Free
  <2>1. PICK i \in (len - n + 1)..len : old = mmap[i]
    BY <1>2 DEF LastAreas
  <2>2. i \in 1..len /\ len - n < i
    BY <1>1, <1>3, <2>1
  <2> QED BY <1>1, <1>3, <2>1, <2>2 DEF RisingAreas
<1>6. u.mm[to].pgdir
  BY <1>2 DEF Keeps
<1> HIDE DEF mmap, len
<1>7. Stopped(t) \/ AreaCopied(u, t, to, from, vma)
  BY <1>2, <1>3, <1>5, <1>6, CopyAreaSound
<1>8. ASSUME AreaCopied(u, t, to, from, vma) PROVE Dup(s, t, to, from, n + 1)
  <2>1. /\ Sound(t, NULL) /\ Keeps(u, t, to) /\ ~t.stopped /\ (~t.ok => t.short)
        /\ Range(t.mm[to].mmap) = Range(u.mm[to].mmap) \cup {vma}
        /\ t.ok => (t.short <=> u.short)
    BY <1>8 DEF AreaCopied
  <2>2. Keeps(s, t, to)
    BY <1>2, <2>1, KeepsTransitive
  <2>3. Range(t.mm[to].mmap) = LastAreas(s.mm[from].mmap, n + 1)
    BY <1>2, <1>4, <2>1 DEF mmap
  <2>4. ASSUME t.ok, NEW b \in Addrs, InArea(t, to, b) PROVE See(t, to, b) = See(s, from, b)
    <3>1. CASE InVma(vma, b)
      <4>1. See(t, to, b) = See(u, from, b)
        BY <1>8, <2>4, <3>1 DEF AreaCopied
      <4> QED BY <1>2, <4>1 DEF Keeps, Apart
    <3>2. CASE ~InVma(vma, b)
      <4>1. InArea(u, to, b)
        BY <2>1, <2>4, <3>2, InAreaRange
      <4>2. See(t, to, b) = See(u, to, b)
        BY <1>8, <3>2 DEF AreaCopied
      <4> QED BY <1>2, <4>1, <4>2
    <3> QED BY <3>1, <3>2
  <2> QED BY <1>2, <2>1, <2>2, <2>3, <2>4 DEF Dup
<1> QED BY <1>7, <1>8

(* dup_mmap gives the child all areas of the parent, or fails for want of   *)
(* frames, or the kernel stops.                                             *)
LEMMA DupSound ==
    ASSUME NEW s, Sound(s, NULL), s.ok, ~s.stopped, NEW to \in Procs, NEW from \in Procs, to # from, s.mm[to].pgdir,
           s.mm[to].mmap = <<>>, NEW t, t = dup_mmap(s, to, from)
    PROVE  Stopped(t) \/ Dup(s, t, to, from, Len(s.mm[from].mmap))
<1> DEFINE mmap == s.mm[from].mmap
           len == Len(mmap)
<1>1. mmap \in Seq(Area) /\ len \in Nat
  <2>1. mmap \in Seq(Area)
    BY DEF Sound, State, Mm
  <2> QED BY <2>1
<1>2. PICK f : DupRun(f, s, to, from)
  BY <1>1, DupSteps
<1>3. /\ f[0] = s
      /\ \A k \in 1..len : f[k] = CopyArea(f[k - 1], to, from, mmap[len - k + 1])
      /\ t = f[len]
  BY <1>2 DEF DupRun
<1> DEFINE Done(k) == Stopped(f[k]) \/ Dup(s, f[k], to, from, k)
           T == {k \in Nat : k <= len => Done(k)}
<1>4. 0 \in T
  <2>1. Keeps(s, s, to)
    BY KeepsItself
  <2>2. (len - 0 + 1)..len = {}
    BY <1>1
  <2>3. Range(s.mm[to].mmap) = {} /\ LastAreas(mmap, 0) = {}
    BY <2>2 DEF Range, LastAreas
  <2>4. \A b \in Addrs : ~InArea(s, to, b)
    BY <2>3, InAreaRange
  <2> QED BY <1>3, <2>1, <2>3, <2>4 DEF Dup
<1>5. ASSUME NEW k \in Nat, k \in T PROVE k + 1 \in T
  <2> SUFFICES ASSUME k + 1 <= len PROVE Done(k + 1)
    OBVIOUS
  <2>1. Done(k) /\ k + 1 \in 1..len
    BY <1>1, <1>5
  <2>2. f[k + 1] = CopyArea(f[k], to, from, mmap[len - k])
    <3>1. f[k + 1] = CopyArea(f[(k + 1) - 1], to, from, mmap[len - (k + 1) + 1])
      BY <1>3, <2>1
    <3>2. (k + 1) - 1 = k /\ len - (k + 1) + 1 = len - k
      BY <1>1
    <3> QED BY <3>1, <3>2
  <2>3. CASE ~f[k].ok
    <3>1. f[k + 1] = f[k]
      BY <2>2, <2>3 DEF CopyArea
    <3>2. LastAreas(mmap, k) \subseteq LastAreas(mmap, k + 1)
      <4>1. (len - k + 1)..len \subseteq (len - (k + 1) + 1)..len
        BY <1>1
      <4> QED BY <4>1 DEF LastAreas
    <3>3. ASSUME Dup(s, f[k], to, from, k) PROVE Dup(s, f[k + 1], to, from, k + 1)
      BY <2>3, <3>1, <3>2, <3>3 DEF Dup
    <3> QED BY <2>1, <3>1, <3>3
  <2>4. CASE f[k].ok
    <3>1. Dup(s, f[k], to, from, k)
      BY <2>1, <2>4 DEF Stopped
    <3> QED BY <2>1, <2>2, <2>4, <3>1, DupOneMore
  <2> QED BY <2>3, <2>4
<1> HIDE DEF T
<1>6. len \in T
  BY <1>1, <1>4, <1>5, SetInduction
<1>7. Done(len)
  BY <1>1, <1>6 DEF T
<1> QED BY <1>3, <1>7

(* What a fork that has not failed leaves: the child sees what its parent   *)
(* does, in the same areas.                                                 *)
LEMMA DupAll ==
    ASSUME NEW s, Sound(s, NULL), NEW to \in Procs, NEW from \in Procs, to # from,
           NEW t, t.ok, Dup(s, t, to, from, Len(s.mm[from].mmap))
    PROVE  /\ Range(t.mm[to].mmap) = Range(s.mm[from].mmap)
           /\ \A b \in Addrs : See(t, to, b) = See(s, from, b)
<1> DEFINE mmap == s.mm[from].mmap
           len == Len(mmap)
<1>1. mmap \in Seq(Area) /\ len \in Nat /\ DOMAIN mmap = 1..len
  <2>1. mmap \in Seq(Area)
    BY DEF Sound, State, Mm
  <2> QED BY <2>1
<1>2. LastAreas(mmap, len) = Range(mmap)
  <2>1. len - len + 1 = 1
    BY <1>1
  <2> QED BY <1>1, <2>1 DEF LastAreas, Range
<1>3. Range(t.mm[to].mmap) = Range(mmap) /\ \A b \in Addrs : InArea(t, to, b) => See(t, to, b) = See(s, from, b)
  BY <1>2 DEF Dup
<1>4. ASSUME NEW b \in Addrs, ~InArea(t, to, b) PROVE See(t, to, b) = See(s, from, b)
  <2>1. ~InArea(s, from, b)
    BY <1>3, <1>4, InAreaRange
  <2>2. PageAt(t, to, b) = NULL /\ PageAt(s, from, b) = NULL
    BY <1>4, <2>1 DEF Dup, Sound, PlacesOk, Mapped
  <2> QED BY <2>2 DEF See
<1> QED BY <1>3, <1>4

(* What is mapped can be told from what is not.                             *)
LEMMA SeeMapped ==
    ASSUME NEW s, Sound(s, NULL), NEW p \in Procs, NEW a \in Addrs
    PROVE  /\ See(s, p, a) = UNMAPPED <=> PageAt(s, p, a) = NULL
           /\ See(s, p, a) \in Values \cup {UNMAPPED}
<1>1. UNMAPPED \notin Values
  BY VmAssumption DEF UNMAPPED
<1>2. ASSUME PageAt(s, p, a) # NULL PROVE s.data[PageAt(s, p, a)] \in Values
  <2>1. PageAt(s, p, a) \in Frames
    BY <1>2, MappedIs
  <2>2. s.data \in [Frames -> Values]
    BY DEF Sound, State
  <2> QED BY <2>1, <2>2
<1> QED BY <1>1, <1>2 DEF See

(* What do_pgfault leaves: nobody sees that the page is another, or that it *)
(* may be written.                                                          *)
Repaired(s, t, p) ==
    /\ Sound(t, NULL) /\ Keeps(s, t, p) /\ ~t.stopped /\ t.mm[p].mmap = s.mm[p].mmap
    /\ \A b \in Addrs : See(t, p, b) = See(s, p, b)

(* do_pgfault on a copy-on-write entry gives the process a page of its own  *)
(* with the same contents, or the page itself if it is the last user; it    *)
(* fails without harm.                                                      *)
LEMMA PgfaultSound ==
    ASSUME NEW s, Sound(s, NULL), s.ok, ~s.stopped, NEW p \in Procs, s.mm[p].pgdir, NEW a \in Addrs,
           NEW t, t = do_pgfault(s, p, a)
    PROVE  Repaired(s, t, p)
<1> DEFINE pte == s.mm[p].pte[a]
<1>1. s \in State /\ pte \in Entry /\ pte = s.mm[p].pte[a] /\ pte.page = PageAt(s, p, a)
  BY DEF Sound, State, Mm, PageAt
<1>2. t = IF find_vma(s, p, a) = {} \/ ~pte.cow THEN [s EXCEPT !.ok = FALSE]
          ELSE IF s.ref[pte.page] = 1 THEN [s EXCEPT !.mm[p].pte[a] = [@ EXCEPT !.w = TRUE, !.cow = FALSE]]
          ELSE IF s.nfree = 0 THEN TakeFrame(s)
          ELSE page_insert(alloc_page(s, s.data[pte.page]), p, NextFrame(s), a, TRUE, FALSE)
  BY DEF do_pgfault
<1> HIDE DEF pte
<1>3. ASSUME Sound(t, NULL), Keeps(s, t, p), SameView(s, t), t.mm[p].mmap = s.mm[p].mmap, ~t.stopped
      PROVE  Repaired(s, t, p)
  BY <1>3 DEF Repaired, SameView
<1>4. CASE find_vma(s, p, a) = {} \/ ~pte.cow
  <2>1. t = [s EXCEPT !.ok = FALSE]
    BY <1>2, <1>4
  <2>2. /\ t \in State /\ t.mm = s.mm /\ t.ref = s.ref /\ t.free = s.free /\ t.data = s.data /\ t.nfree = s.nfree
        /\ (t.short <=> s.short) /\ ~t.stopped
    BY <1>1, <2>1 DEF State
  <2> QED BY <1>3, <2>2, MarksSound
<1>5. CASE find_vma(s, p, a) # {} /\ pte.cow
  <2>1. PageAt(s, p, a) # NULL
    <3>1. PageAt(s, p, a) = NULL => pte = NoEntry
      BY <1>1 DEF Sound, FramesOk, Clean
    <3> QED BY <1>5, <3>1 DEF NoEntry
  <2>2. CASE s.ref[pte.page] = 1
    <3>1. PICK e : e = [pte EXCEPT !.w = TRUE, !.cow = FALSE]
      OBVIOUS
    <3>2. e \in Entry /\ e.page = PageAt(s, p, a) /\ ~e.cow /\ s.ref[e.page] = 1
      BY <1>1, <2>2, <3>1 DEF Entry
    <3>3. t = WithBits(s, p, a, e)
      BY <1>1, <1>2, <1>5, <2>2, <3>1 DEF WithBits
    <3>4. /\ Sound(t, NULL) /\ Keeps(s, t, p) /\ SameView(s, t) /\ ShapeStays(s, t) /\ (t.stopped <=> s.stopped)
      BY <2>1, <3>2, <3>3, BitsSound
    <3> QED BY <1>3, <3>4 DEF ShapeStays
  <2>3. CASE s.ref[pte.page] # 1 /\ s.nfree = 0
    <3>1. t = TakeFrame(s)
      BY <1>2, <1>5, <2>3
    <3>2. Sound(t, NULL) /\ Keeps(s, t, p) /\ SameView(s, t) /\ t.mm = s.mm /\ (t.stopped <=> s.stopped)
      BY <2>3, <3>1, AllocFails
    <3> QED BY <1>3, <3>2
  <2>4. CASE s.ref[pte.page] # 1 /\ s.nfree # 0
    <3>1. PICK value : value = s.data[pte.page]
      OBVIOUS
    <3>2. PICK page : page = NextFrame(s)
      OBVIOUS
    <3>3. value \in Values /\ value = See(s, p, a)
      <4>1. pte.page \in Frames /\ s.data \in [Frames -> Values]
        BY <1>1, <2>1, MappedIs DEF State
      <4> QED BY <1>1, <2>1, <3>1, <4>1 DEF See
    <3>4. InArea(s, p, a) /\ PDX0(a) \in s.mm[p].tables
      BY <2>1 DEF Sound, PlacesOk, Mapped
    <3>5. ASSUME NEW w \in BOOLEAN
          PROVE  Duplicated(s, page_insert(alloc_page(s, value), p, page, a, w, FALSE), p, a, value)
      <4>1. PICK v : v = page_insert(alloc_page(s, value), p, page, a, w, FALSE)
        OBVIOUS
      <4>2. Duplicated(s, v, p, a, value)
        BY <2>4, <3>2, <3>3, <3>4, <4>1, DuplicateSound
      <4> QED BY <4>1, <4>2
    <3>6. t = page_insert(alloc_page(s, value), p, page, a, TRUE, FALSE)
      BY <1>2, <1>5, <2>4, <3>1, <3>2
    <3>7. TRUE \in BOOLEAN
      OBVIOUS
    <3>8. Duplicated(s, t, p, a, value)
      BY <3>5, <3>6, <3>7, Zenon
    <3>9. \A b \in Addrs : See(t, p, b) = See(s, p, b)
      BY <3>3, <3>8 DEF Duplicated, OnePage
    <3> QED BY <3>8, <3>9 DEF Repaired, Duplicated, OnePage
  <2> QED BY <2>2, <2>3, <2>4
<1> QED BY <1>4, <1>5

-----------------------------------------------------------------------------
(* Between the calls.                                                       *)

(* Each mm was made by load_icode from a program of L, those loaded so far, *)
(* or copied from one that was.                                             *)
CrowdedIn(L) == \E prog \in L : Crowded(prog)
Known(s, p, L) == s.mm[p].pgdir => \E prog \in L : Range(s.mm[p].mmap) \subseteq AreasOf(prog)
StackThere(s, p) == s.mm[p].pgdir => PageAt(s, p, VASize - 1) # NULL
GoodMm(s, p, L) == Tight(s, p) /\ Known(s, p, L) /\ StackThere(s, p)
Accounted(s, L) == LostIn(s) > 0 => s.short \/ CrowdedIn(L)

MemoryOk(s, L) == Sound(s, NULL) /\ s.ok /\ Accounted(s, L) /\ \A p \in Procs : GoodMm(s, p, L)

(* A program more that was loaded changes nothing.                          *)
LEMMA MoreLoaded ==
    ASSUME NEW s, NEW K, MemoryOk(s, K), NEW L, K \subseteq L
    PROVE  MemoryOk(s, L)
<1>1. Accounted(s, L)
  BY DEF MemoryOk, Accounted, CrowdedIn
<1>2. \A p \in Procs : GoodMm(s, p, L)
  BY DEF MemoryOk, GoodMm, Known
<1> QED BY <1>1, <1>2 DEF MemoryOk

(* The last page of user memory is one.                                     *)
LEMMA TopIs == VASize - 1 \in Addrs
BY Sizes DEF Addrs

(* The areas of a program have room, if it is not crowded.                  *)
LEMMA KnownRoomy ==
    ASSUME NEW s, NEW L, Sound(s, NULL), NEW p \in Procs, Known(s, p, L)
    PROVE  CrowdedIn(L) \/ Roomy(s, p)
<1>1. ASSUME NEW prog \in L, Range(s.mm[p].mmap) \subseteq AreasOf(prog), NEW a \in Addrs, InArea(s, p, a)
      PROVE  a \in PagesOf(prog)
  <2>1. PICK vma \in Range(s.mm[p].mmap) : InVma(vma, a)
    BY <1>1, InAreaRange
  <2>2. vma \in Area
    <3>1. s.mm[p].mmap \in Seq(Area)
      BY DEF Sound, State, Mm
    <3> QED BY <3>1 DEF Range
  <2>3. a \in vma.lo..(vma.hi - 1)
    BY <2>1, <2>2, AreaBounds, Sizes DEF InVma, Addrs
  <2> QED BY <1>1, <2>1, <2>3 DEF PagesOf
<1>2. CASE ~s.mm[p].pgdir
  <2>1. s.mm[p].mmap = <<>>
    BY <1>2, NoMmIs DEF Sound, PlacesOk, Rooted
  <2>2. Range(s.mm[p].mmap) = {}
    BY <2>1 DEF Range
  <2> QED BY <2>2, InAreaRange DEF Roomy
<1>3. CASE s.mm[p].pgdir
  <2>1. PICK prog \in L : Range(s.mm[p].mmap) \subseteq AreasOf(prog)
    BY <1>3 DEF Known
  <2>2. ASSUME ~CrowdedIn(L), NEW a \in Addrs, NEW b \in Addrs, InArea(s, p, a), InArea(s, p, b), PDX1(a) = PDX1(b)
        PROVE  PDX0(a) = PDX0(b)
    <3>1. a \in PagesOf(prog) /\ b \in PagesOf(prog)
      BY <1>1, <2>1, <2>2
    <3> QED BY <2>2, <3>1 DEF CrowdedIn, Crowded
  <2> QED BY <2>2 DEF Roomy
<1> QED BY <1>2, <1>3

(* What a call for p leaves of the others.                                  *)
LEMMA OthersGood ==
    ASSUME NEW s, NEW L, NEW t, NEW p, Apart(s, t, p), s.short => t.short, NEW q \in Procs \ {p}, GoodMm(s, q, L)
    PROVE  GoodMm(t, q, L)
<1>1. /\ (t.mm[q].pgdir <=> s.mm[q].pgdir) /\ t.mm[q].dirs = s.mm[q].dirs
      /\ t.mm[q].tables = s.mm[q].tables /\ t.mm[q].mmap = s.mm[q].mmap
      /\ PageAt(t, q, VASize - 1) = PageAt(s, q, VASize - 1)
  BY TopIs DEF Apart
<1>2. \A a : InArea(t, q, a) <=> InArea(s, q, a)
  BY <1>1 DEF InArea, find_vma
<1>3. Tight(t, q)
  BY <1>1, <1>2 DEF GoodMm, Tight, Snug
<1>4. Known(t, q, L) /\ StackThere(t, q)
  BY <1>1 DEF GoodMm, Known, StackThere
<1> QED BY <1>3, <1>4 DEF GoodMm

(* A process without an mm keeps what is asked of each between calls.       *)
LEMMA NoneGood ==
    ASSUME NEW s, NEW L, NEW p, s.mm[p] = NoMm
    PROVE  GoodMm(s, p, L)
BY NoMmIs DEF GoodMm, Tight, Snug, Known, StackThere

(* put_mm loses no frame that could not be lost.                            *)
LEMMA PutAccounted ==
    ASSUME NEW s, NEW L, Sound(s, NULL), NEW p \in Procs, s.short \/ (Accounted(s, L) /\ Tight(s, p) /\ Known(s, p, L)),
           NEW t, t = put_mm(s, p)
    PROVE  Put_mm(s, t, p) /\ Accounted(t, L) /\ GoodMm(t, p, L)
<1>1. Put_mm(s, t, p)
  BY PutMmSound
<1>2. /\ t.mm[p] = NoMm /\ LostIn(t) >= LostIn(s) /\ (Roomy(s, p) /\ Snug(s, p) => LostIn(t) = LostIn(s))
      /\ (t.short <=> s.short)
  BY <1>1 DEF Put_mm
<1>3. CASE s.short
  BY <1>1, <1>2, <1>3, NoneGood DEF Accounted
<1>4. CASE ~s.short /\ ~CrowdedIn(L)
  <2>1. Accounted(s, L) /\ Roomy(s, p) /\ Snug(s, p)
    BY <1>4, KnownRoomy DEF Tight
  <2> QED BY <1>1, <1>2, <2>1, NoneGood DEF Accounted
<1>5. CASE CrowdedIn(L)
  BY <1>1, <1>2, <1>5, NoneGood DEF Accounted
<1> QED BY <1>3, <1>4, <1>5

(* A call for p that ends well, or can be undone.                           *)
Ends(s, u, p, L) ==
    /\ Sound(u, NULL) /\ Apart(s, u, p) /\ (s.short => u.short)
    /\ u.short \/ (Accounted(u, L) /\ Tight(u, p) /\ Known(u, p, L))
    /\ u.ok => Accounted(u, L) /\ GoodMm(u, p, L)

Finished(u, p) == [put_mm(u, p) EXCEPT !.ok = TRUE]

(* The way out of a call that failed (exit_mmap, put_pgdir) leaves a memory *)
(* that is right, without this process.                                     *)
LEMMA FinishedSound ==
    ASSUME NEW s, NEW L, MemoryOk(s, L), NEW p \in Procs, NEW u, Ends(s, u, p, L), NEW t, t = Finished(u, p)
    PROVE  MemoryOk(t, L) /\ Apart(s, t, p) /\ t.mm[p] = NoMm
<1>1. PICK v : v = put_mm(u, p)
  OBVIOUS
<1>2. Put_mm(u, v, p) /\ Accounted(v, L) /\ GoodMm(v, p, L)
  BY <1>1, PutAccounted DEF Ends
<1>3. Sound(v, NULL) /\ v.mm[p] = NoMm /\ Apart(u, v, p) /\ (v.short <=> u.short)
  BY <1>2 DEF Put_mm
<1>4. t = [v EXCEPT !.ok = TRUE] /\ v \in State
  BY <1>1, <1>3 DEF Finished, Sound
<1>5. /\ t \in State /\ t.mm = v.mm /\ t.ref = v.ref /\ t.free = v.free
      /\ t.data = v.data /\ t.nfree = v.nfree /\ (t.short <=> v.short) /\ t.ok
  BY <1>4 DEF State
<1>6. Sound(t, NULL) /\ Keeps(v, t, p)
  BY <1>3, <1>5, MarksSound
<1>7. Apart(s, t, p)
  <2>1. Apart(s, u, p) /\ Apart(v, t, p)
    BY <1>6 DEF Ends, Keeps
  <2>2. Apart(s, v, p)
    BY <1>3, <2>1, ApartTransitive
  <2> QED BY <2>1, <2>2, ApartTransitive
<1>8. Accounted(t, L)
  BY <1>2, <1>5, <1>6 DEF Accounted, Keeps
<1>9. ASSUME NEW q \in Procs PROVE GoodMm(t, q, L)
  <2>1. CASE q = p
    BY <1>3, <1>5, <2>1, NoneGood
  <2>2. CASE q # p
    <3>1. s.short => t.short
      BY <1>3, <1>5 DEF Ends
    <3> QED BY <1>7, <2>2, <3>1, OthersGood DEF MemoryOk
  <2> QED BY <2>1, <2>2
<1> QED BY <1>3, <1>5, <1>6, <1>7, <1>8, <1>9 DEF MemoryOk

(* A call that ends well.                                                   *)
LEMMA EndsWell ==
    ASSUME NEW s, NEW L, MemoryOk(s, L), NEW p \in Procs, NEW u, Ends(s, u, p, L), u.ok
    PROVE  MemoryOk(u, L)
<1>1. ASSUME NEW q \in Procs PROVE GoodMm(u, q, L)
  <2>1. CASE q = p
    BY <2>1 DEF Ends
  <2>2. CASE q # p
    BY <2>2, OthersGood DEF Ends, MemoryOk
  <2> QED BY <2>1, <2>2
<1> QED BY <1>1 DEF Ends, MemoryOk

(* A call in which an assertion failed.                                     *)
LEMMA EndsStopped ==
    ASSUME NEW s, NEW L, MemoryOk(s, L), NEW t, t = [s EXCEPT !.stopped = TRUE]
    PROVE  MemoryOk(t, L) /\ SameView(s, t)
<1>1. s \in State /\ Sound(s, NULL)
  BY DEF MemoryOk, Sound
<1>2. /\ t \in State /\ t.mm = s.mm /\ t.ref = s.ref /\ t.free = s.free
      /\ t.data = s.data /\ t.nfree = s.nfree /\ (t.short <=> s.short) /\ (t.ok <=> s.ok)
  BY <1>1 DEF State
<1>3. \A p \in Procs : Sound(t, NULL) /\ Keeps(s, t, p)
  BY <1>1, <1>2, MarksSound
<1>4. SameView(s, t)
  BY <1>2 DEF SameView, See, PageAt
<1>5. Sound(t, NULL) /\ Accounted(t, L)
  <2>1. LostIn(t) = LostIn(s)
    BY <1>2 DEF LostIn, Roots, Directories, PageTables
  <2>2. FramesOk(t, NULL) /\ PlacesOk(t)
    <3>1. FramesOk(t, NULL)
      BY <1>1, <1>2, FramesSame DEF Sound
    <3>2. PlacesOk(t)
      BY <1>1, <1>2 DEF Sound, PlacesOk, Mapped, Hang, Rising, Rooted, PageAt, InArea, find_vma
    <3> QED BY <3>1, <3>2
  <2> QED BY <1>1, <1>2, <2>1, <2>2 DEF MemoryOk, Accounted, Sound, InHand
<1>6. ASSUME NEW q \in Procs PROVE GoodMm(t, q, L)
  <2>1. GoodMm(s, q, L)
    BY DEF MemoryOk
  <2> QED BY <1>2, <2>1 DEF GoodMm, Tight, Snug, Known, StackThere, PageAt, InArea, find_vma
<1> QED BY <1>2, <1>4, <1>5, <1>6 DEF MemoryOk

(* The calls: what each leaves, and what is seen of it.                     *)
LEMMA ExitEnds ==
    ASSUME NEW s, NEW L, MemoryOk(s, L), NEW p \in Procs, NEW u, u = [s EXCEPT !.ok = FALSE]
    PROVE  Ends(s, u, p, L) /\ ~u.ok /\ (u.stopped <=> s.stopped)
<1>1. s \in State /\ Sound(s, NULL) /\ Accounted(s, L) /\ Tight(s, p) /\ Known(s, p, L)
  BY DEF MemoryOk, Sound, GoodMm
<1>2. /\ u \in State /\ u.mm = s.mm /\ u.ref = s.ref /\ u.free = s.free
      /\ u.data = s.data /\ u.nfree = s.nfree /\ (u.short <=> s.short) /\ ~u.ok /\ (u.stopped <=> s.stopped)
  BY <1>1 DEF State
<1>3. Sound(u, NULL) /\ Keeps(s, u, p)
  BY <1>1, <1>2, MarksSound
<1>4. Known(u, p, L)
  BY <1>1, <1>2 DEF Known
<1>5. Apart(s, u, p) /\ Tight(u, p) /\ LostIn(u) = LostIn(s)
  BY <1>1, <1>3 DEF Keeps
<1> QED BY <1>1, <1>2, <1>3, <1>4, <1>5 DEF Ends, Accounted

(* execve, from the old memory to the new one or to a failure.              *)
LEMMA ExecveEnds ==
    ASSUME NEW s, NEW L, MemoryOk(s, L), ~s.stopped, NEW p \in Procs, NEW prog \in Programs \cap L, NEW garbage \in Garbage,
           NEW u, u = load_icode(put_mm(s, p), p, prog, garbage)
    PROVE  Ends(s, u, p, L) /\ (u.ok => \A i \in 1..Len(prog) : Filled(u, p, prog[i], prog[i].hi))
<1>1. PICK e : e = put_mm(s, p)
  OBVIOUS
<1>2. Put_mm(s, e, p) /\ Accounted(e, L)
  <2>1. Sound(s, NULL) /\ Accounted(s, L) /\ Tight(s, p) /\ Known(s, p, L)
    BY DEF MemoryOk, GoodMm
  <2> QED BY <1>1, <2>1, PutAccounted
<1>3. Sound(e, NULL) /\ e.ok /\ ~e.mm[p].pgdir /\ Apart(s, e, p) /\ (e.short <=> s.short)
  BY <1>2, NoMmIs DEF Put_mm, MemoryOk
<1>4. Icode(e, u, p, prog)
  BY <1>1, <1>3, IcodeSound
<1>5. /\ Sound(u, NULL) /\ Apart(e, u, p) /\ LostIn(u) = LostIn(e) /\ (e.short => u.short)
      /\ ~u.ok => u.short
  BY <1>4 DEF Icode
<1>6. Apart(s, u, p)
  BY <1>3, <1>5, ApartTransitive
<1>7. Accounted(u, L)
  BY <1>2, <1>5 DEF Accounted
<1>8. ASSUME u.ok PROVE GoodMm(u, p, L) /\ \A i \in 1..Len(prog) : Filled(u, p, prog[i], prog[i].hi)
  BY <1>4, <1>8 DEF Icode, GoodMm, Known, StackThere
<1> QED BY <1>3, <1>5, <1>6, <1>7, <1>8 DEF Ends, GoodMm

ForkOf(s, p, q) == LET made == setup_pgdir(s, q) IN IF made.ok THEN dup_mmap(made, q, p) ELSE made

(* fork, in both modes: the child sees what the parent sees.                *)
LEMMA ForkEnds ==
    ASSUME NEW s, NEW L, MemoryOk(s, L), ~s.stopped, NEW p \in Procs, NEW q \in Procs, q # p, s.mm[p].pgdir, ~s.mm[q].pgdir,
           NEW u, u = ForkOf(s, p, q)
    PROVE  Stopped(u) \/ (Ends(s, u, q, L) /\ ~u.stopped /\ (u.ok => \A b \in Addrs : See(u, q, b) = See(s, p, b)))
<1>1. Sound(s, NULL) /\ s.ok /\ Accounted(s, L) /\ GoodMm(s, p, L)
  BY DEF MemoryOk
<1>2. PICK made : made = setup_pgdir(s, q)
  OBVIOUS
<1>3. /\ Sound(made, NULL) /\ Apart(s, made, q) /\ LostIn(made) = LostIn(s) /\ (made.stopped <=> s.stopped)
      /\ made.ok => Empty(made, q) /\ Snug(made, q) /\ (made.short <=> s.short)
      /\ ~made.ok => made.mm = s.mm /\ made.short
  BY <1>1, <1>2, SetupSound
<1>4. u = IF made.ok THEN dup_mmap(made, q, p) ELSE made
  BY <1>2 DEF ForkOf
<1>5. CASE ~made.ok
  BY <1>3, <1>4, <1>5 DEF Ends
<1>6. CASE made.ok
  <2> DEFINE len == Len(made.mm[p].mmap)
  <2>1. u = dup_mmap(made, q, p) /\ made.mm[q].pgdir /\ made.mm[q].mmap = <<>> /\ Tight(made, q)
    BY <1>3, <1>4, <1>6 DEF Empty, Tight
  <2>2. Stopped(u) \/ Dup(made, u, q, p, len)
    BY <1>3, <1>6, <2>1, DupSound
  <2>3. ASSUME Dup(made, u, q, p, len) PROVE Ends(s, u, q, L) /\ ~u.stopped /\ (u.ok => \A b \in Addrs : See(u, q, b) = See(s, p, b))
    <3>1. Sound(u, NULL) /\ Keeps(made, u, q) /\ ~u.stopped /\ (~u.ok => u.short)
      BY <2>3 DEF Dup
    <3>2. Apart(made, u, q) /\ LostIn(u) = LostIn(made) /\ (made.short => u.short) /\ Tight(u, q)
      BY <2>1, <3>1 DEF Keeps
    <3>3. Apart(s, u, q) /\ (s.short => u.short) /\ Accounted(u, L)
      BY <1>1, <1>3, <1>6, <3>2, ApartTransitive DEF Accounted
    <3>4. ASSUME u.ok PROVE Known(u, q, L) /\ StackThere(u, q) /\ \A b \in Addrs : See(u, q, b) = See(s, p, b)
      <4>1. Range(u.mm[q].mmap) = Range(made.mm[p].mmap) /\ \A b \in Addrs : See(u, q, b) = See(made, p, b)
        BY <1>3, <2>3, <3>4, DupAll
      <4>2. made.mm[p].mmap = s.mm[p].mmap /\ \A b \in Addrs : See(made, p, b) = See(s, p, b)
        BY <1>3 DEF Apart
      <4>3. Known(u, q, L)
        BY <1>1, <4>1, <4>2 DEF Known, GoodMm
      <4>4. StackThere(u, q)
        <5>1. See(u, q, VASize - 1) = See(s, p, VASize - 1)
          BY <4>1, <4>2, TopIs
        <5>2. PageAt(s, p, VASize - 1) # NULL
          BY <1>1 DEF GoodMm, StackThere
        <5> QED BY <1>1, <3>1, <5>1, <5>2, TopIs, SeeMapped DEF StackThere
      <4> QED BY <4>1, <4>2, <4>3, <4>4
    <3> QED BY <3>1, <3>2, <3>3, <3>4 DEF Ends, GoodMm
  <2> QED BY <2>2, <2>3
<1> QED BY <1>5, <1>6

(* A fault, repaired or not, changes what nobody sees.                      *)
LEMMA PgfaultEnds ==
    ASSUME NEW s, NEW L, MemoryOk(s, L), ~s.stopped, NEW p \in Procs, s.mm[p].pgdir, NEW a \in Addrs, NEW u, u = do_pgfault(s, p, a)
    PROVE  Ends(s, u, p, L) /\ ~u.stopped /\ \A b \in Addrs : See(u, p, b) = See(s, p, b)
<1>1. Sound(s, NULL) /\ s.ok /\ Accounted(s, L) /\ GoodMm(s, p, L)
  BY DEF MemoryOk
<1>2. Repaired(s, u, p)
  BY <1>1, PgfaultSound
<1>3. /\ Sound(u, NULL) /\ Keeps(s, u, p) /\ ~u.stopped /\ u.mm[p].mmap = s.mm[p].mmap
      /\ \A b \in Addrs : See(u, p, b) = See(s, p, b)
  BY <1>2 DEF Repaired
<1>4. /\ Apart(s, u, p) /\ (s.short => u.short) /\ LostIn(u) = LostIn(s) /\ (u.mm[p].pgdir <=> s.mm[p].pgdir) /\ Tight(u, p)
  BY <1>1, <1>3 DEF Keeps, GoodMm
<1>5. Accounted(u, L) /\ Known(u, p, L)
  BY <1>1, <1>3, <1>4 DEF Accounted, Known, GoodMm
<1>6. StackThere(u, p)
  <2>1. See(u, p, VASize - 1) = See(s, p, VASize - 1)
    BY <1>3, TopIs
  <2>2. PageAt(s, p, VASize - 1) # NULL
    BY <1>1 DEF GoodMm, StackThere
  <2> QED BY <1>1, <1>3, <2>1, <2>2, TopIs, SeeMapped DEF StackThere
<1> QED BY <1>3, <1>4, <1>5, <1>6 DEF Ends, GoodMm

(* A store changes what its process reads there, and nothing else.          *)
LEMMA StoreSound ==
    ASSUME NEW s, NEW L, MemoryOk(s, L), NEW p \in Procs, NEW a \in Addrs, NEW v \in Values, s.mm[p].pte[a].w,
           NEW t, t = [s EXCEPT !.data[s.mm[p].pte[a].page] = v]
    PROVE  /\ MemoryOk(t, L) /\ See(s, p, a) # UNMAPPED /\ See(t, p, a) = v
           /\ \A q \in Procs : \A b \in Addrs : (q # p \/ b # a) => See(t, q, b) = See(s, q, b)
<1>1. s \in State /\ Sound(s, NULL)
  BY DEF MemoryOk, Sound
<1>2. PICK page : page = PageAt(s, p, a)
  OBVIOUS
<1>3. page \in Frames /\ page # NULL /\ s.ref[page] = 1
  <2>1. page # NULL /\ s.ref[page] = 1
    BY <1>1, <1>2 DEF Sound, FramesOk, Owned
  <2> QED BY <1>1, <1>2, <2>1, MappedIs
<1>4. t = [s EXCEPT !.data[page] = v]
  BY <1>2 DEF PageAt
<1>5. /\ t \in State /\ t.mm = s.mm /\ t.ref = s.ref /\ t.free = s.free /\ t.nfree = s.nfree
      /\ (t.short <=> s.short) /\ (t.ok <=> s.ok) /\ t.data = [s.data EXCEPT ![page] = v] /\ s.data \in [Frames -> Values]
  BY <1>1, <1>3, <1>4 DEF State
<1>6. Sound(t, NULL)
  <2>1. LostIn(t) = LostIn(s)
    BY <1>5 DEF LostIn, Roots, Directories, PageTables
  <2>2. FramesOk(t, NULL)
    <3>1. FramesOk(s, NULL)
      BY <1>1 DEF Sound
    <3>2. t.ref = s.ref /\ t.free = s.free /\ \A q \in Procs : t.mm[q].pte = s.mm[q].pte
      BY <1>5
    <3> QED BY ONLY <3>1, <3>2, FramesSame
  <2>3. PlacesOk(t)
    BY <1>1, <1>5 DEF Sound, PlacesOk, Mapped, Hang, Rising, Rooted, PageAt, InArea, find_vma
  <2> QED BY <1>1, <1>5, <2>1, <2>2, <2>3 DEF Sound, InHand
<1>7. Accounted(t, L)
  <2>1. LostIn(t) = LostIn(s)
    BY <1>5 DEF LostIn, Roots, Directories, PageTables
  <2> QED BY <1>5, <2>1 DEF MemoryOk, Accounted
<1>8. ASSUME NEW q \in Procs PROVE GoodMm(t, q, L)
  <2>1. GoodMm(s, q, L)
    BY DEF MemoryOk
  <2> QED BY <1>5, <2>1 DEF GoodMm, Tight, Snug, Known, StackThere, PageAt, InArea, find_vma
<1>9. MemoryOk(t, L)
  BY <1>5, <1>6, <1>7, <1>8 DEF MemoryOk
<1>10. See(t, p, a) = v
  BY <1>2, <1>3, <1>5 DEF See, PageAt
<1>11. See(s, p, a) # UNMAPPED
  BY <1>1, <1>2, <1>3, SeeMapped
<1>12. ASSUME NEW q \in Procs, NEW b \in Addrs, q # p \/ b # a PROVE See(t, q, b) = See(s, q, b)
  <2>1. PageAt(s, q, b) # page
    BY <1>1, <1>2, <1>3, <1>12, Sole
  <2>2. PageAt(t, q, b) = PageAt(s, q, b)
    BY <1>5 DEF PageAt
  <2>3. CASE PageAt(s, q, b) = NULL
    BY <2>2, <2>3 DEF See
  <2>4. CASE PageAt(s, q, b) # NULL
    <3>1. PageAt(s, q, b) \in Frames
      BY <1>1, <2>4, MappedIs
    <3>2. t.data[PageAt(s, q, b)] = s.data[PageAt(s, q, b)]
      BY <1>5, <2>1, <3>1
    <3> QED BY <2>2, <2>4, <3>2 DEF See
  <2> QED BY <2>3, <2>4
<1> QED BY <1>9, <1>10, <1>11, <1>12

-----------------------------------------------------------------------------
(* The invariant.                                                           *)

(* What Finish makes of the state u that a call has left.                   *)
FinishOf(s, u, p) ==
    IF u.stopped THEN [s EXCEPT !.stopped = TRUE] ELSE IF u.ok THEN u ELSE Finished(u, p)

(* Each call ends in its result, in the way out of its failure, or with the *)
(* kernel stopped as it was.                                                *)
LEMMA FinishMoves ==
    ASSUME NEW s, NEW L, MemoryOk(s, L), NEW p \in Procs, NEW u, Stopped(u) \/ Ends(s, u, p, L), NEW t, t = FinishOf(s, u, p)
    PROVE  /\ MemoryOk(t, L)
           /\ \/ SameView(s, t)
              \/ u.ok /\ t = u /\ Ends(s, u, p, L)
              \/ ~u.stopped /\ Apart(s, t, p) /\ t.mm[p] = NoMm
<1>1. CASE u.stopped
  <2>1. t = [s EXCEPT !.stopped = TRUE]
    BY <1>1 DEF FinishOf
  <2> QED BY <2>1, EndsStopped
<1>2. CASE ~u.stopped /\ u.ok
  <2>1. t = u /\ Ends(s, u, p, L)
    BY <1>2 DEF FinishOf, Stopped
  <2> QED BY <1>2, <2>1, EndsWell
<1>3. CASE ~u.stopped /\ ~u.ok
  <2>1. t = Finished(u, p) /\ Ends(s, u, p, L)
    BY <1>3 DEF FinishOf, Stopped
  <2> QED BY <1>3, <2>1, FinishedSound
<1> QED BY <1>1, <1>2, <1>3

(* What the processes see of a step.                                        *)
OthersView(s, t, p) == \A q \in Procs \ {p} : \A b \in Addrs : See(t, q, b) = See(s, q, b)
Loads(s, t, p) == \E prog \in Programs : \A i \in 1..Len(prog) : Filled(t, p, prog[i], prog[i].hi)
Leaves(s, t, p) == t.mm[p] = NoMm
Forks(s, t, p, q) ==
    q # p /\ s.mm[p].pgdir /\ ~s.mm[q].pgdir /\ \A b \in Addrs : See(t, q, b) = See(s, p, b)
Stores(s, t, p, a, v) ==
    /\ See(s, p, a) # UNMAPPED /\ See(t, p, a) = v
    /\ \A b \in Addrs \ {a} : See(t, p, b) = See(s, p, b)

Moves(s, t) ==
    \/ SameView(s, t)
    \/ \E p \in Procs :
          /\ OthersView(s, t, p)
          /\ \/ Loads(s, t, p)
             \/ Leaves(s, t, p)
             \/ \E q \in Procs : Forks(s, t, q, p)
             \/ \E a \in Addrs, v \in Values : Stores(s, t, p, a, v)

(* What a call leaves alone is seen as before.                              *)
LEMMA ApartView ==
    ASSUME NEW s, NEW t, NEW p, Apart(s, t, p)
    PROVE  OthersView(s, t, p)
BY DEF Apart, OthersView

(* Every action keeps the memory right, and moves what the processes see as *)
(* a private memory would.                                                  *)
LEMMA NextMoves == MemoryOk(m, executed) /\ Next => MemoryOk(m', executed') /\ Moves(m, m')
<1> SUFFICES ASSUME MemoryOk(m, executed), ~m.stopped,
                    NEW p \in Procs,
                    \/ Exit(p)
                    \/ \E prog \in Programs, garbage \in Garbage : Execve(p, prog, garbage)
                    \/ \E q \in Procs \ {p} : Fork(p, q)
                    \/ \E a \in Touched, v \in Values : Store(p, a, v)
                    \/ \E a \in Touched : StorePageFault(p, a)
             PROVE  MemoryOk(m', executed') /\ Moves(m, m')
  BY DEF Next
<1>1. ASSUME NEW r \in Procs, NEW u, Finish(u, r) PROVE m' = FinishOf(m, u, r)
  BY <1>1 DEF Finish, FinishOf, Finished
<1>2. Touched \subseteq Addrs
  BY VmAssumption DEF Addrs
<1>3. ASSUME NEW r \in Procs, Apart(m, m', r), m'.mm[r] = NoMm PROVE Moves(m, m')
  BY <1>3, ApartView DEF Moves, Leaves
<1>4. executed \subseteq executed' /\ \A prog \in Programs, garbage \in Garbage : Execve(p, prog, garbage) => prog \in executed'
  BY DEF Exit, Execve, Fork, Store, StorePageFault
<1>5. MemoryOk(m, executed')
  BY <1>4, MoreLoaded
<1>6. CASE Exit(p)
  <2>1. PICK u : u = [m EXCEPT !.ok = FALSE]
    OBVIOUS
  <2>2. m' = FinishOf(m, u, p)
    BY <1>1, <1>6, <2>1 DEF Exit
  <2>3. Ends(m, u, p, executed') /\ ~u.ok
    BY <1>5, <2>1, ExitEnds
  <2>4. MemoryOk(m', executed') /\ (SameView(m, m') \/ (Apart(m, m', p) /\ m'.mm[p] = NoMm))
    BY <1>5, <2>2, <2>3, FinishMoves
  <2> QED BY <1>3, <2>4 DEF Moves
<1>7. ASSUME NEW prog \in Programs, NEW garbage \in Garbage, Execve(p, prog, garbage) PROVE MemoryOk(m', executed') /\ Moves(m, m')
  <2>1. PICK u : u = load_icode(put_mm(m, p), p, prog, garbage)
    OBVIOUS
  <2>2. m' = FinishOf(m, u, p)
    BY <1>1, <1>7, <2>1 DEF Execve
  <2>3. Ends(m, u, p, executed') /\ (u.ok => \A i \in 1..Len(prog) : Filled(u, p, prog[i], prog[i].hi))
    BY <1>7, <1>4, <1>5, <2>1, ExecveEnds
  <2>4. MemoryOk(m', executed') /\ (SameView(m, m') \/ (u.ok /\ m' = u) \/ (Apart(m, m', p) /\ m'.mm[p] = NoMm))
    BY <1>5, <2>2, <2>3, FinishMoves
  <2>5. ASSUME u.ok, m' = u PROVE Moves(m, m')
    <3>1. Loads(m, u, p)
      BY <2>3, <2>5 DEF Loads
    <3>2. OthersView(m, u, p)
      BY <2>3, ApartView DEF Ends
    <3> QED BY <2>5, <3>1, <3>2 DEF Moves
  <2> QED BY <1>3, <2>4, <2>5 DEF Moves
<1>8. ASSUME NEW q \in Procs, q # p, Fork(p, q) PROVE MemoryOk(m', executed') /\ Moves(m, m')
  <2>1. PICK u : u = ForkOf(m, p, q)
    OBVIOUS
  <2>2. m' = FinishOf(m, u, q) /\ m.mm[p].pgdir /\ ~m.mm[q].pgdir
    BY <1>1, <1>8, <2>1 DEF Fork, ForkOf
  <2>3. Stopped(u) \/ (Ends(m, u, q, executed') /\ ~u.stopped /\ (u.ok => \A b \in Addrs : See(u, q, b) = See(m, p, b)))
    BY <1>8, <1>5, <2>1, <2>2, ForkEnds
  <2>4. MemoryOk(m', executed') /\ (SameView(m, m') \/ (u.ok /\ m' = u /\ Ends(m, u, q, executed')) \/ (Apart(m, m', q) /\ m'.mm[q] = NoMm))
    BY <1>5, <2>2, <2>3, FinishMoves
  <2>5. ASSUME u.ok, m' = u, Ends(m, u, q, executed') PROVE Moves(m, m')
    <3>1. Forks(m, u, p, q)
      BY <1>8, <2>2, <2>3, <2>5 DEF Forks, Stopped
    <3>2. OthersView(m, u, q)
      BY <2>5, ApartView DEF Ends
    <3> QED BY <2>5, <3>1, <3>2 DEF Moves
  <2> QED BY <1>3, <2>4, <2>5 DEF Moves
<1>9. ASSUME NEW a \in Touched, NEW v \in Values, Store(p, a, v) PROVE MemoryOk(m', executed') /\ Moves(m, m')
  <2>1. m.mm[p].pte[a].w /\ m' = [m EXCEPT !.data[m.mm[p].pte[a].page] = v] /\ a \in Addrs
    BY <1>2, <1>9 DEF Store
  <2>2. PICK t : t = m'
    OBVIOUS
  <2>3. /\ MemoryOk(t, executed') /\ See(m, p, a) # UNMAPPED /\ See(t, p, a) = v
        /\ \A q \in Procs : \A b \in Addrs : (q # p \/ b # a) => See(t, q, b) = See(m, q, b)
    BY <1>5, <2>1, <2>2, StoreSound
  <2>4. Stores(m, t, p, a, v) /\ OthersView(m, t, p)
    BY <2>3 DEF Stores, OthersView
  <2> QED BY <2>1, <2>2, <2>3, <2>4 DEF Moves
<1>10. ASSUME NEW a \in Touched, StorePageFault(p, a) PROVE MemoryOk(m', executed') /\ Moves(m, m')
  <2>1. PICK u : u = do_pgfault(m, p, a)
    OBVIOUS
  <2>2. m' = FinishOf(m, u, p) /\ m.mm[p].pgdir /\ a \in Addrs
    BY <1>1, <1>2, <1>10, <2>1 DEF StorePageFault
  <2>3. Ends(m, u, p, executed') /\ \A b \in Addrs : See(u, p, b) = See(m, p, b)
    BY <1>5, <2>1, <2>2, PgfaultEnds
  <2>4. MemoryOk(m', executed') /\ (SameView(m, m') \/ (u.ok /\ m' = u) \/ (Apart(m, m', p) /\ m'.mm[p] = NoMm))
    BY <1>5, <2>2, <2>3, FinishMoves
  <2>5. SameView(m, u)
    BY <2>3, ApartView DEF Ends, OthersView, SameView
  <2> QED BY <1>3, <2>4, <2>5 DEF Moves
<1> QED BY <1>6, <1>7, <1>8, <1>9, <1>10

(* At first all frames are free and nobody has an mm.                       *)
LEMMA InitOk == Init => MemoryOk(m, executed)
<1> SUFFICES ASSUME Init PROVE MemoryOk(m, executed)
  OBVIOUS
<1>1. /\ m.nfree = NPages /\ m.free = Frames /\ m.ref = [page \in Frames |-> 0] /\ m.data = [page \in Frames |-> 0]
      /\ m.mm = [p \in Procs |-> NoMm] /\ m.ok /\ ~m.short /\ ~m.stopped
  BY DEF Init
<1>2. m \in State
  <2>1. NPages \in Nat /\ 0 \in Values /\ NoMm \in Mm
    BY Sizes, NoMmIs
  <2>2. m.nfree \in Nat /\ m.free \in SUBSET Frames /\ m.ref \in [Frames -> Nat] /\ m.data \in [Frames -> Values]
        /\ m.mm \in [Procs -> Mm]
    BY <1>1, <2>1
  <2>3. m = [nfree |-> NPages, free |-> Frames, ref |-> [page \in Frames |-> 0],
            data |-> [page \in Frames |-> 0], mm |-> [p \in Procs |-> NoMm],
            ok |-> TRUE, short |-> FALSE, stopped |-> FALSE]
    BY DEF Init
  <2> QED BY <1>1, <2>2, <2>3 DEF State
<1>3. \A p \in Procs : m.mm[p] = NoMm /\ \A a \in Addrs : PageAt(m, p, a) = NULL /\ m.mm[p].pte[a] = NoEntry
  <2>1. \A a \in Addrs : NoMm.pte[a] = NoEntry
    BY DEF NoMm
  <2> QED BY <1>1, <2>1, NoMmIs DEF PageAt
<1>4. LostIn(m) = 0
  <2>1. Frames \ m.free = {} /\ Roots(m) = {} /\ Directories(m) = {} /\ PageTables(m) = {}
    BY <1>1, <1>3, NoMmIs DEF Roots, Directories, PageTables
  <2>2. Cardinality({}) = 0
    BY FS_EmptySet
  <2>3. NPages - m.nfree - 0 - 0 - 0 - 0 = 0
    BY <1>1, Sizes
  <2> QED BY <2>1, <2>2, <2>3 DEF LostIn
<1>5. FramesOk(m, NULL)
  <2>1. Counted(m)
    <3>1. ASSUME NEW page \in Frames PROVE MappingsIn(m, page) = {}
      BY <1>3 DEF MappingsIn, PageAt, Frames, NULL
    <3> QED BY <1>1, <3>1, FS_EmptySet DEF Counted
  <2>2. FreeIs(m, NULL)
    BY <1>1 DEF FreeIs, Frames, NULL
  <2>3. Owned(m)
    <3>1. ~NoEntry.w
      BY DEF NoEntry
    <3> QED BY <1>3, <3>1 DEF Owned
  <2>4. Clean(m) /\ OneAddress(m)
    BY <1>3 DEF Clean, OneAddress
  <2> QED BY <2>1, <2>2, <2>3, <2>4 DEF FramesOk
<1>6. PlacesOk(m)
  BY <1>3, NoMmIs DEF PlacesOk, Mapped, Hang, Rising, RisingAreas, Rooted
<1>7. Sound(m, NULL)
  BY <1>2, <1>4, <1>5, <1>6 DEF Sound, InHand
<1> QED BY <1>1, <1>3, <1>4, <1>7, NoneGood DEF MemoryOk, Accounted

-----------------------------------------------------------------------------
(* The properties.                                                          *)

(* The counts of a frame: one entry in each process at most.                *)
LEMMA RefBound ==
    ASSUME NEW s, Sound(s, NULL), NEW page \in Frames
    PROVE  s.ref[page] \in 0..Cardinality(Procs)
<1>1. s.ref[page] = Cardinality(MappingsIn(s, page)) /\ s.ref[page] \in Nat
  BY DEF Sound, FramesOk, Counted, State
<1>2. IsFiniteSet(Procs) /\ Cardinality(Procs) \in Nat
  BY Sizes, FS_CardinalityType
<1>3. CASE MappingsIn(s, page) = {}
  BY <1>1, <1>2, <1>3, FS_EmptySet
<1>4. CASE MappingsIn(s, page) # {}
  <2>1. PICK q \in Procs, a \in Addrs : PageAt(s, q, a) = page
    BY <1>4 DEF MappingsIn, PageAt
  <2>2. page # NULL
    BY DEF Frames, NULL
  <2>3. \A r \in Procs : \A b \in Addrs : PageAt(s, r, b) = page => b = a
    BY <2>1, <2>2 DEF Sound, FramesOk, OneAddress
  <2>4. MappingsIn(s, page) \subseteq Procs \X {a}
    BY <2>3 DEF MappingsIn, PageAt
  <2>5. IsFiniteSet(Procs \X {a}) /\ Cardinality(Procs \X {a}) = Cardinality(Procs) * 1
    <3>1. IsFiniteSet({a}) /\ Cardinality({a}) = 1
      BY FS_Singleton
    <3> QED BY <1>2, <3>1, FS_Product
  <2>6. Cardinality(MappingsIn(s, page)) <= Cardinality(Procs \X {a})
    BY <2>4, <2>5, FS_Subset
  <2> QED BY <1>1, <1>2, <2>5, <2>6
<1> QED BY <1>3, <1>4

(* There are never more free frames than frames.                            *)
LEMMA FreeBound ==
    ASSUME NEW s, Sound(s, NULL)
    PROVE  s.nfree \in 0..NPages
<1>1. s.nfree \in Nat /\ LostIn(s) >= 0
  BY DEF Sound, State
<1>2. /\ Cardinality(Frames \ s.free) \in Nat /\ Cardinality(Roots(s)) \in Nat
      /\ Cardinality(Directories(s)) \in Nat /\ Cardinality(PageTables(s)) \in Nat
  BY CountsAre
<1> QED BY <1>1, <1>2, Sizes DEF LostIn

(* The invariant has the type invariant.                                    *)
LEMMA OkTyped == MemoryOk(m, executed) => VmTypeOK
<1> SUFFICES ASSUME MemoryOk(m, executed) PROVE VmTypeOK
  OBVIOUS
<1>1. Sound(m, NULL) /\ m \in State /\ m.ok
  BY DEF MemoryOk, Sound
<1>2. m.ref \in [Frames -> 0..Cardinality(Procs)]
  <2>1. m.ref \in [Frames -> Nat]
    BY <1>1 DEF State
  <2> QED BY <1>1, <2>1, RefBound
<1>3. m.data \in [Frames -> Values] /\ m.nfree \in 0..NPages
  BY <1>1, FreeBound DEF State
<1>4. ASSUME NEW p \in Procs, NEW t \in m.mm[p].tables PROVE \E a \in Pages(t) : PDX1(a) \in m.mm[p].dirs
  <2>1. t \in TableNumbers
    BY <1>1 DEF State, Mm
  <2>2. PICK a \in Addrs : PDX0(a) = t
    BY <2>1 DEF TableNumbers
  <2> QED BY <1>1, <2>2 DEF Pages, Sound, PlacesOk, Hang
<1>5. ASSUME NEW p \in Procs, NEW i \in 1..(Len(m.mm[p].mmap) - 1)
      PROVE  m.mm[p].mmap[i].hi <= m.mm[p].mmap[i + 1].lo
  <2>1. m.mm[p].mmap \in Seq(Area) /\ RisingAreas(m.mm[p].mmap)
    BY <1>1 DEF State, Mm, Sound, PlacesOk, Rising
  <2>2. i \in DOMAIN m.mm[p].mmap /\ i + 1 \in DOMAIN m.mm[p].mmap /\ i < i + 1
    BY <2>1
  <2> QED BY <2>1, <2>2 DEF RisingAreas
<1> QED BY <1>1, <1>2, <1>3, <1>4, <1>5 DEF VmTypeOK

(* The invariant has the exact counts of frames.                            *)
LEMMA OkExact == MemoryOk(m, executed) => FramesExact
<1> SUFFICES ASSUME MemoryOk(m, executed) PROVE FramesExact
  OBVIOUS
<1>1. Sound(m, NULL) /\ FramesOk(m, NULL) /\ PlacesOk(m)
  BY DEF MemoryOk, Sound
<1>2. ASSUME NEW page \in Frames
      PROVE  m.ref[page] = Cardinality(Mappings(page)) /\ (page \in m.free <=> m.ref[page] = 0)
  <2>1. page # NULL
    BY DEF Frames, NULL
  <2> QED BY <1>1, <2>1 DEF FramesOk, Counted, FreeIs, Mappings
<1>3. ASSUME NEW p \in Procs, NEW a \in Addrs, m.mm[p].pte[a].page # NULL
      PROVE  /\ m.mm[p].pte[a].w => m.ref[m.mm[p].pte[a].page] = 1 /\ ~m.mm[p].pte[a].cow
             /\ find_vma(m, p, a) # {}
             /\ PDX0(a) \in m.mm[p].tables
  BY <1>1, <1>3 DEF FramesOk, Owned, PlacesOk, Mapped, InArea, PageAt
<1>4. Lost >= 0 /\ (Lost > 0 => m.short \/ \E prog \in executed : Crowded(prog))
  BY DEF Lost, MemoryOk, Sound, Accounted, CrowdedIn
<1> QED BY <1>2, <1>3, <1>4 DEF FramesExact

(* The inductive invariant: counts, frames, tables and areas agree with one *)
(* another between any two calls.                                           *)
THEOREM MemoryCorrect == Spec => []MemoryOk(m, executed)
<1>1. Init => MemoryOk(m, executed)
  BY InitOk
<1>2. MemoryOk(m, executed) /\ [Next]_vmVars => MemoryOk(m, executed)'
  <2>1. MemoryOk(m, executed) /\ Next => MemoryOk(m, executed)'
    BY NextMoves
  <2>2. MemoryOk(m, executed) /\ UNCHANGED vmVars => MemoryOk(m, executed)'
    <3> SUFFICES ASSUME MemoryOk(m, executed), UNCHANGED vmVars PROVE MemoryOk(m', executed')
      OBVIOUS
    <3>1. m' = m /\ executed' = executed
      BY DEF vmVars
    <3> QED BY <3>1
  <2> QED BY <2>1, <2>2
<1> QED BY <1>1, <1>2, PTL DEF Spec

(* page_insert, get_pte, free_page and the areas of mm keep their types:    *)
(* a frame has at most one entry in each process, no more frames are free   *)
(* than there are, tables hang below directories, and areas do not overlap. *)
THEOREM VmTypeCorrect == Spec => []VmTypeOK
BY MemoryCorrect, OkTyped, PTL

(* page_ref counts the entries of a frame exactly, through execve, fork     *)
(* with a copy or copy on write, page faults, exit, and each of them when   *)
(* memory runs out half way; and no frame is lost but by a failed           *)
(* allocation, or after a program with two tables under one directory was   *)
(* loaded.                                                                  *)
THEOREM FramesCorrect == Spec => []FramesExact
BY MemoryCorrect, OkExact, PTL

-----------------------------------------------------------------------------
(* The refinement.                                                          *)

(* The spaces that the processes see.                                       *)
View(s) == [p \in Procs |-> [a \in Addrs |-> See(s, p, a)]]

(* What is seen is a value for each page that is mapped.                    *)
LEMMA ViewIs ==
    ASSUME NEW s, Sound(s, NULL)
    PROVE  /\ View(s) \in [Procs -> [Addrs -> Values \cup {UNMAPPED}]]
           /\ \A p \in Procs : View(s)[p] = [a \in Addrs |-> See(s, p, a)]
           /\ \A p \in Procs : \A a \in Addrs : View(s)[p][a] = See(s, p, a)
BY SeeMapped DEF View

(* Actions of Spaces over the spaces v and w before and after.              *)
Space_Load(v, w, p) ==
    /\ w \in [Procs -> [Addrs -> Values \cup {UNMAPPED}]]
    /\ \A q \in Procs \ {p} : w[q] = v[q]
    /\ \E prog \in Programs : Spaces!Loaded(w[p], prog)
Space_Fork(v, w, p, q) == v[p] # Spaces!NoSpace /\ v[q] = Spaces!NoSpace /\ w = [v EXCEPT ![q] = v[p]]
Space_Store(v, w, p, a, x) == v[p][a] # UNMAPPED /\ w = [v EXCEPT ![p] = [v[p] EXCEPT ![a] = x]]
Space_End(v, w, p) == w = [v EXCEPT ![p] = Spaces!NoSpace]
Space_Next(v, w) ==
    \E p \in Procs :
       \/ Space_Load(v, w, p)
       \/ \E q \in Procs \ {p} : Space_Fork(v, w, p, q)
       \/ \E a \in Addrs, x \in Values : Space_Store(v, w, p, a, x)
       \/ Space_End(v, w, p)

(* The abstract memory of a process without one.                            *)
LEMMA NoSpaceIs == Spaces!NoSpace = [a \in Addrs |-> UNMAPPED]
BY DEF Spaces!NoSpace, Spaces!Addrs, Spaces!UNMAPPED, Addrs, UNMAPPED

(* An mm that is not there shows nothing.                                   *)
LEMMA NoMmView ==
    ASSUME NEW s, Sound(s, NULL), NEW p \in Procs, s.mm[p] = NoMm
    PROVE  View(s)[p] = Spaces!NoSpace
<1>1. \A a \in Addrs : See(s, p, a) = UNMAPPED
  BY NoMmIs DEF See, PageAt
<1> QED BY <1>1, ViewIs, NoSpaceIs

(* A loaded program, as the abstract memory has it.                         *)
LEMMA LoadView ==
    ASSUME NEW s, Sound(s, NULL), NEW t, Sound(t, NULL), NEW p \in Procs,
           \A q \in Procs \ {p} : View(t)[q] = View(s)[q], Loads(s, t, p)
    PROVE  Space_Load(View(s), View(t), p)
<1>1. PICK prog \in Programs : \A i \in 1..Len(prog) : Filled(t, p, prog[i], prog[i].hi)
  BY DEF Loads
<1>2. DOMAIN prog = 1..Len(prog) /\ \A i \in 1..Len(prog) : SegmentOk(prog[i])
  BY ProgramIs
<1>3. ASSUME NEW i \in 1..Len(prog), NEW a \in prog[i].lo..(prog[i].hi - 1)
      PROVE  View(t)[p][a] = Spaces!Holds(prog[i], a)
  <2>1. a \in Addrs
    BY <1>2, SegmentIs
  <2>2. See(t, p, a) = Content(prog[i], a)
    BY <1>1 DEF Filled
  <2> QED BY <2>1, <2>2, ViewIs DEF Spaces!Holds, Content
<1>4. Spaces!Loaded(View(t)[p], prog)
  BY <1>2, <1>3 DEF Spaces!Loaded
<1> QED BY <1>4, ViewIs DEF Space_Load

(* What moves between two right states is a step of Spaces.                 *)
LEMMA MovesView ==
    ASSUME NEW s, NEW K, MemoryOk(s, K), NEW t, NEW L, MemoryOk(t, L), Moves(s, t)
    PROVE  View(t) = View(s) \/ Space_Next(View(s), View(t))
<1>1. Sound(s, NULL) /\ Sound(t, NULL)
  BY DEF MemoryOk
<1> DEFINE v == View(s)
           w == View(t)
<1>2. /\ v \in [Procs -> [Addrs -> Values \cup {UNMAPPED}]] /\ w \in [Procs -> [Addrs -> Values \cup {UNMAPPED}]]
      /\ \A p \in Procs : v[p] = [a \in Addrs |-> See(s, p, a)] /\ w[p] = [a \in Addrs |-> See(t, p, a)]
  BY <1>1, ViewIs
<1>3. CASE SameView(s, t)
  BY <1>3 DEF SameView, View
<1>4. ASSUME NEW p \in Procs, OthersView(s, t, p),
             \/ Loads(s, t, p)
             \/ Leaves(s, t, p)
             \/ \E q \in Procs : Forks(s, t, q, p)
             \/ \E a \in Addrs, x \in Values : Stores(s, t, p, a, x)
      PROVE  Space_Next(v, w)
  <2> HIDE DEF v, w
  <2>1. \A q \in Procs \ {p} : w[q] = v[q]
    BY <1>2, <1>4 DEF OthersView
  <2>2. ASSUME NEW image, w[p] = image PROVE w = [v EXCEPT ![p] = image]
    BY <1>2, <2>1, <2>2
  <2>3. CASE Loads(s, t, p)
    <3>1. Space_Load(v, w, p)
      BY <1>1, <2>1, <2>3, LoadView DEF v, w
    <3> QED BY <3>1 DEF Space_Next
  <2>4. CASE Leaves(s, t, p)
    <3>1. w[p] = Spaces!NoSpace
      BY <1>1, <2>4, NoMmView DEF Leaves, w
    <3>2. Space_End(v, w, p)
      BY <2>2, <3>1 DEF Space_End
    <3> QED BY <3>2 DEF Space_Next
  <2>5. ASSUME NEW q \in Procs, Forks(s, t, q, p) PROVE Space_Next(v, w)
    <3>1. p # q /\ s.mm[q].pgdir /\ ~s.mm[p].pgdir /\ \A b \in Addrs : See(t, p, b) = See(s, q, b)
      BY <2>5 DEF Forks
    <3>2. w[p] = v[q]
      BY <1>2, <3>1
    <3>3. v[p] = Spaces!NoSpace
      <4>1. s.mm[p] = NoMm
        BY <1>1, <3>1 DEF Sound, PlacesOk, Rooted
      <4> QED BY <1>1, <4>1, NoMmView DEF v
    <3>4. v[q] # Spaces!NoSpace
      <4>1. PageAt(s, q, VASize - 1) # NULL
        BY <3>1 DEF MemoryOk, GoodMm, StackThere
      <4>2. See(s, q, VASize - 1) # UNMAPPED
        BY <1>1, <4>1, TopIs, SeeMapped
      <4>3. v[q][VASize - 1] = See(s, q, VASize - 1) /\ Spaces!NoSpace[VASize - 1] = UNMAPPED
        BY <1>2, TopIs, NoSpaceIs
      <4> QED BY <4>2, <4>3
    <3>5. Space_Fork(v, w, q, p)
      BY <2>2, <3>2, <3>3, <3>4 DEF Space_Fork
    <3> QED BY <3>1, <3>5 DEF Space_Next
  <2>6. ASSUME NEW a \in Addrs, NEW x \in Values, Stores(s, t, p, a, x) PROVE Space_Next(v, w)
    <3>1. See(s, p, a) # UNMAPPED /\ See(t, p, a) = x /\ \A b \in Addrs \ {a} : See(t, p, b) = See(s, p, b)
      BY <2>6 DEF Stores
    <3>2. w[p] = [v[p] EXCEPT ![a] = x] /\ v[p][a] # UNMAPPED
      BY <1>2, <3>1
    <3>3. Space_Store(v, w, p, a, x)
      BY <2>2, <3>2 DEF Space_Store
    <3> QED BY <3>3 DEF Space_Next
  <2> QED BY <1>4, <2>3, <2>4, <2>5, <2>6
<1> QED BY <1>3, <1>4 DEF Moves

(* The refinement mapping is a function of the state,                       *)
LEMMA ShownView == [p \in Procs |-> SpaceOf(p)] = View(m)
BY DEF SpaceOf, View, See, PageAt

(* before a step and after it.                                              *)
LEMMA ShownNext == [p \in Procs |-> SpaceOf(p)]' = View(m')
BY DEF SpaceOf, View, See, PageAt

(* A step of Spaces, in the terms of this module.                           *)
SpacesStep == [Spaces!Next]_[p \in Procs |-> SpaceOf(p)]

(* Every step of Vm is a step of Spaces or changes nothing there.           *)
LEMMA NextRefines == MemoryOk(m, executed) /\ [Next]_vmVars => SpacesStep
<1> SUFFICES ASSUME MemoryOk(m, executed), [Next]_vmVars PROVE SpacesStep
  OBVIOUS
<1>1. CASE UNCHANGED vmVars
  <2>1. m' = m
    BY <1>1 DEF vmVars
  <2>2. [p \in Procs |-> SpaceOf(p)]' = [p \in Procs |-> SpaceOf(p)]
    BY <2>1, ShownView, ShownNext
  <2> QED BY <2>2 DEF SpacesStep
<1>2. CASE Next
  <2>1. MemoryOk(m', executed') /\ Moves(m, m')
    BY <1>2, NextMoves
  <2>2. View(m') = View(m) \/ Space_Next(View(m), View(m'))
    BY <2>1, MovesView
  <2>3. ASSUME View(m') = View(m) PROVE SpacesStep
    BY <2>3, ShownView, ShownNext DEF SpacesStep
  <2>4. ASSUME Space_Next(View(m), View(m')) PROVE Spaces!Next
    <3>1. PICK v : v = [p \in Procs |-> SpaceOf(p)]
      OBVIOUS
    <3>2. PICK w : w = [p \in Procs |-> SpaceOf(p)]'
      OBVIOUS
    <3>3. Space_Next(v, w)
      BY <2>4, <3>1, <3>2, ShownView, ShownNext
    <3>4. ASSUME NEW p \in Procs PROVE /\ Space_Load(v, w, p) => Spaces!Load(p)
                                       /\ Space_End(v, w, p) => Spaces!End(p)
      BY <3>1, <3>2 DEF Space_Load, Space_End, Spaces!Load, Spaces!End, Spaces!Change, Spaces!UNMAPPED, UNMAPPED,
                        Spaces!Addrs, Addrs
    <3>5. ASSUME NEW p \in Procs, NEW q \in Procs, Space_Fork(v, w, p, q) PROVE Spaces!Fork(p, q)
      BY <3>1, <3>2, <3>5 DEF Space_Fork, Spaces!Fork, Spaces!Change
    <3>6. ASSUME NEW p \in Procs, NEW a \in Addrs, NEW x \in Values, Space_Store(v, w, p, a, x) PROVE Spaces!Store(p, a, x)
      BY <3>1, <3>2, <3>6 DEF Space_Store, Spaces!Store, Spaces!Change, Spaces!UNMAPPED, UNMAPPED
    <3>7. Spaces!Addrs = Addrs
      BY DEF Spaces!Addrs, Addrs
    <3> QED BY <3>3, <3>4, <3>5, <3>6, <3>7 DEF Space_Next, Spaces!Next
  <2> QED BY <2>2, <2>3, <2>4 DEF SpacesStep
<1> QED BY <1>1, <1>2

(* At first nobody has a memory.                                            *)
LEMMA InitRefines == Init => Spaces!Init
<1> SUFFICES ASSUME Init PROVE Spaces!Init
  OBVIOUS
<1>1. \A p \in Procs : m.mm[p] = NoMm
  BY DEF Init
<1>2. Sound(m, NULL)
  BY InitOk DEF MemoryOk
<1>3. \A p \in Procs : View(m)[p] = Spaces!NoSpace
  BY <1>1, <1>2, NoMmView
<1>4. View(m) = [p \in Procs |-> Spaces!NoSpace]
  BY <1>2, <1>3, ViewIs
<1> QED BY <1>4, ShownView DEF Spaces!Init

(* Page tables, reference counts, copy on write and the frames that run out *)
(* cannot be seen by the processes (load_icode, dup_mmap, do_pgfault,       *)
(* do_exit): each finds its program and its own stores, a child starts with *)
(* what its parent had, and nobody else changes either.                     *)
THEOREM VmImplementsSpaces == Spec => ImplementsSpaces
<1>1. SpacesStep <=> [Spaces!Next]_[p \in Procs |-> SpaceOf(p)]
  BY DEF SpacesStep
<1> QED BY <1>1, MemoryCorrect, InitRefines, NextRefines, PTL DEF Spec, ImplementsSpaces, Spaces!Spec

=============================================================================
