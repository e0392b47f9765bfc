------------------------------ MODULE SfsProofs ------------------------------
(***************************************************************************)
(* The blocks of SFS: each is free or in one place of one file, for every  *)
(* set of files, every size of the disk and of an inode, and whatever fails *)
(* half way; and what the blocks hold, read through the inodes, is a       *)
(* sequence of bytes per file.                                             *)
(*                                                                         *)
(* The places for a block number (direct, indirect, entry of the indirect  *)
(* block) of all files are one function, the map.  First come lemmas on    *)
(* such a map and a set of free blocks, then what the code's assignments   *)
(* do to the map, then one lemma per action.                               *)
(*                                                                         *)
(* The second part is the refinement of ByteFiles: positions and indices,  *)
(* the invariant ByteInv (behind the end of a file its blocks hold zeroes), *)
(* one lemma per action that it keeps ByteInv and is a step of the ideal   *)
(* files, and the sizes for which there is no block.                       *)
(***************************************************************************)
EXTENDS Sfs, QueueProofs

Slots ==
    ({"direct"} \X (0..(SFS_NDIRECT - 1))) \cup {<<"indirect", 0>>} \cup ({"entry"} \X Cells)

Places == Files \X Slots

(* The place that sfs_bmap_get_nolock looks up for an index.                *)
SlotOf(index) ==
    IF index < SFS_NDIRECT THEN <<"direct", index>> ELSE <<"entry", index - SFS_NDIRECT>>

(* The map of inodes C over blocks with the cells D.                        *)
At(d, D, r) ==
    IF r[1] = "direct" THEN d.direct[r[2]]
    ELSE IF r[1] = "indirect" THEN d.indirect
    ELSE IF d.indirect = 0 THEN 0 ELSE D[d.indirect][r[2]]

MapOf(C, D) == [x \in Places |-> At(C[x[1]], D, x[2])]

(* A map M, free blocks F, n blocks in each file and u free blocks agree.   *)
Owned(M, F) ==
    /\ M \in [Places -> 0..NBlocks]
    /\ F \subseteq BlockNos
    /\ \A x \in Places : M[x] \notin F
    /\ \A x, y \in Places : M[x] = M[y] /\ M[x] # 0 => x = y
    /\ \A b \in BlockNos \ F : \E x \in Places : M[x] = b

Filled(M, n) ==
    /\ n \in [Files -> 0..MaxIndex]
    /\ \A i \in Files : \A k \in 0..(n[i] - 1) : M[<<i, SlotOf(k)>>] # 0

Agree(M, F, n, u) == Owned(M, F) /\ Filled(M, n) /\ u = Cardinality(F)

Currents == [i \in Files |-> Current(i)]
Counts == [i \in Files |-> Current(i).blocks]
Map == MapOf(Currents, disk)

(* An inode that is not dirty may have got more blocks since it was saved,  *)
(* from entries of its indirect block, but no other block number.           *)
Saved(c, d) == c.direct = d.direct /\ c.indirect = d.indirect /\ c.blocks <= d.blocks

SavedPart == \A i \in loaded : ~dirty[i] => Saved(dinode[i], din[i])

BlockPart == Agree(Map, freemap, Counts, unused_blocks)

StorePart ==
    /\ disk \in [BlockNos -> [Cells -> Nat]]
    /\ din \in [Files -> Inode] /\ dirty \in [Files -> BOOLEAN]
    /\ SavedPart /\ BlockPart

(* What is remembered between the turns of a call.                          *)
OpPart ==
    \/ op = None
    \/ /\ op.kind = "resize" /\ op.fd \in Fds /\ op.len \in 0..SFS_MAX_FILE_SIZE
       /\ op = [kind |-> "resize", fd |-> op.fd, len |-> op.len]
    \/ /\ op.kind = "read" /\ op.fd \in Fds
       /\ op.end \in 0..SFS_MAX_FILE_SIZE /\ op.off \in 0..op.end
       /\ op = [kind |-> "read", fd |-> op.fd, off |-> op.off, end |-> op.end, buf |-> op.buf]
    \/ /\ op.kind = "write" /\ op.fd \in Fds /\ op.c \in Bytes
       /\ op.end \in 0..SFS_MAX_FILE_SIZE /\ op.off \in 0..op.end
       /\ op = [kind |-> "write", fd |-> op.fd, off |-> op.off, end |-> op.end, c |-> op.c]

(* An open descriptor's inode is in memory, and so is that of the call.     *)
NodePart ==
    /\ loaded \subseteq Files /\ node \in [Fds -> Files \cup {NULL}]
    /\ \A fd \in Fds : node[fd] # NULL => node[fd] \in loaded
    /\ op # None => node[op.fd] # NULL

PosPart == dinode \in [Files -> Inode] /\ pos \in [Fds -> 0..SFS_MAX_FILE_SIZE]

PanicPart == panic \in {"no", "blocks", "index", "range"}

IInv == StorePart /\ OpPart /\ NodePart /\ PosPart /\ PanicPart

-----------------------------------------------------------------------------
(* Maps and free blocks.                                                    *)

(* Every index below MaxIndex has a place, and different indices different  *)
(* ones (sfs_bmap_get_nolock).                                              *)
LEMMA SlotFacts ==
    /\ \A k \in 0..(MaxIndex - 1) : SlotOf(k) \in Slots
    /\ \A j, k \in 0..(MaxIndex - 1) : SlotOf(j) = SlotOf(k) => j = k
    /\ \A k \in 0..(SFS_NDIRECT - 1) : <<"direct", k>> \in Slots
    /\ \A k \in Cells : <<"entry", k>> \in Slots
    /\ <<"indirect", 0>> \in Slots
    /\ MaxIndex \in Nat
<1> USE SfsAssumption
<1>1. MaxIndex \in Nat /\ MaxIndex = SFS_NDIRECT + SFS_BLK_NENTRY
  BY DEF MaxIndex
<1>2. ASSUME NEW k \in 0..(MaxIndex - 1)
      PROVE  IF k < SFS_NDIRECT THEN k \in 0..(SFS_NDIRECT - 1)
             ELSE k - SFS_NDIRECT \in Cells
  BY <1>1 DEF Cells
<1>3. \A k \in 0..(MaxIndex - 1) : SlotOf(k) \in Slots
  BY <1>2 DEF SlotOf, Slots
<1>4. ASSUME NEW j \in 0..(MaxIndex - 1), NEW k \in 0..(MaxIndex - 1), SlotOf(j) = SlotOf(k)
      PROVE  j = k
  <2>1. CASE j < SFS_NDIRECT /\ k < SFS_NDIRECT
    BY <1>4, <2>1 DEF SlotOf
  <2>2. CASE ~(j < SFS_NDIRECT) /\ ~(k < SFS_NDIRECT)
    <3>1. j - SFS_NDIRECT = k - SFS_NDIRECT
      BY <1>4, <2>2 DEF SlotOf
    <3> QED BY <3>1
  <2>3. CASE j < SFS_NDIRECT /\ ~(k < SFS_NDIRECT)
    BY <1>4, <2>3 DEF SlotOf
  <2>4. CASE ~(j < SFS_NDIRECT) /\ k < SFS_NDIRECT
    BY <1>4, <2>4 DEF SlotOf
  <2> QED BY <2>1, <2>2, <2>3, <2>4
<1>5. /\ \A k \in 0..(SFS_NDIRECT - 1) : <<"direct", k>> \in Slots
      /\ \A k \in Cells : <<"entry", k>> \in Slots
      /\ <<"indirect", 0>> \in Slots
  BY DEF Slots
<1> QED BY <1>1, <1>3, <1>4, <1>5

(* The blocks of the disk are finitely many, and 0 is none of them.         *)
LEMMA FreeFinite ==
    ASSUME NEW F, F \subseteq BlockNos
    PROVE  /\ IsFiniteSet(F) /\ Cardinality(F) \in 0..NBlocks
           /\ \A b \in F : /\ b \in 1..NBlocks /\ b # 0
                           /\ Cardinality(F \ {b}) = Cardinality(F) - 1
           /\ \A b \in BlockNos \ F : Cardinality(F \cup {b}) = Cardinality(F) + 1
<1> USE SfsAssumption
<1>1. IsFiniteSet(BlockNos) /\ Cardinality(BlockNos) = NBlocks
  BY FS_Interval DEF BlockNos
<1>2. IsFiniteSet(F) /\ Cardinality(F) <= NBlocks
  BY <1>1, FS_Subset
<1>3. Cardinality(F) \in Nat
  BY <1>2, FS_CardinalityType
<1>4. \A b \in F : Cardinality(F \ {b}) = Cardinality(F) - 1
  BY <1>2, FS_RemoveElement
<1>5. \A b \in BlockNos \ F : Cardinality(F \cup {b}) = Cardinality(F) + 1
  BY <1>2, FS_AddElement
<1>6. \A b \in F : b \in 1..NBlocks /\ b # 0
  BY DEF BlockNos
<1> QED BY <1>2, <1>3, <1>4, <1>5, <1>6

Put(M, x, b) == [M EXCEPT ![x] = b]

(* A free block put into an empty place: sfs_block_alloc and the assignment *)
(* that refers to the block.                                                *)
LEMMA TakeBlock ==
    ASSUME NEW M, NEW F, NEW n, NEW u, Agree(M, F, n, u),
           NEW x \in Places, M[x] = 0, NEW b \in F
    PROVE  Agree([M EXCEPT ![x] = b], F \ {b}, n, u - 1)
<1> DEFINE N == [M EXCEPT ![x] = b]
<1>1. /\ M \in [Places -> 0..NBlocks] /\ F \subseteq BlockNos
      /\ \A y \in Places : M[y] \notin F
      /\ \A y, z \in Places : M[y] = M[z] /\ M[y] # 0 => y = z
      /\ \A c \in BlockNos \ F : \E y \in Places : M[y] = c
      /\ n \in [Files -> 0..MaxIndex]
      /\ \A i \in Files : \A k \in 0..(n[i] - 1) : M[<<i, SlotOf(k)>>] # 0
      /\ u = Cardinality(F)
  BY DEF Agree, Owned, Filled
<1>2. b \in 0..NBlocks /\ b # 0 /\ Cardinality(F \ {b}) = u - 1
  BY <1>1, FreeFinite, SfsAssumption
<1>3. /\ N \in [Places -> 0..NBlocks]
      /\ \A y \in Places : N[y] = IF y = x THEN b ELSE M[y]
  BY <1>1, <1>2
<1> HIDE DEF N
<1>4. Owned(N, F \ {b})
  <2>1. \A y \in Places : N[y] \notin F \ {b}
    BY <1>1, <1>3
  <2>2. \A y, z \in Places : N[y] = N[z] /\ N[y] # 0 => y = z
    BY <1>1, <1>3
  <2>3. \A c \in BlockNos \ (F \ {b}) : \E y \in Places : N[y] = c
    <3> SUFFICES ASSUME NEW c \in BlockNos \ (F \ {b}) PROVE \E y \in Places : N[y] = c
      OBVIOUS
    <3>1. CASE c = b
      BY <3>1, <1>3
    <3>2. CASE c # b
      <4>1. PICK y \in Places : M[y] = c
        BY <3>2, <1>1
      <4>2. c # 0
        BY DEF BlockNos
      <4> QED BY <4>1, <4>2, <1>3
    <3> QED BY <3>1, <3>2
  <2> QED BY <1>1, <1>3, <2>1, <2>2, <2>3 DEF Owned
<1>5. Filled(N, n)
  <2> SUFFICES ASSUME NEW i \in Files, NEW k \in 0..(n[i] - 1) PROVE N[<<i, SlotOf(k)>>] # 0
    BY <1>1 DEF Filled
  <2>1. n[i] \in 0..MaxIndex /\ MaxIndex \in Nat
    BY <1>1, SlotFacts
  <2>2. k \in 0..(MaxIndex - 1)
    BY <2>1
  <2>3. <<i, SlotOf(k)>> \in Places
    BY <2>2, SlotFacts DEF Places
  <2> QED BY <2>3, <1>1, <1>2, <1>3
<1> QED BY <1>2, <1>4, <1>5 DEF Agree, N

(* A file whose next place is taken gets one block longer (din->blocks ++). *)
LEMMA LongerFile ==
    ASSUME NEW M, NEW F, NEW n, NEW u, Agree(M, F, n, u),
           NEW i \in Files, n[i] < MaxIndex, M[<<i, SlotOf(n[i])>>] # 0
    PROVE  Agree(M, F, [n EXCEPT ![i] = n[i] + 1], u)
<1> DEFINE m == [n EXCEPT ![i] = n[i] + 1]
<1>1. /\ n \in [Files -> 0..MaxIndex] /\ MaxIndex \in Nat
      /\ \A j \in Files : \A k \in 0..(n[j] - 1) : M[<<j, SlotOf(k)>>] # 0
  BY SlotFacts DEF Agree, Filled
<1>2. n[i] \in Nat /\ n[i] + 1 \in 0..MaxIndex
  BY <1>1
<1>3. m \in [Files -> 0..MaxIndex] /\ \A j \in Files : m[j] = IF j = i THEN n[i] + 1 ELSE n[j]
  BY <1>1, <1>2
<1> HIDE DEF m
<1>4. ASSUME NEW j \in Files, NEW k \in 0..(m[j] - 1) PROVE M[<<j, SlotOf(k)>>] # 0
  <2>1. CASE j = i
    <3>1. k = n[i] \/ k \in 0..(n[i] - 1)
      BY <2>1, <1>2, <1>3
    <3> QED BY <2>1, <3>1, <1>1
  <2>2. CASE j # i
    BY <2>2, <1>1, <1>3
  <2> QED BY <2>1, <2>2
<1> QED BY <1>3, <1>4 DEF Agree, Filled, m

(* The last block of a file is given back (sfs_bmap_truncate_nolock).       *)
LEMMA ShorterFile ==
    ASSUME NEW M, NEW F, NEW n, NEW u, Agree(M, F, n, u),
           NEW i \in Files, n[i] # 0
    PROVE  Agree(Put(M, <<i, SlotOf(n[i] - 1)>>, 0), F \cup {M[<<i, SlotOf(n[i] - 1)>>]},
                 Put(n, i, n[i] - 1), u + 1)
<1> DEFINE x == <<i, SlotOf(n[i] - 1)>>
           b == M[x]
           N == [M EXCEPT ![x] = 0]
           m == [n EXCEPT ![i] = n[i] - 1]
<1>1. /\ M \in [Places -> 0..NBlocks] /\ F \subseteq BlockNos
      /\ \A y \in Places : M[y] \notin F
      /\ \A y, z \in Places : M[y] = M[z] /\ M[y] # 0 => y = z
      /\ \A c \in BlockNos \ F : \E y \in Places : M[y] = c
      /\ n \in [Files -> 0..MaxIndex] /\ MaxIndex \in Nat
      /\ \A j \in Files : \A k \in 0..(n[j] - 1) : M[<<j, SlotOf(k)>>] # 0
      /\ u = Cardinality(F)
  BY SlotFacts DEF Agree, Owned, Filled
<1>2. n[i] \in 1..MaxIndex /\ n[i] - 1 \in 0..(MaxIndex - 1) /\ n[i] - 1 \in 0..(n[i] - 1)
  BY <1>1
<1>3. x \in Places
  BY <1>2, SlotFacts DEF Places
<1>4. M[x] # 0 /\ b = M[x]
  BY <1>1, <1>2
<1>5. b \in BlockNos \ F /\ b \in 1..NBlocks
  BY <1>1, <1>3, <1>4, SfsAssumption DEF BlockNos
<1>6. Cardinality(F \cup {b}) = u + 1
  BY <1>1, <1>5, FreeFinite
<1>7. m \in [Files -> 0..MaxIndex] /\ \A j \in Files : m[j] = IF j = i THEN n[i] - 1 ELSE n[j]
  BY <1>1, <1>2
<1>8. 0 \in 0..NBlocks
  BY SfsAssumption
<1>9. N \in [Places -> 0..NBlocks] /\ \A y \in Places : N[y] = IF y = x THEN 0 ELSE M[y]
  BY <1>1, <1>3, <1>8
<1>10. \A k \in 0..(n[i] - 1) : <<i, SlotOf(k)>> = x => k = n[i] - 1
  <2> SUFFICES ASSUME NEW k \in 0..(n[i] - 1), <<i, SlotOf(k)>> = x PROVE k = n[i] - 1
    OBVIOUS
  <2>1. SlotOf(k) = SlotOf(n[i] - 1)
    OBVIOUS
  <2>2. k \in 0..(MaxIndex - 1)
    BY <1>1, <1>2
  <2> QED BY <2>1, <2>2, <1>2, SlotFacts
<1>11. \A j \in Files : j # i => \A k : <<j, SlotOf(k)>> # x
  OBVIOUS
<1> HIDE DEF m, N, x, b
<1>12. Owned(N, F \cup {b})
  <2>1. \A y \in Places : N[y] \notin F \cup {b}
    <3>1. 0 \notin F \cup {b}
      BY <1>1, <1>5 DEF BlockNos
    <3>2. \A y \in Places : y # x => M[y] # b
      BY <1>1, <1>3, <1>4
    <3> QED BY <1>1, <1>9, <3>1, <3>2
  <2>2. \A y, z \in Places : N[y] = N[z] /\ N[y] # 0 => y = z
    BY <1>1, <1>9
  <2>3. \A c \in BlockNos \ (F \cup {b}) : \E y \in Places : N[y] = c
    BY <1>1, <1>4, <1>9
  <2> QED BY <1>1, <1>5, <1>9, <2>1, <2>2, <2>3 DEF Owned
<1>13. Filled(N, m)
  <2> SUFFICES ASSUME NEW j \in Files, NEW k \in 0..(m[j] - 1) PROVE N[<<j, SlotOf(k)>>] # 0
    BY <1>7 DEF Filled
  <2>1. k \in 0..(n[j] - 1) /\ (j = i => k # n[i] - 1)
    BY <1>1, <1>2, <1>7
  <2>2. k \in 0..(MaxIndex - 1)
    <3>1. n[j] \in 0..MaxIndex
      BY <1>1
    <3> QED BY <2>1, <3>1, <1>1
  <2>3. <<j, SlotOf(k)>> \in Places
    BY <2>2, SlotFacts DEF Places
  <2>4. <<j, SlotOf(k)>> # x
    BY <2>1, <1>10, <1>11
  <2> QED BY <2>1, <2>3, <2>4, <1>1, <1>9
<1> QED BY <1>5, <1>6, <1>12, <1>13 DEF Agree, Put, N, m, x, b

(* Counts that are not larger are filled too: the inode as it was saved.     *)
LEMMA FewerBlocks ==
    ASSUME NEW M, NEW F, NEW n, NEW u, Agree(M, F, n, u),
           NEW m \in [Files -> 0..MaxIndex], \A i \in Files : m[i] <= n[i]
    PROVE  Agree(M, F, m, u)
<1>1. /\ n \in [Files -> 0..MaxIndex] /\ MaxIndex \in Nat
      /\ \A j \in Files : \A k \in 0..(n[j] - 1) : M[<<j, SlotOf(k)>>] # 0
  BY SlotFacts DEF Agree, Filled
<1>2. \A j \in Files : \A k \in 0..(m[j] - 1) : k \in 0..(n[j] - 1)
  <2> SUFFICES ASSUME NEW j \in Files, NEW k \in 0..(m[j] - 1) PROVE k \in 0..(n[j] - 1)
    OBVIOUS
  <2>1. m[j] \in Nat /\ n[j] \in Nat /\ m[j] <= n[j]
    BY <1>1
  <2> QED BY <2>1
<1>3. Filled(M, m)
  BY <1>1, <1>2 DEF Filled
<1> QED BY <1>3 DEF Agree

-----------------------------------------------------------------------------
(* What an assignment to an inode or to a block does to the map.            *)

Cell(c, D, k) == IF c.indirect = 0 THEN 0 ELSE D[c.indirect][k]

(* N holds what the inodes C and the blocks D hold, place by place.         *)
Mapped(N, C, D) ==
    \A i \in Files :
        /\ \A k \in 0..(SFS_NDIRECT - 1) : N[<<i, <<"direct", k>>>>] = C[i].direct[k]
        /\ N[<<i, <<"indirect", 0>>>>] = C[i].indirect
        /\ \A k \in Cells : N[<<i, <<"entry", k>>>>] = Cell(C[i], D, k)

LEMMA MapAt == \A C, D : Mapped(MapOf(C, D), C, D)
<1> SUFFICES ASSUME NEW C, NEW D, NEW i \in Files
             PROVE  /\ \A k \in 0..(SFS_NDIRECT - 1) :
                          MapOf(C, D)[<<i, <<"direct", k>>>>] = C[i].direct[k]
                    /\ MapOf(C, D)[<<i, <<"indirect", 0>>>>] = C[i].indirect
                    /\ \A k \in Cells : MapOf(C, D)[<<i, <<"entry", k>>>>] = Cell(C[i], D, k)
  BY DEF Mapped
<1>1. \A r \in Slots : MapOf(C, D)[<<i, r>>] = At(C[i], D, r)
  <2> SUFFICES ASSUME NEW r \in Slots PROVE MapOf(C, D)[<<i, r>>] = At(C[i], D, r)
    OBVIOUS
  <2>1. <<i, r>> \in Places
    BY DEF Places
  <2> QED BY <2>1 DEF MapOf
<1>2. \A k \in 0..(SFS_NDIRECT - 1) : At(C[i], D, <<"direct", k>>) = C[i].direct[k]
  BY DEF At
<1>3. At(C[i], D, <<"indirect", 0>>) = C[i].indirect
  BY DEF At
<1>4. \A k \in Cells : At(C[i], D, <<"entry", k>>) = Cell(C[i], D, k)
  BY DEF At, Cell
<1> QED BY <1>1, <1>2, <1>3, <1>4, SlotFacts

LEMMA MapIs ==
    ASSUME NEW N, NEW C, NEW D, N = [x \in Places |-> N[x]], Mapped(N, C, D)
    PROVE  N = MapOf(C, D)
<1>1. ASSUME NEW i \in Files, NEW r \in Slots PROVE N[<<i, r>>] = At(C[i], D, r)
  <2>1. CASE r \in {"direct"} \X (0..(SFS_NDIRECT - 1))
    <3>1. PICK k \in 0..(SFS_NDIRECT - 1) : r = <<"direct", k>>
      BY <2>1
    <3> QED BY <3>1 DEF Mapped, At
  <2>2. CASE r = <<"indirect", 0>>
    BY <2>2 DEF Mapped, At
  <2>3. CASE r \in {"entry"} \X Cells
    <3>1. PICK k \in Cells : r = <<"entry", k>>
      BY <2>3
    <3> QED BY <3>1 DEF Mapped, At, Cell
  <2> QED BY <2>1, <2>2, <2>3 DEF Slots
<1>2. \A x \in Places : N[x] = At(C[x[1]], D, x[2])
  <2> SUFFICES ASSUME NEW x \in Places PROVE N[x] = At(C[x[1]], D, x[2])
    OBVIOUS
  <2>1. x[1] \in Files /\ x[2] \in Slots /\ x = <<x[1], x[2]>>
    BY DEF Places
  <2> QED BY <2>1, <1>1
<1> QED BY <1>2 DEF MapOf

(* The blocks that hold entries.                                            *)
Indirects(C) == {C[i].indirect : i \in Files} \ {0}

SameBlocks(c, d) == c.direct = d.direct /\ c.indirect = d.indirect

(* Sizes and counts of blocks, and blocks that hold bytes, are not in the map. *)
LEMMA MapSame ==
    ASSUME NEW B, NEW C, NEW D, NEW E,
           \A i \in Files : SameBlocks(B[i], C[i]),
           \A b \in Indirects(C) : E[b] = D[b]
    PROVE  MapOf(B, E) = MapOf(C, D)
<1>1. ASSUME NEW i \in Files PROVE C[i].indirect # 0 => E[C[i].indirect] = D[C[i].indirect]
  BY DEF Indirects
<1>2. Mapped(MapOf(C, D), C, D)
  BY MapAt
<1>3. Mapped(MapOf(C, D), B, E)
  <2> SUFFICES ASSUME NEW i \in Files
               PROVE  /\ \A k \in 0..(SFS_NDIRECT - 1) :
                            MapOf(C, D)[<<i, <<"direct", k>>>>] = B[i].direct[k]
                      /\ MapOf(C, D)[<<i, <<"indirect", 0>>>>] = B[i].indirect
                      /\ \A k \in Cells : MapOf(C, D)[<<i, <<"entry", k>>>>] = Cell(B[i], E, k)
    BY DEF Mapped
  <2>1. B[i].direct = C[i].direct /\ B[i].indirect = C[i].indirect
    BY DEF SameBlocks
  <2> QED BY <2>1, <1>1, <1>2 DEF Mapped, Cell
<1>4. MapOf(C, D) = [x \in Places |-> MapOf(C, D)[x]]
  BY DEF MapOf
<1> QED BY <1>3, <1>4, MapIs

(* din->direct[index] = ino, and the clearing of block ino.                 *)
DirectSet(B, C, D, E, i, k, b) ==
    /\ i \in Files /\ k \in 0..(SFS_NDIRECT - 1)
    /\ \A j \in Files : j # i => SameBlocks(B[j], C[j])
    /\ B[i].direct = [C[i].direct EXCEPT ![k] = b]
    /\ DOMAIN C[i].direct = 0..(SFS_NDIRECT - 1)
    /\ B[i].indirect = C[i].indirect
    /\ \A c \in Indirects(C) : E[c] = D[c]

LEMMA MapDirect ==
    ASSUME NEW B, NEW C, NEW D, NEW E, NEW i, NEW k, NEW b, DirectSet(B, C, D, E, i, k, b)
    PROVE  MapOf(B, E) = Put(MapOf(C, D), <<i, <<"direct", k>>>>, b)
<1> USE DEF DirectSet
<1> DEFINE M == MapOf(C, D)
           N == [M EXCEPT ![<<i, <<"direct", k>>>>] = b]
<1>1. M = [x \in Places |-> M[x]] /\ Mapped(M, C, D)
  BY MapAt DEF MapOf
<1>2. <<i, <<"direct", k>>>> \in Places
  BY SlotFacts DEF Places
<1> HIDE DEF M
<1>3. /\ N = [x \in Places |-> N[x]]
      /\ \A x \in Places : N[x] = IF x = <<i, <<"direct", k>>>> THEN b ELSE M[x]
  BY <1>1, <1>2
<1> HIDE DEF N
<1>4. ASSUME NEW j \in Files
      PROVE  /\ \A m \in 0..(SFS_NDIRECT - 1) : N[<<j, <<"direct", m>>>>] = B[j].direct[m]
             /\ N[<<j, <<"indirect", 0>>>>] = B[j].indirect
             /\ \A m \in Cells : N[<<j, <<"entry", m>>>>] = Cell(B[j], E, m)
  <2>1. \A r \in Slots : <<j, r>> \in Places
    BY DEF Places
  <2>2. C[j].indirect # 0 => E[C[j].indirect] = D[C[j].indirect]
    BY DEF Indirects
  <2>3. B[j].indirect = C[j].indirect
    BY DEF SameBlocks
  <2>4. \A m \in 0..(SFS_NDIRECT - 1) :
            B[j].direct[m] = IF j = i /\ m = k THEN b ELSE C[j].direct[m]
    <3>1. CASE j = i
      <4> DEFINE f == C[i].direct
      <4>1. DOMAIN f = 0..(SFS_NDIRECT - 1) /\ B[i].direct = [f EXCEPT ![k] = b]
        OBVIOUS
      <4> HIDE DEF f
      <4>2. \A m \in 0..(SFS_NDIRECT - 1) : B[i].direct[m] = IF m = k THEN b ELSE f[m]
        BY <4>1
      <4> QED BY <3>1, <4>2 DEF f
    <3>2. CASE j # i
      BY <3>2 DEF SameBlocks
    <3> QED BY <3>1, <3>2
  <2>5. \A m \in 0..(SFS_NDIRECT - 1) :
            N[<<j, <<"direct", m>>>>] = IF j = i /\ m = k THEN b ELSE M[<<j, <<"direct", m>>>>]
    BY <2>1, <1>3, SlotFacts
  <2>6. N[<<j, <<"indirect", 0>>>>] = M[<<j, <<"indirect", 0>>>>]
    BY <2>1, <1>3, SlotFacts
  <2>7. \A m \in Cells : N[<<j, <<"entry", m>>>>] = M[<<j, <<"entry", m>>>>]
    BY <2>1, <1>3, SlotFacts
  <2>8. \A m \in Cells : Cell(B[j], E, m) = Cell(C[j], D, m)
    BY <2>2, <2>3 DEF Cell
  <2>9. /\ \A m \in 0..(SFS_NDIRECT - 1) : M[<<j, <<"direct", m>>>>] = C[j].direct[m]
        /\ M[<<j, <<"indirect", 0>>>>] = C[j].indirect
        /\ \A m \in Cells : M[<<j, <<"entry", m>>>>] = Cell(C[j], D, m)
    BY <1>1 DEF Mapped
  <2>10. \A m \in 0..(SFS_NDIRECT - 1) : N[<<j, <<"direct", m>>>>] = B[j].direct[m]
    BY <2>4, <2>5, <2>9
  <2>11. N[<<j, <<"indirect", 0>>>>] = B[j].indirect
    BY <2>3, <2>6, <2>9
  <2>12. \A m \in Cells : N[<<j, <<"entry", m>>>>] = Cell(B[j], E, m)
    BY <2>7, <2>8, <2>9
  <2> QED BY <2>10, <2>11, <2>12
<1>5. Mapped(N, B, E)
  BY <1>4 DEF Mapped
<1> QED BY <1>3, <1>5, MapIs DEF N, M, Put

(* The entry of an index in the indirect block, which no other file has.    *)
EntrySet(B, C, D, E, i, k, b) ==
    /\ i \in Files /\ k \in Cells
    /\ \A j \in Files : SameBlocks(B[j], C[j])
    /\ C[i].indirect # 0
    /\ \A j \in Files : C[j].indirect = C[i].indirect => j = i
    /\ \A m \in Cells : E[C[i].indirect][m] = IF m = k THEN b ELSE D[C[i].indirect][m]
    /\ \A c \in Indirects(C) : c # C[i].indirect => E[c] = D[c]

LEMMA MapEntry ==
    ASSUME NEW B, NEW C, NEW D, NEW E, NEW i, NEW k, NEW b, EntrySet(B, C, D, E, i, k, b)
    PROVE  MapOf(B, E) = Put(MapOf(C, D), <<i, <<"entry", k>>>>, b)
<1> USE DEF EntrySet
<1> DEFINE M == MapOf(C, D)
           N == [M EXCEPT ![<<i, <<"entry", k>>>>] = b]
<1>1. M = [x \in Places |-> M[x]] /\ Mapped(M, C, D)
  BY MapAt DEF MapOf
<1>2. <<i, <<"entry", k>>>> \in Places
  BY SlotFacts DEF Places
<1> HIDE DEF M
<1>3. /\ N = [x \in Places |-> N[x]]
      /\ \A x \in Places : N[x] = IF x = <<i, <<"entry", k>>>> THEN b ELSE M[x]
  BY <1>1, <1>2
<1> HIDE DEF N
<1>4. ASSUME NEW j \in Files
      PROVE  /\ \A m \in 0..(SFS_NDIRECT - 1) : N[<<j, <<"direct", m>>>>] = B[j].direct[m]
             /\ N[<<j, <<"indirect", 0>>>>] = B[j].indirect
             /\ \A m \in Cells : N[<<j, <<"entry", m>>>>] = Cell(B[j], E, m)
  <2>1. \A r \in Slots : <<j, r>> \in Places
    BY DEF Places
  <2>2. B[j].indirect = C[j].indirect /\ B[j].direct = C[j].direct
    BY DEF SameBlocks
  <2>3. C[j].indirect # 0 /\ j # i => E[C[j].indirect] = D[C[j].indirect]
    BY DEF Indirects
  <2>4. \A m \in Cells : Cell(B[j], E, m) = IF j = i /\ m = k THEN b ELSE Cell(C[j], D, m)
    BY <2>2, <2>3 DEF Cell
  <2>5. \A m \in Cells :
            N[<<j, <<"entry", m>>>>] = IF j = i /\ m = k THEN b ELSE M[<<j, <<"entry", m>>>>]
    BY <2>1, <1>3, SlotFacts
  <2>6. N[<<j, <<"indirect", 0>>>>] = M[<<j, <<"indirect", 0>>>>]
    BY <2>1, <1>3, SlotFacts
  <2>7. \A m \in 0..(SFS_NDIRECT - 1) : N[<<j, <<"direct", m>>>>] = M[<<j, <<"direct", m>>>>]
    BY <2>1, <1>3, SlotFacts
  <2> QED BY <2>2, <2>4, <2>5, <2>6, <2>7, <1>1 DEF Mapped
<1>5. Mapped(N, B, E)
  BY <1>4 DEF Mapped
<1> QED BY <1>3, <1>5, MapIs DEF N, M, Put

(* A cleared block a becomes the indirect block, with one entry: block b.   *)
IndirectSet(B, C, D, E, i, k, a, b) ==
    /\ i \in Files /\ k \in Cells
    /\ \A j \in Files : j # i => SameBlocks(B[j], C[j])
    /\ C[i].indirect = 0
    /\ B[i].direct = C[i].direct /\ B[i].indirect = a /\ a # 0
    /\ \A m \in Cells : E[a][m] = IF m = k THEN b ELSE 0
    /\ \A c \in Indirects(C) : E[c] = D[c]

LEMMA MapIndirect ==
    ASSUME NEW B, NEW C, NEW D, NEW E, NEW i, NEW k, NEW a, NEW b,
           IndirectSet(B, C, D, E, i, k, a, b)
    PROVE  MapOf(B, E) = Put(Put(MapOf(C, D), <<i, <<"indirect", 0>>>>, a),
                             <<i, <<"entry", k>>>>, b)
<1> USE DEF IndirectSet
<1> DEFINE M == MapOf(C, D)
           x == <<i, <<"indirect", 0>>>>
           y == <<i, <<"entry", k>>>>
           L == [M EXCEPT ![x] = a]
           N == [L EXCEPT ![y] = b]
<1>1. M = [z \in Places |-> M[z]] /\ Mapped(M, C, D)
  BY MapAt DEF MapOf
<1>2. x \in Places /\ y \in Places
  BY SlotFacts DEF Places
<1> HIDE DEF M
<1>3. /\ L = [z \in Places |-> L[z]]
      /\ \A z \in Places : L[z] = IF z = x THEN a ELSE M[z]
  BY <1>1, <1>2
<1> HIDE DEF L
<1>4. /\ N = [z \in Places |-> N[z]]
      /\ \A z \in Places : N[z] = IF z = y THEN b ELSE L[z]
  BY <1>2, <1>3
<1> HIDE DEF N
<1>5. ASSUME NEW j \in Files
      PROVE  /\ \A m \in 0..(SFS_NDIRECT - 1) : N[<<j, <<"direct", m>>>>] = B[j].direct[m]
             /\ N[<<j, <<"indirect", 0>>>>] = B[j].indirect
             /\ \A m \in Cells : N[<<j, <<"entry", m>>>>] = Cell(B[j], E, m)
  <2>1. \A r \in Slots : <<j, r>> \in Places
    BY DEF Places
  <2>2. B[j].direct = C[j].direct /\ B[j].indirect = IF j = i THEN a ELSE C[j].indirect
    BY DEF SameBlocks
  <2>3. C[j].indirect # 0 => E[C[j].indirect] = D[C[j].indirect]
    BY DEF Indirects
  <2>4. \A m \in Cells : Cell(B[j], E, m) = IF j = i /\ m = k THEN b ELSE Cell(C[j], D, m)
    BY <2>2, <2>3 DEF Cell
  <2>5. \A m \in Cells :
            N[<<j, <<"entry", m>>>>] = IF j = i /\ m = k THEN b ELSE M[<<j, <<"entry", m>>>>]
    BY <2>1, <1>3, <1>4, SlotFacts
  <2>6. N[<<j, <<"indirect", 0>>>>] = IF j = i THEN a ELSE M[<<j, <<"indirect", 0>>>>]
    BY <2>1, <1>3, <1>4, SlotFacts
  <2>7. \A m \in 0..(SFS_NDIRECT - 1) : N[<<j, <<"direct", m>>>>] = M[<<j, <<"direct", m>>>>]
    BY <2>1, <1>3, <1>4, SlotFacts
  <2> QED BY <2>2, <2>4, <2>5, <2>6, <2>7, <1>1 DEF Mapped
<1>6. Mapped(N, B, E)
  BY <1>5 DEF Mapped
<1> QED BY <1>4, <1>6, MapIs DEF N, L, M, Put

-----------------------------------------------------------------------------
(* The state: which block an index has, and what a change of one inode in   *)
(* memory is to all of them.                                                *)

(* bitmap_alloc: the lowest block is one of them.                           *)
LEMMA MinIn == ASSUME NEW F, F \subseteq BlockNos, F # {} PROVE Min(F) \in F
<1>1. F \subseteq Nat
  BY SfsAssumption DEF BlockNos
<1>2. PICK m \in F : \A k \in F : m <= k
  BY <1>1, LeastNat
<1> QED BY <1>2 DEF Min

LEMMA FirstIn ==
    ASSUME freemap \subseteq BlockNos, freemap # {}
    PROVE  /\ First \in freemap /\ First \in BlockNos /\ First \in 0..NBlocks /\ First # 0
           /\ Cardinality({First}) = 1
<1>1. First \in freemap
  BY MinIn DEF First
<1>2. First \in BlockNos /\ First \in 1..NBlocks /\ NBlocks \in Nat
  BY <1>1, SfsAssumption DEF BlockNos
<1>3. First \in 0..NBlocks /\ First # 0
  BY <1>2
<1> QED BY <1>1, <1>2, <1>3, FS_Singleton

LEMMA SecondIn ==
    ASSUME freemap \subseteq BlockNos, Cardinality(freemap) >= 2
    PROVE  /\ freemap # {} /\ Second \in freemap \ {First}
           /\ Second \in BlockNos /\ Second \in 0..NBlocks /\ Second # 0
           /\ Cardinality({First, Second}) = 2
<1>1. freemap # {}
  BY FS_EmptySet
<1>2. First \in freemap /\ Cardinality({First}) = 1
  BY <1>1, FirstIn
<1>3. IsFiniteSet(freemap)
  BY FreeFinite
<1>4. Cardinality(freemap \ {First}) = Cardinality(freemap) - 1 /\ Cardinality(freemap) \in Nat
  BY <1>2, <1>3, FS_RemoveElement, FS_CardinalityType
<1>5. freemap \ {First} # {}
  BY <1>4, FS_EmptySet
<1>6. Second \in freemap \ {First}
  <2>1. freemap \ {First} \subseteq BlockNos
    OBVIOUS
  <2> QED BY <2>1, <1>5, MinIn DEF Second
<1>7. Second \in BlockNos /\ Second \in 1..NBlocks /\ NBlocks \in Nat
  BY <1>6, SfsAssumption DEF BlockNos
<1>8. Second \in 0..NBlocks /\ Second # 0
  BY <1>7
<1>9. Cardinality({First, Second}) = 2
  <2>1. IsFiniteSet({First}) /\ Second \notin {First}
    BY <1>6, FS_Singleton
  <2>2. Cardinality({First} \cup {Second}) = 2
    BY <1>2, <2>1, FS_AddElement
  <2>3. {First} \cup {Second} = {First, Second}
    OBVIOUS
  <2> QED BY <2>2, <2>3
<1> QED BY <1>1, <1>6, <1>7, <1>8, <1>9

LEMMA AgreeTypes ==
    ASSUME NEW M, NEW F, NEW n, NEW u, Agree(M, F, n, u)
    PROVE  F \subseteq BlockNos /\ u \in 0..NBlocks
<1>1. F \subseteq BlockNos /\ u = Cardinality(F)
  BY DEF Agree, Owned
<1> QED BY <1>1, FreeFinite

(* The fields of an inode after an assignment to one of them.               *)
LEMMA InodeChanges ==
    ASSUME NEW d \in Inode
    PROVE  /\ \A n \in 0..MaxIndex :
                /\ [d EXCEPT !.blocks = n] \in Inode
                /\ [d EXCEPT !.blocks = n].blocks = n
                /\ SameBlocks([d EXCEPT !.blocks = n], d)
           /\ \A n \in 0..SFS_MAX_FILE_SIZE :
                /\ [d EXCEPT !.size = n] \in Inode
                /\ [d EXCEPT !.size = n].blocks = d.blocks
                /\ SameBlocks([d EXCEPT !.size = n], d)
           /\ \A b \in 0..NBlocks :
                /\ [d EXCEPT !.indirect = b] \in Inode
                /\ [d EXCEPT !.indirect = b].blocks = d.blocks
                /\ [d EXCEPT !.indirect = b].direct = d.direct
                /\ [d EXCEPT !.indirect = b].indirect = b
           /\ \A b \in 0..NBlocks : \A k \in 0..(SFS_NDIRECT - 1) :
                /\ [d EXCEPT !.direct[k] = b] \in Inode
                /\ [d EXCEPT !.direct[k] = b].blocks = d.blocks
                /\ [d EXCEPT !.direct[k] = b].direct = [d.direct EXCEPT ![k] = b]
                /\ [d EXCEPT !.direct[k] = b].indirect = d.indirect
           /\ DOMAIN d.direct = 0..(SFS_NDIRECT - 1)
<1>1. \A n \in 0..MaxIndex :
         /\ [d EXCEPT !.blocks = n] \in Inode
         /\ [d EXCEPT !.blocks = n].blocks = n
         /\ SameBlocks([d EXCEPT !.blocks = n], d)
  BY DEF Inode, SameBlocks
<1>2. \A n \in 0..SFS_MAX_FILE_SIZE :
         /\ [d EXCEPT !.size = n] \in Inode
         /\ [d EXCEPT !.size = n].blocks = d.blocks
         /\ SameBlocks([d EXCEPT !.size = n], d)
  BY DEF Inode, SameBlocks
<1>3. \A b \in 0..NBlocks :
         /\ [d EXCEPT !.indirect = b] \in Inode
         /\ [d EXCEPT !.indirect = b].blocks = d.blocks
         /\ [d EXCEPT !.indirect = b].direct = d.direct
         /\ [d EXCEPT !.indirect = b].indirect = b
  BY DEF Inode
<1>4. \A b \in 0..NBlocks : \A k \in 0..(SFS_NDIRECT - 1) :
         /\ [d EXCEPT !.direct[k] = b] \in Inode
         /\ [d EXCEPT !.direct[k] = b].blocks = d.blocks
         /\ [d EXCEPT !.direct[k] = b].direct = [d.direct EXCEPT ![k] = b]
         /\ [d EXCEPT !.direct[k] = b].indirect = d.indirect
  BY DEF Inode
<1>5. DOMAIN d.direct = 0..(SFS_NDIRECT - 1)
  BY DEF Inode
<1> QED BY <1>1, <1>2, <1>3, <1>4, <1>5

LEMMA CurrentTypes ==
    ASSUME SfsTypeOK
    PROVE  /\ Currents \in [Files -> Inode]
           /\ Counts \in [Files -> 0..MaxIndex]
           /\ \A i \in Files : Currents[i] = Current(i) /\ Counts[i] = Current(i).blocks
           /\ \A i \in loaded : i \in Files /\ Current(i) = din[i]
<1>1. \A i \in Files : Current(i) \in Inode
  BY DEF SfsTypeOK, Current
<1>2. \A i \in Files : Current(i).blocks \in 0..MaxIndex
  BY <1>1 DEF Inode
<1> QED BY <1>1, <1>2 DEF Currents, Counts, Current, SfsTypeOK

(* sfs_bmap_get_nolock looks where the map has the block.                   *)
LEMMA BlockIs ==
    ASSUME SfsTypeOK, NEW i \in Files, NEW k \in 0..(MaxIndex - 1)
    PROVE  Block(Current(i), k) = Map[<<i, SlotOf(k)>>]
<1>1. Mapped(Map, Currents, disk) /\ Currents[i] = Current(i)
  BY MapAt, CurrentTypes DEF Map
<1>2. CASE k < SFS_NDIRECT
  <2>1. k \in 0..(SFS_NDIRECT - 1)
    BY <1>2, SlotFacts, SfsAssumption
  <2>2. Map[<<i, <<"direct", k>>>>] = Current(i).direct[k]
    BY <1>1, <2>1 DEF Mapped
  <2> QED BY <1>2, <2>2 DEF Block, SlotOf
<1>3. CASE ~(k < SFS_NDIRECT)
  <2>1. k - SFS_NDIRECT \in Cells
    BY <1>3, SfsAssumption DEF Cells, MaxIndex
  <2>2. Map[<<i, <<"entry", k - SFS_NDIRECT>>>>] = Cell(Current(i), disk, k - SFS_NDIRECT)
    BY <1>1, <2>1 DEF Mapped
  <2> QED BY <1>3, <2>2 DEF Block, SlotOf, Cell
<1> QED BY <1>2, <1>3

(* A block an index has is in use.                                          *)
LEMMA BlockUsed ==
    ASSUME SfsTypeOK, BlockPart, NEW i \in Files, NEW k \in 0..(MaxIndex - 1)
    PROVE  /\ Block(Current(i), k) \in 0..NBlocks /\ Block(Current(i), k) \notin freemap
           /\ k < Current(i).blocks => Block(Current(i), k) # 0
<1>1. <<i, SlotOf(k)>> \in Places
  BY SlotFacts DEF Places
<1>2. Current(i).blocks \in 0..MaxIndex /\ Counts[i] = Current(i).blocks /\ MaxIndex \in Nat
  BY CurrentTypes, SlotFacts
<1>3. k < Current(i).blocks => k \in 0..(Counts[i] - 1)
  BY <1>2
<1> QED BY <1>1, <1>3, BlockIs DEF BlockPart, Agree, Owned, Filled

(* Two files never have one indirect block, and no index has one.           *)
LEMMA IndirectAlone ==
    ASSUME SfsTypeOK, BlockPart
    PROVE  /\ Indirects(Currents) \subseteq BlockNos \ freemap
           /\ \A i, j \in Files :
                 Currents[i].indirect = Currents[j].indirect /\ Currents[i].indirect # 0 => i = j
           /\ \A i \in Files : \A k \in 0..(MaxIndex - 1) :
                 Block(Current(i), k) \notin Indirects(Currents)
<1>1. \A i \in Files : /\ <<i, <<"indirect", 0>>>> \in Places
                       /\ Map[<<i, <<"indirect", 0>>>>] = Currents[i].indirect
  BY SlotFacts, MapAt DEF Places, Map, Mapped
<1>2. /\ Map \in [Places -> 0..NBlocks]
      /\ \A x \in Places : Map[x] \notin freemap
      /\ \A x, y \in Places : Map[x] = Map[y] /\ Map[x] # 0 => x = y
  BY DEF BlockPart, Agree, Owned
<1>3. Indirects(Currents) \subseteq BlockNos \ freemap
  <2> SUFFICES ASSUME NEW i \in Files, Currents[i].indirect # 0
               PROVE  Currents[i].indirect \in BlockNos \ freemap
    BY DEF Indirects
  <2>1. Currents[i].indirect \in 0..NBlocks /\ Currents[i].indirect \notin freemap
    BY <1>1, <1>2
  <2> QED BY <2>1, SfsAssumption DEF BlockNos
<1>4. ASSUME NEW i \in Files, NEW j \in Files,
             Currents[i].indirect = Currents[j].indirect, Currents[i].indirect # 0
      PROVE  i = j
  <2>1. <<i, <<"indirect", 0>>>> = <<j, <<"indirect", 0>>>>
    BY <1>1, <1>2, <1>4
  <2> QED BY <2>1
<1>5. ASSUME NEW i \in Files, NEW k \in 0..(MaxIndex - 1),
             Block(Current(i), k) \in Indirects(Currents)
      PROVE  FALSE
  <2>1. PICK j \in Files : Block(Current(i), k) = Currents[j].indirect /\ Currents[j].indirect # 0
    BY <1>5 DEF Indirects
  <2>2. <<i, SlotOf(k)>> \in Places /\ Map[<<i, SlotOf(k)>>] = Block(Current(i), k)
    BY SlotFacts, BlockIs DEF Places
  <2>3. <<i, SlotOf(k)>> = <<j, <<"indirect", 0>>>>
    BY <2>1, <2>2, <1>1, <1>2
  <2>4. SlotOf(k) = <<"indirect", 0>>
    BY <2>3
  <2> QED BY <2>4 DEF SlotOf
<1> QED BY <1>3, <1>4, <1>5

(* What a cell of the block at an index of a file holds; where there is no  *)
(* block, 0 is read.                                                        *)
Held(M, D, i, k, c) ==
    IF M[<<i, SlotOf(k)>>] = 0 THEN 0 ELSE D[M[<<i, SlotOf(k)>>]][c]

Holds(i, k, c) == Held(Map, disk, i, k, c)

BytesKept ==
    \A i \in Files : \A k \in 0..(MaxIndex - 1) : \A c \in Cells :
        Holds(i, k, c)' = Holds(i, k, c)

BytesCut(j, m) ==
    \A i \in Files : \A k \in 0..(MaxIndex - 1) : \A c \in Cells :
        Holds(i, k, c)' = IF i = j /\ k = m THEN 0 ELSE Holds(i, k, c)

LEMMA DataBlock ==
    ASSUME SfsTypeOK, BlockPart, NEW i \in Files, NEW k \in 0..(MaxIndex - 1),
           Map[<<i, SlotOf(k)>>] # 0
    PROVE  /\ Map[<<i, SlotOf(k)>>] \in BlockNos \ freemap
           /\ Map[<<i, SlotOf(k)>>] \notin Indirects(Currents)
<1>1. Map[<<i, SlotOf(k)>>] = Block(Current(i), k)
  BY BlockIs
<1>2. Block(Current(i), k) \in 0..NBlocks /\ Block(Current(i), k) \notin freemap
  BY BlockUsed
<1>3. Block(Current(i), k) \notin Indirects(Currents)
  BY IndirectAlone
<1>4. Block(Current(i), k) \in BlockNos
  BY <1>1, <1>2, SfsAssumption DEF BlockNos
<1> QED BY <1>1, <1>2, <1>3, <1>4

(* The blocks that are in use and hold no entries stay as they are.          *)
DataKept == \A c \in BlockNos \ freemap : c \notin Indirects(Currents) => disk'[c] = disk[c]

(* Place x is empty and gets the cleared block b.                           *)
Fills(x, b) ==
    /\ Map[x] = 0 /\ disk'[b] = Zeroes
    /\ \A y \in Places : y[2] # <<"indirect", 0>> => Map'[y] = IF y = x THEN b ELSE Map[y]

(* A cleared block in an empty place changes no byte.                        *)
LEMMA BlockAdded ==
    ASSUME SfsTypeOK, BlockPart, DataKept, NEW x, NEW b, Fills(x, b)
    PROVE  BytesKept
<1> SUFFICES ASSUME NEW i \in Files, NEW k \in 0..(MaxIndex - 1), NEW c \in Cells
             PROVE  Holds(i, k, c)' = Holds(i, k, c)
  BY DEF BytesKept
<1> DEFINE y == <<i, SlotOf(k)>>
<1>1. y \in Places /\ y[2] # <<"indirect", 0>>
  <2>1. SlotOf(k) # <<"indirect", 0>>
    BY DEF SlotOf
  <2> QED BY <2>1, SlotFacts DEF Places
<1>2. /\ Map'[y] = IF y = x THEN b ELSE Map[y]
      /\ Map[x] = 0 /\ disk'[b] = Zeroes
  BY <1>1 DEF Fills
<1>3. Map[y] # 0 => disk'[Map[y]] = disk[Map[y]]
  BY DataBlock DEF DataKept
<1>4. Zeroes[c] = 0
  BY DEF Zeroes
<1>5. /\ Holds(i, k, c) = IF Map[y] = 0 THEN 0 ELSE disk[Map[y]][c]
      /\ Holds(i, k, c)' = IF Map'[y] = 0 THEN 0 ELSE disk'[Map'[y]][c]
  BY DEF Holds, Held
<1> HIDE DEF y
<1> QED BY <1>2, <1>3, <1>4, <1>5

(* Where a block is taken away, 0 is read.                                  *)
LEMMA BlockGone ==
    ASSUME SfsTypeOK, BlockPart, DataKept, NEW j \in Files, NEW m \in 0..(MaxIndex - 1),
           Map' = Put(Map, <<j, SlotOf(m)>>, 0)
    PROVE  BytesCut(j, m)
<1> SUFFICES ASSUME NEW i \in Files, NEW k \in 0..(MaxIndex - 1), NEW c \in Cells
             PROVE  Holds(i, k, c)' = IF i = j /\ k = m THEN 0 ELSE Holds(i, k, c)
  BY DEF BytesCut
<1> DEFINE y == <<i, SlotOf(k)>>
           x == <<j, SlotOf(m)>>
<1>1. y \in Places /\ x \in Places /\ (y = x <=> i = j /\ k = m)
  <2>1. SlotOf(k) = SlotOf(m) => k = m
    BY SlotFacts
  <2> QED BY <2>1, SlotFacts DEF Places
<1>2. Map = [z \in Places |-> Map[z]]
  BY DEF Map, MapOf
<1>3. Map'[y] = IF y = x THEN 0 ELSE Map[y]
  BY <1>1, <1>2 DEF Put
<1>4. Map[y] # 0 => disk'[Map[y]] = disk[Map[y]]
  BY DataBlock DEF DataKept
<1>5. /\ Holds(i, k, c) = IF Map[y] = 0 THEN 0 ELSE disk[Map[y]][c]
      /\ Holds(i, k, c)' = IF Map'[y] = 0 THEN 0 ELSE disk'[Map'[y]][c]
  BY DEF Holds, Held
<1> HIDE DEF y, x
<1> QED BY <1>1, <1>3, <1>4, <1>5

(* An assignment to one inode in memory.                                    *)
Assigned(i, d) ==
    /\ i \in loaded /\ d \in Inode
    /\ din' = [din EXCEPT ![i] = d]
    /\ dinode' = dinode /\ loaded' = loaded

LEMMA OneInode ==
    ASSUME SfsTypeOK, NEW i, NEW d, Assigned(i, d)
    PROVE  /\ din' \in [Files -> Inode]
           /\ i \in Files /\ Currents[i] = din[i] /\ Counts[i] = din[i].blocks
           /\ Currents'[i] = d
           /\ \A j \in Files : j # i => Currents'[j] = Currents[j]
           /\ Counts' = [Counts EXCEPT ![i] = d.blocks]
<1> USE DEF Assigned
<1>1. i \in Files /\ din \in [Files -> Inode]
  BY DEF SfsTypeOK
<1>2. din' \in [Files -> Inode] /\ din'[i] = d /\ \A j \in Files : j # i => din'[j] = din[j]
  BY <1>1
<1>3. \A j \in Files : Current(j)' = IF j = i THEN d ELSE Current(j)
  BY <1>2 DEF Current
<1>4. Current(i) = din[i]
  BY DEF Current
<1>5. Counts' = [Counts EXCEPT ![i] = d.blocks]
  BY <1>1, <1>3 DEF Counts
<1> QED BY <1>1, <1>2, <1>3, <1>4, <1>5 DEF Currents, Counts

(* An inode that is not dirty after it has the block numbers it was saved   *)
(* with.                                                                    *)
LEMMA SavedChange ==
    ASSUME SfsTypeOK, SavedPart, NEW i, NEW d, Assigned(i, d),
           \A j \in Files : j # i => dirty'[j] = dirty[j],
           ~dirty'[i] => ~dirty[i] /\ SameBlocks(d, din[i]) /\ din[i].blocks <= d.blocks
    PROVE  SavedPart'
<1> USE DEF Assigned
<1>1. i \in Files /\ loaded \subseteq Files /\ din \in [Files -> Inode] /\ dinode \in [Files -> Inode]
  BY DEF SfsTypeOK
<1>2. din'[i] = d /\ \A j \in Files : j # i => din'[j] = din[j]
  BY <1>1
<1>3. \A j \in Files : /\ din[j].blocks \in Nat /\ dinode[j].blocks \in Nat
  BY <1>1, SlotFacts DEF Inode
<1>4. d.blocks \in Nat
  BY SlotFacts DEF Inode
<1>5. ASSUME NEW j \in loaded, ~dirty'[j] PROVE Saved(dinode[j], din'[j])
  <2>1. CASE j = i
    BY <2>1, <1>1, <1>2, <1>3, <1>4, <1>5 DEF SavedPart, Saved, SameBlocks
  <2>2. CASE j # i
    BY <2>2, <1>1, <1>2, <1>5 DEF SavedPart
  <2> QED BY <2>1, <2>2
<1> QED BY <1>5 DEF SavedPart

-----------------------------------------------------------------------------
(* A file gets a block, or gives one back.                                  *)

LEMMA MaxIndexNat == MaxIndex \in Nat /\ \A k \in 0..(MaxIndex - 1) : k + 1 \in 0..MaxIndex /\ k \in Nat
  BY SlotFacts

LEMMA AddDirectStep ==
    ASSUME SfsTypeOK, StorePart, NEW i \in loaded, NEW k \in 0..(MaxIndex - 1),
           k = din[i].blocks, AddDirect(i, k), UNCHANGED <<dinode, loaded>>
    PROVE  StorePart' /\ BytesKept
<1> DEFINE b == First
           g == [din[i] EXCEPT !.blocks = k + 1]
           d == [g EXCEPT !.direct[k] = b]
           x == <<i, <<"direct", k>>>>
<1>1. /\ i \in Files /\ din[i] \in Inode /\ Current(i) = din[i]
      /\ k \in 0..(SFS_NDIRECT - 1) /\ SlotOf(k) = <<"direct", k>>
  BY CurrentTypes, SfsAssumption DEF AddDirect, SfsTypeOK, SlotOf
<1>2. /\ freemap \subseteq BlockNos /\ freemap # {} /\ Block(din[i], k) = 0
      /\ freemap' = freemap \ {b} /\ unused_blocks' = unused_blocks - 1
      /\ disk' = [disk EXCEPT ![b] = Zeroes]
      /\ dirty' = [dirty EXCEPT ![i] = TRUE]
  <2>1. Cardinality({b}) = 1
    BY FirstIn DEF AddDirect, SfsTypeOK
  <2> QED BY <2>1 DEF AddDirect, Taken, SfsTypeOK
<1>3. b \in freemap /\ b \in BlockNos /\ b \in 0..NBlocks /\ b # 0
  BY <1>2, FirstIn
<1>4. g \in Inode /\ g.blocks = k + 1 /\ SameBlocks(g, din[i])
  BY <1>1, InodeChanges, MaxIndexNat
<1>5. din' = [din EXCEPT ![i] = d]
  BY DEF AddDirect, Grown
<1> HIDE DEF g, b
<1>6. /\ d \in Inode /\ d.blocks = k + 1
      /\ d.direct = [din[i].direct EXCEPT ![k] = b] /\ d.indirect = din[i].indirect
      /\ DOMAIN din[i].direct = 0..(SFS_NDIRECT - 1)
  BY <1>1, <1>3, <1>4, InodeChanges DEF SameBlocks
<1> HIDE DEF d
<1>7. /\ din' \in [Files -> Inode]
      /\ Currents[i] = din[i] /\ Counts[i] = k
      /\ Currents'[i] = d
      /\ \A j \in Files : j # i => Currents'[j] = Currents[j]
      /\ Counts' = [Counts EXCEPT ![i] = k + 1]
  <2>1. Assigned(i, d)
    BY <1>5, <1>6 DEF Assigned
  <2> QED BY <1>6, <2>1, OneInode
<1>8. x \in Places /\ Map[x] = 0
  BY <1>1, <1>2, BlockIs, SlotFacts DEF Places
<1>9. Map' = [Map EXCEPT ![x] = b]
  <2>1. \A c \in Indirects(Currents) : disk'[c] = disk[c]
    BY <1>2, <1>3, IndirectAlone DEF StorePart
  <2>2. \A j \in Files : j # i => SameBlocks(Currents'[j], Currents[j])
    BY <1>7 DEF SameBlocks
  <2>3. MapOf(Currents', disk') = Put(MapOf(Currents, disk), x, b)
    <3>1. DirectSet(Currents', Currents, disk, disk', i, k, b)
      BY <1>1, <1>6, <1>7, <2>1, <2>2 DEF DirectSet
    <3> QED BY <3>1, MapDirect
  <2> QED BY <2>3 DEF Map, Put
<1>10. Agree(Map', freemap', Counts, unused_blocks')
  BY <1>2, <1>3, <1>8, <1>9, TakeBlock DEF StorePart, BlockPart
<1>11. Map'[x] # 0
  <2>1. Map = [y \in Places |-> Map[y]]
    BY DEF Map, MapOf
  <2> QED BY <1>3, <1>8, <1>9, <2>1
<1>12. BlockPart'
  <2>1. Counts[i] < MaxIndex
    BY <1>7, MaxIndexNat
  <2>2. Agree(Map', freemap', [Counts EXCEPT ![i] = Counts[i] + 1], unused_blocks')
    BY <1>1, <1>7, <1>10, <1>11, <2>1, LongerFile
  <2> QED BY <1>7, <2>2 DEF BlockPart
<1>13. SavedPart'
  <2>1. dirty'[i] /\ \A j \in Files : j # i => dirty'[j] = dirty[j]
    BY <1>1, <1>2 DEF StorePart
  <2>2. Assigned(i, d) /\ loaded \subseteq Files
    BY <1>5, <1>6 DEF Assigned, SfsTypeOK
  <2> QED BY <2>1, <2>2, SavedChange DEF StorePart
<1>14. disk' \in [BlockNos -> [Cells -> Nat]] /\ dirty' \in [Files -> BOOLEAN]
  <2>1. Zeroes \in [Cells -> Nat]
    BY DEF Zeroes
  <2> QED BY <1>2, <2>1 DEF StorePart
<1>15. BytesKept
  <2>1. \A y \in Places : Map'[y] = IF y = x THEN b ELSE Map[y]
    <3>1. Map = [y \in Places |-> Map[y]]
      BY DEF Map, MapOf
    <3> QED BY <1>8, <1>9, <3>1
  <2>2. DataKept /\ disk'[b] = Zeroes
    BY <1>2, <1>3 DEF StorePart, DataKept
  <2>3. Fills(x, b)
    BY <1>8, <2>1, <2>2 DEF Fills
  <2> QED BY <2>2, <2>3, BlockAdded DEF StorePart
<1> QED BY <1>7, <1>12, <1>13, <1>14, <1>15 DEF StorePart

LEMMA AddIndirectStep ==
    ASSUME SfsTypeOK, StorePart, NEW i \in loaded, NEW k \in 0..(MaxIndex - 1),
           k = din[i].blocks, AddIndirect(i, k), UNCHANGED <<dinode, loaded>>
    PROVE  StorePart' /\ BytesKept
<1> DEFINE a == First
           b == Second
           m == k - SFS_NDIRECT
           g == [din[i] EXCEPT !.blocks = k + 1]
           d == [g EXCEPT !.indirect = a]
           x == <<i, <<"indirect", 0>>>>
           y == <<i, <<"entry", m>>>>
<1>1. /\ i \in Files /\ din[i] \in Inode /\ Current(i) = din[i]
      /\ m \in Cells /\ SlotOf(k) = <<"entry", m>>
  <2>1. ~(k < SFS_NDIRECT) /\ k \in Nat /\ k - SFS_NDIRECT \in Cells
    BY SfsAssumption, MaxIndexNat DEF AddIndirect, Cells, MaxIndex
  <2> QED BY <2>1, CurrentTypes DEF SfsTypeOK, SlotOf
<1>2. /\ freemap \subseteq BlockNos /\ Cardinality(freemap) >= 2 /\ din[i].indirect = 0
      /\ dirty' = [dirty EXCEPT ![i] = TRUE]
      /\ disk' = [disk EXCEPT ![a] = [Zeroes EXCEPT ![m] = b], ![b] = Zeroes]
  BY DEF AddIndirect, SfsTypeOK
<1>3. a \in freemap /\ b \in freemap \ {a}
  BY <1>2, FirstIn, SecondIn
<1>4. /\ a \in BlockNos /\ a \in 0..NBlocks /\ a # 0
      /\ b \in BlockNos /\ b \in 0..NBlocks /\ b # 0 /\ a # b
  BY <1>2, <1>3, FirstIn, SecondIn
<1>5. freemap' = (freemap \ {a}) \ {b} /\ unused_blocks' = (unused_blocks - 1) - 1
  <2>1. Cardinality({a, b}) = 2
    BY <1>2, SecondIn
  <2>2. freemap' = freemap \ {a, b} /\ unused_blocks' = unused_blocks - 2
    BY <2>1 DEF AddIndirect, Taken
  <2>3. unused_blocks \in 0..NBlocks /\ NBlocks \in Nat
    BY SfsAssumption DEF SfsTypeOK
  <2> QED BY <2>2, <2>3
<1>6. g \in Inode /\ g.blocks = k + 1 /\ SameBlocks(g, din[i])
  BY <1>1, InodeChanges, MaxIndexNat
<1>7. din' = [din EXCEPT ![i] = d]
  BY DEF AddIndirect, Grown
<1> HIDE DEF g, a, b
<1>8. /\ d \in Inode /\ d.blocks = k + 1
      /\ d.direct = din[i].direct /\ d.indirect = a
  BY <1>1, <1>4, <1>6, InodeChanges DEF SameBlocks
<1> HIDE DEF d, m
<1>9. /\ din' \in [Files -> Inode]
      /\ Currents[i] = din[i] /\ Counts[i] = k
      /\ Currents'[i] = d
      /\ \A j \in Files : j # i => Currents'[j] = Currents[j]
      /\ Counts' = [Counts EXCEPT ![i] = k + 1]
  <2>1. Assigned(i, d)
    BY <1>7, <1>8 DEF Assigned
  <2> QED BY <1>8, <2>1, OneInode
<1>10. disk \in [BlockNos -> [Cells -> Nat]] /\ Agree(Map, freemap, Counts, unused_blocks)
  BY DEF StorePart, BlockPart
<1>11. /\ disk' \in [BlockNos -> [Cells -> Nat]]
       /\ \A c \in Cells : disk'[a][c] = IF c = m THEN b ELSE 0
       /\ disk'[b] = Zeroes
       /\ \A c \in BlockNos : c # a /\ c # b => disk'[c] = disk[c]
  <2> DEFINE z == [Zeroes EXCEPT ![m] = b]
  <2>1. /\ Zeroes \in [Cells -> Nat] /\ z \in [Cells -> Nat]
        /\ \A c \in Cells : z[c] = IF c = m THEN b ELSE 0
    BY <1>1, <1>4 DEF Zeroes
  <2> HIDE DEF z
  <2>2. disk' = [[disk EXCEPT ![a] = z] EXCEPT ![b] = Zeroes]
    BY <1>2 DEF z
  <2>3. disk'[a] = z
    BY <1>4, <1>10, <2>2
  <2>4. disk' \in [BlockNos -> [Cells -> Nat]]
    BY <1>10, <2>1, <2>2
  <2>5. \A c \in BlockNos : c # a /\ c # b => disk'[c] = disk[c]
    BY <1>10, <2>2
  <2>6. disk'[b] = Zeroes
    BY <1>4, <1>10, <2>2
  <2> QED BY <2>1, <2>3, <2>4, <2>5, <2>6
<1>12. x \in Places /\ y \in Places /\ x # y /\ Map[x] = 0 /\ Map[y] = 0
  <2>1. x \in Places /\ y \in Places /\ x # y
    BY <1>1, SlotFacts DEF Places
  <2>2. Mapped(Map, Currents, disk)
    BY MapAt DEF Map
  <2>3. Map[x] = Currents[i].indirect /\ Map[y] = Cell(Currents[i], disk, m)
    BY <1>1, <2>2 DEF Mapped
  <2> QED BY <1>2, <1>9, <2>1, <2>3 DEF Cell
<1>13. Map' = [[Map EXCEPT ![x] = a] EXCEPT ![y] = b]
  <2>1. \A c \in Indirects(Currents) : disk'[c] = disk[c]
    BY <1>3, <1>11, IndirectAlone DEF StorePart
  <2>2. \A j \in Files : j # i => SameBlocks(Currents'[j], Currents[j])
    BY <1>9 DEF SameBlocks
  <2>3. Currents[i].indirect = 0 /\ Currents'[i].direct = Currents[i].direct
        /\ Currents'[i].indirect = a
    BY <1>2, <1>8, <1>9
  <2>4. MapOf(Currents', disk') = Put(Put(MapOf(Currents, disk), x, a), y, b)
    <3>1. IndirectSet(Currents', Currents, disk, disk', i, m, a, b)
      BY <1>1, <1>4, <1>11, <2>1, <2>2, <2>3 DEF IndirectSet
    <3> QED BY <3>1, MapIndirect
  <2> QED BY <2>4 DEF Map, Put
<1>14. Map = [z \in Places |-> Map[z]]
  BY DEF Map, MapOf
<1>15. Agree(Map', freemap', Counts, unused_blocks') /\ Map'[y] # 0
  <2> DEFINE M == [Map EXCEPT ![x] = a]
  <2>1. Agree(M, freemap \ {a}, Counts, unused_blocks - 1)
    BY <1>3, <1>10, <1>12, TakeBlock
  <2>2. M = [z \in Places |-> M[z]] /\ M[y] = 0
    BY <1>12, <1>14
  <2> HIDE DEF M
  <2>3. Agree([M EXCEPT ![y] = b], (freemap \ {a}) \ {b}, Counts, (unused_blocks - 1) - 1)
    BY <1>3, <1>12, <2>1, <2>2, TakeBlock
  <2>4. Map' = [M EXCEPT ![y] = b]
    BY <1>13 DEF M
  <2> QED BY <1>4, <1>5, <1>12, <2>2, <2>3, <2>4
<1>16. BlockPart'
  <2>1. Counts[i] < MaxIndex
    BY <1>9, MaxIndexNat
  <2>2. Agree(Map', freemap', [Counts EXCEPT ![i] = Counts[i] + 1], unused_blocks')
    BY <1>1, <1>9, <1>15, <2>1, LongerFile
  <2> QED BY <1>9, <2>2 DEF BlockPart
<1>17. SavedPart'
  <2>1. dirty'[i] /\ \A j \in Files : j # i => dirty'[j] = dirty[j]
    BY <1>1, <1>2 DEF StorePart
  <2>2. Assigned(i, d)
    BY <1>7, <1>8 DEF Assigned
  <2> QED BY <2>1, <2>2, SavedChange DEF StorePart
<1>18. dirty' \in [Files -> BOOLEAN]
  BY <1>2 DEF StorePart
<1>19. BytesKept
  <2>1. \A z \in Places : z # x => Map'[z] = IF z = y THEN b ELSE Map[z]
    BY <1>12, <1>13, <1>14
  <2>2. \A z \in Places : z[2] # <<"indirect", 0>> => z # x
    OBVIOUS
  <2>3. DataKept
    BY <1>3, <1>11 DEF DataKept
  <2>4. \A z \in Places : z[2] # <<"indirect", 0>> => Map'[z] = IF z = y THEN b ELSE Map[z]
    BY <2>1, <2>2
  <2>5. Fills(y, b)
    BY <1>11, <1>12, <2>4 DEF Fills
  <2> QED BY <2>3, <2>5, BlockAdded DEF StorePart
<1> QED BY <1>9, <1>11, <1>16, <1>17, <1>18, <1>19 DEF StorePart

LEMMA AddEntryStep ==
    ASSUME SfsTypeOK, StorePart, NEW i \in loaded, NEW k \in 0..(MaxIndex - 1),
           k = din[i].blocks, AddEntry(i, k), UNCHANGED <<dinode, loaded>>
    PROVE  StorePart' /\ BytesKept /\ dirty' = dirty
<1> DEFINE b == First
           e == din[i].indirect
           m == k - SFS_NDIRECT
           d == [din[i] EXCEPT !.blocks = k + 1]
           y == <<i, <<"entry", m>>>>
<1>1. /\ i \in Files /\ din[i] \in Inode /\ Current(i) = din[i]
      /\ m \in Cells /\ SlotOf(k) = <<"entry", m>>
  <2>1. ~(k < SFS_NDIRECT) /\ k \in Nat /\ k - SFS_NDIRECT \in Cells
    BY SfsAssumption, MaxIndexNat DEF AddEntry, Cells, MaxIndex
  <2> QED BY <2>1, CurrentTypes DEF SfsTypeOK, SlotOf
<1>2. /\ freemap \subseteq BlockNos /\ freemap # {} /\ e # 0 /\ disk[e][m] = 0
      /\ freemap' = freemap \ {b} /\ unused_blocks' = unused_blocks - 1
      /\ disk' = [disk EXCEPT ![e][m] = b, ![b] = Zeroes]
      /\ dirty' = dirty
  <2>1. Cardinality({b}) = 1
    BY FirstIn DEF AddEntry, SfsTypeOK
  <2> QED BY <2>1 DEF AddEntry, Taken, SfsTypeOK
<1>3. b \in freemap /\ b \in BlockNos /\ b \in 0..NBlocks /\ b # 0
  BY <1>2, FirstIn
<1>4. d \in Inode /\ d.blocks = k + 1 /\ SameBlocks(d, din[i])
  BY <1>1, InodeChanges, MaxIndexNat
<1>5. din' = [din EXCEPT ![i] = d]
  BY DEF AddEntry, Grown
<1> HIDE DEF d, b, m
<1>6. /\ din' \in [Files -> Inode]
      /\ Currents[i] = din[i] /\ Counts[i] = k
      /\ Currents'[i] = d
      /\ \A j \in Files : j # i => Currents'[j] = Currents[j]
      /\ Counts' = [Counts EXCEPT ![i] = k + 1]
  <2>1. Assigned(i, d)
    BY <1>4, <1>5 DEF Assigned
  <2> QED BY <1>4, <2>1, OneInode
<1>7. disk \in [BlockNos -> [Cells -> Nat]] /\ Agree(Map, freemap, Counts, unused_blocks)
  BY DEF StorePart, BlockPart
<1>8. e \in Indirects(Currents) /\ e \in BlockNos /\ e # b
  <2>1. e \in Indirects(Currents)
    BY <1>1, <1>2, <1>6 DEF Indirects
  <2> QED BY <1>3, <2>1, IndirectAlone DEF StorePart
<1> HIDE DEF e
<1>9. /\ disk' \in [BlockNos -> [Cells -> Nat]]
      /\ \A c \in Cells : disk'[e][c] = IF c = m THEN b ELSE disk[e][c]
      /\ disk'[b] = Zeroes
      /\ \A c \in BlockNos : c # e /\ c # b => disk'[c] = disk[c]
  <2> DEFINE z == [disk[e] EXCEPT ![m] = b]
  <2>1. /\ Zeroes \in [Cells -> Nat] /\ z \in [Cells -> Nat]
        /\ \A c \in Cells : z[c] = IF c = m THEN b ELSE disk[e][c]
    <3>1. disk[e] \in [Cells -> Nat] /\ b \in Nat
      BY <1>3, <1>7, <1>8, SfsAssumption
    <3>2. z \in [Cells -> Nat]
      BY <1>1, <3>1
    <3>3. \A c \in Cells : z[c] = IF c = m THEN b ELSE disk[e][c]
      BY <1>1, <3>1
    <3>4. Zeroes \in [Cells -> Nat]
      BY DEF Zeroes
    <3> QED BY <3>2, <3>3, <3>4
  <2>2. disk' = [[disk EXCEPT ![e] = z] EXCEPT ![b] = Zeroes]
    BY <1>2
  <2> HIDE DEF z
  <2>3. disk'[e] = z
    BY <1>8, <1>7, <2>2
  <2>4. disk' \in [BlockNos -> [Cells -> Nat]]
    BY <1>7, <2>1, <2>2
  <2>5. \A c \in BlockNos : c # e /\ c # b => disk'[c] = disk[c]
    BY <1>7, <2>2
  <2>6. disk'[b] = Zeroes
    BY <1>3, <1>7, <2>2
  <2> QED BY <2>1, <2>3, <2>4, <2>5, <2>6
<1>10. y \in Places /\ Map[y] = 0
  <2>1. y \in Places
    BY <1>1, SlotFacts DEF Places
  <2>2. Mapped(Map, Currents, disk)
    BY MapAt DEF Map
  <2>3. Map[y] = Cell(Currents[i], disk, m)
    BY <1>1, <2>2 DEF Mapped
  <2> QED BY <1>2, <1>6, <2>1, <2>3 DEF Cell, e
<1>11. Map' = [Map EXCEPT ![y] = b]
  <2>1. \A c \in Indirects(Currents) : c # e => disk'[c] = disk[c]
    BY <1>3, <1>9, IndirectAlone DEF StorePart
  <2>2. \A j \in Files : SameBlocks(Currents'[j], Currents[j])
    BY <1>4, <1>6 DEF SameBlocks
  <2>3. Currents[i].indirect = e
    BY <1>6 DEF e
  <2>4. \A j \in Files : Currents[j].indirect = Currents[i].indirect => j = i
    BY <1>1, <1>2, <2>3, IndirectAlone DEF StorePart
  <2>5. MapOf(Currents', disk') = Put(MapOf(Currents, disk), y, b)
    <3>1. EntrySet(Currents', Currents, disk, disk', i, m, b)
      BY <1>1, <1>2, <1>9, <2>1, <2>2, <2>3, <2>4 DEF EntrySet
    <3> QED BY <3>1, MapEntry
  <2> QED BY <2>5 DEF Map, Put
<1>12. Agree(Map', freemap', Counts, unused_blocks')
  BY <1>2, <1>3, <1>7, <1>10, <1>11, TakeBlock
<1>13. Map'[y] # 0
  <2>1. Map = [z \in Places |-> Map[z]]
    BY DEF Map, MapOf
  <2> QED BY <1>3, <1>10, <1>11, <2>1
<1>14. BlockPart'
  <2>1. Counts[i] < MaxIndex
    BY <1>6, MaxIndexNat
  <2>2. Agree(Map', freemap', [Counts EXCEPT ![i] = Counts[i] + 1], unused_blocks')
    BY <1>1, <1>6, <1>12, <1>13, <2>1, LongerFile
  <2> QED BY <1>6, <2>2 DEF BlockPart
<1>15. SavedPart'
  <2>1. din[i].blocks <= d.blocks
    BY <1>4, MaxIndexNat
  <2>2. Assigned(i, d)
    BY <1>4, <1>5 DEF Assigned
  <2> QED BY <1>2, <1>4, <2>1, <2>2, SavedChange DEF StorePart
<1>16. dirty' \in [Files -> BOOLEAN]
  BY <1>2 DEF StorePart
<1>17. BytesKept
  <2>1. \A z \in Places : Map'[z] = IF z = y THEN b ELSE Map[z]
    <3>1. Map = [z \in Places |-> Map[z]]
      BY DEF Map, MapOf
    <3> QED BY <1>10, <1>11, <3>1
  <2>2. DataKept
    BY <1>3, <1>8, <1>9 DEF DataKept
  <2>3. Fills(y, b)
    BY <1>9, <1>10, <2>1 DEF Fills
  <2> QED BY <2>2, <2>3, BlockAdded DEF StorePart
<1> QED BY <1>2, <1>6, <1>9, <1>14, <1>15, <1>16, <1>17 DEF StorePart

LEMMA ReuseEntryStep ==
    ASSUME SfsTypeOK, StorePart, NEW i \in loaded, NEW k \in 0..(MaxIndex - 1),
           k = din[i].blocks, ReuseEntry(i, k), UNCHANGED <<dinode, loaded>>
    PROVE  StorePart' /\ BytesKept /\ panic' = panic
<1> DEFINE d == [din[i] EXCEPT !.blocks = k + 1]
<1>1. i \in Files /\ din[i] \in Inode /\ Current(i) = din[i]
  BY CurrentTypes DEF SfsTypeOK
<1>2. /\ Block(din[i], k) # 0 /\ Block(din[i], k) \notin freemap
      /\ UNCHANGED <<freemap, unused_blocks, disk, dirty>>
  BY <1>1, BlockUsed DEF ReuseEntry, StorePart
<1>3. d \in Inode /\ d.blocks = k + 1 /\ SameBlocks(d, din[i])
  BY <1>1, InodeChanges, MaxIndexNat
<1>4. din' = [din EXCEPT ![i] = d] /\ panic' = panic
  BY <1>2 DEF ReuseEntry, Grown
<1> HIDE DEF d
<1>5. /\ din' \in [Files -> Inode]
      /\ Currents[i] = din[i] /\ Counts[i] = k
      /\ Currents'[i] = d
      /\ \A j \in Files : j # i => Currents'[j] = Currents[j]
      /\ Counts' = [Counts EXCEPT ![i] = k + 1]
  <2>1. Assigned(i, d)
    BY <1>3, <1>4 DEF Assigned
  <2> QED BY <1>3, <2>1, OneInode
<1>6. Map' = Map
  <2>1. \A j \in Files : SameBlocks(Currents'[j], Currents[j])
    BY <1>3, <1>5 DEF SameBlocks
  <2>2. \A c \in Indirects(Currents) : disk'[c] = disk[c]
    BY <1>2
  <2>3. MapOf(Currents', disk') = MapOf(Currents, disk)
    BY <2>1, <2>2, MapSame
  <2> QED BY <2>3 DEF Map, Put
<1>7. Map[<<i, SlotOf(Counts[i])>>] # 0 /\ Counts[i] < MaxIndex
  BY <1>1, <1>2, <1>5, BlockIs, MaxIndexNat
<1>8. BlockPart'
  <2>1. Agree(Map, freemap, [Counts EXCEPT ![i] = Counts[i] + 1], unused_blocks)
    BY <1>1, <1>7, LongerFile DEF StorePart, BlockPart
  <2> QED BY <1>2, <1>5, <1>6, <2>1 DEF BlockPart
<1>9. SavedPart'
  <2>1. din[i].blocks <= d.blocks
    BY <1>3, MaxIndexNat
  <2>2. Assigned(i, d)
    BY <1>3, <1>4 DEF Assigned
  <2> QED BY <1>2, <1>3, <2>1, <2>2, SavedChange DEF StorePart
<1>10. BytesKept
  BY <1>2, <1>6 DEF BytesKept, Holds
<1> QED BY <1>2, <1>4, <1>5, <1>8, <1>9, <1>10 DEF StorePart

(* sfs_bmap_load_nolock with create, in whichever way it finds a block.      *)
LEMMA LoadStep ==
    ASSUME SfsTypeOK, StorePart, NEW i \in loaded, NEW k \in Nat, Load(i, k),
           UNCHANGED <<dinode, loaded>>
    PROVE  StorePart' /\ BytesKept /\ panic' = panic
<1>1. k \in 0..(MaxIndex - 1) /\ k = din[i].blocks
  BY MaxIndexNat DEF Load
<1>2. CASE AddDirect(i, k)
  BY <1>1, <1>2, AddDirectStep DEF AddDirect
<1>3. CASE AddIndirect(i, k)
  BY <1>1, <1>3, AddIndirectStep DEF AddIndirect
<1>4. CASE AddEntry(i, k)
  BY <1>1, <1>4, AddEntryStep DEF AddEntry
<1>5. CASE ReuseEntry(i, k)
  BY <1>1, <1>5, ReuseEntryStep
<1> QED BY <1>2, <1>3, <1>4, <1>5 DEF Load

(* What both kinds of removal know before they start: the last block is     *)
(* there and in use, so the assertion of sfs_block_free holds.              *)
LEMMA LastBlock ==
    ASSUME SfsTypeOK, StorePart, NEW i \in loaded, din[i].blocks # 0,
           NEW k, k = din[i].blocks - 1
    PROVE  /\ i \in Files /\ din[i] \in Inode /\ Current(i) = din[i]
           /\ Currents[i] = din[i] /\ Counts[i] = k + 1
           /\ k \in 0..(MaxIndex - 1) /\ k \in 0..MaxIndex
           /\ Block(din[i], k) \in BlockNos \ freemap /\ Block(din[i], k) # 0
           /\ Block(din[i], k) = Map[<<i, SlotOf(k)>>]
           /\ Agree(Map, freemap, Counts, unused_blocks)
           /\ Freed(Block(din[i], k)) =>
                 /\ freemap' = freemap \cup {Block(din[i], k)}
                 /\ unused_blocks' = unused_blocks + 1 /\ panic' = panic
<1>1. /\ i \in Files /\ din[i] \in Inode /\ Current(i) = din[i]
      /\ Currents[i] = din[i] /\ Counts[i] = din[i].blocks
  BY CurrentTypes DEF SfsTypeOK
<1>2. din[i].blocks \in 1..MaxIndex /\ MaxIndex \in Nat
  BY <1>1, MaxIndexNat DEF Inode
<1>3. k \in 0..(MaxIndex - 1) /\ k \in 0..MaxIndex /\ k < din[i].blocks /\ k + 1 = din[i].blocks
  BY <1>2
<1>4. /\ Block(din[i], k) \in 0..NBlocks /\ Block(din[i], k) \notin freemap
      /\ Block(din[i], k) # 0
  BY <1>1, <1>3, BlockUsed DEF StorePart
<1>5. Block(din[i], k) \in BlockNos \ freemap
  BY <1>4, SfsAssumption DEF BlockNos
<1>6. Block(din[i], k) = Map[<<i, SlotOf(k)>>]
  BY <1>1, <1>3, BlockIs
<1>7. Agree(Map, freemap, Counts, unused_blocks)
  BY DEF StorePart, BlockPart
<1>8. Freed(Block(din[i], k)) =>
         /\ freemap' = freemap \cup {Block(din[i], k)}
         /\ unused_blocks' = unused_blocks + 1 /\ panic' = panic
  BY <1>4 DEF Freed
<1> QED BY <1>1, <1>3, <1>4, <1>5, <1>6, <1>7, <1>8

(* Once the map has lost the place and the inode its last index, the store   *)
(* is right again.                                                          *)
LEMMA Removed ==
    ASSUME SfsTypeOK, StorePart, NEW i \in loaded, din[i].blocks # 0,
           NEW k, k = din[i].blocks - 1, Freed(Block(din[i], k)),
           NEW d, Assigned(i, d), d.blocks = k,
           Map' = Put(Map, <<i, SlotOf(k)>>, 0),
           disk' \in [BlockNos -> [Cells -> Nat]], DataKept,
           dirty' = [dirty EXCEPT ![i] = TRUE]
    PROVE  StorePart' /\ BytesCut(i, k) /\ panic' = panic
<1>1. /\ i \in Files /\ Counts[i] = k + 1 /\ k \in 0..MaxIndex
      /\ Block(din[i], k) = Map[<<i, SlotOf(k)>>]
      /\ Agree(Map, freemap, Counts, unused_blocks)
      /\ freemap' = freemap \cup {Block(din[i], k)}
      /\ unused_blocks' = unused_blocks + 1 /\ panic' = panic
  BY LastBlock
<1>2. din' \in [Files -> Inode] /\ Counts' = [Counts EXCEPT ![i] = k]
  BY OneInode
<1>3. Counts[i] # 0 /\ Counts[i] - 1 = k
  BY <1>1, MaxIndexNat
<1>4. Agree(Put(Map, <<i, SlotOf(Counts[i] - 1)>>, 0),
            freemap \cup {Map[<<i, SlotOf(Counts[i] - 1)>>]},
            Put(Counts, i, Counts[i] - 1), unused_blocks + 1)
  BY <1>1, <1>3, ShorterFile
<1>5. BlockPart'
  <2>1. Agree(Put(Map, <<i, SlotOf(k)>>, 0), freemap \cup {Map[<<i, SlotOf(k)>>]},
              [Counts EXCEPT ![i] = k], unused_blocks + 1)
    BY <1>3, <1>4 DEF Put
  <2> QED BY <1>1, <1>2, <2>1 DEF BlockPart
<1>6. SavedPart'
  <2>1. dirty'[i] /\ \A j \in Files : j # i => dirty'[j] = dirty[j]
    BY <1>1 DEF StorePart
  <2>2. loaded \subseteq Files
    BY DEF SfsTypeOK
  <2> QED BY <2>1, <2>2, SavedChange DEF StorePart
<1>7. dirty' \in [Files -> BOOLEAN]
  BY DEF StorePart
<1>8. BytesCut(i, k)
  <2>1. k \in 0..(MaxIndex - 1)
    BY LastBlock
  <2> QED BY <1>1, <2>1, BlockGone DEF StorePart
<1> QED BY <1>1, <1>2, <1>5, <1>6, <1>7, <1>8 DEF StorePart

LEMMA RemoveDirectStep ==
    ASSUME SfsTypeOK, StorePart, NEW i \in loaded, din[i].blocks # 0, RemoveDirect(i),
           dirty' = [dirty EXCEPT ![i] = TRUE], UNCHANGED <<dinode, loaded>>
    PROVE  StorePart' /\ BytesCut(i, din[i].blocks - 1) /\ panic' = panic
<1> DEFINE k == din[i].blocks - 1
           g == [din[i] EXCEPT !.blocks = k]
           d == [g EXCEPT !.direct[k] = 0]
<1>1. /\ i \in Files /\ din[i] \in Inode
      /\ Currents[i] = din[i]
      /\ k \in 0..(MaxIndex - 1) /\ k \in 0..MaxIndex
  BY LastBlock
<1>2. /\ k < SFS_NDIRECT /\ Freed(Block(din[i], k))
      /\ din' = [din EXCEPT ![i] = d] /\ disk' = disk
  BY DEF RemoveDirect, ClearsDirect, Shrunk
<1>3. k \in 0..(SFS_NDIRECT - 1) /\ SlotOf(k) = <<"direct", k>> /\ 0 \in 0..NBlocks
  BY <1>1, <1>2, SfsAssumption, MaxIndexNat DEF SlotOf
<1>4. k = din[i].blocks - 1
  OBVIOUS
<1> HIDE DEF k
<1>5. g \in Inode /\ g.blocks = k /\ SameBlocks(g, din[i])
  BY <1>1, InodeChanges
<1> HIDE DEF g
<1>6. /\ d \in Inode /\ d.blocks = k
      /\ d.direct = [din[i].direct EXCEPT ![k] = 0] /\ d.indirect = din[i].indirect
      /\ DOMAIN din[i].direct = 0..(SFS_NDIRECT - 1)
  <2>1. /\ d \in Inode /\ d.blocks = g.blocks
        /\ d.direct = [g.direct EXCEPT ![k] = 0] /\ d.indirect = g.indirect
    BY <1>3, <1>5, InodeChanges
  <2>2. DOMAIN din[i].direct = 0..(SFS_NDIRECT - 1)
    BY <1>1, InodeChanges
  <2>3. g.direct = din[i].direct /\ g.indirect = din[i].indirect
    BY <1>5 DEF SameBlocks
  <2> HIDE DEF d
  <2> QED BY <1>5, <2>1, <2>2, <2>3
<1> HIDE DEF d
<1>7. Assigned(i, d)
  BY <1>2, <1>6 DEF Assigned
<1>8. /\ Currents'[i] = d
      /\ \A j \in Files : j # i => Currents'[j] = Currents[j]
  BY <1>7, OneInode
<1>9. Map' = Put(Map, <<i, SlotOf(k)>>, 0)
  <2>1. \A j \in Files : j # i => SameBlocks(Currents'[j], Currents[j])
    BY <1>8 DEF SameBlocks
  <2>2. DirectSet(Currents', Currents, disk, disk', i, k, 0)
    BY <1>1, <1>2, <1>3, <1>6, <1>8, <2>1 DEF DirectSet
  <2>3. MapOf(Currents', disk') = Put(MapOf(Currents, disk), <<i, <<"direct", k>>>>, 0)
    BY <2>2, MapDirect
  <2> QED BY <1>3, <2>3 DEF Map
<1>10. disk' \in [BlockNos -> [Cells -> Nat]]
  BY <1>2 DEF StorePart
<1>11. DataKept
  BY <1>2 DEF DataKept
<1> QED BY <1>2, <1>4, <1>6, <1>7, <1>9, <1>10, <1>11, Removed

LEMMA RemoveEntryStep ==
    ASSUME SfsTypeOK, StorePart, NEW i \in loaded, din[i].blocks # 0, RemoveEntry(i),
           dirty' = [dirty EXCEPT ![i] = TRUE], UNCHANGED <<dinode, loaded>>
    PROVE  StorePart' /\ BytesCut(i, din[i].blocks - 1) /\ panic' = panic
<1> DEFINE k == din[i].blocks - 1
           m == k - SFS_NDIRECT
           e == din[i].indirect
           d == [din[i] EXCEPT !.blocks = k]
<1>1. /\ i \in Files /\ din[i] \in Inode
      /\ Currents[i] = din[i]
      /\ k \in 0..(MaxIndex - 1) /\ k \in 0..MaxIndex
      /\ Block(din[i], k) # 0
  BY LastBlock
<1>2. /\ k >= SFS_NDIRECT /\ Freed(Block(din[i], k))
      /\ din' = [din EXCEPT ![i] = d] /\ disk' = [disk EXCEPT ![e][m] = 0]
  BY DEF RemoveEntry, Shrunk
<1>3. k = din[i].blocks - 1
  OBVIOUS
<1> HIDE DEF k
<1>4. ~(k < SFS_NDIRECT) /\ m \in Cells /\ SlotOf(k) = <<"entry", m>>
  <2>1. ~(k < SFS_NDIRECT) /\ k - SFS_NDIRECT \in Cells
    BY <1>1, <1>2, SfsAssumption DEF Cells, MaxIndex
  <2> QED BY <2>1 DEF SlotOf
<1>5. e # 0 /\ e \in Indirects(Currents)
  BY <1>1, <1>4 DEF Block, Indirects
<1>6. e \in BlockNos /\ disk \in [BlockNos -> [Cells -> Nat]]
  BY <1>5, IndirectAlone DEF StorePart
<1>7. d \in Inode /\ d.blocks = k /\ SameBlocks(d, din[i])
  BY <1>1, InodeChanges
<1> HIDE DEF d, m
<1>8. Assigned(i, d)
  BY <1>2, <1>7 DEF Assigned
<1>9. /\ Currents'[i] = d
      /\ \A j \in Files : j # i => Currents'[j] = Currents[j]
  BY <1>8, OneInode
<1>10. Currents[i].indirect = e
  BY <1>1
<1> HIDE DEF e
<1>11. /\ disk' \in [BlockNos -> [Cells -> Nat]]
       /\ \A c \in Cells : disk'[e][c] = IF c = m THEN 0 ELSE disk[e][c]
       /\ \A c \in BlockNos : c # e => disk'[c] = disk[c]
  <2> DEFINE z == [disk[e] EXCEPT ![m] = 0]
  <2>1. z \in [Cells -> Nat] /\ \A c \in Cells : z[c] = IF c = m THEN 0 ELSE disk[e][c]
    BY <1>4, <1>6
  <2>2. disk' = [disk EXCEPT ![e] = z]
    BY <1>2
  <2> HIDE DEF z
  <2> QED BY <1>6, <2>1, <2>2
<1>12. Map' = Put(Map, <<i, SlotOf(k)>>, 0)
  <2>1. \A c \in Indirects(Currents) : c # e => disk'[c] = disk[c]
    BY <1>11, IndirectAlone DEF StorePart
  <2>2. \A j \in Files : SameBlocks(Currents'[j], Currents[j])
    BY <1>1, <1>7, <1>9 DEF SameBlocks
  <2>3. \A j \in Files : Currents[j].indirect = Currents[i].indirect => j = i
    BY <1>1, <1>5, <1>10, IndirectAlone DEF StorePart
  <2>4. EntrySet(Currents', Currents, disk, disk', i, m, 0)
    BY <1>1, <1>4, <1>5, <1>10, <1>11, <2>1, <2>2, <2>3 DEF EntrySet
  <2>5. MapOf(Currents', disk') = Put(MapOf(Currents, disk), <<i, <<"entry", m>>>>, 0)
    BY <2>4, MapEntry
  <2> QED BY <1>4, <2>5 DEF Map
<1>13. DataKept
  BY <1>5, <1>11 DEF DataKept
<1> QED BY <1>2, <1>3, <1>7, <1>8, <1>11, <1>12, <1>13, Removed

-----------------------------------------------------------------------------
(* The steps.                                                               *)

LEMMA TypeCorrect == IInv => SfsTypeOK
<1> SUFFICES ASSUME IInv PROVE SfsTypeOK
  OBVIOUS
<1>1. freemap \subseteq BlockNos /\ unused_blocks \in 0..NBlocks
  BY AgreeTypes DEF IInv, StorePart, BlockPart
<1>2. \/ op = None
      \/ op.kind = "resize" /\ op.fd \in Fds /\ op.len \in 0..SFS_MAX_FILE_SIZE
      \/ /\ op.kind \in {"read", "write"} /\ op.fd \in Fds
         /\ op.off \in 0..op.end /\ op.end \in 0..SFS_MAX_FILE_SIZE
  BY DEF IInv, OpPart
<1> QED BY <1>1, <1>2 DEF SfsTypeOK, IInv, StorePart, NodePart, PosPart, PanicPart

(* The inode of the call in progress is in memory.                          *)
LEMMA Caller ==
    ASSUME IInv, op # None
    PROVE  op.fd \in Fds /\ node[op.fd] \in loaded /\ node[op.fd] \in Files
  BY DEF IInv, OpPart, NodePart

LEMMA Kinds ==
    /\ op.kind \in {"resize", "read", "write"} => op # None
    /\ IInv /\ op.kind = "resize" => op.fd \in Fds /\ op.len \in 0..SFS_MAX_FILE_SIZE
    /\ IInv /\ op.kind \in {"read", "write"} =>
          /\ op.fd \in Fds /\ op.end \in 0..SFS_MAX_FILE_SIZE /\ op.off \in 0..op.end
          /\ op.off \in Nat /\ op.end \in Nat /\ op.off \in 0..SFS_MAX_FILE_SIZE
<1>1. op.kind \in {"resize", "read", "write"} => op # None
  BY DEF None
<1>2. IInv /\ op.kind = "resize" => op.fd \in Fds /\ op.len \in 0..SFS_MAX_FILE_SIZE
  BY DEF IInv, OpPart, None
<1>3. IInv /\ op.kind \in {"read", "write"} =>
         op.fd \in Fds /\ op.end \in 0..SFS_MAX_FILE_SIZE /\ op.off \in 0..op.end
  BY DEF IInv, OpPart, None
<1>4. IInv /\ op.kind \in {"read", "write"} =>
         op.off \in Nat /\ op.end \in Nat /\ op.off \in 0..SFS_MAX_FILE_SIZE
  BY <1>3, SfsAssumption
<1> QED BY <1>1, <1>2, <1>3, <1>4

(* The block of a position, and the end of the piece in it.                 *)
LEMMA IndexNat == ASSUME NEW n \in Nat PROVE n \div SFS_BLKSIZE \in Nat
  BY DivMod, SfsAssumption

LEMMA PieceFacts ==
    ASSUME IInv, op.kind \in {"read", "write"}
    PROVE  op.off \div SFS_BLKSIZE \in Nat /\ PieceEnd \in 0..op.end
<1>1. op.off \in Nat /\ op.end \in Nat
  BY Kinds
<1>2. op.off \div SFS_BLKSIZE \in Nat
  BY <1>1, IndexNat
<1> DEFINE q == op.off \div SFS_BLKSIZE
           p == (q + 1) * SFS_BLKSIZE
<1>3. p \in Nat
  <2>1. q + 1 \in Nat /\ SFS_BLKSIZE \in Nat
    BY <1>2, SfsAssumption
  <2>2. \A a, b \in Nat : a * b \in Nat
    OBVIOUS
  <2> QED BY <2>1, <2>2
<1>4. PieceEnd = IF op.end < p THEN op.end ELSE p
  BY DEF PieceEnd, Smaller
<1> HIDE DEF p
<1> QED BY <1>1, <1>2, <1>3, <1>4

(* Sizes, positions, flags and bytes: the map and the free blocks stay.     *)
LEMMA SameStore ==
    ASSUME StorePart, UNCHANGED <<freemap, unused_blocks>>,
           \A i \in Files : SameBlocks(Currents'[i], Currents[i]),
           Counts' \in [Files -> 0..MaxIndex], \A i \in Files : Counts'[i] <= Counts[i],
           \A b \in Indirects(Currents) : disk'[b] = disk[b]
    PROVE  BlockPart'
<1>1. MapOf(Currents', disk') = MapOf(Currents, disk)
  BY MapSame
<1>2. Map' = Map
  BY <1>1 DEF Map
<1>3. Agree(Map, freemap, Counts', unused_blocks)
  BY FewerBlocks DEF StorePart, BlockPart
<1> QED BY <1>2, <1>3 DEF BlockPart

LEMMA Untouched ==
    ASSUME StorePart, UNCHANGED <<diskVars, loaded, din, dirty>>
    PROVE  StorePart'
<1>1. Currents' = Currents /\ Counts' = Counts
  BY DEF Currents, Counts, Current, diskVars
<1>2. Map' = Map
  BY <1>1 DEF Map, MapOf, At, diskVars
<1> QED BY <1>1, <1>2 DEF StorePart, SavedPart, BlockPart, diskVars

(* vfs_lookup: what is loaded is what the inode on the disk says.            *)
LEMMA LoadedStep ==
    ASSUME IInv, NEW i \in Files, Loaded(i), UNCHANGED diskVars
    PROVE  StorePart' /\ loaded' = loaded \cup {i} /\ din'[i].size \in 0..SFS_MAX_FILE_SIZE
<1>1. CASE i \in loaded
  <2>1. UNCHANGED <<diskVars, loaded, din, dirty>>
    BY <1>1 DEF Loaded
  <2>2. din[i].size \in 0..SFS_MAX_FILE_SIZE
    BY DEF IInv, StorePart, Inode
  <2>3. loaded' = loaded \cup {i}
    BY DEF Loaded
  <2> QED BY <2>1, <2>2, <2>3, Untouched DEF IInv
<1>2. CASE i \notin loaded
  <2>1. /\ loaded' = loaded \cup {i}
        /\ din' = [din EXCEPT ![i] = dinode[i]]
        /\ dirty' = [dirty EXCEPT ![i] = FALSE]
        /\ dinode' = dinode /\ disk' = disk /\ freemap' = freemap
        /\ unused_blocks' = unused_blocks
    BY <1>2 DEF Loaded, diskVars
  <2>2. /\ din \in [Files -> Inode] /\ dinode \in [Files -> Inode]
        /\ dirty \in [Files -> BOOLEAN] /\ disk \in [BlockNos -> [Cells -> Nat]]
        /\ SavedPart /\ BlockPart /\ StorePart
    BY DEF IInv, StorePart, PosPart
  <2>3. /\ din' \in [Files -> Inode] /\ dirty' \in [Files -> BOOLEAN]
        /\ din'[i] = dinode[i] /\ ~dirty'[i]
        /\ \A j \in Files : j # i => din'[j] = din[j] /\ dirty'[j] = dirty[j]
    BY <2>1, <2>2
  <2>4. \A j \in Files : Current(j)' = Current(j)
    BY <1>2, <2>1, <2>3 DEF Current
  <2>5. Currents' = Currents /\ Counts' = Counts
    BY <2>4 DEF Currents, Counts
  <2>6. Map' = Map
    BY <2>1, <2>5 DEF Map
  <2>7. BlockPart'
    BY <2>1, <2>2, <2>5, <2>6 DEF BlockPart
  <2>8. SavedPart'
    <3> SUFFICES ASSUME NEW j \in loaded', ~dirty'[j] PROVE Saved(dinode'[j], din'[j])
      BY DEF SavedPart
    <3>1. CASE j = i
      <4>1. dinode[i].blocks \in Nat
        BY <2>2, MaxIndexNat DEF Inode
      <4> QED BY <3>1, <4>1, <2>1, <2>3 DEF Saved
    <3>2. CASE j # i
      <4>1. j \in loaded /\ j \in Files
        BY <3>2, <2>1 DEF IInv, NodePart
      <4> QED BY <3>2, <4>1, <2>1, <2>2, <2>3 DEF SavedPart
    <3> QED BY <3>1, <3>2
  <2>9. din'[i].size \in 0..SFS_MAX_FILE_SIZE
    BY <2>2, <2>3 DEF Inode
  <2> QED BY <2>1, <2>2, <2>3, <2>7, <2>8, <2>9 DEF StorePart
<1> QED BY <1>1, <1>2

LEMMA OpenStep ==
    ASSUME IInv, NEW fd \in Fds, NEW i \in Files, Open(fd, i)
    PROVE  IInv'
<1>1. /\ StorePart' /\ loaded' = loaded \cup {i} /\ din'[i].size \in 0..SFS_MAX_FILE_SIZE
  BY LoadedStep DEF Open
<1>2. OpPart' /\ PanicPart'
  BY DEF IInv, Open, OpPart, PanicPart, None
<1>3. NodePart'
  BY <1>1 DEF IInv, Open, Idle, NodePart
<1>4. PosPart'
  <2>1. 0 \in 0..SFS_MAX_FILE_SIZE
    BY SfsAssumption
  <2>2. pos' \in [Fds -> 0..SFS_MAX_FILE_SIZE]
    BY <1>1, <2>1 DEF IInv, Open, PosPart
  <2> QED BY <2>2 DEF IInv, Open, PosPart, diskVars
<1> QED BY <1>1, <1>2, <1>3, <1>4 DEF IInv

LEMMA OpenTruncatedStep ==
    ASSUME IInv, NEW fd \in Fds, NEW i \in Files, OpenTruncated(fd, i)
    PROVE  IInv'
<1>1. /\ StorePart' /\ loaded' = loaded \cup {i}
  BY LoadedStep DEF OpenTruncated
<1>2. dinode' = dinode /\ op = None /\ 0 \in 0..SFS_MAX_FILE_SIZE
  BY SfsAssumption DEF OpenTruncated, diskVars, Idle
<1>3. CASE panic' = "blocks" /\ UNCHANGED <<node, pos, op>>
  BY <1>1, <1>2, <1>3 DEF IInv, OpPart, PanicPart, NodePart, PosPart
<1>4. CASE /\ node' = [node EXCEPT ![fd] = i]
           /\ pos' = [pos EXCEPT ![fd] = 0]
           /\ op' = IF din'[i].size = 0 THEN None ELSE [kind |-> "resize", fd |-> fd, len |-> 0]
           /\ UNCHANGED panic
  <2>1. OpPart' /\ (op' # None => op'.fd = fd)
    BY <1>2, <1>4 DEF OpPart
  <2>2. NodePart'
    <3>1. /\ node' \in [Fds -> Files \cup {NULL}] /\ node'[fd] = i /\ i # NULL
          /\ \A f \in Fds : f # fd => node'[f] = node[f]
      BY <1>4, SfsAssumption DEF IInv, NodePart
    <3> QED BY <1>1, <2>1, <3>1 DEF IInv, NodePart
  <2>3. PosPart' /\ PanicPart'
    BY <1>2, <1>4 DEF IInv, PosPart, PanicPart
  <2> QED BY <1>1, <2>1, <2>2, <2>3 DEF IInv
<1> QED BY <1>3, <1>4 DEF OpenTruncated

LEMMA DupStep ==
    ASSUME IInv, NEW fd \in Fds, NEW from \in Fds, Dup(fd, from)
    PROVE  IInv'
<1>1. StorePart'
  BY Untouched DEF Dup, IInv
<1>2. OpPart' /\ PanicPart' /\ PosPart'
  BY DEF IInv, Dup, OpPart, PanicPart, PosPart, diskVars, None
<1>3. NodePart'
  BY DEF IInv, Dup, Idle, NodePart
<1> QED BY <1>1, <1>2, <1>3 DEF IInv

(* sfs_close and sfs_reclaim: what is on the disk is now all there is.       *)
LEMMA CloseStep ==
    ASSUME IInv, NEW fd \in Fds, Close(fd)
    PROVE  IInv'
<1> DEFINE i == node[fd]
<1>1. /\ i # NULL /\ i \in loaded /\ i \in Files /\ op = None
      /\ loaded \subseteq Files
      /\ node' = [node EXCEPT ![fd] = NULL] /\ pos' = [pos EXCEPT ![fd] = 0]
      /\ UNCHANGED <<freemap, unused_blocks, disk, op, panic>>
  BY DEF IInv, NodePart, Close, Idle
<1>2. /\ din \in [Files -> Inode] /\ dinode \in [Files -> Inode]
      /\ dirty \in [Files -> BOOLEAN] /\ disk \in [BlockNos -> [Cells -> Nat]]
      /\ SavedPart /\ BlockPart /\ StorePart /\ SfsTypeOK
  BY TypeCorrect DEF IInv, StorePart, PosPart
<1>3. /\ node' \in [Fds -> Files \cup {NULL}] /\ node'[fd] = NULL
      /\ \A f \in Fds : f # fd => node'[f] = node[f]
  BY <1>1 DEF IInv, NodePart
<1>4. pos' \in [Fds -> 0..SFS_MAX_FILE_SIZE]
  <2>1. 0 \in 0..SFS_MAX_FILE_SIZE
    BY SfsAssumption
  <2> QED BY <1>1, <2>1 DEF IInv, PosPart
<1>5. OpPart' /\ PanicPart'
  BY <1>1 DEF IInv, OpPart, PanicPart, None
<1>6. CASE \E other \in Fds \ {fd} : node[other] = i
  <2>1. UNCHANGED <<diskVars, loaded, din, dirty>>
    BY <1>1, <1>6 DEF Close, diskVars
  <2>2. StorePart'
    BY <1>2, <2>1, Untouched
  <2>3. NodePart' /\ PosPart'
    BY <1>1, <1>2, <1>3, <1>4, <2>1 DEF IInv, NodePart, PosPart, diskVars
  <2> QED BY <1>5, <2>2, <2>3 DEF IInv
<1>7. CASE ~(\E other \in Fds \ {fd} : node[other] = i)
  <2>1. /\ dinode' = IF dirty[i] THEN [dinode EXCEPT ![i] = din[i]] ELSE dinode
        /\ loaded' = loaded \ {i}
        /\ din' = [din EXCEPT ![i] = NewInode]
        /\ dirty' = [dirty EXCEPT ![i] = FALSE]
    BY <1>7 DEF Close, SavedOnClose
  <2> HIDE DEF i
  <2>2. NewInode \in Inode
    <3>1. 0 \in 0..NBlocks /\ 0 \in 0..MaxIndex /\ 0 \in 0..SFS_MAX_FILE_SIZE
      BY SfsAssumption, MaxIndexNat
    <3> QED BY <3>1 DEF NewInode, Inode
  <2>3. /\ din' \in [Files -> Inode] /\ dinode' \in [Files -> Inode]
        /\ dirty' \in [Files -> BOOLEAN]
        /\ dinode'[i] = IF dirty[i] THEN din[i] ELSE dinode[i]
        /\ \A j \in Files : j # i => /\ din'[j] = din[j] /\ dinode'[j] = dinode[j]
                                     /\ dirty'[j] = dirty[j]
    <3>1. din' \in [Files -> Inode] /\ dirty' \in [Files -> BOOLEAN]
      BY <1>1, <1>2, <2>1, <2>2
    <3>2. /\ dinode' \in [Files -> Inode] /\ dinode'[i] = IF dirty[i] THEN din[i] ELSE dinode[i]
          /\ \A j \in Files : j # i => dinode'[j] = dinode[j]
      BY <1>1, <1>2, <2>1
    <3>3. \A j \in Files : j # i => din'[j] = din[j] /\ dirty'[j] = dirty[j]
      BY <1>1, <1>2, <2>1
    <3> QED BY <3>1, <3>2, <3>3
  <2>4. \A j \in Files : /\ Current(j)' = IF j = i THEN dinode'[i] ELSE Current(j)
                         /\ Current(i) = din[i]
    BY <1>1, <2>1, <2>3 DEF Current
  <2>5. SameBlocks(dinode'[i], din[i]) /\ dinode'[i].blocks <= din[i].blocks
    <3>1. din[i].blocks \in Nat
      BY <1>1, <1>2, MaxIndexNat DEF Inode
    <3> QED BY <1>1, <1>2, <2>3, <3>1 DEF SavedPart, Saved, SameBlocks
  <2>6. /\ \A j \in Files : SameBlocks(Currents'[j], Currents[j])
        /\ Counts' \in [Files -> 0..MaxIndex]
        /\ \A j \in Files : Counts'[j] <= Counts[j]
    <3>1. \A j \in Files : /\ Currents'[j] = Current(j)' /\ Currents[j] = Current(j)
                           /\ Counts'[j] = Current(j)'.blocks /\ Counts[j] = Current(j).blocks
      BY DEF Currents, Counts
    <3>2. \A j \in Files : Current(j) \in Inode /\ Current(j)' \in Inode
      BY <1>1, <1>2, <2>3, <2>4 DEF Current
    <3>3. \A j \in Files : /\ Current(j).blocks \in 0..MaxIndex
                           /\ Current(j)'.blocks \in 0..MaxIndex
      BY <3>2 DEF Inode
    <3>4. \A j \in Files : SameBlocks(Currents'[j], Currents[j])
      BY <2>4, <2>5, <3>1 DEF SameBlocks
    <3>5. Counts' \in [Files -> 0..MaxIndex]
      BY <3>3 DEF Counts
    <3>6. \A j \in Files : Counts'[j] <= Counts[j]
      BY <2>4, <2>5, <3>1, <3>3, MaxIndexNat
    <3> QED BY <3>4, <3>5, <3>6
  <2>7. BlockPart'
    BY <1>1, <1>2, <2>6, SameStore
  <2>8. SavedPart'
    BY <1>1, <1>2, <2>1, <2>3 DEF SavedPart
  <2>9. StorePart'
    BY <1>1, <1>2, <2>3, <2>7, <2>8 DEF StorePart
  <2>10. NodePart'
    <3>1. \A f \in Fds : node'[f] # NULL => node'[f] \in loaded'
      BY <1>3, <1>7, <2>1 DEF IInv, NodePart, i
    <3> QED BY <1>1, <1>3, <2>1, <3>1 DEF NodePart
  <2>11. PosPart'
    BY <1>4, <2>3 DEF PosPart
  <2> QED BY <1>5, <2>9, <2>10, <2>11 DEF IInv
<1> QED BY <1>6, <1>7

LEMMA FsyncStep ==
    ASSUME IInv, NEW fd \in Fds, Fsync(fd)
    PROVE  IInv'
<1> DEFINE i == node[fd]
<1>1. /\ i \in loaded /\ i \in Files /\ loaded \subseteq Files
      /\ dinode' = [dinode EXCEPT ![i] = din[i]]
      /\ dirty' = [dirty EXCEPT ![i] = FALSE]
      /\ UNCHANGED <<freemap, unused_blocks, disk, loaded, din, node, pos, op, panic>>
  BY DEF IInv, NodePart, Fsync
<1>2. /\ din \in [Files -> Inode] /\ dinode \in [Files -> Inode]
      /\ dirty \in [Files -> BOOLEAN] /\ disk \in [BlockNos -> [Cells -> Nat]]
      /\ SavedPart /\ BlockPart
  BY DEF IInv, StorePart, PosPart
<1> HIDE DEF i
<1>3. /\ dinode' \in [Files -> Inode] /\ dirty' \in [Files -> BOOLEAN]
      /\ dinode'[i] = din[i]
      /\ \A j \in Files : j # i => dinode'[j] = dinode[j] /\ dirty'[j] = dirty[j]
  BY <1>1, <1>2
<1>4. \A j \in Files : Current(j)' = Current(j)
  BY <1>1, <1>3 DEF Current
<1>5. Currents' = Currents /\ Counts' = Counts
  BY <1>4 DEF Currents, Counts
<1>6. Map' = Map
  BY <1>1, <1>5 DEF Map
<1>7. BlockPart'
  BY <1>1, <1>2, <1>5, <1>6 DEF BlockPart
<1>8. SavedPart'
  <2> SUFFICES ASSUME NEW j \in loaded, ~dirty'[j] PROVE Saved(dinode'[j], din[j])
    BY <1>1 DEF SavedPart
  <2>1. CASE j = i
    <3>1. din[i].blocks \in Nat
      BY <1>1, <1>2, MaxIndexNat DEF Inode
    <3> QED BY <2>1, <3>1, <1>3 DEF Saved
  <2>2. CASE j # i
    BY <2>2, <1>1, <1>2, <1>3 DEF SavedPart
  <2> QED BY <2>1, <2>2
<1>9. StorePart'
  BY <1>1, <1>2, <1>3, <1>7, <1>8 DEF StorePart
<1>10. OpPart' /\ PanicPart' /\ NodePart' /\ PosPart'
  BY <1>1, <1>3 DEF IInv, OpPart, PanicPart, NodePart, PosPart, None
<1> QED BY <1>9, <1>10 DEF IInv

LEMMA SeekStep ==
    ASSUME IInv, NEW fd \in Fds, NEW p \in 0..SFS_MAX_FILE_SIZE, Seek(fd, p)
    PROVE  IInv'
<1>1. StorePart'
  BY Untouched DEF Seek, IInv
<1>2. /\ node[fd] # NULL /\ op = None
      /\ \/ op' = [kind |-> "resize", fd |-> fd, len |-> p] /\ pos' = pos
         \/ op' = op /\ pos' = [pos EXCEPT ![fd] = p]
      /\ UNCHANGED <<dinode, loaded, node, panic>>
  BY DEF Seek, Idle, diskVars
<1>3. OpPart' /\ (op' # None => op'.fd = fd)
  BY <1>2 DEF OpPart
<1>4. NodePart' /\ PosPart' /\ PanicPart'
  BY <1>2, <1>3 DEF IInv, NodePart, PosPart, PanicPart
<1> QED BY <1>1, <1>3, <1>4 DEF IInv

LEMMA WriteStep ==
    ASSUME IInv, NEW fd \in Fds, NEW n \in 1..MaxLen, NEW c \in Bytes, Write(fd, n, c)
    PROVE  IInv'
<1> DEFINE off == pos[fd]
           end == Smaller(off + n, SFS_MAX_FILE_SIZE)
<1>1. StorePart'
  BY Untouched DEF Write, IInv
<1>2. /\ node[fd] # NULL /\ off < SFS_MAX_FILE_SIZE
      /\ op' = [kind |-> "write", fd |-> fd, off |-> off, end |-> end, c |-> c]
      /\ UNCHANGED <<dinode, loaded, node, pos, panic>>
  BY DEF Write, diskVars
<1>3. end \in 0..SFS_MAX_FILE_SIZE /\ off \in 0..end
  <2>1. off \in 0..SFS_MAX_FILE_SIZE /\ SFS_MAX_FILE_SIZE \in Nat /\ n \in Nat /\ MaxLen \in Nat
    BY SfsAssumption DEF IInv, PosPart
  <2>2. off + n \in Nat /\ off <= off + n
    BY <2>1
  <2> QED BY <1>2, <2>1, <2>2 DEF Smaller
<1> HIDE DEF off, end
<1>4. OpPart' /\ op'.fd = fd
  BY <1>2, <1>3 DEF OpPart
<1>5. NodePart' /\ PosPart' /\ PanicPart'
  BY <1>2, <1>4 DEF IInv, NodePart, PosPart, PanicPart
<1> QED BY <1>1, <1>4, <1>5 DEF IInv

LEMMA ReadStep ==
    ASSUME IInv, NEW fd \in Fds, NEW n \in 1..MaxLen, Read(fd, n)
    PROVE  IInv'
<1> DEFINE off == pos[fd]
           size == din[node[fd]].size
           end == Smaller(off + n, size)
<1>1. StorePart'
  BY Untouched DEF Read, IInv
<1>2. /\ node[fd] # NULL /\ off < size
      /\ op' = [kind |-> "read", fd |-> fd, off |-> off, end |-> end, buf |-> <<>>]
      /\ UNCHANGED <<dinode, loaded, node, pos, panic>>
  BY DEF Read, diskVars
<1>3. end \in 0..SFS_MAX_FILE_SIZE /\ off \in 0..end
  <2>1. off \in 0..SFS_MAX_FILE_SIZE /\ SFS_MAX_FILE_SIZE \in Nat /\ n \in Nat /\ MaxLen \in Nat
    BY SfsAssumption DEF IInv, PosPart
  <2>2. off + n \in Nat /\ off <= off + n
    BY <2>1
  <2>3. size \in 0..SFS_MAX_FILE_SIZE
    BY <1>2 DEF IInv, NodePart, StorePart, Inode
  <2> HIDE DEF size
  <2> QED BY <1>2, <2>1, <2>2, <2>3 DEF Smaller
<1> HIDE DEF off, end
<1>4. OpPart' /\ op'.fd = fd
  BY <1>2, <1>3 DEF OpPart
<1>5. NodePart' /\ PosPart' /\ PanicPart'
  BY <1>2, <1>4 DEF IInv, NodePart, PosPart, PanicPart
<1> QED BY <1>1, <1>4, <1>5 DEF IInv

(* A turn that adds or removes a block leaves the call as it is.             *)
LEMMA SameCall ==
    ASSUME IInv, UNCHANGED <<dinode, loaded, node, pos, op, panic>>
    PROVE  OpPart' /\ NodePart' /\ PosPart' /\ PanicPart'
  BY DEF IInv, OpPart, NodePart, PosPart, PanicPart, None

LEMMA ResizeAddStep == ASSUME IInv, ResizeAdd PROVE IInv'
<1> DEFINE i == node[op.fd]
<1>1. /\ op.kind = "resize" /\ Load(i, din[i].blocks)
      /\ UNCHANGED <<dinode, loaded, node, pos, op>>
  BY DEF ResizeAdd, Running
<1>2. i \in loaded /\ i \in Files
  BY <1>1, Kinds, Caller
<1>3. din[i].blocks \in Nat
  BY <1>2, MaxIndexNat DEF IInv, StorePart, Inode
<1>4. StorePart' /\ panic' = panic
  BY <1>1, <1>2, <1>3, LoadStep, TypeCorrect DEF IInv
<1> QED BY <1>1, <1>4, SameCall DEF IInv

LEMMA IoLoadStep == ASSUME IInv, IoLoad PROVE IInv'
<1> DEFINE i == node[op.fd]
           k == op.off \div SFS_BLKSIZE
<1>1. /\ op.kind \in {"read", "write"} /\ Load(i, k)
      /\ UNCHANGED <<dinode, loaded, node, pos, op>>
  BY DEF IoLoad, Transferring
<1>2. i \in loaded /\ i \in Files /\ k \in Nat
  BY <1>1, Kinds, Caller, PieceFacts
<1>3. StorePart' /\ panic' = panic
  BY <1>1, <1>2, LoadStep, TypeCorrect DEF IInv
<1> QED BY <1>1, <1>3, SameCall DEF IInv

LEMMA ResizeRemoveStep == ASSUME IInv, ResizeRemove PROVE IInv'
<1> DEFINE i == node[op.fd]
<1>1. /\ op.kind = "resize" /\ din[i].blocks > RoundUpDiv(op.len)
      /\ RemoveDirect(i) \/ RemoveEntry(i)
      /\ dirty' = [dirty EXCEPT ![i] = TRUE]
      /\ UNCHANGED <<dinode, loaded, node, pos, op>>
  BY DEF ResizeRemove, Running
<1>2. i \in loaded /\ i \in Files /\ op.len \in 0..SFS_MAX_FILE_SIZE
  BY <1>1, Kinds, Caller
<1>3. din[i].blocks # 0
  <2>1. op.len + SFS_BLKSIZE - 1 \in Nat
    BY <1>2, SfsAssumption
  <2>2. RoundUpDiv(op.len) \in Nat
    BY <2>1, IndexNat DEF RoundUpDiv
  <2> QED BY <1>1, <2>2
<1>4. StorePart' /\ panic' = panic
  <2>1. SfsTypeOK /\ StorePart
    BY TypeCorrect DEF IInv
  <2>2. CASE RemoveDirect(i)
    BY <1>1, <1>2, <1>3, <2>1, <2>2, RemoveDirectStep
  <2>3. CASE RemoveEntry(i)
    BY <1>1, <1>2, <1>3, <2>1, <2>3, RemoveEntryStep
  <2> QED BY <1>1, <2>2, <2>3
<1> QED BY <1>1, <1>4, SameCall DEF IInv

(* Only the size of one inode changes, and the call ends.                   *)
LEMMA SizeSet ==
    ASSUME IInv, op # None, NEW n \in 0..SFS_MAX_FILE_SIZE, NEW p \in 0..SFS_MAX_FILE_SIZE,
           din' = [din EXCEPT ![node[op.fd]] = [din[node[op.fd]] EXCEPT !.size = n]],
           dirty' \in [Files -> BOOLEAN],
           \A j \in Files : dirty[j] => dirty'[j],
           \A j \in Files : j # node[op.fd] => dirty'[j] = dirty[j],
           pos' = [pos EXCEPT ![op.fd] = p], op' = None,
           UNCHANGED <<diskVars, loaded, node, panic>>
    PROVE  IInv'
<1> DEFINE i == node[op.fd]
           d == [din[i] EXCEPT !.size = n]
<1>1. op.fd \in Fds /\ i \in loaded /\ i \in Files
  BY Caller
<1>2. din[i] \in Inode
  BY <1>1 DEF IInv, StorePart
<1>3. d \in Inode /\ d.blocks = din[i].blocks /\ SameBlocks(d, din[i])
  BY <1>2, InodeChanges
<1>4. Assigned(i, d)
  BY <1>1, <1>3 DEF Assigned, diskVars
<1> HIDE DEF i, d
<1>5. SfsTypeOK
  BY TypeCorrect
<1>6. /\ din' \in [Files -> Inode] /\ Currents[i] = din[i] /\ Counts[i] = din[i].blocks
      /\ Currents'[i] = d
      /\ \A j \in Files : j # i => Currents'[j] = Currents[j]
      /\ Counts' = [Counts EXCEPT ![i] = d.blocks]
  BY <1>4, <1>5, OneInode
<1>7. Counts \in [Files -> 0..MaxIndex]
  BY <1>5, CurrentTypes
<1>8. Counts' = Counts
  BY <1>3, <1>6, <1>7
<1>9. BlockPart'
  <2>1. \A j \in Files : SameBlocks(Currents'[j], Currents[j])
    BY <1>3, <1>6 DEF SameBlocks
  <2>2. \A j \in Files : Counts'[j] <= Counts[j]
    BY <1>7, <1>8, MaxIndexNat
  <2>3. \A b \in Indirects(Currents) : disk'[b] = disk[b]
    BY DEF diskVars
  <2>4. UNCHANGED <<freemap, unused_blocks>> /\ StorePart
    BY DEF diskVars, IInv
  <2> QED BY <1>7, <1>8, <2>1, <2>2, <2>3, <2>4, SameStore
<1>10. SavedPart'
  <2>1. din[i].blocks <= d.blocks
    BY <1>2, <1>3, MaxIndexNat DEF Inode
  <2>2. ~dirty'[i] => ~dirty[i]
    BY <1>1
  <2>3. \A j \in Files : j # i => dirty'[j] = dirty[j]
    BY DEF i
  <2> QED BY <1>3, <1>4, <1>5, <2>1, <2>2, <2>3, SavedChange DEF IInv, StorePart
<1>11. StorePart'
  BY <1>6, <1>9, <1>10 DEF IInv, StorePart, diskVars
<1>12. OpPart' /\ NodePart' /\ PosPart' /\ PanicPart'
  BY <1>1 DEF IInv, OpPart, NodePart, PosPart, PanicPart, diskVars
<1> QED BY <1>11, <1>12 DEF IInv

LEMMA ResizeDoneStep == ASSUME IInv, ResizeDone PROVE IInv'
<1> DEFINE i == node[op.fd]
<1>1. /\ op.kind = "resize"
      /\ din' = [din EXCEPT ![i] = [din[i] EXCEPT !.size = op.len]]
      /\ dirty' = [dirty EXCEPT ![i] = TRUE]
      /\ pos' = [pos EXCEPT ![op.fd] = op.len]
      /\ op' = None
      /\ UNCHANGED <<diskVars, loaded, node, panic>>
  BY DEF ResizeDone, Running
<1>2. op # None /\ op.len \in 0..SFS_MAX_FILE_SIZE
  BY <1>1, Kinds
<1>3. /\ dirty' \in [Files -> BOOLEAN]
      /\ \A j \in Files : dirty[j] => dirty'[j]
      /\ \A j \in Files : j # i => dirty'[j] = dirty[j]
  BY <1>1 DEF IInv, StorePart
<1> QED BY <1>1, <1>2, <1>3, SizeSet

LEMMA IoDoneStep == ASSUME IInv, IoDone PROVE IInv'
<1> DEFINE i == node[op.fd]
           n == Larger(din[i].size, op.off)
<1>1. /\ op.kind \in {"read", "write"}
      /\ din' = [din EXCEPT ![i] = [din[i] EXCEPT !.size = n]]
      /\ dirty' = [dirty EXCEPT ![i] = dirty[i] \/ op.off > din[i].size]
      /\ pos' = [pos EXCEPT ![op.fd] = op.off]
      /\ op' = None
      /\ UNCHANGED <<diskVars, loaded, node, panic>>
  BY DEF IoDone, Running, SizeRaised
<1>2. op # None /\ op.off \in 0..SFS_MAX_FILE_SIZE /\ i \in Files
  BY <1>1, Kinds, Caller
<1>3. n \in 0..SFS_MAX_FILE_SIZE
  <2>1. din[i].size \in 0..SFS_MAX_FILE_SIZE
    BY <1>2 DEF IInv, StorePart, Inode
  <2> QED BY <1>2, <2>1 DEF Larger
<1>4. /\ dirty' \in [Files -> BOOLEAN]
      /\ \A j \in Files : dirty[j] => dirty'[j]
      /\ \A j \in Files : j # i => dirty'[j] = dirty[j]
  <2>1. dirty \in [Files -> BOOLEAN]
    BY DEF IInv, StorePart
  <2> DEFINE raised == dirty[i] \/ op.off > din[i].size
  <2>2. raised \in BOOLEAN /\ (dirty[i] => raised)
    OBVIOUS
  <2>3. dirty' = [dirty EXCEPT ![i] = raised]
    BY <1>1
  <2> HIDE DEF raised
  <2> QED BY <1>2, <2>1, <2>2, <2>3
<1> QED BY <1>1, <1>2, <1>3, <1>4, SizeSet

(* The bytes of a transfer go to a block that an index has, which is never  *)
(* one that holds entries.                                                  *)
LEMMA WritePieceStep == ASSUME IInv, WritePiece PROVE IInv'
<1> DEFINE i == node[op.fd]
           k == op.off \div SFS_BLKSIZE
           b == Block(din[i], k)
<1>1. /\ op.kind = "write" /\ k < din[i].blocks
      /\ disk' = [disk EXCEPT ![b] = [c \in Cells |-> IF c \in Piece THEN op.c ELSE disk[b][c]]]
      /\ op' = [op EXCEPT !.off = PieceEnd]
      /\ UNCHANGED <<freemap, unused_blocks, dinode, loaded, din, dirty, node, pos, panic>>
  BY DEF WritePiece, Running
<1>2. /\ i \in loaded /\ i \in Files /\ k \in Nat /\ PieceEnd \in 0..op.end
      /\ op # None
  BY <1>1, Kinds, Caller, PieceFacts
<1>3. /\ SfsTypeOK /\ StorePart /\ Current(i) = din[i] /\ din[i] \in Inode
      /\ disk \in [BlockNos -> [Cells -> Nat]]
  BY <1>2, TypeCorrect, CurrentTypes DEF IInv, StorePart
<1>4. k \in 0..(MaxIndex - 1)
  <2>1. din[i].blocks \in 0..MaxIndex /\ MaxIndex \in Nat
    BY <1>3, MaxIndexNat DEF Inode
  <2> QED BY <1>1, <1>2, <2>1
<1> HIDE DEF k
<1>5. b \in BlockNos /\ b \notin Indirects(Currents)
  <2>1. b \in 0..NBlocks /\ b # 0
    BY <1>1, <1>2, <1>3, <1>4, BlockUsed DEF StorePart
  <2>2. b \in BlockNos
    BY <2>1, SfsAssumption DEF BlockNos
  <2> QED BY <1>2, <1>3, <1>4, <2>2, IndirectAlone DEF StorePart
<1>6. op.c \in Nat
  BY <1>1, SfsAssumption DEF IInv, OpPart, None
<1> HIDE DEF b, i
<1>7. /\ disk' \in [BlockNos -> [Cells -> Nat]]
      /\ \A c \in BlockNos : c # b => disk'[c] = disk[c]
  <2> DEFINE z == [c \in Cells |-> IF c \in Piece THEN op.c ELSE disk[b][c]]
  <2>1. z \in [Cells -> Nat]
    BY <1>3, <1>5, <1>6
  <2>2. disk' = [disk EXCEPT ![b] = z]
    BY <1>1
  <2> HIDE DEF z
  <2> QED BY <1>3, <1>5, <2>1, <2>2
<1>8. BlockPart'
  <2>1. Currents' = Currents /\ Counts' = Counts
    BY <1>1 DEF Currents, Counts, Current
  <2>2. \A c \in Indirects(Currents) : disk'[c] = disk[c]
    BY <1>3, <1>5, <1>7, IndirectAlone DEF StorePart
  <2>3. \A j \in Files : SameBlocks(Currents'[j], Currents[j])
    BY <2>1 DEF SameBlocks
  <2>4. Counts' \in [Files -> 0..MaxIndex] /\ \A j \in Files : Counts'[j] <= Counts[j]
    BY <1>3, <2>1, CurrentTypes, MaxIndexNat
  <2> QED BY <1>1, <1>3, <2>2, <2>3, <2>4, SameStore
<1>9. StorePart'
  BY <1>1, <1>3, <1>7, <1>8 DEF StorePart, SavedPart
<1>10. OpPart' /\ op' # None /\ op'.fd = op.fd
  <2>1. /\ op = [kind |-> "write", fd |-> op.fd, off |-> op.off, end |-> op.end, c |-> op.c]
        /\ op.fd \in Fds /\ op.c \in Bytes /\ op.end \in 0..SFS_MAX_FILE_SIZE
    BY <1>1 DEF IInv, OpPart, None
  <2>2. op' = [kind |-> "write", fd |-> op.fd, off |-> PieceEnd, end |-> op.end, c |-> op.c]
    BY <1>1, <2>1
  <2> QED BY <1>2, <2>1, <2>2 DEF OpPart, None
<1>11. NodePart' /\ PosPart' /\ PanicPart'
  BY <1>1, <1>2, <1>10 DEF IInv, NodePart, PosPart, PanicPart
<1> QED BY <1>9, <1>10, <1>11 DEF IInv

LEMMA ReadPieceStep == ASSUME IInv, ReadPiece PROVE IInv'
<1>1. /\ op.kind = "read" /\ op.kind \in {"read", "write"}
      /\ UNCHANGED <<diskVars, loaded, din, dirty, node, pos, panic>>
  BY DEF ReadPiece, Running
<1>2. PICK t : op' = [op EXCEPT !.off = PieceEnd, !.buf = t]
  BY DEF ReadPiece
<1>3. PieceEnd \in 0..op.end /\ op # None
  BY <1>1, Kinds, PieceFacts
<1>4. StorePart'
  BY <1>1, Untouched DEF IInv
<1>5. OpPart' /\ op' # None /\ op'.fd = op.fd
  <2>1. /\ op = [kind |-> "read", fd |-> op.fd, off |-> op.off, end |-> op.end, buf |-> op.buf]
        /\ op.fd \in Fds /\ op.end \in 0..SFS_MAX_FILE_SIZE
    BY <1>1 DEF IInv, OpPart, None
  <2>2. op' = [kind |-> "read", fd |-> op.fd, off |-> PieceEnd, end |-> op.end, buf |-> t]
    <3>1. PICK f, o, e, b : op = [kind |-> "read", fd |-> f, off |-> o, end |-> e, buf |-> b]
      BY <2>1
    <3>2. op.fd = f /\ op.end = e
      BY <3>1
    <3>3. op' = [[op EXCEPT !.off = PieceEnd] EXCEPT !.buf = t]
      BY <1>2
    <3> QED BY <3>1, <3>2, <3>3
  <2> QED BY <1>3, <2>1, <2>2 DEF OpPart, None
<1>6. NodePart' /\ PosPart' /\ PanicPart'
  BY <1>1, <1>3, <1>5 DEF IInv, NodePart, PosPart, PanicPart, diskVars
<1> QED BY <1>4, <1>5, <1>6 DEF IInv

LEMMA ResizeNoSpaceStep == ASSUME IInv, ResizeNoSpace PROVE IInv'
<1>1. op' = None /\ UNCHANGED <<diskVars, loaded, din, dirty, node, pos, panic>>
  BY DEF ResizeNoSpace
<1>2. StorePart'
  BY <1>1, Untouched DEF IInv
<1>3. OpPart' /\ NodePart' /\ PosPart' /\ PanicPart'
  BY <1>1 DEF IInv, OpPart, NodePart, PosPart, PanicPart, diskVars
<1> QED BY <1>2, <1>3 DEF IInv

LEMMA LoadPanicsStep == ASSUME IInv, LoadPanics PROVE IInv'
<1>1. /\ panic' \in {"index", "range"}
      /\ UNCHANGED <<diskVars, loaded, din, dirty, node, pos, op>>
  BY DEF LoadPanics, LoadPanic
<1>2. StorePart'
  BY <1>1, Untouched DEF IInv
<1>3. OpPart' /\ NodePart' /\ PosPart' /\ PanicPart'
  BY <1>1 DEF IInv, OpPart, NodePart, PosPart, PanicPart, diskVars, None
<1> QED BY <1>2, <1>3 DEF IInv

(* The disk of mksfs: every block free, every place empty.                  *)
LEMMA InitInv == Init => IInv
<1> SUFFICES ASSUME Init PROVE IInv
  OBVIOUS
<1>1. /\ 0 \in 0..NBlocks /\ 0 \in 0..MaxIndex /\ 0 \in 0..SFS_MAX_FILE_SIZE
      /\ NBlocks \in Nat
  BY SfsAssumption, MaxIndexNat
<1>2. NewInode \in Inode /\ Zeroes \in [Cells -> Nat]
  BY <1>1 DEF NewInode, Inode, Zeroes
<1>3. /\ disk \in [BlockNos -> [Cells -> Nat]] /\ din \in [Files -> Inode]
      /\ dirty \in [Files -> BOOLEAN] /\ dinode \in [Files -> Inode]
  BY <1>2 DEF Init
<1>4. \A i \in Files : Current(i) = NewInode
  BY DEF Init, Current
<1>5. \A i \in Files : Counts[i] = 0 /\ Currents[i] = NewInode
  BY <1>4 DEF Counts, Currents, NewInode
<1>6. \A x \in Places : Map[x] = 0
  <2> SUFFICES ASSUME NEW x \in Places PROVE Map[x] = 0
    OBVIOUS
  <2>1. x[1] \in Files /\ x[2] \in Slots
    BY DEF Places
  <2>2. Map[x] = At(NewInode, disk, x[2])
    BY <1>5, <2>1 DEF Map, MapOf
  <2>3. x[2][1] = "direct" => x[2][2] \in 0..(SFS_NDIRECT - 1)
    BY <2>1 DEF Slots
  <2> QED BY <2>2, <2>3 DEF At, NewInode
<1>7. Map \in [Places -> 0..NBlocks]
  <2>1. Map = [x \in Places |-> Map[x]]
    BY DEF Map, MapOf
  <2> QED BY <1>1, <1>6, <2>1
<1>8. Owned(Map, freemap)
  BY <1>6, <1>7, SfsAssumption DEF Owned, Init, BlockNos
<1>9. Filled(Map, Counts)
  <2>1. Counts \in [Files -> 0..MaxIndex]
    BY <1>1, <1>4 DEF Counts, NewInode
  <2>2. \A i \in Files : 0..(Counts[i] - 1) = {}
    BY <1>5
  <2> QED BY <2>1, <2>2 DEF Filled
<1>10. unused_blocks = Cardinality(freemap)
  <2>1. Cardinality(1..NBlocks) = NBlocks
    BY <1>1, FS_Interval
  <2> QED BY <2>1 DEF Init, BlockNos
<1>11. StorePart
  BY <1>3, <1>8, <1>9, <1>10 DEF StorePart, SavedPart, BlockPart, Agree, Init
<1>12. OpPart /\ NodePart /\ PosPart /\ PanicPart
  BY <1>1, <1>3 DEF Init, OpPart, NodePart, PosPart, PanicPart
<1> QED BY <1>11, <1>12 DEF IInv

LEMMA CallStep == ASSUME IInv, NEW fd \in Fds, Call(fd) PROVE IInv'
<1>1. ASSUME NEW i \in Files, Open(fd, i) PROVE IInv'
  BY <1>1, OpenStep
<1>2. ASSUME NEW i \in Files, OpenTruncated(fd, i) PROVE IInv'
  BY <1>2, OpenTruncatedStep
<1>3. ASSUME NEW from \in Fds, Dup(fd, from) PROVE IInv'
  BY <1>3, DupStep
<1>4. CASE Close(fd)
  BY <1>4, CloseStep
<1>5. CASE Fsync(fd)
  BY <1>5, FsyncStep
<1>6. ASSUME NEW p \in 0..SFS_MAX_FILE_SIZE, Seek(fd, p) PROVE IInv'
  BY <1>6, SeekStep
<1>7. ASSUME NEW n \in 1..MaxLen, Read(fd, n) PROVE IInv'
  BY <1>7, ReadStep
<1>8. ASSUME NEW n \in 1..MaxLen, NEW c \in Bytes, Write(fd, n, c) PROVE IInv'
  BY <1>8, WriteStep
<1> QED BY <1>1, <1>2, <1>3, <1>4, <1>5, <1>6, <1>7, <1>8 DEF Call

LEMMA NextInv == IInv /\ [Next]_vars => IInv'
<1> SUFFICES ASSUME IInv, [Next]_vars PROVE IInv'
  OBVIOUS
<1>1. CASE UNCHANGED vars
  <2>1. UNCHANGED <<diskVars, loaded, din, dirty>> /\ UNCHANGED <<node, pos, op, panic>>
    BY <1>1 DEF vars
  <2>2. StorePart'
    BY <2>1, Untouched DEF IInv
  <2>3. UNCHANGED <<dinode, loaded, node, pos, op, panic>>
    BY <2>1 DEF diskVars
  <2> QED BY <2>2, <2>3, SameCall DEF IInv
<1>2. CASE Resize
  BY <1>2, ResizeAddStep, ResizeNoSpaceStep, ResizeRemoveStep, ResizeDoneStep DEF Resize
<1>3. CASE Io
  BY <1>3, IoLoadStep, LoadPanicsStep, WritePieceStep, ReadPieceStep, IoDoneStep DEF Io
<1>4. CASE \E fd \in Fds : Call(fd)
  BY <1>4, CallStep
<1> QED BY <1>1, <1>2, <1>3, <1>4 DEF Next, Halted

-----------------------------------------------------------------------------
(* From the map to the references of each inode.                            *)

LEMMA ReferencesAre ==
    ASSUME SfsTypeOK, NEW i \in Files
    PROVE  /\ \A r : r \in References(i) <=> r \in Slots /\ Map[<<i, r>>] # 0
           /\ \A r \in Slots : Map[<<i, r>>] # 0 => Referred(i, r) = Map[<<i, r>>]
<1> DEFINE d == Current(i)
<1>1. Mapped(Map, Currents, disk) /\ Currents[i] = d /\ d \in Inode
  BY MapAt, CurrentTypes DEF Map
<1>2. /\ \A k \in 0..(SFS_NDIRECT - 1) : Map[<<i, <<"direct", k>>>>] = d.direct[k]
      /\ Map[<<i, <<"indirect", 0>>>>] = d.indirect
      /\ \A k \in Cells : Map[<<i, <<"entry", k>>>>] = Cell(d, disk, k)
      /\ DOMAIN d.direct = 0..(SFS_NDIRECT - 1)
  BY <1>1, InodeChanges DEF Mapped
<1>3. References(i) =
         {<<"direct", k>> : k \in {k \in DOMAIN d.direct : d.direct[k] # 0}}
           \cup (IF d.indirect = 0 THEN {} ELSE
                  {<<"indirect", 0>>} \cup
                  {<<"entry", k>> : k \in {k \in Cells : disk[d.indirect][k] # 0}})
  BY DEF References
<1>4. \A r : /\ Referred(i, <<"indirect", 0>>) = d.indirect
             /\ r[1] = "direct" => Referred(i, r) = d.direct[r[2]]
             /\ r[1] = "entry" => Referred(i, r) = disk[d.indirect][r[2]]
  BY DEF Referred
<1> HIDE DEF d
<1>5. ASSUME NEW r \in References(i) PROVE r \in Slots /\ Map[<<i, r>>] # 0
  <2>1. CASE r \in {<<"direct", k>> : k \in {k \in DOMAIN d.direct : d.direct[k] # 0}}
    <3>1. PICK k \in 0..(SFS_NDIRECT - 1) : r = <<"direct", k>> /\ d.direct[k] # 0
      BY <2>1, <1>2
    <3> QED BY <3>1, <1>2, SlotFacts
  <2>2. CASE r = <<"indirect", 0>> /\ d.indirect # 0
    BY <2>2, <1>2, SlotFacts
  <2>3. CASE /\ r \in {<<"entry", k>> : k \in {k \in Cells : disk[d.indirect][k] # 0}}
             /\ d.indirect # 0
    <3>1. PICK k \in Cells : r = <<"entry", k>> /\ disk[d.indirect][k] # 0
      BY <2>3
    <3> QED BY <3>1, <2>3, <1>2, SlotFacts DEF Cell
  <2> QED BY <2>1, <2>2, <2>3, <1>3
<1>6. ASSUME NEW r \in Slots, Map[<<i, r>>] # 0
      PROVE  r \in References(i) /\ Referred(i, r) = Map[<<i, r>>]
  <2>1. CASE r \in {"direct"} \X (0..(SFS_NDIRECT - 1))
    <3>1. PICK k \in 0..(SFS_NDIRECT - 1) : r = <<"direct", k>>
      BY <2>1
    <3>2. k \in DOMAIN d.direct /\ d.direct[k] # 0
      BY <3>1, <1>2, <1>6
    <3> QED BY <3>1, <3>2, <1>2, <1>3, <1>4
  <2>2. CASE r = <<"indirect", 0>>
    BY <2>2, <1>2, <1>3, <1>4, <1>6
  <2>3. CASE r \in {"entry"} \X Cells
    <3>1. PICK k \in Cells : r = <<"entry", k>>
      BY <2>3
    <3>2. d.indirect # 0 /\ disk[d.indirect][k] # 0 /\ Map[<<i, r>>] = disk[d.indirect][k]
      BY <3>1, <1>2, <1>6 DEF Cell
    <3> QED BY <3>1, <3>2, <1>3, <1>4
  <2> QED BY <2>1, <2>2, <2>3 DEF Slots
<1> QED BY <1>5, <1>6

LEMMA InvFreeMap == IInv => FreeMapOk
<1> SUFFICES ASSUME IInv PROVE FreeMapOk
  OBVIOUS
<1> DEFINE refs == {<<i, r>> : i \in Files, r \in UNION {References(i) : i \in Files}}
           used == {ir \in refs : ir[2] \in References(ir[1])}
<1>1. SfsTypeOK
  BY TypeCorrect
<1>2. /\ Map \in [Places -> 0..NBlocks] /\ freemap \subseteq BlockNos
      /\ \A x \in Places : Map[x] \notin freemap
      /\ \A x, y \in Places : Map[x] = Map[y] /\ Map[x] # 0 => x = y
      /\ \A b \in BlockNos \ freemap : \E x \in Places : Map[x] = b
      /\ unused_blocks = Cardinality(freemap)
  BY DEF IInv, StorePart, BlockPart, Agree, Owned
<1>3. ASSUME NEW x \in used
      PROVE  x \in Places /\ Map[x] # 0 /\ Referred(x[1], x[2]) = Map[x]
  <2>1. PICK i \in Files, r \in UNION {References(j) : j \in Files} : x = <<i, r>>
    OBVIOUS
  <2>2. r \in References(i)
    BY <2>1
  <2> QED BY <1>1, <2>1, <2>2, ReferencesAre DEF Places
<1>4. ASSUME NEW x \in Places, Map[x] # 0 PROVE x \in used
  <2>1. x = <<x[1], x[2]>> /\ x[1] \in Files /\ x[2] \in Slots
    BY DEF Places
  <2>2. x[2] \in References(x[1])
    BY <1>1, <1>4, <2>1, ReferencesAre
  <2> QED BY <2>1, <2>2
<1> HIDE DEF used
<1>5. \A x, y \in used : Referred(x[1], x[2]) = Referred(y[1], y[2]) => x = y
  BY <1>2, <1>3
<1>6. freemap = BlockNos \ {Referred(x[1], x[2]) : x \in used}
  <2>1. ASSUME NEW b \in freemap PROVE b \in BlockNos \ {Referred(x[1], x[2]) : x \in used}
    BY <1>2, <1>3
  <2>2. ASSUME NEW b \in BlockNos \ {Referred(x[1], x[2]) : x \in used} PROVE b \in freemap
    <3> SUFFICES ASSUME b \notin freemap PROVE FALSE
      OBVIOUS
    <3>1. PICK x \in Places : Map[x] = b
      BY <1>2
    <3>2. b # 0
      BY DEF BlockNos
    <3>3. x \in used
      BY <3>1, <3>2, <1>4
    <3> QED BY <3>1, <3>3, <1>3
  <2> QED BY <2>1, <2>2
<1>7. panic # "inuse"
  BY DEF IInv, PanicPart
<1>8. BlocksExact
  BY <1>2, <1>5, <1>6, <1>7 DEF BlocksExact, used
<1>9. ASSUME NEW i \in Files, NEW k \in 0..(Current(i).blocks - 1)
      PROVE  Block(Current(i), k) \notin freemap \cup {0}
  <2>1. Current(i).blocks \in 0..MaxIndex /\ MaxIndex \in Nat
    BY <1>1, CurrentTypes, MaxIndexNat
  <2>2. k \in 0..(MaxIndex - 1) /\ k < Current(i).blocks
    BY <2>1
  <2> QED BY <1>1, <2>2, BlockUsed DEF IInv, StorePart
<1> QED BY <1>1, <1>8, <1>9 DEF FreeMapOk

-----------------------------------------------------------------------------
(* The map, the free blocks, the counts and the inodes that are not dirty   *)
(* agree whatever calls are made, wherever the disk runs full.              *)
THEOREM SfsCorrect == Spec => []IInv
  BY InitInv, NextInv, PTL DEF Spec

(* Every block is free or in one place of one file, the superblock counts   *)
(* the free ones, no file has a hole, and no assertion on a block in use    *)
(* fails (sfs_block_alloc, sfs_block_free, sfs_bmap_load_nolock).           *)
THEOREM FreeMapExact == Spec => []FreeMapOk
  BY SfsCorrect, InvFreeMap, PTL

-----------------------------------------------------------------------------
(* The index of a position in a file, and how many blocks a size needs.      *)

(* A later position is in the same block or a later one.                     *)
LEMMA IndexGrows ==
    ASSUME NEW B \in Nat \ {0}, NEW i \in Nat, NEW j \in Nat, i <= j
    PROVE  i \div B <= j \div B
<1> DEFINE k == (i \div B) - (j \div B)
<1>1. /\ i \div B \in Nat /\ i % B \in 0..(B - 1) /\ i = B * (i \div B) + (i % B)
      /\ j \div B \in Nat /\ j % B \in 0..(B - 1) /\ j = B * (j \div B) + (j % B)
  BY DivMod
<1>2. i - j = B * k + ((i % B) - (j % B))
  BY <1>1, Factor
<1>3. k \in Int
  BY <1>1
<1>4. k >= 1 <=> ~(i \div B <= j \div B)
  BY <1>1
<1>5. B * k \in Int /\ (k >= 1 => B * k >= B)
  BY <1>3, Multiple
<1> HIDE DEF k
<1> QED BY <1>1, <1>2, <1>4, <1>5

(* The block and the cell of a position determine it.                        *)
LEMMA IndexUnique ==
    ASSUME NEW B \in Nat \ {0}, NEW q \in Nat, NEW r \in 0..(B - 1)
    PROVE  /\ B * q + r \in Nat
           /\ (B * q + r) \div B = q /\ (B * q + r) % B = r
<1> DEFINE j == B * q + r
           k == q - (j \div B)
<1>1. B * q \in Nat /\ j \in Nat
  <2>1. \A a, b \in Nat : a * b \in Nat
    OBVIOUS
  <2> QED BY <2>1
<1> HIDE DEF j
<1>2. j \div B \in Nat /\ j % B \in 0..(B - 1) /\ j = B * (j \div B) + (j % B)
  BY <1>1, DivMod
<1>3. k \in Int /\ B * k = (j % B) - r
  <2>1. B * q - B * (j \div B) = B * k
    BY <1>2, Factor
  <2>2. B * (j \div B) \in Nat
    BY <1>1, <1>2
  <2> QED BY <1>1, <1>2, <2>1, <2>2 DEF j
<1> HIDE DEF k
<1>4. k = 0
  BY <1>2, <1>3, Multiple
<1>5. (j % B) - r = 0
  <2>1. B * 0 = 0
    OBVIOUS
  <2> QED BY <1>3, <1>4, <2>1
<1>6. q = j \div B
  BY <1>2, <1>4 DEF k
<1>7. j % B = r
  BY <1>2, <1>5
<1> QED BY <1>1, <1>6, <1>7 DEF j

(* ROUNDUP_DIV counts the blocks that n bytes need: enough for every         *)
(* position below n, never more than a number that is enough, and it grows   *)
(* with n.                                                                   *)
LEMMA Rounding ==
    ASSUME NEW n \in Nat
    PROVE  /\ RoundUpDiv(n) \in Nat
           /\ \A j \in Nat : j < n => j \div SFS_BLKSIZE < RoundUpDiv(n)
           /\ \A m \in Nat : m <= n => RoundUpDiv(m) <= RoundUpDiv(n)
           /\ \A q \in Nat : n <= SFS_BLKSIZE * q => RoundUpDiv(n) <= q
<1> DEFINE B == SFS_BLKSIZE
<1>1. B \in Nat \ {0}
  BY SfsAssumption
<1>2. \A m \in Nat : RoundUpDiv(m) = (m + B - 1) \div B
  BY DEF RoundUpDiv
<1> HIDE DEF B
<1>3. n + B - 1 \in Nat
  BY <1>1
<1>4. RoundUpDiv(n) \in Nat
  BY <1>1, <1>2, <1>3, DivMod
<1>5. ASSUME NEW j \in Nat, j < n PROVE j \div B < RoundUpDiv(n)
  <2>1. j \div B \in Nat /\ j % B \in 0..(B - 1) /\ j = B * (j \div B) + (j % B)
    BY <1>1, DivMod
  <2> DEFINE q == j \div B
  <2>2. B * (q + 1) - B * q = B * ((q + 1) - q) /\ (q + 1) - q = 1 /\ B * 1 = B
    BY <1>1, <2>1, Factor
  <2>3. q + 1 \in Nat /\ q \in Nat
    BY <2>1
  <2>4. B * (q + 1) \in Nat /\ B * q \in Nat
    <3>1. \A a, b \in Nat : a * b \in Nat
      OBVIOUS
    <3> QED BY <1>1, <2>3, <3>1
  <2> HIDE DEF q
  <2>5. B * (q + 1) + (j % B) = j + B
    BY <1>1, <2>1, <2>2, <2>4 DEF q
  <2>6. (j + B) \div B = q + 1
    <3> DEFINE r == j % B
               s == q + 1
    <3>1. r \in 0..(B - 1) /\ s \in Nat /\ B * s + r = j + B
      BY <2>1, <2>3, <2>5
    <3> HIDE DEF r, s
    <3>2. (B * s + r) \div B = s
      BY <1>1, <3>1, IndexUnique
    <3> QED BY <3>1, <3>2 DEF s
  <2>7. (j + B) \div B <= (n + B - 1) \div B
    <3>1. j + B \in Nat /\ j + B <= n + B - 1
      BY <1>1, <1>5
    <3> QED BY <1>1, <1>3, <3>1, IndexGrows
  <2>8. RoundUpDiv(n) = (n + B - 1) \div B
    BY <1>2
  <2>9. q + 1 <= RoundUpDiv(n)
    BY <2>6, <2>7, <2>8
  <2>10. q < RoundUpDiv(n)
    BY <1>4, <2>3, <2>9
  <2> QED BY <2>10 DEF q
<1>6. ASSUME NEW m \in Nat, m <= n PROVE RoundUpDiv(m) <= RoundUpDiv(n)
  <2>1. m + B - 1 \in Nat /\ m + B - 1 <= n + B - 1
    BY <1>1, <1>6
  <2> QED BY <1>1, <1>2, <1>3, <2>1, IndexGrows
<1>7. ASSUME NEW q \in Nat, n <= B * q PROVE RoundUpDiv(n) <= q
  <2>1. B - 1 \in 0..(B - 1)
    BY <1>1
  <2>2. B * q + (B - 1) \in Nat /\ (B * q + (B - 1)) \div B = q
    BY <1>1, <2>1, IndexUnique
  <2>3. B * q \in Nat
    <3>1. \A a, b \in Nat : a * b \in Nat
      OBVIOUS
    <3> QED BY <1>1, <3>1
  <2>4. n + B - 1 <= B * q + (B - 1)
    BY <1>1, <1>7, <2>3
  <2> QED BY <1>1, <1>2, <1>3, <2>2, <2>4, IndexGrows
<1> QED BY <1>4, <1>5, <1>6, <1>7 DEF B

(* An empty file needs no block.                                             *)
LEMMA RoundZero == RoundUpDiv(0) = 0
<1>1. 0 <= SFS_BLKSIZE * 0
  BY SfsAssumption
<1>2. RoundUpDiv(0) \in Nat /\ RoundUpDiv(0) <= 0
  BY <1>1, Rounding
<1> QED BY <1>2

(* The positions of one piece are in one block, each in a cell of its own.   *)
LEMMA PiecePositions ==
    ASSUME NEW off \in Nat, NEW end \in Nat, off < end,
           NEW e, e = Smaller(end, (off \div SFS_BLKSIZE + 1) * SFS_BLKSIZE)
    PROVE  /\ e \in Nat /\ off < e /\ e <= end /\ e - off <= SFS_BLKSIZE
           /\ off \div SFS_BLKSIZE \in Nat /\ RoundUpDiv(e) <= off \div SFS_BLKSIZE + 1
           /\ \A j \in off..(e - 1) : j \div SFS_BLKSIZE = off \div SFS_BLKSIZE
           /\ \A j \in Nat : j \div SFS_BLKSIZE = off \div SFS_BLKSIZE =>
                 (j \in off..(e - 1) <=> \E i \in off..(e - 1) : j % SFS_BLKSIZE = i % SFS_BLKSIZE)
<1> DEFINE B == SFS_BLKSIZE
           q == off \div B
           p == (q + 1) * B
<1>1. B \in Nat \ {0}
  BY SfsAssumption
<1>2. e = IF end < p THEN end ELSE p
  BY DEF Smaller
<1> HIDE DEF B
<1>3. q \in Nat /\ off % B \in 0..(B - 1) /\ off = B * q + (off % B)
  BY <1>1, DivMod
<1> HIDE DEF q
<1>4. B * q \in Nat /\ p = B * q + B /\ p \in Nat /\ p = B * (q + 1)
  <2>1. \A a, b \in Nat : a * b \in Nat /\ a * b = b * a
    OBVIOUS
  <2>2. q + 1 \in Nat /\ (q + 1) - q = 1 /\ B * 1 = B
    BY <1>1, <1>3
  <2>3. B * (q + 1) - B * q = B * ((q + 1) - q)
    BY <1>1, <1>3, <2>2, Factor
  <2>4. B * (q + 1) \in Nat /\ B * q \in Nat /\ p = B * (q + 1)
    BY <1>1, <1>3, <2>1, <2>2
  <2> QED BY <1>1, <2>2, <2>3, <2>4
<1> HIDE DEF p
<1>5. e \in Nat /\ off < e /\ e <= end /\ e <= p /\ e - off <= B
  BY <1>1, <1>2, <1>3, <1>4
<1>6. RoundUpDiv(e) <= q + 1
  <2>1. q + 1 \in Nat /\ e <= SFS_BLKSIZE * (q + 1)
    BY <1>3, <1>4, <1>5 DEF B
  <2> QED BY <1>5, <2>1, Rounding
<1>7. ASSUME NEW j \in off..(e - 1) PROVE j \div B = q /\ j % B = j - B * q
  <2> DEFINE r == j - B * q
  <2>1. r \in 0..(B - 1) /\ B * q + r = j
    BY <1>1, <1>3, <1>4, <1>5
  <2> HIDE DEF r
  <2>2. (B * q + r) \div B = q /\ (B * q + r) % B = r
    BY <1>1, <1>3, <2>1, IndexUnique
  <2> QED BY <2>1, <2>2 DEF r
<1>8. ASSUME NEW j \in Nat, j \div B = q, NEW i \in off..(e - 1), j % B = i % B
      PROVE  j \in off..(e - 1)
  <2>1. j = B * q + (j % B)
    BY <1>1, <1>8, DivMod
  <2>2. i % B = i - B * q
    BY <1>7
  <2> QED BY <1>4, <1>8, <2>1, <2>2
<1> QED BY <1>3, <1>5, <1>6, <1>7, <1>8 DEF B, q

-----------------------------------------------------------------------------
(* What keeps the bytes of a file right.                                    *)

Fits(n) == RoundUpDiv(n) <= MaxIndex

Positions == {j \in Nat : j \div SFS_BLKSIZE < MaxIndex}

ByteAt(i, j) == Holds(i, j \div SFS_BLKSIZE, j % SFS_BLKSIZE)

(* The call in progress is on file i; it is to become empty; a write has    *)
(* come further than the size that is set at its end.                       *)
On(i) == op # None /\ node[op.fd] = i
Truncating(i) == On(i) /\ op.kind = "resize" /\ op.len = 0
Extending(i) == On(i) /\ op.kind = "write" /\ op.off > din[i].size

(* Whatever is in a block, 0 is read behind the end, unless the file is just *)
(* being made empty.                                                        *)
TailClear(i) ==
    ~Truncating(i) => \A j \in Positions : j >= Length(i) => ByteAt(i, j) = 0

ZeroFrom(i, n) == \A k \in n..(MaxIndex - 1) : \A c \in Cells : Holds(i, k, c) = 0

(* An entry that a file has beyond its number of blocks (from a call that   *)
(* failed, or from blocks that were not counted on the disk) holds zeroes.  *)
SpareClear(i) == ZeroFrom(i, Current(i).blocks)

(* An inode that is not dirty was saved with this size, and the blocks it   *)
(* has got since hold nothing but zeroes.                                   *)
SavedClear(i) ==
    i \in loaded /\ ~dirty[i] =>
        /\ din[i].size = dinode[i].size
        /\ RoundUpDiv(din[i].size) > dinode[i].blocks => din[i].blocks = dinode[i].blocks
        /\ ~Extending(i) => ZeroFrom(i, dinode[i].blocks)

FileOk(i) == TailClear(i) /\ SpareClear(i) /\ SavedClear(i)

SizesFit == \A i \in Files : Fits(din[i].size) /\ Fits(dinode[i].size)
PositionsFit == \A fd \in Fds : Fits(pos[fd])

CallOk ==
    op # None =>
        LET d == din[node[op.fd]] IN
        /\ op.kind = "resize" /\ op.len # 0 => op.len > d.size
        /\ op.kind = "read" => op.end <= d.size
        /\ op.kind \in {"read", "write"} => Fits(op.off)
        /\ op.kind = "write" /\ op.off = op.end => RoundUpDiv(op.off) <= d.blocks

FilesOk == \A i \in Files : FileOk(i)

ByteInv == SizesFit /\ PositionsFit /\ CallOk /\ FilesOk

(* A position that an inode can hold has an index and a cell.                *)
LEMMA PositionIs ==
    ASSUME NEW j \in Positions
    PROVE  /\ j \in Nat /\ j \div SFS_BLKSIZE \in 0..(MaxIndex - 1) /\ j % SFS_BLKSIZE \in Cells
<1>1. SFS_BLKSIZE \in Nat \ {0} /\ j \in Nat /\ j \div SFS_BLKSIZE < MaxIndex /\ MaxIndex \in Nat
  BY SfsAssumption, MaxIndexNat DEF Positions
<1>2. j \div SFS_BLKSIZE \in Nat /\ j % SFS_BLKSIZE \in 0..(SFS_BLKSIZE - 1)
  BY <1>1, DivMod
<1> QED BY <1>1, <1>2 DEF Cells

(* What Length means for the call in progress.                              *)
Lengths(i) ==
    /\ ~On(i) => Length(i) = Current(i).size
    /\ On(i) /\ op.kind = "resize" => Length(i) = Smaller(din[i].size, op.len)
    /\ On(i) /\ op.kind \in {"read", "write"} => Length(i) = Larger(din[i].size, op.off)
    /\ On(i) => i \in loaded /\ Current(i) = din[i]
    /\ op # None => op.kind \in {"resize", "read", "write"}
    /\ Current(i) \in Inode /\ Current(i).size \in Nat /\ Current(i).blocks \in 0..MaxIndex
    /\ Length(i) \in Nat /\ Current(i).blocks \in Nat

(* Which of the sizes Length is, by the call in progress.                    *)
LEMMA LengthIs == ASSUME IInv, NEW i \in Files PROVE Lengths(i)
<1>1. op # None => op.fd \in Fds /\ node[op.fd] \in loaded
  BY Caller
<1>2. On(i) <=> ~(op = None \/ op.fd \notin {fd \in Fds : node[fd] = i})
  BY <1>1 DEF On
<1>3. On(i) => i \in loaded /\ Current(i) = din[i]
  BY <1>1 DEF On, Current
<1>4. op # None => op.kind \in {"resize", "read", "write"}
  BY DEF IInv, OpPart
<1>5. Current(i) \in Inode
  BY DEF IInv, StorePart, PosPart, Current
<1>6. Current(i).size \in Nat /\ Current(i).blocks \in 0..MaxIndex
  BY <1>5, SfsAssumption DEF Inode
<1>7. /\ ~On(i) => Length(i) = Current(i).size
      /\ On(i) /\ op.kind = "resize" => Length(i) = Smaller(din[i].size, op.len)
      /\ On(i) /\ op.kind \in {"read", "write"} => Length(i) = Larger(din[i].size, op.off)
  BY <1>2, <1>3, <1>4 DEF Length
<1>8. Length(i) \in Nat
  <2>1. On(i) /\ op.kind = "resize" => op.len \in Nat
    BY Kinds, SfsAssumption
  <2>2. On(i) /\ op.kind \in {"read", "write"} => op.off \in Nat
    BY Kinds
  <2>3. On(i) => op # None
    BY DEF On
  <2> QED BY <1>3, <1>4, <1>6, <1>7, <2>1, <2>2, <2>3 DEF Smaller, Larger
<1>9. Current(i).blocks \in Nat
  BY <1>6, MaxIndexNat
<1> QED BY <1>3, <1>4, <1>5, <1>6, <1>7, <1>8, <1>9 DEF Lengths

(* Every position below the length has an index that the inode can hold.     *)
LEMMA LengthFits ==
    ASSUME IInv, ByteInv, NEW i \in Files
    PROVE  /\ Length(i) \in Nat /\ Fits(Length(i))
           /\ \A j \in 0..(Length(i) - 1) : j \in Positions
<1>1. MaxIndex \in Nat /\ Fits(Current(i).size)
  BY MaxIndexNat DEF ByteInv, SizesFit, Current
<1>2. /\ op # None => op.fd \in Fds
      /\ On(i) /\ op.kind = "resize" => op.len \in Nat
      /\ On(i) /\ op.kind \in {"read", "write"} => op.off \in Nat /\ Fits(op.off)
  BY Kinds, Caller, SfsAssumption DEF On, ByteInv, CallOk
<1>3. Length(i) \in Nat /\ Fits(Length(i))
  <2>1. CASE ~On(i)
    BY <2>1, <1>1, LengthIs DEF Lengths
  <2>2. CASE On(i) /\ op.kind = "resize"
    <3>1. Length(i) \in Nat /\ Length(i) <= Current(i).size /\ Current(i).size \in Nat
      BY <2>2, <1>2, LengthIs DEF Lengths, Smaller
    <3>2. RoundUpDiv(Length(i)) <= RoundUpDiv(Current(i).size)
      BY <3>1, Rounding
    <3>3. RoundUpDiv(Length(i)) \in Nat /\ RoundUpDiv(Current(i).size) \in Nat
      BY <3>1, Rounding
    <3> QED BY <1>1, <3>1, <3>2, <3>3 DEF Fits
  <2>3. CASE On(i) /\ op.kind \in {"read", "write"}
    BY <2>3, <1>1, <1>2, LengthIs DEF Lengths, Larger
  <2> QED BY <2>1, <2>2, <2>3, LengthIs DEF Lengths, On
<1>4. ASSUME NEW j \in 0..(Length(i) - 1) PROVE j \in Positions
  <2>1. j \in Nat /\ j < Length(i)
    BY <1>3
  <2>2. j \div SFS_BLKSIZE < RoundUpDiv(Length(i)) /\ RoundUpDiv(Length(i)) \in Nat
    BY <1>3, <2>1, Rounding
  <2>3. j \div SFS_BLKSIZE \in Nat
    BY <2>1, IndexNat
  <2> QED BY <1>1, <1>3, <2>1, <2>2, <2>3 DEF Positions, Fits
<1> QED BY <1>3, <1>4

(* The contents are the bytes up to the length.                              *)
LEMMA ContentsAre ==
    ASSUME IInv, ByteInv, NEW i \in Files
    PROVE  /\ Contents(i) = [j \in 1..Length(i) |-> ByteAt(i, j - 1)]
           /\ Length(i) \in Nat
<1>1. /\ Length(i) \in Nat
      /\ \A j \in 0..(Length(i) - 1) : j \in Positions
  BY LengthFits
<1>2. ASSUME NEW j \in 1..Length(i)
      PROVE  (LET b == Block(Current(i), (j - 1) \div SFS_BLKSIZE) IN
              IF b = 0 THEN 0 ELSE disk[b][(j - 1) % SFS_BLKSIZE]) = ByteAt(i, j - 1)
  <2>1. j - 1 \in Positions
    BY <1>1
  <2>2. (j - 1) \div SFS_BLKSIZE \in 0..(MaxIndex - 1)
    BY <2>1, PositionIs
  <2>3. Block(Current(i), (j - 1) \div SFS_BLKSIZE) = Map[<<i, SlotOf((j - 1) \div SFS_BLKSIZE)>>]
    BY <2>2, BlockIs, TypeCorrect
  <2> QED BY <2>3 DEF ByteAt, Holds, Held
<1> QED BY <1>1, <1>2 DEF Contents

LengthsAll == \A i \in Files : Lengths(i)

Shown(i) ==
    /\ Length(i) \in Nat
    /\ Contents(i) = [j \in 1..Length(i) |-> ByteAt(i, j - 1)]
    /\ \A j \in 0..(Length(i) - 1) : j \in Positions

ShownAll == \A i \in Files : Shown(i)

(* The facts of the two states of a step, for all files.                     *)
LEMMA LengthsNow == IInv => LengthsAll
  BY LengthIs DEF LengthsAll

LEMMA LengthsThen == IInv' => LengthsAll'
  BY LengthsNow, PTL

LEMMA ShownNow == IInv /\ ByteInv => ShownAll
  BY ContentsAre, LengthFits DEF ShownAll, Shown

LEMMA ShownThen == IInv' /\ ByteInv' => ShownAll'
  BY ShownNow, PTL

-----------------------------------------------------------------------------
(* The variables of the ideal files.                                        *)

Image == [i \in Files |-> Contents(i)]
Where == [fd \in Fds |-> Position(fd)]
Got == IF op # None /\ op.kind = "read" THEN op.buf ELSE <<>>

IdealStep == [Ideal!ByteNext]_<<Image, node, Where, Got>>

(* Each step of the ideal files, in terms of the variables as mapped.        *)
LEMMA StutterStep ==
    ASSUME Image' = Image, node' = node, Where' = Where, Got' = Got PROVE IdealStep
  BY DEF IdealStep

LEMMA OpenIdeal ==
    ASSUME NEW fd \in Fds, NEW i \in Files, node[fd] = NULL,
           node' = [node EXCEPT ![fd] = i],
           NEW p, p \in {0, Len(Image[i])}, Where' = [Where EXCEPT ![fd] = p],
           Image' = Image, Got' = Got
    PROVE  IdealStep
<1>1. Ideal!Open(fd, i)
  BY DEF Ideal!Open, Image, Where, Got
<1> QED BY <1>1 DEF IdealStep, Ideal!ByteNext

LEMMA OpenTruncatedIdeal ==
    ASSUME NEW fd \in Fds, NEW i \in Files, node[fd] = NULL,
           node' = [node EXCEPT ![fd] = i], Where' = [Where EXCEPT ![fd] = 0],
           Image' = [Image EXCEPT ![i] = <<>>], Got' = Got
    PROVE  IdealStep
<1>1. Ideal!OpenTruncated(fd, i)
  BY DEF Ideal!OpenTruncated, Image, Where, Got
<1> QED BY <1>1 DEF IdealStep, Ideal!ByteNext

LEMMA DupIdeal ==
    ASSUME NEW fd \in Fds, NEW from \in Fds, node[fd] = NULL, node[from] # NULL,
           node' = [node EXCEPT ![fd] = node[from]],
           Where' = [Where EXCEPT ![fd] = Where[from]],
           Image' = Image, Got' = Got
    PROVE  IdealStep
<1>1. Ideal!Dup(fd, from)
  BY DEF Ideal!Dup, Image, Where, Got
<1> QED BY <1>1 DEF IdealStep, Ideal!ByteNext

LEMMA CloseIdeal ==
    ASSUME NEW fd \in Fds, node[fd] # NULL,
           node' = [node EXCEPT ![fd] = NULL], Where' = [Where EXCEPT ![fd] = 0],
           Image' = Image, Got' = Got
    PROVE  IdealStep
<1>1. Ideal!Close(fd)
  BY DEF Ideal!Close, Image, Where, Got
<1> QED BY <1>1 DEF IdealStep, Ideal!ByteNext

Written(f, p, n, c) ==
    LET g == Ideal!Sized(f, IF p + n > Len(f) THEN p + n ELSE Len(f)) IN
    [j \in DOMAIN g |-> IF j \in (p + 1)..(p + n) THEN c ELSE g[j]]

LEMMA WriteIdeal ==
    ASSUME NEW fd \in Fds, node[fd] # NULL, NEW n \in 0..SFS_BLKSIZE, NEW c \in Bytes,
           node' = node, Where' = [Where EXCEPT ![fd] = Where[fd] + n],
           Image' = [Image EXCEPT ![node[fd]] = Written(Image[node[fd]], Where[fd], n, c)],
           Got' = Got
    PROVE  IdealStep
<1>1. Ideal!Write(fd, n, c)
  BY DEF Ideal!Write, Image, Where, Got, Written
<1> QED BY <1>1 DEF IdealStep, Ideal!ByteNext

LEMMA ReadIdeal ==
    ASSUME NEW fd \in Fds, node[fd] # NULL, NEW n \in 0..SFS_BLKSIZE,
           Where[fd] + n <= Len(Image[node[fd]]),
           node' = node, Where' = [Where EXCEPT ![fd] = Where[fd] + n], Image' = Image,
           Got' = Got \o SubSeq(Image[node[fd]], Where[fd] + 1, Where[fd] + n)
    PROVE  IdealStep
<1>1. Ideal!Read(fd, n)
  BY DEF Ideal!Read, Image, Where, Got
<1> QED BY <1>1 DEF IdealStep, Ideal!ByteNext

LEMMA EndReadIdeal ==
    ASSUME Image' = Image, node' = node, Where' = Where, Got' = <<>> PROVE IdealStep
<1>1. Ideal!EndRead
  BY DEF Ideal!EndRead, Image, Where, Got
<1> QED BY <1>1 DEF IdealStep, Ideal!ByteNext

Stretched(f, p) == Ideal!Sized(f, IF p > Len(f) THEN p ELSE Len(f))

LEMMA SeekIdeal ==
    ASSUME NEW fd \in Fds, node[fd] # NULL, NEW p \in 0..SFS_MAX_FILE_SIZE,
           node' = node, Where' = [Where EXCEPT ![fd] = p],
           Image' = [Image EXCEPT ![node[fd]] = Stretched(Image[node[fd]], p)], Got' = Got
    PROVE  IdealStep
<1>1. Ideal!Seek(fd, p)
  BY DEF Ideal!Seek, Image, Where, Got, Stretched
<1> QED BY <1>1 DEF IdealStep, Ideal!ByteNext

-----------------------------------------------------------------------------
(* Files whose bytes and inodes a step leaves alone.                        *)

BytesSame(i) == \A k \in 0..(MaxIndex - 1) : \A c \in Cells : Holds(i, k, c)' = Holds(i, k, c)

AtSame(i) == \A j \in Positions : ByteAt(i, j)' = ByteAt(i, j)
Same(i) == Length(i)' = Length(i) /\ \A j \in Positions : ByteAt(i, j)' = ByteAt(i, j)

(* Files whose blocks hold the same show the same bytes.                     *)
LEMMA BytesAt ==
    ASSUME NEW i \in Files, BytesSame(i)
    PROVE  \A j \in Positions : ByteAt(i, j)' = ByteAt(i, j)
  BY PositionIs DEF BytesSame, ByteAt

(* The same length and the same bytes are the same contents.                 *)
LEMMA ImageSame ==
    ASSUME IInv, ByteInv, IInv', ByteInv', NEW i \in Files, Same(i)
    PROVE  Contents(i)' = Contents(i)
<1>1. Shown(i) /\ Shown(i)'
  BY ShownNow, ShownThen DEF ShownAll
<1>2. Length(i)' = Length(i) /\ \A j \in Positions : ByteAt(i, j)' = ByteAt(i, j)
  BY DEF Same
<1>3. \A j \in 1..Length(i) : ByteAt(i, j - 1)' = ByteAt(i, j - 1)
  <2> SUFFICES ASSUME NEW j \in 1..Length(i) PROVE ByteAt(i, j - 1)' = ByteAt(i, j - 1)
    OBVIOUS
  <2>1. j - 1 \in 0..(Length(i) - 1)
    BY <1>1 DEF Shown
  <2> QED BY <2>1, <1>1, <1>2 DEF Shown
<1>4. Contents(i)' = [j \in 1..Length(i)' |-> ByteAt(i, j - 1)']
  BY <1>1 DEF Shown
<1>5. Contents(i) = [j \in 1..Length(i) |-> ByteAt(i, j - 1)]
  BY <1>1 DEF Shown
<1> QED BY <1>2, <1>3, <1>4, <1>5

ZeroThen(i, n) == \A k \in n..(MaxIndex - 1) : \A c \in Cells : Holds(i, k, c)' = 0

(* Zeroes stay where the blocks hold the same.                               *)
LEMMA ZeroSame ==
    ASSUME NEW i \in Files, BytesSame(i), NEW n \in Nat, NEW m \in Nat, n <= m, ZeroFrom(i, n)
    PROVE  ZeroThen(i, m)
<1> SUFFICES ASSUME NEW k \in m..(MaxIndex - 1), NEW c \in Cells PROVE Holds(i, k, c)' = 0
  BY DEF ZeroThen
<1>1. k \in n..(MaxIndex - 1) /\ k \in 0..(MaxIndex - 1)
  BY MaxIndexNat
<1> QED BY <1>1 DEF ZeroFrom, BytesSame

Rests(i) ==
    /\ din'[i] = din[i] /\ dinode'[i] = dinode[i] /\ dirty'[i] = dirty[i]
    /\ i \in loaded' <=> i \in loaded
    /\ BytesSame(i)

Calmer(i) ==
    /\ Truncating(i) => Truncating(i)'
    /\ ~Truncating(i)' => Length(i) <= Length(i)'
    /\ Extending(i) => Extending(i)'

(* A file whose inode and bytes a step leaves alone stays right.             *)
LEMMA RestingFile ==
    ASSUME IInv, IInv', NEW i \in Files, FileOk(i), Rests(i), Calmer(i)
    PROVE  FileOk(i)'
<1>0. Lengths(i) /\ Lengths(i)'
  BY LengthsNow, LengthsThen DEF LengthsAll
<1>1. Current(i)' = Current(i)
  BY DEF Rests, Current
<1>2. \A j \in Positions : ByteAt(i, j)' = ByteAt(i, j)
  BY BytesAt DEF Rests
<1>3. TailClear(i)'
  <2> SUFFICES ASSUME ~Truncating(i)', NEW j \in Positions, j >= Length(i)'
               PROVE  ByteAt(i, j)' = 0
    BY DEF TailClear
  <2>1. ~Truncating(i) /\ Length(i) <= Length(i)'
    BY DEF Calmer
  <2>2. Length(i) \in Nat /\ Length(i)' \in Nat /\ j \in Nat
    BY <1>0, PositionIs DEF Lengths
  <2> QED BY <2>1, <2>2, <1>2 DEF FileOk, TailClear
<1>4. SpareClear(i)'
  <2>1. ZeroThen(i, Current(i).blocks)
    BY <1>0, ZeroSame DEF FileOk, SpareClear, Rests, Lengths
  <2> QED BY <1>1, <2>1 DEF SpareClear, ZeroFrom, ZeroThen
<1>5. SavedClear(i)'
  <2> SUFFICES ASSUME i \in loaded', ~dirty'[i]
               PROVE  /\ din'[i].size = dinode'[i].size
                      /\ RoundUpDiv(din'[i].size) > dinode'[i].blocks =>
                            din'[i].blocks = dinode'[i].blocks
                      /\ ~Extending(i)' => ZeroThen(i, dinode'[i].blocks)
    BY DEF SavedClear, ZeroFrom, ZeroThen
  <2>1. SavedClear(i) /\ i \in loaded /\ ~dirty[i]
    BY DEF FileOk, Rests
  <2>2. dinode[i].blocks \in Nat
    BY MaxIndexNat DEF IInv, PosPart, Inode
  <2>3. ~Extending(i)' => ZeroThen(i, dinode[i].blocks)
    BY <2>1, <2>2, ZeroSame DEF SavedClear, Calmer, Rests
  <2> QED BY <2>1, <2>3 DEF SavedClear, Rests
<1> QED BY <1>3, <1>4, <1>5 DEF FileOk

(* A file's bytes are those of its blocks.                                   *)
LEMMA MapKept ==
    ASSUME Map' = Map, disk' = disk, NEW i \in Files PROVE BytesSame(i)
  BY DEF BytesSame, Holds

(* A file that no call works on shows the same before and after.             *)
LEMMA OffCall ==
    ASSUME IInv, IInv', NEW i \in Files, ~On(i), ~On(i)', Rests(i)
    PROVE  Calmer(i) /\ Same(i)
<1>1. Lengths(i) /\ Lengths(i)'
  BY LengthsNow, LengthsThen DEF LengthsAll
<1>2. Current(i)' = Current(i)
  BY DEF Rests, Current
<1>3. Length(i)' = Length(i) /\ Length(i) \in Nat
  BY <1>1, <1>2 DEF Lengths
<1>4. \A j \in Positions : ByteAt(i, j)' = ByteAt(i, j)
  BY BytesAt DEF Rests
<1>5. ~Truncating(i) /\ ~Extending(i)
  BY DEF Truncating, Extending
<1> QED BY <1>3, <1>4, <1>5 DEF Calmer, Same

(* Nothing in the store changes.                                            *)
Still == UNCHANGED <<diskVars, loaded, din, dirty>>

(* A step that leaves the store alone leaves every file alone.               *)
LEMMA StillRests == ASSUME Still, NEW i \in Files PROVE Rests(i)
<1>1. Currents' = Currents
  BY DEF Still, Currents, Current, diskVars
<1>2. Map' = Map /\ disk' = disk
  BY <1>1 DEF Map, MapOf, At, Still, diskVars
<1>3. BytesSame(i)
  BY <1>2, MapKept
<1> QED BY <1>3 DEF Rests, Still, diskVars

AllCalm == \A i \in Files : Calmer(i)
AllSame == \A i \in Files : Same(i)

(* Nothing that a reader can see has changed.                                *)
LEMMA AllImages ==
    ASSUME IInv, ByteInv, IInv', ByteInv', AllSame PROVE Image' = Image
<1>1. \A i \in Files : Contents(i)' = Contents(i)
  BY ImageSame DEF AllSame
<1> QED BY <1>1 DEF Image

(* A step that leaves the store alone keeps the bytes right.                 *)
LEMMA StillInv ==
    ASSUME IInv, ByteInv, IInv', Still, AllCalm, PositionsFit', CallOk'
    PROVE  ByteInv'
<1>1. SizesFit'
  BY DEF ByteInv, SizesFit, Fits, Still, diskVars
<1>2. ASSUME NEW i \in Files PROVE FileOk(i)'
  BY StillRests, RestingFile DEF ByteInv, FilesOk, AllCalm
<1>3. FilesOk'
  BY <1>2 DEF FilesOk
<1> QED BY <1>1, <1>3 DEF ByteInv

(* One file's contents after a write, a seek or a cut.                      *)
LEMMA StretchedImage ==
    ASSUME IInv, ByteInv, IInv', ByteInv', NEW i \in Files, NEW p \in Nat,
           Length(i)' = Larger(Length(i), p),
           \A j \in Positions : ByteAt(i, j)' = ByteAt(i, j),
           \A j \in Positions : j >= Length(i) /\ j < Length(i)' => ByteAt(i, j) = 0
    PROVE  Contents(i)' = Stretched(Contents(i), p)
<1> DEFINE m == Length(i)
           n == Length(i)'
           f == Contents(i)
<1>1. /\ m \in Nat /\ n \in Nat
      /\ Contents(i)' = [j \in 1..n |-> ByteAt(i, j - 1)']
      /\ f = [j \in 1..m |-> ByteAt(i, j - 1)]
      /\ \A j \in 0..(n - 1) : j \in Positions
  BY ShownNow, ShownThen DEF ShownAll, Shown
<1>2. n = IF p > m THEN p ELSE m
  BY <1>1 DEF Larger
<1>3. Len(f) = m /\ DOMAIN f = 1..m
  BY <1>1
<1>4. Stretched(f, p) = [j \in 1..n |-> IF j \in 1..m THEN f[j] ELSE 0]
  BY <1>2, <1>3 DEF Stretched, Ideal!Sized
<1>5. ASSUME NEW j \in 1..n
      PROVE  ByteAt(i, j - 1)' = IF j \in 1..m THEN ByteAt(i, j - 1) ELSE 0
  <2>1. j - 1 \in Positions
    BY <1>1
  <2>2. j \notin 1..m => j - 1 >= Length(i) /\ j - 1 < Length(i)'
    BY <1>1
  <2>3. ByteAt(i, j - 1)' = ByteAt(i, j - 1)
    BY <2>1
  <2> QED BY <2>1, <2>2, <2>3
<1>6. \A j \in 1..m : f[j] = ByteAt(i, j - 1)
  BY <1>1
<1>7. Contents(i)' = [j \in 1..n |-> IF j \in 1..m THEN f[j] ELSE 0]
  BY <1>1, <1>5, <1>6
<1> QED BY <1>4, <1>7

(* Contents that have got n bytes v at p (sfs_io_nolock).                    *)
LEMMA WrittenImage ==
    ASSUME IInv, ByteInv, IInv', ByteInv', NEW i \in Files, NEW p \in Nat, NEW n \in Nat, NEW v,
           Length(i)' = Larger(Length(i), p + n),
           \A j \in Positions :
              ByteAt(i, j)' = IF j \in p..(p + n - 1) THEN v ELSE ByteAt(i, j),
           \A j \in Positions : j >= Length(i) => ByteAt(i, j) = 0
    PROVE  Contents(i)' = Written(Contents(i), p, n, v)
<1> DEFINE m == Length(i)
           t == Length(i)'
           f == Contents(i)
           g == Ideal!Sized(f, IF p + n > Len(f) THEN p + n ELSE Len(f))
<1>1. /\ m \in Nat /\ t \in Nat
      /\ Contents(i)' = [j \in 1..t |-> ByteAt(i, j - 1)']
      /\ f = [j \in 1..m |-> ByteAt(i, j - 1)]
      /\ \A j \in 0..(t - 1) : j \in Positions
  BY ShownNow, ShownThen DEF ShownAll, Shown
<1>2. t = IF p + n > m THEN p + n ELSE m
  BY <1>1 DEF Larger
<1>3. Len(f) = m /\ DOMAIN f = 1..m
  BY <1>1
<1>4. \A j \in 1..m : f[j] = ByteAt(i, j - 1)
  BY <1>1
<1>5. g = [j \in 1..t |-> IF j \in 1..m THEN f[j] ELSE 0]
  BY <1>2, <1>3 DEF Ideal!Sized
<1>6. Written(f, p, n, v) = [j \in DOMAIN g |-> IF j \in (p + 1)..(p + n) THEN v ELSE g[j]]
  BY DEF Written
<1> HIDE DEF g
<1>7. Written(f, p, n, v) =
         [j \in 1..t |-> IF j \in (p + 1)..(p + n) THEN v ELSE IF j \in 1..m THEN f[j] ELSE 0]
  BY <1>5, <1>6
<1>8. ASSUME NEW j \in 1..t
      PROVE  ByteAt(i, j - 1)' =
                IF j \in (p + 1)..(p + n) THEN v ELSE IF j \in 1..m THEN f[j] ELSE 0
  <2>1. j - 1 \in Positions
    BY <1>1
  <2>2. j \notin 1..m => j - 1 >= Length(i)
    BY <1>1
  <2>3. j - 1 \in p..(p + n - 1) <=> j \in (p + 1)..(p + n)
    BY <1>1
  <2>4. ByteAt(i, j - 1)' = IF j - 1 \in p..(p + n - 1) THEN v ELSE ByteAt(i, j - 1)
    BY <2>1
  <2>5. j \notin 1..m => ByteAt(i, j - 1) = 0
    BY <2>1, <2>2
  <2> QED BY <2>3, <2>4, <2>5, <1>4
<1> QED BY <1>1, <1>7, <1>8

(* One file's contents change.                                               *)
LEMMA ImageOne ==
    ASSUME NEW i \in Files, NEW f, Contents(i)' = f,
           \A j \in Files : j # i => Contents(j)' = Contents(j)
    PROVE  Image' = [Image EXCEPT ![i] = f]
  BY DEF Image

-----------------------------------------------------------------------------
(* The calls that change nothing in the store.                              *)

(* Between calls no file is being made empty or written.                     *)
LEMMA NoCall == ASSUME op = None, NEW i \in Files PROVE ~On(i) /\ ~Truncating(i) /\ ~Extending(i)
  BY DEF On, Truncating, Extending

LEMMA NoCallThen ==
    ASSUME op' = None, NEW i \in Files PROVE ~On(i)' /\ ~Truncating(i)' /\ ~Extending(i)'
  BY DEF On, Truncating, Extending

(* dup and fork: only a descriptor changes.                                  *)
LEMMA DupBytes ==
    ASSUME IInv, ByteInv, IInv', NEW fd \in Fds, NEW from \in Fds, Dup(fd, from)
    PROVE  ByteInv' /\ IdealStep
<1>1. /\ op = None /\ op' = op /\ node[fd] = NULL /\ node[from] # NULL
      /\ node' = [node EXCEPT ![fd] = node[from]]
      /\ pos' = [pos EXCEPT ![fd] = pos[from]]
      /\ Still
  BY DEF Dup, Idle, Still
<1>2. ASSUME NEW i \in Files PROVE Calmer(i) /\ Same(i)
  BY <1>1, StillRests, OffCall, NoCall, NoCallThen
<1>3. AllCalm /\ AllSame
  BY <1>2 DEF AllCalm, AllSame
<1>4. CallOk'
  BY <1>1 DEF CallOk
<1>5. PositionsFit'
  <2>1. \A f \in Fds : pos'[f] = IF f = fd THEN pos[from] ELSE pos[f]
    BY <1>1 DEF IInv, PosPart
  <2> QED BY <2>1 DEF PositionsFit, ByteInv, Fits
<1>6. ByteInv'
  BY <1>1, <1>3, <1>4, <1>5, StillInv
<1>7. Image' = Image
  BY <1>3, <1>6, AllImages
<1>8. Where' = [Where EXCEPT ![fd] = Where[from]] /\ Got' = Got
  BY <1>1 DEF Where, Position, Got, IInv, PosPart
<1> QED BY <1>1, <1>6, <1>7, <1>8, DupIdeal

(* What is known of an open descriptor.                                     *)
LEMMA OpenFd ==
    ASSUME IInv, NEW fd \in Fds, NEW i, i = node[fd], i # NULL
    PROVE  /\ i \in Files /\ i \in loaded /\ Current(i) = din[i] /\ din[i].size \in Nat
           /\ pos[fd] \in Nat /\ pos \in [Fds -> 0..SFS_MAX_FILE_SIZE]
           /\ SFS_MAX_FILE_SIZE \in Nat /\ \A n \in 1..MaxLen : n \in Nat /\ n >= 1
<1>1. i \in Files /\ i \in loaded /\ Current(i) = din[i]
  BY DEF IInv, NodePart, Current
<1>2. din[i] \in Inode
  BY <1>1 DEF IInv, StorePart
<1>3. din[i].size \in Nat
  BY <1>2, SfsAssumption DEF Inode
<1>4. pos \in [Fds -> 0..SFS_MAX_FILE_SIZE] /\ SFS_MAX_FILE_SIZE \in Nat /\ MaxLen \in Nat
  BY SfsAssumption DEF IInv, PosPart
<1>5. pos[fd] \in Nat /\ \A n \in 1..MaxLen : n \in Nat /\ n >= 1
  BY <1>4
<1> QED BY <1>1, <1>3, <1>4, <1>5

(* sysfile_read starts where the descriptor is.                              *)
LEMMA StartRead ==
    ASSUME IInv, ByteInv, IInv', NEW fd \in Fds, NEW i, i = node[fd],
           NEW n \in 1..MaxLen, Read(fd, n)
    PROVE  ByteInv' /\ IdealStep
<1> DEFINE off == pos[fd]
           size == din[i].size
           end == Smaller(off + n, size)
<1>1. /\ op = None /\ i # NULL /\ off < size
      /\ op' = [kind |-> "read", fd |-> fd, off |-> off, end |-> end, buf |-> <<>>]
      /\ UNCHANGED <<node, pos>> /\ Still
  BY DEF Read, Idle, Still
<1>2. /\ i \in Files /\ i \in loaded /\ off \in Nat /\ size \in Nat /\ n \in Nat
      /\ pos \in [Fds -> 0..SFS_MAX_FILE_SIZE]
  BY <1>1, OpenFd
<1>3. /\ op' # None /\ op'.kind = "read" /\ op'.fd = fd /\ op'.off = off /\ op'.end = end
      /\ op'.buf = <<>> /\ din' = din /\ end <= size
  BY <1>1, <1>2 DEF None, Still, Smaller
<1> HIDE DEF end
<1>4. ASSUME NEW j \in Files PROVE Calmer(j) /\ Same(j)
  <2>1. Rests(j) /\ ~On(j) /\ ~Truncating(j) /\ ~Extending(j)
    BY <1>1, StillRests, NoCall
  <2>2. Lengths(j) /\ Lengths(j)'
    BY LengthsNow, LengthsThen DEF LengthsAll
  <2>3. CASE j # i
    BY <1>1, <1>3, <2>1, <2>3, OffCall DEF On
  <2>4. CASE j = i
    <3>1. On(j)'
      BY <1>1, <1>3, <2>4 DEF On
    <3>2. Length(j)' = Larger(size, off) /\ Length(j) = size
      BY <1>2, <1>3, <2>1, <2>2, <2>4, <3>1 DEF Lengths, Current
    <3>3. Length(j)' = Length(j)
      BY <1>1, <1>2, <3>2 DEF Larger
    <3> QED BY <1>2, <2>1, <3>2, <3>3, BytesAt DEF Calmer, Same, Rests
  <2> QED BY <2>3, <2>4
<1>5. AllCalm /\ AllSame
  BY <1>4 DEF AllCalm, AllSame
<1>6. CallOk'
  BY <1>1, <1>3 DEF CallOk, ByteInv, PositionsFit, Fits
<1>7. PositionsFit'
  BY <1>1 DEF PositionsFit, ByteInv, Fits
<1>8. ByteInv'
  BY <1>1, <1>5, <1>6, <1>7, StillInv
<1>9. Image' = Image
  BY <1>5, <1>8, AllImages
<1>10. Where' = Where /\ Got' = Got
  BY <1>1, <1>3 DEF Where, Position, Got
<1> QED BY <1>1, <1>8, <1>9, <1>10, StutterStep

(* sysfile_write starts where the descriptor is, at most at the maximal      *)
(* size.                                                                     *)
LEMMA StartWrite ==
    ASSUME IInv, ByteInv, IInv', NEW fd \in Fds, NEW i, i = node[fd],
           NEW n \in 1..MaxLen, NEW c \in Bytes,
           Write(fd, n, c)
    PROVE  ByteInv' /\ IdealStep
<1> DEFINE off == pos[fd]
           size == din[i].size
           end == Smaller(off + n, SFS_MAX_FILE_SIZE)
<1>1. /\ op = None /\ i # NULL /\ off < SFS_MAX_FILE_SIZE
      /\ op' = [kind |-> "write", fd |-> fd, off |-> off, end |-> end, c |-> c]
      /\ UNCHANGED <<node, pos>> /\ Still
  BY DEF Write, Idle, Still
<1>2. /\ i \in Files /\ i \in loaded /\ off \in Nat /\ size \in Nat /\ n \in Nat /\ n >= 1
      /\ pos \in [Fds -> 0..SFS_MAX_FILE_SIZE] /\ SFS_MAX_FILE_SIZE \in Nat
  BY <1>1, OpenFd
<1>3. /\ op' # None /\ op'.kind = "write" /\ op'.fd = fd /\ op'.off = off /\ op'.end = end
      /\ din' = din /\ off # end
  BY <1>1, <1>2 DEF None, Still, Smaller
<1> HIDE DEF end
<1>4. Length(i)' = Larger(Length(i), off) /\ Calmer(i) /\ AtSame(i) /\ ~Truncating(i)
  <2>1. Rests(i) /\ ~On(i) /\ ~Truncating(i) /\ ~Extending(i) /\ On(i)'
    BY <1>1, <1>2, <1>3, StillRests, NoCall DEF On
  <2>2. Lengths(i) /\ Lengths(i)'
    BY <1>2, LengthsNow, LengthsThen DEF LengthsAll
  <2>3. Length(i)' = Larger(size, off) /\ Length(i) = size
    BY <1>2, <1>3, <2>1, <2>2 DEF Lengths, Current
  <2>4. Length(i) <= Length(i)'
    BY <1>2, <2>3 DEF Larger
  <2> QED BY <1>2, <2>1, <2>3, <2>4, BytesAt DEF Calmer, AtSame, Rests
<1>5. ASSUME NEW j \in Files, j # i PROVE Calmer(j) /\ Same(j)
  <2>1. Rests(j) /\ ~On(j)
    BY <1>1, StillRests, NoCall
  <2> QED BY <1>1, <1>3, <1>5, <2>1, OffCall DEF On
<1>6. AllCalm
  BY <1>4, <1>5 DEF AllCalm
<1>7. CallOk'
  BY <1>1, <1>3 DEF CallOk, ByteInv, PositionsFit, Fits
<1>8. PositionsFit'
  BY <1>1 DEF PositionsFit, ByteInv, Fits
<1>9. ByteInv'
  BY <1>1, <1>6, <1>7, <1>8, StillInv
<1>10. Contents(i)' = Written(Contents(i), off, 0, c)
  <2>1. /\ Length(i)' = Larger(Length(i), off + 0) /\ 0 \in Nat
        /\ \A j \in Positions :
              ByteAt(i, j)' = IF j \in off..(off + 0 - 1) THEN c ELSE ByteAt(i, j)
    BY <1>2, <1>4 DEF AtSame
  <2>2. \A j \in Positions : j >= Length(i) => ByteAt(i, j) = 0
    BY <1>2, <1>4 DEF ByteInv, FilesOk, FileOk, TailClear
  <2> QED BY <1>2, <1>9, <2>1, <2>2, WrittenImage
<1>11. Image' = [Image EXCEPT ![i] = Written(Contents(i), off, 0, c)]
  <2>1. \A j \in Files : j # i => Contents(j)' = Contents(j)
    BY <1>5, <1>9, ImageSame
  <2> QED BY <1>2, <1>10, <2>1, ImageOne
<1>12. Where' = [Where EXCEPT ![fd] = Where[fd] + 0] /\ Got' = Got /\ Where[fd] = off
  BY <1>1, <1>2, <1>3 DEF Where, Position, Got
<1>13. Image[i] = Contents(i) /\ 0 \in 0..SFS_BLKSIZE
  BY <1>2, SfsAssumption DEF Image
<1> QED BY <1>1, <1>9, <1>11, <1>12, <1>13, WriteIdeal

(* lseek: the position is set at once, or by the resize that it starts.      *)
LEMMA SeekBytes ==
    ASSUME IInv, ByteInv, IInv', NEW fd \in Fds, NEW i, i = node[fd],
           NEW p \in 0..SFS_MAX_FILE_SIZE, Seek(fd, p)
    PROVE  ByteInv' /\ IdealStep
<1> DEFINE size == din[i].size
<1>1. /\ op = None /\ i # NULL /\ node' = node /\ Still
      /\ IF p > size THEN op' = [kind |-> "resize", fd |-> fd, len |-> p] /\ pos' = pos
         ELSE pos' = [pos EXCEPT ![fd] = p] /\ op' = op
  BY DEF Seek, Idle, Still
<1>2. /\ i \in Files /\ i \in loaded /\ size \in Nat /\ p \in Nat
      /\ pos \in [Fds -> 0..SFS_MAX_FILE_SIZE]
      /\ Rests(i) /\ ~On(i) /\ ~Truncating(i) /\ ~Extending(i) /\ din' = din
      /\ Length(i) = size /\ Lengths(i)'
  <2>1. /\ i \in Files /\ i \in loaded /\ size \in Nat /\ p \in Nat
        /\ pos \in [Fds -> 0..SFS_MAX_FILE_SIZE]
    BY <1>1, OpenFd
  <2>2. Rests(i) /\ ~On(i) /\ ~Truncating(i) /\ ~Extending(i) /\ din' = din
    BY <1>1, <2>1, StillRests, NoCall DEF Still
  <2>3. Length(i) = size /\ Lengths(i)'
    BY <2>1, <2>2, LengthsNow, LengthsThen DEF LengthsAll, Lengths, Current
  <2> QED BY <2>1, <2>2, <2>3
<1>3. ASSUME NEW j \in Files, j # i PROVE Calmer(j) /\ Same(j)
  <2>1. Rests(j) /\ ~On(j)
    BY <1>1, StillRests, NoCall
  <2>2. ~On(j)'
    BY <1>1, <1>3 DEF On, None
  <2> QED BY <2>1, <2>2, OffCall
<1>4. CASE p > size
  <2>1. /\ op' # None /\ op'.kind = "resize" /\ op'.fd = fd /\ op'.len = p /\ On(i)'
    BY <1>1, <1>4 DEF None, On
  <2>2. Length(i)' = Smaller(size, p)
    BY <1>2, <2>1 DEF Lengths
  <2>3. Length(i)' = Length(i)
    BY <1>2, <1>4, <2>2 DEF Smaller
  <2>4. Calmer(i) /\ Same(i)
    BY <1>2, <2>3, BytesAt DEF Calmer, Same, Rests
  <2>5. AllCalm /\ AllSame
    BY <1>3, <2>4 DEF AllCalm, AllSame
  <2>6. CallOk'
    BY <1>1, <1>2, <1>4, <2>1 DEF CallOk
  <2>7. PositionsFit'
    BY <1>1, <1>4 DEF PositionsFit, ByteInv, Fits
  <2>8. ByteInv'
    BY <1>1, <2>5, <2>6, <2>7, StillInv
  <2>9. Image' = Image
    BY <2>5, <2>8, AllImages
  <2>10. Where' = Where /\ Got' = Got
    BY <1>1, <1>4, <2>1 DEF Where, Position, Got
  <2> QED BY <1>1, <2>8, <2>9, <2>10, StutterStep
<1>5. CASE ~(p > size)
  <2>1. op' = None /\ pos' = [pos EXCEPT ![fd] = p] /\ ~On(i)'
    BY <1>1, <1>2, <1>5, NoCallThen
  <2>2. Calmer(i) /\ Same(i)
    BY <1>2, <2>1, OffCall
  <2>3. AllCalm
    BY <1>3, <2>2 DEF AllCalm
  <2>4. CallOk'
    BY <2>1 DEF CallOk
  <2>5. PositionsFit'
    <3>1. RoundUpDiv(p) <= RoundUpDiv(size) /\ RoundUpDiv(p) \in Nat /\ RoundUpDiv(size) \in Nat
      BY <1>2, <1>5, Rounding
    <3>2. RoundUpDiv(size) <= MaxIndex /\ MaxIndex \in Nat
      BY <1>2, MaxIndexNat DEF ByteInv, SizesFit, Fits
    <3>3. Fits(p)
      BY <3>1, <3>2 DEF Fits
    <3>4. \A f \in Fds : pos'[f] = IF f = fd THEN p ELSE pos[f]
      BY <1>2, <2>1
    <3> QED BY <3>3, <3>4 DEF PositionsFit, ByteInv, Fits
  <2>6. ByteInv'
    BY <1>1, <2>3, <2>4, <2>5, StillInv
  <2>7. Contents(i)' = Stretched(Contents(i), p)
    <3>1. /\ Length(i)' = Length(i) /\ \A j \in Positions : ByteAt(i, j)' = ByteAt(i, j)
      BY <2>2 DEF Same
    <3>2. Length(i)' = Larger(Length(i), p)
      BY <1>2, <1>5, <3>1 DEF Larger
    <3>3. \A j \in Positions : j >= Length(i) /\ j < Length(i)' => ByteAt(i, j) = 0
      BY <1>2 DEF ByteInv, FilesOk, FileOk, TailClear
    <3> QED BY <1>2, <2>6, <3>1, <3>2, <3>3, StretchedImage
  <2>8. Image' = [Image EXCEPT ![i] = Stretched(Contents(i), p)]
    <3>1. \A j \in Files : j # i => Contents(j)' = Contents(j)
      BY <1>3, <2>6, ImageSame
    <3> QED BY <1>2, <2>7, <3>1, ImageOne
  <2>9. Where' = [Where EXCEPT ![fd] = p] /\ Got' = Got
    BY <1>1, <1>2, <2>1 DEF Where, Position, Got
  <2>10. Image[i] = Contents(i)
    BY <1>2 DEF Image
  <2> QED BY <1>1, <2>6, <2>8, <2>9, <2>10, SeekIdeal
<1> QED BY <1>4, <1>5

-----------------------------------------------------------------------------
(* The steps of a call.                                                     *)

(* The file of the call in progress.                                         *)
LEMMA CallFile ==
    ASSUME IInv, op # None, NEW i, i = node[op.fd]
    PROVE  /\ i \in Files /\ i \in loaded /\ op.fd \in Fds /\ Current(i) = din[i] /\ din[i] \in Inode
           /\ din[i].size \in Nat /\ din[i].blocks \in 0..MaxIndex /\ din[i].blocks \in Nat
           /\ On(i) /\ \A j \in Files : j # i => ~On(j)
           /\ pos \in [Fds -> 0..SFS_MAX_FILE_SIZE]
<1>1. i \in Files /\ i \in loaded /\ op.fd \in Fds /\ Current(i) = din[i]
  BY Caller DEF Current
<1>2. din[i] \in Inode /\ pos \in [Fds -> 0..SFS_MAX_FILE_SIZE]
  BY <1>1 DEF IInv, StorePart, PosPart
<1>3. din[i].size \in Nat /\ din[i].blocks \in 0..MaxIndex /\ din[i].blocks \in Nat
  <2>1. din[i].size \in 0..SFS_MAX_FILE_SIZE /\ din[i].blocks \in 0..MaxIndex
    BY <1>2 DEF Inode
  <2> QED BY <2>1, SfsAssumption, MaxIndexNat
<1>4. On(i) /\ \A j \in Files : j # i => ~On(j)
  BY DEF On
<1> QED BY <1>1, <1>2, <1>3, <1>4

(* A piece of a sequence, position by position.                              *)
LEMMA SubSeqIs ==
    ASSUME NEW s, NEW p \in Nat, NEW n \in Nat
    PROVE  SubSeq(s, p + 1, p + n) = [j \in 1..n |-> s[p + j]]
<1> DEFINE S == {s[j] : j \in (p + 1)..(p + n)}
           t == SubSeq(s, p + 1, p + n)
           u == [j \in 1..n |-> s[p + j]]
<1>1. \A j \in (p + 1)..(p + n) : s[j] \in S
  OBVIOUS
<1> HIDE DEF S
<1>2. /\ t \in Seq(S) /\ Len(t) = (IF p + 1 <= p + n THEN (p + n) - (p + 1) + 1 ELSE 0)
      /\ \A j \in 1..((p + n) - (p + 1) + 1) : t[j] = s[(p + 1) + j - 1]
  <2> DEFINE a == p + 1
             b == p + n
  <2>1. a \in Int /\ b \in Int /\ \A j \in a..b : s[j] \in S
    BY <1>1
  <2> HIDE DEF a, b
  <2>2. /\ SubSeq(s, a, b) \in Seq(S)
        /\ Len(SubSeq(s, a, b)) = IF a <= b THEN b - a + 1 ELSE 0
        /\ \A j \in 1..(b - a + 1) : SubSeq(s, a, b)[j] = s[a + j - 1]
    BY <2>1, SubSeqProperties
  <2> QED BY <2>2 DEF a, b
<1>3. Len(t) = n /\ \A j \in 1..n : t[j] = s[p + j]
  BY <1>2
<1>4. u \in Seq(S) /\ Len(u) = n
  BY <1>1
<1>5. \A j \in 1..n : t[j] = u[j]
  BY <1>3
<1> HIDE DEF t, u
<1> QED BY <1>2, <1>3, <1>4, <1>5, SeqEqual DEF t, u

(* A transfer that has not ended: its piece.                                *)
LEMMA NextPiece ==
    ASSUME IInv, op.kind \in {"read", "write"}, op.off < op.end
    PROVE  /\ op # None /\ op.off \in Nat /\ op.end \in Nat /\ PieceEnd \in Nat
           /\ op.off < PieceEnd /\ PieceEnd <= op.end /\ PieceEnd - op.off \in 0..SFS_BLKSIZE
           /\ op.off \div SFS_BLKSIZE \in Nat
           /\ RoundUpDiv(PieceEnd) <= op.off \div SFS_BLKSIZE + 1
           /\ \A j \in op.off..(PieceEnd - 1) : j \div SFS_BLKSIZE = op.off \div SFS_BLKSIZE
           /\ \A j \in Nat : j \div SFS_BLKSIZE = op.off \div SFS_BLKSIZE =>
                 (j \in op.off..(PieceEnd - 1) <=> j % SFS_BLKSIZE \in Piece)
<1>1. op # None /\ op.off \in Nat /\ op.end \in Nat
  BY Kinds
<1>2. PieceEnd = Smaller(op.end, (op.off \div SFS_BLKSIZE + 1) * SFS_BLKSIZE)
  BY DEF PieceEnd
<1>3. /\ PieceEnd \in Nat /\ op.off < PieceEnd /\ PieceEnd <= op.end
      /\ PieceEnd - op.off <= SFS_BLKSIZE
      /\ op.off \div SFS_BLKSIZE \in Nat
      /\ RoundUpDiv(PieceEnd) <= op.off \div SFS_BLKSIZE + 1
      /\ \A j \in op.off..(PieceEnd - 1) : j \div SFS_BLKSIZE = op.off \div SFS_BLKSIZE
      /\ \A j \in Nat : j \div SFS_BLKSIZE = op.off \div SFS_BLKSIZE =>
            (j \in op.off..(PieceEnd - 1)
               <=> \E i \in op.off..(PieceEnd - 1) : j % SFS_BLKSIZE = i % SFS_BLKSIZE)
  <2>1. PICK off \in Nat, end \in Nat : off = op.off /\ end = op.end
    BY <1>1
  <2>2. PICK e : e = PieceEnd
    OBVIOUS
  <2>3. e = Smaller(end, (off \div SFS_BLKSIZE + 1) * SFS_BLKSIZE)
    BY <1>2, <2>1, <2>2
  <2>4. off < end
    BY <2>1
  <2>5. /\ e \in Nat /\ off < e /\ e <= end /\ e - off <= SFS_BLKSIZE
        /\ off \div SFS_BLKSIZE \in Nat /\ RoundUpDiv(e) <= off \div SFS_BLKSIZE + 1
        /\ \A j \in off..(e - 1) : j \div SFS_BLKSIZE = off \div SFS_BLKSIZE
        /\ \A j \in Nat : j \div SFS_BLKSIZE = off \div SFS_BLKSIZE =>
              (j \in off..(e - 1) <=> \E i \in off..(e - 1) : j % SFS_BLKSIZE = i % SFS_BLKSIZE)
    BY <2>3, <2>4, PiecePositions
  <2> QED BY <2>1, <2>2, <2>5
<1>4. PieceEnd - op.off \in 0..SFS_BLKSIZE
  BY <1>1, <1>3, SfsAssumption
<1>5. \A j \in Nat : j % SFS_BLKSIZE \in Cells
  BY DivMod, SfsAssumption DEF Cells
<1>6. \A j \in Nat : j % SFS_BLKSIZE \in Piece
         <=> \E i \in op.off..(PieceEnd - 1) : j % SFS_BLKSIZE = i % SFS_BLKSIZE
  BY <1>5 DEF Piece
<1> QED BY <1>1, <1>3, <1>4, <1>6

(* sfs_rbuf, sfs_rblock: the buffer gets the bytes at the position.          *)
LEMMA ReadPieceBytes ==
    ASSUME IInv, ByteInv, IInv', ReadPiece, NEW i, i = node[op.fd]
    PROVE  ByteInv' /\ IdealStep
<1> DEFINE index == op.off \div SFS_BLKSIZE
           n == PieceEnd - op.off
           b == Block(din[i], index)
           t == [j \in 1..n |-> disk[b][(op.off + j - 1) % SFS_BLKSIZE]]
           size == din[i].size
<1>1. /\ op.kind = "read" /\ op.kind \in {"read", "write"} /\ op.off < op.end
      /\ index < din[i].blocks
      /\ op' = [op EXCEPT !.off = PieceEnd, !.buf = op.buf \o t]
      /\ UNCHANGED <<node, pos>> /\ Still
  BY DEF ReadPiece, Running, Still
<1>2. /\ op # None /\ op.off \in Nat /\ op.end \in Nat /\ PieceEnd \in Nat /\ index \in Nat
      /\ op.off < PieceEnd /\ PieceEnd <= op.end /\ n \in 0..SFS_BLKSIZE
      /\ RoundUpDiv(PieceEnd) <= index + 1
      /\ \A j \in op.off..(PieceEnd - 1) : j \div SFS_BLKSIZE = index
  BY <1>1, NextPiece
<1>3. /\ i \in Files /\ i \in loaded /\ op.fd \in Fds /\ Current(i) = din[i]
      /\ size \in Nat /\ din[i].blocks \in 0..MaxIndex /\ MaxIndex \in Nat
      /\ On(i) /\ \A j \in Files : j # i => ~On(j)
  BY <1>2, CallFile, MaxIndexNat
<1>4. op' = [kind |-> "read", fd |-> op.fd, off |-> PieceEnd, end |-> op.end, buf |-> op.buf \o t]
  <2> HIDE DEF t
  <2>1. op = [kind |-> "read", fd |-> op.fd, off |-> op.off, end |-> op.end, buf |-> op.buf]
    BY <1>1 DEF IInv, OpPart, None
  <2>2. PICK f, o, e, u : op = [kind |-> "read", fd |-> f, off |-> o, end |-> e, buf |-> u]
    BY <2>1
  <2>3. op.fd = f /\ op.end = e /\ op.buf = u
    BY <2>2
  <2>4. op' = [[op EXCEPT !.off = PieceEnd] EXCEPT !.buf = op.buf \o t]
    BY <1>1
  <2> QED BY <2>2, <2>3, <2>4
<1> HIDE DEF t
<1>5. /\ op' # None /\ op'.kind = "read" /\ op'.fd = op.fd /\ op'.off = PieceEnd
      /\ op'.end = op.end /\ op'.buf = op.buf \o t /\ din' = din
  BY <1>1, <1>4 DEF None, Still
<1>6. op.end <= size
  BY <1>1, <1>2 DEF ByteInv, CallOk
<1> HIDE DEF index, n, b
<1>7. Length(i)' = size /\ Length(i) = size
  <2>1. Lengths(i) /\ Lengths(i)' /\ On(i)'
    BY <1>1, <1>3, <1>5, LengthsNow, LengthsThen DEF LengthsAll, On
  <2>2. Length(i)' = Larger(size, PieceEnd) /\ Length(i) = Larger(size, op.off)
    BY <1>1, <1>3, <1>5, <2>1 DEF Lengths
  <2> QED BY <1>2, <1>3, <1>6, <2>2 DEF Larger
<1>8. ASSUME NEW j \in Files PROVE Calmer(j) /\ Same(j)
  <2>1. Rests(j)
    BY <1>1, StillRests
  <2>2. CASE j # i
    <3>1. ~On(j) /\ ~On(j)'
      BY <1>1, <1>3, <1>5, <2>2 DEF On
    <3> QED BY <2>1, <3>1, OffCall
  <2>3. CASE j = i
    <3>1. ~Truncating(j) /\ ~Extending(j)
      BY <1>1 DEF Truncating, Extending
    <3> QED BY <1>3, <1>7, <2>1, <2>3, <3>1, BytesAt DEF Calmer, Same, Rests
  <2> QED BY <2>2, <2>3
<1>9. AllCalm /\ AllSame
  BY <1>8 DEF AllCalm, AllSame
<1>10. CallOk'
  <2>1. RoundUpDiv(PieceEnd) <= MaxIndex
    <3>1. RoundUpDiv(PieceEnd) \in Nat
      BY <1>2, Rounding
    <3>2. index < din[i].blocks
      BY <1>1
    <3> QED BY <1>2, <1>3, <3>1, <3>2
  <2> QED BY <1>1, <1>5, <1>6, <2>1 DEF CallOk, Fits
<1>11. PositionsFit'
  BY <1>1 DEF PositionsFit, ByteInv, Fits
<1>12. ByteInv'
  BY <1>1, <1>9, <1>10, <1>11, StillInv
<1>13. Image' = Image
  BY <1>9, <1>12, AllImages
<1>14. /\ Where[op.fd] = op.off
       /\ Where' = [Where EXCEPT ![op.fd] = op.off + n]
  <2>1. op.off + n = PieceEnd
    BY <1>2 DEF n
  <2>2. \A f \in Fds : Position(f) = IF f = op.fd THEN op.off ELSE pos[f]
    BY <1>1, <1>2 DEF Position
  <2>3. \A f \in Fds : Position(f)' = IF f = op.fd THEN PieceEnd ELSE pos[f]
    BY <1>1, <1>5 DEF Position
  <2> QED BY <1>3, <2>1, <2>2, <2>3 DEF Where
<1>15. /\ Image[i] = Contents(i) /\ Len(Contents(i)) = size
       /\ Contents(i) = [j \in 1..size |-> ByteAt(i, j - 1)]
  <2>1. Contents(i) = [j \in 1..size |-> ByteAt(i, j - 1)]
    BY <1>3, <1>7, ShownNow DEF ShownAll, Shown
  <2>2. Len(Contents(i)) = size
    BY <1>3, <2>1
  <2> QED BY <1>3, <2>1, <2>2 DEF Image
<1>16. t = SubSeq(Contents(i), op.off + 1, op.off + n)
  <2>1. n \in Nat /\ op.off + n = PieceEnd
    BY <1>2 DEF n
  <2>2. SubSeq(Contents(i), op.off + 1, op.off + n) = [j \in 1..n |-> Contents(i)[op.off + j]]
    <3> DEFINE p == op.off
               u == Contents(i)
    <3>1. p \in Nat /\ n \in Nat
      BY <1>2, <2>1
    <3> HIDE DEF p, u
    <3>2. SubSeq(u, p + 1, p + n) = [j \in 1..n |-> u[p + j]]
      BY <3>1, SubSeqIs
    <3> QED BY <3>2 DEF p, u
  <2>3. ASSUME NEW m \in op.off..(PieceEnd - 1)
        PROVE  Contents(i)[m + 1] = disk[b][m % SFS_BLKSIZE]
    <3>1. m + 1 \in 1..size /\ (m + 1) - 1 = m
      BY <1>2, <1>3, <1>6
    <3>2. Contents(i)[m + 1] = ByteAt(i, m)
      BY <1>15, <3>1
    <3>3. m \div SFS_BLKSIZE = index
      BY <1>2
    <3>4. b = Map[<<i, SlotOf(index)>>] /\ b # 0
      <4>1. index \in 0..(MaxIndex - 1) /\ index < din[i].blocks
        BY <1>1, <1>2, <1>3
      <4>2. SfsTypeOK /\ BlockPart
        BY TypeCorrect DEF IInv, StorePart
      <4> QED BY <1>3, <4>1, <4>2, BlockIs, BlockUsed DEF b
    <3> QED BY <3>2, <3>3, <3>4 DEF ByteAt, Holds, Held
  <2>4. ASSUME NEW j \in 1..n
        PROVE  Contents(i)[op.off + j] = disk[b][(op.off + j - 1) % SFS_BLKSIZE]
    <3>1. PICK m \in op.off..(PieceEnd - 1) : m = op.off + j - 1 /\ m + 1 = op.off + j
      BY <1>2, <2>1
    <3> QED BY <2>3, <3>1
  <2> QED BY <2>2, <2>4 DEF t
<1>17. Got' = Got \o SubSeq(Image[i], op.off + 1, op.off + n)
  BY <1>1, <1>2, <1>5, <1>15, <1>16 DEF Got
<1>18. op.off + n <= Len(Image[i]) /\ i # NULL
  <2>1. op.off + n <= size
    BY <1>2, <1>3, <1>6 DEF n
  <2>2. Len(Image[i]) = size
    BY <1>15
  <2> QED BY <1>3, <2>1, <2>2, SfsAssumption
<1>19. /\ op.fd \in Fds /\ node[op.fd] # NULL /\ n \in 0..SFS_BLKSIZE
       /\ Where[op.fd] + n <= Len(Image[node[op.fd]])
       /\ node' = node /\ Where' = [Where EXCEPT ![op.fd] = Where[op.fd] + n]
       /\ Got' = Got \o SubSeq(Image[node[op.fd]], Where[op.fd] + 1, Where[op.fd] + n)
  BY <1>1, <1>2, <1>3, <1>14, <1>17, <1>18 DEF n
<1> QED BY <1>12, <1>13, <1>19, ReadIdeal

(* sfs_truncfile finds the disk full: the size was not set, so the file has  *)
(* not changed.                                                              *)
LEMMA ResizeNoSpaceBytes ==
    ASSUME IInv, ByteInv, IInv', ResizeNoSpace, NEW i, i = node[op.fd]
    PROVE  ByteInv' /\ IdealStep
<1>1. /\ op.kind = "resize" /\ din[i].blocks < RoundUpDiv(op.len) /\ op' = None
      /\ UNCHANGED <<node, pos>> /\ Still
  BY DEF ResizeNoSpace, Running, Still
<1>2. op # None /\ op.len \in Nat
  BY <1>1, Kinds, SfsAssumption
<1>3. /\ i \in Files /\ i \in loaded /\ Current(i) = din[i]
      /\ din[i].size \in Nat /\ din[i].blocks \in Nat
      /\ On(i) /\ \A j \in Files : j # i => ~On(j)
  BY <1>2, CallFile
<1>4. op.len # 0
  BY <1>1, <1>3, RoundZero
<1>5. op.len > din[i].size
  BY <1>1, <1>2, <1>4 DEF ByteInv, CallOk
<1>6. Length(i)' = Length(i) /\ Length(i) = din[i].size
  <2>1. Lengths(i) /\ Lengths(i)' /\ ~On(i)'
    BY <1>1, <1>3, LengthsNow, LengthsThen, NoCallThen DEF LengthsAll
  <2>2. Length(i)' = din[i].size /\ Length(i) = Smaller(din[i].size, op.len)
    BY <1>1, <1>3, <2>1 DEF Lengths, Current, Still
  <2> QED BY <1>2, <1>3, <1>5, <2>2 DEF Smaller
<1>7. ASSUME NEW j \in Files PROVE Calmer(j) /\ Same(j)
  <2>1. Rests(j) /\ ~On(j)'
    BY <1>1, StillRests, NoCallThen
  <2>2. CASE j # i
    BY <1>3, <2>1, <2>2, OffCall
  <2>3. CASE j = i
    <3>1. ~Truncating(j) /\ ~Extending(j)
      BY <1>1, <1>4 DEF Truncating, Extending
    <3> QED BY <1>3, <1>6, <2>1, <2>3, <3>1, BytesAt DEF Calmer, Same, Rests
  <2> QED BY <2>2, <2>3
<1>8. AllCalm /\ AllSame
  BY <1>7 DEF AllCalm, AllSame
<1>9. CallOk' /\ PositionsFit'
  BY <1>1 DEF CallOk, PositionsFit, ByteInv, Fits
<1>10. ByteInv'
  BY <1>1, <1>8, <1>9, StillInv
<1>11. Image' = Image
  BY <1>8, <1>10, AllImages
<1>12. Where' = Where /\ Got' = Got
  BY <1>1 DEF Where, Position, Got
<1> QED BY <1>1, <1>10, <1>11, <1>12, StutterStep

(* A step in which no file, no descriptor and no call changes.               *)
LEMMA QuietBytes ==
    ASSUME IInv, ByteInv, IInv', Still, UNCHANGED <<node, pos, op>>
    PROVE  ByteInv' /\ IdealStep
<1>1. ASSUME NEW j \in Files PROVE Calmer(j) /\ Same(j)
  <2>1. Rests(j) /\ Lengths(j)
    BY StillRests, LengthsNow DEF LengthsAll
  <2>2. (Truncating(j)' <=> Truncating(j)) /\ (Extending(j)' <=> Extending(j))
    BY DEF Truncating, Extending, On, Still
  <2>3. Length(j)' = Length(j) /\ Length(j) \in Nat
    BY <2>1 DEF Length, Current, Still, diskVars, Lengths
  <2> QED BY <2>1, <2>2, <2>3, BytesAt DEF Calmer, Same, Rests
<1>2. AllCalm /\ AllSame
  BY <1>1 DEF AllCalm, AllSame
<1>3. CallOk' /\ PositionsFit'
  BY DEF CallOk, PositionsFit, ByteInv, Fits, Still
<1>4. ByteInv'
  BY <1>2, <1>3, StillInv
<1>5. Image' = Image
  BY <1>2, <1>4, AllImages
<1>6. Where' = Where /\ Got' = Got
  BY DEF Where, Position, Got
<1> QED BY <1>4, <1>5, <1>6, StutterStep

(* A failed assertion leaves all as it is.                                   *)
LEMMA LoadPanicsBytes ==
    ASSUME IInv, ByteInv, IInv', LoadPanics
    PROVE  ByteInv' /\ IdealStep
  BY QuietBytes DEF LoadPanics, Still

-----------------------------------------------------------------------------
(* The calls that move an inode between the disk and memory.                *)

(* The same bytes and size, outside of a call, are the same file.            *)
LEMMA SizeKept ==
    ASSUME IInv, IInv', NEW i \in Files, TailClear(i), BytesSame(i), ~On(i), ~On(i)',
           Current(i)'.size = Current(i).size
    PROVE  Same(i) /\ TailClear(i)'
<1>1. Lengths(i) /\ Lengths(i)' /\ ~Truncating(i)
  BY LengthsNow, LengthsThen DEF LengthsAll, Truncating
<1>2. Length(i)' = Length(i)
  BY <1>1 DEF Lengths
<1>3. Same(i)
  BY <1>2, BytesAt DEF Same
<1> QED BY <1>1, <1>3 DEF TailClear, Same

(* fsync writes the inode that is in memory.                                 *)
LEMMA FsyncBytes ==
    ASSUME IInv, ByteInv, IInv', NEW fd \in Fds, NEW i, i = node[fd], Fsync(fd)
    PROVE  ByteInv' /\ IdealStep
<1>1. /\ op = None /\ op' = op /\ i # NULL
      /\ dinode' = [dinode EXCEPT ![i] = din[i]]
      /\ dirty' = [dirty EXCEPT ![i] = FALSE]
      /\ UNCHANGED <<disk, loaded, din, node, pos>>
  BY DEF Fsync, Idle
<1>2. i \in Files /\ i \in loaded /\ dinode \in [Files -> Inode] /\ dirty \in [Files -> BOOLEAN]
  BY <1>1, OpenFd DEF IInv, StorePart, PosPart
<1>3. /\ dinode'[i] = din[i] /\ ~dirty'[i]
      /\ \A j \in Files : j # i => dinode'[j] = dinode[j] /\ dirty'[j] = dirty[j]
  BY <1>1, <1>2
<1>4. \A j \in Files : Current(j)' = Current(j)
  BY <1>1, <1>2, <1>3 DEF Current
<1>5. \A j \in Files : BytesSame(j)
  <2>1. Currents' = Currents
    BY <1>4 DEF Currents
  <2>2. Map' = Map
    BY <1>1, <2>1 DEF Map
  <2> QED BY <1>1, <2>2, MapKept
<1>6. ASSUME NEW j \in Files PROVE Same(j) /\ TailClear(j)' /\ SpareClear(j)'
  <2>1. ~On(j) /\ ~On(j)' /\ BytesSame(j) /\ Lengths(j)
    BY <1>1, <1>5, NoCall, NoCallThen, LengthsNow DEF LengthsAll
  <2>2. Same(j) /\ TailClear(j)'
    BY <1>4, <2>1, SizeKept DEF ByteInv, FilesOk, FileOk
  <2>3. ZeroThen(j, Current(j).blocks)
    BY <2>1, ZeroSame DEF SpareClear, Lengths, ByteInv, FilesOk, FileOk
  <2>4. SpareClear(j)'
    BY <1>4, <2>3 DEF SpareClear, ZeroFrom, ZeroThen
  <2> QED BY <2>2, <2>4
<1>7. ASSUME NEW j \in Files PROVE SavedClear(j)'
  <2>1. CASE j # i
    <3>1. Rests(j) /\ ~On(j) /\ ~On(j)'
      BY <1>1, <1>3, <1>5, <2>1, NoCall, NoCallThen DEF Rests
    <3>2. FileOk(j)'
      BY <3>1, OffCall, RestingFile DEF ByteInv, FilesOk
    <3> QED BY <3>2 DEF FileOk
  <2>2. CASE j = i
    <3>1. SpareClear(j)' /\ Current(j)' = din[j] /\ din'[j] = din[j] /\ dinode'[j] = din[j]
      BY <1>1, <1>2, <1>3, <1>6, <2>2 DEF Current
    <3> QED BY <3>1 DEF SavedClear, SpareClear, ZeroFrom
  <2> QED BY <2>1, <2>2
<1>8. FilesOk' /\ AllSame
  BY <1>6, <1>7 DEF FilesOk, FileOk, AllSame
<1>9. SizesFit'
  <2>1. \A j \in Files : Fits(din[j].size) /\ Fits(dinode[j].size)
    BY DEF ByteInv, SizesFit
  <2>2. \A j \in Files : Fits(din'[j].size) /\ Fits(dinode'[j].size)
    BY <1>1, <1>2, <1>3, <2>1
  <2> QED BY <2>2 DEF SizesFit, Fits
<1>10. CallOk' /\ PositionsFit'
  BY <1>1 DEF CallOk, PositionsFit, ByteInv, Fits
<1>11. ByteInv'
  BY <1>8, <1>9, <1>10 DEF ByteInv
<1>12. Image' = Image
  BY <1>8, <1>11, AllImages
<1>13. Where' = Where /\ Got' = Got
  BY <1>1 DEF Where, Position, Got
<1> QED BY <1>1, <1>11, <1>12, <1>13, StutterStep

(* The last close drops the inode: what is on the disk shows the same bytes. *)
LEMMA CloseBytes ==
    ASSUME IInv, ByteInv, IInv', NEW fd \in Fds, NEW i, i = node[fd], Close(fd)
    PROVE  ByteInv' /\ IdealStep
<1>1. /\ op = None /\ op' = None /\ i # NULL
      /\ node' = [node EXCEPT ![fd] = NULL] /\ pos' = [pos EXCEPT ![fd] = 0]
      /\ UNCHANGED <<freemap, unused_blocks, disk>>
  BY DEF Close, Idle
<1>2. /\ i \in Files /\ i \in loaded /\ Current(i) = din[i]
      /\ pos \in [Fds -> 0..SFS_MAX_FILE_SIZE]
  BY <1>1, OpenFd
<1>3. /\ dinode \in [Files -> Inode] /\ din \in [Files -> Inode] /\ dirty \in [Files -> BOOLEAN]
      /\ \A j \in Files : /\ dinode[j].blocks \in Nat /\ din[j].blocks \in Nat
                          /\ din[j].blocks \in 0..MaxIndex
  BY MaxIndexNat DEF IInv, StorePart, PosPart, Inode
<1>4. Fits(0) /\ NewInode.size = 0
  BY RoundZero, MaxIndexNat DEF Fits, NewInode
<1>5. CallOk' /\ PositionsFit'
  <2>1. \A f \in Fds : pos'[f] = IF f = fd THEN 0 ELSE pos[f]
    BY <1>1, <1>2
  <2> QED BY <1>1, <1>4, <2>1 DEF CallOk, PositionsFit, ByteInv, Fits
<1>6. Where' = [Where EXCEPT ![fd] = 0] /\ Got' = Got
  BY <1>1, <1>2 DEF Where, Position, Got
<1>7. ByteInv' /\ AllSame
  <2>1. CASE \E other \in Fds \ {fd} : node[other] = i
    <3>1. Still
      BY <1>1, <2>1 DEF Close, Still, diskVars
    <3>2. \A j \in Files : Calmer(j) /\ Same(j)
      BY <1>1, <3>1, StillRests, OffCall, NoCall, NoCallThen
    <3>3. AllCalm /\ AllSame
      BY <3>2 DEF AllCalm, AllSame
    <3> QED BY <1>5, <3>1, <3>3, StillInv
  <2>2. CASE ~(\E other \in Fds \ {fd} : node[other] = i)
    <3>1. /\ dinode' = IF dirty[i] THEN [dinode EXCEPT ![i] = din[i]] ELSE dinode
          /\ loaded' = loaded \ {i}
          /\ din' = [din EXCEPT ![i] = NewInode]
          /\ dirty' = [dirty EXCEPT ![i] = FALSE]
      BY <2>2 DEF Close, SavedOnClose
    <3>2. /\ dinode'[i] = IF dirty[i] THEN din[i] ELSE dinode[i]
          /\ din'[i] = NewInode
          /\ \A j \in Files : j # i => /\ din'[j] = din[j] /\ dinode'[j] = dinode[j]
                                       /\ dirty'[j] = dirty[j]
      BY <1>2, <1>3, <3>1
    <3>3. /\ Current(i)' = dinode'[i]
          /\ \A j \in Files : j # i => Current(j)' = Current(j)
      BY <1>2, <3>1, <3>2 DEF Current
    <3>4. /\ SameBlocks(dinode'[i], din[i]) /\ dinode'[i].size = din[i].size
          /\ ~dirty[i] => ZeroFrom(i, dinode[i].blocks)
      <4>1. CASE dirty[i]
        BY <3>2, <4>1 DEF SameBlocks
      <4>2. CASE ~dirty[i]
        <5>1. Saved(dinode[i], din[i])
          BY <1>2, <4>2 DEF IInv, StorePart, SavedPart
        <5>2. SavedClear(i) /\ ~Extending(i)
          BY <1>1, <1>2, NoCall DEF ByteInv, FilesOk, FileOk
        <5> QED BY <1>2, <3>2, <4>2, <5>1, <5>2 DEF SameBlocks, Saved, SavedClear
      <4> QED BY <4>1, <4>2
    <3>5. \A j \in Files : BytesSame(j)
      <4>1. \A j \in Files : SameBlocks(Currents'[j], Currents[j])
        BY <1>2, <3>3, <3>4 DEF Currents, SameBlocks
      <4>2. MapOf(Currents', disk') = MapOf(Currents, disk)
        BY <1>1, <4>1, MapSame
      <4>3. Map' = Map
        BY <4>2 DEF Map
      <4> QED BY <1>1, <4>3, MapKept
    <3>6. ASSUME NEW j \in Files PROVE FileOk(j)' /\ Same(j)
      <4>1. ~On(j) /\ ~On(j)' /\ BytesSame(j) /\ FileOk(j)
        BY <1>1, <3>5, NoCall, NoCallThen DEF ByteInv, FilesOk
      <4>2. CASE j # i
        <5>1. Rests(j)
          BY <3>1, <3>2, <4>1, <4>2 DEF Rests
        <5> QED BY <4>1, <5>1, OffCall, RestingFile
      <4>3. CASE j = i
        <5>1. Same(j) /\ TailClear(j)'
          BY <1>2, <3>3, <3>4, <4>1, <4>3, SizeKept DEF FileOk
        <5>2. ZeroThen(j, dinode'[j].blocks)
          <6>1. CASE dirty[i]
            <7>1. ZeroFrom(j, din[j].blocks) /\ dinode'[j] = din[j]
              BY <1>2, <3>2, <4>1, <4>3, <6>1 DEF FileOk, SpareClear
            <7> QED BY <1>3, <4>1, <7>1, ZeroSame
          <6>2. CASE ~dirty[i]
            BY <1>3, <3>2, <3>4, <4>1, <4>3, <6>2, ZeroSame
          <6> QED BY <6>1, <6>2
        <5>3. SpareClear(j)'
          BY <3>3, <4>3, <5>2 DEF SpareClear, ZeroFrom, ZeroThen
        <5>4. SavedClear(j)'
          BY <3>1, <4>3 DEF SavedClear
        <5> QED BY <5>1, <5>3, <5>4 DEF FileOk
      <4> QED BY <4>2, <4>3
    <3>7. SizesFit'
      <4>1. \A j \in Files : Fits(din[j].size) /\ Fits(dinode[j].size)
        BY DEF ByteInv, SizesFit
      <4>2. \A j \in Files : Fits(din'[j].size) /\ Fits(dinode'[j].size)
        BY <1>4, <3>2, <4>1
      <4> QED BY <4>2 DEF SizesFit, Fits
    <3>8. FilesOk' /\ AllSame
      BY <3>6 DEF FilesOk, AllSame
    <3> QED BY <1>5, <3>7, <3>8 DEF ByteInv
  <2> QED BY <2>1, <2>2
<1>8. Image' = Image
  BY <1>7, AllImages
<1> QED BY <1>1, <1>6, <1>7, <1>8, CloseIdeal

LoadedThen(j) ==
    /\ Current(j)' = Current(j) /\ BytesSame(j)
    /\ SpareClear(j)' /\ SavedClear(j)'
    /\ Fits(din'[j].size) /\ Fits(dinode'[j].size)

(* An inode is loaded: what is in memory shows the bytes of the disk.        *)
LEMMA LoadedBytes ==
    ASSUME IInv, ByteInv, IInv', NEW i \in Files, Loaded(i), UNCHANGED diskVars, op = None
    PROVE  /\ \A j \in Files : LoadedThen(j)
           /\ SizesFit' /\ i \in loaded' /\ din'[i] = Current(i)
<1>1. /\ dinode \in [Files -> Inode] /\ din \in [Files -> Inode] /\ dirty \in [Files -> BOOLEAN]
      /\ dinode' = dinode /\ disk' = disk /\ loaded' = loaded \cup {i}
  BY DEF IInv, StorePart, PosPart, Loaded, diskVars
<1>2. /\ din'[i] = Current(i) /\ (i \notin loaded => din'[i] = dinode[i] /\ ~dirty'[i])
      /\ i \in loaded => dirty'[i] = dirty[i] /\ din'[i] = din[i]
      /\ \A j \in Files : j # i => din'[j] = din[j] /\ dirty'[j] = dirty[j]
  <2>1. CASE i \in loaded
    BY <2>1 DEF Loaded, Current
  <2>2. CASE i \notin loaded
    BY <2>2, <1>1 DEF Loaded, Current
  <2> QED BY <2>1, <2>2
<1>3. \A j \in Files : Current(j)' = Current(j)
  BY <1>1, <1>2 DEF Current
<1>4. \A j \in Files : BytesSame(j)
  <2>1. Currents' = Currents
    BY <1>3 DEF Currents
  <2>2. Map' = Map
    BY <1>1, <2>1 DEF Map
  <2> QED BY <1>1, <2>2, MapKept
<1>5. \A j \in Files : Fits(din'[j].size) /\ Fits(dinode'[j].size)
  <2>1. \A j \in Files : Fits(din[j].size) /\ Fits(dinode[j].size)
    BY DEF ByteInv, SizesFit
  <2> QED BY <1>1, <1>2, <2>1
<1>6. ASSUME NEW j \in Files PROVE SpareClear(j)' /\ ZeroThen(j, Current(j).blocks)
  <2>1. Lengths(j) /\ BytesSame(j) /\ SpareClear(j)
    BY <1>4, LengthsNow DEF LengthsAll, ByteInv, FilesOk, FileOk
  <2>2. ZeroThen(j, Current(j).blocks)
    BY <2>1, ZeroSame DEF SpareClear, Lengths
  <2> QED BY <1>3, <2>2 DEF SpareClear, ZeroFrom, ZeroThen
<1>7. ASSUME NEW j \in Files PROVE SavedClear(j)'
  <2> SUFFICES ASSUME j \in loaded', ~dirty'[j]
               PROVE  /\ din'[j].size = dinode'[j].size
                      /\ RoundUpDiv(din'[j].size) > dinode'[j].blocks =>
                            din'[j].blocks = dinode'[j].blocks
                      /\ ZeroThen(j, dinode'[j].blocks)
    BY DEF SavedClear, ZeroFrom, ZeroThen
  <2>1. CASE j \in loaded
    <3>1. ~dirty[j] /\ din'[j] = din[j]
      BY <1>2, <2>1
    <3>2. SavedClear(j) /\ ~Extending(j) /\ BytesSame(j)
      BY <1>4, NoCall DEF ByteInv, FilesOk, FileOk
    <3>3. dinode[j].blocks \in Nat
      BY <1>1, MaxIndexNat DEF Inode
    <3>4. ZeroThen(j, dinode[j].blocks)
      BY <2>1, <3>1, <3>2, <3>3, ZeroSame DEF SavedClear
    <3> QED BY <1>1, <2>1, <3>1, <3>2, <3>4 DEF SavedClear
  <2>2. CASE j \notin loaded
    <3>1. j = i /\ din'[j] = dinode[j] /\ Current(j) = dinode[j]
      BY <1>1, <1>2, <2>2 DEF Current
    <3> QED BY <1>1, <1>6, <3>1
  <2> QED BY <2>1, <2>2
<1>8. SizesFit'
  BY <1>5 DEF SizesFit, Fits
<1> QED BY <1>1, <1>2, <1>3, <1>4, <1>5, <1>6, <1>7, <1>8 DEF LoadedThen

(* open, at the start or at the end of the file.                             *)
LEMMA OpenBytes ==
    ASSUME IInv, ByteInv, IInv', NEW fd \in Fds, NEW i \in Files, Open(fd, i)
    PROVE  ByteInv' /\ IdealStep
<1>1. /\ op = None /\ op' = None /\ node[fd] = NULL /\ Loaded(i) /\ UNCHANGED diskVars
      /\ node' = [node EXCEPT ![fd] = i]
  BY DEF Open, Idle
<1>2. /\ \A j \in Files : LoadedThen(j)
      /\ SizesFit' /\ din'[i] = Current(i)
  BY <1>1, LoadedBytes
<1>3. PICK p \in {0, Current(i).size} : pos' = [pos EXCEPT ![fd] = p]
  <2>1. PICK append \in BOOLEAN : pos' = [pos EXCEPT ![fd] = IF append THEN din'[i].size ELSE 0]
    BY DEF Open
  <2>2. CASE append
    BY <1>2, <2>1, <2>2
  <2>3. CASE ~append
    BY <1>2, <2>1, <2>3
  <2> QED BY <2>2, <2>3
<1>4. ASSUME NEW j \in Files PROVE FileOk(j)' /\ Same(j)
  <2>1. ~On(j) /\ ~On(j)' /\ LoadedThen(j) /\ TailClear(j)
    BY <1>1, <1>2, NoCall, NoCallThen DEF ByteInv, FilesOk, FileOk
  <2>2. Same(j) /\ TailClear(j)'
    BY <2>1, SizeKept DEF LoadedThen
  <2> QED BY <2>1, <2>2 DEF FileOk, LoadedThen
<1>5. FilesOk' /\ AllSame
  BY <1>4 DEF FilesOk, AllSame
<1>6. pos \in [Fds -> 0..SFS_MAX_FILE_SIZE]
  BY DEF IInv, PosPart
<1>7. CallOk' /\ PositionsFit'
  <2>1. Fits(0) /\ Fits(Current(i).size)
    BY RoundZero, MaxIndexNat DEF Fits, ByteInv, SizesFit, Current
  <2>2. \A f \in Fds : pos'[f] = IF f = fd THEN p ELSE pos[f]
    BY <1>3, <1>6
  <2> QED BY <1>1, <2>1, <2>2 DEF CallOk, PositionsFit, ByteInv, Fits
<1>8. ByteInv'
  BY <1>2, <1>5, <1>7 DEF ByteInv
<1>9. Image' = Image
  BY <1>5, <1>8, AllImages
<1>10. Where' = [Where EXCEPT ![fd] = p] /\ Got' = Got
  BY <1>1, <1>3, <1>6 DEF Where, Position, Got
<1>11. p \in {0, Len(Image[i])}
  <2>1. Length(i) = Current(i).size /\ Lengths(i)
    BY <1>1, NoCall, LengthsNow DEF LengthsAll, Lengths
  <2>2. Image[i] = [j \in 1..Length(i) |-> ByteAt(i, j - 1)] /\ Length(i) \in Nat
    BY ShownNow DEF ShownAll, Shown, Image
  <2>3. Len(Image[i]) = Length(i)
    BY <2>2
  <2> QED BY <1>3, <2>1, <2>3
<1> QED BY <1>1, <1>8, <1>9, <1>10, <1>11, OpenIdeal

(* open with O_TRUNC or O_CREAT: from here on the file is empty.             *)
LEMMA OpenTruncatedBytes ==
    ASSUME IInv, ByteInv, IInv', NEW fd \in Fds, NEW i \in Files, OpenTruncated(fd, i)
    PROVE  ByteInv' /\ IdealStep
<1>1. op = None /\ node[fd] = NULL /\ Loaded(i) /\ UNCHANGED diskVars
  BY DEF OpenTruncated, Idle
<1>2. /\ \A j \in Files : LoadedThen(j)
      /\ SizesFit' /\ din'[i] = Current(i) /\ Lengths(i) /\ Lengths(i)' /\ Length(i) = Current(i).size
  BY <1>1, NoCall, LoadedBytes, LengthsNow, LengthsThen DEF LengthsAll, Lengths
<1>3. ASSUME NEW j \in Files, ~On(j)' PROVE FileOk(j)' /\ Same(j)
  <2>1. ~On(j) /\ LoadedThen(j) /\ TailClear(j)
    BY <1>1, <1>2, NoCall DEF ByteInv, FilesOk, FileOk
  <2>2. Same(j) /\ TailClear(j)'
    BY <1>3, <2>1, SizeKept DEF LoadedThen
  <2> QED BY <2>1, <2>2 DEF FileOk, LoadedThen
<1>4. CASE UNCHANGED <<node, pos, op>>
  <2>1. \A j \in Files : ~On(j)'
    BY <1>1, <1>4, NoCallThen
  <2>2. FilesOk' /\ AllSame
    BY <1>3, <2>1 DEF FilesOk, AllSame
  <2>3. CallOk' /\ PositionsFit'
    BY <1>1, <1>4 DEF CallOk, PositionsFit, ByteInv, Fits
  <2>4. ByteInv'
    BY <1>2, <2>2, <2>3 DEF ByteInv
  <2>5. Image' = Image
    BY <2>2, <2>4, AllImages
  <2>6. Where' = Where /\ Got' = Got
    BY <1>4 DEF Where, Position, Got
  <2> QED BY <1>4, <2>4, <2>5, <2>6, StutterStep
<1>5. CASE /\ node' = [node EXCEPT ![fd] = i]
           /\ pos' = [pos EXCEPT ![fd] = 0]
           /\ op' = IF din'[i].size = 0 THEN None ELSE [kind |-> "resize", fd |-> fd, len |-> 0]
  <2>1. /\ node'[fd] = i /\ pos \in [Fds -> 0..SFS_MAX_FILE_SIZE]
    BY <1>5 DEF IInv, NodePart, PosPart
  <2>2. \A j \in Files : j # i => ~On(j)'
    BY <1>5, <2>1, NoCallThen DEF On, None
  <2>3. Length(i)' = 0 /\ FileOk(i)'
    <3>1. CASE din'[i].size = 0
      <4>1. op' = None /\ ~On(i)'
        BY <1>5, <3>1, NoCallThen
      <4>2. FileOk(i)' /\ Same(i)
        BY <1>3, <4>1
      <4> QED BY <1>2, <3>1, <4>2 DEF Same
    <3>2. CASE din'[i].size # 0
      <4>1. /\ op' # None /\ op'.kind = "resize" /\ op'.fd = fd /\ op'.len = 0
            /\ On(i)' /\ Truncating(i)'
        BY <1>5, <2>1, <3>2 DEF None, On, Truncating
      <4>2. Length(i)' = Smaller(din'[i].size, 0) /\ Current(i)' = Current(i)
        BY <1>2, <4>1 DEF Lengths, LoadedThen
      <4>3. Length(i)' = 0
        BY <1>2, <3>2, <4>2 DEF Smaller, Lengths
      <4> QED BY <1>2, <4>1, <4>3 DEF FileOk, TailClear, LoadedThen
    <3> QED BY <3>1, <3>2
  <2>4. FilesOk'
    BY <1>3, <2>2, <2>3 DEF FilesOk
  <2>5. PositionsFit'
    <3>1. \A f \in Fds : pos'[f] = IF f = fd THEN 0 ELSE pos[f]
      BY <1>5, <2>1
    <3>2. Fits(0)
      BY RoundZero, MaxIndexNat DEF Fits
    <3> QED BY <3>1, <3>2 DEF PositionsFit, ByteInv, Fits
  <2>6. CallOk'
    BY <1>5 DEF CallOk, None
  <2>7. ByteInv'
    BY <1>2, <2>4, <2>5, <2>6 DEF ByteInv
  <2>8. Contents(i)' = <<>>
    BY <2>3, <2>7, ShownThen DEF ShownAll, Shown
  <2>9. Image' = [Image EXCEPT ![i] = <<>>]
    <3>1. \A j \in Files : j # i => Contents(j)' = Contents(j)
      BY <1>3, <2>2, <2>7, ImageSame
    <3> QED BY <2>8, <3>1, ImageOne
  <2>10. Where' = [Where EXCEPT ![fd] = 0] /\ Got' = Got
    BY <1>1, <1>5, <2>1 DEF Where, Position, Got, None
  <2> QED BY <1>1, <1>5, <2>7, <2>9, <2>10, OpenTruncatedIdeal
<1> QED BY <1>4, <1>5 DEF OpenTruncated

-----------------------------------------------------------------------------
(* A block comes or goes.                                                   *)

Gap(i) == RoundUpDiv(Current(i).size) > Current(i).blocks

(* sfs_bmap_load_nolock cannot give the file a block.                        *)
NoBlock(i) ==
    \/ freemap = {} /\ Block(Current(i), Current(i).blocks) = 0
    \/ /\ Current(i).blocks >= SFS_NDIRECT /\ Current(i).indirect = 0
       /\ Cardinality(freemap) = 1

(* A size that goes beyond the blocks was set when the disk was full, and no *)
(* block has become free since.                                             *)
GapOk(i) == Gap(i) /\ ~Truncating(i) => NoBlock(i)
GapStays == \A i \in Files : GapOk(i)

(* sfs_bmap_load_nolock makes one file one block longer, when it finds one.  *)
LEMMA LoadFields ==
    ASSUME IInv, NEW i \in loaded, NEW k \in Nat, Load(i, k)
    PROVE  /\ k = din[i].blocks /\ k < MaxIndex
           /\ din'[i].blocks = k + 1 /\ din'[i].size = din[i].size
           /\ \A j \in Files : j # i => din'[j] = din[j] /\ dirty'[j] = dirty[j]
           /\ ~dirty'[i] => ~dirty[i]
           /\ Current(i) = din[i] /\ ~NoBlock(i)
<1>1. /\ i \in Files /\ din \in [Files -> Inode] /\ dirty \in [Files -> BOOLEAN]
      /\ Current(i) = din[i] /\ k = din[i].blocks /\ k < MaxIndex
  BY DEF IInv, NodePart, StorePart, Load, Current
<1> DEFINE d == Grown(i, k)
<1>2. d.blocks = k + 1 /\ d.size = din[i].size /\ d \in [size : 0..SFS_MAX_FILE_SIZE, blocks : {k + 1},
          direct : [0..(SFS_NDIRECT - 1) -> 0..NBlocks], indirect : 0..NBlocks]
  BY <1>1 DEF Grown, Inode
<1> HIDE DEF d
<1>3. Cardinality({}) = 0
  BY FS_EmptySet
<1>4. CASE AddDirect(i, k)
  <2>1. /\ k < SFS_NDIRECT /\ freemap # {}
        /\ din' = [din EXCEPT ![i] = [d EXCEPT !.direct[k] = First]]
        /\ dirty' = [dirty EXCEPT ![i] = TRUE]
    BY <1>4 DEF AddDirect, d
  <2>2. [d EXCEPT !.direct[k] = First].blocks = d.blocks /\ [d EXCEPT !.direct[k] = First].size = d.size
    BY <1>2
  <2>3. ~NoBlock(i)
    BY <1>1, <2>1, SfsAssumption DEF NoBlock
  <2> QED BY <1>1, <1>2, <2>1, <2>2, <2>3
<1>5. CASE AddIndirect(i, k)
  <2>1. /\ k >= SFS_NDIRECT /\ Cardinality(freemap) >= 2
        /\ din' = [din EXCEPT ![i] = [d EXCEPT !.indirect = First]]
        /\ dirty' = [dirty EXCEPT ![i] = TRUE]
    BY <1>5 DEF AddIndirect, d
  <2>2. [d EXCEPT !.indirect = First].blocks = d.blocks /\ [d EXCEPT !.indirect = First].size = d.size
    BY <1>2
  <2>3. ~NoBlock(i)
    BY <1>1, <1>3, <2>1 DEF NoBlock
  <2> QED BY <1>1, <1>2, <2>1, <2>2, <2>3
<1>6. CASE AddEntry(i, k)
  <2>1. /\ din[i].indirect # 0 /\ freemap # {}
        /\ din' = [din EXCEPT ![i] = d] /\ dirty' = dirty
    BY <1>6 DEF AddEntry, d
  <2>2. ~NoBlock(i)
    BY <1>1, <2>1 DEF NoBlock
  <2> QED BY <1>1, <1>2, <2>1, <2>2
<1>7. CASE ReuseEntry(i, k)
  <2>1. /\ Block(din[i], k) # 0
        /\ din' = [din EXCEPT ![i] = d] /\ dirty' = dirty
    BY <1>7 DEF ReuseEntry, d
  <2>2. ~NoBlock(i)
    BY <1>1, <2>1, SfsAssumption DEF NoBlock, Block
  <2> QED BY <1>1, <1>2, <2>1, <2>2
<1> QED BY <1>4, <1>5, <1>6, <1>7 DEF Load

(* A block that comes is cleared, and no byte shows that was not there: a    *)
(* size beyond the blocks is one for which no block is found.                *)
LEMMA LoadBytes ==
    ASSUME IInv, ByteInv, IInv', GapStays, op # None, NEW i, i = node[op.fd], ~Truncating(i),
           NEW k \in Nat, Load(i, k), UNCHANGED <<dinode, loaded, node, pos, op>>
    PROVE  ByteInv' /\ IdealStep
<1>1. /\ i \in Files /\ i \in loaded /\ Current(i) = din[i] /\ On(i)
      /\ din[i].size \in Nat /\ din[i].blocks \in Nat
      /\ \A j \in Files : j # i => ~On(j) /\ ~On(j)'
  BY CallFile DEF On
<1>2. /\ k = din[i].blocks /\ din'[i].blocks = k + 1 /\ din'[i].size = din[i].size
      /\ \A j \in Files : j # i => din'[j] = din[j] /\ dirty'[j] = dirty[j]
      /\ ~dirty'[i] => ~dirty[i]
      /\ ~NoBlock(i)
  BY <1>1, LoadFields
<1>3. \A j \in Files : BytesSame(j)
  <2>1. BytesKept
    BY <1>1, LoadStep, TypeCorrect DEF IInv
  <2> QED BY <2>1 DEF BytesKept, BytesSame
<1>4. ~(RoundUpDiv(din[i].size) > din[i].blocks)
  BY <1>1, <1>2 DEF GapStays, GapOk, Gap
<1>5. Current(i)' = din'[i]
  BY <1>1 DEF Current
<1>6. Length(i)' = Length(i)
  BY <1>1, <1>2, <1>5 DEF Length
<1>7. ASSUME NEW j \in Files PROVE FileOk(j)' /\ Same(j)
  <2>1. BytesSame(j) /\ FileOk(j)
    BY <1>3 DEF ByteInv, FilesOk
  <2>2. CASE j # i
    <3>1. Rests(j)
      BY <1>2, <2>1, <2>2 DEF Rests
    <3> QED BY <1>1, <2>1, <2>2, <3>1, OffCall, RestingFile
  <2>3. CASE j = i
    <3>1. Same(j)
      BY <1>6, <2>1, <2>3, BytesAt DEF Same
    <3>2. TailClear(j)'
      BY <1>6, <2>1, <2>3, <3>1 DEF FileOk, TailClear, Same
    <3>3. SpareClear(j)'
      <4>1. ZeroThen(j, k + 1)
        BY <1>1, <1>2, <2>1, <2>3, ZeroSame DEF FileOk, SpareClear
      <4> QED BY <1>2, <1>5, <2>3, <4>1 DEF SpareClear, ZeroFrom, ZeroThen
    <3>4. SavedClear(j)'
      <4> SUFFICES ASSUME ~dirty'[j]
                   PROVE  /\ din'[j].size = dinode[j].size
                          /\ ~(RoundUpDiv(din'[j].size) > dinode[j].blocks)
                          /\ ~Extending(j)' => ZeroThen(j, dinode[j].blocks)
        BY DEF SavedClear, ZeroFrom, ZeroThen
      <4>1. SavedClear(j) /\ ~dirty[j] /\ j \in loaded
        BY <1>1, <1>2, <2>1, <2>3 DEF FileOk
      <4>2. ~(RoundUpDiv(din[j].size) > dinode[j].blocks)
        BY <1>4, <2>3, <4>1 DEF SavedClear
      <4>3. Extending(j)' <=> Extending(j)
        BY <1>2, <2>3 DEF Extending, On
      <4>4. dinode[j].blocks \in Nat
        BY MaxIndexNat DEF IInv, PosPart, Inode
      <4>5. ~Extending(j)' => ZeroThen(j, dinode[j].blocks)
        BY <2>1, <4>1, <4>3, <4>4, ZeroSame DEF SavedClear
      <4> QED BY <1>2, <2>3, <4>1, <4>2, <4>5 DEF SavedClear
    <3> QED BY <3>1, <3>2, <3>3, <3>4 DEF FileOk
  <2> QED BY <2>2, <2>3
<1>8. FilesOk' /\ AllSame
  BY <1>7 DEF FilesOk, AllSame
<1>9. SizesFit'
  <2>1. \A j \in Files : Fits(din[j].size) /\ Fits(dinode[j].size)
    BY DEF ByteInv, SizesFit
  <2>2. \A j \in Files : Fits(din'[j].size) /\ Fits(dinode'[j].size)
    BY <1>2, <2>1
  <2> QED BY <2>2 DEF SizesFit, Fits
<1>10. CallOk' /\ PositionsFit'
  <2>1. PositionsFit'
    BY DEF PositionsFit, ByteInv, Fits
  <2>2. op.kind = "write" /\ op.off = op.end => RoundUpDiv(op.off) <= k + 1
    <3>1. op.kind = "write" => op.off \in Nat /\ RoundUpDiv(op.off) \in Nat
      BY Kinds, Rounding
    <3> QED BY <1>1, <1>2, <3>1 DEF ByteInv, CallOk
  <2>3. CallOk'
    BY <1>2, <2>2 DEF CallOk, ByteInv, Fits
  <2> QED BY <2>1, <2>3
<1>11. ByteInv'
  BY <1>8, <1>9, <1>10 DEF ByteInv
<1>12. Image' = Image
  BY <1>8, <1>11, AllImages
<1>13. Where' = Where /\ Got' = Got
  BY DEF Where, Position, Got
<1> QED BY <1>11, <1>12, <1>13, StutterStep

(* A block that sfs_io_nolock asks for.                                      *)
LEMMA IoLoadBytes ==
    ASSUME IInv, ByteInv, IInv', GapStays, IoLoad, NEW i, i = node[op.fd]
    PROVE  ByteInv' /\ IdealStep
<1> DEFINE k == op.off \div SFS_BLKSIZE
<1>1. /\ op.kind \in {"read", "write"} /\ Load(i, k)
      /\ UNCHANGED <<dinode, loaded, node, pos, op>>
  BY DEF IoLoad, Transferring
<1>2. op # None /\ k \in Nat
  BY <1>1, Kinds, PieceFacts
<1>3. ~Truncating(i)
  BY <1>1 DEF Truncating
<1> HIDE DEF k
<1> QED BY <1>1, <1>2, <1>3, LoadBytes

(* A block that sfs_truncfile asks for.                                      *)
LEMMA ResizeAddBytes ==
    ASSUME IInv, ByteInv, IInv', GapStays, ResizeAdd, NEW i, i = node[op.fd]
    PROVE  ByteInv' /\ IdealStep
<1> DEFINE k == din[i].blocks
<1>1. /\ op.kind = "resize" /\ k < RoundUpDiv(op.len) /\ Load(i, k)
      /\ UNCHANGED <<dinode, loaded, node, pos, op>>
  BY DEF ResizeAdd, Running
<1>2. op # None /\ k \in Nat
  BY <1>1, Kinds, CallFile
<1> HIDE DEF k
<1>3. ~Truncating(i)
  BY <1>1, <1>2, RoundZero DEF Truncating
<1> QED BY <1>1, <1>2, <1>3, LoadBytes

(* A block is removed from the end.                                         *)
LEMMA RemoveFields ==
    ASSUME IInv, NEW i \in loaded, RemoveDirect(i) \/ RemoveEntry(i)
    PROVE  /\ din'[i].blocks = din[i].blocks - 1 /\ din'[i].size = din[i].size
           /\ \A j \in Files : j # i => din'[j] = din[j]
<1>1. i \in Files /\ din \in [Files -> Inode] /\ din[i] \in Inode
  BY DEF IInv, NodePart, StorePart
<1> DEFINE k == din[i].blocks - 1
           g == Shrunk(i)
<1>2. g.blocks = k /\ g.size = din[i].size /\ g \in [size : 0..SFS_MAX_FILE_SIZE, blocks : {k},
          direct : [0..(SFS_NDIRECT - 1) -> 0..NBlocks], indirect : 0..NBlocks]
  BY <1>1 DEF Shrunk, Inode
<1>3. CASE RemoveDirect(i)
  <2>1. din' = [din EXCEPT ![i] = ClearsDirect(g, k)]
    BY <1>3 DEF RemoveDirect
  <2> HIDE DEF g
  <2>2. ClearsDirect(g, k).blocks = g.blocks /\ ClearsDirect(g, k).size = g.size
    BY <1>2 DEF ClearsDirect
  <2> QED BY <1>1, <1>2, <2>1, <2>2
<1>4. CASE RemoveEntry(i)
  <2>1. din' = [din EXCEPT ![i] = g]
    BY <1>4 DEF RemoveEntry
  <2> HIDE DEF g
  <2> QED BY <1>1, <1>2, <2>1
<1> QED BY <1>3, <1>4

(* A block that sfs_truncfile gives back shows no byte: the file is being    *)
(* made empty, or its blocks go beyond the larger size it gets.              *)
LEMMA ResizeRemoveBytes ==
    ASSUME IInv, ByteInv, IInv', ResizeRemove, NEW i, i = node[op.fd]
    PROVE  ByteInv' /\ IdealStep
<1> DEFINE k == din[i].blocks - 1
           size == din[i].size
<1>1. /\ op.kind = "resize" /\ din[i].blocks > RoundUpDiv(op.len)
      /\ RemoveDirect(i) \/ RemoveEntry(i)
      /\ dirty' = [dirty EXCEPT ![i] = TRUE]
      /\ UNCHANGED <<dinode, loaded, node, pos, op>>
  BY DEF ResizeRemove, Running
<1>2. op # None /\ op.len \in Nat /\ RoundUpDiv(op.len) \in Nat
  <2>1. op # None /\ op.len \in Nat
    BY <1>1, Kinds, SfsAssumption
  <2> QED BY <2>1, Rounding
<1>3. /\ i \in Files /\ i \in loaded /\ Current(i) = din[i] /\ On(i)
      /\ size \in Nat /\ din[i].blocks \in Nat /\ din[i].blocks \in 0..MaxIndex
      /\ \A j \in Files : j # i => ~On(j) /\ ~On(j)'
  BY <1>1, <1>2, CallFile DEF On
<1>4. din[i].blocks # 0 /\ k \in 0..(MaxIndex - 1) /\ k \in Nat /\ MaxIndex \in Nat
  BY <1>1, <1>2, <1>3, MaxIndexNat
<1>5. /\ din'[i].blocks = k /\ din'[i].size = size
      /\ \A j \in Files : j # i => din'[j] = din[j]
  BY <1>1, <1>3, RemoveFields
<1>6. BytesCut(i, k)
  <2>1. SfsTypeOK /\ StorePart
    BY TypeCorrect DEF IInv
  <2>2. CASE RemoveDirect(i)
    BY <1>1, <1>3, <1>4, <2>1, <2>2, RemoveDirectStep
  <2>3. CASE RemoveEntry(i)
    BY <1>1, <1>3, <1>4, <2>1, <2>3, RemoveEntryStep
  <2> QED BY <1>1, <2>2, <2>3
<1>7. /\ dirty'[i] /\ \A j \in Files : j # i => dirty'[j] = dirty[j]
  BY <1>1, <1>3 DEF IInv, StorePart
<1>8. Current(i)' = din'[i]
  BY <1>1, <1>3 DEF Current
<1>9. Length(i)' = Length(i) /\ (Truncating(i)' <=> Truncating(i))
  BY <1>1, <1>3, <1>5, <1>8 DEF Length, Truncating, On
<1> HIDE DEF k, size
<1>10. \A j \in Positions :
          ByteAt(i, j)' = IF j \div SFS_BLKSIZE = k THEN 0 ELSE ByteAt(i, j)
  BY <1>3, <1>6, PositionIs DEF BytesCut, ByteAt
<1>11. ASSUME NEW j \in Files, j # i PROVE FileOk(j)' /\ Same(j)
  <2>1. FileOk(j)
    BY DEF ByteInv, FilesOk
  <2>2. BytesSame(j)
    BY <1>6, <1>11 DEF BytesCut, BytesSame
  <2>3. Rests(j)
    BY <1>1, <1>5, <1>7, <1>11, <2>2 DEF Rests
  <2> QED BY <1>3, <1>11, <2>1, <2>3, OffCall, RestingFile
<1>12. FileOk(i)'
  <2>1. FileOk(i)
    BY <1>3 DEF ByteInv, FilesOk
  <2>2. TailClear(i)'
    BY <1>9, <1>10, <2>1 DEF FileOk, TailClear
  <2>3. SpareClear(i)'
    <3>1. ZeroThen(i, k)
      <4> SUFFICES ASSUME NEW m \in k..(MaxIndex - 1), NEW c \in Cells PROVE Holds(i, m, c)' = 0
        BY DEF ZeroThen
      <4>1. m \in 0..(MaxIndex - 1) /\ m \in Nat
        BY <1>4
      <4>2. Holds(i, m, c)' = IF m = k THEN 0 ELSE Holds(i, m, c)
        BY <1>3, <1>6, <4>1 DEF BytesCut
      <4>3. m # k => m \in din[i].blocks..(MaxIndex - 1)
        BY <1>3, <1>4, <4>1 DEF k
      <4>4. m # k => Holds(i, m, c) = 0
        BY <1>3, <2>1, <4>3 DEF FileOk, SpareClear, ZeroFrom
      <4> QED BY <4>2, <4>4
    <3> QED BY <1>5, <1>8, <3>1 DEF SpareClear, ZeroFrom, ZeroThen
  <2>4. SavedClear(i)'
    BY <1>7 DEF SavedClear
  <2> QED BY <2>2, <2>3, <2>4 DEF FileOk
<1>13. FilesOk'
  BY <1>11, <1>12 DEF FilesOk
<1>14. SizesFit'
  <2>1. \A j \in Files : Fits(din[j].size) /\ Fits(dinode[j].size)
    BY DEF ByteInv, SizesFit
  <2>2. \A j \in Files : Fits(din'[j].size) /\ Fits(dinode'[j].size)
    BY <1>1, <1>5, <2>1 DEF size
  <2> QED BY <2>2 DEF SizesFit, Fits
<1>15. CallOk' /\ PositionsFit'
  <2>1. PositionsFit'
    BY <1>1 DEF PositionsFit, ByteInv, Fits
  <2>2. CallOk'
    BY <1>1, <1>5 DEF CallOk, ByteInv, size
  <2> QED BY <2>1, <2>2
<1>16. ByteInv'
  BY <1>13, <1>14, <1>15 DEF ByteInv
<1>17. Contents(i)' = Contents(i)
  <2>1. Shown(i) /\ Shown(i)' /\ Lengths(i)
    BY <1>3, <1>16, ShownNow, ShownThen, LengthsNow DEF ShownAll, LengthsAll
  <2>2. Length(i) = Smaller(size, op.len)
    BY <1>1, <1>3, <2>1 DEF Lengths, size
  <2>3. ASSUME NEW j \in 1..Length(i) PROVE ByteAt(i, j - 1)' = ByteAt(i, j - 1)
    <3>1. j - 1 \in Positions /\ j - 1 \in Nat /\ j - 1 < Length(i) /\ Length(i) \in Nat
      BY <2>1 DEF Shown
    <3>2. j - 1 < op.len
      BY <1>2, <1>3, <2>2, <3>1 DEF Smaller
    <3>3. (j - 1) \div SFS_BLKSIZE < RoundUpDiv(op.len) /\ (j - 1) \div SFS_BLKSIZE \in Nat
      BY <1>2, <3>1, <3>2, Rounding, IndexNat
    <3>4. (j - 1) \div SFS_BLKSIZE # k
      BY <1>1, <1>2, <1>3, <3>3 DEF k
    <3> QED BY <1>10, <3>1, <3>4
  <2>4. Contents(i)' = [j \in 1..Length(i)' |-> ByteAt(i, j - 1)']
    BY <2>1 DEF Shown
  <2>5. Contents(i) = [j \in 1..Length(i) |-> ByteAt(i, j - 1)]
    BY <2>1 DEF Shown
  <2> QED BY <1>9, <2>3, <2>4, <2>5
<1>18. Image' = Image
  <2>1. \A j \in Files : Contents(j)' = Contents(j)
    BY <1>11, <1>16, <1>17, ImageSame
  <2> QED BY <2>1 DEF Image
<1>19. Where' = Where /\ Got' = Got
  BY <1>1 DEF Where, Position, Got
<1> QED BY <1>1, <1>16, <1>18, <1>19, StutterStep

-----------------------------------------------------------------------------
(* The size is set at the end of a call.                                    *)

(* One inode's size is set at the end of a call.                             *)
LEMMA SizeBytes ==
    ASSUME IInv, NEW i \in loaded, NEW n \in 0..SFS_MAX_FILE_SIZE,
           din' = [din EXCEPT ![i] = [din[i] EXCEPT !.size = n]],
           UNCHANGED <<diskVars, loaded>>
    PROVE  /\ din'[i].size = n /\ din'[i].blocks = din[i].blocks /\ Current(i)' = din'[i]
           /\ \A j \in Files : BytesSame(j)
           /\ \A j \in Files : j # i => din'[j] = din[j] /\ dinode'[j] = dinode[j]
<1> DEFINE d == [din[i] EXCEPT !.size = n]
<1>1. i \in Files /\ din \in [Files -> Inode] /\ din[i] \in Inode /\ disk' = disk /\ dinode' = dinode
  BY DEF IInv, NodePart, StorePart, diskVars
<1>2. d \in Inode /\ d.blocks = din[i].blocks /\ SameBlocks(d, din[i])
  BY <1>1, InodeChanges
<1>3. d.size = n
  BY <1>1 DEF Inode
<1>4. Assigned(i, d)
  BY <1>1, <1>2 DEF Assigned
<1> HIDE DEF d
<1>5. /\ Currents[i] = din[i] /\ Currents'[i] = d
      /\ \A j \in Files : j # i => Currents'[j] = Currents[j]
  BY <1>4, TypeCorrect, OneInode
<1>6. \A j \in Files : BytesSame(j)
  <2>1. \A j \in Files : SameBlocks(Currents'[j], Currents[j])
    BY <1>2, <1>5 DEF SameBlocks
  <2>2. MapOf(Currents', disk') = MapOf(Currents, disk)
    BY <1>1, <2>1, MapSame
  <2>3. Map' = Map
    BY <2>2 DEF Map
  <2> QED BY <1>1, <2>3, MapKept
<1>7. din'[i] = d /\ \A j \in Files : j # i => din'[j] = din[j]
  BY <1>1 DEF d
<1>8. Current(i)' = din'[i]
  BY DEF Current
<1> QED BY <1>1, <1>2, <1>3, <1>6, <1>7, <1>8

(* The end of sfs_truncfile: a seek beyond the end reads as zeroes.          *)
LEMMA ResizeDoneBytes ==
    ASSUME IInv, ByteInv, IInv', ResizeDone, NEW i, i = node[op.fd]
    PROVE  ByteInv' /\ IdealStep
<1> DEFINE size == din[i].size
           len == op.len
<1>1. /\ op.kind = "resize" /\ din[i].blocks = RoundUpDiv(len)
      /\ din' = [din EXCEPT ![i] = [din[i] EXCEPT !.size = len]]
      /\ dirty' = [dirty EXCEPT ![i] = TRUE]
      /\ pos' = [pos EXCEPT ![op.fd] = len]
      /\ op' = None
      /\ UNCHANGED <<diskVars, loaded, node, panic>>
  BY DEF ResizeDone, Running
<1>2. op # None /\ len \in 0..SFS_MAX_FILE_SIZE /\ len \in Nat /\ (len # 0 => len > size)
  BY <1>1, Kinds, SfsAssumption DEF ByteInv, CallOk
<1>3. /\ i \in Files /\ i \in loaded /\ op.fd \in Fds /\ Current(i) = din[i] /\ On(i)
      /\ size \in Nat /\ din[i].blocks \in Nat /\ din[i].blocks \in 0..MaxIndex
      /\ \A j \in Files : j # i => ~On(j)
      /\ pos \in [Fds -> 0..SFS_MAX_FILE_SIZE]
  BY <1>2, CallFile
<1>4. /\ din'[i].size = len /\ din'[i].blocks = din[i].blocks /\ Current(i)' = din'[i]
      /\ \A j \in Files : BytesSame(j)
      /\ \A j \in Files : j # i => din'[j] = din[j] /\ dinode'[j] = dinode[j]
  BY <1>1, <1>2, <1>3, SizeBytes
<1>5. /\ dirty'[i] /\ \A j \in Files : j # i => dirty'[j] = dirty[j]
  BY <1>1, <1>3 DEF IInv, StorePart
<1>6. \A j \in Files : ~On(j)' /\ ~Truncating(j)' /\ ~Extending(j)'
  BY <1>1, NoCallThen
<1> HIDE DEF size, len
<1>7. /\ Length(i) = (IF size < len THEN size ELSE len) /\ Length(i)' = len
      /\ (Truncating(i) <=> len = 0)
  <2>1. Lengths(i) /\ Lengths(i)'
    BY <1>3, LengthsNow, LengthsThen DEF LengthsAll
  <2> QED BY <1>1, <1>3, <1>4, <1>6, <2>1 DEF Lengths, Smaller, Truncating, size, len
<1>8. ASSUME NEW j \in Files, j # i PROVE FileOk(j)' /\ Same(j)
  <2>1. FileOk(j)
    BY DEF ByteInv, FilesOk
  <2>2. Rests(j)
    BY <1>1, <1>4, <1>5, <1>8 DEF Rests
  <2> QED BY <1>3, <1>6, <1>8, <2>1, <2>2, OffCall, RestingFile
<1>9. \A j \in Positions : ByteAt(i, j)' = ByteAt(i, j)
  BY <1>3, <1>4, BytesAt
<1>10. FileOk(i)
  BY <1>3 DEF ByteInv, FilesOk
<1>11. \A j \in Positions : j >= len => ByteAt(i, j) = 0
  <2>1. CASE len = 0
    <3>1. din[i].blocks = 0
      BY <1>1, <2>1, RoundZero
    <3>2. ZeroFrom(i, 0)
      BY <1>3, <1>10, <3>1 DEF FileOk, SpareClear
    <3> QED BY <3>2, PositionIs DEF ZeroFrom, ByteAt
  <2>2. CASE len # 0
    <3>1. \A j \in Positions : j >= Length(i) => ByteAt(i, j) = 0
      BY <1>7, <1>10, <2>2 DEF FileOk, TailClear
    <3>2. \A j \in Positions : j \in Nat
      BY PositionIs
    <3>3. Length(i) \in Nat /\ Length(i) <= len
      BY <1>2, <1>3, <1>7 DEF size
    <3> QED BY <1>2, <3>1, <3>2, <3>3
  <2> QED BY <2>1, <2>2
<1>12. FileOk(i)'
  <2>1. TailClear(i)'
    BY <1>7, <1>9, <1>11 DEF TailClear
  <2>2. ZeroThen(i, din[i].blocks)
    BY <1>3, <1>4, <1>10, ZeroSame DEF FileOk, SpareClear
  <2>3. SpareClear(i)'
    BY <1>4, <2>2 DEF SpareClear, ZeroFrom, ZeroThen
  <2>4. SavedClear(i)'
    BY <1>5 DEF SavedClear
  <2> QED BY <2>1, <2>3, <2>4 DEF FileOk
<1>13. FilesOk'
  BY <1>8, <1>12 DEF FilesOk
<1>14. Fits(len)
  BY <1>1, <1>3, MaxIndexNat DEF Fits
<1>15. SizesFit'
  <2>1. \A j \in Files : Fits(din[j].size) /\ Fits(dinode[j].size)
    BY DEF ByteInv, SizesFit
  <2>2. \A j \in Files : Fits(din'[j].size) /\ Fits(dinode'[j].size)
    BY <1>1, <1>4, <1>14, <2>1 DEF diskVars
  <2> QED BY <2>2 DEF SizesFit, Fits
<1>16. CallOk' /\ PositionsFit'
  <2>1. \A f \in Fds : pos'[f] = IF f = op.fd THEN len ELSE pos[f]
    BY <1>1, <1>3
  <2> QED BY <1>1, <1>14, <2>1 DEF CallOk, PositionsFit, ByteInv, Fits
<1>17. ByteInv'
  BY <1>13, <1>15, <1>16 DEF ByteInv
<1>18. Contents(i)' = Stretched(Contents(i), len)
  <2>1. Length(i)' = Larger(Length(i), len)
    BY <1>2, <1>3, <1>7 DEF Larger, size
  <2>2. \A j \in Positions : j >= Length(i) /\ j < Length(i)' => ByteAt(i, j) = 0
    <3>1. CASE len = 0
      <4>1. \A j \in Positions : j \in Nat
        BY PositionIs
      <4> QED BY <1>7, <3>1, <4>1
    <3>2. CASE len # 0
      BY <1>7, <1>10, <3>2 DEF FileOk, TailClear
    <3> QED BY <3>1, <3>2
  <2> QED BY <1>2, <1>3, <1>9, <1>17, <2>1, <2>2, StretchedImage
<1>19. Image' = [Image EXCEPT ![i] = Stretched(Contents(i), len)]
  <2>1. \A j \in Files : j # i => Contents(j)' = Contents(j)
    BY <1>8, <1>17, ImageSame
  <2> QED BY <1>3, <1>18, <2>1, ImageOne
<1>20. Where' = [Where EXCEPT ![op.fd] = len] /\ Got' = Got
  BY <1>1, <1>3 DEF Where, Position, Got
<1>21. Image[i] = Contents(i) /\ i # NULL
  BY <1>3, SfsAssumption DEF Image
<1> QED BY <1>1, <1>2, <1>3, <1>17, <1>19, <1>20, <1>21, SeekIdeal

(* The end of sfs_io_nolock: the size covers what was written.               *)
LEMMA IoDoneBytes ==
    ASSUME IInv, ByteInv, IInv', IoDone, NEW i, i = node[op.fd]
    PROVE  ByteInv' /\ IdealStep
<1> DEFINE size == din[i].size
           off == op.off
           n == Larger(size, off)
<1>1. /\ op.kind \in {"read", "write"}
      /\ din' = [din EXCEPT ![i] = [din[i] EXCEPT !.size = n]]
      /\ dirty' = [dirty EXCEPT ![i] = dirty[i] \/ off > size]
      /\ pos' = [pos EXCEPT ![op.fd] = off]
      /\ op' = None
      /\ UNCHANGED <<diskVars, loaded, node, panic>>
  BY DEF IoDone, Running, SizeRaised
<1>2. /\ op # None /\ off \in Nat /\ off \in 0..SFS_MAX_FILE_SIZE /\ Fits(off)
  BY <1>1, Kinds DEF ByteInv, CallOk
<1>3. /\ i \in Files /\ i \in loaded /\ op.fd \in Fds /\ Current(i) = din[i] /\ On(i)
      /\ size \in Nat /\ din[i].blocks \in Nat /\ din[i] \in Inode
      /\ \A j \in Files : j # i => ~On(j)
      /\ pos \in [Fds -> 0..SFS_MAX_FILE_SIZE]
  BY <1>2, CallFile
<1>4. n = (IF size > off THEN size ELSE off) /\ n \in 0..SFS_MAX_FILE_SIZE
  BY <1>2, <1>3 DEF Larger, Inode
<1>5. /\ ~dirty'[i] => ~dirty[i] /\ ~(off > size)
      /\ \A j \in Files : j # i => dirty'[j] = dirty[j]
  <2>1. dirty \in [Files -> BOOLEAN]
    BY DEF IInv, StorePart
  <2> DEFINE raised == dirty[i] \/ off > size
  <2>2. dirty' = [dirty EXCEPT ![i] = raised]
    BY <1>1
  <2>3. raised <=> dirty[i] \/ off > size
    OBVIOUS
  <2> HIDE DEF raised
  <2>4. dirty'[i] = raised /\ \A j \in Files : j # i => dirty'[j] = dirty[j]
    BY <1>3, <2>1, <2>2
  <2> QED BY <2>3, <2>4
<1> HIDE DEF n
<1>6. /\ din'[i].size = n /\ din'[i].blocks = din[i].blocks /\ Current(i)' = din'[i]
      /\ \A j \in Files : BytesSame(j)
      /\ \A j \in Files : j # i => din'[j] = din[j] /\ dinode'[j] = dinode[j]
  <2>1. /\ din' = [din EXCEPT ![i] = [din[i] EXCEPT !.size = n]]
        /\ UNCHANGED <<diskVars, loaded>>
    BY <1>1 DEF n
  <2>2. i \in loaded /\ n \in 0..SFS_MAX_FILE_SIZE
    BY <1>3, <1>4
  <2> HIDE DEF size, off
  <2>3. PICK m \in 0..SFS_MAX_FILE_SIZE : m = n
    BY <2>2
  <2>4. din' = [din EXCEPT ![i] = [din[i] EXCEPT !.size = m]]
    BY <2>1, <2>3
  <2>5. /\ din'[i].size = m /\ din'[i].blocks = din[i].blocks /\ Current(i)' = din'[i]
        /\ \A j \in Files : BytesSame(j)
        /\ \A j \in Files : j # i => din'[j] = din[j] /\ dinode'[j] = dinode[j]
    BY <2>1, <2>2, <2>4, SizeBytes
  <2> QED BY <2>3, <2>5
<1>7. \A j \in Files : ~On(j)' /\ ~Truncating(j)' /\ ~Extending(j)'
  BY <1>1, NoCallThen
<1>8. Length(i)' = Length(i) /\ ~Truncating(i)
  <2>1. Lengths(i) /\ Lengths(i)'
    BY <1>3, LengthsNow, LengthsThen DEF LengthsAll
  <2>2. Length(i)' = n /\ Length(i) = n
    BY <1>1, <1>3, <1>6, <1>7, <2>1 DEF Lengths, n
  <2> QED BY <1>1, <2>2 DEF Truncating
<1>9. dinode' = dinode
  BY <1>1 DEF diskVars
<1>10. ASSUME NEW j \in Files PROVE FileOk(j)' /\ Same(j)
  <2>1. FileOk(j) /\ BytesSame(j)
    BY <1>6 DEF ByteInv, FilesOk
  <2>2. CASE j # i
    <3>1. Rests(j)
      BY <1>1, <1>5, <1>6, <1>9, <2>1, <2>2 DEF Rests
    <3> QED BY <1>3, <1>7, <2>1, <2>2, <3>1, OffCall, RestingFile
  <2>3. CASE j = i
    <3>1. Same(j)
      BY <1>8, <2>1, <2>3, BytesAt DEF Same
    <3>2. TailClear(j)'
      BY <1>8, <2>1, <2>3, <3>1 DEF FileOk, TailClear, Same
    <3>3. SpareClear(j)'
      <4>1. ZeroThen(j, din[i].blocks)
        BY <1>3, <2>1, <2>3, ZeroSame DEF FileOk, SpareClear
      <4> QED BY <1>6, <2>3, <4>1 DEF SpareClear, ZeroFrom, ZeroThen
    <3>4. SavedClear(j)'
      <4> SUFFICES ASSUME ~dirty'[j]
                   PROVE  /\ din'[j].size = dinode[j].size
                          /\ RoundUpDiv(din'[j].size) > dinode[j].blocks =>
                                din'[j].blocks = dinode[j].blocks
                          /\ ZeroThen(j, dinode[j].blocks)
        BY <1>9 DEF SavedClear, ZeroFrom, ZeroThen
      <4>1. SavedClear(j) /\ ~dirty[j] /\ j \in loaded /\ ~(off > size)
        BY <1>3, <1>5, <2>1, <2>3 DEF FileOk
      <4>2. n = size
        BY <1>2, <1>3, <1>4, <4>1
      <4>3. ~Extending(j)
        BY <2>3, <4>1 DEF Extending
      <4>4. dinode[j].blocks \in Nat
        BY MaxIndexNat DEF IInv, PosPart, Inode
      <4>5. ZeroThen(j, dinode[j].blocks)
        BY <2>1, <4>1, <4>3, <4>4, ZeroSame DEF SavedClear
      <4> QED BY <1>6, <2>3, <4>1, <4>2, <4>5 DEF SavedClear
    <3> QED BY <3>1, <3>2, <3>3, <3>4 DEF FileOk
  <2> QED BY <2>2, <2>3
<1>11. FilesOk' /\ AllSame
  BY <1>10 DEF FilesOk, AllSame
<1>12. SizesFit'
  <2>1. \A j \in Files : Fits(din[j].size) /\ Fits(dinode[j].size)
    BY DEF ByteInv, SizesFit
  <2>2. Fits(n)
    BY <1>2, <1>3, <1>4, <2>1
  <2>3. \A j \in Files : Fits(din'[j].size) /\ Fits(dinode'[j].size)
    BY <1>6, <1>9, <2>1, <2>2
  <2> QED BY <2>3 DEF SizesFit, Fits
<1>13. CallOk' /\ PositionsFit'
  <2>1. \A f \in Fds : pos'[f] = IF f = op.fd THEN off ELSE pos[f]
    BY <1>1, <1>3
  <2> QED BY <1>1, <1>2, <2>1 DEF CallOk, PositionsFit, ByteInv, Fits
<1>14. ByteInv'
  BY <1>11, <1>12, <1>13 DEF ByteInv
<1>15. Image' = Image
  BY <1>11, <1>14, AllImages
<1>16. Where' = Where
  <2>1. \A f \in Fds : Position(f) = IF f = op.fd THEN off ELSE pos[f]
    BY <1>1, <1>2 DEF Position
  <2>2. \A f \in Fds : Position(f)' = pos'[f]
    BY <1>1 DEF Position
  <2>3. \A f \in Fds : pos'[f] = IF f = op.fd THEN off ELSE pos[f]
    BY <1>1, <1>3
  <2> QED BY <2>1, <2>2, <2>3 DEF Where
<1>17. Got' = <<>>
  BY <1>1 DEF Got
<1> QED BY <1>1, <1>14, <1>15, <1>16, <1>17, EndReadIdeal

-----------------------------------------------------------------------------
(* A piece is written.                                                      *)

PutOn(i, k) ==
    \A j \in Files : \A m \in 0..(MaxIndex - 1) : \A c \in Cells :
        Holds(j, m, c)' = IF j = i /\ m = k /\ c \in Piece THEN op.c ELSE Holds(j, m, c)

(* sfs_wbuf, sfs_wblock: the cells of one block of one file, and no entry of *)
(* an indirect block.                                                        *)
LEMMA WritePieceHolds ==
    ASSUME IInv, WritePiece, NEW i, i = node[op.fd], NEW k, k = op.off \div SFS_BLKSIZE
    PROVE  PutOn(i, k) /\ k \in 0..(MaxIndex - 1) /\ k \in Nat /\ Map' = Map
<1> DEFINE b == Block(din[i], k)
<1>1. /\ op.kind = "write" /\ k < din[i].blocks
      /\ disk' = [disk EXCEPT ![b] = [c \in Cells |-> IF c \in Piece THEN op.c ELSE disk[b][c]]]
      /\ UNCHANGED <<freemap, unused_blocks, dinode, loaded, din, dirty, node, pos, panic>>
  BY DEF WritePiece, Running
<1>2. /\ i \in loaded /\ i \in Files /\ k \in Nat /\ op # None /\ Current(i) = din[i]
      /\ din[i].blocks \in 0..MaxIndex
  BY <1>1, Kinds, CallFile, PieceFacts
<1>3. SfsTypeOK /\ BlockPart /\ disk \in [BlockNos -> [Cells -> Nat]]
  BY TypeCorrect DEF IInv, StorePart
<1>4. k \in 0..(MaxIndex - 1)
  BY <1>1, <1>2, MaxIndexNat
<1>5. b = Map[<<i, SlotOf(k)>>] /\ b # 0 /\ b \in BlockNos /\ b \notin Indirects(Currents)
  <2>1. b = Map[<<i, SlotOf(k)>>] /\ b # 0
    BY <1>1, <1>2, <1>3, <1>4, BlockIs, BlockUsed
  <2> QED BY <1>2, <1>3, <1>4, <2>1, DataBlock
<1> HIDE DEF b
<1>6. /\ \A c \in Cells : disk'[b][c] = IF c \in Piece THEN op.c ELSE disk[b][c]
      /\ \A a \in BlockNos : a # b => disk'[a] = disk[a]
  <2> DEFINE z == [c \in Cells |-> IF c \in Piece THEN op.c ELSE disk[b][c]]
  <2>1. \A c \in Cells : z[c] = IF c \in Piece THEN op.c ELSE disk[b][c]
    OBVIOUS
  <2>2. disk' = [disk EXCEPT ![b] = z]
    BY <1>1
  <2> HIDE DEF z
  <2> QED BY <1>3, <1>5, <2>1, <2>2
<1>7. Map' = Map
  <2>1. Currents' = Currents
    BY <1>1 DEF Currents, Current
  <2>2. \A a \in Indirects(Currents) : disk'[a] = disk[a]
    BY <1>3, <1>5, <1>6, IndirectAlone
  <2>3. \A j \in Files : SameBlocks(Currents'[j], Currents[j])
    BY <2>1 DEF SameBlocks
  <2>4. MapOf(Currents', disk') = MapOf(Currents, disk)
    BY <2>2, <2>3, MapSame
  <2> QED BY <2>4 DEF Map
<1>8. ASSUME NEW j \in Files, NEW m \in 0..(MaxIndex - 1), NEW c \in Cells
      PROVE  Holds(j, m, c)' = IF j = i /\ m = k /\ c \in Piece THEN op.c ELSE Holds(j, m, c)
  <2> DEFINE y == <<j, SlotOf(m)>>
             x == <<i, SlotOf(k)>>
  <2>1. y \in Places /\ x \in Places /\ (y = x <=> j = i /\ m = k)
    <3>1. SlotOf(m) = SlotOf(k) => m = k
      BY <1>4, SlotFacts
    <3> QED BY <1>2, <1>4, <3>1, SlotFacts DEF Places
  <2>2. Map[y] = b <=> y = x
    BY <1>3, <1>5, <2>1 DEF BlockPart, Agree, Owned
  <2>3. Map[y] # 0 => Map[y] \in BlockNos
    BY <1>3, DataBlock
  <2>4. /\ Holds(j, m, c) = IF Map[y] = 0 THEN 0 ELSE disk[Map[y]][c]
        /\ Holds(j, m, c)' = IF Map[y] = 0 THEN 0 ELSE disk'[Map[y]][c]
    BY <1>7 DEF Holds, Held
  <2> HIDE DEF y, x
  <2>5. CASE y = x
    BY <1>5, <1>6, <2>1, <2>2, <2>4, <2>5
  <2>6. CASE y # x
    BY <1>6, <2>1, <2>2, <2>3, <2>4, <2>6
  <2> QED BY <2>5, <2>6
<1>9. PutOn(i, k)
  BY <1>8 DEF PutOn
<1> QED BY <1>2, <1>4, <1>7, <1>9

(* The bytes at the position are the ones written, in this file and no       *)
(* other.                                                                    *)
LEMMA WritePieceBytes ==
    ASSUME IInv, ByteInv, IInv', WritePiece, NEW i, i = node[op.fd]
    PROVE  ByteInv' /\ IdealStep
<1> DEFINE k == op.off \div SFS_BLKSIZE
           n == PieceEnd - op.off
           size == din[i].size
<1>1. /\ op.kind = "write" /\ op.kind \in {"read", "write"} /\ op.off < op.end
      /\ k < din[i].blocks
      /\ op' = [op EXCEPT !.off = PieceEnd]
      /\ UNCHANGED <<freemap, unused_blocks, dinode, loaded, din, dirty, node, pos, panic>>
  BY DEF WritePiece, Running
<1>2. /\ op # None /\ op.off \in Nat /\ op.end \in Nat /\ PieceEnd \in Nat /\ k \in Nat
      /\ op.off < PieceEnd /\ PieceEnd <= op.end /\ n \in 0..SFS_BLKSIZE /\ n \in Nat
      /\ RoundUpDiv(PieceEnd) <= k + 1
      /\ \A j \in op.off..(PieceEnd - 1) : j \div SFS_BLKSIZE = k
      /\ \A j \in Nat : j \div SFS_BLKSIZE = k =>
            (j \in op.off..(PieceEnd - 1) <=> j % SFS_BLKSIZE \in Piece)
  BY <1>1, NextPiece
<1>3. /\ i \in Files /\ i \in loaded /\ op.fd \in Fds /\ Current(i) = din[i]
      /\ size \in Nat /\ din[i].blocks \in 0..MaxIndex /\ din[i].blocks \in Nat /\ MaxIndex \in Nat
      /\ On(i) /\ \A j \in Files : j # i => ~On(j)
  BY <1>2, CallFile, MaxIndexNat
<1>4. /\ op' = [kind |-> "write", fd |-> op.fd, off |-> PieceEnd, end |-> op.end, c |-> op.c]
      /\ op.c \in Bytes
  <2>1. /\ op = [kind |-> "write", fd |-> op.fd, off |-> op.off, end |-> op.end, c |-> op.c]
        /\ op.c \in Bytes
    BY <1>1 DEF IInv, OpPart, None
  <2> QED BY <1>1, <2>1
<1>5. /\ op' # None /\ op'.kind = "write" /\ op'.fd = op.fd /\ op'.off = PieceEnd
      /\ op'.end = op.end /\ din' = din
  BY <1>1, <1>4 DEF None
<1>6. PutOn(i, k) /\ k \in 0..(MaxIndex - 1)
  BY WritePieceHolds
<1> HIDE DEF k
<1>7. \A j \in Positions :
         ByteAt(i, j)' = IF j \in op.off..(PieceEnd - 1) THEN op.c ELSE ByteAt(i, j)
  <2> SUFFICES ASSUME NEW j \in Positions
               PROVE  ByteAt(i, j)' = IF j \in op.off..(PieceEnd - 1) THEN op.c ELSE ByteAt(i, j)
    OBVIOUS
  <2>1. j \in Nat /\ j \div SFS_BLKSIZE \in 0..(MaxIndex - 1) /\ j % SFS_BLKSIZE \in Cells
    BY PositionIs
  <2>2. Holds(i, j \div SFS_BLKSIZE, j % SFS_BLKSIZE)' =
           IF j \div SFS_BLKSIZE = k /\ j % SFS_BLKSIZE \in Piece THEN op.c
           ELSE Holds(i, j \div SFS_BLKSIZE, j % SFS_BLKSIZE)
    BY <1>3, <1>6, <2>1 DEF PutOn
  <2>3. j \div SFS_BLKSIZE = k /\ j % SFS_BLKSIZE \in Piece <=> j \in op.off..(PieceEnd - 1)
    BY <1>2, <2>1
  <2> QED BY <2>2, <2>3 DEF ByteAt
<1>8. /\ Length(i) = Larger(size, op.off) /\ Length(i)' = Larger(size, PieceEnd)
      /\ ~Truncating(i) /\ ~Truncating(i)' /\ On(i)'
  <2>1. Lengths(i) /\ Lengths(i)' /\ On(i)'
    BY <1>1, <1>3, <1>5, LengthsNow, LengthsThen DEF LengthsAll, On
  <2> QED BY <1>1, <1>3, <1>5, <2>1 DEF Lengths, Truncating
<1>9. /\ Length(i) \in Nat /\ Length(i)' \in Nat /\ Length(i)' = Larger(Length(i), PieceEnd)
      /\ Length(i) <= Length(i)' /\ PieceEnd <= Length(i)'
  BY <1>2, <1>3, <1>8 DEF Larger
<1> HIDE DEF size
<1>10. FileOk(i)
  BY <1>3 DEF ByteInv, FilesOk
<1>11. \A m \in Nat : m > k /\ ZeroFrom(i, m) => ZeroThen(i, m)
  <2> SUFFICES ASSUME NEW m \in Nat, m > k, ZeroFrom(i, m),
                      NEW q \in m..(MaxIndex - 1), NEW c \in Cells
               PROVE  Holds(i, q, c)' = 0
    BY DEF ZeroThen
  <2>1. q \in 0..(MaxIndex - 1) /\ q # k
    BY <1>2, <1>3
  <2> QED BY <1>3, <1>6, <2>1 DEF PutOn, ZeroFrom
<1>12. TailClear(i)'
  <2> SUFFICES ASSUME NEW j \in Positions, j >= Length(i)' PROVE ByteAt(i, j)' = 0
    BY DEF TailClear
  <2>1. j \in Nat
    BY PositionIs
  <2>2. j >= Length(i) /\ j \notin op.off..(PieceEnd - 1)
    BY <1>2, <1>9, <2>1
  <2> QED BY <1>7, <1>8, <1>10, <2>2 DEF FileOk, TailClear
<1>13. SpareClear(i)'
  <2>1. ZeroThen(i, din[i].blocks)
    BY <1>1, <1>2, <1>3, <1>10, <1>11 DEF FileOk, SpareClear
  <2>2. Current(i)' = din[i]
    BY <1>1, <1>3 DEF Current
  <2> QED BY <2>1, <2>2 DEF SpareClear, ZeroFrom, ZeroThen
<1>14. SavedClear(i)'
  <2> SUFFICES ASSUME ~dirty'[i]
               PROVE  /\ din'[i].size = dinode'[i].size
                      /\ RoundUpDiv(din'[i].size) > dinode'[i].blocks =>
                            din'[i].blocks = dinode'[i].blocks
                      /\ ~Extending(i)' => ZeroThen(i, dinode'[i].blocks)
    BY DEF SavedClear, ZeroFrom, ZeroThen
  <2>1. SavedClear(i) /\ i \in loaded /\ ~dirty[i]
    BY <1>1, <1>3, <1>10 DEF FileOk
  <2>2. /\ din[i].size = dinode[i].size
        /\ RoundUpDiv(size) > dinode[i].blocks => din[i].blocks = dinode[i].blocks
        /\ ~Extending(i) => ZeroFrom(i, dinode[i].blocks)
    BY <2>1 DEF SavedClear, size
  <2>3. dinode[i].blocks \in Nat
    BY <1>3, MaxIndexNat DEF IInv, PosPart, Inode
  <2>4. ASSUME ~Extending(i)' PROVE ZeroThen(i, dinode[i].blocks)
    <3>1. PieceEnd <= size
      BY <1>2, <1>3, <1>5, <1>8, <2>4 DEF Extending, size
    <3>2. ~Extending(i) /\ op.off < size
      BY <1>2, <1>3, <3>1 DEF Extending, size
    <3>3. k < RoundUpDiv(size) /\ RoundUpDiv(size) \in Nat
      BY <1>2, <1>3, <3>2, Rounding DEF k, size
    <3>4. dinode[i].blocks > k
      BY <1>1, <1>2, <1>3, <2>2, <2>3, <3>3
    <3> QED BY <1>11, <2>2, <2>3, <3>2, <3>4
  <2> QED BY <1>1, <2>2, <2>4 DEF size
<1>15. ASSUME NEW j \in Files, j # i PROVE FileOk(j)' /\ Same(j)
  <2>1. FileOk(j)
    BY DEF ByteInv, FilesOk
  <2>2. BytesSame(j)
    BY <1>6, <1>15 DEF PutOn, BytesSame
  <2>3. Rests(j)
    BY <1>1, <2>2 DEF Rests
  <2>4. ~On(j) /\ ~On(j)'
    BY <1>1, <1>3, <1>5, <1>15 DEF On
  <2> QED BY <2>1, <2>3, <2>4, OffCall, RestingFile
<1>16. FilesOk'
  BY <1>12, <1>13, <1>14, <1>15 DEF FilesOk, FileOk
<1>17. CallOk'
  <2>1. RoundUpDiv(PieceEnd) \in Nat
    BY <1>2, Rounding
  <2>2. RoundUpDiv(PieceEnd) <= din[i].blocks
    BY <1>1, <1>2, <1>3, <2>1
  <2>3. RoundUpDiv(PieceEnd) <= MaxIndex
    BY <1>3, <2>1, <2>2
  <2> QED BY <1>1, <1>5, <2>2, <2>3 DEF CallOk, Fits
<1>18. SizesFit' /\ PositionsFit'
  BY <1>1 DEF SizesFit, PositionsFit, ByteInv, Fits
<1>19. ByteInv'
  BY <1>16, <1>17, <1>18 DEF ByteInv
<1>20. op.off + n = PieceEnd /\ op.off + n - 1 = PieceEnd - 1
  BY <1>2
<1> HIDE DEF n
<1>21. Contents(i)' = Written(Contents(i), op.off, n, op.c)
  <2>1. \A j \in Positions : j >= Length(i) => ByteAt(i, j) = 0
    BY <1>8, <1>10 DEF FileOk, TailClear
  <2>2. PICK p \in Nat, m \in Nat, v \in {op.c} : p = op.off /\ m = n /\ v = op.c
    BY <1>2
  <2>3. /\ Length(i)' = Larger(Length(i), p + m)
        /\ \A j \in Positions :
              ByteAt(i, j)' = IF j \in p..(p + m - 1) THEN v ELSE ByteAt(i, j)
    BY <1>7, <1>9, <1>20, <2>2
  <2>4. Contents(i)' = Written(Contents(i), p, m, v)
    BY <1>3, <1>19, <2>1, <2>3, WrittenImage
  <2> QED BY <2>2, <2>4
<1>22. Image' = [Image EXCEPT ![i] = Written(Contents(i), op.off, n, op.c)]
  <2>1. \A j \in Files : j # i => Contents(j)' = Contents(j)
    BY <1>15, <1>19, ImageSame
  <2> QED BY <1>3, <1>21, <2>1, ImageOne
<1>23. /\ Where[op.fd] = op.off
       /\ Where' = [Where EXCEPT ![op.fd] = op.off + n]
       /\ Got' = Got
  <2>1. \A f \in Fds : Position(f) = IF f = op.fd THEN op.off ELSE pos[f]
    BY <1>1, <1>2 DEF Position
  <2>2. \A f \in Fds : Position(f)' = IF f = op.fd THEN PieceEnd ELSE pos[f]
    BY <1>1, <1>5 DEF Position
  <2>3. Got' = Got
    BY <1>1, <1>5 DEF Got
  <2> QED BY <1>3, <1>20, <2>1, <2>2, <2>3 DEF Where
<1>24. Image[i] = Contents(i) /\ i # NULL
  BY <1>3, SfsAssumption DEF Image
<1>25. /\ op.fd \in Fds /\ node[op.fd] # NULL /\ n \in 0..SFS_BLKSIZE /\ op.c \in Bytes
       /\ node' = node /\ Where' = [Where EXCEPT ![op.fd] = Where[op.fd] + n]
       /\ Image' = [Image EXCEPT ![node[op.fd]] =
                      Written(Image[node[op.fd]], Where[op.fd], n, op.c)]
       /\ Got' = Got
  BY <1>1, <1>2, <1>3, <1>4, <1>22, <1>23, <1>24 DEF n
<1> QED BY <1>19, <1>25, WriteIdeal

-----------------------------------------------------------------------------
(* All steps.                                                               *)

(* mksfs has given no block to a file.                                       *)
LEMMA NothingMapped ==
    ASSUME Init
    PROVE  (\A x \in Places : Map[x] = 0) /\ (\A i \in Files : Current(i) = NewInode)
<1>1. \A i \in Files : Current(i) = NewInode
  BY DEF Init, Current
<1>2. ASSUME NEW x \in Places PROVE Map[x] = 0
  <2>1. x[1] \in Files /\ x[2] \in Slots
    BY DEF Places
  <2>2. Map[x] = At(NewInode, disk, x[2])
    BY <1>1, <2>1 DEF Map, MapOf, Currents
  <2>3. x[2][1] = "direct" => x[2][2] \in 0..(SFS_NDIRECT - 1)
    BY <2>1 DEF Slots
  <2> QED BY <2>2, <2>3 DEF At, NewInode
<1> QED BY <1>1, <1>2

(* The files are empty at the start, as the ideal ones.                      *)
LEMMA InitBytes == Init => ByteInv /\ Ideal!AllClosed
<1> SUFFICES ASSUME Init PROVE ByteInv /\ Ideal!AllClosed
  OBVIOUS
<1>1. IInv
  BY InitInv
<1>2. op = None /\ dinode = [i \in Files |-> NewInode] /\ din = [i \in Files |-> NewInode]
      /\ loaded = {} /\ node = [fd \in Fds |-> NULL] /\ pos = [fd \in Fds |-> 0]
  BY DEF Init
<1>3. NewInode.size = 0 /\ Fits(0)
  BY RoundZero, MaxIndexNat DEF NewInode, Fits
<1>4. \A i \in Files : Lengths(i) /\ Length(i) = 0
  BY <1>1, <1>2, <1>3, NothingMapped, NoCall, LengthsNow DEF LengthsAll, Lengths
<1>5. \A i \in Files : \A k \in 0..(MaxIndex - 1) : \A c \in Cells : Holds(i, k, c) = 0
  BY NothingMapped, SlotFacts DEF Holds, Held, Places
<1>6. ASSUME NEW i \in Files PROVE FileOk(i)
  <2>1. TailClear(i)
    BY <1>5, PositionIs DEF TailClear, ByteAt
  <2>2. SpareClear(i)
    <3>1. Current(i).blocks \in Nat
      BY <1>4 DEF Lengths
    <3>2. \A k \in Current(i).blocks..(MaxIndex - 1) : k \in 0..(MaxIndex - 1)
      BY <3>1, MaxIndexNat
    <3> QED BY <1>5, <3>2 DEF SpareClear, ZeroFrom
  <2>3. SavedClear(i)
    BY <1>2 DEF SavedClear
  <2> QED BY <2>1, <2>2, <2>3 DEF FileOk
<1>7. ByteInv
  <2>1. SizesFit
    BY <1>2, <1>3 DEF SizesFit
  <2>2. PositionsFit
    BY <1>2, <1>3 DEF PositionsFit
  <2>3. CallOk
    BY <1>2 DEF CallOk
  <2> QED BY <1>6, <2>1, <2>2, <2>3 DEF ByteInv, FilesOk
<1>8. \A i \in Files : Contents(i) = <<>>
  BY <1>1, <1>4, <1>7, ShownNow DEF ShownAll, Shown
<1>9. \A fd \in Fds : Position(fd) = 0
  BY <1>2 DEF Position
<1>10. Ideal!AllClosed
  BY <1>2, <1>8, <1>9 DEF Ideal!AllClosed
<1> QED BY <1>7, <1>10

(* Every system call starts as a step of the ideal files.                    *)
LEMMA CallBytes ==
    ASSUME IInv, ByteInv, IInv', NEW fd \in Fds, Call(fd)
    PROVE  ByteInv' /\ IdealStep
<1>1. ASSUME NEW i \in Files, Open(fd, i) PROVE ByteInv' /\ IdealStep
  BY <1>1, OpenBytes
<1>2. ASSUME NEW i \in Files, OpenTruncated(fd, i) PROVE ByteInv' /\ IdealStep
  BY <1>2, OpenTruncatedBytes
<1>3. ASSUME NEW from \in Fds, Dup(fd, from) PROVE ByteInv' /\ IdealStep
  BY <1>3, DupBytes
<1>4. PICK i : i = node[fd]
  OBVIOUS
<1>5. CASE Close(fd)
  BY <1>4, <1>5, CloseBytes
<1>6. CASE Fsync(fd)
  BY <1>4, <1>6, FsyncBytes
<1>7. ASSUME NEW p \in 0..SFS_MAX_FILE_SIZE, Seek(fd, p) PROVE ByteInv' /\ IdealStep
  BY <1>4, <1>7, SeekBytes
<1>8. ASSUME NEW n \in 1..MaxLen, Read(fd, n) PROVE ByteInv' /\ IdealStep
  BY <1>4, <1>8, StartRead
<1>9. ASSUME NEW n \in 1..MaxLen, NEW c \in Bytes, Write(fd, n, c) PROVE ByteInv' /\ IdealStep
  BY <1>4, <1>9, StartWrite
<1> QED BY <1>1, <1>2, <1>3, <1>5, <1>6, <1>7, <1>8, <1>9 DEF Call

(* Every step of SFS is a step of the ideal files or none.                   *)
LEMMA NextBytes ==
    IInv /\ ByteInv /\ IInv' /\ GapStays /\ [Next]_vars => ByteInv' /\ IdealStep
<1> SUFFICES ASSUME IInv, ByteInv, IInv', GapStays, [Next]_vars PROVE ByteInv' /\ IdealStep
  OBVIOUS
<1>1. CASE UNCHANGED vars
  <2>1. Still /\ UNCHANGED <<node, pos, op>>
    BY <1>1 DEF vars, Still
  <2> QED BY <2>1, QuietBytes
<1>2. PICK i : i = node[op.fd]
  OBVIOUS
<1>3. CASE Resize
  BY <1>2, <1>3, ResizeAddBytes, ResizeNoSpaceBytes, ResizeRemoveBytes, ResizeDoneBytes DEF Resize
<1>4. CASE Io
  BY <1>2, <1>4, IoLoadBytes, LoadPanicsBytes, WritePieceBytes, ReadPieceBytes, IoDoneBytes DEF Io
<1>5. CASE \E fd \in Fds : Call(fd)
  BY <1>5, CallBytes
<1> QED BY <1>1, <1>3, <1>4, <1>5 DEF Next, Halted

(* SFS keeps byte sequences (ImplementsFiles: open, dup, read, write, lseek, *)
(* truncate, fsync and close of lab8, with the disk full at any block), as   *)
(* long as a size beyond the blocks is one that no block can be found for.   *)
THEOREM ImplementsFilesIf == Spec /\ []GapStays => ImplementsFiles
<1>1. IdealStep <=> [Ideal!ByteNext]_<<[i \in Files |-> Contents(i)], node,
                                     [fd \in Fds |-> Position(fd)],
                                     IF op # None /\ op.kind = "read" THEN op.buf ELSE <<>>>>
  BY DEF IdealStep, Image, Where, Got
<1>2. Spec => []IInv
  BY SfsCorrect
<1> QED BY <1>1, <1>2, InitBytes, NextBytes, PTL DEF Spec, ImplementsFiles, Ideal!ByteSpec

-----------------------------------------------------------------------------
(* A size beyond the blocks, and the blocks that are given back.            *)

(* A gap stays one that no block can fill while the disk and the inode do.   *)
LEMMA GapKept ==
    ASSUME NEW i \in Files, GapOk(i), UNCHANGED <<disk, freemap>>,
           Current(i)'.size = Current(i).size, SameBlocks(Current(i)', Current(i)),
           Current(i)'.blocks = Current(i).blocks \/ ~Gap(i)',
           Truncating(i) => Truncating(i)'
    PROVE  GapOk(i)'
<1> SUFFICES ASSUME Gap(i)', ~Truncating(i)' PROVE NoBlock(i)'
  BY DEF GapOk
<1>1. Current(i)'.blocks = Current(i).blocks
  OBVIOUS
<1>2. Gap(i)
  BY <1>1 DEF Gap
<1>3. NoBlock(i)
  BY <1>2 DEF GapOk
<1> QED BY <1>1, <1>3 DEF NoBlock, Block, SameBlocks

(* A step that leaves the store alone.                                       *)
LEMMA GapStill ==
    ASSUME GapStays, Still, \A j \in Files : Truncating(j) => Truncating(j)'
    PROVE  GapStays'
<1> SUFFICES ASSUME NEW i \in Files PROVE GapOk(i)'
  BY DEF GapStays
<1>1. Current(i)' = Current(i)
  BY DEF Current, Still, diskVars
<1> QED BY <1>1, GapKept DEF GapStays, SameBlocks, Still, diskVars

(* A block that comes closes no file's gap but leaves those of the other     *)
(* files: the disk is fuller than before.                                    *)
LEMMA GapLoad ==
    ASSUME IInv, GapStays, op # None, NEW i, i = node[op.fd], ~Truncating(i),
           NEW k \in Nat, Load(i, k), UNCHANGED <<dinode, loaded, node, pos, op>>
    PROVE  GapStays'
<1>1. /\ i \in Files /\ i \in loaded /\ dinode' = dinode /\ loaded' = loaded
      /\ \A j \in Files : Truncating(j)' <=> Truncating(j)
  BY Caller DEF Truncating, On
<1>2. /\ k = din[i].blocks /\ din'[i].blocks = k + 1 /\ din'[i].size = din[i].size
      /\ \A j \in Files : j # i => din'[j] = din[j]
      /\ Current(i) = din[i] /\ ~NoBlock(i)
  BY <1>1, LoadFields
<1>3. GapOk(i)'
  <2>1. ~Gap(i)
    BY <1>1, <1>2 DEF GapStays, GapOk
  <2>2. Current(i)' = din'[i]
    BY <1>1 DEF Current
  <2>3. din[i].size \in Nat
    BY <1>1, SfsAssumption DEF IInv, StorePart, Inode
  <2>4. RoundUpDiv(din[i].size) \in Nat
    BY <2>3, Rounding
  <2>5. ~(RoundUpDiv(Current(i)'.size) > Current(i)'.blocks)
    BY <1>2, <2>1, <2>2, <2>4 DEF Gap
  <2> QED BY <2>5 DEF GapOk, Gap, RoundUpDiv
<1>4. ASSUME NEW j \in Files, j # i PROVE GapOk(j)'
  <2> SUFFICES ASSUME Gap(j)', ~Truncating(j)' PROVE NoBlock(j)'
    BY DEF GapOk
  <2>1. Current(j)' = Current(j)
    BY <1>1, <1>2, <1>4 DEF Current
  <2>2. NoBlock(j)
    BY <1>1, <2>1 DEF GapStays, GapOk, Gap, RoundUpDiv
  <2>3. freemap \subseteq BlockNos
    BY TypeCorrect DEF SfsTypeOK
  <2>4. CASE freemap = {} /\ Block(Current(j), Current(j).blocks) = 0
    <3>1. freemap' = freemap /\ disk' = disk
      BY <2>4, FS_EmptySet DEF Load, AddDirect, AddIndirect, AddEntry, ReuseEntry
    <3> QED BY <2>1, <2>4, <3>1 DEF NoBlock, Block
  <2>5. CASE /\ Current(j).blocks >= SFS_NDIRECT /\ Current(j).indirect = 0
             /\ Cardinality(freemap) = 1
    <3>1. (Block(Current(j), Current(j).blocks) = 0)'
      <4>1. ~(Current(j).blocks < SFS_NDIRECT)
        BY <2>5, SfsAssumption, TypeCorrect, CurrentTypes, MaxIndexNat DEF Inode
      <4> QED BY <2>1, <2>5, <4>1 DEF Block
    <3>2. CASE freemap' = freemap
      BY <2>1, <2>5, <3>2 DEF NoBlock
    <3>3. CASE freemap' # freemap
      <4>1. First \in freemap /\ Cardinality(freemap \ {First}) = 0
        BY <2>3, <2>5, FS_EmptySet, FirstIn, FreeFinite
      <4>2. freemap' = freemap \ {First}
        <5>1. ~AddIndirect(i, k) /\ ~ReuseEntry(i, k)
          BY <2>5, <3>3 DEF AddIndirect, ReuseEntry
        <5>2. AddDirect(i, k) \/ AddEntry(i, k)
          BY <5>1 DEF Load
        <5> QED BY <5>2 DEF AddDirect, AddEntry, Taken
      <4>3. freemap' = {}
        BY <2>3, <4>1, <4>2, FreeFinite, FS_EmptySet
      <4> QED BY <3>1, <4>3 DEF NoBlock
    <3> QED BY <3>2, <3>3
  <2> QED BY <2>2, <2>4, <2>5 DEF NoBlock
<1> QED BY <1>3, <1>4 DEF GapStays

(* Blocks come in a resize only to a file that has no gap.                   *)
LEMMA GapResizeAdd == ASSUME IInv, GapStays, ResizeAdd PROVE GapStays'
<1>1. PICK i : i = node[op.fd]
  OBVIOUS
<1>2. /\ op.kind = "resize" /\ din[i].blocks < RoundUpDiv(op.len)
      /\ Load(i, din[i].blocks) /\ UNCHANGED <<dinode, loaded, node, pos, op>>
  BY <1>1 DEF ResizeAdd, Running
<1>3. op # None /\ i \in Files /\ din[i].blocks \in Nat
  <2>1. op # None /\ i \in Files
    BY <1>1, <1>2, Kinds, Caller
  <2> QED BY <2>1, MaxIndexNat DEF IInv, StorePart, Inode
<1>4. ~Truncating(i)
  BY <1>2, <1>3, RoundZero DEF Truncating
<1> QED BY <1>1, <1>2, <1>3, <1>4, GapLoad

(* Blocks come in a read or write only to a file that has no gap.            *)
LEMMA GapIoLoad == ASSUME IInv, GapStays, IoLoad PROVE GapStays'
<1>1. PICK i : i = node[op.fd]
  OBVIOUS
<1>2. PICK k : k = op.off \div SFS_BLKSIZE
  OBVIOUS
<1>3. /\ op.kind \in {"read", "write"}
      /\ Load(i, k) /\ UNCHANGED <<dinode, loaded, node, pos, op>>
  BY <1>1, <1>2 DEF IoLoad, Transferring
<1>4. op # None /\ k \in Nat /\ ~Truncating(i)
  BY <1>2, <1>3, Kinds, IndexNat DEF Truncating
<1> QED BY <1>1, <1>3, <1>4, GapLoad

(* A file that is cut and not made empty is about to get a larger size, and  *)
(* keeps the blocks of that size.                                           *)
LEMMA GapRemove ==
    ASSUME IInv, ByteInv, GapStays, ResizeRemove,
           NEW i, i = node[op.fd], \A j \in Files : Gap(j) => j = i
    PROVE  GapStays'
<1>1. /\ op.kind = "resize" /\ din[i].blocks > RoundUpDiv(op.len)
      /\ RemoveDirect(i) \/ RemoveEntry(i)
      /\ UNCHANGED <<dinode, loaded, node, pos, op>>
  BY DEF ResizeRemove, Running
<1>2. /\ op # None /\ op.len \in Nat /\ i \in Files /\ i \in loaded
      /\ On(i) /\ Current(i) = din[i] /\ Current(i)' = din'[i]
  BY <1>1, Kinds, Caller, SfsAssumption DEF On, Current
<1>3. din[i].size \in Nat /\ din[i].blocks \in Nat
  BY <1>2, SfsAssumption, MaxIndexNat DEF IInv, StorePart, Inode
<1>4. /\ din'[i].blocks = din[i].blocks - 1 /\ din'[i].size = din[i].size
      /\ \A j \in Files : j # i => din'[j] = din[j]
  BY <1>1, <1>2, RemoveFields
<1>5. GapOk(i)'
  <2>1. CASE op.len = 0
    <3>1. Truncating(i)'
      BY <1>1, <1>2, <2>1 DEF Truncating, On, None
    <3> QED BY <3>1 DEF GapOk
  <2>2. CASE op.len # 0
    <3>1. op.len > din[i].size
      BY <1>1, <1>2, <2>2 DEF ByteInv, CallOk
    <3>2. /\ RoundUpDiv(din[i].size) <= RoundUpDiv(op.len)
          /\ RoundUpDiv(din[i].size) \in Nat /\ RoundUpDiv(op.len) \in Nat
      BY <1>2, <1>3, <3>1, Rounding
    <3>3. ~(RoundUpDiv(din'[i].size) > din'[i].blocks)
      BY <1>1, <1>3, <1>4, <3>2
    <3> QED BY <1>2, <3>3 DEF GapOk, Gap, RoundUpDiv
  <2> QED BY <2>1, <2>2
<1>6. ASSUME NEW j \in Files, j # i PROVE GapOk(j)'
  <2>1. Current(j)' = Current(j)
    BY <1>1, <1>4, <1>6 DEF Current
  <2>2. ~Gap(j)
    BY <1>6
  <2> QED BY <2>1, <2>2 DEF GapOk, Gap, RoundUpDiv
<1> QED BY <1>5, <1>6 DEF GapStays

(* One inode's size is set at the end of a call, and its blocks stay.       *)
LEMMA GapSized ==
    ASSUME IInv, GapStays, NEW i \in loaded, NEW n \in Nat, op # None, i = node[op.fd],
           din' = [din EXCEPT ![i] = [din[i] EXCEPT !.size = n]],
           UNCHANGED <<diskVars, loaded>>, op' = None,
           \/ RoundUpDiv(n) <= din[i].blocks
           \/ NoBlock(i)
           \/ n = din[i].size /\ ~Truncating(i)
    PROVE  GapStays'
<1>1. /\ i \in Files /\ din \in [Files -> Inode] /\ Current(i) = din[i] /\ Current(i)' = din'[i]
      /\ dinode' = dinode /\ loaded' = loaded /\ disk' = disk /\ freemap' = freemap
  BY DEF IInv, NodePart, StorePart, Current, diskVars
<1>2. /\ din'[i].size = n /\ din'[i].blocks = din[i].blocks
      /\ SameBlocks(din'[i], din[i])
      /\ \A j \in Files : j # i => din'[j] = din[j]
  BY <1>1 DEF SameBlocks, Inode
<1>3. GapOk(i)'
  <2>1. CASE RoundUpDiv(n) <= din[i].blocks
    <3>1. din[i].blocks \in Nat /\ RoundUpDiv(n) \in Nat
      BY <1>1, MaxIndexNat, Rounding DEF Inode
    <3>2. ~(RoundUpDiv(n) > din'[i].blocks)
      BY <1>2, <2>1, <3>1
    <3> QED BY <1>1, <1>2, <3>2 DEF GapOk, Gap, RoundUpDiv
  <2>2. CASE NoBlock(i)
    BY <1>1, <1>2, <2>2 DEF GapOk, NoBlock, Block, SameBlocks
  <2>3. CASE n = din[i].size /\ ~Truncating(i)
    BY <1>1, <1>2, <2>3, GapKept DEF GapStays
  <2> QED BY <2>1, <2>2, <2>3
<1>4. ASSUME NEW j \in Files, j # i PROVE GapOk(j)'
  <2>1. Current(j)' = Current(j) /\ ~Truncating(j)
    BY <1>1, <1>2, <1>4 DEF Current, Truncating, On
  <2> QED BY <1>1, <2>1, GapKept DEF GapStays, SameBlocks
<1> QED BY <1>3, <1>4 DEF GapStays

(* A resize ends with the blocks that the size needs.                        *)
LEMMA GapResizeDone == ASSUME IInv, GapStays, ResizeDone PROVE GapStays'
<1>1. PICK i : i = node[op.fd]
  OBVIOUS
<1>2. PICK n : n = op.len
  OBVIOUS
<1>3. /\ op.kind = "resize" /\ din[i].blocks = RoundUpDiv(n)
      /\ din' = [din EXCEPT ![i] = [din[i] EXCEPT !.size = n]]
      /\ op' = None /\ UNCHANGED <<diskVars, loaded>>
  BY <1>1, <1>2 DEF ResizeDone, Running
<1>4. op # None /\ i \in loaded /\ n \in Nat
  BY <1>1, <1>2, <1>3, Kinds, Caller, SfsAssumption
<1>5. RoundUpDiv(n) <= din[i].blocks
  BY <1>3, <1>4, Rounding
<1> QED BY <1>1, <1>3, <1>4, <1>5, GapSized

(* A write that ends early with a larger size ends because there is no       *)
(* block: the only way to a gap.                                             *)
LEMMA GapIoDone == ASSUME IInv, ByteInv, GapStays, IoDone PROVE GapStays'
<1>1. PICK i : i = node[op.fd]
  OBVIOUS
<1>2. PICK n : n = Larger(din[i].size, op.off)
  OBVIOUS
<1>3. /\ op.kind \in {"read", "write"}
      /\ op.off = op.end \/ NoSpace(i, op.off \div SFS_BLKSIZE)
      /\ din' = [din EXCEPT ![i] = [din[i] EXCEPT !.size = n]]
      /\ op' = None /\ UNCHANGED <<diskVars, loaded>>
  BY <1>1, <1>2 DEF IoDone, Running, SizeRaised
<1>4. /\ op # None /\ i \in loaded /\ i \in Files /\ op.off \in 0..op.end
      /\ op.off \in Nat /\ op.end \in Nat /\ Current(i) = din[i]
  BY <1>1, <1>3, Kinds, Caller DEF Current
<1>5. din[i].size \in Nat
  BY <1>4, SfsAssumption DEF IInv, StorePart, Inode
<1>6. n \in Nat /\ (n = din[i].size \/ (n = op.off /\ op.off > din[i].size))
  <2>1. \A a, b \in Nat : Larger(a, b) \in Nat /\ (Larger(a, b) = a \/ (Larger(a, b) = b /\ b > a))
    BY DEF Larger
  <2> QED BY <1>2, <1>4, <1>5, <2>1
<1>7. ~Truncating(i)
  BY <1>3 DEF Truncating
<1>8. ASSUME n = op.off, op.off > din[i].size PROVE RoundUpDiv(n) <= din[i].blocks \/ NoBlock(i)
  <2>1. op.kind = "write"
    BY <1>1, <1>3, <1>4, <1>5, <1>8 DEF ByteInv, CallOk
  <2>2. CASE op.off = op.end
    BY <1>1, <1>4, <1>8, <2>1, <2>2 DEF ByteInv, CallOk
  <2>3. CASE NoSpace(i, op.off \div SFS_BLKSIZE)
    BY <1>4, <2>3 DEF NoSpace, NoBlock
  <2> QED BY <1>3, <2>2, <2>3
<1> QED BY <1>1, <1>3, <1>4, <1>6, <1>7, <1>8, GapSized

BlocksMapped ==
    \A i \in Files : \A k \in 0..(MaxIndex - 1) : Block(Current(i), k) = Map[<<i, SlotOf(k)>>]

(* sfs_bmap_get_nolock looks where the map has the block, before and after a *)
(* step.                                                                     *)
LEMMA BlocksNow == IInv => BlocksMapped
  BY BlockIs, TypeCorrect DEF BlocksMapped

LEMMA BlocksThen == IInv' => BlocksMapped'
  BY BlocksNow, PTL

(* A write changes no entry of an indirect block.                            *)
LEMMA GapWritePiece == ASSUME IInv, ByteInv, IInv', GapStays, WritePiece PROVE GapStays'
<1>1. PICK i : i = node[op.fd]
  OBVIOUS
<1>2. PICK k : k = op.off \div SFS_BLKSIZE
  OBVIOUS
<1>3. /\ op.kind = "write" /\ op' = [op EXCEPT !.off = PieceEnd]
      /\ UNCHANGED <<freemap, dinode, loaded, din, node>>
  BY <1>1 DEF WritePiece, Running
<1>4. Map' = Map
  BY <1>1, <1>2, WritePieceHolds
<1> SUFFICES ASSUME NEW j \in Files, Gap(j)', ~Truncating(j)' PROVE NoBlock(j)'
  BY DEF GapStays, GapOk
<1>5. Current(j)' = Current(j) /\ ~Truncating(j)
  BY <1>3 DEF Current, Truncating
<1>6. NoBlock(j) /\ Gap(j)
  BY <1>5 DEF GapStays, GapOk, Gap, RoundUpDiv
<1>7. PICK n : n = Current(j).blocks
  OBVIOUS
<1>8. n \in 0..(MaxIndex - 1)
  <2>1. Fits(Current(j).size)
    BY DEF ByteInv, SizesFit, Current
  <2>2. Current(j).size \in Nat /\ n \in 0..MaxIndex /\ MaxIndex \in Nat
    BY <1>7, LengthsNow, MaxIndexNat DEF LengthsAll, Lengths
  <2> QED BY <1>6, <1>7, <2>1, <2>2, Rounding DEF Gap, Fits
<1>9. (Block(Current(j), n) = Map[<<j, SlotOf(n)>>])'
  BY <1>8, BlocksThen DEF BlocksMapped
<1>10. Block(Current(j), n) = Map[<<j, SlotOf(n)>>]
  BY <1>8, BlocksNow DEF BlocksMapped
<1>11. (Block(Current(j), n) = 0)' <=> Block(Current(j), n) = 0
  BY <1>4, <1>9, <1>10
<1> QED BY <1>3, <1>5, <1>6, <1>7, <1>11 DEF NoBlock

(* An open leaves every current inode as it is.                             *)
LEMMA GapLoaded ==
    ASSUME IInv, ByteInv, IInv', GapStays, NEW i \in Files, Loaded(i), UNCHANGED diskVars, op = None
    PROVE  GapStays'
<1> SUFFICES ASSUME NEW j \in Files PROVE GapOk(j)'
  BY DEF GapStays
<1>1. Current(j)' = Current(j) /\ ~Truncating(j)
  BY LoadedBytes, NoCall DEF LoadedThen
<1> QED BY <1>1, GapKept DEF GapStays, SameBlocks, diskVars

(* fsync changes no inode in memory.                                         *)
LEMMA GapFsync ==
    ASSUME IInv, GapStays, NEW fd \in Fds, NEW i, i = node[fd], Fsync(fd) PROVE GapStays'
<1>1. /\ op = None /\ i # NULL /\ dinode' = [dinode EXCEPT ![i] = din[i]]
      /\ UNCHANGED <<freemap, disk, loaded, din>>
  BY DEF Fsync, Idle
<1>2. i \in loaded /\ i \in Files /\ dinode \in [Files -> Inode]
  BY <1>1, OpenFd DEF IInv, PosPart
<1> SUFFICES ASSUME NEW j \in Files PROVE GapOk(j)'
  BY DEF GapStays
<1>3. Current(j)' = Current(j) /\ ~Truncating(j)
  BY <1>1, <1>2, NoCall DEF Current
<1> QED BY <1>1, <1>3, GapKept DEF GapStays, SameBlocks

(* An inode that is dropped without being saved was saved with this size and *)
(* the same number of blocks, or with blocks enough for the size.           *)
LEMMA GapClose ==
    ASSUME IInv, ByteInv, GapStays, NEW fd \in Fds, NEW i, i = node[fd], Close(fd) PROVE GapStays'
<1>1. op = None /\ i # NULL /\ UNCHANGED <<freemap, unused_blocks, disk>>
  BY DEF Close, Idle
<1>2. /\ i \in Files /\ i \in loaded /\ Current(i) = din[i]
  BY <1>1, OpenFd
<1>3. CASE \E other \in Fds \ {fd} : node[other] = i
  <2>1. Still /\ \A j \in Files : ~Truncating(j)
    BY <1>1, <1>3, NoCall DEF Close, Still, diskVars
  <2> QED BY <2>1, GapStill
<1>4. CASE ~(\E other \in Fds \ {fd} : node[other] = i)
  <2>1. /\ dinode' = IF dirty[i] THEN [dinode EXCEPT ![i] = din[i]] ELSE dinode
        /\ loaded' = loaded \ {i}
        /\ din' = [din EXCEPT ![i] = NewInode]
    BY <1>4 DEF Close, SavedOnClose
  <2>2. dinode \in [Files -> Inode] /\ din \in [Files -> Inode]
    BY DEF IInv, StorePart, PosPart
  <2>3. /\ dinode'[i] = IF dirty[i] THEN din[i] ELSE dinode[i]
        /\ \A j \in Files : j # i => din'[j] = din[j] /\ dinode'[j] = dinode[j]
    BY <1>2, <2>1, <2>2
  <2>4. /\ Current(i)' = dinode'[i]
        /\ \A j \in Files : j # i => Current(j)' = Current(j)
    BY <1>2, <2>1, <2>3 DEF Current
  <2>5. ASSUME NEW j \in Files, j # i PROVE GapOk(j)'
    <3>1. ~Truncating(j)
      BY <1>1, NoCall
    <3> QED BY <1>1, <2>4, <2>5, <3>1, GapKept DEF GapStays, SameBlocks
  <2>6. GapOk(i)'
    <3>1. ~Truncating(i)
      BY <1>1, <1>2, NoCall
    <3>2. /\ SameBlocks(dinode'[i], din[i]) /\ dinode'[i].size = din[i].size
          /\ RoundUpDiv(din[i].size) > dinode'[i].blocks => din[i].blocks = dinode'[i].blocks
      <4>1. CASE dirty[i]
        BY <2>3, <4>1 DEF SameBlocks
      <4>2. CASE ~dirty[i]
        <5>1. Saved(dinode[i], din[i])
          BY <1>2, <4>2 DEF IInv, StorePart, SavedPart
        <5>2. SavedClear(i)
          BY <1>2 DEF ByteInv, FilesOk, FileOk
        <5> QED BY <1>2, <2>3, <4>2, <5>1, <5>2 DEF SameBlocks, Saved, SavedClear
      <4> QED BY <4>1, <4>2
    <3>3. Current(i)'.blocks = Current(i).blocks \/ ~Gap(i)'
      BY <1>2, <2>4, <3>2 DEF Gap, RoundUpDiv
    <3> QED BY <1>1, <1>2, <2>4, <3>1, <3>2, <3>3, GapKept DEF GapStays
  <2> QED BY <2>5, <2>6 DEF GapStays
<1> QED BY <1>3, <1>4

(* No system call makes a gap as it starts.                                  *)
LEMMA GapCall ==
    ASSUME IInv, ByteInv, IInv', GapStays, NEW fd \in Fds, Call(fd) PROVE GapStays'
<1>1. op = None
  BY DEF Call, Open, OpenTruncated, Dup, Close, Fsync, Seek, Read, Write, Idle
<1>2. \A j \in Files : ~Truncating(j)
  BY <1>1, NoCall
<1>3. ASSUME NEW i \in Files, Open(fd, i) \/ OpenTruncated(fd, i) PROVE GapStays'
  BY <1>1, <1>3, GapLoaded DEF Open, OpenTruncated
<1>4. CASE Still
  BY <1>2, <1>4, GapStill
<1>5. CASE Close(fd)
  BY <1>5, GapClose
<1>6. CASE Fsync(fd)
  BY <1>6, GapFsync
<1>7. ASSUME ~Close(fd), ~Fsync(fd), \A i \in Files : ~Open(fd, i) /\ ~OpenTruncated(fd, i)
      PROVE  Still
  BY <1>7 DEF Call, Dup, Seek, Read, Write, Still
<1> QED BY <1>3, <1>4, <1>5, <1>6, <1>7

(* No block is given back while another file's size is beyond its blocks.    *)
RemoveAlone == ResizeRemove => \A i \in Files : Gap(i) => i = node[op.fd]

(* Every step keeps the gaps, when no block is given back to them.           *)
LEMMA GapNext ==
    IInv /\ ByteInv /\ IInv' /\ GapStays /\ [Next]_vars /\ [RemoveAlone]_vars => GapStays'
<1> SUFFICES ASSUME IInv, ByteInv, IInv', GapStays, [Next]_vars, [RemoveAlone]_vars PROVE GapStays'
  OBVIOUS
<1>1. CASE UNCHANGED vars
  <2>1. Still /\ \A j \in Files : Truncating(j) <=> Truncating(j)'
    BY <1>1 DEF vars, Still, Truncating, On
  <2> QED BY <2>1, GapStill
<1>2. CASE ResizeRemove /\ ~UNCHANGED vars
  <2>1. PICK i : i = node[op.fd]
    OBVIOUS
  <2>2. \A j \in Files : Gap(j) => j = i
    BY <1>2, <2>1 DEF RemoveAlone
  <2> QED BY <1>2, <2>1, <2>2, GapRemove
<1>3. CASE ResizeNoSpace
  <2>1. op.kind = "resize" /\ din[node[op.fd]].blocks < RoundUpDiv(op.len) /\ Still
    BY <1>3 DEF ResizeNoSpace, Running, Still
  <2>2. op # None /\ node[op.fd] \in Files /\ din[node[op.fd]].blocks \in Nat
    <3>1. op # None /\ node[op.fd] \in Files
      BY <2>1, Kinds, Caller
    <3> QED BY <3>1, MaxIndexNat DEF IInv, StorePart, Inode
  <2>3. \A j \in Files : ~Truncating(j)
    BY <2>1, <2>2, RoundZero DEF Truncating
  <2> QED BY <2>1, <2>3, GapStill
<1>4. CASE LoadPanics
  <2>1. Still /\ \A j \in Files : Truncating(j) <=> Truncating(j)'
    BY <1>4 DEF LoadPanics, Still, Truncating, On
  <2> QED BY <2>1, GapStill
<1>5. CASE ReadPiece
  <2>1. Still /\ op.kind = "read"
    BY <1>5 DEF ReadPiece, Running, Still
  <2>2. \A j \in Files : ~Truncating(j)
    BY <2>1 DEF Truncating
  <2> QED BY <2>1, <2>2, GapStill
<1>6. CASE \E fd \in Fds : Call(fd)
  BY <1>6, GapCall
<1> QED BY <1>1, <1>2, <1>3, <1>4, <1>5, <1>6, GapResizeAdd, GapResizeDone, GapIoLoad, GapIoDone,
           GapWritePiece DEF Next, Resize, Io, Halted

(* An empty file has no gap.                                                 *)
LEMMA GapInit == Init => GapStays
<1> SUFFICES ASSUME Init, NEW i \in Files PROVE ~Gap(i)
  BY DEF GapStays, GapOk
<1>1. Current(i) = NewInode
  BY NothingMapped
<1> QED BY <1>1, RoundZero DEF Gap, NewInode

(* Such a size comes from a write that found the disk full (IoDone), and no  *)
(* block is found for it until sfs_bmap_truncate_nolock gives one back for   *)
(* another file.                                                             *)
THEOREM GapStaysIf == Spec /\ [][RemoveAlone]_vars => []GapStays
<1>1. Spec => []IInv
  BY SfsCorrect
<1> QED BY <1>1, InitBytes, NextBytes, GapInit, GapNext, PTL DEF Spec

(* SFS keeps byte sequences (ImplementsFiles) in every execution in which    *)
(* sfs_bmap_truncate_nolock gives no block back while another file's size is *)
(* beyond its blocks.                                                        *)
THEOREM ImplementsFilesUnless == Spec /\ [][RemoveAlone]_vars => ImplementsFiles
  BY GapStaysIf, ImplementsFilesIf, PTL

(* With one file SFS keeps a byte sequence (ImplementsFiles), with no        *)
(* condition: through partial writes, failed allocations, close and load.    *)
THEOREM ImplementsFilesAlone == ASSUME \A i, j \in Files : i = j PROVE Spec => ImplementsFiles
<1>1. IInv => RemoveAlone
  <2> SUFFICES ASSUME IInv, ResizeRemove, NEW i \in Files PROVE i = node[op.fd]
    BY DEF RemoveAlone
  <2>1. node[op.fd] \in Files
    BY Kinds, Caller DEF ResizeRemove, Running
  <2> QED BY <2>1
<1> QED BY <1>1, SfsCorrect, ImplementsFilesUnless, PTL DEF Spec

=============================================================================
