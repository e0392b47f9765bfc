----------------------------- MODULE FilesProofs -----------------------------
(***************************************************************************)
(* Proofs about module Files, for any number of processes, inodes and      *)
(* descriptors: inodes are counted exactly, and no assertion on the counts *)
(* fails.                                                                  *)
(***************************************************************************)
EXTENDS Files, QueueProofs

(* FilesTypeOK allows open descriptors in a table that nobody uses, and a   *)
(* reader that is dead or reads what is closed: a fork would then give a    *)
(* child a table with too few references.                                   *)
TablesOk ==
    \A p \in Procs :
       /\ p \notin alive \cup lost => fd_array[p] = Closed /\ pwd[p] = NULL
       /\ reading[p] # NULL => p \in alive /\ IsOpen(p, reading[p])

IInv == RefsExact /\ NoAssertionFails /\ TablesOk

-----------------------------------------------------------------------------
(* Counting the users of an inode, table by table.                          *)

Held(t, n) == {fd \in Fds : t[fd].node = n}
UsersIn(T, n) == {u \in Procs \X Fds : T[u[1]][u[2]].node = n}

LEMMA FdsFinite == IsFiniteSet(Fds)
BY FilesAssumption, FS_Interval DEF FilesAssumption, Fds

LEMMA HeldFinite ==
    ASSUME NEW t, NEW n
    PROVE  IsFiniteSet(Held(t, n)) /\ Cardinality(Held(t, n)) \in Nat
<1>1. Held(t, n) \in SUBSET Fds
  BY DEF Held
<1>2. IsFiniteSet(Held(t, n))
  BY <1>1, FdsFinite, FS_Subset
<1> QED BY <1>2, FS_CardinalityType

LEMMA UsersFinite ==
    ASSUME NEW T, NEW n
    PROVE  IsFiniteSet(UsersIn(T, n)) /\ Cardinality(UsersIn(T, n)) \in Nat
<1>1. UsersIn(T, n) \in SUBSET (Procs \X Fds)
  BY DEF UsersIn
<1>2. IsFiniteSet(Procs \X Fds)
  BY FilesAssumption, FdsFinite, FS_Product DEF FilesAssumption
<1>3. IsFiniteSet(UsersIn(T, n))
  BY <1>1, <1>2, FS_Subset
<1> QED BY <1>3, FS_CardinalityType

(* The users that are not p, and those that are.                            *)
LEMMA RowSplit ==
    ASSUME NEW T, NEW n, NEW p \in Procs
    PROVE  Cardinality(UsersIn(T, n)) =
              Cardinality({u \in UsersIn(T, n) : u[1] # p}) + Cardinality(Held(T[p], n))
<1> DEFINE row == {p} \X Held(T[p], n)
           all == UsersIn(T, n)
           rest == {u \in all : u[1] # p}
<1>1. IsFiniteSet(row) /\ Cardinality(row) = 1 * Cardinality(Held(T[p], n))
  <2>1. IsFiniteSet({p}) /\ Cardinality({p}) = 1
    BY FS_Singleton
  <2>2. IsFiniteSet(Held(T[p], n))
    BY HeldFinite
  <2>3. IsFiniteSet(row) /\ Cardinality(row) = Cardinality({p}) * Cardinality(Held(T[p], n))
    BY <2>1, <2>2, FS_Product
  <2> QED BY <2>1, <2>3
<1>2. all \cap row = row
  <2>1. \A u \in row : u \in Procs \X Fds /\ T[u[1]][u[2]].node = n
    BY DEF Held
  <2> QED BY <2>1 DEF UsersIn
<1>3. all \ row = rest
  <2>1. \A u \in all : u \in row <=> u[1] = p
    BY DEF UsersIn, Held
  <2> QED BY <2>1
<1>4. IsFiniteSet(all) /\ Cardinality(all) \in Nat
  BY UsersFinite
<1>5. Cardinality(all \ row) = Cardinality(all) - Cardinality(all \cap row)
  BY <1>4, FS_Difference
<1>6. Cardinality(row) = Cardinality(Held(T[p], n))
  BY <1>1, HeldFinite
<1>7. Cardinality(rest) = Cardinality(all) - Cardinality(Held(T[p], n))
  BY <1>2, <1>3, <1>5, <1>6
<1> HIDE DEF all, rest, row
<1>8. Cardinality(Held(T[p], n)) \in Nat
  BY HeldFinite
<1> QED BY <1>4, <1>7, <1>8 DEF all, rest

(* What one process does to its table changes the count by the change of    *)
(* its own part.                                                            *)
LEMMA RowChange ==
    ASSUME NEW T, NEW T2, NEW n, NEW p \in Procs,
           \A q \in Procs : q # p => T2[q] = T[q]
    PROVE  Cardinality(UsersIn(T2, n)) =
              Cardinality(UsersIn(T, n)) - Cardinality(Held(T[p], n)) + Cardinality(Held(T2[p], n))
<1> DEFINE r == {u \in UsersIn(T, n) : u[1] # p}
           r2 == {u \in UsersIn(T2, n) : u[1] # p}
<1>1. r = r2
  <2>1. \A u \in Procs \X Fds : u[1] # p => T2[u[1]] = T[u[1]]
    OBVIOUS
  <2> QED BY <2>1 DEF UsersIn
<1>2. IsFiniteSet(r) /\ Cardinality(r) \in Nat
  <2>1. r \in SUBSET UsersIn(T, n)
    OBVIOUS
  <2>2. IsFiniteSet(r)
    BY <2>1, UsersFinite, FS_Subset
  <2> QED BY <2>2, FS_CardinalityType
<1>3. /\ Cardinality(UsersIn(T, n)) = Cardinality(r) + Cardinality(Held(T[p], n))
      /\ Cardinality(UsersIn(T2, n)) = Cardinality(r2) + Cardinality(Held(T2[p], n))
  BY RowSplit
<1>4. Cardinality(Held(T[p], n)) \in Nat /\ Cardinality(Held(T2[p], n)) \in Nat
  BY HeldFinite
<1> HIDE DEF r, r2
<1> QED BY <1>1, <1>2, <1>3, <1>4

-----------------------------------------------------------------------------
(* What a call does to one table.                                           *)

Unit(a, b) == IF a = b THEN 1 ELSE 0

LEMMA UnitType == \A a, b : Unit(a, b) \in {0, 1}
BY DEF Unit

(* Writing one descriptor: it held a and holds b.                           *)
Replaced(t, t2, fd, a, b) ==
    /\ fd \in Fds /\ t[fd].node = a /\ t2[fd].node = b
    /\ \A x \in Fds : x # fd => t2[x] = t[x]

LEMMA HeldExcept ==
    ASSUME NEW t, NEW t2, NEW fd, NEW a, NEW b, Replaced(t, t2, fd, a, b), NEW n
    PROVE  Cardinality(Held(t2, n)) =
              Cardinality(Held(t, n)) - Unit(a, n) + Unit(b, n)
<1> DEFINE rest == Held(t, n) \ {fd}
<1>0. fd \in Fds /\ t[fd].node = a
  BY DEF Replaced
<1>1. IsFiniteSet(Held(t, n)) /\ Cardinality(Held(t, n)) \in Nat
  BY HeldFinite
<1>2. /\ IsFiniteSet(rest)
      /\ Cardinality(rest) = IF fd \in Held(t, n) THEN Cardinality(Held(t, n)) - 1
                             ELSE Cardinality(Held(t, n))
  BY <1>1, FS_RemoveElement
<1>3. Cardinality(rest) = Cardinality(Held(t, n)) - Unit(a, n)
  <2>1. fd \in Held(t, n) <=> a = n
    BY <1>0 DEF Held
  <2> QED BY <1>1, <1>2, <2>1 DEF Unit
<1>4. Held(t2, n) = IF b = n THEN rest \cup {fd} ELSE rest
  <2>2. \A x : x \in Held(t2, n) <=> x \in Fds /\ (IF x = fd THEN b = n ELSE t[x].node = n)
    BY DEF Held, Replaced
  <2>3. \A x : x \in rest <=> x \in Fds /\ x # fd /\ t[x].node = n
    BY DEF Held
  <2> HIDE DEF rest
  <2> QED BY <1>0, <2>2, <2>3
<1>5. Cardinality(rest \cup {fd}) = Cardinality(rest) + 1
  <2>1. fd \notin rest
    OBVIOUS
  <2> QED BY <2>1, <1>2, FS_AddElement
<1>6. Cardinality(Held(t2, n)) = Cardinality(rest) + Unit(b, n)
  <2>1. Cardinality(rest) \in Nat
    BY <1>2, FS_CardinalityType
  <2> QED BY <2>1, <1>4, <1>5 DEF Unit
<1> HIDE DEF rest
<1>7. Unit(a, n) \in {0, 1} /\ Unit(b, n) \in {0, 1}
  BY UnitType
<1> QED BY <1>1, <1>3, <1>6, <1>7

(* A table that is not in use holds nothing.                                *)
LEMMA HeldClosed ==
    ASSUME NEW n \in Nodes
    PROVE  Cardinality(Held(Closed, n)) = 0
<1>1. Held(Closed, n) = {}
  BY FilesAssumption DEF FilesAssumption, Held, Closed, NoFile
<1> QED BY <1>1, FS_EmptySet

(* Who holds n as a current directory.                                      *)
CwdIn(W, n) == {p \in Procs : W[p] = n}

LEMMA CwdFinite ==
    ASSUME NEW W, NEW n
    PROVE  IsFiniteSet(CwdIn(W, n)) /\ Cardinality(CwdIn(W, n)) \in Nat
<1>1. CwdIn(W, n) \in SUBSET Procs
  BY DEF CwdIn
<1>2. IsFiniteSet(CwdIn(W, n))
  BY <1>1, FilesAssumption, FS_Subset DEF FilesAssumption
<1> QED BY <1>2, FS_CardinalityType

LEMMA CwdChange ==
    ASSUME NEW W, NEW W2, NEW n, NEW p \in Procs,
           \A q \in Procs : q # p => W2[q] = W[q]
    PROVE  Cardinality(CwdIn(W2, n)) =
              Cardinality(CwdIn(W, n)) - Unit(W[p], n) + Unit(W2[p], n)
<1> DEFINE rest == CwdIn(W, n) \ {p}
<1>1. IsFiniteSet(CwdIn(W, n)) /\ Cardinality(CwdIn(W, n)) \in Nat
  BY CwdFinite
<1>2. /\ IsFiniteSet(rest)
      /\ Cardinality(rest) = IF p \in CwdIn(W, n) THEN Cardinality(CwdIn(W, n)) - 1
                             ELSE Cardinality(CwdIn(W, n))
  BY <1>1, FS_RemoveElement
<1>3. Cardinality(rest) = Cardinality(CwdIn(W, n)) - Unit(W[p], n)
  <2>1. p \in CwdIn(W, n) <=> W[p] = n
    BY DEF CwdIn
  <2> QED BY <1>1, <1>2, <2>1 DEF Unit
<1>4. CwdIn(W2, n) = IF W2[p] = n THEN rest \cup {p} ELSE rest
  <2>1. \A x : x \in CwdIn(W2, n) <=> x \in Procs /\ (IF x = p THEN W2[p] = n ELSE W[x] = n)
    BY DEF CwdIn
  <2>2. \A x : x \in rest <=> x \in Procs /\ x # p /\ W[x] = n
    BY DEF CwdIn
  <2> HIDE DEF rest
  <2> QED BY <2>1, <2>2
<1>5. Cardinality(rest \cup {p}) = Cardinality(rest) + 1
  <2>1. p \notin rest
    OBVIOUS
  <2> QED BY <2>1, <1>2, FS_AddElement
<1>6. Cardinality(CwdIn(W2, n)) = Cardinality(rest) + Unit(W2[p], n)
  <2>1. Cardinality(rest) \in Nat
    BY <1>2, FS_CardinalityType
  <2> QED BY <2>1, <1>4, <1>5 DEF Unit
<1> HIDE DEF rest
<1>7. Unit(W[p], n) \in {0, 1} /\ Unit(W2[p], n) \in {0, 1}
  BY UnitType
<1> QED BY <1>1, <1>3, <1>6, <1>7

-----------------------------------------------------------------------------
(* Calls.                                                                   *)

LEMMA MinOf ==
    ASSUME NEW S, S \subseteq Fds, S # {}
    PROVE  Min(S) \in S
<1>1. S \subseteq Nat
  BY DEF Fds
<1>2. \E n \in S : \A k \in S : n <= k
  BY <1>1, LeastNat
<1> QED BY <1>2 DEF Min

(* The types that counting needs.                                           *)
LEMMA CountTypes ==
    ASSUME FilesTypeOK, NEW n \in Nodes
    PROVE  /\ ref_count[n] \in Int /\ open_count[n] \in Int /\ leaked[n] \in Nat
           /\ Base(n) \in {0, 1}
           /\ Cardinality(UsersIn(fd_array, n)) \in Nat
           /\ Cardinality(CwdIn(pwd, n)) \in Nat
BY UsersFinite, CwdFinite DEF FilesTypeOK, Base

LEMMA UsersAre ==
    /\ \A n : Users(n) = UsersIn(fd_array, n) /\ CwdOf(n) = CwdIn(pwd, n)
    /\ \A n : Users(n)' = UsersIn(fd_array', n) /\ CwdOf(n)' = CwdIn(pwd', n)
BY DEF Users, UsersIn, CwdOf, CwdIn

(* A call that changes the table and the directory of p only, and the       *)
(* counts by the same.                                                      *)
Recounted(p) ==
    /\ \A q \in Procs : q # p => fd_array'[q] = fd_array[q] /\ pwd'[q] = pwd[q]
    /\ \A n \in Nodes :
          /\ ref_count'[n] = ref_count[n] + leaked'[n] - leaked[n]
                               - Cardinality(Held(fd_array[p], n))
                               + Cardinality(Held(fd_array'[p], n))
                               - Unit(pwd[p], n) + Unit(pwd'[p], n)
          /\ open_count'[n] = open_count[n] - Cardinality(Held(fd_array[p], n))
                                + Cardinality(Held(fd_array'[p], n))

LEMMA Recount ==
    ASSUME RefsExact, FilesTypeOK', NEW p \in Procs, Recounted(p)
    PROVE  RefsExact'
<1> SUFFICES ASSUME NEW n \in Nodes
             PROVE  /\ ref_count'[n] = Base(n) + leaked'[n] + Cardinality(UsersIn(fd_array', n))
                                         + Cardinality(CwdIn(pwd', n))
                    /\ open_count'[n] = Cardinality(UsersIn(fd_array', n))
  BY UsersAre DEF RefsExact, Base
<1>1. /\ ref_count[n] = Base(n) + leaked[n] + Cardinality(UsersIn(fd_array, n))
                          + Cardinality(CwdIn(pwd, n))
      /\ open_count[n] = Cardinality(UsersIn(fd_array, n))
  BY UsersAre DEF RefsExact
<1>2. Cardinality(UsersIn(fd_array', n)) =
         Cardinality(UsersIn(fd_array, n)) - Cardinality(Held(fd_array[p], n))
           + Cardinality(Held(fd_array'[p], n))
  <2>1. \A q \in Procs : q # p => fd_array'[q] = fd_array[q]
    BY DEF Recounted
  <2> QED BY <2>1, RowChange
<1>3. Cardinality(CwdIn(pwd', n)) =
         Cardinality(CwdIn(pwd, n)) - Unit(pwd[p], n) + Unit(pwd'[p], n)
  <2>1. \A q \in Procs : q # p => pwd'[q] = pwd[q]
    BY DEF Recounted
  <2> QED BY <2>1, CwdChange
<1>4. /\ ref_count[n] \in Int /\ open_count[n] \in Int /\ leaked[n] \in Nat
      /\ Base(n) \in {0, 1}
      /\ Cardinality(UsersIn(fd_array, n)) \in Nat
      /\ Cardinality(CwdIn(pwd, n)) \in Nat
  BY CountTypes DEF RefsExact
<1>5. leaked'[n] \in Nat
  BY DEF FilesTypeOK
<1>6. Unit(pwd[p], n) \in {0, 1} /\ Unit(pwd'[p], n) \in {0, 1}
  BY UnitType
<1>7. Cardinality(Held(fd_array[p], n)) \in Nat /\ Cardinality(Held(fd_array'[p], n)) \in Nat
  BY HeldFinite
<1>8. /\ ref_count'[n] = ref_count[n] + leaked'[n] - leaked[n]
                           - Cardinality(Held(fd_array[p], n))
                           + Cardinality(Held(fd_array'[p], n))
                           - Unit(pwd[p], n) + Unit(pwd'[p], n)
      /\ open_count'[n] = open_count[n] - Cardinality(Held(fd_array[p], n))
                            + Cardinality(Held(fd_array'[p], n))
  BY DEF Recounted
<1> QED BY <1>1, <1>2, <1>3, <1>4, <1>5, <1>6, <1>7, <1>8

(* When the counts are exact after a call, none of its assertions fails: an *)
(* inode that is reclaimed has no descriptor.                               *)
LEMMA Sound ==
    ASSUME RefsExact'
    PROVE  ~CountFails
<1> SUFFICES ASSUME NEW n \in Nodes
             PROVE  /\ ref_count'[n] >= 0 /\ open_count'[n] >= 0
                    /\ ref_count'[n] = 0 => open_count'[n] = 0
  BY DEF CountFails, Reclaimed, RefsExact, FilesTypeOK
<1>1. /\ ref_count'[n] = Base(n) + leaked'[n] + Cardinality(UsersIn(fd_array', n))
                           + Cardinality(CwdIn(pwd', n))
      /\ open_count'[n] = Cardinality(UsersIn(fd_array', n))
  BY UsersAre DEF RefsExact, Base
<1>2. leaked'[n] \in Nat /\ Base(n) \in {0, 1}
  BY DEF RefsExact, FilesTypeOK, Base
<1>3. Cardinality(UsersIn(fd_array', n)) \in Nat /\ Cardinality(CwdIn(pwd', n)) \in Nat
  BY UsersFinite, CwdFinite
<1> QED BY <1>1, <1>2, <1>3

LEMMA PanicType ==
    ASSUME FilesTypeOK, Checked
    PROVE  panic' \in {"no", "count", "vop", "fd"}
BY DEF FilesTypeOK, Checked

LEMMA PanicKept ==
    ASSUME NoAssertionFails, RefsExact', Checked \/ UNCHANGED panic
    PROVE  NoAssertionFails'
BY Sound DEF NoAssertionFails, Checked

(* One descriptor of a process that runs is written, and its inode counted. *)
Written(p, fd, f) ==
    /\ Store(p, fd, f) /\ UNCHANGED <<alive, lost, pwd, reading, leaked>>
    /\ ref_count' \in [Nodes -> Int] /\ open_count' \in [Nodes -> Int]
    /\ \A n \in Nodes :
          /\ ref_count'[n] = ref_count[n] - Unit(fd_array[p][fd].node, n) + Unit(f.node, n)
          /\ open_count'[n] = open_count[n] - Unit(fd_array[p][fd].node, n) + Unit(f.node, n)

LEMMA WriteOne ==
    ASSUME IInv, NEW p \in alive, reading[p] = NULL, NEW fd \in Fds, NEW f \in File,
           f = NoFile \/ \E n \in Nodes : f = Opened(n),
           Written(p, fd, f), Checked \/ UNCHANGED panic
    PROVE  IInv'
<1>1. FilesTypeOK /\ RefsExact /\ TablesOk /\ NoAssertionFails
  BY DEF IInv, RefsExact
<1>2. p \in Procs /\ fd_array[p] \in [Fds -> File]
  BY <1>1 DEF FilesTypeOK
<1>3. /\ fd_array' \in [Procs -> [Fds -> File]]
      /\ fd_array'[p] = [fd_array[p] EXCEPT ![fd] = f]
      /\ \A q \in Procs : q # p => fd_array'[q] = fd_array[q]
  BY <1>1, <1>2 DEF Written, Store, FilesTypeOK
<1>4. FilesTypeOK'
  <2>1. panic' \in {"no", "count", "vop", "fd"}
    BY <1>1, PanicType DEF FilesTypeOK
  <2>2. ASSUME NEW q \in Procs, NEW x \in Fds
        PROVE  LET g == fd_array'[q][x] IN
               g = NoFile \/ /\ g.status = "FD_OPENED" /\ g.node \in Nodes
                             /\ g.open_count = IF reading'[q] = x THEN 2 ELSE 1
    <3>1. CASE q = p /\ x = fd
      <4>1. fd_array'[q][x] = f /\ reading'[q] # x
        BY <3>1, <1>2, <1>3, FilesAssumption DEF FilesAssumption, Written
      <4> QED BY <4>1 DEF Opened
    <3>2. CASE ~(q = p /\ x = fd)
      <4>1. fd_array'[q][x] = fd_array[q][x] /\ reading'[q] = reading[q]
        BY <3>2, <1>2, <1>3 DEF Written
      <4> QED BY <4>1, <1>1 DEF FilesTypeOK
    <3> QED BY <3>1, <3>2
  <2> QED BY <2>1, <2>2, <1>1, <1>3 DEF FilesTypeOK, Written
<1>5. \A n \in Nodes :
         Cardinality(Held(fd_array'[p], n)) =
            Cardinality(Held(fd_array[p], n)) - Unit(fd_array[p][fd].node, n) + Unit(f.node, n)
  <2> DEFINE t == fd_array[p]
             t2 == fd_array'[p]
             a == fd_array[p][fd].node
             b == f.node
  <2>1. Replaced(t, t2, fd, a, b)
    BY <1>2, <1>3 DEF Replaced
  <2> HIDE DEF t, t2, a, b
  <2>2. \A n \in Nodes :
           Cardinality(Held(t2, n)) = Cardinality(Held(t, n)) - Unit(a, n) + Unit(b, n)
    BY <2>1, HeldExcept
  <2> QED BY <2>2 DEF t, t2, a, b
<1>6. RefsExact'
  <2> SUFFICES ASSUME NEW n \in Nodes
               PROVE  /\ ref_count'[n] = ref_count[n] + leaked'[n] - leaked[n]
                                           - Cardinality(Held(fd_array[p], n))
                                           + Cardinality(Held(fd_array'[p], n))
                                           - Unit(pwd[p], n) + Unit(pwd'[p], n)
                      /\ open_count'[n] = open_count[n] - Cardinality(Held(fd_array[p], n))
                                            + Cardinality(Held(fd_array'[p], n))
    BY <1>1, <1>2, <1>3, <1>4, Recount DEF Recounted, Written
  <2>1. ref_count[n] \in Int /\ open_count[n] \in Int /\ leaked[n] \in Nat
    BY <1>1, CountTypes
  <2>2. /\ Unit(pwd[p], n) \in {0, 1} /\ Unit(f.node, n) \in {0, 1}
        /\ Unit(fd_array[p][fd].node, n) \in {0, 1}
    BY UnitType
  <2>3. Cardinality(Held(fd_array[p], n)) \in Nat
    BY HeldFinite
  <2>4. pwd' = pwd /\ leaked' = leaked
    BY DEF Written
  <2>5. /\ ref_count'[n] = ref_count[n] - Unit(fd_array[p][fd].node, n) + Unit(f.node, n)
        /\ open_count'[n] = open_count[n] - Unit(fd_array[p][fd].node, n) + Unit(f.node, n)
    BY DEF Written
  <2> QED BY <2>1, <2>2, <2>3, <2>4, <2>5, <1>5
<1>7. TablesOk'
  <2> SUFFICES ASSUME NEW q \in Procs
               PROVE  /\ q \notin alive \cup lost => fd_array'[q] = Closed /\ pwd[q] = NULL
                      /\ reading[q] # NULL => q \in alive /\ IsOpen(q, reading[q])'
    BY DEF TablesOk, IsOpen, Written
  <2>1. CASE q = p
    BY <2>1
  <2>2. CASE q # p
    BY <2>2, <1>1, <1>3 DEF TablesOk, IsOpen, Written
  <2> QED BY <2>1, <2>2
<1> QED BY <1>1, <1>6, <1>7, PanicKept DEF IInv

LEMMA FileTypes == NoFile \in File /\ \A n \in Nodes : Opened(n) \in File
BY DEF NoFile, Opened, File

(* What a process that runs has: a free descriptor holds no inode, an open  *)
(* one holds one.                                                           *)
LEMMA Descriptor ==
    ASSUME IInv, NEW p, Runs(p), NEW fd \in Fds
    PROVE  /\ p \in Procs /\ p \in alive /\ reading[p] = NULL
           /\ fd_array[p] \in [Fds -> File]
           /\ fd \in Unused(p) => fd_array[p][fd] = NoFile
           /\ IsOpen(p, fd) => fd_array[p][fd].node \in Nodes /\ fd_array[p][fd].open_count = 1
           /\ fd_array[p][fd].open_count <= 1
<1>1. p \in Procs /\ p \in alive /\ reading[p] = NULL /\ fd_array[p] \in [Fds -> File]
  BY DEF Runs, IInv, RefsExact, FilesTypeOK
<1>2. \/ fd_array[p][fd] = NoFile
      \/ /\ fd_array[p][fd].status = "FD_OPENED" /\ fd_array[p][fd].node \in Nodes
         /\ fd_array[p][fd].open_count = IF reading[p] = fd THEN 2 ELSE 1
  BY <1>1 DEF IInv, RefsExact, FilesTypeOK
<1>3. reading[p] # fd
  BY <1>1, FilesAssumption DEF FilesAssumption
<1> QED BY <1>1, <1>2, <1>3 DEF IsOpen, Unused, NoFile

LEMMA FreeUnit == \A n \in Nodes : Unit(NoFile.node, n) = 0
BY FilesAssumption DEF FilesAssumption, NoFile, Unit

LEMMA OneUnit == \A n, k \in Nodes : One(n)[k] = Unit(n, k) /\ Nothing[k] = 0
BY DEF One, Nothing, Unit

(* Count adds and takes point by point.                                     *)
LEMMA Counted ==
    ASSUME FilesTypeOK, NEW ri \in [Nodes -> Int], NEW rd \in [Nodes -> Int],
           NEW oi \in [Nodes -> Int], NEW od \in [Nodes -> Int], Count(ri, rd, oi, od)
    PROVE  /\ ref_count' \in [Nodes -> Int] /\ open_count' \in [Nodes -> Int]
           /\ \A n \in Nodes : /\ ref_count'[n] = ref_count[n] + ri[n] - rd[n]
                               /\ open_count'[n] = open_count[n] + oi[n] - od[n]
BY DEF FilesTypeOK, Count, Plus, Minus

LEMMA OneType == Nothing \in [Nodes -> Int] /\ \A n : One(n) \in [Nodes -> Int]
BY DEF Nothing, One

LEMMA OpenStep ==
    ASSUME IInv, NEW p \in Procs, NEW n \in Nodes, NEW flags, Open(p, n, flags)
    PROVE  IInv'
<1> DEFINE fd == NewFd(p)
<1>1. Runs(p) /\ Unused(p) # {}
  BY DEF Open, Asks, At
<1>2. fd \in Fds /\ fd \in Unused(p)
  BY <1>1, MinOf DEF Unused, NewFd
<1>3. p \in alive /\ reading[p] = NULL /\ fd_array[p][fd] = NoFile
  BY <1>1, <1>2, Descriptor
<1> HIDE DEF fd
<1>4. Written(p, fd, Opened(n))
  <2>1. Count(One(n), Nothing, One(n), Nothing)
    BY DEF Open
  <2>2. /\ ref_count' \in [Nodes -> Int] /\ open_count' \in [Nodes -> Int]
        /\ \A k \in Nodes : /\ ref_count'[k] = ref_count[k] + One(n)[k] - Nothing[k]
                            /\ open_count'[k] = open_count[k] + One(n)[k] - Nothing[k]
    BY <2>1, OneType, Counted DEF IInv, RefsExact
  <2>3. \A k \in Nodes : Unit(fd_array[p][fd].node, k) = 0
    BY <1>3, FreeUnit
  <2>4. \A k \in Nodes : One(n)[k] = Unit(n, k) /\ Nothing[k] = 0 /\ Unit(n, k) \in {0, 1}
                         /\ ref_count[k] \in Int /\ open_count[k] \in Int
    BY OneUnit, UnitType, CountTypes DEF IInv, RefsExact
  <2>5. Opened(n).node = n
    BY DEF Opened
  <2>6. \A k \in Nodes :
           /\ ref_count'[k] = ref_count[k] - Unit(fd_array[p][fd].node, k) + Unit(n, k)
           /\ open_count'[k] = open_count[k] - Unit(fd_array[p][fd].node, k) + Unit(n, k)
    BY <2>2, <2>3, <2>4
  <2> QED BY <2>2, <2>5, <2>6 DEF Open, Written, fd
<1>5. UNCHANGED panic
  BY DEF Open
<1> QED BY <1>2, <1>3, <1>4, <1>5, FileTypes, WriteOne

LEMMA DupStep ==
    ASSUME IInv, NEW p \in Procs, NEW fd1 \in Fds, NEW fd2 \in Fds, Dup(p, fd1, fd2)
    PROVE  IInv'
<1> DEFINE n == fd_array[p][fd1].node
<1>1. Runs(p) /\ IsOpen(p, fd1) /\ fd2 \in Unused(p)
  BY DEF Dup, At
<1>2. p \in alive /\ reading[p] = NULL /\ fd_array[p][fd2] = NoFile /\ n \in Nodes
  BY <1>1, Descriptor
<1>3. /\ Count(One(n), Nothing, One(n), Nothing)
      /\ Store(p, fd2, Opened(n))
      /\ UNCHANGED <<alive, lost, pwd, reading, leaked, panic>>
  BY DEF Dup, DupTakes
<1> HIDE DEF n
<1>4. Written(p, fd2, Opened(n))
  <2>2. /\ ref_count' \in [Nodes -> Int] /\ open_count' \in [Nodes -> Int]
        /\ \A k \in Nodes : /\ ref_count'[k] = ref_count[k] + One(n)[k] - Nothing[k]
                            /\ open_count'[k] = open_count[k] + One(n)[k] - Nothing[k]
    BY <1>3, OneType, Counted DEF IInv, RefsExact
  <2>3. \A k \in Nodes : Unit(fd_array[p][fd2].node, k) = 0
    BY <1>2, FreeUnit
  <2>4. \A k \in Nodes : One(n)[k] = Unit(n, k) /\ Nothing[k] = 0 /\ Unit(n, k) \in {0, 1}
                         /\ ref_count[k] \in Int /\ open_count[k] \in Int
    BY <1>2, OneUnit, UnitType, CountTypes DEF IInv, RefsExact
  <2>5. Opened(n).node = n
    BY DEF Opened
  <2>6. \A k \in Nodes :
           /\ ref_count'[k] = ref_count[k] - Unit(fd_array[p][fd2].node, k) + Unit(n, k)
           /\ open_count'[k] = open_count[k] - Unit(fd_array[p][fd2].node, k) + Unit(n, k)
    BY <2>2, <2>3, <2>4
  <2> QED BY <1>3, <2>2, <2>5, <2>6 DEF Written
<1> QED BY <1>2, <1>3, <1>4, FileTypes, WriteOne

LEMMA CloseStep ==
    ASSUME IInv, NEW p \in Procs, NEW fd \in Fds, Close(p, fd)
    PROVE  IInv'
<1> DEFINE n == fd_array[p][fd].node
<1>1. Runs(p) /\ IsOpen(p, fd)
  BY DEF Close, At
<1>2. p \in alive /\ reading[p] = NULL /\ n \in Nodes
  BY <1>1, Descriptor
<1>3. /\ Count(Nothing, One(n), Nothing, One(n)) /\ Checked
      /\ Store(p, fd, NoFile)
      /\ UNCHANGED <<alive, lost, pwd, reading, leaked>>
  BY DEF Close
<1>4. Written(p, fd, NoFile)
  <2>2. /\ ref_count' \in [Nodes -> Int] /\ open_count' \in [Nodes -> Int]
        /\ \A k \in Nodes : /\ ref_count'[k] = ref_count[k] + Nothing[k] - One(n)[k]
                            /\ open_count'[k] = open_count[k] + Nothing[k] - One(n)[k]
    BY <1>3, OneType, Counted DEF IInv, RefsExact
  <2>3. \A k \in Nodes : Unit(NoFile.node, k) = 0
    BY FreeUnit
  <2>4. \A k \in Nodes : One(n)[k] = Unit(n, k) /\ Nothing[k] = 0 /\ Unit(n, k) \in {0, 1}
                         /\ ref_count[k] \in Int /\ open_count[k] \in Int
    BY <1>2, OneUnit, UnitType, CountTypes DEF IInv, RefsExact
  <2>6. \A k \in Nodes :
           /\ ref_count'[k] = ref_count[k] - Unit(n, k) + Unit(NoFile.node, k)
           /\ open_count'[k] = open_count[k] - Unit(n, k) + Unit(NoFile.node, k)
    <3> HIDE DEF n
    <3> QED BY <2>2, <2>3, <2>4
  <2> QED BY <1>3, <2>2, <2>6 DEF Written
<1> QED BY <1>2, <1>3, <1>4, FileTypes, WriteOne

LEMMA OpenExistsStep ==
    ASSUME IInv, NEW p \in Procs, NEW n \in Nodes, NEW flags, OpenExists(p, n, flags)
    PROVE  IInv'
<1>1. FilesTypeOK /\ RefsExact /\ TablesOk /\ NoAssertionFails
  BY DEF IInv, RefsExact
<1>2. /\ leaked' = [leaked EXCEPT ![n] = @ + 1]
      /\ Count(One(n), Nothing, Nothing, Nothing)
      /\ UNCHANGED <<alive, lost, fd_array, pwd, reading, panic>>
  BY DEF OpenExists
<1>3. /\ ref_count' \in [Nodes -> Int] /\ open_count' \in [Nodes -> Int]
      /\ \A k \in Nodes : /\ ref_count'[k] = ref_count[k] + One(n)[k] - Nothing[k]
                          /\ open_count'[k] = open_count[k] + Nothing[k] - Nothing[k]
  BY <1>1, <1>2, OneType, Counted
<1>4. /\ leaked' \in [Nodes -> Nat]
      /\ \A k \in Nodes : leaked'[k] = leaked[k] + Unit(n, k)
  BY <1>1, <1>2 DEF FilesTypeOK, Unit
<1>5. FilesTypeOK'
  BY <1>1, <1>2, <1>3, <1>4 DEF FilesTypeOK
<1>6. RefsExact'
  <2> SUFFICES ASSUME NEW k \in Nodes
               PROVE  /\ ref_count'[k] = ref_count[k] + leaked'[k] - leaked[k]
                                           - Cardinality(Held(fd_array[p], k))
                                           + Cardinality(Held(fd_array'[p], k))
                                           - Unit(pwd[p], k) + Unit(pwd'[p], k)
                      /\ open_count'[k] = open_count[k] - Cardinality(Held(fd_array[p], k))
                                            + Cardinality(Held(fd_array'[p], k))
    BY <1>1, <1>2, <1>5, Recount DEF Recounted
  <2>1. /\ One(n)[k] = Unit(n, k) /\ Nothing[k] = 0
        /\ Unit(n, k) \in {0, 1} /\ Unit(pwd[p], k) \in {0, 1}
    BY OneUnit, UnitType
  <2>2. ref_count[k] \in Int /\ open_count[k] \in Int /\ leaked[k] \in Nat
    BY <1>1, CountTypes
  <2>3. Cardinality(Held(fd_array[p], k)) \in Nat
    BY HeldFinite
  <2>4. fd_array' = fd_array /\ pwd' = pwd
    BY <1>2
  <2> QED BY <2>1, <2>2, <2>3, <2>4, <1>3, <1>4
<1>7. TablesOk'
  BY <1>1, <1>2 DEF TablesOk, IsOpen
<1> QED BY <1>1, <1>2, <1>6, <1>7, PanicKept DEF IInv

LEMMA OpenUnimplementedStep ==
    ASSUME IInv, NEW p \in Procs, NEW flags, OpenUnimplemented(p, flags)
    PROVE  IInv'
<1>1. /\ panic' = "vop"
      /\ UNCHANGED <<alive, lost, fd_array, pwd, reading, ref_count, open_count, leaked>>
  BY DEF OpenUnimplemented
<1>2. FilesTypeOK'
  BY <1>1 DEF IInv, RefsExact, FilesTypeOK
<1>3. RefsExact'
  <2>1. \A n : Users(n)' = Users(n) /\ CwdOf(n)' = CwdOf(n)
    BY <1>1 DEF Users, CwdOf
  <2> QED BY <1>1, <1>2, <2>1 DEF IInv, RefsExact, Base
<1>4. TablesOk'
  BY <1>1 DEF IInv, TablesOk, IsOpen
<1> QED BY <1>1, <1>3, <1>4 DEF IInv, NoAssertionFails

(* A reference that is taken and given back in one call leaves no trace.    *)
LEMMA GivesBackStep ==
    ASSUME IInv, NEW n \in Nodes, GivesBack(n)
    PROVE  IInv'
<1>1. FilesTypeOK /\ UNCHANGED <<alive, lost, fd_array, pwd, reading, leaked, panic>>
  BY DEF IInv, RefsExact, GivesBack
<1>2. /\ ref_count' \in [Nodes -> Int] /\ open_count' \in [Nodes -> Int]
      /\ \A k \in Nodes : /\ ref_count'[k] = ref_count[k] + One(n)[k] - One(n)[k]
                          /\ open_count'[k] = open_count[k] + Nothing[k] - Nothing[k]
  BY <1>1, OneType, Counted DEF GivesBack
<1>3. ref_count' = ref_count /\ open_count' = open_count
  <2>1. ref_count \in [Nodes -> Int] /\ open_count \in [Nodes -> Int]
    BY <1>1 DEF FilesTypeOK
  <2>2. \A k \in Nodes : ref_count'[k] = ref_count[k] /\ open_count'[k] = open_count[k]
    BY <1>2, <2>1, OneType
  <2> QED BY <1>2, <2>1, <2>2
<1>4. RefsExact'
  <2>1. \A k : Users(k)' = Users(k) /\ CwdOf(k)' = CwdOf(k)
    BY <1>1 DEF Users, CwdOf
  <2> QED BY <1>1, <1>3, <2>1 DEF IInv, RefsExact, FilesTypeOK, Base
<1> QED BY <1>1, <1>4 DEF IInv, NoAssertionFails, TablesOk, IsOpen

(* A read begins or ends: the descriptor is in use once more, or once less, *)
(* and holds what it held.                                                  *)
LEMMA SameNodes ==
    ASSUME IInv, FilesTypeOK', NEW p \in Procs,
           UNCHANGED <<alive, lost, pwd, ref_count, open_count, leaked, panic>>,
           \A q \in Procs : q # p => fd_array'[q] = fd_array[q],
           \A fd \in Fds : fd_array'[p][fd].node = fd_array[p][fd].node
    PROVE  RefsExact' /\ NoAssertionFails'
<1>1. \A q \in Procs, fd \in Fds : fd_array'[q][fd].node = fd_array[q][fd].node
  OBVIOUS
<1>2. \A n : Users(n)' = Users(n) /\ CwdOf(n)' = CwdOf(n)
  BY <1>1 DEF Users, CwdOf
<1> QED BY <1>2 DEF IInv, RefsExact, NoAssertionFails, Base

LEMMA ReadBlockStep ==
    ASSUME IInv, NEW p \in Procs, NEW fd \in Fds, ReadBlock(p, fd)
    PROVE  IInv'
<1>1. Runs(p) /\ IsOpen(p, fd)
  BY DEF ReadBlock, At
<1>2. /\ p \in alive /\ reading[p] = NULL /\ fd_array[p] \in [Fds -> File]
      /\ fd_array[p][fd].node \in Nodes /\ fd_array[p][fd].open_count = 1
      /\ fd_array[p][fd].status = "FD_OPENED"
  BY <1>1, Descriptor DEF IsOpen
<1>3. FilesTypeOK /\ TablesOk
  BY DEF IInv, RefsExact
<1>4. /\ reading' = [reading EXCEPT ![p] = fd]
      /\ UNCHANGED <<alive, lost, pwd, ref_count, open_count, leaked, panic>>
  BY DEF ReadBlock
<1>5. /\ fd_array' \in [Procs -> [Fds -> File]]
      /\ \A q \in Procs : q # p => fd_array'[q] = fd_array[q]
      /\ \A x \in Fds : x # fd => fd_array'[p][x] = fd_array[p][x]
      /\ fd_array'[p][fd] = [fd_array[p][fd] EXCEPT !.open_count = 2]
  <2>1. fd_array' = [fd_array EXCEPT ![p][fd].open_count = @ + 1]
    BY DEF ReadBlock
  <2>2. fd_array[p][fd] \in File /\ [fd_array[p][fd] EXCEPT !.open_count = 2] \in File
    BY <1>2 DEF File
  <2>3. fd_array' = [fd_array EXCEPT ![p][fd] = [fd_array[p][fd] EXCEPT !.open_count = 2]]
    BY <1>2, <2>1
  <2> QED BY <1>2, <1>3, <2>2, <2>3 DEF FilesTypeOK
<1>6. \A x \in Fds : fd_array'[p][x].node = fd_array[p][x].node
  <2>1. fd_array[p][fd] \in File
    BY <1>2
  <2>2. fd_array'[p][fd].node = fd_array[p][fd].node
    BY <2>1, <1>5 DEF File
  <2> QED BY <2>2, <1>5
<1>7. FilesTypeOK'
  <2>1. ASSUME NEW q \in Procs, NEW x \in Fds
        PROVE  LET g == fd_array'[q][x] IN
               g = NoFile \/ /\ g.status = "FD_OPENED" /\ g.node \in Nodes
                             /\ g.open_count = IF reading'[q] = x THEN 2 ELSE 1
    <3>1. CASE q = p /\ x = fd
      <4>1. reading'[q] = x
        BY <3>1, <1>3, <1>4 DEF FilesTypeOK
      <4>2. fd_array[p][fd] \in File
        BY <1>2
      <4>3. /\ fd_array'[q][x].status = "FD_OPENED" /\ fd_array'[q][x].open_count = 2
            /\ fd_array'[q][x].node \in Nodes
        BY <3>1, <4>2, <1>2, <1>5, <1>6 DEF File
      <4> QED BY <4>1, <4>3
    <3>2. CASE q = p /\ x # fd
      <4>1. reading'[q] # x /\ reading[q] # x /\ fd_array'[q][x] = fd_array[q][x]
        BY <3>2, <1>2, <1>3, <1>4, <1>5, FilesAssumption DEF FilesTypeOK, FilesAssumption
      <4> QED BY <4>1, <1>3 DEF FilesTypeOK
    <3>3. CASE q # p
      <4>1. reading'[q] = reading[q] /\ fd_array'[q][x] = fd_array[q][x]
        BY <3>3, <1>3, <1>4, <1>5 DEF FilesTypeOK
      <4> QED BY <4>1, <1>3 DEF FilesTypeOK
    <3> QED BY <3>1, <3>2, <3>3
  <2>2. reading' \in [Procs -> Fds \cup {NULL}]
    BY <1>3, <1>4 DEF FilesTypeOK
  <2> QED BY <2>1, <2>2, <1>3, <1>4, <1>5 DEF FilesTypeOK
<1>8. RefsExact' /\ NoAssertionFails'
  BY <1>4, <1>5, <1>6, <1>7, SameNodes
<1>9. TablesOk'
  <2> SUFFICES ASSUME NEW q \in Procs
               PROVE  /\ q \notin alive \cup lost => fd_array'[q] = Closed /\ pwd[q] = NULL
                      /\ reading'[q] # NULL => q \in alive /\ fd_array'[q][reading'[q]].status = "FD_OPENED"
    BY <1>4 DEF TablesOk, IsOpen
  <2>1. CASE q = p
    <3>1. reading'[q] = fd /\ fd_array[p][fd] \in File
      BY <2>1, <1>2, <1>3, <1>4 DEF FilesTypeOK
    <3>2. fd_array'[p][fd].status = "FD_OPENED"
      BY <3>1, <1>2, <1>5 DEF File
    <3> QED BY <2>1, <3>1, <3>2, <1>2
  <2>2. CASE q # p
    <3>1. reading'[q] = reading[q] /\ fd_array'[q] = fd_array[q]
      BY <2>2, <1>3, <1>4, <1>5 DEF FilesTypeOK
    <3> QED BY <3>1, <1>3 DEF TablesOk, IsOpen
  <2> QED BY <2>1, <2>2
<1> QED BY <1>8, <1>9 DEF IInv

LEMMA ReadReturnStep ==
    ASSUME IInv, NEW p \in Procs, ReadReturn(p)
    PROVE  IInv'
<1> DEFINE fd == reading[p]
<1>1. /\ fd # NULL /\ reading' = [reading EXCEPT ![p] = NULL]
      /\ fd_array' = [fd_array EXCEPT ![p][fd].open_count = @ - 1]
      /\ UNCHANGED <<alive, lost, pwd, ref_count, open_count, leaked, panic>>
  BY DEF ReadReturn, Released
<1>2. FilesTypeOK /\ TablesOk
  BY DEF IInv, RefsExact
<1>3. /\ fd \in Fds /\ p \in alive /\ fd_array[p] \in [Fds -> File]
      /\ fd_array[p][fd].node \in Nodes /\ fd_array[p][fd].open_count = 2
      /\ fd_array[p][fd].status = "FD_OPENED"
  <2>1. fd \in Fds /\ p \in alive /\ IsOpen(p, fd) /\ fd_array[p] \in [Fds -> File]
    BY <1>1, <1>2 DEF FilesTypeOK, TablesOk
  <2>2. \/ fd_array[p][fd] = NoFile
        \/ /\ fd_array[p][fd].status = "FD_OPENED" /\ fd_array[p][fd].node \in Nodes
           /\ fd_array[p][fd].open_count = IF reading[p] = fd THEN 2 ELSE 1
    BY <2>1, <1>2 DEF FilesTypeOK
  <2> QED BY <2>1, <2>2 DEF IsOpen, NoFile
<1> HIDE DEF fd
<1>4. \A q \in Procs : reading'[q] = IF q = p THEN NULL ELSE reading[q]
  BY <1>1, <1>2 DEF FilesTypeOK
<1>5. /\ fd_array' \in [Procs -> [Fds -> File]]
      /\ \A q \in Procs : q # p => fd_array'[q] = fd_array[q]
      /\ \A x \in Fds : x # fd => fd_array'[p][x] = fd_array[p][x]
      /\ fd_array'[p][fd] = [fd_array[p][fd] EXCEPT !.open_count = 1]
  <2>1. fd_array[p][fd] \in File /\ [fd_array[p][fd] EXCEPT !.open_count = 1] \in File
    BY <1>3 DEF File
  <2>2. fd_array' = [fd_array EXCEPT ![p][fd] = [fd_array[p][fd] EXCEPT !.open_count = 1]]
    BY <1>1, <1>3
  <2> QED BY <1>2, <1>3, <2>1, <2>2 DEF FilesTypeOK
<1>6. \A x \in Fds : fd_array'[p][x].node = fd_array[p][x].node
  <2>1. fd_array[p][fd] \in File
    BY <1>3
  <2>2. fd_array'[p][fd].node = fd_array[p][fd].node
    BY <2>1, <1>5 DEF File
  <2> QED BY <2>2, <1>5
<1>7. FilesTypeOK'
  <2>1. ASSUME NEW q \in Procs, NEW x \in Fds
        PROVE  LET g == fd_array'[q][x] IN
               g = NoFile \/ /\ g.status = "FD_OPENED" /\ g.node \in Nodes
                             /\ g.open_count = IF reading'[q] = x THEN 2 ELSE 1
    <3>1. CASE q = p /\ x = fd
      <4>1. reading'[q] # x
        BY <3>1, <1>3, <1>4, FilesAssumption DEF FilesAssumption
      <4>2. fd_array[p][fd] \in File
        BY <1>3
      <4>3. /\ fd_array'[q][x].status = "FD_OPENED" /\ fd_array'[q][x].open_count = 1
            /\ fd_array'[q][x].node \in Nodes
        BY <3>1, <4>2, <1>3, <1>5, <1>6 DEF File
      <4> QED BY <4>1, <4>3
    <3>2. CASE q = p /\ x # fd
      <4>1. reading'[q] # x /\ reading[q] # x /\ fd_array'[q][x] = fd_array[q][x]
        BY <3>2, <1>4, <1>5, FilesAssumption DEF fd, FilesAssumption
      <4> QED BY <4>1, <1>2 DEF FilesTypeOK
    <3>3. CASE q # p
      <4>1. reading'[q] = reading[q] /\ fd_array'[q][x] = fd_array[q][x]
        BY <3>3, <1>4, <1>5
      <4> QED BY <4>1, <1>2 DEF FilesTypeOK
    <3> QED BY <3>1, <3>2, <3>3
  <2>2. reading' \in [Procs -> Fds \cup {NULL}]
    BY <1>1, <1>2 DEF FilesTypeOK
  <2> QED BY <2>1, <2>2, <1>1, <1>2, <1>5 DEF FilesTypeOK
<1>8. RefsExact' /\ NoAssertionFails'
  BY <1>1, <1>5, <1>6, <1>7, SameNodes
<1>9. TablesOk'
  <2> SUFFICES ASSUME NEW q \in Procs
               PROVE  /\ q \notin alive \cup lost => fd_array'[q] = Closed /\ pwd[q] = NULL
                      /\ reading'[q] # NULL => q \in alive /\ fd_array'[q][reading'[q]].status = "FD_OPENED"
    BY <1>1 DEF TablesOk, IsOpen
  <2>1. CASE q = p
    BY <2>1, <1>3, <1>4
  <2>2. CASE q # p
    <3>1. reading'[q] = reading[q] /\ fd_array'[q] = fd_array[q]
      BY <2>2, <1>4, <1>5
    <3> QED BY <3>1, <1>2 DEF TablesOk, IsOpen
  <2> QED BY <2>1, <2>2
<1> QED BY <1>8, <1>9 DEF IInv

LEMMA DirectoryUnit ==
    ASSUME NEW p
    PROVE  Directory(p) \in [Nodes -> Int] /\ \A k \in Nodes : Directory(p)[k] = Unit(pwd[p], k)
BY DEF Directory, Unit

LEMMA ChdirStep ==
    ASSUME IInv, NEW p \in Procs, NEW n \in Dirs, Chdir(p, n)
    PROVE  IInv'
<1>1. FilesTypeOK /\ RefsExact /\ TablesOk /\ NoAssertionFails
  BY DEF IInv, RefsExact
<1>2. /\ p \in alive
      /\ pwd' = [pwd EXCEPT ![p] = n]
      /\ Count(One(n), Directory(p), Nothing, Nothing) /\ Checked
      /\ UNCHANGED <<alive, lost, fd_array, reading, leaked>>
  BY DEF Chdir, At, Runs
<1>3. /\ pwd' \in [Procs -> Dirs \cup {NULL}] /\ pwd'[p] = n
      /\ \A q \in Procs : q # p => pwd'[q] = pwd[q]
  BY <1>1, <1>2 DEF FilesTypeOK
<1>4. /\ ref_count' \in [Nodes -> Int] /\ open_count' \in [Nodes -> Int]
      /\ \A k \in Nodes : /\ ref_count'[k] = ref_count[k] + One(n)[k] - Directory(p)[k]
                          /\ open_count'[k] = open_count[k] + Nothing[k] - Nothing[k]
  <2>1. One(n) \in [Nodes -> Int] /\ Nothing \in [Nodes -> Int] /\ Directory(p) \in [Nodes -> Int]
    BY OneType, DirectoryUnit
  <2>2. Count(One(n), Directory(p), Nothing, Nothing)
    BY <1>2
  <2> QED BY <1>1, <2>1, <2>2, Counted
<1>5. FilesTypeOK'
  <2>1. panic' \in {"no", "count", "vop", "fd"}
    BY <1>1, <1>2, PanicType
  <2> QED BY <2>1, <1>1, <1>2, <1>3, <1>4 DEF FilesTypeOK
<1>6. RefsExact'
  <2> SUFFICES ASSUME NEW k \in Nodes
               PROVE  /\ ref_count'[k] = ref_count[k] + leaked'[k] - leaked[k]
                                           - Cardinality(Held(fd_array[p], k))
                                           + Cardinality(Held(fd_array'[p], k))
                                           - Unit(pwd[p], k) + Unit(pwd'[p], k)
                      /\ open_count'[k] = open_count[k] - Cardinality(Held(fd_array[p], k))
                                            + Cardinality(Held(fd_array'[p], k))
    BY <1>1, <1>2, <1>3, <1>5, Recount DEF Recounted
  <2>1. n \in Nodes
    BY DEF Nodes, Sfs
  <2>2. /\ One(n)[k] = Unit(n, k) /\ Nothing[k] = 0 /\ Directory(p)[k] = Unit(pwd[p], k)
        /\ Unit(n, k) \in {0, 1} /\ Unit(pwd[p], k) \in {0, 1}
    BY <2>1, OneUnit, UnitType, DirectoryUnit
  <2>3. ref_count[k] \in Int /\ open_count[k] \in Int /\ leaked[k] \in Nat
    BY <1>1, CountTypes
  <2>4. Cardinality(Held(fd_array[p], k)) \in Nat
    BY HeldFinite
  <2>5. fd_array' = fd_array /\ leaked' = leaked
    BY <1>2
  <2> QED BY <2>2, <2>3, <2>4, <2>5, <1>3, <1>4
<1>7. TablesOk'
  <2> SUFFICES ASSUME NEW q \in Procs
               PROVE  /\ q \notin alive \cup lost => fd_array[q] = Closed /\ pwd'[q] = NULL
                      /\ reading[q] # NULL => q \in alive /\ IsOpen(q, reading[q])
    BY <1>2 DEF TablesOk, IsOpen
  <2> QED BY <1>1, <1>2, <1>3 DEF TablesOk
<1> QED BY <1>1, <1>2, <1>6, <1>7, PanicKept DEF IInv

(* dup_files and files_destroy count every descriptor of a table.           *)
LEMMA DescriptorCount ==
    ASSUME NEW p
    PROVE  /\ Descriptors(p) \in [Nodes -> Int]
           /\ \A k \in Nodes : Descriptors(p)[k] = Cardinality(Held(fd_array[p], k))
           /\ Plus(Descriptors(p), Directory(p)) \in [Nodes -> Int]
           /\ \A k \in Nodes : Plus(Descriptors(p), Directory(p))[k] =
                 Cardinality(Held(fd_array[p], k)) + Unit(pwd[p], k)
<1>1. \A k \in Nodes : Descriptors(p)[k] = Cardinality(Held(fd_array[p], k))
  BY DEF Descriptors, Opens, Held
<1>2. \A k \in Nodes : Cardinality(Held(fd_array[p], k)) \in Nat /\ Unit(pwd[p], k) \in {0, 1}
  BY HeldFinite, UnitType
<1>3. Descriptors(p) = [k \in Nodes |-> Descriptors(p)[k]]
  BY DEF Descriptors, Opens
<1>4. Descriptors(p) \in [Nodes -> Int]
  BY <1>1, <1>2, <1>3
<1>5. \A k \in Nodes : Plus(Descriptors(p), Directory(p))[k] =
         Cardinality(Held(fd_array[p], k)) + Unit(pwd[p], k)
  BY <1>1, DirectoryUnit DEF Plus
<1>6. Plus(Descriptors(p), Directory(p)) \in [Nodes -> Int]
  BY <1>2, <1>5 DEF Plus
<1> QED BY <1>1, <1>4, <1>5, <1>6

LEMMA ForkStep ==
    ASSUME IInv, NEW p \in Procs, NEW c \in Procs, Fork(p, c)
    PROVE  IInv'
<1>1. FilesTypeOK /\ RefsExact /\ TablesOk /\ NoAssertionFails
  BY DEF IInv, RefsExact
<1>2. /\ p \in alive /\ reading[p] = NULL /\ c \notin alive /\ c \notin lost
      /\ alive' = alive \cup {c}
      /\ fd_array' = [fd_array EXCEPT ![c] = fd_array[p]]
      /\ pwd' = [pwd EXCEPT ![c] = pwd[p]]
      /\ Count(Plus(Descriptors(p), Directory(p)), Nothing, Descriptors(p), Nothing)
      /\ UNCHANGED <<lost, reading, leaked, panic>>
  BY DEF Fork, Runs, OpensCopied
<1>3. fd_array[c] = Closed /\ pwd[c] = NULL /\ reading[c] = NULL
  BY <1>1, <1>2 DEF TablesOk
<1>4. /\ fd_array' \in [Procs -> [Fds -> File]] /\ fd_array'[c] = fd_array[p]
      /\ \A q \in Procs : q # c => fd_array'[q] = fd_array[q]
  BY <1>1, <1>2 DEF FilesTypeOK
<1>5. /\ pwd' \in [Procs -> Dirs \cup {NULL}] /\ pwd'[c] = pwd[p]
      /\ \A q \in Procs : q # c => pwd'[q] = pwd[q]
  BY <1>1, <1>2 DEF FilesTypeOK
<1>6. /\ ref_count' \in [Nodes -> Int] /\ open_count' \in [Nodes -> Int]
      /\ \A k \in Nodes :
            /\ ref_count'[k] = ref_count[k] + Plus(Descriptors(p), Directory(p))[k] - Nothing[k]
            /\ open_count'[k] = open_count[k] + Descriptors(p)[k] - Nothing[k]
  <2>1. /\ Plus(Descriptors(p), Directory(p)) \in [Nodes -> Int]
        /\ Nothing \in [Nodes -> Int] /\ Descriptors(p) \in [Nodes -> Int]
    BY OneType, DescriptorCount
  <2>2. Count(Plus(Descriptors(p), Directory(p)), Nothing, Descriptors(p), Nothing)
    BY <1>2
  <2> QED BY <1>1, <2>1, <2>2, Counted
<1>7. FilesTypeOK'
  <2>1. ASSUME NEW q \in Procs, NEW x \in Fds
        PROVE  LET g == fd_array'[q][x] IN
               g = NoFile \/ /\ g.status = "FD_OPENED" /\ g.node \in Nodes
                             /\ g.open_count = IF reading'[q] = x THEN 2 ELSE 1
    <3>1. CASE q = c
      <4>1. fd_array'[q][x] = fd_array[p][x] /\ reading'[q] = reading[p]
        BY <3>1, <1>2, <1>3, <1>4
      <4> QED BY <4>1, <1>1 DEF FilesTypeOK
    <3>2. CASE q # c
      <4>1. fd_array'[q][x] = fd_array[q][x] /\ reading'[q] = reading[q]
        BY <3>2, <1>2, <1>4
      <4> QED BY <4>1, <1>1 DEF FilesTypeOK
    <3> QED BY <3>1, <3>2
  <2> QED BY <2>1, <1>1, <1>2, <1>4, <1>5, <1>6 DEF FilesTypeOK
<1>8. RefsExact'
  <2> SUFFICES ASSUME NEW k \in Nodes
               PROVE  /\ ref_count'[k] = ref_count[k] + leaked'[k] - leaked[k]
                                           - Cardinality(Held(fd_array[c], k))
                                           + Cardinality(Held(fd_array'[c], k))
                                           - Unit(pwd[c], k) + Unit(pwd'[c], k)
                      /\ open_count'[k] = open_count[k] - Cardinality(Held(fd_array[c], k))
                                            + Cardinality(Held(fd_array'[c], k))
    BY <1>1, <1>4, <1>5, <1>7, Recount DEF Recounted
  <2>1. Cardinality(Held(fd_array[c], k)) = 0 /\ Unit(pwd[c], k) = 0
    BY <1>3, HeldClosed, FilesAssumption DEF FilesAssumption, Unit
  <2>2. /\ Plus(Descriptors(p), Directory(p))[k] = Cardinality(Held(fd_array[p], k)) + Unit(pwd[p], k)
        /\ Descriptors(p)[k] = Cardinality(Held(fd_array[p], k)) /\ Nothing[k] = 0
    BY DescriptorCount DEF Nothing
  <2>3. ref_count[k] \in Int /\ open_count[k] \in Int /\ leaked[k] \in Nat
    BY <1>1, CountTypes
  <2>4. Cardinality(Held(fd_array[p], k)) \in Nat /\ Unit(pwd[p], k) \in {0, 1}
    BY HeldFinite, UnitType
  <2>5. fd_array'[c] = fd_array[p] /\ pwd'[c] = pwd[p] /\ leaked' = leaked
    BY <1>2, <1>4, <1>5
  <2>6. /\ ref_count'[k] = ref_count[k] + Plus(Descriptors(p), Directory(p))[k] - Nothing[k]
        /\ open_count'[k] = open_count[k] + Descriptors(p)[k] - Nothing[k]
    BY <1>6
  <2> QED BY <2>1, <2>2, <2>3, <2>4, <2>5, <2>6
<1>9. TablesOk'
  <2> SUFFICES ASSUME NEW q \in Procs
               PROVE  /\ q \notin alive' \cup lost => fd_array'[q] = Closed /\ pwd'[q] = NULL
                      /\ reading[q] # NULL => q \in alive' /\ fd_array'[q][reading[q]].status = "FD_OPENED"
    BY <1>2 DEF TablesOk, IsOpen
  <2> QED BY <1>1, <1>2, <1>3, <1>4, <1>5 DEF TablesOk, IsOpen
<1> QED BY <1>1, <1>2, <1>8, <1>9, PanicKept DEF IInv

LEMMA ExitStep ==
    ASSUME IInv, NEW p \in Procs, Exit(p)
    PROVE  IInv'
<1>1. FilesTypeOK /\ RefsExact /\ TablesOk /\ NoAssertionFails
  BY DEF IInv, RefsExact
<1>2. /\ Runs(p) /\ p \in alive /\ reading[p] = NULL
      /\ alive' = alive \ {p}
      /\ fd_array' = [fd_array EXCEPT ![p] = Closed]
      /\ pwd' = [pwd EXCEPT ![p] = NULL]
      /\ Count(Nothing, Plus(Descriptors(p), Directory(p)), Nothing, Descriptors(p))
      /\ UNCHANGED <<lost, reading, leaked>>
  BY DEF Exit, At, Runs, PwdDropped
<1>3. Checked
  <2>1. \A fd \in Fds : fd_array[p][fd].open_count <= 1 /\ fd_array[p][fd] \in File
    BY <1>2, Descriptor
  <2>2. ~\E fd \in Fds : fd_array[p][fd].open_count > 1
    BY <2>1 DEF File
  <2> QED BY <2>2 DEF Exit, Checked
<1>4. /\ fd_array' \in [Procs -> [Fds -> File]] /\ fd_array'[p] = Closed
      /\ \A q \in Procs : q # p => fd_array'[q] = fd_array[q]
  <2>1. Closed \in [Fds -> File]
    BY FileTypes DEF Closed
  <2> QED BY <2>1, <1>1, <1>2 DEF FilesTypeOK
<1>5. /\ pwd' \in [Procs -> Dirs \cup {NULL}] /\ pwd'[p] = NULL
      /\ \A q \in Procs : q # p => pwd'[q] = pwd[q]
  BY <1>1, <1>2 DEF FilesTypeOK
<1>6. /\ ref_count' \in [Nodes -> Int] /\ open_count' \in [Nodes -> Int]
      /\ \A k \in Nodes :
            /\ ref_count'[k] = ref_count[k] + Nothing[k] - Plus(Descriptors(p), Directory(p))[k]
            /\ open_count'[k] = open_count[k] + Nothing[k] - Descriptors(p)[k]
  <2>1. /\ Plus(Descriptors(p), Directory(p)) \in [Nodes -> Int]
        /\ Nothing \in [Nodes -> Int] /\ Descriptors(p) \in [Nodes -> Int]
    BY OneType, DescriptorCount
  <2>2. Count(Nothing, Plus(Descriptors(p), Directory(p)), Nothing, Descriptors(p))
    BY <1>2
  <2> QED BY <1>1, <2>1, <2>2, Counted
<1>7. FilesTypeOK'
  <2>1. ASSUME NEW q \in Procs, NEW x \in Fds
        PROVE  LET g == fd_array'[q][x] IN
               g = NoFile \/ /\ g.status = "FD_OPENED" /\ g.node \in Nodes
                             /\ g.open_count = IF reading'[q] = x THEN 2 ELSE 1
    <3>1. CASE q = p
      BY <3>1, <1>4 DEF Closed
    <3>2. CASE q # p
      <4>1. fd_array'[q][x] = fd_array[q][x] /\ reading'[q] = reading[q]
        BY <3>2, <1>2, <1>4
      <4> QED BY <4>1, <1>1 DEF FilesTypeOK
    <3> QED BY <3>1, <3>2
  <2>2. panic' \in {"no", "count", "vop", "fd"}
    BY <1>1, <1>3, PanicType
  <2> QED BY <2>1, <2>2, <1>1, <1>2, <1>4, <1>5, <1>6 DEF FilesTypeOK
<1>8. RefsExact'
  <2> SUFFICES ASSUME NEW k \in Nodes
               PROVE  /\ ref_count'[k] = ref_count[k] + leaked'[k] - leaked[k]
                                           - Cardinality(Held(fd_array[p], k))
                                           + Cardinality(Held(fd_array'[p], k))
                                           - Unit(pwd[p], k) + Unit(pwd'[p], k)
                      /\ open_count'[k] = open_count[k] - Cardinality(Held(fd_array[p], k))
                                            + Cardinality(Held(fd_array'[p], k))
    BY <1>1, <1>4, <1>5, <1>7, Recount DEF Recounted
  <2>1. Cardinality(Held(fd_array'[p], k)) = 0 /\ Unit(pwd'[p], k) = 0
    BY <1>4, <1>5, HeldClosed, FilesAssumption DEF FilesAssumption, Unit
  <2>2. /\ Plus(Descriptors(p), Directory(p))[k] = Cardinality(Held(fd_array[p], k)) + Unit(pwd[p], k)
        /\ Descriptors(p)[k] = Cardinality(Held(fd_array[p], k)) /\ Nothing[k] = 0
    BY DescriptorCount DEF Nothing
  <2>3. ref_count[k] \in Int /\ open_count[k] \in Int /\ leaked[k] \in Nat
    BY <1>1, CountTypes
  <2>4. Cardinality(Held(fd_array[p], k)) \in Nat /\ Unit(pwd[p], k) \in {0, 1}
    BY HeldFinite, UnitType
  <2>5. leaked' = leaked
    BY <1>2
  <2>6. /\ ref_count'[k] = ref_count[k] + Nothing[k] - Plus(Descriptors(p), Directory(p))[k]
        /\ open_count'[k] = open_count[k] + Nothing[k] - Descriptors(p)[k]
    BY <1>6
  <2> QED BY <2>1, <2>2, <2>3, <2>4, <2>5, <2>6
<1>9. TablesOk'
  <2> SUFFICES ASSUME NEW q \in Procs
               PROVE  /\ q \notin alive' \cup lost => fd_array'[q] = Closed /\ pwd'[q] = NULL
                      /\ reading[q] # NULL => q \in alive' /\ fd_array'[q][reading[q]].status = "FD_OPENED"
    BY <1>2 DEF TablesOk, IsOpen
  <2> QED BY <1>1, <1>2, <1>4, <1>5 DEF TablesOk, IsOpen
<1> QED BY <1>1, <1>3, <1>8, <1>9, PanicKept DEF IInv

(* files_closeall: the descriptors of U hold nothing after it.              *)
LEMMA HeldKept ==
    ASSUME NEW p, NEW U, U \subseteq Fds, NEW kept, NEW n \in Nodes,
           \A x \in Fds : kept[x] = IF x \in U THEN NoFile ELSE fd_array[p][x]
    PROVE  Cardinality(Held(kept, n)) = Cardinality(Held(fd_array[p], n)) - Opens(p, U)[n]
<1> DEFINE t == Held(fd_array[p], n)
           closed == {fd \in U : fd_array[p][fd].node = n}
<1>1. NoFile.node # n
  BY FilesAssumption DEF FilesAssumption, NoFile
<1>2. Held(kept, n) = t \ closed
  <2>1. \A x \in Fds : kept[x].node = n <=> x \notin U /\ fd_array[p][x].node = n
    BY <1>1
  <2> QED BY <2>1 DEF Held
<1>3. t \cap closed = closed
  BY DEF Held
<1>4. IsFiniteSet(t)
  BY HeldFinite
<1>5. Cardinality(t \ closed) = Cardinality(t) - Cardinality(t \cap closed)
  BY <1>4, FS_Difference
<1>6. Opens(p, U)[n] = Cardinality(closed)
  BY DEF Opens
<1> QED BY <1>2, <1>3, <1>5, <1>6

LEMMA OpensType ==
    ASSUME NEW p, NEW U, U \subseteq Fds
    PROVE  Opens(p, U) \in [Nodes -> Int]
<1> SUFFICES ASSUME NEW n \in Nodes
             PROVE  Cardinality({fd \in U : fd_array[p][fd].node = n}) \in Int
  BY DEF Opens
<1>1. {fd \in U : fd_array[p][fd].node = n} \in SUBSET Fds
  OBVIOUS
<1>2. IsFiniteSet({fd \in U : fd_array[p][fd].node = n})
  BY <1>1, FdsFinite, FS_Subset
<1> QED BY <1>2, FS_CardinalityType

LEMMA ExecStep ==
    ASSUME IInv, NEW p \in Procs, NEW n \in RegFiles, Exec(p, n)
    PROVE  IInv'
<1> DEFINE U == Upper(p)
           kept == [fd \in Fds |-> IF fd \in U THEN NoFile ELSE fd_array[p][fd]]
           free == {fd \in Fds : kept[fd] = NoFile}
           m == Min(free)
<1>1. FilesTypeOK /\ RefsExact /\ TablesOk /\ NoAssertionFails
  BY DEF IInv, RefsExact
<1>2. /\ Runs(p) /\ p \in alive /\ reading[p] = NULL /\ free # {}
      /\ fd_array' = [fd_array EXCEPT ![p] = [kept EXCEPT ![m] = Opened(n)]]
      /\ Count(One(n), Opens(p, U), One(n), Opens(p, U)) /\ Checked
      /\ \/ UNCHANGED <<alive, lost>>
         \/ alive' = alive \ {p} /\ lost' = lost \cup {p}
      /\ UNCHANGED <<pwd, reading, leaked>>
  BY DEF Exec, At, Runs
<1>3. m \in Fds /\ kept[m] = NoFile
  <2>1. free \subseteq Fds
    OBVIOUS
  <2>2. m \in free
    BY <1>2, <2>1, MinOf
  <2> QED BY <2>2
<1>4. U \subseteq Fds /\ n \in Nodes
  BY DEF Upper, Nodes, Sfs
<1>5. kept \in [Fds -> File] /\ \A x \in Fds : kept[x] = IF x \in U THEN NoFile ELSE fd_array[p][x]
  BY <1>1, FileTypes DEF FilesTypeOK
<1> HIDE DEF m, free, kept, U
<1>6. /\ fd_array' \in [Procs -> [Fds -> File]]
      /\ fd_array'[p][m] = Opened(n)
      /\ \A x \in Fds : x # m => fd_array'[p][x] = kept[x]
      /\ \A q \in Procs : q # p => fd_array'[q] = fd_array[q]
  <2>1. Opened(n) \in File
    BY <1>4, FileTypes
  <2>2. [kept EXCEPT ![m] = Opened(n)] \in [Fds -> File]
    BY <2>1, <1>3, <1>5
  <2> QED BY <2>2, <1>1, <1>2, <1>3, <1>5 DEF FilesTypeOK
<1>7. /\ ref_count' \in [Nodes -> Int] /\ open_count' \in [Nodes -> Int]
      /\ \A k \in Nodes : /\ ref_count'[k] = ref_count[k] + One(n)[k] - Opens(p, U)[k]
                          /\ open_count'[k] = open_count[k] + One(n)[k] - Opens(p, U)[k]
  <2>1. One(n) \in [Nodes -> Int] /\ Opens(p, U) \in [Nodes -> Int]
    BY <1>4, OneType, OpensType
  <2>2. Count(One(n), Opens(p, U), One(n), Opens(p, U))
    BY <1>2
  <2> QED BY <1>1, <2>1, <2>2, Counted
<1>8. FilesTypeOK'
  <2>1. ASSUME NEW q \in Procs, NEW x \in Fds
        PROVE  LET g == fd_array'[q][x] IN
               g = NoFile \/ /\ g.status = "FD_OPENED" /\ g.node \in Nodes
                             /\ g.open_count = IF reading'[q] = x THEN 2 ELSE 1
    <3>0. reading'[q] = reading[q]
      BY <1>2
    <3>1. CASE q = p /\ x = m
      <4>1. fd_array'[q][x] = Opened(n) /\ reading'[q] # x
        BY <3>0, <3>1, <1>2, <1>6, FilesAssumption DEF FilesAssumption
      <4> QED BY <4>1, <1>4 DEF Opened
    <3>2. CASE q = p /\ x # m
      <4>1. fd_array'[q][x] = NoFile \/ fd_array'[q][x] = fd_array[q][x]
        BY <3>2, <1>5, <1>6
      <4> QED BY <4>1, <3>0, <1>1 DEF FilesTypeOK
    <3>3. CASE q # p
      <4>1. fd_array'[q][x] = fd_array[q][x]
        BY <3>3, <1>6
      <4> QED BY <4>1, <3>0, <1>1 DEF FilesTypeOK
    <3> QED BY <3>1, <3>2, <3>3
  <2>2. panic' \in {"no", "count", "vop", "fd"}
    BY <1>1, <1>2, PanicType
  <2>3. alive' \subseteq Procs /\ lost' \subseteq Procs \ alive'
    BY <1>1, <1>2 DEF FilesTypeOK
  <2> QED BY <2>1, <2>2, <2>3, <1>1, <1>2, <1>6, <1>7 DEF FilesTypeOK
<1>9. ASSUME NEW k \in Nodes
      PROVE  Cardinality(Held(fd_array'[p], k)) =
                Cardinality(Held(fd_array[p], k)) - Opens(p, U)[k] + Unit(n, k)
  <2>1. Cardinality(Held(kept, k)) = Cardinality(Held(fd_array[p], k)) - Opens(p, U)[k]
    BY <1>4, <1>5, HeldKept
  <2> DEFINE t2 == fd_array'[p]
  <2>2. Replaced(kept, t2, m, NULL, n)
    <3>1. kept[m].node = NULL /\ t2[m].node = n
      BY <1>3, <1>6 DEF NoFile, Opened
    <3> QED BY <3>1, <1>3, <1>6 DEF Replaced
  <2> HIDE DEF t2
  <2>3. Cardinality(Held(t2, k)) = Cardinality(Held(kept, k)) - Unit(NULL, k) + Unit(n, k)
    BY <2>2, HeldExcept
  <2>4. Unit(NULL, k) = 0
    BY FilesAssumption DEF FilesAssumption, Unit
  <2>5. Unit(n, k) \in {0, 1} /\ Cardinality(Held(kept, k)) \in Nat
    BY UnitType, HeldFinite
  <2>6. Cardinality(Held(t2, k)) = Cardinality(Held(kept, k)) + Unit(n, k)
    BY <2>3, <2>4, <2>5
  <2> QED BY <2>1, <2>6 DEF t2
<1>10. RefsExact'
  <2> SUFFICES ASSUME NEW k \in Nodes
               PROVE  /\ ref_count'[k] = ref_count[k] + leaked'[k] - leaked[k]
                                           - Cardinality(Held(fd_array[p], k))
                                           + Cardinality(Held(fd_array'[p], k))
                                           - Unit(pwd[p], k) + Unit(pwd'[p], k)
                      /\ open_count'[k] = open_count[k] - Cardinality(Held(fd_array[p], k))
                                            + Cardinality(Held(fd_array'[p], k))
    BY <1>1, <1>2, <1>6, <1>8, Recount DEF Recounted
  <2>1. /\ One(n)[k] = Unit(n, k) /\ Unit(n, k) \in {0, 1} /\ Unit(pwd[p], k) \in {0, 1}
        /\ Opens(p, U)[k] \in Int
    BY <1>4, OneUnit, UnitType, OpensType
  <2>2. ref_count[k] \in Int /\ open_count[k] \in Int /\ leaked[k] \in Nat
    BY <1>1, CountTypes
  <2>3. Cardinality(Held(fd_array[p], k)) \in Nat
    BY HeldFinite
  <2>4. pwd' = pwd /\ leaked' = leaked
    BY <1>2
  <2>5. /\ ref_count'[k] = ref_count[k] + One(n)[k] - Opens(p, U)[k]
        /\ open_count'[k] = open_count[k] + One(n)[k] - Opens(p, U)[k]
    BY <1>7
  <2>6. Cardinality(Held(fd_array'[p], k)) =
           Cardinality(Held(fd_array[p], k)) - Opens(p, U)[k] + Unit(n, k)
    BY <1>9
  <2> QED BY <2>1, <2>2, <2>3, <2>4, <2>5, <2>6
<1>11. TablesOk'
  <2> SUFFICES ASSUME NEW q \in Procs
               PROVE  /\ q \notin alive' \cup lost' => fd_array'[q] = Closed /\ pwd[q] = NULL
                      /\ reading[q] # NULL => q \in alive' /\ fd_array'[q][reading[q]].status = "FD_OPENED"
    BY <1>2 DEF TablesOk, IsOpen
  <2>1. CASE q = p
    BY <2>1, <1>2
  <2>2. CASE q # p
    BY <2>2, <1>1, <1>2, <1>6 DEF TablesOk, IsOpen
  <2> QED BY <2>1, <2>2
<1> QED BY <1>1, <1>2, <1>10, <1>11, PanicKept DEF IInv

-----------------------------------------------------------------------------
(* The theorems.                                                            *)

(* vfs_set_bootfs leaves the root with two references.                      *)
LEMMA InitInv == Init => IInv
<1> SUFFICES ASSUME Init PROVE IInv
  OBVIOUS
<1>1. FilesTypeOK
  BY FilesAssumption, FileTypes DEF FilesAssumption, Init, FilesTypeOK, Closed, Nodes, Sfs
<1>2. RefsExact
  <2> SUFFICES ASSUME NEW n \in Nodes
               PROVE  /\ ref_count[n] = Base(n) + leaked[n] + Cardinality(Users(n)) + Cardinality(CwdOf(n))
                      /\ open_count[n] = Cardinality(Users(n))
    BY <1>1 DEF RefsExact
  <2>1. n # NULL /\ root # NULL /\ root # stdin /\ initproc \in Procs
    BY FilesAssumption DEF FilesAssumption, Nodes, Sfs
  <2>2. Users(n) = {}
    BY <2>1 DEF Init, Users, Closed, NoFile
  <2>3. Cardinality(Users(n)) = 0
    BY <2>2, FS_EmptySet
  <2>4. CwdOf(n) = IF n = root THEN {initproc} ELSE {}
    BY <2>1 DEF Init, CwdOf
  <2>5. Cardinality(CwdOf(n)) = IF n = root THEN 1 ELSE 0
    BY <2>4, FS_EmptySet, FS_Singleton
  <2> QED BY <2>1, <2>3, <2>5 DEF Init, Base
<1>3. TablesOk
  BY DEF Init, TablesOk
<1> QED BY <1>2, <1>3 DEF IInv, NoAssertionFails, Init

LEMMA NextInv == IInv /\ [Next]_vars => IInv'
<1> SUFFICES ASSUME IInv, [Next]_vars PROVE IInv'
  OBVIOUS
<1>1. CASE UNCHANGED vars
  <2>1. \A n : Users(n)' = Users(n) /\ CwdOf(n)' = CwdOf(n)
    BY <1>1 DEF vars, Users, CwdOf
  <2>2. RefsExact'
    BY <1>1, <2>1 DEF vars, IInv, RefsExact, FilesTypeOK, Base
  <2> QED BY <1>1, <2>2 DEF vars, IInv, NoAssertionFails, TablesOk, IsOpen
<1>2. CASE Halted
  BY <1>1, <1>2 DEF Halted
<1>3. CASE \E p \in Procs : Call(p)
  <2> PICK p \in Procs : Call(p)
    BY <1>3
  <2>1. ASSUME NEW n \in Nodes, NEW flags \in OpenFlags, Open(p, n, flags) PROVE IInv'
    BY <2>1, OpenStep
  <2>2. ASSUME NEW n \in Nodes, NEW flags \in OpenFlags, OpenExists(p, n, flags) PROVE IInv'
    BY <2>2, OpenExistsStep
  <2>3. ASSUME NEW flags \in OpenFlags, OpenUnimplemented(p, flags) PROVE IInv'
    BY <2>3, OpenUnimplementedStep
  <2>4. ASSUME NEW fd \in Fds, Close(p, fd) PROVE IInv'
    BY <2>4, CloseStep
  <2>5. ASSUME NEW fd \in Fds, ReadBlock(p, fd) PROVE IInv'
    BY <2>5, ReadBlockStep
  <2>6. ASSUME NEW fd \in Fds, NEW fd2 \in Fds, Dup(p, fd, fd2) PROVE IInv'
    BY <2>6, DupStep
  <2>7. CASE ReadReturn(p)
    BY <2>7, ReadReturnStep
  <2>8. ASSUME NEW n \in Dirs, Chdir(p, n) PROVE IInv'
    BY <2>8, ChdirStep
  <2>9. ASSUME NEW c \in Procs, Fork(p, c) PROVE IInv'
    BY <2>9, ForkStep
  <2>10. ASSUME NEW n \in RegFiles, Exec(p, n) PROVE IInv'
    BY <2>10, ExecStep
  <2>11. CASE Exit(p)
    BY <2>11, ExitStep
  <2>12. ASSUME NEW n \in Nodes, NEW flags \in OpenFlags, OpenRejected(p, n, flags) PROVE IInv'
    BY <2>12, GivesBackStep DEF OpenRejected
  <2>13. ASSUME NEW n \in Nodes, ChdirStays(p, n) PROVE IInv'
    BY <2>13, GivesBackStep DEF ChdirStays
  <2> QED BY <2>1, <2>2, <2>3, <2>4, <2>5, <2>6, <2>7, <2>8, <2>9, <2>10, <2>11, <2>12,
             <2>13 DEF Call
<1> QED BY <1>1, <1>2, <1>3 DEF Next

(* The invariant: exact counts, no failed assertion, and tables in use by   *)
(* those who may have them.                                                 *)
THEOREM FilesCorrect == Spec => []IInv
<1> QED BY InitInv, NextInv, PTL DEF Spec

(* open, dup, close, fork, exec, exit, chdir and reads, by any processes in *)
(* any order, count every inode exactly (vop_ref_inc, vop_open_inc), for    *)
(* any number of inodes and any size of a table.                            *)
THEOREM CountsExact == Spec => []RefsExact
<1>1. IInv => RefsExact
  BY DEF IInv
<1> QED BY <1>1, FilesCorrect, PTL

(* inode_ref_dec, inode_open_dec and inode_kill never find a count that is  *)
(* wrong, and files_destroy no descriptor that is still in use.             *)
THEOREM AssertionsHold == Spec => []NoAssertionFails
<1>1. IInv => NoAssertionFails
  BY DEF IInv
<1> QED BY <1>1, FilesCorrect, PTL

=============================================================================
