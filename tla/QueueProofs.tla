---------------------------- MODULE QueueProofs ----------------------------
(***************************************************************************)
(* The kernel's linked lists as sequences without repetitions: what        *)
(* list_add_before at the tail, taking the head and list_del do to them.   *)
(* The proofs about the run queue, the wait queues, the process list and   *)
(* the timer list rest on these lemmas.                                    *)
(***************************************************************************)
EXTENDS Wait, Integers, SequenceTheorems, FiniteSetTheorems, WellFoundedInduction, TLAPS

NoRepeat(q) == \A i, j \in DOMAIN q : q[i] = q[j] => i = j

-----------------------------------------------------------------------------
(* Sequences without repetitions.                                           *)

(* Enqueueing an element that is not in a queue keeps it free of            *)
(* repetitions and adds just that element (RR_enqueue).                     *)
LEMMA AppendQueue ==
    ASSUME NEW S, NEW q \in Seq(S), NEW x \in S
    PROVE  /\ Append(q, x) \in Seq(S)
           /\ Append(q, x) # <<>>
           /\ ToSet(Append(q, x)) = ToSet(q) \cup {x}
           /\ NoRepeat(q) /\ x \notin ToSet(q) => NoRepeat(Append(q, x))
<1>1. /\ Append(q, x) \in Seq(S)
      /\ Len(Append(q, x)) = Len(q) + 1
      /\ \A i \in 1..Len(q) : Append(q, x)[i] = q[i]
      /\ Append(q, x)[Len(q) + 1] = x
      /\ Len(q) \in Nat
  OBVIOUS
<1>2. DOMAIN q = 1..Len(q) /\ DOMAIN Append(q, x) = 1..(Len(q) + 1)
  BY <1>1
<1>3. Append(q, x) # <<>>
  BY <1>1
<1>4. ToSet(Append(q, x)) = ToSet(q) \cup {x}
  <2>1. \A i \in 1..(Len(q) + 1) : i \in 1..Len(q) \/ i = Len(q) + 1
    BY <1>1
  <2>2. 1..Len(q) \subseteq 1..(Len(q) + 1) /\ Len(q) + 1 \in 1..(Len(q) + 1)
    BY <1>1
  <2> QED BY <1>1, <1>2, <2>1, <2>2 DEF ToSet
<1>5. NoRepeat(q) /\ x \notin ToSet(q) => NoRepeat(Append(q, x))
  BY <1>1, <1>2 DEF NoRepeat, ToSet
<1> QED BY <1>1, <1>3, <1>4, <1>5

(* Taking the head off a queue without repetitions removes just that        *)
(* element (RR_pick_next and RR_dequeue).                                   *)
LEMMA TailQueue ==
    ASSUME NEW S, NEW q \in Seq(S), q # <<>>, NoRepeat(q)
    PROVE  /\ Tail(q) \in Seq(S)
           /\ Head(q) \in ToSet(q) /\ Head(q) \in S
           /\ ToSet(Tail(q)) = ToSet(q) \ {Head(q)}
           /\ NoRepeat(Tail(q))
<1>1. /\ Tail(q) \in Seq(S)
      /\ Len(q) \in Nat \ {0}
      /\ Len(Tail(q)) = Len(q) - 1
      /\ \A i \in 1..(Len(q) - 1) : Tail(q)[i] = q[i + 1]
      /\ Head(q) = q[1]
      /\ \A i \in 1..Len(q) : q[i] \in S
  OBVIOUS
<1>2. DOMAIN q = 1..Len(q) /\ DOMAIN Tail(q) = 1..(Len(q) - 1)
  BY <1>1
<1>3. Head(q) \in ToSet(q) /\ Head(q) \in S
  BY <1>1, <1>2 DEF ToSet
<1>4. ToSet(Tail(q)) = ToSet(q) \ {Head(q)}
  <2>1. ASSUME NEW y \in ToSet(Tail(q)) PROVE y \in ToSet(q) /\ y # Head(q)
    <3>1. PICK i \in 1..(Len(q) - 1) : y = q[i + 1]
      BY <1>1, <1>2 DEF ToSet
    <3>2. i + 1 \in 1..Len(q) /\ i + 1 # 1 /\ 1 \in 1..Len(q)
      BY <1>1
    <3> QED BY <3>1, <3>2, <1>1, <1>2 DEF ToSet, NoRepeat
  <2>2. ASSUME NEW y \in ToSet(q), y # Head(q) PROVE y \in ToSet(Tail(q))
    <3>1. PICK i \in 1..Len(q) : y = q[i]
      BY <1>2 DEF ToSet
    <3>2. i - 1 \in 1..(Len(q) - 1) /\ (i - 1) + 1 = i
      BY <3>1, <2>2, <1>1
    <3> QED BY <3>1, <3>2, <1>1, <1>2 DEF ToSet
  <2> QED BY <2>1, <2>2
<1>5. NoRepeat(Tail(q))
  <2> SUFFICES ASSUME NEW i \in 1..(Len(q) - 1), NEW j \in 1..(Len(q) - 1),
                      q[i + 1] = q[j + 1]
               PROVE  i = j
    BY <1>1, <1>2 DEF NoRepeat
  <2>1. i + 1 \in 1..Len(q) /\ j + 1 \in 1..Len(q)
    BY <1>1
  <2>2. i + 1 = j + 1
    BY <2>1, <1>2 DEF NoRepeat
  <2> QED BY <2>2
<1> QED BY <1>1, <1>3, <1>4, <1>5

(* A turn of the run queue, as schedule() takes it: the process c that runs *)
(* goes to the tail of r if it can still run (idle, which is never queued,  *)
(* does not), and the head h of the queue q so made is taken off, which     *)
(* leaves t.  R is the set of those that can run.                           *)
QueueTurn(S, idle, R, c, r, q, h, t) ==
    /\ idle \notin S /\ idle \in R /\ c \in S \cup {idle}
    /\ r \in Seq(S) /\ NoRepeat(r)
    /\ \A p \in S : p \in ToSet(r) <=> p \in R /\ p # c
    /\ q = (IF c \in R /\ c # idle THEN Append(r, c) ELSE r)
    /\ h = (IF q = <<>> THEN idle ELSE Head(q))
    /\ t = (IF q = <<>> THEN q ELSE Tail(q))

LEMMA TurnQueue ==
    ASSUME NEW S, NEW idle, NEW R, NEW c, NEW r, NEW q, NEW h, NEW t,
           QueueTurn(S, idle, R, c, r, q, h, t)
    PROVE  /\ h \in S \cup {idle} /\ h \in R
           /\ t \in Seq(S) /\ NoRepeat(t)
           /\ \A p \in S : p \in ToSet(t) <=> p \in R /\ p # h
           /\ c \in R /\ c # idle => c \notin ToSet(r)
<1> USE DEF QueueTurn
<1>1. /\ q \in Seq(S) /\ NoRepeat(q)
      /\ \A p \in S : p \in ToSet(q) <=> p \in R
  <2>1. CASE c \in R /\ c # idle
    <3>1. c \in S /\ c \notin ToSet(r) /\ q = Append(r, c)
      BY <2>1
    <3>2. /\ Append(r, c) \in Seq(S)
          /\ ToSet(Append(r, c)) = ToSet(r) \cup {c}
          /\ NoRepeat(Append(r, c))
      BY <3>1, AppendQueue
    <3> QED BY <3>1, <3>2, <2>1
  <2>2. CASE ~(c \in R /\ c # idle)
    <3>1. q = r
      BY <2>2
    <3> QED BY <3>1, <2>2
  <2> QED BY <2>1, <2>2
<1>2. CASE q = <<>>
  <2>1. ToSet(q) = {} /\ h = idle /\ t = q
    BY <1>2 DEF ToSet
  <2> QED BY <2>1, <1>1
<1>3. CASE q # <<>>
  <2>1. /\ Tail(q) \in Seq(S) /\ Head(q) \in ToSet(q) /\ Head(q) \in S
        /\ ToSet(Tail(q)) = ToSet(q) \ {Head(q)} /\ NoRepeat(Tail(q))
    BY <1>3, <1>1, TailQueue
  <2> QED BY <2>1, <1>1, <1>3
<1> QED BY <1>2, <1>3

-----------------------------------------------------------------------------
(* What RemoveAt returns: the elements behind the one removed move up.      *)
LEMMA RemoveAtElements ==
    ASSUME NEW S, NEW s \in Seq(S), NEW i \in 1..Len(s)
    PROVE  /\ RemoveAt(s, i) \in Seq(S)
           /\ Len(RemoveAt(s, i)) = Len(s) - 1
           /\ \A j \in 1..(Len(s) - 1) :
                 RemoveAt(s, i)[j] = IF j < i THEN s[j] ELSE s[j + 1]
<1> DEFINE front == SubSeq(s, 1, i - 1)
           back  == SubSeq(s, i + 1, Len(s))
<1>1. Len(s) \in Nat /\ \A j \in 1..Len(s) : s[j] \in S
  OBVIOUS
<1>2. /\ front \in Seq(S) /\ Len(front) = i - 1
      /\ \A j \in 1..(i - 1) : front[j] = s[j]
  BY <1>1, SubSeqProperties
<1>3. /\ back \in Seq(S) /\ Len(back) = Len(s) - i
      /\ \A j \in 1..(Len(s) - i) : back[j] = s[i + j]
  BY <1>1, SubSeqProperties
<1>4. /\ front \o back \in Seq(S)
      /\ Len(front \o back) = Len(front) + Len(back)
      /\ \A j \in 1..(Len(front) + Len(back)) :
            (front \o back)[j] = IF j <= Len(front) THEN front[j] ELSE back[j - Len(front)]
  BY <1>2, <1>3, ConcatProperties
<1> HIDE DEF front, back
<1>5. \A j \in 1..(Len(s) - 1) : (front \o back)[j] = IF j < i THEN s[j] ELSE s[j + 1]
  <2> SUFFICES ASSUME NEW j \in 1..(Len(s) - 1)
               PROVE  (front \o back)[j] = IF j < i THEN s[j] ELSE s[j + 1]
    OBVIOUS
  <2>1. j \in 1..(Len(front) + Len(back)) /\ (j <= Len(front) <=> j < i)
    BY <1>1, <1>2, <1>3
  <2>2. CASE j < i
    BY <1>2, <1>4, <2>1, <2>2
  <2>3. CASE ~(j < i)
    <3>1. (front \o back)[j] = back[j - (i - 1)]
      BY <1>2, <1>4, <2>1, <2>3
    <3>2. j - (i - 1) \in 1..(Len(s) - i) /\ i + (j - (i - 1)) = j + 1
      BY <1>1, <2>3
    <3> QED BY <1>3, <2>3, <3>1, <3>2
  <2> QED BY <2>2, <2>3
<1>6. Len(front \o back) = Len(s) - 1
  BY <1>1, <1>2, <1>3, <1>4
<1> QED BY <1>4, <1>5, <1>6 DEF RemoveAt, front, back

(* What InsertAt returns: the elements from position i on move down.        *)
LEMMA InsertAtElements ==
    ASSUME NEW S, NEW s \in Seq(S), NEW i \in 1..(Len(s) + 1), NEW x \in S
    PROVE  /\ InsertAt(s, i, x) \in Seq(S)
           /\ Len(InsertAt(s, i, x)) = Len(s) + 1
           /\ \A j \in 1..(Len(s) + 1) :
                 InsertAt(s, i, x)[j] =
                    IF j < i THEN s[j] ELSE IF j = i THEN x ELSE s[j - 1]
<1> DEFINE front == SubSeq(s, 1, i - 1)
           back  == SubSeq(s, i, Len(s))
           left  == front \o <<x>>
<1>1. Len(s) \in Nat /\ \A j \in 1..Len(s) : s[j] \in S
  OBVIOUS
<1>2. /\ front \in Seq(S) /\ Len(front) = i - 1
      /\ \A j \in 1..(i - 1) : front[j] = s[j]
  BY <1>1, SubSeqProperties
<1>3. /\ back \in Seq(S) /\ Len(back) = Len(s) - i + 1
      /\ \A j \in 1..(Len(s) - i + 1) : back[j] = s[i + j - 1]
  BY <1>1, SubSeqProperties
<1>4. /\ left \in Seq(S) /\ Len(left) = i
      /\ \A j \in 1..(i - 1) : left[j] = front[j]
      /\ left[i] = x
  <2>1. <<x>> \in Seq(S) /\ Len(<<x>>) = 1 /\ <<x>>[1] = x
    OBVIOUS
  <2>2. /\ left \in Seq(S) /\ Len(left) = Len(front) + 1
        /\ \A j \in 1..(Len(front) + 1) :
              left[j] = IF j <= Len(front) THEN front[j] ELSE <<x>>[j - Len(front)]
    BY <1>2, <2>1, ConcatProperties
  <2> HIDE DEF front, left
  <2>3. i \in 1..(Len(front) + 1) /\ ~(i <= Len(front)) /\ i - Len(front) = 1
    BY <1>2
  <2>4. left \in Seq(S) /\ Len(left) = i
    BY <1>2, <2>2
  <2>5. \A j \in 1..(i - 1) : j \in 1..(Len(front) + 1) /\ j <= Len(front)
    BY <1>2
  <2>6. \A j \in 1..(i - 1) : left[j] = front[j]
    BY <2>2, <2>5
  <2>7. left[i] = x
    BY <2>1, <2>2, <2>3
  <2> QED BY <2>4, <2>6, <2>7
<1>5. InsertAt(s, i, x) = left \o back
  BY DEF InsertAt
<1> HIDE DEF front, back, left
<1>6. /\ left \o back \in Seq(S)
      /\ Len(left \o back) = Len(left) + Len(back)
      /\ \A j \in 1..(Len(left) + Len(back)) :
            (left \o back)[j] = IF j <= Len(left) THEN left[j] ELSE back[j - Len(left)]
  BY <1>3, <1>4, ConcatProperties
<1>7. ASSUME NEW j \in 1..(Len(s) + 1)
      PROVE  (left \o back)[j] = IF j < i THEN s[j] ELSE IF j = i THEN x ELSE s[j - 1]
  <2>1. j \in 1..(Len(left) + Len(back)) /\ (j <= Len(left) <=> j <= i)
    BY <1>1, <1>3, <1>4
  <2>2. CASE j < i
    BY <1>2, <1>4, <1>6, <2>1, <2>2
  <2>3. CASE j = i
    BY <1>4, <1>6, <2>1, <2>3
  <2>4. CASE j > i
    <3>1. (left \o back)[j] = back[j - i]
      BY <1>4, <1>6, <2>1, <2>4
    <3>2. j - i \in 1..(Len(s) - i + 1) /\ i + (j - i) - 1 = j - 1
      BY <1>1, <2>4
    <3> QED BY <1>3, <2>4, <3>1, <3>2
  <2>5. j < i \/ j = i \/ j > i
    BY <1>1
  <2> QED BY <2>2, <2>3, <2>4, <2>5
<1>8. Len(left \o back) = Len(s) + 1
  BY <1>1, <1>3, <1>4, <1>6
<1> QED BY <1>5, <1>6, <1>7, <1>8

(* wait_current_del takes just the one element out, whether or not it is    *)
(* still there.                                                             *)
LEMMA WaitDelQueue ==
    ASSUME NEW S, NEW q \in Seq(S), NEW p, NoRepeat(q)
    PROVE  /\ wait_current_del(q, p) \in Seq(S)
           /\ ToSet(wait_current_del(q, p)) = ToSet(q) \ {p}
           /\ NoRepeat(wait_current_del(q, p))
<1>1. CASE p \notin ToSet(q)
  BY <1>1 DEF wait_current_del
<1>2. CASE p \in ToSet(q)
  <2> DEFINE i == CHOOSE j \in DOMAIN q : q[j] = p
             r == RemoveAt(q, i)
             n == Len(q)
  <2>1. n \in Nat /\ DOMAIN q = 1..n
    OBVIOUS
  <2>2. i \in 1..n /\ q[i] = p
    BY <1>2, <2>1 DEF ToSet
  <2> HIDE DEF i
  <2>3. /\ r \in Seq(S) /\ Len(r) = n - 1
        /\ \A j \in 1..(n - 1) : r[j] = IF j < i THEN q[j] ELSE q[j + 1]
    BY <2>1, <2>2, RemoveAtElements
  <2>4. wait_current_del(q, p) = r
    BY <1>2 DEF wait_current_del, i
  <2> DEFINE From(j) == IF j < i THEN j ELSE j + 1
  <2>5. \A j \in 1..(n - 1) : From(j) \in 1..n /\ From(j) # i /\ r[j] = q[From(j)]
    BY <2>1, <2>2, <2>3
  <2> HIDE DEF r
  <2>6. DOMAIN r = 1..(n - 1)
    BY <2>1, <2>2, <2>3
  <2>7. \A j, k \in 1..(n - 1) : From(j) = From(k) => j = k
    BY <2>1, <2>2
  <2>8. \A k \in 1..n : k # i => \E j \in 1..(n - 1) : From(j) = k
    <3> SUFFICES ASSUME NEW k \in 1..n, k # i
                 PROVE  \E j \in 1..(n - 1) : From(j) = k
      OBVIOUS
    <3>1. CASE k < i
      <4>1. k \in 1..(n - 1) /\ From(k) = k
        BY <3>1, <2>1, <2>2
      <4> QED BY <4>1
    <3>2. CASE k > i
      <4>1. k - 1 \in 1..(n - 1) /\ From(k - 1) = k
        BY <3>2, <2>1, <2>2
      <4> QED BY <4>1
    <3> QED BY <3>1, <3>2, <2>1, <2>2
  <2> HIDE DEF From
  <2>9. NoRepeat(r)
    BY <2>1, <2>5, <2>6, <2>7 DEF NoRepeat
  <2>10. ToSet(r) = ToSet(q) \ {p}
    <3>1. ASSUME NEW x \in ToSet(r) PROVE x \in ToSet(q) /\ x # p
      <4>1. PICK j \in 1..(n - 1) : x = q[From(j)] /\ From(j) \in 1..n /\ From(j) # i
        BY <2>5, <2>6 DEF ToSet
      <4> QED BY <4>1, <2>1, <2>2 DEF ToSet, NoRepeat
    <3>2. ASSUME NEW x \in ToSet(q), x # p PROVE x \in ToSet(r)
      <4>1. PICK k \in 1..n : x = q[k] /\ k # i
        BY <3>2, <2>1, <2>2 DEF ToSet
      <4>2. PICK j \in 1..(n - 1) : From(j) = k
        BY <4>1, <2>8
      <4> QED BY <4>1, <4>2, <2>5, <2>6 DEF ToSet
    <3> QED BY <3>1, <3>2
  <2> QED BY <2>3, <2>4, <2>9, <2>10
<1> QED BY <1>1, <1>2

(* A sequence of SetToSeqs has each element of the set once.                *)
LEMMA SetToSeqsQueue ==
    ASSUME NEW S, IsFiniteSet(S), NEW q \in SetToSeqs(S)
    PROVE  q \in Seq(S) /\ NoRepeat(q) /\ ToSet(q) = S
<1> DEFINE n == Cardinality(S)
<1>1. n \in Nat
  BY FS_CardinalityType
<1>2. q \in [1..n -> S] /\ \A i, j \in 1..n : i # j => q[i] # q[j]
  BY DEF SetToSeqs
<1>3. IsFiniteSet(1..n) /\ Cardinality(1..n) = n
  BY <1>1, FS_Interval
<1>4. q \in Injection(1..n, S)
  BY <1>2 DEF Injection, IsInjective
<1> HIDE DEF n
<1>5. q \in Surjection(1..n, S)
  BY <1>3, <1>4, FS_Injection DEF n
<1>6. q \in Seq(S) /\ DOMAIN q = 1..n
  BY <1>1, <1>2
<1>7. ToSet(q) = S
  BY <1>2, <1>5, <1>6 DEF ToSet, Surjection
<1> QED BY <1>2, <1>6, <1>7 DEF NoRepeat

-----------------------------------------------------------------------------
(* Induction on the naturals, for a set instead of a predicate.             *)

LEMMA LeastNat ==
    ASSUME NEW T, T \subseteq Nat, T # {}
    PROVE  \E n \in T : \A k \in T : n <= k
<1> DEFINE R == OpToRel(<, Nat)
<1>1. IsWellFoundedOn(R, Nat)
  BY NatLessThanWellFounded, Zenon
<1>2. \A k, n \in Nat : k < n => <<k, n>> \in R
  BY DEF OpToRel
<1> HIDE DEF R
<1>3. PICK n \in T : \A k \in T : ~(<<k, n>> \in R)
  BY <1>1, WFMin
<1>4. \A k \in T : k \in Nat
  OBVIOUS
<1>5. ASSUME NEW k \in T PROVE n <= k
  <2>1. k \in Nat /\ n \in Nat /\ ~(k < n)
    BY <1>2, <1>3, <1>4
  <2> QED BY <2>1
<1> QED BY <1>5

LEMMA SetInduction ==
    ASSUME NEW T, 0 \in T, \A n \in Nat : n \in T => n + 1 \in T
    PROVE  Nat \subseteq T
<1> SUFFICES ASSUME NEW n \in Nat, n \notin T PROVE FALSE
  OBVIOUS
<1>1. PICK m \in Nat \ T : \A k \in Nat \ T : m <= k
  BY LeastNat
<1>2. m # 0 /\ m - 1 \in Nat
  BY <1>1
<1>3. m - 1 \in T
  BY <1>1, <1>2
<1> QED BY <1>1, <1>2, <1>3

-----------------------------------------------------------------------------
(* Division with remainder, and what it says of the cells of the ring: two  *)
(* positions less than a round apart have different cells, two a round      *)
(* apart the same.                                                          *)
LEMMA DivMod ==
    ASSUME NEW B \in Nat \ {0}, NEW i \in Nat
    PROVE  /\ i \div B \in Nat /\ i % B \in 0..(B - 1)
           /\ i = B * (i \div B) + (i % B)
OBVIOUS

LEMMA Multiple ==
    ASSUME NEW B \in Nat \ {0}, NEW k \in Int
    PROVE  /\ k >= 1 => B * k >= B
           /\ k <= 0 => B * k <= 0
           /\ k <= -1 => B * k <= -B
           /\ B * k \in Int
OBVIOUS

LEMMA Factor ==
    ASSUME NEW B \in Nat \ {0}, NEW k \in Int, NEW l \in Int
    PROVE  B * k - B * l = B * (k - l)
OBVIOUS

LEMMA CellsDiffer ==
    ASSUME NEW B \in Nat \ {0}, NEW i \in Nat, NEW j \in Nat, i < j, j - i < B
    PROVE  i % B # j % B
<1> DEFINE k == (j \div B) - (i \div B)
<1>1. /\ i \div B \in Nat /\ i % B \in 0..(B - 1) /\ i = B * (i \div B) + (i % B)
      /\ j \div B \in Nat /\ j % B \in 0..(B - 1) /\ j = B * (j \div B) + (j % B)
  BY DivMod
<1>2. i % B = j % B => j - i = B * k
  BY <1>1, Factor
<1>3. k \in Int
  BY <1>1
<1> HIDE DEF k
<1>4. j - i # B * k
  BY <1>3, Multiple
<1> QED BY <1>2, <1>4

LEMMA CellsSame ==
    ASSUME NEW B \in Nat \ {0}, NEW i \in Nat
    PROVE  (i + B) % B = i % B
<1> DEFINE j == i + B
           k == (j \div B) - (i \div B)
           r == (i % B) - (j % B)
<1>1. /\ i \div B \in Nat /\ i % B \in 0..(B - 1) /\ i = B * (i \div B) + (i % B)
      /\ j \div B \in Nat /\ j % B \in 0..(B - 1) /\ j = B * (j \div B) + (j % B)
  <2>1. j \in Nat
    OBVIOUS
  <2> HIDE DEF j
  <2> QED BY <2>1, DivMod
<1>2. k \in Int /\ r \in Int /\ r < B /\ r > -B
  BY <1>1
<1>3. B + r = B * k
  BY <1>1, Factor
<1>4. B * (k - 1) = r
  <2>1. B * k - B * 1 = B * (k - 1) /\ B * 1 = B
    BY <1>2, Factor
  <2> HIDE DEF k, r
  <2> QED BY <2>1, <1>2, <1>3
<1>5. r = 0
  <2> DEFINE l == k - 1
  <2>1. l \in Int /\ B * l = r
    BY <1>2, <1>4
  <2> HIDE DEF l, r
  <2> QED BY <2>1, <1>2, Multiple
<1> QED BY <1>5, <1>1

=============================================================================
