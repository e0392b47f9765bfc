----------------------------- MODULE LinkProofs -----------------------------
(***************************************************************************)
(* The linked structures whose order matters: timer_list, whose            *)
(* differences add up, proc_list, on which get_pid looks for a free pid,   *)
(* the skew heap of the stride scheduler, whose merge goes down the right  *)
(* sides of two heaps, and the free list of the page managers.             *)
(*                                                                         *)
(* First the timers: what a timer adds to or deletes from the list changes *)
(* nobody's expiry but its own, for any number of timers and any ticks.    *)
(* Then get_pid, which never hands out a pid in use, for every MAX_PROCESS *)
(* and MAX_PID and every sequence of forks and exits.  Then the heap: the  *)
(* links stay one tree in the order of the strides, and who is picked is   *)
(* who a scheduler with strides that never overflow could pick.  Last the  *)
(* free list: blocks in the order of addresses, none touching the next,    *)
(* and every page in one of them or in use.                                *)
(***************************************************************************)
EXTENDS Timer, Pids, Stride, Heap, QueueProofs

-----------------------------------------------------------------------------
(* The sums that the loop of add_timer subtracts: Sums(q, e)[n] is the sum  *)
(* of the differences e of the first n timers of the list q.                *)
Sums(q, e) ==
    LET sum[n \in Nat] == IF n = 0 THEN 0 ELSE sum[n - 1] + e[q[n]]
    IN  sum

(* g holds the sums of the first n timers.                                  *)
SumsUpTo(q, e, n, g) ==
    g = [i \in 0..n |-> IF i = 0 THEN 0 ELSE g[i - 1] + e[q[i]]]

(* The sums exist up to every position, ...                                 *)
LEMMA SumsUpToExist ==
    ASSUME NEW q, NEW e, NEW n \in Nat
    PROVE  \E g : SumsUpTo(q, e, n, g)
<1> DEFINE T == {i \in Nat : \E g : SumsUpTo(q, e, i, g)}
<1>1. 0 \in T
  <2> DEFINE g == [i \in 0..0 |-> 0]
  <2>1. SumsUpTo(q, e, 0, g)
    BY DEF SumsUpTo
  <2> QED BY <2>1
<1>2. ASSUME NEW i \in Nat, i \in T PROVE i + 1 \in T
  <2>1. PICK g : SumsUpTo(q, e, i, g)
    BY <1>2
  <2> DEFINE h == [j \in 0..(i + 1) |-> IF j = i + 1 THEN g[i] + e[q[i + 1]] ELSE g[j]]
  <2>2. ASSUME NEW j \in 0..(i + 1)
        PROVE  h[j] = IF j = 0 THEN 0 ELSE h[j - 1] + e[q[j]]
    <3>1. CASE j = i + 1
      <4>1. j # 0 /\ j - 1 = i /\ i \in 0..(i + 1) /\ i # i + 1
        BY <3>1
      <4> QED BY <3>1, <4>1
    <3>2. CASE j # i + 1
      <4>1. j \in 0..i /\ h[j] = g[j]
        BY <3>2
      <4>2. g[j] = IF j = 0 THEN 0 ELSE g[j - 1] + e[q[j]]
        BY <2>1, <4>1 DEF SumsUpTo
      <4>3. j # 0 => j - 1 \in 0..(i + 1) /\ j - 1 # i + 1
        BY <4>1
      <4>4. j # 0 => h[j - 1] = g[j - 1]
        BY <4>3
      <4> QED BY <4>1, <4>2, <4>4
    <3> QED BY <3>1, <3>2
  <2>3. SumsUpTo(q, e, i + 1, h)
    BY <2>2 DEF SumsUpTo
  <2> QED BY <2>3
<1>3. Nat \subseteq T
  <2> HIDE DEF T
  <2> QED BY <1>1, <1>2, SetInduction
<1> QED BY <1>3

(* ... agree on the positions they share, ...                               *)
LEMMA SumsUpToAgree ==
    ASSUME NEW q, NEW e, NEW n \in Nat, NEW m \in Nat, n <= m,
           NEW g, SumsUpTo(q, e, n, g), NEW h, SumsUpTo(q, e, m, h)
    PROVE  \A i \in 0..n : g[i] = h[i]
<1> DEFINE T == {i \in Nat : i <= n => g[i] = h[i]}
<1>1. 0 \in T
  <2>1. 0 \in 0..n /\ 0 \in 0..m
    OBVIOUS
  <2> QED BY <2>1 DEF SumsUpTo
<1>2. ASSUME NEW i \in Nat, i \in T PROVE i + 1 \in T
  <2> SUFFICES ASSUME i + 1 <= n PROVE g[i + 1] = h[i + 1]
    OBVIOUS
  <2>1. i <= n /\ i + 1 \in 0..n /\ i + 1 \in 0..m /\ i + 1 # 0 /\ (i + 1) - 1 = i
    OBVIOUS
  <2>2. g[i + 1] = g[i] + e[q[i + 1]]
    BY <2>1 DEF SumsUpTo
  <2>3. h[i + 1] = h[i] + e[q[i + 1]]
    BY <2>1 DEF SumsUpTo
  <2> QED BY <1>2, <2>1, <2>2, <2>3
<1>3. Nat \subseteq T
  <2> HIDE DEF T
  <2> QED BY <1>1, <1>2, SetInduction
<1> QED BY <1>3

(* ... and so make up the function that Before is defined with.             *)
LEMMA SumsEquation ==
    ASSUME NEW q, NEW e
    PROVE  Sums(q, e) = [n \in Nat |-> IF n = 0 THEN 0 ELSE Sums(q, e)[n - 1] + e[q[n]]]
<1> DEFINE G(n) == CHOOSE g : SumsUpTo(q, e, n, g)
           s == [n \in Nat |-> G(n)[n]]
<1>1. \A n \in Nat : SumsUpTo(q, e, n, G(n))
  BY SumsUpToExist
<1> HIDE DEF G
<1>2. ASSUME NEW n \in Nat
      PROVE  s[n] = IF n = 0 THEN 0 ELSE s[n - 1] + e[q[n]]
  <2>1. n \in 0..n
    OBVIOUS
  <2>2. G(n)[n] = IF n = 0 THEN 0 ELSE G(n)[n - 1] + e[q[n]]
    BY <1>1, <2>1 DEF SumsUpTo
  <2>3. CASE n # 0
    <3>1. n - 1 \in Nat /\ n - 1 <= n /\ n - 1 \in 0..(n - 1)
      BY <2>3
    <3>2. G(n - 1)[n - 1] = G(n)[n - 1]
      BY <1>1, <3>1, SumsUpToAgree
    <3> QED BY <2>2, <3>1, <3>2
  <2> QED BY <2>2, <2>3
<1>3. s = [n \in Nat |-> IF n = 0 THEN 0 ELSE s[n - 1] + e[q[n]]]
  BY <1>2
<1> HIDE DEF s
<1>4. \E sum : sum = [n \in Nat |-> IF n = 0 THEN 0 ELSE sum[n - 1] + e[q[n]]]
  BY <1>3
<1> QED BY <1>4 DEF Sums

LEMMA SumsTypes ==
    ASSUME NEW S, NEW q \in Seq(S), NEW e \in [S -> Nat]
    PROVE  /\ Sums(q, e)[0] = 0
           /\ \A n \in 1..Len(q) : Sums(q, e)[n] = Sums(q, e)[n - 1] + e[q[n]]
           /\ \A n \in 0..Len(q) : Sums(q, e)[n] \in Nat
           /\ \A n \in 1..Len(q) : q[n] \in S /\ e[q[n]] \in Nat
<1> DEFINE s == Sums(q, e)
           T == {n \in Nat : n <= Len(q) => s[n] \in Nat}
<1>1. s = [n \in Nat |-> IF n = 0 THEN 0 ELSE s[n - 1] + e[q[n]]]
  BY SumsEquation
<1>2. Len(q) \in Nat /\ \A n \in 1..Len(q) : q[n] \in S /\ e[q[n]] \in Nat
  OBVIOUS
<1> HIDE DEF s
<1>3. s[0] = 0
  BY <1>1
<1>4. ASSUME NEW n \in 1..Len(q) PROVE s[n] = s[n - 1] + e[q[n]]
  <2>1. n \in Nat /\ n # 0
    BY <1>2
  <2> QED BY <1>1, <2>1
<1>5. 0 \in T
  BY <1>3
<1>6. ASSUME NEW n \in Nat, n \in T PROVE n + 1 \in T
  <2> SUFFICES ASSUME n + 1 <= Len(q) PROVE s[n + 1] \in Nat
    OBVIOUS
  <2>1. n + 1 \in 1..Len(q) /\ n <= Len(q) /\ (n + 1) - 1 = n
    BY <1>2
  <2>2. s[n] \in Nat /\ e[q[n + 1]] \in Nat /\ s[n + 1] = s[n] + e[q[n + 1]]
    BY <1>2, <1>4, <1>6, <2>1
  <2> QED BY <2>2
<1>7. Nat \subseteq T
  <2> HIDE DEF T
  <2> QED BY <1>5, <1>6, SetInduction
<1>8. \A n \in 0..Len(q) : s[n] \in Nat
  BY <1>7
<1> QED BY <1>2, <1>3, <1>4, <1>8 DEF s

(* No timer expires before its predecessor.                                 *)
LEMMA SumsGrow ==
    ASSUME NEW S, NEW q \in Seq(S), NEW e \in [S -> Nat],
           NEW i \in 0..Len(q), NEW j \in 0..Len(q), i <= j
    PROVE  Sums(q, e)[i] <= Sums(q, e)[j]
<1> DEFINE s == Sums(q, e)
           T == {n \in Nat : i + n <= Len(q) => s[i] <= s[i + n]}
<1>1. Len(q) \in Nat
  OBVIOUS
<1>2. /\ \A n \in 1..Len(q) : s[n] = s[n - 1] + e[q[n]] /\ e[q[n]] \in Nat
      /\ \A n \in 0..Len(q) : s[n] \in Nat
  BY SumsTypes
<1> HIDE DEF s
<1>3. 0 \in T
  <2>1. s[i] \in Nat /\ i + 0 = i
    BY <1>1, <1>2
  <2> QED BY <2>1
<1>4. ASSUME NEW n \in Nat, n \in T PROVE n + 1 \in T
  <2> SUFFICES ASSUME i + (n + 1) <= Len(q) PROVE s[i] <= s[i + (n + 1)]
    OBVIOUS
  <2>1. /\ i + n \in 0..Len(q) /\ i + (n + 1) \in 1..Len(q)
        /\ (i + (n + 1)) - 1 = i + n /\ i + n <= Len(q)
    BY <1>1
  <2>2. s[i] <= s[i + n]
    BY <1>4, <2>1
  <2>3. /\ s[i + (n + 1)] = s[i + n] + e[q[i + (n + 1)]]
        /\ s[i] \in Nat /\ s[i + n] \in Nat /\ e[q[i + (n + 1)]] \in Nat
    BY <1>2, <2>1
  <2> QED BY <2>2, <2>3
<1>5. j - i \in Nat /\ i + (j - i) = j
  BY <1>1
<1>6. j - i \in T
  <2> HIDE DEF T
  <2> QED BY <1>3, <1>4, <1>5, SetInduction
<1> QED BY <1>1, <1>5, <1>6 DEF s

(* Two lists whose differences agree from a to b, o places apart, and whose *)
(* sums differ by c at a, ...                                               *)
Aligned(S, q, e, r, f, a, b, o, c) ==
    /\ q \in Seq(S) /\ e \in [S -> Nat] /\ r \in Seq(S) /\ f \in [S -> Nat]
    /\ a \in 0..Len(r) /\ b \in 0..Len(r) /\ a <= b
    /\ o \in Int /\ a + o >= 0 /\ b + o <= Len(q)
    /\ c \in Int /\ Sums(r, f)[a] = Sums(q, e)[a + o] + c
    /\ \A n \in (a + 1)..b : f[r[n]] = e[q[n + o]]

(* ... have sums that differ by c up to b.                                  *)
LEMMA SumsShift ==
    ASSUME NEW S, NEW q, NEW e, NEW r, NEW f, NEW a, NEW b, NEW o, NEW c,
           Aligned(S, q, e, r, f, a, b, o, c)
    PROVE  \A n \in a..b : Sums(r, f)[n] = Sums(q, e)[n + o] + c
<1> DEFINE s == Sums(q, e)
           t == Sums(r, f)
           T == {n \in Nat : a + n <= b => t[a + n] = s[a + n + o] + c}
<1>9. /\ q \in Seq(S) /\ e \in [S -> Nat] /\ r \in Seq(S) /\ f \in [S -> Nat]
  BY DEF Aligned
<1>0. /\ a \in 0..Len(r) /\ b \in 0..Len(r) /\ a <= b
      /\ o \in Int /\ a + o >= 0 /\ b + o <= Len(q) /\ c \in Int
  BY DEF Aligned
<1>1. Len(q) \in Nat /\ Len(r) \in Nat
  BY <1>9
<1>2. /\ \A n \in 1..Len(q) : s[n] = s[n - 1] + e[q[n]] /\ e[q[n]] \in Nat
      /\ \A n \in 0..Len(q) : s[n] \in Nat
  BY <1>9, SumsTypes
<1>3. /\ \A n \in 1..Len(r) : t[n] = t[n - 1] + f[r[n]]
      /\ \A n \in 0..Len(r) : t[n] \in Nat
  BY <1>9, SumsTypes
<1>4. /\ t[a] = s[a + o] + c
      /\ \A n \in (a + 1)..b : f[r[n]] = e[q[n + o]]
  BY DEF Aligned
<1> HIDE DEF s, t
<1>5. 0 \in T
  BY <1>0, <1>4
<1>6. ASSUME NEW n \in Nat, n \in T PROVE n + 1 \in T
  <2> SUFFICES ASSUME a + (n + 1) <= b PROVE t[a + (n + 1)] = s[a + (n + 1) + o] + c
    OBVIOUS
  <2> DEFINE x == a + n
             y == a + n + o
  <2>0. a + (n + 1) = x + 1 /\ a + (n + 1) + o = y + 1 /\ (x + 1) + o = y + 1
    BY <1>0
  <2>1. x \in Nat /\ y \in Int /\ a <= x /\ x + 1 <= b /\ y = x + o
    BY <1>0, <1>1
  <2>2. y \in Nat /\ y + 1 <= Len(q)
    BY <2>1, <1>0, <1>1
  <2>3. t[x] = s[y] + c
    BY <1>0, <1>6, <2>1
  <2> HIDE DEF x, y
  <2>4. x + 1 \in 1..Len(r) /\ (x + 1) - 1 = x /\ x + 1 \in (a + 1)..b
    BY <2>1, <1>0, <1>1
  <2>5. y + 1 \in 1..Len(q) /\ (y + 1) - 1 = y /\ y \in 0..Len(q)
    BY <2>2, <1>1
  <2>6. f[r[x + 1]] = e[q[y + 1]]
    BY <1>4, <2>0, <2>4
  <2>7. t[x + 1] = t[x] + f[r[x + 1]]
    BY <1>3, <2>4
  <2>8. s[y + 1] = s[y] + e[q[y + 1]] /\ s[y] \in Nat /\ e[q[y + 1]] \in Nat
    BY <1>2, <2>5
  <2>9. t[x + 1] = (s[y] + c) + e[q[y + 1]]
    BY <2>3, <2>6, <2>7
  <2>10. t[x + 1] = s[y + 1] + c
    <3> HIDE DEF T
    <3> QED BY <1>0, <2>8, <2>9
  <2> QED BY <2>0, <2>10
<1>7. Nat \subseteq T
  <2> HIDE DEF T
  <2> QED BY <1>5, <1>6, SetInduction
<1>8. ASSUME NEW n \in a..b PROVE t[n] = s[n + o] + c
  <2>1. n - a \in Nat /\ a + (n - a) = n /\ a + (n - a) + o = n + o /\ n <= b
    BY <1>0
  <2>2. n - a \in T
    BY <1>7, <2>1
  <2> QED BY <2>1, <2>2
<1> QED BY <1>8 DEF s, t

(* Before of the model is such a sum.                                       *)
LEMMA BeforeIsSum == \A i : Before(i) = Sums(timer_list, expires)[i - 1]
BY DEF Before, Sums

-----------------------------------------------------------------------------
(* The ticks left to the process at each position: its own sum.             *)
LeftIn(q, e, p) ==
    IF p \in ToSet(q) THEN Sums(q, e)[CHOOSE i \in DOMAIN q : q[i] = p] ELSE 0

LEMMA LeftAt ==
    ASSUME NEW S, NEW q \in Seq(S), NoRepeat(q), NEW e, NEW i \in 1..Len(q)
    PROVE  q[i] \in ToSet(q) /\ LeftIn(q, e, q[i]) = Sums(q, e)[i]
<1>1. DOMAIN q = 1..Len(q)
  OBVIOUS
<1>2. q[i] \in ToSet(q)
  BY <1>1 DEF ToSet
<1>3. (CHOOSE j \in DOMAIN q : q[j] = q[i]) = i
  BY <1>1 DEF NoRepeat
<1> QED BY <1>2, <1>3 DEF LeftIn

LEMMA MemberAt ==
    ASSUME NEW S, NEW q \in Seq(S), NEW p \in ToSet(q)
    PROVE  \E i \in 1..Len(q) : q[i] = p
BY DEF ToSet

(* add_timer on any list: the new timer is at its place, those behind it    *)
(* move one place down, ...                                                 *)
Insertable(S, q, p, k) ==
    /\ q \in Seq(S) /\ NoRepeat(q)
    /\ p \in S /\ p \notin ToSet(q)
    /\ k \in 1..(Len(q) + 1)

LEMMA InsertTimer ==
    ASSUME NEW S, NEW q, NEW p, NEW k, Insertable(S, q, p, k)
    PROVE  /\ InsertAt(q, k, p) \in Seq(S)
           /\ NoRepeat(InsertAt(q, k, p))
           /\ ToSet(InsertAt(q, k, p)) = ToSet(q) \cup {p}
           /\ Len(InsertAt(q, k, p)) = Len(q) + 1
           /\ InsertAt(q, k, p)[k] = p
           /\ \A n \in 1..(k - 1) : InsertAt(q, k, p)[n] = q[n]
           /\ \A n \in k..Len(q) : InsertAt(q, k, p)[n + 1] = q[n]
<1> DEFINE r == InsertAt(q, k, p)
<1>7. /\ q \in Seq(S) /\ NoRepeat(q) /\ p \in S /\ p \notin ToSet(q)
      /\ k \in 1..(Len(q) + 1)
  BY DEF Insertable
<1>0. /\ InsertAt(q, k, p) \in Seq(S)
      /\ Len(InsertAt(q, k, p)) = Len(q) + 1
      /\ \A j \in 1..(Len(q) + 1) :
            InsertAt(q, k, p)[j] =
               IF j < k THEN q[j] ELSE IF j = k THEN p ELSE q[j - 1]
  BY <1>7, InsertAtElements, SMTT(60)
<1>1. /\ Len(q) \in Nat /\ DOMAIN q = 1..Len(q)
      /\ \A n \in 1..Len(q) : q[n] \in S /\ q[n] \in ToSet(q)
  BY <1>7 DEF ToSet
<1>2. /\ r \in Seq(S) /\ Len(r) = Len(q) + 1
      /\ \A j \in 1..(Len(q) + 1) :
            r[j] = IF j < k THEN q[j] ELSE IF j = k THEN p ELSE q[j - 1]
  BY <1>0, Zenon
<1> HIDE DEF r
<1>3. DOMAIN r = 1..(Len(q) + 1)
  BY <1>2
<1>4. /\ r[k] = p
      /\ \A n \in 1..(k - 1) : r[n] = q[n]
      /\ \A n \in k..Len(q) : r[n + 1] = q[n]
  <2>1. k \in 1..(Len(q) + 1) /\ ~(k < k)
    BY <1>7, <1>1
  <2>2. \A n \in 1..(k - 1) : n \in 1..(Len(q) + 1) /\ n < k
    BY <1>7, <1>1
  <2>3. \A n \in k..Len(q) : /\ n + 1 \in 1..(Len(q) + 1) /\ ~(n + 1 < k)
                             /\ n + 1 # k /\ (n + 1) - 1 = n
    BY <1>7, <1>1
  <2> QED BY <1>2, <2>1, <2>2, <2>3
<1>5. ToSet(r) = ToSet(q) \cup {p}
  <2>1. ASSUME NEW x \in ToSet(r) PROVE x \in ToSet(q) \cup {p}
    <3>1. PICK j \in 1..(Len(q) + 1) : x = r[j]
      BY <1>7, <1>3 DEF ToSet
    <3>2. (j < k => j \in 1..Len(q)) /\ (j > k => j - 1 \in 1..Len(q))
      BY <1>7, <1>1
    <3>3. j < k \/ j = k \/ (~(j < k) /\ j # k /\ j > k)
      BY <1>7, <1>1
    <3> QED BY <1>7, <1>1, <1>2, <3>1, <3>2, <3>3
  <2>2. ASSUME NEW x \in ToSet(q) PROVE x \in ToSet(r)
    <3>1. PICK n \in 1..Len(q) : q[n] = x
      BY <1>7, MemberAt
    <3>2. CASE n < k
      <4>1. n \in 1..(k - 1) /\ n \in 1..(Len(q) + 1)
        BY <1>7, <1>1, <3>2
      <4> QED BY <1>7, <1>3, <1>4, <3>1, <4>1 DEF ToSet
    <3>3. CASE ~(n < k)
      <4>1. n \in k..Len(q) /\ n + 1 \in 1..(Len(q) + 1)
        BY <1>7, <1>1, <3>3
      <4> QED BY <1>7, <1>3, <1>4, <3>1, <4>1 DEF ToSet
    <3> QED BY <3>2, <3>3
  <2>3. p \in ToSet(r)
    BY <1>7, <1>3, <1>4 DEF ToSet
  <2> QED BY <2>1, <2>2, <2>3
<1>6. NoRepeat(r)
  <2> SUFFICES ASSUME NEW i \in 1..(Len(q) + 1), NEW j \in 1..(Len(q) + 1), r[i] = r[j]
               PROVE  i = j
    BY <1>7, <1>3 DEF NoRepeat
  <2> DEFINE From(n) == IF n < k THEN n ELSE n - 1
  <2>1. \A n \in 1..(Len(q) + 1) : n # k =>
            /\ From(n) \in 1..Len(q)
            /\ r[n] = q[From(n)]
    BY <1>7, <1>1, <1>2
  <2>2. \A n, m \in 1..(Len(q) + 1) : n # k /\ m # k /\ From(n) = From(m) => n = m
    BY <1>7, <1>1
  <2> HIDE DEF From
  <2>3. CASE i = k
    BY <1>7, <1>1, <1>4, <2>1, <2>3
  <2>4. CASE i # k /\ j = k
    BY <1>7, <1>1, <1>4, <2>1, <2>4
  <2>5. CASE i # k /\ j # k
    BY <1>7, <1>1, <2>1, <2>2, <2>5 DEF NoRepeat
  <2> QED BY <2>3, <2>4, <2>5
<1> QED BY <1>2, <1>4, <1>5, <1>6 DEF r

(* ... and the new timer has the difference d, its successor d less.        *)
InsertedDiffs(q, e, p, k, d) ==
    [(IF k \in DOMAIN q THEN [e EXCEPT ![q[k]] = @ - d] ELSE e) EXCEPT ![p] = d]

Divisible(S, q, e, p, k, d) ==
    /\ Insertable(S, q, p, k)
    /\ e \in [S -> Nat] /\ d \in Nat
    /\ k \in DOMAIN q => d <= e[q[k]]

LEMMA InsertDiffs ==
    ASSUME NEW S, NEW q, NEW e, NEW p, NEW k, NEW d, Divisible(S, q, e, p, k, d),
           NEW f, f = InsertedDiffs(q, e, p, k, d)
    PROVE  /\ f \in [S -> Nat]
           /\ \A x \in S : x # p => f[x] <= e[x]
           /\ f[p] = d
           /\ \A n \in 1..Len(q) : n # k => f[q[n]] = e[q[n]]
           /\ k \in DOMAIN q => f[q[k]] = e[q[k]] - d
           /\ \A x \in S : x \notin ToSet(q) \cup {p} => f[x] = e[x]
<1>0. /\ q \in Seq(S) /\ NoRepeat(q) /\ p \in S /\ p \notin ToSet(q)
      /\ k \in 1..(Len(q) + 1) /\ e \in [S -> Nat] /\ d \in Nat
      /\ k \in DOMAIN q => d <= e[q[k]]
  BY DEF Divisible, Insertable
<1>1. /\ Len(q) \in Nat /\ DOMAIN q = 1..Len(q)
      /\ \A n \in 1..Len(q) : q[n] \in S /\ q[n] \in ToSet(q)
  BY <1>0 DEF ToSet
<1>2. /\ f \in [S -> Nat] /\ f[p] = d
      /\ \A x \in S : x # p => f[x] <= e[x]
      /\ k \in DOMAIN q => f[q[k]] = e[q[k]] - d
      /\ \A x \in S : x # p /\ ~(k \in DOMAIN q /\ x = q[k]) => f[x] = e[x]
  <2>1. CASE k \in DOMAIN q
    <3>1. q[k] \in S /\ q[k] # p /\ e[q[k]] \in Nat /\ e[q[k]] - d \in Nat
      BY <1>0, <1>1, <2>1
    <3>2. f = [[e EXCEPT ![q[k]] = e[q[k]] - d] EXCEPT ![p] = d]
      BY <2>1 DEF InsertedDiffs
    <3>3. \A x \in S : f[x] = IF x = p THEN d ELSE IF x = q[k] THEN e[q[k]] - d ELSE e[x]
      BY <1>0, <3>1, <3>2
    <3>4. \A x \in S : e[x] \in Nat /\ e[x] <= e[x]
      BY <1>0
    <3>5. f \in [S -> Nat]
      BY <1>0, <3>1, <3>2
    <3>6. e[q[k]] - d <= e[q[k]]
      BY <1>0, <3>1
    <3> QED BY <1>0, <2>1, <3>1, <3>3, <3>4, <3>5, <3>6
  <2>2. CASE k \notin DOMAIN q
    <3>1. f = [e EXCEPT ![p] = d]
      BY <2>2 DEF InsertedDiffs
    <3>2. \A x \in S : e[x] \in Nat /\ e[x] <= e[x]
      BY <1>0
    <3> QED BY <1>0, <2>2, <3>1, <3>2
  <2> QED BY <2>1, <2>2
<1>3. ASSUME NEW n \in 1..Len(q), n # k PROVE f[q[n]] = e[q[n]]
  <2>1. q[n] \in S /\ q[n] # p /\ (k \in DOMAIN q => q[n] # q[k])
    BY <1>0, <1>1, <1>3 DEF NoRepeat
  <2> QED BY <1>2, <2>1
<1>4. \A x \in S : x \notin ToSet(q) \cup {p} => f[x] = e[x]
  BY <1>0, <1>1, <1>2
<1> QED BY <1>2, <1>3, <1>4

(* The lists before and after an insertion at k, as far as their sums need  *)
(* to know, ...                                                             *)
InsertedAt(S, q, e, r, f, k, d) ==
    /\ q \in Seq(S) /\ e \in [S -> Nat] /\ r \in Seq(S) /\ f \in [S -> Nat]
    /\ k \in 1..(Len(q) + 1) /\ d \in Nat /\ Len(r) = Len(q) + 1 /\ f[r[k]] = d
    /\ \A n \in 1..(k - 1) : f[r[n]] = e[q[n]]
    /\ k <= Len(q) => f[r[k + 1]] = e[q[k]] - d
    /\ \A n \in (k + 1)..Len(q) : f[r[n + 1]] = e[q[n]]

(* ... so the new timer has the ticks before its place and d, and the ticks *)
(* of all others are the same.                                              *)
LEMMA InsertSums ==
    ASSUME NEW S, NEW q, NEW e, NEW r, NEW f, NEW k, NEW d,
           InsertedAt(S, q, e, r, f, k, d)
    PROVE  /\ \A n \in 0..(k - 1) : Sums(r, f)[n] = Sums(q, e)[n]
           /\ Sums(r, f)[k] = Sums(q, e)[k - 1] + d
           /\ \A n \in k..Len(q) : Sums(r, f)[n + 1] = Sums(q, e)[n]
<1>9. /\ q \in Seq(S) /\ e \in [S -> Nat] /\ r \in Seq(S) /\ f \in [S -> Nat]
  BY DEF InsertedAt
<1>10. Len(r) = Len(q) + 1 /\ k \in 1..(Len(q) + 1) /\ d \in Nat
  BY DEF InsertedAt
<1>11. \A n \in 1..Len(q) : q[n] \in S /\ e[q[n]] \in Nat
  BY <1>9
<1>1. /\ Len(q) \in Nat /\ Len(r) = Len(q) + 1 /\ k \in 1..(Len(q) + 1)
      /\ \A n \in 1..Len(q) : q[n] \in S /\ e[q[n]] \in Nat
  BY <1>9, <1>10, <1>11
<1>2. /\ Sums(q, e)[0] = 0
      /\ \A n \in 1..Len(q) : Sums(q, e)[n] = Sums(q, e)[n - 1] + e[q[n]]
  BY <1>9, SumsTypes
<1>8. \A n \in 0..Len(q) : Sums(q, e)[n] \in Nat
  BY <1>9, SumsTypes
<1>3. /\ Sums(r, f)[0] = 0
      /\ \A n \in 1..Len(r) : Sums(r, f)[n] = Sums(r, f)[n - 1] + f[r[n]]
  BY <1>9, SumsTypes
<1>4. \A n \in 0..(k - 1) : Sums(r, f)[n] = Sums(q, e)[n]
  <2> DEFINE z == 0
             b == k - 1
  <2>1. /\ z \in 0..Len(r) /\ b \in 0..Len(r) /\ z <= b
        /\ z + z >= 0 /\ b + z <= Len(q) /\ z \in Int
    BY <1>1
  <2>2. Sums(r, f)[z] = Sums(q, e)[z + z] + z
    BY <1>2, <1>3
  <2>3. \A n \in (z + 1)..b : f[r[n]] = e[q[n + z]]
    <3>1. \A n \in (z + 1)..b : n \in 1..(k - 1) /\ n + z = n
      BY <1>1
    <3> QED BY <3>1 DEF InsertedAt
  <2>4. \A n \in 0..(k - 1) : n \in z..b /\ n \in 0..Len(q) /\ n + z = n
    BY <1>1
  <2>5. \A m \in Nat : m + z = m
    OBVIOUS
  <2> HIDE DEF z, b
  <2>6. \A n \in z..b : Sums(r, f)[n] = Sums(q, e)[n + z] + z
    <3>1. Aligned(S, q, e, r, f, z, b, z, z)
      BY <1>9, <2>1, <2>2, <2>3 DEF Aligned
    <3> QED BY <3>1, SumsShift
  <2> QED BY <1>8, <2>4, <2>5, <2>6
<1>5. Sums(r, f)[k] = Sums(q, e)[k - 1] + d
  <2>1. k \in 1..Len(r) /\ k - 1 \in 0..(k - 1)
    BY <1>1
  <2> QED BY <1>3, <1>4, <2>1 DEF InsertedAt
<1>6. ASSUME k <= Len(q) PROVE \A n \in k..Len(q) : Sums(r, f)[n + 1] = Sums(q, e)[n]
  <2> DEFINE a == k + 1
             b == Len(r)
             o == -1
             z == 0
  <2>1. /\ a \in 0..Len(r) /\ b \in 0..Len(r) /\ a <= b
        /\ a + o = k /\ a + o >= 0 /\ b + o <= Len(q)
        /\ o \in Int /\ z \in Int
    BY <1>1, <1>6
  <2>2. Sums(r, f)[a] = Sums(q, e)[k]
    <3>1. /\ a \in 1..Len(r) /\ a - 1 = k /\ k \in 1..Len(q)
          /\ k - 1 \in 0..Len(q)
      BY <1>1, <1>6
    <3>2. Sums(r, f)[a] = (Sums(q, e)[k - 1] + d) + (e[q[k]] - d)
      BY <1>3, <1>5, <1>6, <3>1 DEF InsertedAt
    <3>3. Sums(q, e)[k] = Sums(q, e)[k - 1] + e[q[k]]
      BY <1>2, <3>1
    <3>4. Sums(q, e)[k - 1] \in Nat /\ e[q[k]] \in Nat
      BY <1>1, <1>8, <3>1
    <3> QED BY <1>10, <3>2, <3>3, <3>4
  <2>3. \A n \in (a + 1)..b : f[r[n]] = e[q[n + o]]
    <3>1. \A n \in (a + 1)..b :
              n - 1 \in (k + 1)..Len(q) /\ (n - 1) + 1 = n /\ n + o = n - 1
      BY <1>1
    <3>2. ASSUME NEW n \in (a + 1)..b PROVE f[r[n]] = e[q[n + o]]
      <4> DEFINE m == n - 1
      <4>1. m \in (k + 1)..Len(q) /\ m + 1 = n /\ n + o = m
        BY <3>1
      <4> HIDE DEF m
      <4> QED BY <4>1 DEF InsertedAt
    <3> QED BY <3>2
  <2>4. \A n \in k..Len(q) : /\ n + 1 \in a..b /\ n \in 0..Len(q) /\ (n + 1) + o = n
    BY <1>1
  <2>5. \A m \in Nat : m + z = m
    OBVIOUS
  <2>6. Sums(q, e)[k] \in Nat
    <3>1. k \in 0..Len(q)
      BY <1>1, <1>6
    <3> QED BY <1>8, <3>1
  <2> HIDE DEF a, b, o, z
  <2>7. Sums(r, f)[a] = Sums(q, e)[a + o] + z
    BY <2>1, <2>2, <2>5, <2>6
  <2>8. \A n \in a..b : Sums(r, f)[n] = Sums(q, e)[n + o] + z
    <3>1. Aligned(S, q, e, r, f, a, b, o, z)
      BY <1>9, <2>1, <2>3, <2>7 DEF Aligned
    <3> QED BY <3>1, SumsShift
  <2> QED BY <1>8, <2>4, <2>5, <2>8
<1>7. k <= Len(q) \/ k..Len(q) = {}
  BY <1>1
<1> QED BY <1>4, <1>5, <1>6, <1>7

-----------------------------------------------------------------------------
(* del_timer on any list: those behind the deleted timer move up, ...       *)
Deletable(S, q, i) == q \in Seq(S) /\ NoRepeat(q) /\ i \in 1..Len(q)

LEMMA DeleteTimer ==
    ASSUME NEW S, NEW q, NEW i, Deletable(S, q, i)
    PROVE  /\ RemoveAt(q, i) \in Seq(S)
           /\ NoRepeat(RemoveAt(q, i))
           /\ ToSet(RemoveAt(q, i)) = ToSet(q) \ {q[i]}
           /\ Len(RemoveAt(q, i)) = Len(q) - 1
           /\ \A n \in 1..(i - 1) : RemoveAt(q, i)[n] = q[n]
           /\ \A n \in i..(Len(q) - 1) : RemoveAt(q, i)[n] = q[n + 1]
<1> DEFINE r == RemoveAt(q, i)
<1>0. q \in Seq(S) /\ NoRepeat(q) /\ i \in 1..Len(q)
  BY DEF Deletable
<1>1. Len(q) \in Nat /\ DOMAIN q = 1..Len(q) /\ q[i] \in ToSet(q)
  BY <1>0 DEF ToSet
<1>2. (CHOOSE j \in DOMAIN q : q[j] = q[i]) = i
  BY <1>0, <1>1 DEF NoRepeat
<1>3. wait_current_del(q, q[i]) = r
  BY <1>0, <1>1, <1>2 DEF wait_current_del
<1>4. r \in Seq(S) /\ NoRepeat(r) /\ ToSet(r) = ToSet(q) \ {q[i]}
  BY <1>0, <1>3, WaitDelQueue
<1>5. /\ Len(r) = Len(q) - 1
      /\ \A j \in 1..(Len(q) - 1) : r[j] = IF j < i THEN q[j] ELSE q[j + 1]
  BY <1>0, RemoveAtElements
<1> HIDE DEF r
<1>6. \A n \in 1..(i - 1) : r[n] = q[n]
  <2>1. \A n \in 1..(i - 1) : n \in 1..(Len(q) - 1) /\ n < i
    BY <1>0, <1>1
  <2> QED BY <1>0, <1>5, <2>1
<1>7. \A n \in i..(Len(q) - 1) : r[n] = q[n + 1]
  <2>1. \A n \in i..(Len(q) - 1) : n \in 1..(Len(q) - 1) /\ ~(n < i)
    BY <1>0, <1>1
  <2> QED BY <1>0, <1>5, <2>1
<1> QED BY <1>4, <1>5, <1>6, <1>7 DEF r

(* ... and its successor gets what was left of it.                          *)
DeletedDiffs(q, e, i) ==
    [(IF i + 1 \in DOMAIN q THEN [e EXCEPT ![q[i + 1]] = @ + e[q[i]]] ELSE e)
        EXCEPT ![q[i]] = 0]

Joinable(S, q, e, i) == Deletable(S, q, i) /\ e \in [S -> Nat]

LEMMA DeleteDiffs ==
    ASSUME NEW S, NEW q, NEW e, NEW i, Joinable(S, q, e, i),
           NEW f, f = DeletedDiffs(q, e, i)
    PROVE  /\ f \in [S -> Nat]
           /\ f[q[i]] = 0
           /\ \A n \in 1..Len(q) : n # i /\ n # i + 1 => f[q[n]] = e[q[n]]
           /\ i + 1 \in DOMAIN q => f[q[i + 1]] = e[q[i + 1]] + e[q[i]]
           /\ \A x \in S : x \notin ToSet(q) => f[x] = e[x]
<1>0. q \in Seq(S) /\ NoRepeat(q) /\ i \in 1..Len(q) /\ e \in [S -> Nat]
  BY DEF Joinable, Deletable
<1>1. /\ Len(q) \in Nat /\ DOMAIN q = 1..Len(q)
      /\ \A n \in 1..Len(q) : q[n] \in S /\ q[n] \in ToSet(q)
  BY <1>0 DEF ToSet
<1>2. \A n \in 1..Len(q) : n # i => q[n] # q[i]
  BY <1>0, <1>1 DEF NoRepeat
<1>3. i + 1 # i
  BY <1>0, <1>1
<1>4. /\ f \in [S -> Nat] /\ f[q[i]] = 0
      /\ i + 1 \in DOMAIN q => f[q[i + 1]] = e[q[i + 1]] + e[q[i]]
      /\ \A x \in S : x # q[i] /\ ~(i + 1 \in DOMAIN q /\ x = q[i + 1]) => f[x] = e[x]
  <2>1. CASE i + 1 \in DOMAIN q
    <3> DEFINE v == e[q[i + 1]] + e[q[i]]
    <3>1. /\ q[i] \in S /\ q[i + 1] \in S /\ q[i + 1] # q[i] /\ v \in Nat
      BY <1>0, <1>1, <1>2, <1>3, <2>1
    <3>2. f = [[e EXCEPT ![q[i + 1]] = v] EXCEPT ![q[i]] = 0]
      BY <2>1 DEF DeletedDiffs
    <3> HIDE DEF v
    <3>3. \A x \in S : f[x] = IF x = q[i] THEN 0 ELSE IF x = q[i + 1] THEN v ELSE e[x]
      BY <1>0, <3>1, <3>2
    <3>4. f \in [S -> Nat]
      BY <1>0, <3>1, <3>2
    <3> QED BY <1>0, <2>1, <3>1, <3>3, <3>4 DEF v
  <2>2. CASE i + 1 \notin DOMAIN q
    <3>1. f = [e EXCEPT ![q[i]] = 0]
      BY <2>2 DEF DeletedDiffs
    <3> QED BY <1>0, <1>1, <2>2, <3>1
  <2> QED BY <2>1, <2>2
<1>5. ASSUME NEW n \in 1..Len(q), n # i, n # i + 1 PROVE f[q[n]] = e[q[n]]
  <2>1. q[n] \in S /\ q[n] # q[i] /\ (i + 1 \in DOMAIN q => q[n] # q[i + 1])
    BY <1>0, <1>1, <1>2, <1>5 DEF NoRepeat
  <2> QED BY <1>0, <1>4, <2>1
<1>6. \A x \in S : x \notin ToSet(q) => f[x] = e[x]
  BY <1>0, <1>1, <1>4
<1> QED BY <1>4, <1>5, <1>6

(* The lists before and after a deletion at k, as far as their sums need to *)
(* know, ...                                                                *)
Deleted(S, q, e, r, f, k) ==
    /\ q \in Seq(S) /\ e \in [S -> Nat] /\ r \in Seq(S) /\ f \in [S -> Nat]
    /\ k \in 1..Len(q) /\ Len(r) = Len(q) - 1
    /\ \A n \in 1..(k - 1) : f[r[n]] = e[q[n]]
    /\ k <= Len(q) - 1 => f[r[k]] = e[q[k + 1]] + e[q[k]]
    /\ \A n \in (k + 1)..(Len(q) - 1) : f[r[n]] = e[q[n + 1]]

(* ... so the ticks of all others are the same.                             *)
LEMMA DeleteSums ==
    ASSUME NEW S, NEW q, NEW e, NEW r, NEW f, NEW k, Deleted(S, q, e, r, f, k)
    PROVE  /\ \A n \in 0..(k - 1) : Sums(r, f)[n] = Sums(q, e)[n]
           /\ \A n \in k..(Len(q) - 1) : Sums(r, f)[n] = Sums(q, e)[n + 1]
<1>1. /\ q \in Seq(S) /\ e \in [S -> Nat] /\ r \in Seq(S) /\ f \in [S -> Nat]
  BY DEF Deleted
<1>2. Len(r) = Len(q) - 1 /\ k \in 1..Len(q)
  BY DEF Deleted
<1>3. \A n \in 1..Len(q) : q[n] \in S /\ e[q[n]] \in Nat
  BY <1>1
<1>4. Len(q) \in Nat
  BY <1>1
<1>5. /\ Sums(q, e)[0] = 0
      /\ \A n \in 1..Len(q) : Sums(q, e)[n] = Sums(q, e)[n - 1] + e[q[n]]
  BY <1>1, SumsTypes
<1>6. \A n \in 0..Len(q) : Sums(q, e)[n] \in Nat
  BY <1>1, SumsTypes
<1>7. /\ Sums(r, f)[0] = 0
      /\ \A n \in 1..Len(r) : Sums(r, f)[n] = Sums(r, f)[n - 1] + f[r[n]]
  BY <1>1, SumsTypes
<1>8. \A n \in 0..(k - 1) : Sums(r, f)[n] = Sums(q, e)[n]
  <2> DEFINE z == 0
             b == k - 1
  <2>1. /\ z \in 0..Len(r) /\ b \in 0..Len(r) /\ z <= b
        /\ z + z >= 0 /\ b + z <= Len(q) /\ z \in Int
    BY <1>2, <1>4
  <2>2. Sums(r, f)[z] = Sums(q, e)[z + z] + z
    BY <1>5, <1>7
  <2>3. \A n \in (z + 1)..b : f[r[n]] = e[q[n + z]]
    <3>1. \A n \in (z + 1)..b : n \in 1..(k - 1) /\ n + z = n
      BY <1>2, <1>4
    <3> QED BY <3>1 DEF Deleted
  <2>4. \A n \in 0..(k - 1) : n \in z..b /\ n \in 0..Len(q) /\ n + z = n
    BY <1>2, <1>4
  <2>5. \A m \in Nat : m + z = m
    OBVIOUS
  <2> HIDE DEF z, b
  <2>6. \A n \in z..b : Sums(r, f)[n] = Sums(q, e)[n + z] + z
    <3>1. Aligned(S, q, e, r, f, z, b, z, z)
      BY <1>1, <2>1, <2>2, <2>3 DEF Aligned
    <3> QED BY <3>1, SumsShift
  <2> QED BY <1>6, <2>4, <2>5, <2>6
<1>9. ASSUME k <= Len(q) - 1
      PROVE  \A n \in k..(Len(q) - 1) : Sums(r, f)[n] = Sums(q, e)[n + 1]
  <2> DEFINE b == Len(r)
             o == 1
             z == 0
  <2>1. /\ k \in 0..Len(r) /\ b \in 0..Len(r) /\ k <= b
        /\ k + o >= 0 /\ b + o <= Len(q)
        /\ o \in Int /\ z \in Int
    BY <1>2, <1>4, <1>9
  <2>2. /\ k \in 1..Len(r) /\ k + 1 \in 1..Len(q) /\ (k + 1) - 1 = k
        /\ k \in 1..Len(q) /\ k - 1 \in 0..Len(q) /\ k - 1 \in 0..(k - 1)
        /\ k + 1 \in 0..Len(q)
    BY <1>2, <1>4, <1>9
  <2>3. Sums(r, f)[k] = Sums(q, e)[k - 1] + (e[q[k + 1]] + e[q[k]])
    BY <1>7, <1>8, <1>9, <2>2 DEF Deleted
  <2>4. /\ Sums(q, e)[k] = Sums(q, e)[k - 1] + e[q[k]]
        /\ Sums(q, e)[k + 1] = Sums(q, e)[k] + e[q[k + 1]]
    BY <1>5, <2>2
  <2>5. Sums(q, e)[k - 1] \in Nat /\ e[q[k]] \in Nat /\ e[q[k + 1]] \in Nat
    BY <1>3, <1>6, <2>2
  <2>6. Sums(r, f)[k] = Sums(q, e)[k + 1]
    BY <2>3, <2>4, <2>5
  <2>7. Sums(r, f)[k] = Sums(q, e)[k + o] + z
    <3>1. Sums(q, e)[k + 1] \in Nat
      BY <1>6, <2>2
    <3> QED BY <2>6, <3>1
  <2>8. \A n \in (k + 1)..b : f[r[n]] = e[q[n + o]]
    BY <1>2 DEF Deleted
  <2>9. \A n \in k..(Len(q) - 1) : n \in k..b /\ n + 1 \in 0..Len(q) /\ n + o = n + 1
    BY <1>2, <1>4
  <2>10. \A m \in Nat : m + z = m
    OBVIOUS
  <2> HIDE DEF b, o, z
  <2>11. \A n \in k..b : Sums(r, f)[n] = Sums(q, e)[n + o] + z
    <3>1. Aligned(S, q, e, r, f, k, b, o, z)
      BY <1>1, <2>1, <2>7, <2>8 DEF Aligned
    <3> QED BY <3>1, SumsShift
  <2> QED BY <1>6, <2>9, <2>10, <2>11
<1>10. k <= Len(q) - 1 \/ k..(Len(q) - 1) = {}
  BY <1>2, <1>4
<1> QED BY <1>8, <1>9, <1>10

-----------------------------------------------------------------------------
(* A tick takes one from the head, and so one from every timer.             *)
Ticked(S, q, e, f) ==
    /\ q \in Seq(S) /\ q # <<>> /\ e \in [S -> Nat] /\ f \in [S -> Nat]
    /\ f[q[1]] = e[q[1]] - 1
    /\ \A n \in 1..Len(q) : n # 1 => f[q[n]] = e[q[n]]

LEMMA TickSums ==
    ASSUME NEW S, NEW q, NEW e, NEW f, Ticked(S, q, e, f)
    PROVE  \A n \in 1..Len(q) : Sums(q, f)[n] = Sums(q, e)[n] - 1
<1>0. /\ q \in Seq(S) /\ q # <<>> /\ e \in [S -> Nat] /\ f \in [S -> Nat]
      /\ f[q[1]] = e[q[1]] - 1
      /\ \A n \in 1..Len(q) : n # 1 => f[q[n]] = e[q[n]]
  BY DEF Ticked
<1>1. /\ Len(q) \in Nat \ {0} /\ DOMAIN q = 1..Len(q)
      /\ \A n \in 1..Len(q) : q[n] \in S
  BY <1>0
<1>2. 1 \in 1..Len(q) /\ e[q[1]] \in Nat
  BY <1>0, <1>1
<1>5. /\ Sums(q, e)[0] = 0
      /\ \A n \in 1..Len(q) : Sums(q, e)[n] = Sums(q, e)[n - 1] + e[q[n]]
  BY <1>0, SumsTypes
<1>6. \A n \in 0..Len(q) : Sums(q, e)[n] \in Nat
  BY <1>0, SumsTypes
<1>7. /\ Sums(q, f)[0] = 0
      /\ \A n \in 1..Len(q) : Sums(q, f)[n] = Sums(q, f)[n - 1] + f[q[n]]
  BY <1>0, SumsTypes
<1> DEFINE a == 1
           b == Len(q)
           o == 0
           c == -1
<1>8. /\ a \in 0..Len(q) /\ b \in 0..Len(q) /\ a <= b
      /\ a + o >= 0 /\ b + o <= Len(q) /\ o \in Int /\ c \in Int
  BY <1>1
<1>9. Sums(q, f)[a] = Sums(q, e)[a + o] + c
  <2>1. 1 - 1 = 0 /\ 1 + 0 = 1
    OBVIOUS
  <2>2. Sums(q, f)[1] = 0 + (e[q[1]] - 1) /\ Sums(q, e)[1] = 0 + e[q[1]]
    BY <1>0, <1>2, <1>5, <1>7, <2>1
  <2>3. Sums(q, f)[1] = Sums(q, e)[1] + (-1)
    BY <1>2, <2>2
  <2> QED BY <2>1, <2>3
<1>10. \A n \in (a + 1)..b : f[q[n]] = e[q[n + o]]
  <2>1. \A n \in (a + 1)..b : n \in 1..Len(q) /\ n # 1 /\ n + o = n
    BY <1>1
  <2> QED BY <1>0, <2>1
<1>11. \A n \in 1..Len(q) : n \in a..b /\ n \in 0..Len(q) /\ n + o = n
  BY <1>1
<1>12. \A m \in Nat : m + c = m - 1
  OBVIOUS
<1> HIDE DEF a, b, o, c
<1>13. \A n \in a..b : Sums(q, f)[n] = Sums(q, e)[n + o] + c
  <2>1. Aligned(S, q, e, q, f, a, b, o, c)
    BY <1>0, <1>8, <1>9, <1>10 DEF Aligned
  <2> QED BY <2>1, SumsShift
<1> QED BY <1>6, <1>11, <1>12, <1>13

-----------------------------------------------------------------------------
(* The inductive invariant, as facts of the list q and the differences e.   *)
(* Beyond the type invariant: a timer out of the list has no difference,    *)
(* no timer has more than MaxTicks ticks left, and outside run_timer_list   *)
(* the head has a tick to give.                                             *)
TimersOk(q, e) ==
    /\ q \in Seq(Owners) /\ NoRepeat(q)
    /\ e \in [Owners -> 0..MaxTicks]
    /\ \A p \in Owners : p \notin ToSet(q) => e[p] = 0
    /\ Sums(q, e)[Len(q)] <= MaxTicks

HeadOk(q, e) == q # <<>> => e[q[1]] >= 1

TimerInv ==
    /\ TimersOk(timer_list, expires)
    /\ serving \in BOOLEAN
    /\ ~serving => HeadOk(timer_list, expires)

(* Differences that are natural numbers and add up to MaxTicks at most are  *)
(* MaxTicks at most, each.                                                  *)
SumBounded(q, e) ==
    /\ q \in Seq(Owners) /\ e \in [Owners -> Nat]
    /\ \A p \in Owners : p \notin ToSet(q) => e[p] = 0
    /\ Sums(q, e)[Len(q)] <= MaxTicks

LEMMA DiffsBounded ==
    ASSUME NEW q, NEW e, SumBounded(q, e)
    PROVE  e \in [Owners -> 0..MaxTicks]
<1>0. /\ q \in Seq(Owners) /\ e \in [Owners -> Nat]
      /\ \A p \in Owners : p \notin ToSet(q) => e[p] = 0
      /\ Sums(q, e)[Len(q)] <= MaxTicks
  BY DEF SumBounded
<1> SUFFICES ASSUME NEW p \in Owners PROVE e[p] \in 0..MaxTicks
  BY <1>0
<1>1. CASE p \notin ToSet(q)
  BY <1>0, <1>1, TimerAssumption
<1>2. CASE p \in ToSet(q)
  <2>1. PICK i \in 1..Len(q) : q[i] = p
    BY <1>0, <1>2, MemberAt
  <2>2. Len(q) \in Nat /\ i - 1 \in 0..Len(q) /\ i \in 0..Len(q) /\ Len(q) \in 0..Len(q)
    BY <1>0, <2>1
  <2>3. Sums(q, e)[i] <= Sums(q, e)[Len(q)]
    BY <1>0, <2>1, <2>2, SumsGrow
  <2>4. Sums(q, e)[i] = Sums(q, e)[i - 1] + e[p]
    BY <1>0, <2>1, SumsTypes
  <2>5. \A n \in 0..Len(q) : Sums(q, e)[n] \in Nat
    BY <1>0, SumsTypes
  <2>6. /\ Sums(q, e)[i - 1] \in Nat /\ Sums(q, e)[i] \in Nat
        /\ Sums(q, e)[Len(q)] \in Nat /\ e[p] \in Nat
    BY <1>0, <2>2, <2>5
  <2> QED BY <1>0, <2>3, <2>4, <2>6, TimerAssumption
<1> QED BY <1>1, <1>2

(* The ticks left: the bounds, and that a head with a tick to give keeps    *)
(* every timer from being due.                                              *)
LEMMA LeftBounds ==
    ASSUME NEW q \in Seq(Owners), NoRepeat(q), NEW e \in [Owners -> Nat],
           Sums(q, e)[Len(q)] <= MaxTicks
    PROVE  /\ \A p : LeftIn(q, e, p) \in 0..MaxTicks
           /\ \A p : p \notin ToSet(q) => LeftIn(q, e, p) = 0
           /\ q # <<>> /\ e[q[1]] >= 1 =>
                 \A p \in ToSet(q) : LeftIn(q, e, p) >= 1
<1>1. \A p : p \notin ToSet(q) => LeftIn(q, e, p) = 0
  BY DEF LeftIn
<1>2. ASSUME NEW p \in ToSet(q)
      PROVE  /\ LeftIn(q, e, p) \in 0..MaxTicks
             /\ q # <<>> /\ e[q[1]] >= 1 => LeftIn(q, e, p) >= 1
  <2>1. PICK i \in 1..Len(q) : q[i] = p
    BY MemberAt
  <2>2. LeftIn(q, e, p) = Sums(q, e)[i]
    BY <2>1, LeftAt
  <2>3. /\ Len(q) \in Nat /\ i \in 0..Len(q) /\ Len(q) \in 0..Len(q)
        /\ 1 \in 1..Len(q) /\ 1 \in 0..Len(q) /\ 1 - 1 = 0
    BY <2>1
  <2>4. Sums(q, e)[i] <= Sums(q, e)[Len(q)] /\ Sums(q, e)[1] <= Sums(q, e)[i]
    BY <2>1, <2>3, SumsGrow
  <2>5. \A n \in 0..Len(q) : Sums(q, e)[n] \in Nat
    BY SumsTypes
  <2>6. Sums(q, e)[1] = 0 + e[q[1]] /\ e[q[1]] \in Nat
    BY <2>3, SumsTypes
  <2>7. Sums(q, e)[i] \in Nat /\ Sums(q, e)[Len(q)] \in Nat /\ Sums(q, e)[1] \in Nat
    BY <2>3, <2>5
  <2>8. MaxTicks \in Nat
    BY TimerAssumption
  <2> QED BY <2>2, <2>4, <2>6, <2>7, <2>8
<1>3. 0 \in 0..MaxTicks
  BY TimerAssumption
<1> QED BY <1>1, <1>2, <1>3

LEMMA DiffsNat ==
    ASSUME NEW q, NEW e, TimersOk(q, e)
    PROVE  e \in [Owners -> Nat]
<1>1. MaxTicks \in Nat /\ \A v \in 0..MaxTicks : v \in Nat
  BY TimerAssumption
<1>2. e \in [Owners -> 0..MaxTicks]
  BY DEF TimersOk
<1> QED BY <1>1, <1>2

-----------------------------------------------------------------------------
(* add_timer keeps the invariant, gives its timer t ticks and leaves the    *)
(* ticks of all others as they are.                                         *)
Added(q, e, p, k, d, t, r, f) ==
    /\ r = InsertAt(q, k, p) /\ f = InsertedDiffs(q, e, p, k, d)
    /\ TimersOk(q, e) /\ HeadOk(q, e)
    /\ p \in Owners /\ p \notin ToSet(q)
    /\ k \in 1..(Len(q) + 1) /\ d \in Nat /\ t \in 1..MaxTicks
    /\ Sums(q, e)[k - 1] + d = t
    /\ k \in DOMAIN q => d < e[q[k]]

LEMMA AddOk ==
    ASSUME NEW q, NEW e, NEW p, NEW k, NEW d, NEW t, NEW r, NEW f,
           Added(q, e, p, k, d, t, r, f)
    PROVE  /\ TimersOk(r, f) /\ HeadOk(r, f)
           /\ ToSet(r) = ToSet(q) \cup {p}
           /\ \A x : LeftIn(r, f, x) = IF x = p THEN t ELSE LeftIn(q, e, x)
<1>0. /\ TimersOk(q, e) /\ HeadOk(q, e)
      /\ p \in Owners /\ p \notin ToSet(q)
      /\ k \in 1..(Len(q) + 1) /\ d \in Nat /\ t \in 1..MaxTicks
      /\ Sums(q, e)[k - 1] + d = t
      /\ k \in DOMAIN q => d < e[q[k]]
  BY DEF Added
<1>1. /\ q \in Seq(Owners) /\ NoRepeat(q)
      /\ \A x \in Owners : x \notin ToSet(q) => e[x] = 0
      /\ Sums(q, e)[Len(q)] <= MaxTicks
      /\ q # <<>> => e[q[1]] >= 1
  BY <1>0 DEF TimersOk, HeadOk
<1>2. e \in [Owners -> Nat]
  BY <1>0, DiffsNat
<1>3. /\ Len(q) \in Nat /\ DOMAIN q = 1..Len(q)
      /\ \A n \in 1..Len(q) : q[n] \in Owners /\ e[q[n]] \in Nat
  <2>1. Len(q) \in Nat /\ DOMAIN q = 1..Len(q) /\ \A n \in 1..Len(q) : q[n] \in Owners
    BY <1>0, <1>1
  <2> QED BY <1>0, <1>2, <2>1
<1>4. k \in DOMAIN q => d <= e[q[k]]
  BY <1>0, <1>3
<1>5. /\ r \in Seq(Owners) /\ NoRepeat(r) /\ ToSet(r) = ToSet(q) \cup {p}
      /\ Len(r) = Len(q) + 1 /\ r[k] = p
      /\ \A n \in 1..(k - 1) : r[n] = q[n]
      /\ \A n \in k..Len(q) : r[n + 1] = q[n]
  <2>1. Insertable(Owners, q, p, k)
    BY <1>0, <1>1 DEF Insertable
  <2>2. r = InsertAt(q, k, p)
    BY DEF Added
  <2> QED BY <2>1, <2>2, InsertTimer
<1>6. /\ f \in [Owners -> Nat] /\ f[p] = d
      /\ \A n \in 1..Len(q) : n # k => f[q[n]] = e[q[n]]
      /\ k \in DOMAIN q => f[q[k]] = e[q[k]] - d
      /\ \A x \in Owners : x \notin ToSet(q) \cup {p} => f[x] = e[x]
  <2>1. Divisible(Owners, q, e, p, k, d)
    BY <1>0, <1>1, <1>2, <1>4 DEF Divisible, Insertable
  <2>2. f = InsertedDiffs(q, e, p, k, d)
    BY DEF Added
  <2> QED BY <2>1, <2>2, InsertDiffs
<1>7. InsertedAt(Owners, q, e, r, f, k, d)
  <2>1. \A n \in 1..(k - 1) : n \in 1..Len(q) /\ n # k
    BY <1>0, <1>3
  <2>2. \A n \in (k + 1)..Len(q) : n \in 1..Len(q) /\ n # k /\ n \in k..Len(q)
    BY <1>0, <1>3
  <2>3. k <= Len(q) => k \in k..Len(q) /\ k \in DOMAIN q
    BY <1>0, <1>3
  <2> QED BY <1>0, <1>1, <1>2, <1>5, <1>6, <2>1, <2>2, <2>3 DEF InsertedAt
<1>8. /\ \A n \in 0..(k - 1) : Sums(r, f)[n] = Sums(q, e)[n]
      /\ Sums(r, f)[k] = Sums(q, e)[k - 1] + d
      /\ \A n \in k..Len(q) : Sums(r, f)[n + 1] = Sums(q, e)[n]
  BY <1>0, <1>7, InsertSums
<1>9. \A x \in Owners : x \notin ToSet(r) => f[x] = 0
  BY <1>0, <1>1, <1>5, <1>6
<1>10. Sums(r, f)[Len(r)] <= MaxTicks
  <2>1. CASE k = Len(q) + 1
    BY <1>0, <1>5, <1>8, <2>1
  <2>2. CASE k # Len(q) + 1
    <3>1. Len(q) \in k..Len(q)
      BY <1>0, <1>3, <2>2
    <3> QED BY <1>0, <1>1, <1>5, <1>8, <3>1
  <2> QED BY <1>0, <2>1, <2>2
<1>11. f \in [Owners -> 0..MaxTicks]
  <2>1. SumBounded(r, f)
    BY <1>0, <1>5, <1>6, <1>9, <1>10 DEF SumBounded
  <2> QED BY <1>0, <2>1, DiffsBounded
<1>12. f[r[1]] >= 1
  <2>1. CASE k = 1
    <3>1. k - 1 = 0 /\ Sums(q, e)[0] = 0
      BY <1>0, <1>1, <1>2, <2>1, SumsTypes
    <3>2. d = t
      BY <1>0, <3>1
    <3> QED BY <1>0, <1>5, <1>6, <2>1, <3>2
  <2>2. CASE k # 1
    <3>1. 1 \in 1..(k - 1) /\ 1 \in 1..Len(q) /\ q # <<>>
      BY <1>0, <1>3, <2>2
    <3>2. f[r[1]] = e[q[1]]
      BY <1>0, <1>5, <1>6, <2>2, <3>1
    <3> QED BY <1>0, <1>1, <3>1, <3>2
  <2> QED BY <1>0, <2>1, <2>2
<1>13. TimersOk(r, f) /\ HeadOk(r, f)
  BY <1>0, <1>5, <1>9, <1>10, <1>11, <1>12 DEF TimersOk, HeadOk
<1>14. LeftIn(r, f, p) = t
  <2>1. k \in 1..Len(r)
    BY <1>0, <1>3, <1>5
  <2> QED BY <1>0, <1>5, <1>8, <2>1, LeftAt
<1>15. ASSUME NEW x \in ToSet(q) PROVE LeftIn(r, f, x) = LeftIn(q, e, x)
  <2>1. PICK n \in 1..Len(q) : q[n] = x
    BY <1>0, <1>1, MemberAt
  <2>2. LeftIn(q, e, x) = Sums(q, e)[n]
    BY <1>0, <1>1, <2>1, LeftAt
  <2>3. CASE n < k
    <3>1. n \in 1..(k - 1) /\ n \in 0..(k - 1) /\ n \in 1..Len(r)
      BY <1>0, <1>3, <1>5, <2>3
    <3>2. r[n] = x
      BY <1>0, <1>5, <2>1, <3>1
    <3>3. LeftIn(r, f, x) = Sums(r, f)[n]
      BY <1>0, <1>5, <3>1, <3>2, LeftAt
    <3> QED BY <1>0, <1>8, <2>2, <3>1, <3>3
  <2>4. CASE ~(n < k)
    <3>1. n \in k..Len(q) /\ n + 1 \in 1..Len(r)
      BY <1>0, <1>3, <1>5, <2>4
    <3>2. r[n + 1] = x
      BY <1>0, <1>5, <2>1, <3>1
    <3>3. LeftIn(r, f, x) = Sums(r, f)[n + 1]
      <4> DEFINE m == n + 1
      <4>1. m \in 1..Len(r) /\ r[m] = x
        BY <1>0, <3>1, <3>2
      <4> HIDE DEF m
      <4>2. LeftIn(r, f, x) = Sums(r, f)[m]
        BY <1>5, <4>1, LeftAt
      <4> QED BY <1>0, <4>2 DEF m
    <3> QED BY <1>0, <1>8, <2>2, <3>1, <3>3
  <2> QED BY <1>0, <2>3, <2>4
<1>16. \A x : x \notin ToSet(r) => LeftIn(r, f, x) = 0 /\ LeftIn(q, e, x) = 0
  BY <1>0, <1>5 DEF LeftIn
<1>17. \A x : LeftIn(r, f, x) = IF x = p THEN t ELSE LeftIn(q, e, x)
  BY <1>0, <1>5, <1>14, <1>15, <1>16
<1> QED BY <1>0, <1>5, <1>13, <1>17

(* del_timer keeps the invariant and the ticks of all others.               *)
Removed(q, e, i, r, f) ==
    /\ TimersOk(q, e) /\ i \in 1..Len(q)
    /\ r = RemoveAt(q, i) /\ f = DeletedDiffs(q, e, i)

LEMMA DelOk ==
    ASSUME NEW q, NEW e, NEW i, NEW r, NEW f, Removed(q, e, i, r, f)
    PROVE  /\ TimersOk(r, f)
           /\ HeadOk(q, e) => HeadOk(r, f)
           /\ ToSet(r) = ToSet(q) \ {q[i]}
           /\ \A x : LeftIn(r, f, x) = IF x = q[i] THEN 0 ELSE LeftIn(q, e, x)
<1>0. /\ TimersOk(q, e) /\ i \in 1..Len(q)
      /\ r = RemoveAt(q, i) /\ f = DeletedDiffs(q, e, i)
  BY DEF Removed
<1>1. /\ q \in Seq(Owners) /\ NoRepeat(q) /\ i \in 1..Len(q)
      /\ \A x \in Owners : x \notin ToSet(q) => e[x] = 0
      /\ Sums(q, e)[Len(q)] <= MaxTicks
  BY <1>0 DEF TimersOk
<1>2. e \in [Owners -> Nat]
  BY <1>0, DiffsNat
<1>3. /\ Len(q) \in Nat /\ DOMAIN q = 1..Len(q)
      /\ \A n \in 1..Len(q) : q[n] \in Owners /\ e[q[n]] \in Nat
  <2>1. Len(q) \in Nat /\ DOMAIN q = 1..Len(q) /\ \A n \in 1..Len(q) : q[n] \in Owners
    BY <1>1
  <2> QED BY <1>2, <2>1
<1>4. Deletable(Owners, q, i) /\ Joinable(Owners, q, e, i)
  BY <1>1, <1>2 DEF Deletable, Joinable
<1>5. /\ r \in Seq(Owners) /\ NoRepeat(r) /\ ToSet(r) = ToSet(q) \ {q[i]}
      /\ Len(r) = Len(q) - 1
      /\ \A n \in 1..(i - 1) : r[n] = q[n]
      /\ \A n \in i..(Len(q) - 1) : r[n] = q[n + 1]
  <2>1. r = RemoveAt(q, i)
    BY <1>0
  <2> QED BY <1>4, <2>1, DeleteTimer
<1>6. /\ f \in [Owners -> Nat] /\ f[q[i]] = 0
      /\ \A n \in 1..Len(q) : n # i /\ n # i + 1 => f[q[n]] = e[q[n]]
      /\ i + 1 \in DOMAIN q => f[q[i + 1]] = e[q[i + 1]] + e[q[i]]
      /\ \A x \in Owners : x \notin ToSet(q) => f[x] = e[x]
  BY <1>0, <1>4, DeleteDiffs
<1>7. Deleted(Owners, q, e, r, f, i)
  <2>1. \A n \in 1..(i - 1) : n \in 1..Len(q) /\ n # i /\ n # i + 1
    BY <1>1, <1>3
  <2>2. \A n \in (i + 1)..(Len(q) - 1) : /\ n + 1 \in 1..Len(q) /\ n + 1 # i
                                          /\ n + 1 # i + 1 /\ n \in i..(Len(q) - 1)
    BY <1>1, <1>3
  <2>3. i <= Len(q) - 1 => i \in i..(Len(q) - 1) /\ i + 1 \in DOMAIN q
    BY <1>1, <1>3
  <2>4. ASSUME NEW n \in (i + 1)..(Len(q) - 1) PROVE f[r[n]] = e[q[n + 1]]
    <3> DEFINE m == n + 1
    <3>1. m \in 1..Len(q) /\ m # i /\ m # i + 1 /\ r[n] = q[m]
      BY <1>5, <2>2
    <3> HIDE DEF m
    <3>2. f[q[m]] = e[q[m]]
      BY <1>6, <3>1
    <3> QED BY <3>1, <3>2 DEF m
  <2>5. \A n \in 1..(i - 1) : f[r[n]] = e[q[n]]
    BY <1>1, <1>5, <1>6, <2>1
  <2>6. i <= Len(q) - 1 => f[r[i]] = e[q[i + 1]] + e[q[i]]
    BY <1>1, <1>5, <1>6, <2>3
  <2>7. Len(r) = Len(q) - 1 /\ r \in Seq(Owners) /\ f \in [Owners -> Nat]
    BY <1>1, <1>5, <1>6
  <2> QED BY <1>1, <1>2, <2>4, <2>5, <2>6, <2>7 DEF Deleted
<1>8. /\ \A n \in 0..(i - 1) : Sums(r, f)[n] = Sums(q, e)[n]
      /\ \A n \in i..(Len(q) - 1) : Sums(r, f)[n] = Sums(q, e)[n + 1]
  BY <1>7, DeleteSums
<1>9. \A x \in Owners : x \notin ToSet(r) => f[x] = 0
  BY <1>1, <1>5, <1>6
<1>10. Sums(r, f)[Len(r)] <= MaxTicks
  <2>1. CASE i = Len(q)
    <3>1. /\ Len(q) - 1 \in 0..(i - 1) /\ Len(q) - 1 \in 0..Len(q)
          /\ Len(q) \in 0..Len(q) /\ Len(q) - 1 <= Len(q)
      BY <1>1, <1>3, <2>1
    <3>2. Sums(q, e)[Len(q) - 1] <= Sums(q, e)[Len(q)]
      BY <1>1, <1>2, <3>1, SumsGrow
    <3>3. Sums(r, f)[Len(r)] = Sums(q, e)[Len(q) - 1]
      BY <1>5, <1>8, <3>1
    <3>4. Sums(q, e)[Len(q) - 1] \in Nat /\ Sums(q, e)[Len(q)] \in Nat
      <4>1. \A n \in 0..Len(q) : Sums(q, e)[n] \in Nat
        BY <1>1, <1>2, SumsTypes
      <4> QED BY <3>1, <4>1
    <3>5. MaxTicks \in Nat
      BY TimerAssumption
    <3> QED BY <1>1, <3>2, <3>3, <3>4, <3>5
  <2>2. CASE i # Len(q)
    <3>1. Len(q) - 1 \in i..(Len(q) - 1) /\ (Len(q) - 1) + 1 = Len(q)
      <4>1. i \in 1..Len(q) /\ Len(q) \in Nat
        BY <1>1, <1>3
      <4> QED BY <2>2, <4>1
    <3> QED BY <1>1, <1>5, <1>8, <3>1
  <2> QED BY <2>1, <2>2
<1>11. f \in [Owners -> 0..MaxTicks]
  <2>1. SumBounded(r, f)
    BY <1>5, <1>6, <1>9, <1>10 DEF SumBounded
  <2> QED BY <2>1, DiffsBounded
<1>12. ASSUME HeadOk(q, e), r # <<>> PROVE f[r[1]] >= 1
  <2>1. Len(q) >= 2 /\ 1 \in 1..Len(q) /\ q # <<>>
    <3>1. Len(r) # 0
      <4>1. r \in Seq(Owners) /\ r # <<>>
        BY <1>5, <1>12
      <4> QED BY <4>1
    <3>2. Len(r) = Len(q) - 1 /\ Len(r) \in Nat
      BY <1>5
    <3>3. Len(q) \in Nat /\ Len(q) >= 2
      BY <1>1, <1>3, <3>1, <3>2
    <3>4. q # <<>>
      BY <3>3
    <3> QED BY <3>3, <3>4
  <2>2. e[q[1]] >= 1 /\ e[q[1]] \in Nat
    BY <1>1, <1>3, <1>12, <2>1 DEF HeadOk
  <2>3. CASE i = 1
    <3>1. 1 \in i..(Len(q) - 1) /\ 1 + 1 = 2 /\ 2 \in 1..Len(q)
      BY <1>1, <1>3, <2>1, <2>3
    <3>2. r[1] = q[2]
      BY <1>5, <3>1
    <3>3. f[q[2]] = e[q[2]] + e[q[1]]
      BY <1>1, <1>3, <1>6, <2>3, <3>1
    <3>4. e[q[2]] \in Nat
      BY <1>1, <1>3, <3>1
    <3> QED BY <2>2, <3>2, <3>3, <3>4
  <2>4. CASE i # 1
    <3>1. 1 \in 1..(i - 1) /\ 1 # i /\ 1 # i + 1
      BY <1>1, <1>3, <2>4
    <3>2. r[1] = q[1] /\ f[q[1]] = e[q[1]]
      BY <1>1, <1>5, <1>6, <2>1, <3>1
    <3> QED BY <2>2, <3>2
  <2> QED BY <2>3, <2>4
<1>13. TimersOk(r, f) /\ (HeadOk(q, e) => HeadOk(r, f))
  BY <1>1, <1>5, <1>9, <1>10, <1>11, <1>12 DEF TimersOk, HeadOk
<1>14. ASSUME NEW x \in ToSet(r) PROVE LeftIn(r, f, x) = LeftIn(q, e, x)
  <2>1. PICK n \in 1..Len(q) : q[n] = x
    BY <1>1, <1>5, MemberAt
  <2>2. LeftIn(q, e, x) = Sums(q, e)[n]
    BY <1>1, <2>1, LeftAt
  <2>3. n # i
    BY <1>5, <1>14, <2>1
  <2>4. CASE n < i
    <3>1. n \in 1..(i - 1) /\ n \in 0..(i - 1) /\ n \in 1..Len(r)
      BY <1>1, <1>3, <1>5, <2>4
    <3>2. r[n] = x
      BY <1>5, <2>1, <3>1
    <3>3. LeftIn(r, f, x) = Sums(r, f)[n]
      BY <1>5, <3>1, <3>2, LeftAt
    <3> QED BY <1>8, <2>2, <3>1, <3>3
  <2>5. CASE n > i
    <3> DEFINE m == n - 1
    <3>1. m \in i..(Len(q) - 1) /\ m \in 1..Len(r) /\ m + 1 = n
      BY <1>1, <1>3, <1>5, <2>5
    <3> HIDE DEF m
    <3>2. r[m] = x
      BY <1>5, <2>1, <3>1
    <3>3. LeftIn(r, f, x) = Sums(r, f)[m]
      BY <1>5, <3>1, <3>2, LeftAt
    <3>4. Sums(r, f)[m] = Sums(q, e)[n]
      BY <1>8, <3>1
    <3> QED BY <2>2, <3>3, <3>4
  <2>6. n < i \/ n > i
    BY <1>1, <1>3, <2>3
  <2> QED BY <2>4, <2>5, <2>6
<1>15. \A x : x \notin ToSet(r) => LeftIn(r, f, x) = 0
  BY DEF LeftIn
<1>16. \A x : x \notin ToSet(q) => LeftIn(q, e, x) = 0
  BY DEF LeftIn
<1>17. \A x : LeftIn(r, f, x) = IF x = q[i] THEN 0 ELSE LeftIn(q, e, x)
  BY <1>5, <1>14, <1>15, <1>16
<1> QED BY <1>5, <1>13, <1>17

(* The tick takes one from each timer in the list.                          *)
LEMMA TickOk ==
    ASSUME NEW q, NEW e, TimersOk(q, e), HeadOk(q, e), q # <<>>,
           NEW f, f = [e EXCEPT ![q[1]] = @ - 1]
    PROVE  /\ TimersOk(q, f)
           /\ \A x \in ToSet(q) : LeftIn(q, f, x) = LeftIn(q, e, x) - 1
<1>1. /\ q \in Seq(Owners) /\ NoRepeat(q)
      /\ \A x \in Owners : x \notin ToSet(q) => e[x] = 0
      /\ Sums(q, e)[Len(q)] <= MaxTicks
      /\ e[q[1]] >= 1
  BY DEF TimersOk, HeadOk
<1>2. e \in [Owners -> Nat]
  BY DiffsNat
<1>3. /\ Len(q) \in Nat \ {0} /\ DOMAIN q = 1..Len(q)
      /\ \A n \in 1..Len(q) : q[n] \in Owners /\ q[n] \in ToSet(q)
  BY <1>1 DEF ToSet
<1>4. 1 \in 1..Len(q) /\ q[1] \in Owners /\ q[1] \in ToSet(q) /\ Len(q) \in 1..Len(q)
  BY <1>3
<1>5. /\ f \in [Owners -> Nat] /\ f[q[1]] = e[q[1]] - 1
      /\ \A x \in Owners : x # q[1] => f[x] = e[x]
  <2>1. e[q[1]] - 1 \in Nat
    BY <1>1, <1>2, <1>4
  <2> QED BY <1>2, <1>4, <2>1
<1>6. \A n \in 1..Len(q) : n # 1 => f[q[n]] = e[q[n]]
  BY <1>1, <1>3, <1>4, <1>5 DEF NoRepeat
<1>7. \A n \in 1..Len(q) : Sums(q, f)[n] = Sums(q, e)[n] - 1
  <2>1. Ticked(Owners, q, e, f)
    BY <1>1, <1>2, <1>5, <1>6 DEF Ticked
  <2> QED BY <2>1, TickSums
<1>8. \A n \in 0..Len(q) : Sums(q, e)[n] \in Nat
  BY <1>1, <1>2, SumsTypes
<1>9. \A x \in Owners : x \notin ToSet(q) => f[x] = 0
  BY <1>1, <1>4, <1>5
<1>10. Sums(q, f)[Len(q)] <= MaxTicks
  <2>1. Sums(q, f)[Len(q)] = Sums(q, e)[Len(q)] - 1
    BY <1>4, <1>7
  <2>2. Sums(q, e)[Len(q)] \in Nat /\ MaxTicks \in Nat
    BY <1>3, <1>8, TimerAssumption
  <2> QED BY <1>1, <2>1, <2>2
<1>11. f \in [Owners -> 0..MaxTicks]
  <2>1. SumBounded(q, f)
    BY <1>1, <1>5, <1>9, <1>10 DEF SumBounded
  <2> QED BY <2>1, DiffsBounded
<1>12. TimersOk(q, f)
  BY <1>1, <1>9, <1>10, <1>11 DEF TimersOk
<1>13. ASSUME NEW x \in ToSet(q) PROVE LeftIn(q, f, x) = LeftIn(q, e, x) - 1
  <2>1. PICK n \in 1..Len(q) : q[n] = x
    BY <1>1, MemberAt
  <2>2. LeftIn(q, e, x) = Sums(q, e)[n] /\ LeftIn(q, f, x) = Sums(q, f)[n]
    BY <1>1, <2>1, LeftAt
  <2> QED BY <1>7, <2>2
<1> QED BY <1>12, <1>13

-----------------------------------------------------------------------------
(* Where add_timer's loop stops: before the first timer that has more ticks *)
(* left than the new one, which then takes what the loop has not spent.     *)
LEMMA PlaceOk ==
    ASSUME TimerInv, ~serving, NEW t \in 1..MaxTicks
    PROVE  LET k == Place(t)
               d == t - Before(k)
           IN  /\ k \in 1..(Len(timer_list) + 1)
               /\ d \in Nat
               /\ Sums(timer_list, expires)[k - 1] + d = t
               /\ k \in DOMAIN timer_list => d < expires[timer_list[k]]
<1> DEFINE q == timer_list
           e == expires
           k == Place(t)
           d == t - Before(k)
           stops == {i \in DOMAIN q : Stops(t, i)}
<1>1. q \in Seq(Owners) /\ e \in [Owners -> Nat] /\ t \in Nat
  <2>1. q \in Seq(Owners) /\ TimersOk(q, e)
    BY DEF TimerInv, TimersOk
  <2> QED BY <2>1, DiffsNat
<1>2. Len(q) \in Nat /\ DOMAIN q = 1..Len(q)
  BY <1>1
<1>3. \A n \in 0..Len(q) : Sums(q, e)[n] \in Nat
  BY <1>1, SumsTypes
<1>4. /\ Sums(q, e)[0] = 0
      /\ \A n \in 1..Len(q) : Sums(q, e)[n] = Sums(q, e)[n - 1] + e[q[n]]
      /\ \A n \in 1..Len(q) : e[q[n]] \in Nat
  BY <1>1, SumsTypes
<1>5. \A i \in 1..Len(q) : Stops(t, i) <=> t - Sums(q, e)[i - 1] < e[q[i]]
  BY BeforeIsSum DEF Stops
<1>6. CASE stops = {}
  <2>1. k = Len(q) + 1
    BY <1>6 DEF Place
  <2>2. Before(k) = Sums(q, e)[Len(q)]
    <3>1. k - 1 = Len(q)
      BY <1>2, <2>1
    <3> QED BY <3>1, BeforeIsSum
  <2>3. Sums(q, e)[Len(q)] \in Nat /\ Sums(q, e)[Len(q)] <= t
    <3>1. CASE Len(q) = 0
      BY <1>1, <1>4, <3>1
    <3>2. CASE Len(q) # 0
      <4> DEFINE n == Len(q)
      <4>1. n \in 1..Len(q) /\ n \in 0..Len(q) /\ n - 1 \in 0..Len(q) /\ n \in DOMAIN q
        BY <1>2, <3>2
      <4>2. ~(t - Sums(q, e)[n - 1] < e[q[n]])
        BY <1>5, <1>6, <4>1
      <4>3. Sums(q, e)[n] = Sums(q, e)[n - 1] + e[q[n]] /\ e[q[n]] \in Nat
        BY <1>4, <4>1
      <4>4. Sums(q, e)[n - 1] \in Nat
        BY <1>3, <4>1
      <4> HIDE DEF n
      <4>5. Sums(q, e)[n] \in Nat /\ Sums(q, e)[n] <= t
        BY <1>1, <4>2, <4>3, <4>4
      <4> QED BY <4>5 DEF n
    <3> QED BY <3>1, <3>2
  <2>4. d \in Nat /\ Sums(q, e)[Len(q)] + d = t
    BY <1>1, <2>2, <2>3
  <2>5. k - 1 = Len(q) /\ k \in 1..(Len(q) + 1) /\ k \notin DOMAIN q
    BY <1>2, <2>1
  <2> QED BY <2>4, <2>5
<1>7. CASE stops # {}
  <2>1. k = CHOOSE i \in stops : \A j \in stops : i <= j
    BY <1>7 DEF Place
  <2>2. stops \subseteq Nat
    BY <1>2
  <2>3. \E i \in stops : \A j \in stops : i <= j
    <3> HIDE DEF stops
    <3> QED BY <1>7, <2>2, LeastNat
  <2> HIDE DEF k
  <2>4. k \in stops /\ \A j \in stops : k <= j
    <3> HIDE DEF stops
    <3> QED BY <2>1, <2>3
  <2>5. k \in 1..Len(q) /\ k - 1 \in 0..Len(q) /\ k \in 1..(Len(q) + 1)
    BY <1>2, <2>4
  <2>6. Before(k) = Sums(q, e)[k - 1] /\ Sums(q, e)[k - 1] \in Nat
    BY <1>3, <2>5, BeforeIsSum
  <2>7. d < e[q[k]]
    BY <1>5, <2>4, <2>5, <2>6
  <2>8. Sums(q, e)[k - 1] <= t
    <3>1. CASE k = 1
      <4>1. k - 1 = 0
        BY <3>1
      <4> QED BY <1>1, <1>4, <4>1
    <3>2. CASE k # 1
      <4> DEFINE n == k - 1
      <4>1. n \in 1..Len(q) /\ n - 1 \in 0..Len(q) /\ n \in DOMAIN q /\ ~(k <= n)
        BY <1>2, <2>5, <3>2
      <4>2. n \notin stops
        BY <2>4, <4>1
      <4>3. ~(t - Sums(q, e)[n - 1] < e[q[n]])
        BY <1>5, <4>1, <4>2
      <4>4. Sums(q, e)[n] = Sums(q, e)[n - 1] + e[q[n]] /\ e[q[n]] \in Nat
        BY <1>4, <4>1
      <4>5. Sums(q, e)[n - 1] \in Nat
        BY <1>3, <4>1
      <4> HIDE DEF n
      <4>6. Sums(q, e)[n] <= t
        BY <1>1, <4>3, <4>4, <4>5
      <4> QED BY <4>6 DEF n
    <3> QED BY <3>1, <3>2
  <2>9. d \in Nat /\ Sums(q, e)[k - 1] + d = t
    BY <1>1, <2>6, <2>8
  <2> QED BY <2>5, <2>7, <2>9 DEF k
<1> QED BY <1>6, <1>7

-----------------------------------------------------------------------------
(* The steps of the module in terms of the lemmas above.                    *)

(* Every call of add_timer.                                                 *)
LEMMA AddStep ==
    ASSUME TimerInv, NEW p \in Owners, Add(p)
    PROVE  /\ TimerInv'
           /\ p \notin Linked /\ Linked' = Linked \cup {p}
           /\ \E t \in 1..MaxTicks : \A x :
                 LeftIn(timer_list', expires', x)
                    = IF x = p THEN t ELSE LeftIn(timer_list, expires, x)
<1> DEFINE q == timer_list
           e == expires
<1>1. ~serving /\ serving' = serving /\ serving \in BOOLEAN /\ TimersOk(q, e) /\ HeadOk(q, e)
  BY DEF Add, TimerInv
<1>2. PICK t \in 1..MaxTicks : add_timer(p, t)
  BY DEF Add
<1> DEFINE k == Place(t)
           d == t - Before(k)
<1>3. /\ k \in 1..(Len(q) + 1) /\ d \in Nat
      /\ Sums(q, e)[k - 1] + d = t
      /\ k \in DOMAIN q => d < e[q[k]]
  BY <1>1, PlaceOk
<1>4. /\ p \notin ToSet(q)
      /\ timer_list' = InsertAt(q, k, p)
      /\ expires' = InsertedDiffs(q, e, p, k, d)
  BY <1>2 DEF add_timer, Shortened, InsertedDiffs, Linked
<1> HIDE DEF k, d
<1>5. /\ TimersOk(timer_list', expires') /\ HeadOk(timer_list', expires')
      /\ ToSet(timer_list') = ToSet(q) \cup {p}
      /\ \A x : LeftIn(timer_list', expires', x) = IF x = p THEN t ELSE LeftIn(q, e, x)
  <2>1. Added(q, e, p, k, d, t, timer_list', expires')
    BY <1>1, <1>3, <1>4 DEF Added
  <2>2. TimersOk(timer_list', expires') /\ HeadOk(timer_list', expires')
    BY <2>1, AddOk
  <2>3. ToSet(timer_list') = ToSet(q) \cup {p}
    BY <2>1, AddOk
  <2>4. \A x : LeftIn(timer_list', expires', x) = IF x = p THEN t ELSE LeftIn(q, e, x)
    BY <2>1, AddOk
  <2> QED BY <2>2, <2>3, <2>4
<1>6. TimerInv'
  BY <1>1, <1>5 DEF TimerInv
<1> QED BY <1>4, <1>5, <1>6 DEF Linked

(* Every call of del_timer for a timer that is in the list.                 *)
LEMMA DelStep ==
    ASSUME TimerInv, NEW p \in Linked, del_timer(p)
    PROVE  /\ TimersOk(timer_list', expires')
           /\ HeadOk(timer_list, expires) => HeadOk(timer_list', expires')
           /\ Linked' = Linked \ {p}
           /\ \A x : LeftIn(timer_list', expires', x)
                        = IF x = p THEN 0 ELSE LeftIn(timer_list, expires, x)
<1> DEFINE q == timer_list
           e == expires
           i == CHOOSE j \in DOMAIN q : q[j] = p
<1>1. TimersOk(q, e) /\ q \in Seq(Owners)
  BY DEF TimerInv, TimersOk
<1>2. i \in 1..Len(q) /\ q[i] = p
  <2>1. \E j \in DOMAIN q : q[j] = p
    BY DEF Linked, ToSet
  <2>2. DOMAIN q = 1..Len(q)
    BY <1>1
  <2> QED BY <2>1, <2>2
<1>3. /\ timer_list' = RemoveAt(q, i)
      /\ expires' = [Returned(i) EXCEPT ![p] = 0]
  BY DEF del_timer
<1> HIDE DEF i
<1>4. expires' = DeletedDiffs(q, e, i)
  BY <1>2, <1>3 DEF Returned, DeletedDiffs
<1>5. Removed(q, e, i, timer_list', expires')
  BY <1>1, <1>2, <1>3, <1>4 DEF Removed
<1>6. /\ TimersOk(timer_list', expires')
      /\ HeadOk(q, e) => HeadOk(timer_list', expires')
  BY <1>5, DelOk
<1>7. ToSet(timer_list') = ToSet(q) \ {p}
  BY <1>2, <1>5, DelOk
<1>8. \A x : LeftIn(timer_list', expires', x) = IF x = q[i] THEN 0 ELSE LeftIn(q, e, x)
  BY <1>5, DelOk
<1> QED BY <1>2, <1>6, <1>7, <1>8 DEF Linked

(* The decrement of run_timer_list.                                         *)
LEMMA EnterStep ==
    ASSUME TimerInv, Enter
    PROVE  /\ TimerInv'
           /\ timer_list' = timer_list
           /\ \A x \in Linked : /\ LeftIn(timer_list, expires, x) >= 1
                                /\ LeftIn(timer_list', expires', x)
                                      = LeftIn(timer_list, expires, x) - 1
<1> DEFINE q == timer_list
           e == expires
<1>1. /\ TimersOk(q, e) /\ HeadOk(q, e) /\ serving' = TRUE /\ timer_list' = q
      /\ q \in Seq(Owners) /\ NoRepeat(q) /\ Sums(q, e)[Len(q)] <= MaxTicks
  BY DEF Enter, TimerInv, TimersOk
<1>2. CASE q = <<>>
  <2>1. expires' = e
    BY <1>2 DEF Enter
  <2>2. Linked = {}
    BY <1>2 DEF Linked, ToSet
  <2> QED BY <1>1, <2>1, <2>2 DEF TimerInv
<1>3. CASE q # <<>>
  <2>1. Head(q) = q[1]
    BY <1>1, <1>3
  <2>2. expires' = [e EXCEPT ![q[1]] = @ - 1]
    BY <1>3, <2>1 DEF Enter
  <2>3. TimersOk(q, expires')
    BY <1>1, <1>3, <2>2, TickOk
  <2>4. \A x \in ToSet(q) : LeftIn(q, expires', x) = LeftIn(q, e, x) - 1
    BY <1>1, <1>3, <2>2, TickOk
  <2>5. \A x \in ToSet(q) : LeftIn(q, e, x) >= 1
    <3>1. e \in [Owners -> Nat] /\ e[q[1]] >= 1
      BY <1>1, <1>3, DiffsNat DEF HeadOk
    <3> QED BY <1>1, <1>3, <3>1, LeftBounds
  <2> QED BY <1>1, <2>3, <2>4, <2>5 DEF TimerInv, Linked
<1> QED BY <1>2, <1>3

(* The end of run_timer_list: no timer is due.                              *)
LEMMA LeaveStep ==
    ASSUME TimerInv, Leave
    PROVE  /\ TimerInv'
           /\ \A x \in Linked : LeftIn(timer_list, expires, x) >= 1
<1> DEFINE q == timer_list
           e == expires
<1>1. /\ TimersOk(q, e) /\ serving' = FALSE /\ timer_list' = q /\ expires' = e
      /\ q \in Seq(Owners) /\ NoRepeat(q) /\ Sums(q, e)[Len(q)] <= MaxTicks
  BY DEF Leave, TimerInv, TimersOk
<1>2. e \in [Owners -> Nat]
  BY <1>1, DiffsNat
<1>3. ASSUME q # <<>> PROVE e[q[1]] >= 1
  <2>1. Head(q) = q[1] /\ q[1] \in Owners
    BY <1>1, <1>3
  <2>2. e[q[1]] # 0 /\ e[q[1]] \in Nat
    BY <1>2, <1>3, <2>1 DEF Leave, HeadExpired
  <2> QED BY <2>2
<1>4. HeadOk(q, e)
  BY <1>3 DEF HeadOk
<1>5. \A x \in ToSet(q) : LeftIn(q, e, x) >= 1
  <2>1. CASE q = <<>>
    BY <2>1 DEF ToSet
  <2>2. CASE q # <<>>
    BY <1>1, <1>2, <1>3, <2>2, LeftBounds
  <2> QED BY <2>1, <2>2
<1> QED BY <1>1, <1>4, <1>5 DEF TimerInv, Linked

-----------------------------------------------------------------------------
(* The invariant.                                                           *)

LEMMA InitTimer == TimerInit => TimerInv
<1> SUFFICES ASSUME TimerInit PROVE TimerInv
  OBVIOUS
<1>1. timer_list = <<>> /\ expires = [p \in Owners |-> 0] /\ serving = FALSE
  BY DEF TimerInit
<1>2. timer_list \in Seq(Owners) /\ NoRepeat(timer_list) /\ Len(timer_list) = 0
  BY <1>1 DEF NoRepeat
<1>3. expires \in [Owners -> Nat]
  BY <1>1
<1>4. Sums(timer_list, expires)[0] = 0
  BY <1>2, <1>3, SumsTypes
<1>5. 0 \in 0..MaxTicks /\ 0 <= MaxTicks
  BY TimerAssumption
<1> QED BY <1>1, <1>2, <1>4, <1>5 DEF TimerInv, TimersOk, HeadOk

(* What a step may be.                                                      *)
LEMMA TimerStep ==
    ASSUME TimerInv, TimerNext
    PROVE  TimerInv'
<1>1. CASE Enter
  BY <1>1, EnterStep
<1>2. CASE Leave
  BY <1>2, LeaveStep
<1>3. CASE Expire
  <2>1. timer_list # <<>> /\ timer_list \in Seq(Owners) /\ serving
    BY <1>3 DEF Expire, HeadExpired, TimerInv, TimersOk
  <2>2. Head(timer_list) \in Linked
    <3>1. 1 \in DOMAIN timer_list /\ Head(timer_list) = timer_list[1]
      BY <2>1
    <3> QED BY <3>1 DEF Linked, ToSet
  <2>3. TimersOk(timer_list', expires')
    BY <1>3, <2>2, DelStep DEF Expire
  <2> QED BY <1>3, <2>1, <2>3 DEF Expire, TimerInv
<1>4. ASSUME NEW p \in Owners, Add(p) PROVE TimerInv'
  BY <1>4, AddStep
<1>5. ASSUME NEW p \in Owners, Del(p) PROVE TimerInv'
  <2>1. ~serving /\ serving' = serving /\ del_timer(p)
    BY <1>5 DEF Del
  <2>2. TimersOk(timer_list, expires) /\ HeadOk(timer_list, expires) /\ serving \in BOOLEAN
    BY <2>1 DEF TimerInv
  <2>3. CASE p \in Linked
    <3>1. TimersOk(timer_list', expires') /\ HeadOk(timer_list', expires')
      BY <2>1, <2>2, <2>3, DelStep
    <3> QED BY <2>1, <2>2, <3>1 DEF TimerInv
  <2>4. CASE p \notin Linked
    <3>1. timer_list' = timer_list /\ expires' = expires
      BY <2>1, <2>4 DEF del_timer
    <3> QED BY <2>1, <2>2, <3>1 DEF TimerInv
  <2> QED BY <2>3, <2>4
<1> QED BY <1>1, <1>2, <1>3, <1>4, <1>5 DEF TimerNext

(* No difference of the timer list is ever negative, whatever timers are    *)
(* added, deleted and run out, and what the assertion in run_timer_list     *)
(* asks of the head holds whenever the routine is entered.                  *)
THEOREM TimerInvariant == TimerSpec => []TimerInv
<1>1. TimerInit => TimerInv
  BY InitTimer
<1>2. TimerInv /\ [TimerNext]_timerVars => TimerInv'
  <2> SUFFICES ASSUME TimerInv, [TimerNext]_timerVars PROVE TimerInv'
    OBVIOUS
  <2>1. CASE TimerNext
    BY <2>1, TimerStep
  <2>2. CASE UNCHANGED timerVars
    BY <2>2 DEF TimerInv, timerVars
  <2> QED BY <2>1, <2>2
<1> QED BY <1>1, <1>2, PTL DEF TimerSpec

(* The type invariant of the timer list (add_timer, del_timer and           *)
(* run_timer_list): differences from 0 to MaxTicks, and each process has    *)
(* one timer in the list at most.                                           *)
THEOREM TimersTyped == TimerSpec => []TimerTypeOK
<1>1. TimerInv => TimerTypeOK
  BY DEF TimerInv, TimersOk, TimerTypeOK, NoRepeat
<1> QED BY <1>1, TimerInvariant, PTL

-----------------------------------------------------------------------------
(* The refinement.                                                          *)

LEMMA LeftUnfold ==
    ASSUME NEW q \in Seq(Owners), NEW e, NEW p
    PROVE  (IF p \in ToSet(q)
            THEN Sums(q, e)[((CHOOSE j \in DOMAIN q : q[j] = p) + 1) - 1] ELSE 0)
              = LeftIn(q, e, p)
<1>1. CASE p \in ToSet(q)
  <2> DEFINE i == CHOOSE j \in DOMAIN q : q[j] = p
  <2>1. \E j \in DOMAIN q : q[j] = p
    BY <1>1 DEF ToSet
  <2>2. i \in DOMAIN q
    BY <2>1
  <2>3. i \in 1..Len(q)
    BY <2>2
  <2> HIDE DEF i
  <2>4. (i + 1) - 1 = i
    BY <2>3
  <2>5. Sums(q, e)[(i + 1) - 1] = Sums(q, e)[i]
    BY <2>4
  <2>6. LeftIn(q, e, p) = Sums(q, e)[i]
    BY <1>1 DEF i, LeftIn
  <2> QED BY <1>1, <2>5, <2>6, Zenon DEF i
<1>2. CASE p \notin ToSet(q)
  BY <1>2 DEF LeftIn
<1> QED BY <1>1, <1>2

(* The refinement mapping of the module is the ticks left.                  *)
LEMMA LeftIs ==
    ASSUME timer_list \in Seq(Owners), NEW p
    PROVE  Left(p) = LeftIn(timer_list, expires, p)
<1>1. Left(p) = (IF p \in ToSet(timer_list)
                 THEN Sums(timer_list, expires)
                        [((CHOOSE j \in DOMAIN timer_list : timer_list[j] = p) + 1) - 1]
                 ELSE 0)
  BY BeforeIsSum DEF Left, Linked, Position
<1> QED BY <1>1, LeftUnfold

(* What the refinement mapping makes of a state: the ticks left, and those  *)
(* in the list with none left.                                              *)
Ticks == [p \in Owners |-> LeftIn(timer_list, expires, p)]
Due == {p \in Linked : LeftIn(timer_list, expires, p) = 0}

LEMMA Mapping ==
    ASSUME TimerInv, TimerInv'
    PROVE  /\ [p \in Owners |-> Left(p)] = Ticks
           /\ [p \in Owners |-> Left(p)]' = Ticks'
           /\ {p \in Linked : Left(p) = 0} = Due
           /\ {p \in Linked : Left(p) = 0}' = Due'
<1>1. timer_list \in Seq(Owners) /\ timer_list' \in Seq(Owners)
  BY DEF TimerInv, TimersOk
<1>2. \A p : Left(p) = LeftIn(timer_list, expires, p)
  BY <1>1, LeftIs
<1>3. \A p : Left(p)' = LeftIn(timer_list', expires', p)
  <2> TAKE p
  <2>1. Left(p)' = (IF p \in ToSet(timer_list')
                    THEN Sums(timer_list', expires')
                           [((CHOOSE j \in DOMAIN timer_list' : timer_list'[j] = p) + 1) - 1]
                    ELSE 0)
    BY DEF Left, Linked, Position, Before, Sums
  <2> QED BY <1>1, <2>1, LeftUnfold
<1> QED BY <1>2, <1>3, Zenon DEF Ticks, Due

(* Which of the steps of the independent timers each step is.               *)
LEMMA StepMapped ==
    ASSUME TimerInv, TimerInv', TimerNext
    PROVE  \/ Independent!TimeoutsNext
           \/ UNCHANGED Independent!clock
<1> DEFINE L == [p \in Owners |-> Left(p)]
           D == {p \in Linked : Left(p) = 0}
<1>1. L = Ticks /\ L' = Ticks' /\ D = Due /\ D' = Due'
  BY Mapping
<1>2. \A p \in Owners : Ticks[p] = LeftIn(timer_list, expires, p)
  BY DEF Ticks
<1>3. \A p \in Owners : Ticks'[p] = LeftIn(timer_list', expires', p)
  BY DEF Ticks
<1>4. timer_list \in Seq(Owners) /\ Linked \subseteq Owners /\ Linked' \subseteq Owners
  <2>1. timer_list \in Seq(Owners) /\ timer_list' \in Seq(Owners)
    BY DEF TimerInv, TimersOk
  <2> QED BY <2>1 DEF Linked, ToSet
<1>5. \A p : p \notin Linked => LeftIn(timer_list, expires, p) = 0
  BY DEF LeftIn, Linked
<1>6. \A p \in Owners : Ticks[p] \in 0..MaxTicks
  <2>1. TimersOk(timer_list, expires)
    BY DEF TimerInv
  <2>2. expires \in [Owners -> Nat]
    BY <2>1, DiffsNat
  <2>3. /\ timer_list \in Seq(Owners) /\ NoRepeat(timer_list)
        /\ Sums(timer_list, expires)[Len(timer_list)] <= MaxTicks
    BY <2>1 DEF TimersOk
  <2> QED BY <1>2, <2>2, <2>3, LeftBounds
<1>7. ASSUME ~serving PROVE Due = {}
  <2>1. TimersOk(timer_list, expires) /\ HeadOk(timer_list, expires)
    BY <1>7 DEF TimerInv
  <2>2. expires \in [Owners -> Nat]
    BY <2>1, DiffsNat
  <2>3. /\ timer_list \in Seq(Owners) /\ NoRepeat(timer_list)
        /\ Sums(timer_list, expires)[Len(timer_list)] <= MaxTicks
        /\ timer_list # <<>> => expires[timer_list[1]] >= 1
    BY <2>1 DEF TimersOk, HeadOk
  <2>4. \A p \in ToSet(timer_list) : LeftIn(timer_list, expires, p) >= 1
    <3>1. CASE timer_list = <<>>
      BY <3>1 DEF ToSet
    <3>2. CASE timer_list # <<>>
      BY <2>2, <2>3, <3>2, LeftBounds
    <3> QED BY <3>1, <3>2
  <2>5. \A p \in ToSet(timer_list) : LeftIn(timer_list, expires, p) # 0
    BY <2>4
  <2> QED BY <2>5 DEF Due, Linked
<1> HIDE DEF L, D
<1>8. CASE Enter
  <2>1. ~serving /\ serving' = TRUE /\ timer_list' = timer_list /\ Linked' = Linked
    BY <1>8, EnterStep DEF Enter, Linked
  <2>2. \A x \in Linked : /\ LeftIn(timer_list, expires, x) >= 1
                          /\ LeftIn(timer_list', expires', x)
                                = LeftIn(timer_list, expires, x) - 1
    BY <1>8, EnterStep
  <2>3. \A p : p \notin Linked => LeftIn(timer_list', expires', p) = 0
    BY <2>1 DEF LeftIn, Linked
  <2>4. ASSUME NEW p \in Owners
        PROVE  Ticks'[p] = IF Ticks[p] > 0 THEN Ticks[p] - 1 ELSE 0
    <3>1. Ticks[p] \in Nat
      <4>1. Ticks[p] \in 0..MaxTicks
        BY <1>6
      <4> QED BY <4>1
    <3>2. CASE p \in Linked
      BY <1>2, <1>3, <2>2, <3>1, <3>2
    <3>3. CASE p \notin Linked
      BY <1>2, <1>3, <1>5, <2>3, <3>3
    <3> QED BY <3>2, <3>3
  <2>5. Ticks' = [p \in Owners |-> IF Ticks[p] > 0 THEN Ticks[p] - 1 ELSE 0]
    BY <2>4 DEF Ticks
  <2>6. Due' = {p \in Owners : Ticks[p] = 1}
    <3>1. ASSUME NEW p \in Linked
          PROVE  LeftIn(timer_list', expires', p) = 0 <=> Ticks[p] = 1
      <4>1. Ticks[p] \in 0..MaxTicks /\ p \in Owners
        BY <1>4, <1>6
      <4>2. Ticks[p] \in Nat
        BY <4>1
      <4>3. LeftIn(timer_list', expires', p) = Ticks[p] - 1
        BY <1>2, <2>2, <4>1
      <4> QED BY <4>2, <4>3
    <3>2. \A p \in Owners : p \notin Linked => Ticks[p] # 1
      BY <1>2, <1>5
    <3> QED BY <1>4, <2>1, <3>1, <3>2 DEF Due
  <2>7. Independent!Tick
    BY <1>1, <2>1, <2>5, <2>6 DEF Independent!Tick, L, D
  <2> QED BY <2>7 DEF Independent!TimeoutsNext
<1>9. CASE Leave
  <2>1. serving /\ serving' = FALSE /\ timer_list' = timer_list /\ expires' = expires
    BY <1>9 DEF Leave
  <2>2. Due = {}
    <3>1. \A x \in Linked : LeftIn(timer_list, expires, x) >= 1
      BY <1>9, LeaveStep
    <3>2. \A x \in Linked : LeftIn(timer_list, expires, x) # 0
      BY <3>1
    <3> QED BY <3>2 DEF Due
  <2>3. Ticks' = Ticks /\ Due' = Due
    BY <2>1 DEF Ticks, Due, Linked
  <2>4. Independent!Served
    BY <1>1, <2>1, <2>2, <2>3 DEF Independent!Served, L, D
  <2> QED BY <2>4 DEF Independent!TimeoutsNext
<1>10. CASE Expire
  <2> DEFINE p == Head(timer_list)
  <2>1. timer_list # <<>> /\ expires[p] = 0 /\ serving /\ serving' = serving /\ del_timer(p)
    BY <1>10 DEF Expire, HeadExpired
  <2>2. 1 \in 1..Len(timer_list) /\ p = timer_list[1] /\ 1 \in DOMAIN timer_list
    BY <1>4, <2>1
  <2>3. p \in Linked
    BY <2>2 DEF Linked, ToSet
  <2>4. LeftIn(timer_list, expires, p) = 0
    <3>1. /\ timer_list \in Seq(Owners) /\ NoRepeat(timer_list)
          /\ TimersOk(timer_list, expires)
      BY DEF TimerInv, TimersOk
    <3>2. expires \in [Owners -> Nat]
      BY <3>1, DiffsNat
    <3>3. LeftIn(timer_list, expires, timer_list[1]) = Sums(timer_list, expires)[1]
      BY <2>2, <3>1, LeftAt
    <3>4. Sums(timer_list, expires)[0] = 0
      BY <3>1, <3>2, SumsTypes
    <3>5. Sums(timer_list, expires)[1]
             = Sums(timer_list, expires)[1 - 1] + expires[timer_list[1]]
      BY <2>2, <3>1, <3>2, SumsTypes
    <3>6. 1 - 1 = 0
      OBVIOUS
    <3> QED BY <2>1, <2>2, <3>3, <3>4, <3>5, <3>6
  <2>5. /\ Linked' = Linked \ {p}
        /\ \A x : LeftIn(timer_list', expires', x)
                     = IF x = p THEN 0 ELSE LeftIn(timer_list, expires, x)
    BY <2>1, <2>3, DelStep
  <2>6. p \in Due /\ p \in Owners
    BY <1>4, <2>3, <2>4 DEF Due
  <2> HIDE DEF p
  <2>7. \A x : LeftIn(timer_list', expires', x) = LeftIn(timer_list, expires, x)
    BY <2>4, <2>5
  <2>8. Ticks' = Ticks /\ Due' = Due \ {p}
    BY <2>5, <2>7 DEF Ticks, Due
  <2>9. Independent!Handle(p)
    BY <1>1, <2>1, <2>6, <2>8 DEF Independent!Handle, L, D
  <2> QED BY <2>6, <2>9 DEF Independent!TimeoutsNext
<1>11. ASSUME NEW p \in Owners, Add(p) PROVE Independent!TimeoutsNext
  <2>1. ~serving /\ serving' = serving
    BY <1>11 DEF Add
  <2>2. p \notin Linked /\ Linked' = Linked \cup {p}
    BY <1>11, AddStep
  <2>3. PICK t \in 1..MaxTicks : \A x :
           LeftIn(timer_list', expires', x)
              = IF x = p THEN t ELSE LeftIn(timer_list, expires, x)
    BY <1>11, AddStep
  <2>4. Ticks[p] = 0
    BY <1>2, <1>5, <2>2
  <2>5. Ticks' = [Ticks EXCEPT ![p] = t]
    BY <2>3 DEF Ticks
  <2>6. Due' = Due
    <3>1. LeftIn(timer_list', expires', p) # 0
      BY <2>3
    <3>2. \A x \in Linked : LeftIn(timer_list', expires', x) = LeftIn(timer_list, expires, x)
      BY <2>2, <2>3
    <3> QED BY <2>2, <3>1, <3>2 DEF Due
  <2>7. Independent!Start(p)
    BY <1>1, <2>1, <2>4, <2>5, <2>6 DEF Independent!Start, L, D
  <2> QED BY <2>7 DEF Independent!TimeoutsNext
<1>12. ASSUME NEW p \in Owners, Del(p) PROVE Independent!TimeoutsNext
  <2>1. ~serving /\ serving' = serving /\ del_timer(p)
    BY <1>12 DEF Del
  <2>2. Due = {}
    BY <1>7, <2>1
  <2>3. CASE p \in Linked
    <3>1. /\ Linked' = Linked \ {p}
          /\ \A x : LeftIn(timer_list', expires', x)
                       = IF x = p THEN 0 ELSE LeftIn(timer_list, expires, x)
      BY <2>1, <2>3, DelStep
    <3>2. Ticks' = [Ticks EXCEPT ![p] = 0]
      BY <3>1 DEF Ticks
    <3>3. Due' = {}
      BY <2>2, <3>1 DEF Due
    <3>4. Independent!Stop(p)
      BY <1>1, <2>1, <2>2, <3>2, <3>3 DEF Independent!Stop, L, D
    <3> QED BY <3>4 DEF Independent!TimeoutsNext
  <2>4. CASE p \notin Linked
    <3>1. timer_list' = timer_list /\ expires' = expires
      BY <2>1, <2>4 DEF del_timer
    <3>2. Ticks' = Ticks /\ Due' = Due
      BY <3>1 DEF Ticks, Due, Linked
    <3>3. Ticks[p] = 0
      BY <1>2, <1>5, <2>4
    <3>4. Ticks' = [Ticks EXCEPT ![p] = 0]
      BY <3>2, <3>3 DEF Ticks
    <3>5. Independent!Stop(p)
      BY <1>1, <2>1, <3>2, <3>4 DEF Independent!Stop, L, D
    <3> QED BY <3>5 DEF Independent!TimeoutsNext
  <2> QED BY <2>3, <2>4
<1> QED BY <1>8, <1>9, <1>10, <1>11, <1>12 DEF TimerNext

(* The timer list implements independent timers: every insertion and        *)
(* deletion of add_timer and del_timer leaves the ticks of all other        *)
(* timers alone, and run_timer_list finds each in exactly its own tick.     *)
THEOREM TimersIndependent == TimerSpec => ImplementsTimeouts
<1>1. TimerInit => Independent!TimeoutsInit
  <2> SUFFICES ASSUME TimerInit PROVE Independent!TimeoutsInit
    OBVIOUS
  <2>1. timer_list = <<>> /\ serving = FALSE
    BY DEF TimerInit
  <2>2. Linked = {}
    BY <2>1 DEF Linked, ToSet
  <2>3. \A p : Left(p) = 0
    BY <2>2 DEF Left
  <2> QED BY <2>1, <2>2, <2>3 DEF Independent!TimeoutsInit
<1>2. TimerInv /\ TimerInv' /\ [TimerNext]_timerVars
         => [Independent!TimeoutsNext]_(Independent!clock)
  <2> SUFFICES ASSUME TimerInv, TimerInv', [TimerNext]_timerVars
               PROVE  [Independent!TimeoutsNext]_(Independent!clock)
    OBVIOUS
  <2>1. CASE TimerNext
    BY <2>1, StepMapped
  <2>2. CASE UNCHANGED timerVars
    <3>1. timer_list' = timer_list /\ expires' = expires /\ serving' = serving
      BY <2>2 DEF timerVars
    <3>2. Linked' = Linked /\ \A p : Left(p)' = Left(p)
      BY <3>1 DEF Linked, Left, Position, Before
    <3> QED BY <3>1, <3>2, Zenon DEF Independent!clock
  <2> QED BY <2>1, <2>2
<1> QED BY <1>1, <1>2, TimerInvariant, PTL
       DEF TimerSpec, ImplementsTimeouts, Independent!TimeoutsSpec

-----------------------------------------------------------------------------
(* get_pid and the list of processes.                                       *)

(* What the walk of get_pid knows at process le: none of those before has   *)
(* last_pid, and those with a larger pid have next_safe or more.            *)
Injective == \A i, j \in DOMAIN proc_list : proc_list[i] = proc_list[j] => i = j

Walked(n) ==
    \A i \in 1..n :
        /\ proc_list[i] # last_pid
        /\ proc_list[i] > last_pid => proc_list[i] >= next_safe

Window == \A i \in DOMAIN proc_list : proc_list[i] > last_pid => proc_list[i] >= next_safe

PidInv ==
    /\ TypeOK
    /\ Injective
    /\ le = 0 => Window
    /\ le # 0 => Walked(le - 1) /\ last_pid < next_safe

(* An element of the list is a pid.                                         *)
LEMMA PidType ==
    ASSUME TypeOK, NEW i \in 1..Len(proc_list)
    PROVE  /\ proc_list[i] \in 1..(MAX_PID - 1)
           /\ Len(proc_list) \in Nat /\ DOMAIN proc_list = 1..Len(proc_list)
           /\ MAX_PID \in Nat
BY PidAssumption DEF TypeOK

(* What putting e first returns.                                            *)
LEMMA ConsElements ==
    ASSUME NEW S, NEW s \in Seq(S), NEW e \in S
    PROVE  /\ <<e>> \o s \in Seq(S)
           /\ Len(<<e>> \o s) = Len(s) + 1
           /\ \A j \in 1..(Len(s) + 1) :
                 (<<e>> \o s)[j] = IF j = 1 THEN e ELSE s[j - 1]
OBVIOUS

LEMMA InitInv == Init => PidInv
BY PidAssumption DEF Init, PidInv, TypeOK, Injective, Window, Walked

(* get_pid is called: the window of the last call, or a new walk.           *)
LEMMA GetPidStep == ASSUME PidInv, GetPid PROVE PidInv'
<1>1. last_pid' \in 1..(MAX_PID - 1) /\ next_safe' \in 1..MAX_PID /\ last_pid' < next_safe'
  BY PidAssumption DEF PidInv, TypeOK, GetPid, Wrapped, Scan
<1>2. le' \in 1..(Len(proc_list) + 1) /\ proc_list' = proc_list
  BY DEF PidInv, TypeOK, GetPid, Scan
<1>3. TypeOK' /\ Injective'
  BY <1>1, <1>2, PidAssumption DEF PidInv, TypeOK, Injective
<1>4. Walked(le - 1)'
  <2>1. CASE last_pid + 1 < next_safe
    BY <1>2, <2>1, PidAssumption DEF PidInv, TypeOK, GetPid, Wrapped, Window, Walked
  <2>2. CASE ~(last_pid + 1 < next_safe)
    BY <1>2, <2>2 DEF GetPid, Scan, Walked
  <2> QED BY <2>1, <2>2
<1> QED BY <1>1, <1>2, <1>3, <1>4 DEF PidInv

(* The walk meets last_pid: the next pid is tried, and as long as it is     *)
(* before next_safe the processes already seen cannot have it.              *)
LEMMA PidTakenStep == ASSUME PidInv, PidTaken PROVE PidInv'
<1>1. le \in 1..Len(proc_list) /\ le # 0 /\ proc_list[le] = last_pid
  BY DEF PidInv, TypeOK, PidTaken
<1>2. proc_list[le] \in 1..(MAX_PID - 1) /\ last_pid < next_safe /\ Walked(le - 1)
  BY <1>1, PidType DEF PidInv
<1>3. proc_list' = proc_list /\ le' \in 1..(Len(proc_list) + 1)
  BY <1>1 DEF PidTaken, Repeat, Scan, PidInv, TypeOK
<1>4. last_pid' \in 1..(MAX_PID - 1) /\ next_safe' \in 1..MAX_PID /\ last_pid' < next_safe'
  BY <1>1, <1>2, PidAssumption DEF PidInv, TypeOK, PidTaken, Repeat, Scan, Wrapped
<1>5. Walked(le - 1)'
  <2>1. CASE last_pid + 1 < next_safe
    <3> SUFFICES ASSUME NEW i \in 1..le
                 PROVE  /\ proc_list[i] # last_pid + 1
                        /\ proc_list[i] > last_pid + 1 => proc_list[i] >= next_safe
      BY <2>1, <1>1, <1>3 DEF PidTaken, Walked, PidInv, TypeOK
    <3>1. proc_list[i] \in 1..(MAX_PID - 1)
      BY <1>1, PidType DEF PidInv, TypeOK
    <3>2. CASE i = le
      BY <3>2, <1>1, <1>2, <2>1
    <3>3. CASE i \in 1..(le - 1)
      BY <3>1, <3>3, <1>2, <2>1 DEF Walked, PidInv, TypeOK
    <3> QED BY <3>2, <3>3, <1>1
  <2>2. CASE ~(last_pid + 1 < next_safe)
    BY <1>3, <2>2 DEF PidTaken, Repeat, Scan, Walked
  <2> QED BY <2>1, <2>2
<1>6. TypeOK' /\ Injective'
  BY <1>3, <1>4, PidAssumption DEF PidInv, TypeOK, Injective
<1> QED BY <1>3, <1>4, <1>5, <1>6 DEF PidInv

(* The walk passes another pid, and next_safe comes down to it if need be.  *)
LEMMA PidPassedStep == ASSUME PidInv, PidPassed PROVE PidInv'
<1>1. le \in 1..Len(proc_list) /\ le # 0 /\ proc_list[le] # last_pid
  BY DEF PidInv, TypeOK, PidPassed
<1>2. proc_list[le] \in 1..(MAX_PID - 1) /\ last_pid < next_safe /\ Walked(le - 1)
  BY <1>1, PidType DEF PidInv
<1>3. proc_list' = proc_list /\ last_pid' = last_pid /\ le' = le + 1
  BY DEF PidPassed
<1>4. /\ next_safe' \in 1..MAX_PID /\ last_pid < next_safe'
      /\ next_safe' <= next_safe
      /\ proc_list[le] > last_pid => next_safe' <= proc_list[le]
  BY <1>1, <1>2, PidAssumption DEF PidInv, TypeOK, PidPassed
<1>5. Walked(le - 1)'
  <2> SUFFICES ASSUME NEW i \in 1..le
               PROVE  /\ proc_list[i] # last_pid
                      /\ proc_list[i] > last_pid => proc_list[i] >= next_safe'
    BY <1>1, <1>3 DEF Walked, PidInv, TypeOK
  <2>1. proc_list[i] \in 1..(MAX_PID - 1)
    BY <1>1, PidType DEF PidInv, TypeOK
  <2>2. CASE i = le
    BY <2>2, <1>1, <1>2, <1>4
  <2>3. CASE i \in 1..(le - 1)
    BY <2>1, <2>3, <1>2, <1>4 DEF Walked, PidInv, TypeOK
  <2> QED BY <2>2, <2>3, <1>1
<1>6. TypeOK' /\ Injective'
  BY <1>1, <1>3, <1>4 DEF PidInv, TypeOK, Injective
<1> QED BY <1>1, <1>3, <1>4, <1>5, <1>6 DEF PidInv, TypeOK

(* get_pid returns: its answer differs from every pid that was walked past. *)
LEMMA SetLinksStep == ASSUME PidInv, SetLinks PROVE PidInv'
<1> DEFINE n == Len(proc_list)
<1>1. /\ n \in Nat /\ le = n + 1 /\ le # 0
      /\ Walked(n) /\ last_pid < next_safe
      /\ last_pid \in 1..(MAX_PID - 1)
      /\ proc_list \in Seq(1..(MAX_PID - 1))
  BY PidAssumption DEF PidInv, TypeOK, SetLinks
<1>2. /\ proc_list' \in Seq(1..(MAX_PID - 1))
      /\ Len(proc_list') = n + 1
      /\ \A j \in 1..(n + 1) : proc_list'[j] = IF j = 1 THEN last_pid ELSE proc_list[j - 1]
  BY <1>1, ConsElements DEF SetLinks
<1>3. TypeOK'
  BY <1>2 DEF PidInv, TypeOK, SetLinks
<1>4. Injective'
  <2> SUFFICES ASSUME NEW i \in 1..(n + 1), NEW j \in 1..(n + 1), proc_list'[i] = proc_list'[j]
               PROVE  i = j
    BY <1>2 DEF Injective
  <2>1. CASE i = 1 /\ j # 1
    BY <1>1, <1>2, <2>1 DEF Walked
  <2>2. CASE i # 1 /\ j = 1
    BY <1>1, <1>2, <2>2 DEF Walked
  <2>3. CASE i # 1 /\ j # 1
    <3>1. /\ i - 1 \in DOMAIN proc_list /\ j - 1 \in DOMAIN proc_list
          /\ proc_list[i - 1] = proc_list[j - 1]
      BY <1>1, <1>2, <2>3
    <3> QED BY <3>1 DEF PidInv, Injective
  <2> QED BY <2>1, <2>2, <2>3
<1>5. Window'
  BY <1>1, <1>2 DEF Window, Walked, SetLinks
<1> QED BY <1>3, <1>4, <1>5 DEF PidInv, SetLinks

(* A process is unlinked: what held of all others still does.               *)
LEMMA RemoveLinksStep ==
    ASSUME PidInv, NEW k \in DOMAIN proc_list, RemoveLinks(k)
    PROVE  PidInv'
<1> DEFINE n == Len(proc_list)
           m == Len(proc_list) - 1
<1>1. n \in Nat /\ k \in 1..n /\ le = 0 /\ proc_list \in Seq(1..(MAX_PID - 1))
  BY DEF PidInv, TypeOK, RemoveLinks
<1>2. /\ proc_list' \in Seq(1..(MAX_PID - 1))
      /\ Len(proc_list') = m
      /\ \A j \in 1..m : proc_list'[j] = IF j < k THEN proc_list[j] ELSE proc_list[j + 1]
  BY <1>1, RemoveAtElements DEF RemoveLinks
<1>3. TypeOK'
  BY <1>2 DEF PidInv, TypeOK, RemoveLinks
<1>4. Injective'
  <2> SUFFICES ASSUME NEW i \in 1..m, NEW j \in 1..m, proc_list'[i] = proc_list'[j]
               PROVE  i = j
    BY <1>2 DEF Injective
  <2> DEFINE From(x) == IF x < k THEN x ELSE x + 1
  <2>1. From(i) \in 1..n /\ From(j) \in 1..n /\ (From(i) = From(j) => i = j)
    BY <1>1
  <2>2. proc_list[From(i)] = proc_list[From(j)]
    BY <1>2
  <2>3. From(i) = From(j)
    BY <1>1, <2>1, <2>2 DEF PidInv, Injective
  <2> QED BY <2>1, <2>3
<1>5. Window'
  <2>1. Window /\ last_pid' = last_pid /\ next_safe' = next_safe
    BY <1>1 DEF PidInv, RemoveLinks
  <2> SUFFICES ASSUME NEW i \in 1..m, proc_list'[i] > last_pid
               PROVE  proc_list'[i] >= next_safe
    BY <1>2, <2>1 DEF Window
  <2>2. PICK j \in 1..n : proc_list'[i] = proc_list[j]
    BY <1>1, <1>2
  <2> QED BY <1>1, <2>1, <2>2 DEF Window
<1> QED BY <1>1, <1>3, <1>4, <1>5 DEF PidInv, RemoveLinks

LEMMA NextInv == PidInv /\ [Next]_vars => PidInv'
<1> SUFFICES ASSUME PidInv, [Next]_vars PROVE PidInv'
  OBVIOUS
<1>1. CASE GetPid
  BY <1>1, GetPidStep
<1>2. CASE PidTaken
  BY <1>2, PidTakenStep
<1>3. CASE PidPassed
  BY <1>3, PidPassedStep
<1>4. CASE SetLinks
  BY <1>4, SetLinksStep
<1>5. CASE \E i \in DOMAIN proc_list : RemoveLinks(i)
  BY <1>5, RemoveLinksStep
<1>6. CASE UNCHANGED vars
  BY <1>6 DEF vars, PidInv, TypeOK, Injective, Window, Walked
<1> QED BY <1>1, <1>2, <1>3, <1>4, <1>5, <1>6 DEF Next, Walk

LEMMA InvUnique == PidInv => PidsUnique
<1> SUFFICES ASSUME PidInv PROVE PidsUnique
  OBVIOUS
<1>1. /\ TypeOK /\ Injective
      /\ le = 0 => Window
      /\ le # 0 => Walked(le - 1)
  BY DEF PidInv
<1>2. PICK n \in Nat : n = Len(proc_list) /\ DOMAIN proc_list = 1..n
  BY <1>1 DEF TypeOK
<1>3. ASSUME le = Len(proc_list) + 1 PROVE last_pid \notin InUse
  <2>1. le # 0 /\ le - 1 = n
    BY <1>2, <1>3
  <2> QED BY <1>1, <1>2, <2>1 DEF Walked, InUse
<1>4. ASSUME le = 0, NEW pid \in InUse, pid > last_pid PROVE pid >= next_safe
  BY <1>1, <1>4 DEF Window, InUse
<1> QED BY <1>1, <1>3, <1>4 DEF PidsUnique, Injective

(* get_pid answers with a pid no linked process has, no two processes ever  *)
(* have one pid, and the window it trusts is free.                          *)
THEOREM PidsAreUnique == Spec => []PidsUnique
<1>1. PidInv /\ [Next]_vars => PidInv'
  BY NextInv
<1>2. PidInv => PidsUnique
  BY InvUnique
<1> QED BY InitInv, <1>1, <1>2, PTL DEF Spec

-----------------------------------------------------------------------------
(* The recursion of skew_heap_merge.                                        *)

(* g holds the arguments of the levels up to n.                             *)
ArgsUpTo(heap, s, a, b, n, g) ==
    g = [i \in 0..n |-> IF i = 0 THEN <<a, b>> ELSE Deeper(heap, s, g[i - 1])]

(* The arguments exist for every level, ...                                 *)
LEMMA ArgsUpToExist ==
    ASSUME NEW heap, NEW s, NEW a, NEW b, NEW n \in Nat
    PROVE  \E g : ArgsUpTo(heap, s, a, b, n, g)
<1> DEFINE T == {i \in Nat : \E g : ArgsUpTo(heap, s, a, b, i, g)}
<1>1. 0 \in T
  <2> DEFINE g == [i \in 0..0 |-> <<a, b>>]
  <2>1. ArgsUpTo(heap, s, a, b, 0, g)
    BY DEF ArgsUpTo
  <2> QED BY <2>1
<1>2. ASSUME NEW i \in Nat, i \in T PROVE i + 1 \in T
  <2>1. PICK g : ArgsUpTo(heap, s, a, b, i, g)
    BY <1>2
  <2> DEFINE h == [j \in 0..(i + 1) |-> IF j = i + 1 THEN Deeper(heap, s, g[i]) ELSE g[j]]
  <2>2. ASSUME NEW j \in 0..(i + 1)
        PROVE  h[j] = IF j = 0 THEN <<a, b>> ELSE Deeper(heap, s, h[j - 1])
    <3>1. CASE j = i + 1
      <4>1. j # 0 /\ j - 1 = i /\ i \in 0..(i + 1) /\ i # i + 1
        BY <3>1
      <4> QED BY <3>1, <4>1
    <3>2. CASE j # i + 1
      <4>1. j \in 0..i /\ h[j] = g[j]
        BY <3>2
      <4>2. g[j] = IF j = 0 THEN <<a, b>> ELSE Deeper(heap, s, g[j - 1])
        BY <2>1, <4>1 DEF ArgsUpTo
      <4>3. j # 0 => j - 1 \in 0..(i + 1) /\ j - 1 # i + 1
        BY <4>1
      <4>4. j # 0 => h[j - 1] = g[j - 1]
        BY <4>3
      <4> QED BY <4>1, <4>2, <4>4
    <3> QED BY <3>1, <3>2
  <2>3. ArgsUpTo(heap, s, a, b, i + 1, h)
    BY <2>2 DEF ArgsUpTo
  <2> QED BY <2>3
<1>3. Nat \subseteq T
  <2> HIDE DEF T
  <2> QED BY <1>1, <1>2, SetInduction
<1> QED BY <1>3

(* ... agree on the levels they share, ...                                  *)
LEMMA ArgsUpToAgree ==
    ASSUME NEW heap, NEW s, NEW a, NEW b, NEW n \in Nat, NEW m \in Nat, n <= m,
           NEW g, ArgsUpTo(heap, s, a, b, n, g), NEW h, ArgsUpTo(heap, s, a, b, m, h)
    PROVE  \A i \in 0..n : g[i] = h[i]
<1> DEFINE T == {i \in Nat : i <= n => g[i] = h[i]}
<1>1. 0 \in T
  <2>1. 0 \in 0..n /\ 0 \in 0..m
    OBVIOUS
  <2> QED BY <2>1 DEF ArgsUpTo
<1>2. ASSUME NEW i \in Nat, i \in T PROVE i + 1 \in T
  <2> SUFFICES ASSUME i + 1 <= n PROVE g[i + 1] = h[i + 1]
    OBVIOUS
  <2>1. i <= n /\ i + 1 \in 0..n /\ i + 1 \in 0..m /\ i + 1 # 0 /\ (i + 1) - 1 = i
    OBVIOUS
  <2>2. g[i + 1] = Deeper(heap, s, g[i])
    BY <2>1 DEF ArgsUpTo
  <2>3. h[i + 1] = Deeper(heap, s, h[i])
    BY <2>1 DEF ArgsUpTo
  <2> QED BY <1>2, <2>1, <2>2, <2>3
<1>3. Nat \subseteq T
  <2> HIDE DEF T
  <2> QED BY <1>1, <1>2, SetInduction
<1> QED BY <1>3

(* ... and so are the function of the model.                                *)
LEMMA ArgsEquation ==
    ASSUME NEW heap, NEW s, NEW a, NEW b
    PROVE  /\ Args(heap, s, a, b)[0] = <<a, b>>
           /\ \A n \in Nat : Args(heap, s, a, b)[n + 1] = Deeper(heap, s, Args(heap, s, a, b)[n])
<1> DEFINE G(n) == CHOOSE g : ArgsUpTo(heap, s, a, b, n, g)
           t == [n \in Nat |-> G(n)[n]]
<1>1. \A n \in Nat : ArgsUpTo(heap, s, a, b, n, G(n))
  BY ArgsUpToExist
<1> HIDE DEF G
<1>2. ASSUME NEW n \in Nat
      PROVE  t[n] = IF n = 0 THEN <<a, b>> ELSE Deeper(heap, s, t[n - 1])
  <2>1. n \in 0..n
    OBVIOUS
  <2>2. G(n)[n] = IF n = 0 THEN <<a, b>> ELSE Deeper(heap, s, G(n)[n - 1])
    BY <1>1, <2>1 DEF ArgsUpTo
  <2>3. CASE n # 0
    <3>1. n - 1 \in Nat /\ n - 1 <= n /\ n - 1 \in 0..(n - 1)
      BY <2>3
    <3>2. G(n - 1)[n - 1] = G(n)[n - 1]
      BY <1>1, <3>1, ArgsUpToAgree
    <3> QED BY <2>2, <3>1, <3>2
  <2> QED BY <2>2, <2>3
<1>3. t = [n \in Nat |-> IF n = 0 THEN <<a, b>> ELSE Deeper(heap, s, t[n - 1])]
  BY <1>2
<1> HIDE DEF t
<1>4. \E args : args = [n \in Nat |-> IF n = 0 THEN <<a, b>> ELSE Deeper(heap, s, args[n - 1])]
  BY <1>3
<1> DEFINE A == Args(heap, s, a, b)
<1>5. A = [n \in Nat |-> IF n = 0 THEN <<a, b>> ELSE Deeper(heap, s, A[n - 1])]
  BY <1>4 DEF Args
<1> HIDE DEF A
<1>6. A[0] = <<a, b>>
  BY <1>5
<1>7. ASSUME NEW n \in Nat PROVE A[n + 1] = Deeper(heap, s, A[n])
  <2>1. n + 1 \in Nat /\ n + 1 # 0 /\ (n + 1) - 1 = n
    OBVIOUS
  <2> QED BY <1>5, <2>1
<1> QED BY <1>6, <1>7 DEF A

-----------------------------------------------------------------------------
(* A forest of processes Q with the roots R and, where o is "order" and not *)
(* just "links", in the order of the strides s; what a root's own parent is *)
(* does not matter.                                                         *)
Ordered(o, s, p, q) == o = "order" => Signed(s[q] - s[p]) >= 0

Comparable(o, s, Q) ==
    \A p, q \in Q :
        /\ proc_stride_comp_f(s, p, q) \in Int
        /\ proc_stride_comp_f(s, p, q) < 0 => Ordered(o, s, p, q)

ChildrenOf(heap, p) == {heap.left[p], heap.right[p]} \ {NULL}

Edges(heap, o, s, Q) ==
    \A p \in Q :
        /\ heap.left[p] \in Q \cup {NULL} /\ heap.right[p] \in Q \cup {NULL}
        /\ heap.left[p] = heap.right[p] => heap.left[p] = NULL
        /\ \A q \in ChildrenOf(heap, p) : heap.parent[q] = p /\ Ordered(o, s, p, q)

Rooted(heap, Q, R) ==
    /\ \A p \in R : heap.parent[p] \notin Q
    /\ \A p \in Q \ R : heap.parent[p] \in Q /\ p \in ChildrenOf(heap, heap.parent[p])

(* No set of processes is closed under taking the parent: there is no cycle.*)
Founded(heap, Q) ==
    \A S \in SUBSET Q : S # {} => \E p \in S : heap.parent[p] \notin S

Forest(heap, o, s, Q, R) ==
    /\ Q \subseteq Procs /\ R \subseteq Q
    /\ Edges(heap, o, s, Q)
    /\ Rooted(heap, Q, R)
    /\ Founded(heap, Q)

LEMMA NullNotProc == NULL \notin Procs
BY StrideAssumption DEF NULL

(* Nobody is its own parent.                                                *)
LEMMA NotOwnParent ==
    ASSUME NEW heap, NEW Q, Founded(heap, Q), NEW p \in Q
    PROVE  heap.parent[p] # p
<1>1. {p} \in SUBSET Q /\ {p} # {}
  OBVIOUS
<1>2. \E q \in {p} : heap.parent[q] \notin {p}
  BY <1>1 DEF Founded
<1> QED BY <1>2

(* The walk of skew_heap_merge at level n: x and y are its arguments, t[k]  *)
(* for k < n the nodes that it has visited.  They are different, and reached*)
(* from a or b through right children only; nothing that was to the right of*)
(* one is forgotten; and they come in the order of the strides.             *)
Mergeable(heap, o, s, Q, a, b) ==
    /\ Forest(heap, o, s, Q, {a, b} \ {NULL})
    /\ Comparable(o, s, Q)
    /\ a \in Q \cup {NULL} /\ b \in Q \cup {NULL}
    /\ a = b => a = NULL

FromRight(heap, a, b, t, n, z) ==
    z \in {a, b} \/ \E j \in 0..(n - 1) : z = heap.right[t[j]]

Met(x, y, t, n, z) == z \in {NULL, x, y} \/ \E j \in 0..(n - 1) : z = t[j]

DescentDistinct(Q, x, y, t, n) ==
    /\ x \in Q \cup {NULL} /\ y \in Q \cup {NULL}
    /\ x = y => x = NULL
    /\ n > 0 => x # NULL \/ y # NULL
    /\ \A k \in 0..(n - 1) : t[k] \in Q /\ t[k] # x /\ t[k] # y
    /\ \A k \in 0..(n - 1) : \A j \in 0..(k - 1) : t[j] # t[k]

DescentReached(heap, a, b, x, y, t, n) ==
    /\ \A z \in {x, y} \ {NULL} : FromRight(heap, a, b, t, n, z)
    /\ \A k \in 0..(n - 1) : FromRight(heap, a, b, t, k, t[k])

DescentComplete(heap, a, b, x, y, t, n) ==
    /\ \A k \in 0..(n - 1) : Met(x, y, t, n, heap.right[t[k]])
    /\ Met(x, y, t, n, a) /\ Met(x, y, t, n, b)

DescentOrdered(o, s, x, y, t, n) ==
    /\ n > 0 => \A z \in {x, y} \ {NULL} : Ordered(o, s, t[n - 1], z)
    /\ \A k \in 1..(n - 1) : Ordered(o, s, t[k - 1], t[k])

Descent(heap, o, s, Q, a, b, x, y, t, n) ==
    /\ DescentDistinct(Q, x, y, t, n)
    /\ DescentReached(heap, a, b, x, y, t, n)
    /\ DescentComplete(heap, a, b, x, y, t, n)
    /\ DescentOrdered(o, s, x, y, t, n)

LEMMA DescentSymmetric ==
    ASSUME NEW heap, NEW o, NEW s, NEW Q, NEW a, NEW b, NEW x, NEW y, NEW t, NEW n \in Nat,
           Descent(heap, o, s, Q, a, b, x, y, t, n)
    PROVE  Descent(heap, o, s, Q, a, b, y, x, t, n)
<1>1. {x, y} = {y, x} /\ {NULL, x, y} = {NULL, y, x}
  OBVIOUS
<1>2. DescentDistinct(Q, y, x, t, n)
  BY DEF Descent, DescentDistinct
<1>3. DescentReached(heap, a, b, y, x, t, n)
  BY <1>1 DEF Descent, DescentReached
<1>4. DescentComplete(heap, a, b, y, x, t, n)
  BY <1>1 DEF Descent, DescentComplete, Met
<1>5. DescentOrdered(o, s, y, x, t, n)
  BY <1>1 DEF Descent, DescentOrdered
<1> QED BY <1>2, <1>3, <1>4, <1>5 DEF Descent

LEMMA DescentStep ==
    ASSUME NEW heap, NEW o, NEW s, NEW Q, NEW a, NEW b, NEW u, NEW v, NEW t, NEW n \in Nat,
           Mergeable(heap, o, s, Q, a, b), Descent(heap, o, s, Q, a, b, u, v, t, n),
           u # NULL, v # NULL, t[n] = u, Ordered(o, s, u, v)
    PROVE  Descent(heap, o, s, Q, a, b, heap.right[u], v, t, n + 1)
<1> DEFINE w == heap.right[u]
<1>1. u \in Q /\ v \in Q /\ u # v /\ NULL \notin Q
  BY NullNotProc DEF Mergeable, Forest, Descent, DescentDistinct
<1>2. w \in Q \cup {NULL} /\ (w # NULL => heap.parent[w] = u /\ Ordered(o, s, u, w))
  BY <1>1 DEF Mergeable, Forest, Edges, ChildrenOf
<1>3. 0..((n + 1) - 1) = 0..(n - 1) \cup {n} /\ \A k \in 0..(n - 1) : k \in Nat /\ k # n
  OBVIOUS
<1>4. \A k \in 0..(n - 1) : t[k] \in Q /\ t[k] # u /\ t[k] # v
  BY DEF Descent, DescentDistinct
<1>5. \A z : z \in {a, b} \ {NULL} => heap.parent[z] \notin Q
  BY DEF Mergeable, Forest, Rooted
<1>6. \A p \in Q : heap.right[p] # NULL => heap.parent[heap.right[p]] = p
  BY DEF Mergeable, Forest, Edges, ChildrenOf
<1>7. ASSUME w # NULL, NEW k \in Nat, k <= n, NEW z \in Q, FromRight(heap, a, b, t, k, z)
      PROVE  w # z
  <2>1. z # NULL
    BY <1>1
  <2>2. CASE z \in {a, b}
    <3>1. heap.parent[z] \notin Q
      BY <1>5, <2>1, <2>2
    <3> QED BY <1>1, <1>2, <1>7, <3>1
  <2>3. CASE \E j \in 0..(k - 1) : z = heap.right[t[j]]
    <3>1. PICK j \in 0..(k - 1) : z = heap.right[t[j]]
      BY <2>3
    <3>2. j \in 0..(n - 1)
      BY <1>7
    <3>3. t[j] \in Q /\ t[j] # u
      BY <3>2, <1>4
    <3>4. heap.parent[z] = t[j]
      BY <3>1, <3>3, <1>6, <2>1
    <3> QED BY <1>2, <1>7, <3>3, <3>4
  <2> QED BY <1>7, <2>2, <2>3 DEF FromRight
<1>8. w # u
  <2>1. Founded(heap, Q)
    BY DEF Mergeable, Forest
  <2>2. heap.parent[u] # u
    BY <1>1, <2>1, NotOwnParent
  <2> QED BY <1>1, <1>2, <2>2
<1>9. w # v
  <2>1. FromRight(heap, a, b, t, n, v)
    BY <1>1 DEF Descent, DescentReached
  <2> QED BY <1>1, <1>7, <2>1
<1>10. \A k \in 0..(n - 1) : t[k] # w
  <2> SUFFICES ASSUME NEW k \in 0..(n - 1) PROVE t[k] # w
    OBVIOUS
  <2>1. FromRight(heap, a, b, t, k, t[k]) /\ t[k] \in Q
    BY <1>4 DEF Descent, DescentReached
  <2>2. k \in Nat /\ k <= n
    OBVIOUS
  <2>3. CASE w # NULL
    BY <1>7, <2>1, <2>2, <2>3
  <2>4. CASE w = NULL
    BY <1>1, <2>1, <2>4
  <2> QED BY <2>3, <2>4
<1> HIDE DEF w
<1>11. DescentDistinct(Q, w, v, t, n + 1)
  <2>1. \A k \in 0..(n - 1) : \A j \in 0..(k - 1) : t[j] # t[k]
    BY DEF Descent, DescentDistinct
  <2>2. \A k \in 0..((n + 1) - 1) : t[k] \in Q /\ t[k] # w /\ t[k] # v
    BY <1>1, <1>3, <1>4, <1>8, <1>10
  <2>3. ASSUME NEW k \in 0..((n + 1) - 1), NEW j \in 0..(k - 1) PROVE t[j] # t[k]
    <3>1. CASE k = n
      BY <3>1, <1>4
    <3>2. CASE k # n
      BY <3>2, <2>1, <1>3
    <3> QED BY <3>1, <3>2
  <2>4. w \in Q \cup {NULL} /\ v \in Q \cup {NULL} /\ w # v /\ v # NULL
    BY <1>1, <1>2, <1>9
  <2> QED BY <2>2, <2>3, <2>4 DEF DescentDistinct
<1>12. DescentReached(heap, a, b, w, v, t, n + 1)
  <2>1. ASSUME NEW z, FromRight(heap, a, b, t, n, z) PROVE FromRight(heap, a, b, t, n + 1, z)
    BY <2>1, <1>3 DEF FromRight
  <2>2. FromRight(heap, a, b, t, n, u) /\ FromRight(heap, a, b, t, n, v)
    BY <1>1 DEF Descent, DescentReached
  <2>3. n \in 0..((n + 1) - 1)
    OBVIOUS
  <2>4. FromRight(heap, a, b, t, n + 1, w)
    BY <2>3 DEF FromRight, w
  <2>5. \A z \in {w, v} \ {NULL} : FromRight(heap, a, b, t, n + 1, z)
    BY <2>1, <2>2, <2>4
  <2>6. \A k \in 0..(n - 1) : FromRight(heap, a, b, t, k, t[k])
    BY DEF Descent, DescentReached
  <2>7. \A k \in 0..((n + 1) - 1) : FromRight(heap, a, b, t, k, t[k])
    BY <2>2, <2>6, <1>3
  <2> QED BY <2>5, <2>7 DEF DescentReached
<1>13. DescentComplete(heap, a, b, w, v, t, n + 1)
  <2>1. n \in 0..((n + 1) - 1)
    OBVIOUS
  <2>2. ASSUME NEW z, Met(u, v, t, n, z) PROVE Met(w, v, t, n + 1, z)
    <3>1. CASE z = u
      BY <3>1, <2>1 DEF Met
    <3>2. CASE z # u
      BY <3>2, <2>2, <1>3 DEF Met
    <3> QED BY <3>1, <3>2
  <2>3. Met(w, v, t, n + 1, w)
    BY DEF Met
  <2>4. \A k \in 0..(n - 1) : Met(u, v, t, n, heap.right[t[k]])
    BY DEF Descent, DescentComplete
  <2>5. \A k \in 0..((n + 1) - 1) : Met(w, v, t, n + 1, heap.right[t[k]])
    BY <2>2, <2>3, <2>4, <1>3 DEF w
  <2>6. Met(w, v, t, n + 1, a) /\ Met(w, v, t, n + 1, b)
    BY <2>2 DEF Descent, DescentComplete
  <2> QED BY <2>5, <2>6 DEF DescentComplete
<1>14. DescentOrdered(o, s, w, v, t, n + 1)
  <2>1. (n + 1) - 1 = n
    OBVIOUS
  <2>2. \A z \in {w, v} \ {NULL} : Ordered(o, s, t[(n + 1) - 1], z)
    BY <2>1, <1>2
  <2>3. ASSUME NEW k \in 1..((n + 1) - 1) PROVE Ordered(o, s, t[k - 1], t[k])
    <3>1. CASE k = n
      <4>1. n > 0
        BY <3>1
      <4> QED BY <3>1, <4>1, <1>1 DEF Descent, DescentOrdered
    <3>2. CASE k # n
      <4>1. k \in 1..(n - 1)
        BY <3>2
      <4> QED BY <4>1 DEF Descent, DescentOrdered
    <3> QED BY <3>1, <3>2
  <2> QED BY <2>2, <2>3 DEF DescentOrdered
<1> QED BY <1>11, <1>12, <1>13, <1>14 DEF Descent, w

(* The node visited at each level of the recursion.                         *)
Tops(heap, s, a, b) ==
    [k \in Nat |-> Upper(s, Args(heap, s, a, b)[k][1], Args(heap, s, a, b)[k][2])]

LEMMA DescentAlways ==
    ASSUME NEW heap, NEW o, NEW s, NEW Q, NEW a, NEW b, Mergeable(heap, o, s, Q, a, b),
           NEW n \in Nat,
           \A k \in 0..(n - 1) : /\ Args(heap, s, a, b)[k][1] # NULL
                                 /\ Args(heap, s, a, b)[k][2] # NULL
    PROVE  Descent(heap, o, s, Q, a, b, Args(heap, s, a, b)[n][1], Args(heap, s, a, b)[n][2],
                Tops(heap, s, a, b), n)
<1> DEFINE A == Args(heap, s, a, b)
           t == Tops(heap, s, a, b)
           T == {m \in Nat : m <= n => Descent(heap, o, s, Q, a, b, A[m][1], A[m][2], t, m)}
<1>1. /\ A[0] = <<a, b>>
      /\ \A m \in Nat : A[m + 1] = Deeper(heap, s, A[m])
      /\ \A m \in Nat : t[m] = Upper(s, A[m][1], A[m][2])
  BY ArgsEquation DEF Tops
<1>2. \A k \in 0..(n - 1) : A[k][1] # NULL /\ A[k][2] # NULL
  OBVIOUS
<1> HIDE DEF A, t
<1>3. 0 \in T
  <2>1. A[0][1] = a /\ A[0][2] = b
    BY <1>1
  <2>2. DescentDistinct(Q, a, b, t, 0)
    BY DEF Mergeable, DescentDistinct
  <2>3. DescentReached(heap, a, b, a, b, t, 0)
    BY DEF DescentReached, FromRight
  <2>4. DescentComplete(heap, a, b, a, b, t, 0)
    BY DEF DescentComplete, Met
  <2>5. DescentOrdered(o, s, a, b, t, 0)
    BY DEF DescentOrdered
  <2> QED BY <2>1, <2>2, <2>3, <2>4, <2>5 DEF Descent
<1>4. ASSUME NEW m \in Nat, m \in T PROVE m + 1 \in T
  <2> SUFFICES ASSUME m + 1 <= n
               PROVE  Descent(heap, o, s, Q, a, b, A[m + 1][1], A[m + 1][2], t, m + 1)
    OBVIOUS
  <2> DEFINE x == A[m][1]
             y == A[m][2]
  <2>1. Descent(heap, o, s, Q, a, b, x, y, t, m)
    BY <1>4
  <2>2. m \in 0..(n - 1)
    OBVIOUS
  <2>3. x # NULL /\ y # NULL
    BY <1>2, <2>2
  <2>4. t[m] = Upper(s, x, y) /\ A[m + 1] = Deeper(heap, s, A[m])
    BY <1>1
  <2>5. x \in Q /\ y \in Q /\ x # y
    BY <2>1, <2>3 DEF Descent, DescentDistinct
  <2>6. CASE proc_stride_comp_f(s, x, y) < 0
    <3>1. t[m] = x /\ Ordered(o, s, x, y)
      BY <2>3, <2>4, <2>5, <2>6 DEF Upper, Mergeable, Comparable
    <3>2. A[m + 1][1] = heap.right[x] /\ A[m + 1][2] = y
      BY <2>4, <3>1 DEF Deeper
    <3> HIDE DEF x, y
    <3>3. Descent(heap, o, s, Q, a, b, heap.right[x], y, t, m + 1)
      BY <2>1, <2>3, <3>1, DescentStep
    <3> QED BY <3>2, <3>3
  <2>7. CASE ~(proc_stride_comp_f(s, x, y) < 0)
    <3>1. t[m] = y
      BY <2>3, <2>4, <2>7 DEF Upper
    <3>2. proc_stride_comp_f(s, x, y) \in Int
      BY <2>5 DEF Mergeable, Comparable
    <3>3. Ordered(o, s, y, x)
      BY <3>2, <2>7 DEF Ordered, proc_stride_comp_f
    <3>4. A[m + 1][1] = x /\ A[m + 1][2] = heap.right[y]
      BY <2>4, <2>5, <3>1 DEF Deeper
    <3> HIDE DEF x, y
    <3>5. Descent(heap, o, s, Q, a, b, y, x, t, m)
      BY <2>1, DescentSymmetric
    <3>6. Descent(heap, o, s, Q, a, b, heap.right[y], x, t, m + 1)
      BY <3>5, <2>3, <3>1, <3>3, DescentStep
    <3>7. Descent(heap, o, s, Q, a, b, x, heap.right[y], t, m + 1)
      BY <3>6, DescentSymmetric
    <3> QED BY <3>4, <3>7
  <2> QED BY <2>6, <2>7
<1>5. Nat \subseteq T
  <2> HIDE DEF T
  <2> QED BY <1>3, <1>4, SetInduction
<1>6. n \in T
  BY <1>5
<1> QED BY <1>6 DEF A, t

(* The recursion ends: it visits a node at most once.                       *)
LEMMA DescentEnds ==
    ASSUME NEW heap, NEW o, NEW s, NEW Q, NEW a, NEW b, Mergeable(heap, o, s, Q, a, b)
    PROVE  \E d \in 0..Cardinality(Procs) :
              /\ Args(heap, s, a, b)[d][1] = NULL \/ Args(heap, s, a, b)[d][2] = NULL
              /\ \A k \in 0..(d - 1) : /\ Args(heap, s, a, b)[k][1] # NULL
                                       /\ Args(heap, s, a, b)[k][2] # NULL
<1> DEFINE A == Args(heap, s, a, b)
           t == Tops(heap, s, a, b)
           N == Cardinality(Procs)
           D == {n \in 0..N : A[n][1] = NULL \/ A[n][2] = NULL}
<1>1. N \in Nat /\ IsFiniteSet(Procs)
  BY FS_CardinalityType, StrideAssumption
<1>2. D # {}
  <2> SUFFICES ASSUME D = {} PROVE FALSE
    OBVIOUS
  <2> DEFINE f == [k \in 0..N |-> t[k]]
  <2>1. \A k \in 0..N : A[k][1] # NULL /\ A[k][2] # NULL
    OBVIOUS
  <2>2. N + 1 \in Nat /\ \A k \in 0..((N + 1) - 1) : A[k][1] # NULL /\ A[k][2] # NULL
    BY <1>1, <2>1
  <2>3. Descent(heap, o, s, Q, a, b, A[N + 1][1], A[N + 1][2], t, N + 1)
    <3> HIDE DEF D, N
    <3> QED BY <2>2, DescentAlways
  <2> HIDE DEF t, A
  <2>4. /\ \A k \in 0..N : t[k] \in Q
        /\ \A k \in 0..N : \A j \in 0..(k - 1) : t[j] # t[k]
    <3>1. 0..((N + 1) - 1) = 0..N
      BY <1>1
    <3> QED BY <2>3, <3>1 DEF Descent, DescentDistinct
  <2>5. Q \subseteq Procs
    BY DEF Mergeable, Forest
  <2>6. f \in [0..N -> Procs]
    BY <2>4, <2>5
  <2>7. IsFiniteSet(0..N) /\ Cardinality(0..N) = N + 1
    <3> HIDE DEF N
    <3> QED BY <1>1, FS_Interval
  <2>8. Cardinality(Procs) < Cardinality(0..N)
    BY <1>1, <2>7
  <2> HIDE DEF f
  <2>9. \E j, k \in 0..N : j # k /\ f[j] = f[k]
    BY <1>1, <2>6, <2>7, <2>8, FS_PigeonHole
  <2>10. PICK j \in 0..N, k \in 0..N : j # k /\ f[j] = f[k]
    BY <2>9
  <2>11. t[j] = t[k]
    BY <2>10 DEF f
  <2>12. j \in 0..(k - 1) \/ k \in 0..(j - 1)
    BY <1>1, <2>10
  <2> QED BY <2>4, <2>11, <2>12
<1>3. D \subseteq Nat
  OBVIOUS
<1> HIDE DEF D
<1>4. PICK d \in D : \A k \in D : d <= k
  BY <1>2, <1>3, LeastNat
<1>5. \A k \in 0..(d - 1) : k \in 0..N /\ k \notin D
  BY <1>1, <1>3, <1>4 DEF D
<1> QED BY <1>4, <1>5 DEF D

(* What the merged path is made of.                                         *)
PathOk(heap, o, s, Q, a, b, path, d) ==
    /\ path \in Seq(Q \cup {NULL}) /\ d \in Nat /\ Len(path) = d + 1
    /\ \A i \in 1..d : path[i] \in Q
    /\ path[d + 1] = NULL => d = 0 /\ a = NULL /\ b = NULL
    /\ \A i, j \in 1..(d + 1) : path[i] = path[j] => i = j
    /\ \A i \in 1..(d + 1) :
          \/ path[i] \in {a, b}
          \/ \E j \in 1..(i - 1) : path[i] = heap.right[path[j]]
    /\ \A i \in 1..d : \/ heap.right[path[i]] = NULL
                       \/ \E j \in 1..(d + 1) : path[j] = heap.right[path[i]]
    /\ \A z \in {a, b} \ {NULL} : \E j \in 1..(d + 1) : path[j] = z
    /\ \A i \in 1..d : Ordered(o, s, path[i], path[i + 1])

LEMMA VisitedPath ==
    ASSUME NEW heap, NEW o, NEW s, NEW Q, NEW a, NEW b, Mergeable(heap, o, s, Q, a, b)
    PROVE  \E d \in Nat : PathOk(heap, o, s, Q, a, b, Visited(heap, s, a, b), d)
<1> DEFINE A == Args(heap, s, a, b)
           t == Tops(heap, s, a, b)
           N == Cardinality(Procs)
           levels == {n \in 0..N : \A k \in 0..n - 1 : A[k][1] # NULL /\ A[k][2] # NULL}
           path == Visited(heap, s, a, b)
<1>1. PICK d \in 0..N : /\ A[d][1] = NULL \/ A[d][2] = NULL
                        /\ \A k \in 0..(d - 1) : A[k][1] # NULL /\ A[k][2] # NULL
  BY DescentEnds
<1>2. N \in Nat /\ d \in Nat
  BY FS_CardinalityType, StrideAssumption
<1>3. Descent(heap, o, s, Q, a, b, A[d][1], A[d][2], t, d)
  BY <1>1, <1>2, DescentAlways
<1>4. /\ A[0] = <<a, b>>
      /\ \A m \in Nat : t[m] = Upper(s, A[m][1], A[m][2])
  BY ArgsEquation DEF Tops
<1>5. path = [i \in {n + 1 : n \in levels} |-> Upper(s, A[i - 1][1], A[i - 1][2])]
  BY DEF Visited
<1> HIDE DEF A, t, path
<1>6. levels = 0..d
  <2>1. ASSUME NEW n \in levels PROVE n \in 0..d
    <3>1. n \in 0..N /\ ~(d \in 0..(n - 1))
      BY <1>1, <2>1
    <3> QED BY <3>1, <1>2
  <2>2. ASSUME NEW n \in 0..d PROVE n \in levels
    <3>1. n \in 0..N /\ \A k \in 0..n - 1 : k \in 0..(d - 1)
      BY <1>1, <1>2
    <3> QED BY <3>1, <1>1
  <2> QED BY <2>1, <2>2
<1> HIDE DEF levels, N
<1>7. {n + 1 : n \in levels} = 1..(d + 1)
  <2>1. \A i \in 1..(d + 1) : i - 1 \in 0..d /\ i = (i - 1) + 1
    BY <1>2
  <2> QED BY <1>2, <1>6, <2>1
<1>8. path = [i \in 1..(d + 1) |-> t[i - 1]]
  <2>1. \A i \in 1..(d + 1) : t[i - 1] = Upper(s, A[i - 1][1], A[i - 1][2])
    BY <1>2, <1>4
  <2> QED BY <1>5, <1>7, <2>1
<1> DEFINE x == A[d][1]
           y == A[d][2]
<1>9. x \in Q \cup {NULL} /\ y \in Q \cup {NULL} /\ (x = NULL \/ y = NULL)
  BY <1>1, <1>3 DEF Descent, DescentDistinct
<1>10. t[d] \in {x, y} /\ {x, y} \subseteq {NULL, t[d]}
  <2>1. t[d] = Upper(s, x, y)
    BY <1>2, <1>4
  <2> QED BY <2>1, <1>9 DEF Upper
<1>11. t[d] = NULL => d = 0 /\ a = NULL /\ b = NULL
  <2> SUFFICES ASSUME t[d] = NULL PROVE d = 0 /\ a = NULL /\ b = NULL
    OBVIOUS
  <2>1. x = NULL /\ y = NULL
    BY <1>10
  <2>2. d = 0
    BY <1>2, <1>3, <2>1 DEF Descent, DescentDistinct
  <2>3. x = a /\ y = b
    BY <1>4, <2>2
  <2> QED BY <2>1, <2>2, <2>3
<1> HIDE DEF x, y
<1>12. \A k \in 0..(d - 1) : t[k] \in Q
  BY <1>3 DEF Descent, DescentDistinct, x, y
<1>13. \A k \in 0..d : t[k] \in Q \cup {NULL}
  BY <1>2, <1>9, <1>10, <1>12
<1>14. \A i \in 1..(d + 1) : path[i] = t[i - 1] /\ i - 1 \in 0..d
  BY <1>2, <1>8
<1>15. \A k \in 0..d : k + 1 \in 1..(d + 1) /\ path[k + 1] = t[k]
  BY <1>2, <1>8
<1>16. path \in Seq(Q \cup {NULL}) /\ Len(path) = d + 1
  <2>1. path \in [1..(d + 1) -> Q \cup {NULL}]
    BY <1>8, <1>13, <1>14
  <2> QED BY <1>2, <2>1
<1>17. \A i \in 1..d : path[i] \in Q
  BY <1>2, <1>12, <1>14
<1>18. path[d + 1] = NULL => d = 0 /\ a = NULL /\ b = NULL
  BY <1>2, <1>11, <1>15
<1>19. \A i, j \in 1..(d + 1) : path[i] = path[j] => i = j
  <2>1. ASSUME NEW k \in 0..d, NEW j \in 0..(k - 1) PROVE t[j] # t[k]
    <3>1. CASE k = d
      <4>1. t[j] # x /\ t[j] # y
        BY <3>1, <1>3 DEF Descent, DescentDistinct, x, y
      <4> QED BY <4>1, <3>1, <1>10
    <3>2. CASE k # d
      <4>1. k \in 0..(d - 1)
        BY <3>2, <1>2
      <4> QED BY <4>1, <1>3 DEF Descent, DescentDistinct
    <3> QED BY <3>1, <3>2
  <2>2. ASSUME NEW i \in 1..(d + 1), NEW j \in 1..(d + 1), path[i] = path[j], i # j PROVE FALSE
    <3>1. t[i - 1] = t[j - 1] /\ i - 1 \in 0..d /\ j - 1 \in 0..d
      BY <2>2, <1>14
    <3>2. i - 1 \in 0..((j - 1) - 1) \/ j - 1 \in 0..((i - 1) - 1)
      BY <1>2, <2>2
    <3> QED BY <2>1, <3>1, <3>2
  <2> QED BY <2>2
<1>20. ASSUME NEW i \in 1..(d + 1)
       PROVE  path[i] \in {a, b} \/ \E j \in 1..(i - 1) : path[i] = heap.right[path[j]]
  <2> DEFINE k == i - 1
  <2>1. k \in 0..d /\ path[i] = t[k]
    BY <1>14
  <2>2. FromRight(heap, a, b, t, k, t[k]) \/ t[k] = NULL
    <3>1. CASE k = d
      BY <3>1, <1>3, <1>10 DEF Descent, DescentReached, x, y
    <3>2. CASE k # d
      <4>1. k \in 0..(d - 1)
        BY <3>2, <2>1, <1>2
      <4> QED BY <4>1, <1>3 DEF Descent, DescentReached
    <3> QED BY <3>1, <3>2
  <2>3. CASE t[k] = NULL
    <3>1. k \notin 0..(d - 1)
      BY <2>3, <1>12, NullNotProc DEF Mergeable, Forest
    <3>2. k = d
      BY <3>1, <2>1, <1>2
    <3> QED BY <2>1, <2>3, <3>2, <1>11
  <2>4. CASE \E j \in 0..(k - 1) : t[k] = heap.right[t[j]]
    <3>1. PICK j \in 0..(k - 1) : t[k] = heap.right[t[j]]
      BY <2>4
    <3>2. j \in 0..d /\ j + 1 \in 1..(i - 1)
      BY <1>2
    <3>3. path[j + 1] = t[j]
      BY <3>2, <1>15
    <3> QED BY <2>1, <3>1, <3>2, <3>3
  <2> HIDE DEF k
  <2> QED BY <2>1, <2>2, <2>3, <2>4 DEF FromRight
<1>21. ASSUME NEW z, Met(x, y, t, d, z)
       PROVE  z = NULL \/ \E j \in 1..(d + 1) : path[j] = z
  <2>1. CASE z \in {NULL, x, y}
    <3>1. z = NULL \/ z = t[d]
      BY <2>1, <1>10
    <3>2. d + 1 \in 1..(d + 1) /\ path[d + 1] = t[d]
      BY <1>2, <1>15
    <3> QED BY <3>1, <3>2
  <2>2. CASE \E j \in 0..(d - 1) : z = t[j]
    <3>1. PICK j \in 0..(d - 1) : z = t[j]
      BY <2>2
    <3>2. j \in 0..d
      BY <1>2
    <3> QED BY <3>1, <3>2, <1>15
  <2> QED BY <1>21, <2>1, <2>2 DEF Met
<1>22. ASSUME NEW i \in 1..d
       PROVE  heap.right[path[i]] = NULL \/ \E j \in 1..(d + 1) : path[j] = heap.right[path[i]]
  <2>1. i - 1 \in 0..(d - 1) /\ path[i] = t[i - 1]
    BY <1>2, <1>14
  <2>2. Met(x, y, t, d, heap.right[path[i]])
    BY <2>1, <1>3 DEF Descent, DescentComplete, x, y
  <2> QED BY <2>2, <1>21
<1>23. \A z \in {a, b} \ {NULL} : \E j \in 1..(d + 1) : path[j] = z
  <2>1. Met(x, y, t, d, a) /\ Met(x, y, t, d, b)
    BY <1>3 DEF Descent, DescentComplete, x, y
  <2> QED BY <2>1, <1>21
<1>24. ASSUME NEW i \in 1..d PROVE Ordered(o, s, path[i], path[i + 1])
  <2>1. path[i] = t[i - 1] /\ path[i + 1] = t[i]
    <3>1. i \in 0..d /\ i \in 1..(d + 1)
      BY <1>2
    <3> QED BY <3>1, <1>14, <1>15
  <2>2. CASE i = d
    <3>1. d > 0 /\ t[d] # NULL /\ t[d] \in {x, y}
      BY <2>2, <1>10, <1>11
    <3> QED BY <2>1, <2>2, <3>1, <1>3 DEF Descent, DescentOrdered, x, y
  <2>3. CASE i # d
    <3>1. i \in 1..(d - 1)
      BY <2>3, <1>2
    <3> QED BY <2>1, <3>1, <1>3 DEF Descent, DescentOrdered
  <2> QED BY <2>2, <2>3
<1>25. PathOk(heap, o, s, Q, a, b, path, d)
  BY <1>2, <1>16, <1>17, <1>18, <1>19, <1>20, <1>22, <1>23, <1>24 DEF PathOk
<1> QED BY <1>2, <1>25 DEF path

-----------------------------------------------------------------------------
(* What skew_heap_merge makes of a forest with two roots.                   *)

(* The links after the merge, along the path and beside it.                 *)
Relinked(heap, path, d, new) ==
    /\ new.pool = path[1]
    /\ \A i \in 1..d : new.left[path[i]] = path[i + 1] /\ new.right[path[i]] = heap.left[path[i]]
    /\ \A p \in Procs : p \notin {path[i] : i \in 1..d} =>
          new.left[p] = heap.left[p] /\ new.right[p] = heap.right[p]
    /\ \A i \in 2..(d + 1) : path[i] \in Procs => new.parent[path[i]] = path[i - 1]
    /\ \A p \in Procs : p \notin {path[i] : i \in 2..(d + 1)} => new.parent[p] = heap.parent[p]

LEMMA MergeRelinks ==
    ASSUME NEW heap, NEW o, NEW s, NEW Q, NEW a, NEW b, NEW d \in Nat, Q \subseteq Procs,
           PathOk(heap, o, s, Q, a, b, Visited(heap, s, a, b), d)
    PROVE  /\ Relinked(heap, Visited(heap, s, a, b), d, skew_heap_merge(heap, s, a, b))
           /\ skew_heap_merge(heap, s, a, b) =
                [pool |-> skew_heap_merge(heap, s, a, b).pool,
                 left |-> skew_heap_merge(heap, s, a, b).left,
                 right |-> skew_heap_merge(heap, s, a, b).right,
                 parent |-> skew_heap_merge(heap, s, a, b).parent]
           /\ \A f \in {skew_heap_merge(heap, s, a, b).left, skew_heap_merge(heap, s, a, b).right,
                        skew_heap_merge(heap, s, a, b).parent} : f = [p \in Procs |-> f[p]]
<1> DEFINE path == Visited(heap, s, a, b)
           inner == 1..Len(path) - 1
           PlaceOf(p) == CHOOSE i \in DOMAIN path : path[i] = p
           On(S, p) == \E i \in S : path[i] = p
           new == skew_heap_merge(heap, s, a, b)
<1>1. new = [pool |-> path[1],
             left |-> [p \in Procs |-> IF On(inner, p) THEN path[PlaceOf(p) + 1] ELSE heap.left[p]],
             right |-> [p \in Procs |-> IF On(inner, p) THEN heap.left[p] ELSE heap.right[p]],
             parent |-> [p \in Procs |-> IF On(DOMAIN path \ {1}, p) THEN path[PlaceOf(p) - 1]
                                         ELSE heap.parent[p]]]
  BY DEF skew_heap_merge, Merged
<1>2. PathOk(heap, o, s, Q, a, b, path, d)
  OBVIOUS
<1> HIDE DEF path, new
<1>3. DOMAIN path = 1..(d + 1) /\ inner = 1..d /\ DOMAIN path \ {1} = 2..(d + 1)
  <2>1. Len(path) = d + 1 /\ path \in Seq(Q \cup {NULL})
    BY <1>2 DEF PathOk
  <2> QED BY <2>1
<1>4. \A i \in 1..(d + 1) : PlaceOf(path[i]) = i
  BY <1>2, <1>3 DEF PathOk
<1>5. \A p : On(inner, p) <=> p \in {path[i] : i \in 1..d}
  BY <1>3
<1>6. \A p : On(DOMAIN path \ {1}, p) <=> p \in {path[i] : i \in 2..(d + 1)}
  BY <1>3
<1> HIDE DEF inner, On, PlaceOf
<1>7. \A i \in 1..d : path[i] \in Procs /\ i \in 1..(d + 1)
  BY <1>2 DEF PathOk
<1>8. \A i \in 1..d : new.left[path[i]] = path[i + 1] /\ new.right[path[i]] = heap.left[path[i]]
  <2> SUFFICES ASSUME NEW i \in 1..d
               PROVE  new.left[path[i]] = path[i + 1] /\ new.right[path[i]] = heap.left[path[i]]
    OBVIOUS
  <2>1. On(inner, path[i]) /\ PlaceOf(path[i]) = i /\ path[i] \in Procs
    BY <1>4, <1>5, <1>7
  <2> QED BY <1>1, <2>1
<1>9. \A p \in Procs : p \notin {path[i] : i \in 1..d} =>
          new.left[p] = heap.left[p] /\ new.right[p] = heap.right[p]
  BY <1>1, <1>5
<1>10. \A i \in 2..(d + 1) : path[i] \in Procs => new.parent[path[i]] = path[i - 1]
  <2> SUFFICES ASSUME NEW i \in 2..(d + 1), path[i] \in Procs
               PROVE  new.parent[path[i]] = path[i - 1]
    OBVIOUS
  <2>1. On(DOMAIN path \ {1}, path[i])
    BY <1>6
  <2>2. PlaceOf(path[i]) = i
    BY <1>4
  <2> QED BY <1>1, <2>1, <2>2
<1>11. \A p \in Procs : p \notin {path[i] : i \in 2..(d + 1)} => new.parent[p] = heap.parent[p]
  BY <1>1, <1>6
<1>12. new.pool = path[1]
  BY <1>1
<1>13. Relinked(heap, path, d, new)
  BY <1>8, <1>9, <1>10, <1>11, <1>12 DEF Relinked
<1>14. new = [pool |-> new.pool, left |-> new.left, right |-> new.right, parent |-> new.parent]
  BY <1>1
<1>15. \A f \in {new.left, new.right, new.parent} : f = [p \in Procs |-> f[p]]
  BY <1>1
<1> QED BY <1>13, <1>14, <1>15 DEF path, new

LEMMA RelinkedForest ==
    ASSUME NEW heap, NEW o, NEW s, NEW Q, NEW a, NEW b, NEW path, NEW d, NEW new,
           Mergeable(heap, o, s, Q, a, b), PathOk(heap, o, s, Q, a, b, path, d),
           Relinked(heap, path, d, new)
    PROVE  Forest(new, o, s, Q, {path[1]} \ {NULL})
<1> DEFINE inner == {path[i] : i \in 1..d}
           later == {path[i] : i \in 2..(d + 1)}
           onPath == {path[i] : i \in 1..(d + 1)}
<1>1. /\ Q \subseteq Procs /\ NULL \notin Q /\ d \in Nat
      /\ 1 \in 1..(d + 1) /\ path[1] \in {a, b}
  BY NullNotProc DEF Mergeable, Forest, PathOk
<1>2. \A i \in 1..(d + 1) : path[i] \in Q \cup {NULL}
  BY <1>1 DEF PathOk
<1>3. onPath = later \cup {path[1]} /\ inner \subseteq onPath /\ inner \subseteq Q
  BY <1>1 DEF PathOk
<1>4. \A z \in {a, b} \ {NULL} : heap.parent[z] \notin Q /\ z \in onPath
  <2>1. \A z \in {a, b} \ {NULL} : heap.parent[z] \notin Q
    BY DEF Mergeable, Forest, Rooted
  <2>2. \A z \in {a, b} \ {NULL} : \E j \in 1..(d + 1) : path[j] = z
    BY DEF PathOk
  <2> QED BY <2>1, <2>2
<1>5. \A p \in Q : /\ heap.left[p] \in Q \cup {NULL} /\ heap.right[p] \in Q \cup {NULL}
                   /\ heap.left[p] = heap.right[p] => heap.left[p] = NULL
                   /\ \A q \in ChildrenOf(heap, p) : heap.parent[q] = p /\ Ordered(o, s, p, q)
  BY DEF Mergeable, Forest, Edges
<1>6. \A p \in Q \ {a, b} : heap.parent[p] \in Q /\ p \in ChildrenOf(heap, heap.parent[p])
  BY <1>1 DEF Mergeable, Forest, Rooted
(* Nothing but right children of inner nodes is on the path below a and b. *)
<1>7. ASSUME NEW z \in onPath, z # NULL, z \notin {a, b}
      PROVE  heap.parent[z] \in inner /\ z = heap.right[heap.parent[z]]
  <2>1. PICK i \in 1..(d + 1) : z = path[i]
    OBVIOUS
  <2>2. PICK j \in 1..(i - 1) : z = heap.right[path[j]]
    BY <1>7, <2>1 DEF PathOk
  <2>3. j \in 1..d
    BY <1>1
  <2>4. path[j] \in inner /\ path[j] \in Q
    BY <2>3, <1>3
  <2>5. z \in ChildrenOf(heap, path[j])
    BY <1>7, <2>2 DEF ChildrenOf
  <2>6. heap.parent[z] = path[j]
    BY <1>5, <2>4, <2>5
  <2> QED BY <2>2, <2>4, <2>6
<1>8. \A g \in inner : heap.right[g] # NULL => heap.right[g] \in onPath
  BY DEF PathOk
<1>9. ASSUME NEW g \in inner, heap.left[g] # NULL PROVE heap.left[g] \notin onPath
  <2> SUFFICES ASSUME heap.left[g] \in onPath PROVE FALSE
    OBVIOUS
  <2>1. g \in Q /\ heap.left[g] \in ChildrenOf(heap, g)
    BY <1>3, <1>9 DEF ChildrenOf
  <2>2. heap.parent[heap.left[g]] = g
    BY <2>1, <1>5
  <2>3. heap.left[g] \notin {a, b}
    BY <1>4, <1>9, <2>1, <2>2
  <2>4. heap.left[g] = heap.right[g]
    BY <1>7, <1>9, <2>2, <2>3
  <2> QED BY <2>1, <2>4, <1>5, <1>9
(* The new links.                                                          *)
<1>10. \A p \in Q : p \notin later => new.parent[p] = heap.parent[p]
  BY <1>1 DEF Relinked
<1>11. \A p \in Q : p \notin inner => new.left[p] = heap.left[p] /\ new.right[p] = heap.right[p]
  BY <1>1 DEF Relinked
<1>12. \A i \in 1..d : /\ new.left[path[i]] = path[i + 1] /\ new.right[path[i]] = heap.left[path[i]]
                       /\ path[i + 1] \in Q /\ new.parent[path[i + 1]] = path[i]
                       /\ Ordered(o, s, path[i], path[i + 1]) /\ path[i + 1] \in onPath
  <2> SUFFICES ASSUME NEW i \in 1..d
               PROVE  /\ new.left[path[i]] = path[i + 1] /\ new.right[path[i]] = heap.left[path[i]]
                      /\ path[i + 1] \in Q /\ new.parent[path[i + 1]] = path[i]
                      /\ Ordered(o, s, path[i], path[i + 1]) /\ path[i + 1] \in onPath
    OBVIOUS
  <2>1. i + 1 \in 2..(d + 1) /\ i + 1 \in 1..(d + 1) /\ (i + 1) - 1 = i
    BY <1>1
  <2>2. path[i + 1] \in Q
    <3>1. path[i + 1] # NULL
      <4>1. CASE i + 1 = d + 1
        <5>1. d # 0
          BY <1>1
        <5> QED BY <4>1, <5>1 DEF PathOk
      <4>2. CASE i + 1 # d + 1
        <5>1. i + 1 \in 1..d
          BY <4>2, <1>1
        <5> QED BY <5>1, <1>1 DEF PathOk
      <4> QED BY <4>1, <4>2
    <3> QED BY <1>2, <2>1, <3>1
  <2>3. new.parent[path[i + 1]] = path[i]
    BY <1>1, <2>1, <2>2 DEF Relinked
  <2>4. path[i + 1] \in onPath
    BY <2>1
  <2> QED BY <2>2, <2>3, <2>4 DEF Relinked, PathOk
<1>13. Edges(new, o, s, Q)
  <2> SUFFICES ASSUME NEW p \in Q
               PROVE  /\ new.left[p] \in Q \cup {NULL} /\ new.right[p] \in Q \cup {NULL}
                      /\ new.left[p] = new.right[p] => new.left[p] = NULL
                      /\ \A q \in ChildrenOf(new, p) : new.parent[q] = p /\ Ordered(o, s, p, q)
    BY DEF Edges
  <2>1. CASE p \in inner
    <3>1. PICK i \in 1..d : p = path[i]
      BY <2>1
    <3>2. /\ new.left[p] = path[i + 1] /\ new.right[p] = heap.left[p]
          /\ path[i + 1] \in Q /\ new.parent[path[i + 1]] = p /\ Ordered(o, s, p, path[i + 1])
          /\ path[i + 1] \in onPath
      BY <1>12, <3>1
    <3>3. new.right[p] # NULL =>
             new.right[p] \notin onPath /\ new.parent[new.right[p]] = p /\ Ordered(o, s, p, new.right[p])
      <4> SUFFICES ASSUME heap.left[p] # NULL
                   PROVE  /\ heap.left[p] \notin onPath /\ new.parent[heap.left[p]] = p
                          /\ Ordered(o, s, p, heap.left[p])
        BY <3>2
      <4>1. heap.left[p] \in Q /\ heap.left[p] \in ChildrenOf(heap, p)
        BY <1>5 DEF ChildrenOf
      <4>2. heap.left[p] \notin onPath /\ heap.left[p] \notin later
        BY <1>3, <1>9, <2>1
      <4> QED BY <4>1, <4>2, <1>5, <1>10
    <3>4. new.right[p] \in Q \cup {NULL}
      BY <3>2, <1>5
    <3> QED BY <3>2, <3>3, <3>4 DEF ChildrenOf
  <2>2. CASE p \notin inner
    <3>1. new.left[p] = heap.left[p] /\ new.right[p] = heap.right[p]
      BY <2>2, <1>11
    <3>2. ChildrenOf(new, p) = ChildrenOf(heap, p)
      BY <3>1 DEF ChildrenOf
    <3>3. ASSUME NEW q \in ChildrenOf(heap, p) PROVE new.parent[q] = p
      <4>1. heap.parent[q] = p /\ q \in Q /\ q # NULL
        BY <1>5 DEF ChildrenOf
      <4>2. q \notin {a, b}
        BY <1>4, <4>1
      <4>3. q \notin onPath
        BY <1>7, <2>2, <4>1, <4>2
      <4> QED BY <1>3, <1>10, <4>1, <4>3
    <3> QED BY <1>5, <3>1, <3>2, <3>3
  <2> QED BY <2>1, <2>2
<1>14. Rooted(new, Q, {path[1]} \ {NULL})
  <2>1. path[1] # NULL => path[1] \in Q /\ path[1] \notin later /\ heap.parent[path[1]] \notin Q
    <3>1. path[1] \in Q \cup {NULL}
      BY <1>1, <1>2
    <3>2. path[1] \notin later
      <4>1. \A i \in 2..(d + 1) : i \in 1..(d + 1) /\ i # 1
        BY <1>1
      <4> QED BY <1>1, <4>1 DEF PathOk
    <3> QED BY <1>1, <1>4, <3>1, <3>2
  <2>2. \A p \in {path[1]} \ {NULL} : new.parent[p] \notin Q
    BY <2>1, <1>10
  <2>3. ASSUME NEW p \in Q, p # path[1]
        PROVE  new.parent[p] \in Q /\ p \in ChildrenOf(new, new.parent[p])
    <3>1. CASE p \in later
      <4>1. PICK j \in 2..(d + 1) : p = path[j]
        BY <3>1
      <4>2. j - 1 \in 1..d /\ (j - 1) + 1 = j
        BY <1>1
      <4>3. new.left[path[j - 1]] = p /\ new.parent[p] = path[j - 1] /\ path[j - 1] \in Q
        <5>1. /\ new.left[path[j - 1]] = path[(j - 1) + 1]
              /\ new.parent[path[(j - 1) + 1]] = path[j - 1]
          BY <4>2, <1>12
        <5>2. path[j - 1] \in inner
          BY <4>2
        <5> QED BY <4>1, <4>2, <5>1, <5>2, <1>3
      <4> QED BY <4>3, <1>1 DEF ChildrenOf
    <3>2. CASE p \notin later
      <4>1. p \notin onPath /\ p \notin {a, b}
        BY <3>2, <2>3, <1>1, <1>3, <1>4
      <4> DEFINE g == heap.parent[p]
      <4>2. new.parent[p] = g /\ g \in Q /\ p \in ChildrenOf(heap, g)
        BY <3>2, <4>1, <1>6, <1>10
      <4>3. CASE g \notin inner
        BY <4>2, <4>3, <1>11 DEF ChildrenOf
      <4>4. CASE g \in inner
        <5>1. p = heap.left[g]
          BY <4>1, <4>2, <4>4, <1>8 DEF ChildrenOf
        <5>2. PICK i \in 1..d : g = path[i]
          BY <4>4
        <5>3. new.right[g] = heap.left[g]
          BY <5>2, <1>12
        <5> QED BY <4>2, <5>1, <5>3, <1>1 DEF ChildrenOf
      <4> QED BY <4>3, <4>4
    <3> QED BY <3>1, <3>2
  <2> QED BY <2>2, <2>3, <1>1 DEF Rooted
<1>15. Founded(new, Q)
  <2> SUFFICES ASSUME NEW S \in SUBSET Q, S # {}, \A p \in S : new.parent[p] \in S
               PROVE  FALSE
    BY DEF Founded
  <2>1. CASE \E i \in 1..(d + 1) : path[i] \in S
    <3> DEFINE I == {i \in 1..(d + 1) : path[i] \in S}
    <3>1. I \subseteq Nat /\ I # {}
      BY <2>1
    <3>2. PICK i \in I : \A j \in I : i <= j
      BY <3>1, LeastNat
    <3>3. CASE i = 1
      <4>1. path[1] \in Q /\ path[1] # NULL /\ new.parent[path[1]] \in Q
        BY <3>3, <1>1
      <4> QED BY <4>1, <1>14 DEF Rooted
    <3>4. CASE i # 1
      <4>1. i \in 2..(d + 1) /\ i - 1 \in 1..(d + 1) /\ path[i] \in Procs
        BY <3>4, <1>1
      <4>2. new.parent[path[i]] = path[i - 1]
        BY <4>1 DEF Relinked
      <4>3. i - 1 \in I
        BY <4>1, <4>2
      <4>4. i \in Int /\ i <= i - 1
        BY <3>2, <4>1, <4>3
      <4> QED BY <4>4
    <3> QED BY <3>3, <3>4
  <2>2. CASE \A i \in 1..(d + 1) : path[i] \notin S
    <3>1. \A p \in S : p \in Q /\ p \notin later
      BY <2>2, <1>1
    <3>2. \A p \in S : heap.parent[p] \in S
      BY <3>1, <1>10
    <3> QED BY <3>2 DEF Mergeable, Forest, Founded
  <2> QED BY <2>1, <2>2
<1>16. {path[1]} \ {NULL} \subseteq Q
  BY <1>1, <1>2
<1> QED BY <1>1, <1>13, <1>14, <1>15, <1>16 DEF Forest

(* skew_heap_merge makes one tree of the forest; the new root is one of the *)
(* old ones, and nobody outside the forest is touched.                      *)
HeapRecord(heap) ==
    /\ heap = [pool |-> heap.pool, left |-> heap.left, right |-> heap.right,
               parent |-> heap.parent]
    /\ heap.left = [p \in Procs |-> heap.left[p]]
    /\ heap.right = [p \in Procs |-> heap.right[p]]
    /\ heap.parent = [p \in Procs |-> heap.parent[p]]

SameLinks(heap, new, S) ==
    \A p \in S : /\ new.left[p] = heap.left[p] /\ new.right[p] = heap.right[p]
                 /\ new.parent[p] = heap.parent[p]

MergeResult(heap, o, s, Q, a, b, new) ==
    /\ Forest(new, o, s, Q, {new.pool} \ {NULL})
    /\ HeapRecord(new)
    /\ new.pool \in {a, b}
    /\ new.pool = NULL => a = NULL /\ b = NULL
    /\ SameLinks(heap, new, Procs \ Q)
    /\ \A p \in Procs : p = new.pool => new.parent[p] = heap.parent[p]

LEMMA MergeForest ==
    ASSUME NEW heap, NEW o, NEW s, NEW Q, NEW a, NEW b, Mergeable(heap, o, s, Q, a, b)
    PROVE  MergeResult(heap, o, s, Q, a, b, skew_heap_merge(heap, s, a, b))
<1> DEFINE new == skew_heap_merge(heap, s, a, b)
           path == Visited(heap, s, a, b)
<1>1. PICK d \in Nat : PathOk(heap, o, s, Q, a, b, path, d)
  BY VisitedPath
<1>2. Q \subseteq Procs /\ NULL \notin Q
  BY NullNotProc DEF Mergeable, Forest
<1>3. /\ Relinked(heap, path, d, new)
      /\ new = [pool |-> new.pool, left |-> new.left, right |-> new.right, parent |-> new.parent]
      /\ \A f \in {new.left, new.right, new.parent} : f = [p \in Procs |-> f[p]]
  BY <1>1, <1>2, MergeRelinks
<1> HIDE DEF new, path
<1>4. new.pool = path[1]
  BY <1>3 DEF Relinked
<1>5. Forest(new, o, s, Q, {new.pool} \ {NULL})
  BY <1>1, <1>3, <1>4, RelinkedForest
<1>6. HeapRecord(new)
  BY <1>3 DEF HeapRecord
<1>7. 1 \in 1..(d + 1) /\ 1..(1 - 1) = {}
  OBVIOUS
<1>8. path[1] \in {a, b}
  BY <1>1, <1>7 DEF PathOk
<1>9. path[1] = NULL => a = NULL /\ b = NULL
  <2> SUFFICES ASSUME path[1] = NULL PROVE a = NULL /\ b = NULL
    OBVIOUS
  <2>1. d = 0
    <3>1. d # 0 => 1 \in 1..d
      OBVIOUS
    <3> QED BY <1>1, <1>2, <3>1 DEF PathOk
  <2> QED BY <2>1, <1>1 DEF PathOk
<1>10. \A i \in 1..d : path[i] \in Q
  BY <1>1 DEF PathOk
<1>11. \A i \in 1..(d + 1) : path[i] \in Q \cup {NULL}
  <2> SUFFICES ASSUME NEW i \in 1..(d + 1) PROVE path[i] \in Q \cup {NULL}
    OBVIOUS
  <2>1. path \in Seq(Q \cup {NULL}) /\ Len(path) = d + 1
    BY <1>1 DEF PathOk
  <2> QED BY <2>1
<1>12. SameLinks(heap, new, Procs \ Q)
  <2> SUFFICES ASSUME NEW p \in Procs, p \notin Q
               PROVE  /\ new.left[p] = heap.left[p] /\ new.right[p] = heap.right[p]
                      /\ new.parent[p] = heap.parent[p]
    BY DEF SameLinks
  <2>1. p \notin {path[i] : i \in 1..d}
    BY <1>10
  <2>2. p \notin {path[i] : i \in 2..(d + 1)}
    <3>1. \A i \in 2..(d + 1) : i \in 1..(d + 1)
      OBVIOUS
    <3> QED BY <3>1, <1>11, NullNotProc
  <2> QED BY <2>1, <2>2, <1>3 DEF Relinked
<1>13. ASSUME NEW p \in Procs, p = new.pool PROVE new.parent[p] = heap.parent[p]
  <2>1. p \notin {path[i] : i \in 2..(d + 1)}
    <3>1. \A i \in 2..(d + 1) : i \in 1..(d + 1) /\ i # 1
      OBVIOUS
    <3> QED BY <3>1, <1>1, <1>4, <1>7, <1>13 DEF PathOk
  <2> QED BY <2>1, <1>3 DEF Relinked
<1>14. new.pool \in {a, b} /\ (new.pool = NULL => a = NULL /\ b = NULL)
  BY <1>4, <1>8, <1>9
<1>15. MergeResult(heap, o, s, Q, a, b, new)
  BY <1>5, <1>6, <1>12, <1>13, <1>14 DEF MergeResult
<1> QED BY <1>15 DEF new

-----------------------------------------------------------------------------
(* The heap of the processes P: one tree; who is not in it has no links.    *)
HeapOf(heap, o, s, P) ==
    /\ HeapRecord(heap)
    /\ Forest(heap, o, s, P, {heap.pool} \ {NULL})
    /\ heap.pool = NULL <=> P = {}
    /\ \A p \in P : p = heap.pool => heap.parent[p] = NULL
    /\ \A p \in Procs \ P :
          heap.left[p] = NULL /\ heap.right[p] = NULL /\ heap.parent[p] = NULL

LEMMA RootInHeap ==
    ASSUME NEW heap, NEW o, NEW s, NEW P, HeapOf(heap, o, s, P), heap.pool # NULL
    PROVE  heap.pool \in P
BY DEF HeapOf, Forest

LEMMA EmptyForest ==
    ASSUME NEW heap, NEW o, NEW s, NEW Q, Forest(heap, o, s, Q, {})
    PROVE  Q = {}
<1> SUFFICES ASSUME Q # {} PROVE FALSE
  OBVIOUS
<1>1. \E p \in Q : heap.parent[p] \notin Q
  BY DEF Forest, Founded
<1> QED BY <1>1 DEF Forest, Rooted

(* skew_heap_insert adds a process that has no links.                       *)
LEMMA InsertHeap ==
    ASSUME NEW heap, NEW o, NEW s, NEW P, NEW p \in Procs \ P,
           HeapOf(heap, o, s, P), Comparable(o, s, P \cup {p})
    PROVE  HeapOf(skew_heap_insert(heap, s, p), o, s, P \cup {p})
<1> DEFINE Q == P \cup {p}
           r == heap.pool
           new == skew_heap_merge(heap, s, r, p)
<1>1. /\ P \subseteq Procs /\ NULL \notin P /\ p # NULL /\ NULL \notin Q /\ Q \subseteq Procs
      /\ heap.left[p] = NULL /\ heap.right[p] = NULL /\ heap.parent[p] = NULL
      /\ r = NULL <=> P = {}
      /\ Forest(heap, o, s, P, {r} \ {NULL})
  BY NullNotProc DEF HeapOf, Forest
<1>2. r \in P \cup {NULL} /\ (r # NULL => heap.parent[r] = NULL)
  BY RootInHeap DEF HeapOf
<1>3. Edges(heap, o, s, Q)
  BY <1>1 DEF Forest, Edges, ChildrenOf
<1>4. Rooted(heap, Q, {r, p} \ {NULL})
  <2>1. \A q \in {r, p} \ {NULL} : heap.parent[q] = NULL
    BY <1>1, <1>2
  <2>2. \A q \in Q \ ({r, p} \ {NULL}) : q \in P \ ({r} \ {NULL})
    BY <1>1
  <2> QED BY <1>1, <2>1, <2>2 DEF Forest, Rooted
<1>5. Founded(heap, Q)
  <2> SUFFICES ASSUME NEW S \in SUBSET Q, S # {}, \A q \in S : heap.parent[q] \in S
               PROVE  FALSE
    BY DEF Founded
  <2>1. p \notin S
    BY <1>1
  <2>2. S \in SUBSET P
    BY <2>1
  <2> QED BY <1>1, <2>2 DEF Forest, Founded
<1>6. Mergeable(heap, o, s, Q, r, p)
  <2>1. {r, p} \ {NULL} \subseteq Q
    BY <1>2
  <2>2. Forest(heap, o, s, Q, {r, p} \ {NULL})
    BY <1>1, <1>3, <1>4, <1>5, <2>1 DEF Forest
  <2> QED BY <1>1, <1>2, <2>2 DEF Mergeable
<1>7. /\ Forest(new, o, s, Q, {new.pool} \ {NULL}) /\ HeapRecord(new)
      /\ new.pool \in {r, p} /\ new.pool # NULL
      /\ SameLinks(heap, new, Procs \ Q)
      /\ \A q \in Procs : q = new.pool => new.parent[q] = heap.parent[q]
  <2> HIDE DEF Q, r
  <2>1. MergeResult(heap, o, s, Q, r, p, new)
    BY <1>6, MergeForest
  <2> HIDE DEF new
  <2> QED BY <1>1, <2>1 DEF MergeResult
<1> HIDE DEF new
<1>8. \A q \in Q : q = new.pool => new.parent[q] = NULL
  BY <1>1, <1>2, <1>7
<1>9. \A q \in Procs \ Q :
          new.left[q] = NULL /\ new.right[q] = NULL /\ new.parent[q] = NULL
  BY <1>7 DEF HeapOf, SameLinks
<1>10. HeapOf(new, o, s, Q)
  BY <1>7, <1>8, <1>9 DEF HeapOf
<1>11. skew_heap_insert(heap, s, p) = new
  BY DEF skew_heap_insert, new
<1> QED BY <1>10, <1>11

(* A forest is one for every order that agrees on its processes.            *)
LEMMA ForestStride ==
    ASSUME NEW heap, NEW o, NEW s, NEW s2, NEW Q, NEW R, Forest(heap, o, s, Q, R),
           \A p \in Q : s2[p] = s[p]
    PROVE  Forest(heap, o, s2, Q, R)
<1>1. Edges(heap, o, s2, Q)
  BY DEF Forest, Edges, ChildrenOf, Ordered
<1> QED BY <1>1 DEF Forest

(* skew_heap_remove takes out the root, whose stride may have changed.      *)
LEMMA RemoveHeap ==
    ASSUME NEW heap, NEW o, NEW s, NEW s2, NEW P, HeapOf(heap, o, s, P), heap.pool # NULL,
           \A p \in P \ {heap.pool} : s2[p] = s[p], Comparable(o, s2, P \ {heap.pool})
    PROVE  HeapOf(skew_heap_remove(heap, s2, heap.pool), o, s2, P \ {heap.pool})
<1> DEFINE r == heap.pool
           Q == P \ {r}
           a == heap.left[r]
           b == heap.right[r]
           new == skew_heap_merge(heap, s2, a, b)
           rep == new.pool
           left == [q \in Procs |-> IF q = r THEN NULL ELSE new.left[q]]
           right == [q \in Procs |-> IF q = r THEN NULL ELSE new.right[q]]
           parent == [q \in Procs |-> IF q = r THEN NULL
                                      ELSE IF q = rep THEN NULL ELSE new.parent[q]]
           out == [pool |-> rep, left |-> left, right |-> right, parent |-> parent]
<1>1. /\ P \subseteq Procs /\ NULL \notin P /\ r \in P /\ heap.parent[r] = NULL
      /\ Forest(heap, o, s, P, {r}) /\ r # NULL
  BY NullNotProc, RootInHeap DEF HeapOf, Forest
<1>2. skew_heap_remove(heap, s2, r) = out
  <2>1. \A q \in Procs : q # NULL
    BY NullNotProc
  <2> HIDE DEF new
  <2>2. heap.parent[r] = NULL
    BY <1>1
  <2>3. skew_heap_remove(heap, s2, r) =
          [pool |-> IF heap.parent[r] = NULL THEN rep ELSE heap.pool,
           left |-> [q \in Procs |-> IF q = r THEN NULL
                                     ELSE IF q = heap.parent[r] /\ new.left[q] = r THEN rep
                                     ELSE new.left[q]],
           right |-> [q \in Procs |-> IF q = r THEN NULL
                                     ELSE IF q = heap.parent[r] /\ new.right[q] = r THEN rep
                                     ELSE new.right[q]],
           parent |-> [q \in Procs |-> IF q = r THEN NULL
                                       ELSE IF q = rep THEN heap.parent[r] ELSE new.parent[q]]]
    BY DEF skew_heap_remove, new
  <2> HIDE DEF r
  <2> QED BY <2>1, <2>2, <2>3
<1>3. /\ a \in P \cup {NULL} /\ b \in P \cup {NULL} /\ (a = b => a = NULL)
      /\ \A z \in {a, b} \ {NULL} : heap.parent[z] = r
  BY <1>1 DEF Forest, Edges, ChildrenOf
<1>4. a \in Q \cup {NULL} /\ b \in Q \cup {NULL}
  BY <1>1, <1>3
<1>5. Edges(heap, o, s, Q)
  <2>1. \A q \in Q : r \notin ChildrenOf(heap, q)
    BY <1>1 DEF Forest, Edges
  <2> QED BY <1>1, <2>1 DEF Forest, Edges, ChildrenOf
<1>6. Rooted(heap, Q, {a, b} \ {NULL})
  <2>1. ASSUME NEW q \in Q, q \notin {a, b} \ {NULL}
        PROVE  heap.parent[q] \in Q /\ q \in ChildrenOf(heap, heap.parent[q])
    <3>1. heap.parent[q] \in P /\ q \in ChildrenOf(heap, heap.parent[q])
      BY <1>1 DEF Forest, Rooted
    <3>2. q \notin ChildrenOf(heap, r)
      BY <2>1 DEF ChildrenOf
    <3> QED BY <3>1, <3>2
  <2> QED BY <1>3, <2>1 DEF Rooted
<1>7. Founded(heap, Q)
  BY <1>1 DEF Forest, Founded
<1>8. Forest(heap, o, s, Q, {a, b} \ {NULL})
  BY <1>1, <1>4, <1>5, <1>6, <1>7 DEF Forest
<1>9. Mergeable(heap, o, s2, Q, a, b)
  <2>1. Forest(heap, o, s2, Q, {a, b} \ {NULL})
    <3> HIDE DEF Q, a, b
    <3>1. \A p \in Q : s2[p] = s[p]
      BY DEF Q
    <3> QED BY <1>8, <3>1, ForestStride
  <2> QED BY <1>3, <1>4, <2>1 DEF Mergeable
<1>10. /\ Forest(new, o, s2, Q, {rep} \ {NULL}) /\ HeapRecord(new)
       /\ rep \in {a, b} /\ (rep = NULL => a = NULL /\ b = NULL)
       /\ SameLinks(heap, new, Procs \ Q)
  <2> HIDE DEF Q, a, b
  <2>1. MergeResult(heap, o, s2, Q, a, b, new)
    BY <1>9, MergeForest
  <2> HIDE DEF new
  <2> QED BY <2>1 DEF MergeResult
<1> HIDE DEF new, a, b
<1>11. /\ NULL \notin Q /\ Q \subseteq Procs /\ r \notin Q /\ rep \in Q \cup {NULL}
  BY <1>1, <1>4, <1>10
<1> HIDE DEF Q
<1>12. \A q \in Q : /\ out.left[q] = new.left[q] /\ out.right[q] = new.right[q]
                    /\ out.parent[q] = IF q = rep THEN NULL ELSE new.parent[q]
  BY <1>11
<1>13. Edges(out, o, s2, Q)
  <2>1. \A q \in Q : rep \notin ChildrenOf(new, q)
    BY <1>10, <1>11 DEF Forest, Edges, Rooted, ChildrenOf
  <2>2. \A q \in Q : ChildrenOf(out, q) = ChildrenOf(new, q) /\ ChildrenOf(new, q) \subseteq Q
    BY <1>10, <1>12 DEF Forest, Edges, ChildrenOf
  <2>3. Edges(new, o, s2, Q)
    BY <1>10 DEF Forest
  <2> HIDE DEF out, rep
  <2> QED BY <1>12, <2>1, <2>2, <2>3 DEF Edges
<1>14. Rooted(out, Q, {rep} \ {NULL})
  <2>1. \A q \in Q : ChildrenOf(out, q) = ChildrenOf(new, q)
    BY <1>12 DEF ChildrenOf
  <2>2. Rooted(new, Q, {rep} \ {NULL})
    BY <1>10 DEF Forest
  <2> HIDE DEF out, rep
  <2> QED BY <1>11, <1>12, <2>1, <2>2 DEF Rooted
<1>15. Founded(out, Q)
  <2> SUFFICES ASSUME NEW S \in SUBSET Q, S # {}, \A q \in S : out.parent[q] \in S
               PROVE  FALSE
    BY DEF Founded
  <2>1. rep \notin S
    BY <1>11, <1>12
  <2>2. \A q \in S : new.parent[q] \in S
    <3>1. \A q \in S : q \in Q /\ q # rep
      BY <2>1
    <3> HIDE DEF out, rep
    <3> QED BY <1>12, <3>1
  <2> QED BY <1>10, <2>2 DEF Forest, Founded
<1>16. rep = NULL <=> Q = {}
  <2>1. ASSUME rep = NULL PROVE Q = {}
    <3>1. {rep} \ {NULL} = {}
      BY <2>1
    <3>2. Forest(new, o, s2, Q, {})
      BY <1>10, <3>1
    <3> QED BY <3>2, EmptyForest
  <2> QED BY <1>11, <2>1
<1>17. \A q \in Procs \ Q :
          out.left[q] = NULL /\ out.right[q] = NULL /\ out.parent[q] = NULL
  <2> SUFFICES ASSUME NEW q \in Procs, q \notin Q, q # r
               PROVE  out.left[q] = NULL /\ out.right[q] = NULL /\ out.parent[q] = NULL
    OBVIOUS
  <2>1. q \notin P
    BY DEF Q
  <2>2. heap.left[q] = NULL /\ heap.right[q] = NULL /\ heap.parent[q] = NULL
    BY <2>1 DEF HeapOf
  <2>3. new.left[q] = NULL /\ new.right[q] = NULL /\ new.parent[q] = NULL
    BY <1>10, <2>2 DEF SameLinks
  <2> QED BY <2>3
<1>18. Forest(out, o, s2, Q, {out.pool} \ {NULL})
  BY <1>11, <1>13, <1>14, <1>15 DEF Forest
<1>19. HeapRecord(out)
  BY DEF HeapRecord
<1>20. \A q \in Q : q = out.pool => out.parent[q] = NULL
  BY <1>12
<1>21. HeapOf(out, o, s2, Q)
  BY <1>16, <1>17, <1>18, <1>19, <1>20 DEF HeapOf
<1> QED BY <1>2, <1>21 DEF Q, r

-----------------------------------------------------------------------------
(* Strides that overflow.                                                   *)
Words == 0..(WORD - 1)

LEMMA WordSize ==
    /\ BIG_STRIDE \in Nat /\ WORD \in Nat \ {0} /\ WORD = 2 * BIG_STRIDE + 2
    /\ WORD \div 2 = BIG_STRIDE + 1
BY StrideAssumption

LEMMA ModRange ==
    ASSUME NEW B \in Nat \ {0}, NEW i \in Int, -B <= i, i < 2 * B
    PROVE  i % B = IF i < 0 THEN i + B ELSE IF i < B THEN i ELSE i - B
<1> DEFINE k == i \div B
           r == i % B
<1>1. k \in Int /\ r \in 0..(B - 1) /\ i = B * k + r
  OBVIOUS
<1> HIDE DEF k, r
<1>2. /\ k - 1 \in Int /\ k + 1 \in Int /\ B * (k - 1) \in Int /\ B * (k + 1) \in Int
      /\ B * k \in Int /\ B * 1 = B
  BY <1>1
<1>3. /\ k >= 1 => B * k >= B
      /\ k <= 0 => B * k <= 0
      /\ k <= -1 => B * k <= -B
  BY <1>1, Multiple
<1>4. /\ k - 1 >= 1 => B * (k - 1) >= B
      /\ k - 1 <= 0 => B * (k - 1) <= 0
  BY <1>2, Multiple
<1>5. k + 1 <= -1 => B * (k + 1) <= -B
  BY <1>2, Multiple
<1>6. B * (k - 1) = B * k - B
  BY <1>1, <1>2, Factor
<1>7. B * (k + 1) = B * k + B
  <2>1. (k + 1) - 1 = k
    BY <1>1
  <2>2. B * (k + 1) - B * 1 = B * k
    BY <1>2, <2>1, Factor
  <2> QED BY <1>2, <2>2
<1>8. k \in {-1, 0, 1}
  BY <1>1, <1>2, <1>3, <1>4, <1>5, <1>6, <1>7
<1>9. CASE k = 0
  <2>1. B * k = 0
    BY <1>9
  <2> QED BY <1>1, <2>1 DEF r
<1>10. CASE k = 1
  <2>1. B * k = B
    BY <1>10
  <2> QED BY <1>1, <2>1 DEF r
<1>11. CASE k = -1
  <2>1. B * (k + 1) = 0
    BY <1>11
  <2>2. B * k = -B
    BY <1>2, <1>7, <2>1
  <2> QED BY <1>1, <2>2 DEF r
<1> QED BY <1>8, <1>9, <1>10, <1>11

(* How far x is ahead of v, on the circle of the words.                     *)
Ahead(v, x) == (x - v) % WORD

LEMMA AheadIs ==
    ASSUME NEW v \in Words, NEW x \in Words
    PROVE  /\ Ahead(v, x) = IF x >= v THEN x - v ELSE (x - v) + WORD
           /\ Ahead(v, x) \in Words
<1>1. x - v \in Int /\ -WORD <= x - v /\ x - v < WORD /\ x - v < 2 * WORD /\ WORD \in Nat \ {0}
  BY WordSize DEF Words
<1>2. (x - v) % WORD = IF x - v < 0 THEN (x - v) + WORD
                       ELSE IF x - v < WORD THEN x - v ELSE (x - v) - WORD
  BY <1>1, ModRange
<1> QED BY <1>1, <1>2, WordSize DEF Words, Ahead

(* The strides of S are within BIG_STRIDE ahead of v.                       *)
Spread(s, S, v) == v \in Words /\ \A q \in S : s[q] \in Words /\ Ahead(v, s[q]) <= BIG_STRIDE

(* proc_stride_comp_f compares as if nothing had overflowed.                *)
LEMMA SignedIs ==
    ASSUME NEW v \in Words, NEW x \in Words, NEW y \in Words,
           Ahead(v, x) <= BIG_STRIDE, Ahead(v, y) <= BIG_STRIDE
    PROVE  Signed(y - x) = Ahead(v, y) - Ahead(v, x)
<1>1. /\ Ahead(v, x) = IF x >= v THEN x - v ELSE (x - v) + WORD
      /\ Ahead(v, y) = IF y >= v THEN y - v ELSE (y - v) + WORD
      /\ Ahead(x, y) = IF y >= x THEN y - x ELSE (y - x) + WORD
  BY AheadIs
<1>2. Signed(y - x) = IF Ahead(x, y) < WORD \div 2 THEN Ahead(x, y) ELSE Ahead(x, y) - WORD
  BY DEF Signed, Ahead
<1>3. v \in Int /\ x \in Int /\ y \in Int /\ 0 <= v /\ 0 <= x /\ 0 <= y
      /\ v < WORD /\ x < WORD /\ y < WORD
  BY WordSize DEF Words
<1> HIDE DEF Ahead, Signed
<1> QED BY <1>1, <1>2, <1>3, WordSize

LEMMA SpreadOrder ==
    ASSUME NEW s, NEW S, NEW v, Spread(s, S, v)
    PROVE  \A p, q \in S : /\ Signed(s[q] - s[p]) = Ahead(v, s[q]) - Ahead(v, s[p])
                           /\ Ahead(v, s[p]) \in Int /\ Ahead(v, s[q]) \in Int
<1> SUFFICES ASSUME NEW p \in S, NEW q \in S
             PROVE  /\ Signed(s[q] - s[p]) = Ahead(v, s[q]) - Ahead(v, s[p])
                    /\ Ahead(v, s[p]) \in Int /\ Ahead(v, s[q]) \in Int
  OBVIOUS
<1>1. /\ v \in Words /\ s[p] \in Words /\ s[q] \in Words
      /\ Ahead(v, s[p]) <= BIG_STRIDE /\ Ahead(v, s[q]) <= BIG_STRIDE
  BY DEF Spread
<1>2. Ahead(v, s[p]) \in Words /\ Ahead(v, s[q]) \in Words
  BY <1>1, AheadIs
<1>3. Words \subseteq Int
  BY WordSize DEF Words
<1> QED BY <1>1, <1>2, <1>3, SignedIs

LEMMA OrderedIsLess ==
    ASSUME NEW s, NEW S, NEW v, Spread(s, S, v)
    PROVE  \A p, q \in S : Ordered("order", s, p, q) <=> Ahead(v, s[p]) <= Ahead(v, s[q])
<1>1. \A p, q \in S : /\ Signed(s[q] - s[p]) = Ahead(v, s[q]) - Ahead(v, s[p])
                      /\ Ahead(v, s[p]) \in Int /\ Ahead(v, s[q]) \in Int
  BY SpreadOrder
<1> HIDE DEF Ahead, Signed
<1> QED BY <1>1 DEF Ordered

LEMMA SignedType == \A i \in Int : Signed(i) \in Int
<1> SUFFICES ASSUME NEW i \in Int PROVE Signed(i) \in Int
  OBVIOUS
<1>1. i % WORD \in Int
  BY WordSize
<1> QED BY <1>1, WordSize DEF Signed

(* skew_heap_merge may compare any processes; where they are to be in order *)
(* their strides must be close.                                             *)
LEMMA WordsComparable ==
    ASSUME NEW o, NEW s \in [Procs -> Words], NEW S \in SUBSET Procs, NEW v,
           o = "order" => Spread(s, S, v)
    PROVE  Comparable(o, s, S)
<1>1. \A p, q \in S : proc_stride_comp_f(s, p, q) \in Int
  <2> SUFFICES ASSUME NEW p \in S, NEW q \in S PROVE proc_stride_comp_f(s, p, q) \in Int
    OBVIOUS
  <2>1. s[p] - s[q] \in Int
    BY WordSize DEF Words
  <2> QED BY <2>1, SignedType DEF proc_stride_comp_f
<1>2. ASSUME o = "order" PROVE \A p, q \in S : proc_stride_comp_f(s, p, q) < 0 => Ordered(o, s, p, q)
  <2>1. \A p, q \in S : /\ Signed(s[q] - s[p]) = Ahead(v, s[q]) - Ahead(v, s[p])
                        /\ Ahead(v, s[p]) \in Int /\ Ahead(v, s[q]) \in Int
    BY <1>2, SpreadOrder
  <2> HIDE DEF Ahead, Signed
  <2> QED BY <2>1 DEF Ordered, proc_stride_comp_f
<1> QED BY <1>1, <1>2 DEF Comparable, Ordered

(* From the least of them, the others are as far as they differ.            *)
LEMMA AheadOfLeast ==
    ASSUME NEW v \in Words, NEW x \in Words, NEW y \in Words,
           Ahead(v, x) <= Ahead(v, y)
    PROVE  Ahead(x, y) = Ahead(v, y) - Ahead(v, x)
<1>1. /\ Ahead(v, x) = IF x >= v THEN x - v ELSE (x - v) + WORD
      /\ Ahead(v, y) = IF y >= v THEN y - v ELSE (y - v) + WORD
      /\ Ahead(x, y) = IF y >= x THEN y - x ELSE (y - x) + WORD
  BY AheadIs
<1>2. v \in Int /\ x \in Int /\ y \in Int /\ 0 <= v /\ 0 <= x /\ 0 <= y
      /\ v < WORD /\ x < WORD /\ y < WORD
  BY WordSize DEF Words
<1> HIDE DEF Ahead
<1> QED BY <1>1, <1>2, WordSize

LEMMA SpreadHasLeast ==
    ASSUME NEW s, NEW S, NEW v, Spread(s, S, v), S # {}
    PROVE  \E p \in S : Spread(s, S, s[p]) /\ \A q \in S : Ahead(v, s[p]) <= Ahead(v, s[q])
<1> DEFINE D == {Ahead(v, s[q]) : q \in S}
<1>1. \A q \in S : s[q] \in Words /\ v \in Words /\ Ahead(v, s[q]) \in Words
  BY AheadIs DEF Spread
<1>2. D \subseteq Nat /\ D # {}
  BY <1>1, WordSize DEF Words
<1>3. PICK n \in D : \A k \in D : n <= k
  BY <1>2, LeastNat
<1>4. PICK p \in S : n = Ahead(v, s[p])
  BY <1>3
<1>5. \A q \in S : Ahead(v, s[p]) <= Ahead(v, s[q])
  BY <1>3, <1>4
<1>6. ASSUME NEW q \in S PROVE Ahead(s[p], s[q]) <= BIG_STRIDE
  <2>1. Ahead(s[p], s[q]) = Ahead(v, s[q]) - Ahead(v, s[p])
    BY <1>1, <1>5, AheadOfLeast
  <2>2. Ahead(v, s[q]) <= BIG_STRIDE
    BY DEF Spread
  <2>3. Ahead(v, s[q]) \in Nat /\ Ahead(v, s[p]) \in Nat
    BY <1>2
  <2> HIDE DEF Ahead, D
  <2> QED BY <2>1, <2>2, <2>3, WordSize
<1> QED BY <1>1, <1>5, <1>6 DEF Spread

(* The root of the heap is the process with the least stride.               *)
LEMMA RootIsLeast ==
    ASSUME NEW heap, NEW s, NEW P, NEW v,
           HeapOf(heap, "order", s, P), Spread(s, P, v), heap.pool # NULL
    PROVE  \A q \in P : Ahead(v, s[heap.pool]) <= Ahead(v, s[q])
<1> DEFINE r == heap.pool
           S == {q \in P : Ahead(v, s[q]) < Ahead(v, s[r])}
<1>1. r \in P
  BY RootInHeap
<1>2. \A q \in P : Ahead(v, s[q]) \in Int
  <2> SUFFICES ASSUME NEW q \in P PROVE Ahead(v, s[q]) \in Int
    OBVIOUS
  <2>1. v \in Words /\ s[q] \in Words
    BY DEF Spread
  <2>2. Ahead(v, s[q]) \in Words
    BY <2>1, AheadIs
  <2> QED BY <2>2, WordSize DEF Words
<1>3. \A p, q \in P : Ordered("order", s, p, q) => Ahead(v, s[p]) <= Ahead(v, s[q])
  BY OrderedIsLess
<1>4. Forest(heap, "order", s, P, {r} \ {NULL})
  BY DEF HeapOf
<1> HIDE DEF Ahead, r
<1>5. S = {}
  <2> SUFFICES ASSUME S # {} PROVE FALSE
    OBVIOUS
  <2>1. S \in SUBSET P
    OBVIOUS
  <2>2. PICK p \in S : heap.parent[p] \notin S
    BY <1>4, <2>1 DEF Forest, Founded
  <2>3. p \in P /\ p # r /\ Ahead(v, s[p]) < Ahead(v, s[r])
    BY <1>1, <1>2, <2>2
  <2>4. heap.parent[p] \in P /\ p \in ChildrenOf(heap, heap.parent[p])
    BY <1>4, <2>3 DEF Forest, Rooted
  <2>5. Ordered("order", s, heap.parent[p], p)
    BY <1>4, <2>4 DEF Forest, Edges
  <2>6. Ahead(v, s[heap.parent[p]]) <= Ahead(v, s[p])
    BY <1>3, <2>3, <2>4, <2>5
  <2>7. Ahead(v, s[heap.parent[p]]) < Ahead(v, s[r])
    BY <1>1, <1>2, <2>3, <2>4, <2>6
  <2> QED BY <2>2, <2>4, <2>7
<1> QED BY <1>1, <1>2, <1>5 DEF r

-----------------------------------------------------------------------------
(* The scheduling class on a heap that is right.                            *)
LEMMA EnqueuedHeap ==
    ASSUME NEW q, NEW o, NEW s, NEW p \in Procs \ q.procs,
           HeapOf(q.heap, o, s, q.procs), Comparable(o, s, q.procs \cup {p})
    PROVE  /\ stride_enqueue(q, s, p).procs = q.procs \cup {p}
           /\ HeapOf(stride_enqueue(q, s, p).heap, o, s, q.procs \cup {p})
<1>1. stride_enqueue(q, s, p) = [heap |-> skew_heap_insert(q.heap, s, p), procs |-> q.procs \cup {p}]
  BY DEF stride_enqueue
<1>2. HeapOf(skew_heap_insert(q.heap, s, p), o, s, q.procs \cup {p})
  BY InsertHeap
<1> QED BY <1>1, <1>2

(* stride_pick_next and stride_dequeue: what schedule() does with the heap; *)
(* where the strides are in order, the least one is picked.                 *)
PickedLeast(q, s, v, n, s2) ==
    /\ \A p \in q.procs : Ahead(v, s[n]) <= Ahead(v, s[p])
    /\ Spread(s2, q.procs, s[n])

Picked(o, q, s, priority, v, n, s2, q2) ==
    /\ n \in q.procs
    /\ s2 \in [Procs -> Words]
    /\ \A p \in Procs \ {n} : s2[p] = s[p]
    /\ Ahead(s[n], s2[n]) = BIG_STRIDE \div priority[n]
    /\ o = "order" => PickedLeast(q, s, v, n, s2)
    /\ q2.procs = q.procs \ {n}
    /\ HeapOf(q2.heap, o, s2, q2.procs)

LEMMA PickLemma ==
    ASSUME NEW q, NEW o, NEW s \in [Procs -> Words],
           NEW priority \in [Procs -> Nat \ {0}], NEW v,
           HeapOf(q.heap, o, s, q.procs), o = "order" => Spread(s, q.procs, v), q.procs # {}
    PROVE  Picked(o, q, s, priority, v, q.heap.pool, Passed(s, priority, q.heap.pool),
                  stride_dequeue(q, Passed(s, priority, q.heap.pool), q.heap.pool))
<1> DEFINE n == q.heap.pool
           k == BIG_STRIDE \div priority[n]
           s2 == Passed(s, priority, n)
           q2 == stride_dequeue(q, s2, n)
<1>1. n # NULL /\ n \in q.procs /\ q.procs \subseteq Procs
  BY RootInHeap DEF HeapOf, Forest
<1>2. o = "order" => \A p \in q.procs : Ahead(v, s[n]) <= Ahead(v, s[p])
  <2> SUFFICES ASSUME o = "order" PROVE \A p \in q.procs : Ahead(v, s[n]) <= Ahead(v, s[p])
    OBVIOUS
  <2>1. HeapOf(q.heap, "order", s, q.procs) /\ Spread(s, q.procs, v)
    OBVIOUS
  <2> QED BY <1>1, <2>1, RootIsLeast
<1>3. priority[n] \in Nat \ {0} /\ s[n] \in Words /\ n \in Procs
  BY <1>1
<1>4. k \in 0..BIG_STRIDE
  BY <1>3, WordSize
<1>5. s2 = [s EXCEPT ![n] = (@ + k) % WORD]
  BY <1>3 DEF Passed
<1> HIDE DEF k, s2, n
<1>6. (s[n] + k) % WORD \in Words /\ Ahead(s[n], (s[n] + k) % WORD) = k
  <2>1. s[n] + k \in Int /\ -WORD <= s[n] + k /\ s[n] + k < 2 * WORD /\ WORD \in Nat \ {0}
    BY <1>3, <1>4, WordSize DEF Words
  <2>2. (s[n] + k) % WORD = IF s[n] + k < 0 THEN (s[n] + k) + WORD
                            ELSE IF s[n] + k < WORD THEN s[n] + k ELSE (s[n] + k) - WORD
    BY <2>1, ModRange
  <2>3. (s[n] + k) % WORD \in Words
    BY <1>3, <1>4, <2>2, WordSize DEF Words
  <2> DEFINE y == (s[n] + k) % WORD
  <2>4. Ahead(s[n], y) = IF y >= s[n] THEN y - s[n] ELSE (y - s[n]) + WORD
    BY <1>3, <2>3, AheadIs
  <2>5. y = IF s[n] + k < WORD THEN s[n] + k ELSE (s[n] + k) - WORD
    BY <1>3, <1>4, <2>2, WordSize DEF Words
  <2> HIDE DEF y
  <2>6. Ahead(s[n], y) = k
    BY <1>3, <1>4, <2>4, <2>5, WordSize DEF Words
  <2> QED BY <2>3, <2>6 DEF y
<1>7. /\ s2 \in [Procs -> Words] /\ \A p \in Procs \ {n} : s2[p] = s[p]
      /\ Ahead(s[n], s2[n]) = k
  BY <1>3, <1>5, <1>6
<1>8. ASSUME o = "order", NEW p \in q.procs PROVE Ahead(s[n], s[p]) <= BIG_STRIDE
  <2>1. v \in Words /\ s[p] \in Words /\ Ahead(v, s[p]) <= BIG_STRIDE
    BY <1>8 DEF Spread
  <2>2. Ahead(s[n], s[p]) = Ahead(v, s[p]) - Ahead(v, s[n])
    BY <1>2, <1>3, <1>8, <2>1, AheadOfLeast
  <2>3. Ahead(v, s[p]) \in Words /\ Ahead(v, s[n]) \in Words
    BY <1>3, <2>1, AheadIs
  <2>4. Ahead(v, s[p]) \in Nat /\ Ahead(v, s[n]) \in Nat
    BY <2>3, WordSize DEF Words
  <2> HIDE DEF Ahead
  <2> QED BY <2>1, <2>2, <2>4, WordSize
<1>9. ASSUME o = "order" PROVE Spread(s2, q.procs, s[n])
  <2> SUFFICES ASSUME NEW p \in q.procs PROVE s2[p] \in Words /\ Ahead(s[n], s2[p]) <= BIG_STRIDE
    BY <1>3 DEF Spread
  <2> HIDE DEF Ahead
  <2>1. CASE p = n
    BY <1>4, <1>7, <1>3, <2>1
  <2>2. CASE p # n
    BY <1>1, <1>7, <1>8, <1>9, <2>2
  <2> QED BY <2>1, <2>2
<1>10. q2 = [heap |-> skew_heap_remove(q.heap, s2, n), procs |-> q.procs \ {n}]
  BY <1>1 DEF stride_dequeue
<1>11. Comparable(o, s2, q.procs \ {n})
  <2>1. Comparable(o, s2, q.procs)
    BY <1>1, <1>7, <1>9, WordsComparable
  <2> QED BY <2>1 DEF Comparable
<1>12. HeapOf(skew_heap_remove(q.heap, s2, n), o, s2, q.procs \ {n})
  <2>1. \A p \in q.procs \ {n} : s2[p] = s[p]
    BY <1>1, <1>7
  <2> QED BY <1>1, <1>11, <2>1, RemoveHeap DEF n
<1>13. o = "order" => PickedLeast(q, s, v, n, s2)
  BY <1>2, <1>9 DEF PickedLeast
<1> HIDE DEF q2
<1>14. Picked(o, q, s, priority, v, n, s2, q2)
  BY <1>1, <1>7, <1>10, <1>12, <1>13 DEF Picked, k
<1> QED BY <1>14 DEF n, s2, q2

-----------------------------------------------------------------------------
(* The inductive invariant: the heap is one tree whatever the strides are.  *)
ProcStates == {"unused", "sleeping", "runnable"}

StrideTypePart ==
    /\ rq.procs \subseteq Procs /\ current \in Nodes
    /\ state \in [Procs -> ProcStates]
    /\ lab6_stride \in [Procs -> Words]
    /\ lab6_priority \in [Procs -> Nat \ {0}]

HeapPart(o) == HeapOf(rq.heap, o, lab6_stride, rq.procs)

(* The heap has just the runnable processes that do not run.                *)
RunPart ==
    /\ rq.procs = {p \in Procs : state[p] = "runnable"} \ {current}
    /\ current # NULL => state[current] = "runnable"

StrideInv == StrideTypePart /\ HeapPart("links") /\ RunPart

(* What every step keeps where it holds, but for one that queues a process  *)
(* far from the others: the strides are close and the tree is in order.     *)
SpreadPart == CanRun = {} \/ \E v : Spread(lab6_stride, CanRun, v)

OrderedInv(o) == StrideTypePart /\ HeapPart(o) /\ RunPart /\ (o = "order" => SpreadPart)

LEMMA InvIs == (StrideInv <=> OrderedInv("links")) /\ (StrideInv' <=> OrderedInv("links")')
BY DEF StrideInv, OrderedInv

LEMMA StrideInvInit == StrideInit => StrideInv
<1> SUFFICES ASSUME StrideInit PROVE StrideInv
  OBVIOUS
<1> USE DEF StrideInit
<1>1. 0 \in Words /\ 1 \in Nat \ {0}
  BY WordSize DEF Words
<1>2. StrideTypePart
  BY <1>1 DEF StrideTypePart, Nodes, ProcStates
<1>3. HeapPart("links")
  <2>1. HeapRecord(rq.heap)
    BY DEF HeapRecord
  <2>2. rq.heap.pool = NULL /\ rq.procs = {}
    OBVIOUS
  <2>3. Forest(rq.heap, "links", lab6_stride, {}, {NULL} \ {NULL})
    BY DEF Forest, Edges, Rooted, Founded
  <2>4. \A p \in Procs \ {} :
           rq.heap.left[p] = NULL /\ rq.heap.right[p] = NULL /\ rq.heap.parent[p] = NULL
    OBVIOUS
  <2> QED BY <2>1, <2>2, <2>3, <2>4 DEF HeapPart, HeapOf
<1>4. RunPart
  BY DEF RunPart
<1> QED BY <1>2, <1>3, <1>4 DEF StrideInv

(* schedule(), once q is the heap of all that can go on.                    *)
ScheduleFrom(q) ==
    /\ current' = q.heap.pool
    /\ IF q.heap.pool = NULL
       THEN rq' = q /\ UNCHANGED lab6_stride
       ELSE /\ lab6_stride' = Passed(lab6_stride, lab6_priority, q.heap.pool)
            /\ rq' = stride_dequeue(q, lab6_stride', q.heap.pool)
    /\ UNCHANGED lab6_priority

Scheduled(o, q, v) ==
    IF q.procs = {}
    THEN current' = NULL /\ rq'.procs = {} /\ lab6_stride' = lab6_stride
    ELSE Picked(o, q, lab6_stride, lab6_priority, v, current', lab6_stride', rq')

LEMMA ScheduleKeepsInv ==
    ASSUME StrideTypePart, NEW o, NEW q, NEW v, ScheduleFrom(q),
           HeapOf(q.heap, o, lab6_stride, q.procs),
           o = "order" /\ q.procs # {} => Spread(lab6_stride, q.procs, v),
           state' \in [Procs -> ProcStates],
           q.procs = {p \in Procs : state'[p] = "runnable"}
    PROVE  OrderedInv(o)' /\ CanRun' = q.procs /\ Scheduled(o, q, v)
<1>1. q.heap.pool = NULL <=> q.procs = {}
  BY DEF HeapOf
<1>2. q.procs \subseteq Procs /\ NULL \notin q.procs
  BY NullNotProc
<1>3. CASE q.procs = {}
  <2>1. current' = NULL /\ rq' = q /\ lab6_stride' = lab6_stride /\ lab6_priority' = lab6_priority
    BY <1>1, <1>3 DEF ScheduleFrom
  <2>2. StrideTypePart'
    BY <2>1, <1>2 DEF StrideTypePart, Nodes
  <2>3. HeapPart(o)' /\ CanRun' = {}
    BY <2>1, <1>3 DEF HeapPart, CanRun
  <2>4. RunPart'
    BY <2>1, <1>2, <1>3 DEF RunPart
  <2>5. SpreadPart'
    BY <2>3 DEF SpreadPart
  <2>6. OrderedInv(o)'
    BY <2>2, <2>3, <2>4, <2>5 DEF OrderedInv
  <2> QED BY <1>3, <2>1, <2>3, <2>6 DEF Scheduled
<1>4. CASE q.procs # {}
  <2>1. /\ current' = q.heap.pool
        /\ lab6_stride' = Passed(lab6_stride, lab6_priority, q.heap.pool)
        /\ rq' = stride_dequeue(q, lab6_stride', q.heap.pool)
        /\ lab6_priority' = lab6_priority
    BY <1>1, <1>4 DEF ScheduleFrom
  <2>2. Picked(o, q, lab6_stride, lab6_priority, v, q.heap.pool,
               Passed(lab6_stride, lab6_priority, q.heap.pool),
               stride_dequeue(q, Passed(lab6_stride, lab6_priority, q.heap.pool), q.heap.pool))
    <3>1. lab6_stride \in [Procs -> Words] /\ lab6_priority \in [Procs -> Nat \ {0}]
      BY DEF StrideTypePart
    <3> QED BY <3>1, <1>4, PickLemma
  <2>3. Picked(o, q, lab6_stride, lab6_priority, v, current', lab6_stride', rq')
    BY <2>1, <2>2
  <2>4. /\ current' \in q.procs /\ current' # NULL /\ rq'.procs = q.procs \ {current'}
        /\ lab6_stride' \in [Procs -> Words]
        /\ HeapOf(rq'.heap, o, lab6_stride', rq'.procs)
        /\ o = "order" => Spread(lab6_stride', q.procs, lab6_stride[current'])
    BY <1>2, <2>3 DEF Picked, PickedLeast
  <2>5. StrideTypePart'
    BY <1>2, <2>1, <2>4 DEF StrideTypePart, Nodes
  <2>6. HeapPart(o)' /\ CanRun' = q.procs
    BY <2>4 DEF HeapPart, CanRun
  <2>7. RunPart'
    BY <2>4 DEF RunPart
  <2>8. o = "order" => SpreadPart'
    BY <2>4, <2>6 DEF SpreadPart
  <2>9. OrderedInv(o)'
    BY <2>5, <2>6, <2>7, <2>8 DEF OrderedInv
  <2> QED BY <1>4, <2>3, <2>6, <2>9 DEF Scheduled
<1> QED BY <1>3, <1>4

LEMMA SpreadSubset ==
    ASSUME NEW s, NEW S, NEW R, NEW v, Spread(s, S, v), R \subseteq S
    PROVE  Spread(s, R, v)
BY DEF Spread

(* Reschedule puts the running process back into the heap first, ...        *)
Back == IF current # NULL THEN stride_enqueue(rq, lab6_stride, current) ELSE rq

LEMMA BackLemma ==
    ASSUME NEW o, OrderedInv(o)
    PROVE  /\ Back.procs = CanRun /\ HeapOf(Back.heap, o, lab6_stride, CanRun)
           /\ CanRun = {p \in Procs : state[p] = "runnable"}
<1>1. CanRun \subseteq Procs /\ CanRun = {p \in Procs : state[p] = "runnable"}
  BY NullNotProc DEF OrderedInv, StrideTypePart, RunPart, CanRun, Nodes
<1>2. CASE current = NULL
  BY <1>1, <1>2 DEF Back, CanRun, OrderedInv, HeapPart
<1>3. CASE current # NULL
  <2>1. current \in Procs \ rq.procs /\ CanRun = rq.procs \cup {current} /\ CanRun # {}
    BY <1>3 DEF OrderedInv, StrideTypePart, RunPart, CanRun, Nodes
  <2>2. PICK v : o = "order" => Spread(lab6_stride, CanRun, v)
    BY <2>1 DEF OrderedInv, SpreadPart
  <2>3. Comparable(o, lab6_stride, CanRun)
    <3>1. lab6_stride \in [Procs -> Words]
      BY DEF OrderedInv, StrideTypePart
    <3> QED BY <1>1, <2>2, <3>1, WordsComparable
  <2>4. HeapOf(rq.heap, o, lab6_stride, rq.procs)
    BY DEF OrderedInv, HeapPart
  <2>5. Back = stride_enqueue(rq, lab6_stride, current)
    BY <1>3 DEF Back
  <2> QED BY <1>1, <2>1, <2>3, <2>4, <2>5, EnqueuedHeap
<1> QED BY <1>2, <1>3

LEMMA RescheduleStep ==
    ASSUME NEW o, OrderedInv(o), Reschedule,
           NEW v, o = "order" /\ CanRun # {} => Spread(lab6_stride, CanRun, v)
    PROVE  OrderedInv(o)' /\ CanRun' = CanRun /\ Scheduled(o, Back, v)
<1>1. /\ Back.procs = CanRun /\ HeapOf(Back.heap, o, lab6_stride, CanRun)
      /\ CanRun = {p \in Procs : state[p] = "runnable"}
  BY BackLemma
<1>2. ScheduleFrom(Back) /\ state' = state
  BY DEF Reschedule, schedule, ScheduleFrom, Back
<1>3. StrideTypePart /\ state \in [Procs -> ProcStates]
  BY DEF OrderedInv, StrideTypePart
<1> QED BY <1>1, <1>2, <1>3, ScheduleKeepsInv

(* ... and Sleep and do_exit do not.                                        *)
LEMMA StrideLeaveStep ==
    ASSUME NEW o, OrderedInv(o), NEW left \in {"sleeping", "unused"}, StopsRunning(left),
           NEW v, o = "order" => Spread(lab6_stride, CanRun, v)
    PROVE  OrderedInv(o)' /\ CanRun' = rq.procs /\ Scheduled(o, rq, v)
<1>1. ScheduleFrom(rq) /\ current # NULL /\ state' = [state EXCEPT ![current] = left]
  BY DEF StopsRunning, schedule, ScheduleFrom
<1>2. StrideTypePart /\ current \in Procs
  BY <1>1 DEF OrderedInv, StrideTypePart, Nodes
<1>3. HeapOf(rq.heap, o, lab6_stride, rq.procs)
  BY DEF OrderedInv, HeapPart
<1>4. o = "order" => Spread(lab6_stride, rq.procs, v)
  BY SpreadSubset DEF CanRun
<1>5. /\ state' \in [Procs -> ProcStates]
      /\ rq.procs = {p \in Procs : state'[p] = "runnable"}
  BY <1>1, <1>2 DEF OrderedInv, StrideTypePart, RunPart, ProcStates
<1> QED BY <1>1, <1>2, <1>3, <1>4, <1>5, ScheduleKeepsInv

(* wakeup_proc of a sleeper or of a new process.                            *)
Joins(p) ==
    /\ state[p] # "runnable"
    /\ state' = [state EXCEPT ![p] = "runnable"]
    /\ rq' = stride_enqueue(rq, lab6_stride', p)
    /\ current' = current
    /\ lab6_stride' \in [Procs -> Words] /\ \A q \in Procs \ {p} : lab6_stride'[q] = lab6_stride[q]
    /\ lab6_priority' \in {lab6_priority, [lab6_priority EXCEPT ![p] = 1]}

LEMMA WakeupJoins ==
    ASSUME StrideTypePart, NEW p \in Procs, wakeup_proc(p)
    PROVE  Joins(p)
BY DEF wakeup_proc, Joins, StrideTypePart

LEMMA ForkJoins ==
    ASSUME StrideTypePart, NEW p \in Procs, do_fork(p)
    PROVE  Joins(p)
<1>1. 0 \in Words
  BY WordSize DEF Words
<1> QED BY <1>1 DEF do_fork, Joins, StrideTypePart

LEMMA JoinStep ==
    ASSUME NEW o, OrderedInv(o), NEW p \in Procs, Joins(p),
           NEW v, o = "order" => Spread(lab6_stride', CanRun \cup {p}, v)
    PROVE  /\ OrderedInv(o)' /\ CanRun' = CanRun \cup {p} /\ p \notin CanRun
           /\ rq'.procs = rq.procs \cup {p}
<1>1. p \notin rq.procs /\ p # current /\ p \notin CanRun
  <2>1. p # NULL
    BY NullNotProc
  <2>2. p # current
    BY <2>1 DEF OrderedInv, RunPart, Joins
  <2> QED BY <2>1, <2>2 DEF OrderedInv, RunPart, CanRun, Joins
<1>2. /\ CanRun \cup {p} \subseteq Procs /\ StrideTypePart
      /\ rq.procs \subseteq CanRun /\ lab6_stride' \in [Procs -> Words]
  BY DEF OrderedInv, StrideTypePart, CanRun, Nodes, Joins
<1>3. Comparable(o, lab6_stride', rq.procs \cup {p})
  <2>1. Comparable(o, lab6_stride', CanRun \cup {p})
    BY <1>2, WordsComparable
  <2> QED BY <1>2, <2>1 DEF Comparable
<1>4. HeapOf(rq.heap, o, lab6_stride', rq.procs)
  <2>1. HeapOf(rq.heap, o, lab6_stride, rq.procs)
    BY DEF OrderedInv, HeapPart
  <2>2. \A q \in rq.procs : lab6_stride'[q] = lab6_stride[q]
    BY <1>1, <1>2 DEF Joins
  <2>3. Forest(rq.heap, o, lab6_stride', rq.procs, {rq.heap.pool} \ {NULL})
    BY <2>1, <2>2, ForestStride DEF HeapOf
  <2> QED BY <2>1, <2>3 DEF HeapOf
<1>5. /\ rq'.procs = rq.procs \cup {p}
      /\ HeapOf(rq'.heap, o, lab6_stride', rq.procs \cup {p})
  <2>1. rq' = stride_enqueue(rq, lab6_stride', p)
    BY DEF Joins
  <2> QED BY <1>1, <1>3, <1>4, <2>1, EnqueuedHeap
<1>6. CanRun' = CanRun \cup {p}
  BY <1>5 DEF CanRun, Joins
<1>7. StrideTypePart'
  <2>1. lab6_priority' \in [Procs -> Nat \ {0}]
    BY <1>2 DEF Joins, StrideTypePart
  <2>2. state' \in [Procs -> ProcStates] /\ current' \in Nodes
    BY <1>2 DEF Joins, StrideTypePart, ProcStates
  <2> QED BY <1>2, <1>5, <2>1, <2>2 DEF StrideTypePart
<1>8. HeapPart(o)'
  BY <1>5 DEF HeapPart
<1>9. RunPart'
  BY <1>1, <1>2, <1>5 DEF OrderedInv, RunPart, StrideTypePart, Nodes, Joins
<1>10. o = "order" => SpreadPart'
  BY <1>6 DEF SpreadPart
<1>11. OrderedInv(o)'
  BY <1>7, <1>8, <1>9, <1>10 DEF OrderedInv
<1> QED BY <1>1, <1>5, <1>6, <1>11

LEMMA PriorityStep ==
    ASSUME NEW o, OrderedInv(o), NEW k \in Priorities, lab6_set_priority(k)
    PROVE  /\ OrderedInv(o)' /\ CanRun' = CanRun
           /\ current \in Procs /\ lab6_priority' = [lab6_priority EXCEPT ![current] = k]
<1>1. k \in Nat \ {0} /\ current # NULL
  BY StrideAssumption DEF lab6_set_priority
<1>2. /\ current \in Procs /\ lab6_priority' = [lab6_priority EXCEPT ![current] = k]
      /\ rq' = rq /\ current' = current /\ state' = state /\ lab6_stride' = lab6_stride
  BY <1>1 DEF lab6_set_priority, OrderedInv, StrideTypePart, Nodes
<1>3. StrideTypePart'
  BY <1>1, <1>2 DEF OrderedInv, StrideTypePart
<1>4. CanRun' = CanRun /\ HeapPart(o)' /\ RunPart' /\ (o = "order" => SpreadPart')
  BY <1>2 DEF OrderedInv, HeapPart, RunPart, SpreadPart, CanRun
<1>5. OrderedInv(o)'
  BY <1>3, <1>4 DEF OrderedInv
<1> QED BY <1>2, <1>4, <1>5

LEMMA StutterStep ==
    ASSUME NEW o, OrderedInv(o), UNCHANGED strideVars
    PROVE  OrderedInv(o)'
BY DEF strideVars, OrderedInv, StrideTypePart, HeapPart, RunPart, SpreadPart, CanRun

(* One lemma for both invariants: with "links" nothing is asked of a join.  *)
LEMMA OrderedInvNext ==
    ASSUME NEW o, OrderedInv(o), [StrideNext]_strideVars,
           \A p \in Procs :
              Joins(p) => \E v : o = "order" => Spread(lab6_stride', CanRun \cup {p}, v)
    PROVE  OrderedInv(o)'
<1>1. CASE Reschedule
  <2>1. \E v : o = "order" /\ CanRun # {} => Spread(lab6_stride, CanRun, v)
    BY DEF OrderedInv, SpreadPart
  <2> QED BY <1>1, <2>1, RescheduleStep
<1>2. ASSUME NEW left \in {"sleeping", "unused"}, StopsRunning(left) PROVE OrderedInv(o)'
  <2>1. CanRun # {}
    BY <1>2 DEF StopsRunning, CanRun
  <2>2. \E v : o = "order" => Spread(lab6_stride, CanRun, v)
    BY <2>1 DEF OrderedInv, SpreadPart
  <2> QED BY <1>2, <2>2, StrideLeaveStep
<1>3. CASE Sleep \/ do_exit
  BY <1>2, <1>3 DEF Sleep, do_exit
<1>4. ASSUME NEW p \in Procs, wakeup_proc(p) \/ do_fork(p) PROVE OrderedInv(o)'
  <2>1. Joins(p)
    BY <1>4, WakeupJoins, ForkJoins DEF OrderedInv
  <2> QED BY <2>1, JoinStep
<1>5. ASSUME NEW k \in Priorities, lab6_set_priority(k) PROVE OrderedInv(o)'
  BY <1>5, PriorityStep
<1>6. CASE UNCHANGED strideVars
  BY <1>6, StutterStep
<1> QED BY <1>1, <1>3, <1>4, <1>5, <1>6 DEF StrideNext

LEMMA StrideInvNext ==
    ASSUME StrideInv, [StrideNext]_strideVars
    PROVE  StrideInv'
<1>1. OrderedInv("links")
  BY InvIs
<1>2. \A p \in Procs : Joins(p) => \E v : "links" = "order" => Spread(lab6_stride', CanRun \cup {p}, v)
  OBVIOUS
<1>3. OrderedInv("links")'
  BY <1>1, <1>2, OrderedInvNext
<1> QED BY <1>3, InvIs

(* Whatever the order of calls: the links of the heap are one tree.         *)
LEMMA HeapOfTree ==
    ASSUME NEW o, HeapPart(o)
    PROVE  /\ (rq.heap.pool = NULL) = (rq.procs = {})
           /\ \A p \in rq.procs \ {rq.heap.pool} :
                 rq.heap.parent[p] \in rq.procs /\ p \in Children(rq.heap.parent[p])
           /\ \A p \in rq.procs :
                 /\ rq.heap.left[p] = rq.heap.right[p] => rq.heap.left[p] = NULL
                 /\ Children(p) \subseteq rq.procs
                 /\ \A q \in Children(p) : rq.heap.parent[q] = p /\ Ordered(o, lab6_stride, p, q)
           /\ rq.heap.pool \in rq.procs \cup {NULL}
<1> DEFINE heap == rq.heap  P == rq.procs
<1>1. /\ Forest(heap, o, lab6_stride, P, {heap.pool} \ {NULL})
      /\ heap.pool = NULL <=> P = {}
  BY DEF HeapPart, HeapOf
<1>2. Edges(heap, o, lab6_stride, P) /\ Rooted(heap, P, {heap.pool} \ {NULL})
      /\ {heap.pool} \ {NULL} \subseteq P
  BY <1>1 DEF Forest
<1>3. \A p : ChildrenOf(heap, p) = Children(p)
  BY DEF ChildrenOf, Children
<1>4. \A p \in P \ {heap.pool} : heap.parent[p] \in P /\ p \in Children(heap.parent[p])
  BY <1>2, <1>3 DEF Rooted
<1>5. \A p \in P : /\ heap.left[p] = heap.right[p] => heap.left[p] = NULL
                   /\ Children(p) \subseteq P
  <2>1. \A p \in P : /\ heap.left[p] \in P \cup {NULL} /\ heap.right[p] \in P \cup {NULL}
                     /\ heap.left[p] = heap.right[p] => heap.left[p] = NULL
    BY <1>2 DEF Edges
  <2> QED BY <2>1 DEF Children
<1>6. \A p \in P : \A q \in Children(p) : heap.parent[q] = p /\ Ordered(o, lab6_stride, p, q)
  <2>1. \A p \in P : \A q \in ChildrenOf(heap, p) :
           heap.parent[q] = p /\ Ordered(o, lab6_stride, p, q)
    BY <1>2 DEF Edges
  <2> HIDE DEF heap, P
  <2> QED BY <1>3, <2>1
<1> HIDE DEF heap, P
<1>7. (heap.pool = NULL) = (P = {})
  BY <1>1
<1>8. heap.pool \in P \cup {NULL}
  BY <1>2
<1> QED BY <1>4, <1>5, <1>6, <1>7, <1>8 DEF heap, P

LEMMA StrideInvHeapOk == StrideInv => HeapOk
<1> SUFFICES ASSUME StrideInv PROVE HeapOk
  OBVIOUS
<1> DEFINE heap == rq.heap  P == rq.procs
<1>1. /\ (heap.pool = NULL) = (P = {})
      /\ \A p \in P \ {heap.pool} : heap.parent[p] \in P /\ p \in Children(heap.parent[p])
      /\ \A p \in P : /\ heap.left[p] = heap.right[p] => heap.left[p] = NULL
                      /\ Children(p) \subseteq P
                      /\ \A q \in Children(p) : heap.parent[q] = p
      /\ heap.pool \in P \cup {NULL}
  <2>1. HeapPart("links")
    BY DEF StrideInv
  <2> QED BY <2>1, HeapOfTree
<1>2. P = {p \in Procs : state[p] = "runnable"} \ {current}
  BY DEF StrideInv, RunPart
<1>3. Cardinality((UNION {Children(p) : p \in P}) \cup {heap.pool}) = Cardinality(P \cup {heap.pool})
  <2> HIDE DEF heap, P
  <2> DEFINE U == UNION {Children(p) : p \in P}
  <2>1. P \ {heap.pool} \subseteq U
    <3> SUFFICES ASSUME NEW q \in P, q # heap.pool PROVE \E p \in P : q \in Children(p)
      OBVIOUS
    <3> QED BY <1>1
  <2>2. U \subseteq P
    <3> SUFFICES ASSUME NEW p \in P, NEW q \in Children(p) PROVE q \in P
      OBVIOUS
    <3> QED BY <1>1
  <2> HIDE DEF U
  <2>3. U \cup {heap.pool} = P \cup {heap.pool}
    BY <2>1, <2>2
  <2> QED BY <2>3 DEF U
<1> QED BY <1>1, <1>2, <1>3 DEF HeapOk

(* The inductive invariant holds in every state.                            *)
THEOREM StrideInvariant == StrideSpec => []StrideInv
<1> QED BY StrideInvInit, StrideInvNext, PTL DEF StrideSpec

(* The skew heap of lab6, for every set of processes, every word and every  *)
(* priority, and for every order of forks, exits, sleeps and wakeups: one   *)
(* tree of just the processes that wait for the processor, also where their *)
(* strides are so far apart that the comparison is no order.                *)
THEOREM StrideHeap == StrideSpec => []HeapOk
<1>1. StrideInv => HeapOk
  BY StrideInvHeapOk
<1> QED BY <1>1, StrideInvariant, PTL

-----------------------------------------------------------------------------
(* Where InOrder holds, the stronger invariant does.                        *)
LEMMA CloseSpread ==
    ASSUME StrideTypePart, NEW S, S \subseteq Procs, Close(S)
    PROVE  \E v : Spread(lab6_stride, S, v)
<1>1. PICK p \in S : \A q \in S : Above(p, q) <= BIG_STRIDE
  BY DEF Close
<1>2. lab6_stride[p] \in Words /\ \A q \in S : lab6_stride[q] \in Words
  BY DEF StrideTypePart
<1>3. Spread(lab6_stride, S, lab6_stride[p])
  BY <1>1, <1>2 DEF Spread, Above, Ahead
<1> QED BY <1>3

LEMMA SpreadClose ==
    ASSUME NEW S, NEW v, Spread(lab6_stride, S, v), S # {}
    PROVE  Close(S)
<1>1. PICK p \in S : Spread(lab6_stride, S, lab6_stride[p])
  BY SpreadHasLeast
<1>2. \A q \in S : Above(p, q) <= BIG_STRIDE
  BY <1>1 DEF Spread, Above, Ahead
<1> QED BY <1>2 DEF Close

(* Of close strides the comparison of two is the same both ways.            *)
LEMMA ComparedIsOrdered ==
    ASSUME NEW S, NEW v, Spread(lab6_stride, S, v), NEW p \in S, NEW q \in S
    PROVE  proc_stride_comp_f(lab6_stride, p, q) <= 0 <=> Ordered("order", lab6_stride, p, q)
<1> DEFINE s == lab6_stride
<1>1. /\ Signed(s[q] - s[p]) = Ahead(v, s[q]) - Ahead(v, s[p])
      /\ Signed(s[p] - s[q]) = Ahead(v, s[p]) - Ahead(v, s[q])
      /\ Ahead(v, s[p]) \in Int /\ Ahead(v, s[q]) \in Int
  BY SpreadOrder
<1> HIDE DEF Ahead, Signed, s
<1>2. Signed(s[p] - s[q]) <= 0 <=> Signed(s[q] - s[p]) >= 0
  BY <1>1
<1> QED BY <1>2 DEF Ordered, proc_stride_comp_f, s

LEMMA OrderIs ==
    ASSUME StrideInv
    PROVE  InOrder <=> OrderedInv("order")
<1>1. /\ StrideTypePart /\ RunPart /\ HeapPart("links") /\ CanRun \subseteq Procs
      /\ rq.procs \subseteq CanRun
  BY DEF StrideInv, StrideTypePart, CanRun, Nodes
<1>2. \A p \in rq.procs : Children(p) \subseteq rq.procs
  BY <1>1, HeapOfTree
<1>3. ASSUME InOrder PROVE OrderedInv("order")
  <2>1. SpreadPart
    BY <1>1, <1>3, CloseSpread DEF InOrder, SpreadPart
  <2>2. \A p \in rq.procs : \A q \in Children(p) : Ordered("order", lab6_stride, p, q)
    <3> SUFFICES ASSUME NEW p \in rq.procs, NEW q \in Children(p)
                 PROVE  Ordered("order", lab6_stride, p, q)
      OBVIOUS
    <3>1. p \in CanRun /\ q \in CanRun /\ CanRun # {}
      BY <1>1, <1>2
    <3>2. PICK v : Spread(lab6_stride, CanRun, v)
      BY <2>1, <3>1 DEF SpreadPart
    <3>3. proc_stride_comp_f(lab6_stride, p, q) <= 0
      BY <1>3 DEF InOrder
    <3> QED BY <3>1, <3>2, <3>3, ComparedIsOrdered
  <2>3. Edges(rq.heap, "order", lab6_stride, rq.procs)
    <3>1. Edges(rq.heap, "links", lab6_stride, rq.procs)
      BY <1>1 DEF HeapPart, HeapOf, Forest
    <3>2. \A p : ChildrenOf(rq.heap, p) = Children(p)
      BY DEF ChildrenOf, Children
    <3> HIDE DEF Ordered
    <3> QED BY <2>2, <3>1, <3>2 DEF Edges
  <2>4. HeapPart("order")
    BY <1>1, <2>3 DEF HeapPart, HeapOf, Forest
  <2> QED BY <1>1, <2>1, <2>4 DEF OrderedInv
<1>4. ASSUME OrderedInv("order") PROVE InOrder
  <2>1. SpreadPart /\ HeapPart("order")
    BY <1>4 DEF OrderedInv
  <2>2. CanRun # {} => Close(CanRun)
    BY <2>1, SpreadClose DEF SpreadPart
  <2>3. ASSUME NEW p \in rq.procs, NEW q \in Children(p)
        PROVE  proc_stride_comp_f(lab6_stride, p, q) <= 0
    <3>1. p \in CanRun /\ q \in CanRun /\ CanRun # {}
      BY <1>1, <1>2
    <3>2. PICK v : Spread(lab6_stride, CanRun, v)
      BY <2>1, <3>1 DEF SpreadPart
    <3>3. Ordered("order", lab6_stride, p, q)
      BY <2>1, HeapOfTree
    <3> QED BY <3>1, <3>2, <3>3, ComparedIsOrdered
  <2> QED BY <2>2, <2>3 DEF InOrder
<1> QED BY <1>3, <1>4

LEMMA OrderIsNow == StrideInv => (InOrder <=> OrderedInv("order"))
BY OrderIs

LEMMA OrderIsNext == (StrideInv => (InOrder <=> OrderedInv("order")))'
BY OrderIsNow, PTL

LEMMA SpreadCloseNow ==
    StrideTypePart => \A S \in SUBSET Procs :
       S # {} => (Close(S) <=> \E v : Spread(lab6_stride, S, v))
BY CloseSpread, SpreadClose

LEMMA SpreadCloseNext ==
    (StrideTypePart => \A S \in SUBSET Procs :
        S # {} => (Close(S) <=> \E v : Spread(lab6_stride, S, v)))'
BY SpreadCloseNow, PTL

(* Only a process that can run now and could not before ends the order, and *)
(* only when some stride is then farther than BIG_STRIDE from another.      *)
OrderKept ==
    [][InOrder => InOrder' \/ (~(CanRun' \subseteq CanRun) /\ ~Close(CanRun)')]_strideVars

LEMMA OrderStep ==
    ASSUME StrideInv, [StrideNext]_strideVars, InOrder
    PROVE  InOrder' \/ (~(CanRun' \subseteq CanRun) /\ ~Close(CanRun)')
<1>1. StrideInv' /\ OrderedInv("order")
  BY StrideInvNext, OrderIs
<1>2. CASE \A p \in Procs :
             Joins(p) => \E v : "order" = "order" => Spread(lab6_stride', CanRun \cup {p}, v)
  <2>1. OrderedInv("order")'
    BY <1>1, <1>2, OrderedInvNext
  <2> QED BY <1>1, <2>1, OrderIsNext
<1>3. ASSUME NEW p \in Procs, Joins(p), ~ \E v : Spread(lab6_stride', CanRun \cup {p}, v)
      PROVE  ~(CanRun' \subseteq CanRun) /\ ~Close(CanRun)'
  <2>1. OrderedInv("links")
    BY InvIs
  <2>2. CanRun' = CanRun \cup {p} /\ p \notin CanRun
    <3>1. \A v : "links" = "order" => Spread(lab6_stride', CanRun \cup {p}, v)
      OBVIOUS
    <3> QED BY <1>3, <2>1, <3>1, JoinStep
  <2>3. StrideTypePart' /\ CanRun' \in SUBSET Procs
    <3>1. StrideTypePart'
      BY <1>1 DEF StrideInv
    <3>2. CanRun \subseteq Procs
      BY DEF StrideInv, StrideTypePart, CanRun, Nodes
    <3> QED BY <2>2, <3>1, <3>2
  <2>4. (\E v : Spread(lab6_stride, CanRun, v))' <=> \E v : Spread(lab6_stride', CanRun \cup {p}, v)
    BY <2>2 DEF Spread
  <2>5. ~Close(CanRun)'
    BY <1>3, <2>2, <2>3, <2>4, SpreadCloseNext
  <2> QED BY <2>2, <2>5
<1> QED BY <1>2, <1>3

(* stride_enqueue, stride_pick_next: all strides that are compared stay     *)
(* within BIG_STRIDE of each other and the heap in their order, across the  *)
(* overflow, for every word and every priority; only a process that joins,  *)
(* new or awake again, with a stride too far from the others' can end it.   *)
THEOREM StrideOrder == StrideSpec => OrderKept
<1>1. StrideInv /\ [StrideNext]_strideVars
        => [InOrder => InOrder' \/ (~(CanRun' \subseteq CanRun) /\ ~Close(CanRun)')]_strideVars
  BY OrderStep
<1> QED BY <1>1, StrideInvariant, PTL DEF StrideSpec, OrderKept

-----------------------------------------------------------------------------
(* The ideal scheduler.                                                     *)
LeastOf(s, C) == CHOOSE p \in C : \A q \in C : Ahead(s[p], s[q]) <= BIG_STRIDE

LeadOf(s, C) == [p \in Procs |-> IF p \in C THEN Ahead(s[LeastOf(s, C)], s[p]) ELSE 0]

LEMMA LeadIs ==
    /\ InOrder => Lead = LeadOf(lab6_stride, CanRun)
    /\ ~InOrder => Lead = [p \in Procs |-> 0]
BY DEF Lead, LeadOf, LeastOf, Least, Above, Ahead

LEMMA LeadIsNext ==
    (/\ InOrder => Lead = LeadOf(lab6_stride, CanRun)
     /\ ~InOrder => Lead = [p \in Procs |-> 0])'
BY LeadIs, PTL

(* Two strides that are close after each other both ways are one.           *)
LEMMA CloseBothWays ==
    ASSUME NEW x \in Words, NEW y \in Words,
           Ahead(x, y) <= BIG_STRIDE, Ahead(y, x) <= BIG_STRIDE
    PROVE  x = y
<1>1. /\ Ahead(x, y) = IF y >= x THEN y - x ELSE (y - x) + WORD
      /\ Ahead(y, x) = IF x >= y THEN x - y ELSE (x - y) + WORD
  BY AheadIs
<1>2. x \in Int /\ y \in Int
  BY WordSize DEF Words
<1> HIDE DEF Ahead
<1> QED BY <1>1, <1>2, WordSize

(* Whichever word the strides are counted from, LeastOf is the least and    *)
(* LeadOf says how far the others are from it.                              *)
LEMMA LeastOfSpread ==
    ASSUME NEW s, NEW C \in SUBSET Procs, NEW v, Spread(s, C, v), C # {}
    PROVE  /\ LeastOf(s, C) \in C
           /\ \A q \in C : /\ Ahead(v, s[q]) \in 0..BIG_STRIDE
                           /\ Ahead(v, s[LeastOf(s, C)]) <= Ahead(v, s[q])
                           /\ LeadOf(s, C)[q] = Ahead(v, s[q]) - Ahead(v, s[LeastOf(s, C)])
<1> DEFINE l == LeastOf(s, C)
<1>1. PICK m \in C : Spread(s, C, s[m]) /\ \A q \in C : Ahead(v, s[m]) <= Ahead(v, s[q])
  BY SpreadHasLeast
<1>2. l \in C /\ \A q \in C : Ahead(s[l], s[q]) <= BIG_STRIDE
  <2>1. \A q \in C : Ahead(s[m], s[q]) <= BIG_STRIDE
    BY <1>1 DEF Spread
  <2> HIDE DEF Ahead
  <2> QED BY <2>1 DEF LeastOf
<1>3. v \in Words /\ \A q \in C : s[q] \in Words
  BY DEF Spread
<1> HIDE DEF l
<1>4. s[l] = s[m]
  <2>1. Ahead(s[l], s[m]) <= BIG_STRIDE /\ Ahead(s[m], s[l]) <= BIG_STRIDE
    BY <1>1, <1>2 DEF Spread
  <2>2. s[l] \in Words /\ s[m] \in Words
    BY <1>2, <1>3
  <2> QED BY <2>1, <2>2, CloseBothWays
<1>5. ASSUME NEW q \in C
      PROVE  /\ Ahead(v, s[q]) \in 0..BIG_STRIDE
             /\ Ahead(v, s[l]) <= Ahead(v, s[q])
             /\ LeadOf(s, C)[q] = Ahead(v, s[q]) - Ahead(v, s[l])
  <2>1. Ahead(v, s[q]) \in Words /\ Ahead(v, s[q]) <= BIG_STRIDE
    BY <1>3, AheadIs DEF Spread
  <2>2. Ahead(v, s[l]) <= Ahead(v, s[q])
    BY <1>1, <1>4
  <2>3. Ahead(s[l], s[q]) = Ahead(v, s[q]) - Ahead(v, s[l])
    BY <1>2, <1>3, <2>2, AheadOfLeast
  <2>4. LeadOf(s, C)[q] = Ahead(s[l], s[q])
    BY DEF LeadOf, l
  <2>5. Ahead(v, s[q]) \in 0..BIG_STRIDE
    <3> HIDE DEF Ahead
    <3> QED BY <2>1, WordSize DEF Words
  <2> QED BY <2>2, <2>3, <2>4, <2>5
<1> QED BY <1>2, <1>5 DEF l

(* Distances that are all off by one number are normalised alike.           *)
LEMMA ShiftNormal ==
    ASSUME NEW s, NEW C \in SUBSET Procs, NEW v, Spread(s, C, v), C # {},
           NEW f, NEW c \in Int, \A q \in C : f[q] = Ahead(v, s[q]) + c
    PROVE  Ideal!Normal(f, C) = LeadOf(s, C)
<1> DEFINE l == LeastOf(s, C)
           m == CHOOSE q \in C : \A r \in C : f[q] <= f[r]
<1>1. /\ l \in C
      /\ \A q \in C : /\ Ahead(v, s[q]) \in 0..BIG_STRIDE
                      /\ Ahead(v, s[l]) <= Ahead(v, s[q])
                      /\ LeadOf(s, C)[q] = Ahead(v, s[q]) - Ahead(v, s[l])
  BY LeastOfSpread
<1> HIDE DEF l, Ahead
<1>2. \A q \in C : Ahead(v, s[q]) \in Int
  BY <1>1, WordSize
<1>3. \A q \in C : f[l] <= f[q]
  BY <1>1, <1>2
<1>4. m \in C /\ \A r \in C : f[m] <= f[r]
  BY <1>1, <1>3
<1>5. Ideal!Normal(f, C) = [p \in Procs |-> IF p \in C THEN f[p] - f[m] ELSE 0]
  BY DEF Ideal!Normal
<1> HIDE DEF m
<1>6. f[m] = f[l] /\ f[l] = Ahead(v, s[l]) + c
  BY <1>1, <1>2, <1>3, <1>4
<1>7. \A q \in C : f[q] - f[m] = LeadOf(s, C)[q]
  BY <1>1, <1>2, <1>6
<1>8. \A q \in Procs \ C : LeadOf(s, C)[q] = 0
  BY DEF LeadOf
<1>9. LeadOf(s, C) = [p \in Procs |-> LeadOf(s, C)[p]]
  BY DEF LeadOf
<1> QED BY <1>5, <1>7, <1>8, <1>9

(* From s to s2 the ideal scheduler lets n of S go on, when C could run.    *)
IdealPick(S, s, priority, n, s2, C) ==
    /\ \A p \in S : LeadOf(s, C)[n] <= LeadOf(s, C)[p]
    /\ LeadOf(s2, S) =
         Ideal!Normal([LeadOf(s, C) EXCEPT ![n] = LeadOf(s, C)[n] + BIG_STRIDE \div priority[n]], S)

(* What schedule() picks from some of all C that could run, ...             *)
LEMMA PickedLead ==
    ASSUME NEW q, NEW s \in [Procs -> Words], NEW priority \in [Procs -> Nat \ {0}], NEW v,
           NEW n, NEW s2, NEW q2, NEW C \in SUBSET Procs,
           Spread(s, C, v), q.procs \subseteq C, q.procs # {},
           Picked("order", q, s, priority, v, n, s2, q2)
    PROVE  IdealPick(q.procs, s, priority, n, s2, C)
<1> DEFINE l == LeastOf(s, C)
           k == BIG_STRIDE \div priority[n]
           f == [LeadOf(s, C) EXCEPT ![n] = LeadOf(s, C)[n] + k]
           c == Ahead(v, s[n]) - Ahead(v, s[l])
           S == q.procs
<1>1. /\ n \in S /\ n \in C /\ n \in Procs /\ \A p \in S : Ahead(v, s[n]) <= Ahead(v, s[p])
      /\ \A p \in Procs \ {n} : s2[p] = s[p]
      /\ Ahead(s[n], s2[n]) = k
      /\ Spread(s2, S, s[n])
  BY DEF Picked, PickedLeast
<1>2. /\ l \in C
      /\ \A p \in C : /\ Ahead(v, s[p]) \in 0..BIG_STRIDE
                      /\ LeadOf(s, C)[p] = Ahead(v, s[p]) - Ahead(v, s[l])
  BY <1>1, LeastOfSpread
<1>3. \A p \in S : Ahead(s[n], s[p]) = Ahead(v, s[p]) - Ahead(v, s[n])
  <2> SUFFICES ASSUME NEW p \in S PROVE Ahead(s[n], s[p]) = Ahead(v, s[p]) - Ahead(v, s[n])
    OBVIOUS
  <2>1. v \in Words /\ s[p] \in Words /\ s[n] \in Words
    BY <1>1 DEF Spread
  <2> QED BY <1>1, <2>1, AheadOfLeast
<1> HIDE DEF l, Ahead, S
<1>4. \A p \in C : Ahead(v, s[p]) \in Int /\ 0 <= Ahead(v, s[p])
  BY <1>2, WordSize
<1>5. priority[n] \in Nat \ {0} /\ k \in Int
  BY <1>1, WordSize
<1> HIDE DEF k
<1>6. c \in Int
  BY <1>1, <1>2, <1>4
<1>7. \A p \in S : f[p] = Ahead(s[n], s2[p]) + c
  <2> SUFFICES ASSUME NEW p \in S PROVE f[p] = Ahead(s[n], s2[p]) + c
    OBVIOUS
  <2>1. p \in C /\ p \in Procs
    BY DEF S
  <2>2. LeadOf(s, C)[p] = Ahead(v, s[p]) - Ahead(v, s[l])
    BY <1>2, <2>1
  <2>3. f[p] = IF p = n THEN LeadOf(s, C)[n] + k ELSE LeadOf(s, C)[p]
    BY <1>1, <2>1 DEF LeadOf
  <2>4. CASE p = n
    BY <1>1, <1>2, <1>4, <1>5, <2>2, <2>3, <2>4
  <2>5. CASE p # n
    <3>1. s2[p] = s[p] /\ Ahead(s[n], s[p]) = Ahead(v, s[p]) - Ahead(v, s[n])
      BY <1>1, <1>3, <2>1, <2>5
    <3> QED BY <1>1, <1>2, <1>4, <2>1, <2>2, <2>3, <2>5, <3>1
  <2> QED BY <2>4, <2>5
<1> HIDE DEF f, c
<1>8. Ideal!Normal(f, S) = LeadOf(s2, S)
  <2>1. S \in SUBSET Procs /\ S # {}
    BY DEF S
  <2> QED BY <1>1, <1>6, <1>7, <2>1, ShiftNormal
<1>9. \A p \in S : LeadOf(s, C)[n] <= LeadOf(s, C)[p]
  BY <1>1, <1>2, <1>4 DEF S
<1> QED BY <1>8, <1>9 DEF f, k, S, IdealPick

LEMMA IdealCanRun == Ideal!CanRun = CanRun /\ Ideal!CanRun' = CanRun'
BY DEF Ideal!CanRun, CanRun, Ideal!NULL, NULL

LEMMA AheadSelf == \A x \in Words : Ahead(x, x) = 0
<1> SUFFICES ASSUME NEW x \in Words PROVE Ahead(x, x) = 0
  OBVIOUS
<1>1. Ahead(x, x) = IF x >= x THEN x - x ELSE (x - x) + WORD
  BY AheadIs
<1>2. x \in Int
  BY WordSize DEF Words
<1> HIDE DEF Ahead
<1> QED BY <1>1, <1>2

(* What Lead is, in every state: where there is an order no stride is       *)
(* farther than BIG_STRIDE ahead of the least.                              *)
LEMMA LeadType == StrideInv => Lead \in [Procs -> 0..BIG_STRIDE]
<1> SUFFICES ASSUME StrideInv PROVE Lead \in [Procs -> 0..BIG_STRIDE]
  OBVIOUS
<1>1. 0 \in 0..BIG_STRIDE
  BY WordSize
<1>2. CASE ~InOrder
  BY <1>1, <1>2, LeadIs
<1>3. CASE InOrder
  <2>1. Lead = LeadOf(lab6_stride, CanRun) /\ CanRun \in SUBSET Procs
    BY <1>3, LeadIs DEF StrideInv, StrideTypePart, CanRun, Nodes
  <2>2. ASSUME NEW p \in CanRun PROVE LeadOf(lab6_stride, CanRun)[p] \in 0..BIG_STRIDE
    <3>1. SpreadPart
      BY <1>3, OrderIs DEF OrderedInv
    <3>2. PICK v : Spread(lab6_stride, CanRun, v)
      BY <2>2, <3>1 DEF SpreadPart
    <3> DEFINE l == LeastOf(lab6_stride, CanRun)
               x == Ahead(v, lab6_stride[p])
               y == Ahead(v, lab6_stride[l])
    <3>3. /\ l \in CanRun /\ x \in 0..BIG_STRIDE /\ y \in 0..BIG_STRIDE /\ y <= x
          /\ LeadOf(lab6_stride, CanRun)[p] = x - y
      BY <2>1, <2>2, <3>2, LeastOfSpread
    <3> HIDE DEF x, y
    <3> QED BY <3>3, WordSize
  <2>3. \A p \in Procs \ CanRun : LeadOf(lab6_stride, CanRun)[p] = 0
    BY DEF LeadOf
  <2>4. LeadOf(lab6_stride, CanRun) = [p \in Procs |-> LeadOf(lab6_stride, CanRun)[p]]
    BY DEF LeadOf
  <2> QED BY <1>1, <2>1, <2>2, <2>3, <2>4
<1> QED BY <1>2, <1>3

LEMMA LeadTypeNext == (StrideInv => Lead \in [Procs -> 0..BIG_STRIDE])'
BY LeadType, PTL

(* The three ways a step may change the strides of the ideal scheduler.     *)
LEMMA StridesKnown ==
    ASSUME StrideInv', NEW f, NEW S \in SUBSET Procs, InOrder, InOrder',
           Lead' = Ideal!Normal(f, S)
    PROVE  Ideal!Strides(f, S)
<1>1. \A p \in S : Ideal!Normal(f, S)[p] <= BIG_STRIDE
  <2> SUFFICES ASSUME NEW p \in S PROVE Lead'[p] <= BIG_STRIDE
    OBVIOUS
  <2>1. Lead'[p] \in 0..BIG_STRIDE
    BY LeadTypeNext
  <2> QED BY <2>1, WordSize
<1> QED BY <1>1 DEF Ideal!Strides

LEMMA StridesLost ==
    ASSUME NEW f, NEW S, InOrder, ~InOrder', ~ \A p \in S : Ideal!Normal(f, S)[p] <= BIG_STRIDE
    PROVE  Ideal!Strides(f, S)
<1>1. Lead' = [p \in Procs |-> 0]
  BY LeadIsNext
<1> QED BY <1>1 DEF Ideal!Strides

LEMMA StridesUnknown ==
    ASSUME StrideInv', NEW f, NEW S, ~InOrder
    PROVE  Ideal!Strides(f, S)
<1>1. Lead' \in [Procs -> 0..BIG_STRIDE] /\ InOrder' \in BOOLEAN
  BY LeadTypeNext DEF InOrder
<1> QED BY <1>1 DEF Ideal!Strides

(* What schedule() does, the ideal scheduler could have done too.           *)
LEMMA RunRefined ==
    ASSUME StrideInv, StrideInv', NEW q, q.procs \subseteq CanRun, q.procs # {},
           CanRun' = q.procs, lab6_priority' = lab6_priority,
           current' \in q.procs, rq'.procs = q.procs \ {current'},
           InOrder => /\ InOrder'
                      /\ \E v : /\ Spread(lab6_stride, CanRun, v)
                                /\ Picked("order", q, lab6_stride, lab6_priority, v, current',
                                          lab6_stride', rq')
    PROVE  Ideal!Run(q.procs)
<1> DEFINE f == [Lead EXCEPT ![current'] = Lead[current'] + BIG_STRIDE \div lab6_priority[current']]
<1>1. /\ lab6_stride \in [Procs -> Words] /\ lab6_priority \in [Procs -> Nat \ {0}]
      /\ CanRun \in SUBSET Procs /\ q.procs \in SUBSET Procs
  BY DEF StrideInv, StrideTypePart, CanRun, Nodes
<1>2. ASSUME InOrder
      PROVE  /\ \A p \in q.procs : Lead[current'] <= Lead[p]
             /\ Lead' = Ideal!Normal(f, q.procs)
  <2>1. PICK v : /\ Spread(lab6_stride, CanRun, v)
                 /\ Picked("order", q, lab6_stride, lab6_priority, v, current', lab6_stride', rq')
    BY <1>2
  <2>2. IdealPick(q.procs, lab6_stride, lab6_priority, current', lab6_stride', CanRun)
    BY <1>1, <2>1, PickedLead
  <2>3. Lead = LeadOf(lab6_stride, CanRun) /\ Lead' = LeadOf(lab6_stride', q.procs)
    BY <1>2, LeadIs, LeadIsNext
  <2> QED BY <2>2, <2>3 DEF IdealPick
<1>3. Ideal!Strides(f, q.procs)
  <2> HIDE DEF f
  <2>1. CASE InOrder
    BY <1>1, <1>2, <2>1, StridesKnown
  <2>2. CASE ~InOrder
    BY <2>2, StridesUnknown
  <2> QED BY <2>1, <2>2
<1>4. ASSUME q.procs = {current'} PROVE InOrder'
  <2>1. rq'.procs = {} /\ CanRun' = {current'} /\ lab6_stride'[current'] \in Words
    BY <1>1, <1>4 DEF StrideInv, StrideTypePart
  <2>2. (lab6_stride'[current'] - lab6_stride'[current']) % WORD <= BIG_STRIDE
    <3>1. Ahead(lab6_stride'[current'], lab6_stride'[current']) = 0
      BY <2>1, AheadSelf
    <3> QED BY <3>1, WordSize DEF Ahead
  <2>3. Close(CanRun)'
    BY <2>1, <2>2 DEF Close, Above
  <2> QED BY <2>1, <2>3 DEF InOrder
<1>5. /\ InOrder => \A p \in q.procs : Lead[current'] <= Lead[p]
      /\ q.procs = {current'} => InOrder'
  BY <1>2, <1>4
<1>6. Ideal!Strides([Lead EXCEPT ![current'] = Lead[current'] + BIG_STRIDE \div lab6_priority[current']],
                    q.procs)
  BY <1>3
<1> QED BY <1>5, <1>6 DEF Ideal!Run

(* With nobody left there is nothing to be ahead of.                        *)
LEMMA NobodyRefined ==
    ASSUME current' = NULL, rq'.procs = {}, CanRun' = {}, lab6_priority' = lab6_priority
    PROVE  Ideal!Run({})
<1>1. Lead' = [p \in Procs |-> 0]
  BY DEF Lead
<1>2. InOrder'
  BY DEF InOrder
<1> QED BY <1>1, <1>2 DEF Ideal!Run, Ideal!NULL, NULL

(* One lemma for Reschedule, Sleep and do_exit: q is the heap of all that   *)
(* can go on.                                                               *)
ScheduledInOrder(q) ==
    InOrder => /\ InOrder'
               /\ \E v : (q.procs # {} => Spread(lab6_stride, CanRun, v)) /\ Scheduled("order", q, v)

LEMMA ScheduleRefined ==
    ASSUME StrideInv, StrideInv', NEW q, q.procs \subseteq CanRun, CanRun' = q.procs,
           lab6_priority' = lab6_priority,
           \E v : Scheduled("links", q, v), ScheduledInOrder(q)
    PROVE  Ideal!Run(q.procs)
<1>1. CASE q.procs = {}
  <2>1. current' = NULL /\ rq'.procs = {}
    BY <1>1 DEF Scheduled
  <2>2. Ideal!Run({})
    BY <1>1, <2>1, NobodyRefined
  <2> QED BY <1>1, <2>2
<1>2. CASE q.procs # {}
  <2>1. current' \in q.procs /\ rq'.procs = q.procs \ {current'}
    BY <1>2 DEF Scheduled, Picked
  <2>2. InOrder => /\ InOrder'
                   /\ \E v : /\ Spread(lab6_stride, CanRun, v)
                             /\ Picked("order", q, lab6_stride, lab6_priority, v, current',
                                       lab6_stride', rq')
    BY <1>2 DEF ScheduledInOrder, Scheduled
  <2> QED BY <1>2, <2>1, <2>2, RunRefined
<1> QED BY <1>1, <1>2

LEMMA RescheduleRefined ==
    ASSUME StrideInv, Reschedule
    PROVE  Ideal!Reschedule
<1>1. OrderedInv("links")
  BY InvIs
<1>2. OrderedInv("links")' /\ CanRun' = CanRun /\ \E v : Scheduled("links", Back, v)
  <2>1. \A v : "links" = "order" /\ CanRun # {} => Spread(lab6_stride, CanRun, v)
    OBVIOUS
  <2> QED BY <1>1, <2>1, RescheduleStep
<1>3. StrideInv' /\ Back.procs = CanRun /\ lab6_priority' = lab6_priority
  BY <1>1, <1>2, InvIs, BackLemma DEF Reschedule, schedule
<1>4. ScheduledInOrder(Back)
  <2> SUFFICES ASSUME InOrder
               PROVE  /\ InOrder'
                      /\ \E v : /\ Back.procs # {} => Spread(lab6_stride, CanRun, v)
                                /\ Scheduled("order", Back, v)
    BY DEF ScheduledInOrder
  <2>1. OrderedInv("order")
    BY OrderIs
  <2>2. PICK v : CanRun # {} => Spread(lab6_stride, CanRun, v)
    BY <2>1 DEF OrderedInv, SpreadPart
  <2>3. OrderedInv("order")' /\ Scheduled("order", Back, v)
    BY <1>1, <2>1, <2>2, RescheduleStep
  <2>4. InOrder'
    BY <1>3, <2>3, OrderIsNext
  <2> QED BY <1>3, <2>2, <2>3, <2>4
<1>5. Ideal!Run(CanRun)
  <2>1. Ideal!Run(Back.procs)
    BY <1>2, <1>3, <1>4, ScheduleRefined
  <2> QED BY <1>3, <2>1
<1> QED BY <1>5, IdealCanRun DEF Ideal!Reschedule

LEMMA LeaveRefined ==
    ASSUME StrideInv, NEW left \in {"sleeping", "unused"}, StopsRunning(left)
    PROVE  Ideal!Sleep
<1>1. OrderedInv("links")
  BY InvIs
<1>2. current # NULL /\ CanRun # {} /\ rq.procs \subseteq CanRun /\ lab6_priority' = lab6_priority
  BY DEF StopsRunning, schedule, CanRun
<1>3. OrderedInv("links")' /\ CanRun' = rq.procs /\ \E v : Scheduled("links", rq, v)
  <2>1. \A v : "links" = "order" => Spread(lab6_stride, CanRun, v)
    OBVIOUS
  <2> QED BY <1>1, <2>1, StrideLeaveStep
<1>4. StrideInv'
  BY <1>3, InvIs
<1>5. ScheduledInOrder(rq)
  <2> SUFFICES ASSUME InOrder
               PROVE  /\ InOrder'
                      /\ \E v : /\ rq.procs # {} => Spread(lab6_stride, CanRun, v)
                                /\ Scheduled("order", rq, v)
    BY DEF ScheduledInOrder
  <2>1. OrderedInv("order")
    BY OrderIs
  <2>2. PICK v : Spread(lab6_stride, CanRun, v)
    BY <1>2, <2>1 DEF OrderedInv, SpreadPart
  <2>3. OrderedInv("order")' /\ Scheduled("order", rq, v)
    BY <1>1, <2>1, <2>2, StrideLeaveStep
  <2>4. InOrder'
    BY <1>4, <2>3, OrderIsNext
  <2> QED BY <2>2, <2>3, <2>4
<1>6. Ideal!Run(rq.procs)
  BY <1>2, <1>3, <1>4, <1>5, ScheduleRefined
<1> QED BY <1>2, <1>6 DEF Ideal!Sleep, Ideal!NULL, NULL

(* Who joins close to the others does so at its distance from the least     *)
(* stride before, ...                                                       *)
LEMMA JoinLead ==
    ASSUME NEW s, NEW C \in SUBSET Procs, NEW p \in Procs \ C, NEW v,
           Spread(s, C \cup {p}, v)
    PROVE  \E gap \in -BIG_STRIDE..BIG_STRIDE :
              LeadOf(s, C \cup {p}) = Ideal!Normal([LeadOf(s, C) EXCEPT ![p] = gap], C \cup {p})
<1> DEFINE D == C \cup {p}
           l == IF C = {} THEN p ELSE LeastOf(s, C)
           gap == Ahead(v, s[p]) - Ahead(v, s[l])
           f == [LeadOf(s, C) EXCEPT ![p] = gap]
           c == 0 - Ahead(v, s[l])
<1>1. l \in D /\ \A q \in D : Ahead(v, s[q]) \in 0..BIG_STRIDE
  <2>1. \A q \in D : Ahead(v, s[q]) \in 0..BIG_STRIDE
    BY LeastOfSpread
  <2>2. C # {} => LeastOf(s, C) \in C
    BY SpreadSubset, LeastOfSpread
  <2> QED BY <2>1, <2>2
<1>2. \A q \in C : LeadOf(s, C)[q] = Ahead(v, s[q]) - Ahead(v, s[l])
  <2>1. CASE C = {}
    BY <2>1
  <2>2. CASE C # {}
    <3>1. Spread(s, C, v)
      BY SpreadSubset
    <3>2. \A q \in C : LeadOf(s, C)[q] = Ahead(v, s[q]) - Ahead(v, s[LeastOf(s, C)])
      BY <2>2, <3>1, LeastOfSpread
    <3> QED BY <2>2, <3>2
  <2> QED BY <2>1, <2>2
<1> HIDE DEF l, Ahead
<1>3. gap \in -BIG_STRIDE..BIG_STRIDE /\ c \in Int
  BY <1>1, WordSize
<1>4. \A q \in D : f[q] = Ahead(v, s[q]) + c
  <2> SUFFICES ASSUME NEW q \in D PROVE f[q] = Ahead(v, s[q]) + c
    OBVIOUS
  <2>1. f[q] = IF q = p THEN gap ELSE LeadOf(s, C)[q]
    BY DEF LeadOf
  <2>2. Ahead(v, s[q]) \in Int /\ Ahead(v, s[l]) \in Int /\ Ahead(v, s[p]) \in Int
    BY <1>1, WordSize
  <2> HIDE DEF f
  <2>3. CASE q = p
    BY <2>1, <2>2, <2>3
  <2>4. CASE q # p
    <3>1. LeadOf(s, C)[q] = Ahead(v, s[q]) - Ahead(v, s[l])
      BY <1>2, <2>4
    <3> QED BY <2>1, <2>2, <2>4, <3>1
  <2> QED BY <2>3, <2>4
<1> HIDE DEF f, c
<1>5. Ideal!Normal(f, D) = LeadOf(s, D)
  <2>1. D \in SUBSET Procs /\ D # {}
    OBVIOUS
  <2> HIDE DEF D
  <2> QED BY <1>3, <1>4, <2>1, ShiftNormal DEF D
<1> HIDE DEF gap
<1> QED BY <1>3, <1>5 DEF f

(* ... and who joins far away at a distance that no order can cover.        *)
LEMMA FarJoin ==
    ASSUME NEW s \in [Procs -> Words], NEW C \in SUBSET Procs, NEW p \in Procs \ C, NEW v,
           C # {} => Spread(s, C, v), ~ \E w : Spread(s, C \cup {p}, w)
    PROVE  \E gap \in 0..(2 * BIG_STRIDE + 1) :
              ~ \A q \in C \cup {p} :
                   Ideal!Normal([LeadOf(s, C) EXCEPT ![p] = gap], C \cup {p})[q] <= BIG_STRIDE
<1> DEFINE D == C \cup {p}
           l == LeastOf(s, C)
           gap == Ahead(s[l], s[p])
           f == [LeadOf(s, C) EXCEPT ![p] = gap]
           m == CHOOSE q \in D : \A r \in D : f[q] <= f[r]
<1>1. C # {}
  <2> SUFFICES ASSUME C = {} PROVE FALSE
    OBVIOUS
  <2>1. s[p] \in Words
    OBVIOUS
  <2>2. Ahead(s[p], s[p]) = 0
    BY <2>1, AheadSelf
  <2>3. Spread(s, C \cup {p}, s[p])
    BY <2>1, <2>2, WordSize DEF Spread
  <2> QED BY <2>3
<1>2. l \in C
  BY <1>1, LeastOfSpread
<1>3. \A q \in D : s[q] \in Words /\ Ahead(s[l], s[q]) \in Words
  <2>1. \A q \in D : s[q] \in Words
    OBVIOUS
  <2>2. s[l] \in Words
    BY <1>2
  <2> QED BY <2>1, <2>2, AheadIs
<1>4. Ahead(s[l], s[l]) = 0
  BY <1>2, <1>3, AheadSelf
<1>5. \A q \in D : f[q] = Ahead(s[l], s[q])
  BY DEF LeadOf
<1>6. gap \in 0..(2 * BIG_STRIDE + 1)
  <2>1. gap \in Words
    BY <1>3
  <2> HIDE DEF gap
  <2> QED BY <2>1, WordSize DEF Words
<1>7. Ideal!Normal(f, D) = [q \in Procs |-> IF q \in D THEN f[q] - f[m] ELSE 0]
  BY DEF Ideal!Normal
<1>8. \A q \in D : f[q] \in Int /\ 0 <= f[q]
  <2> HIDE DEF f, Ahead, D
  <2> QED BY <1>3, <1>5, WordSize DEF Words
<1>9. l \in D /\ f[l] = 0
  BY <1>2, <1>4, <1>5
<1> HIDE DEF f, l
<1>10. m \in D /\ \A r \in D : f[m] <= f[r]
  <2>1. \A r \in D : f[l] <= f[r]
    BY <1>8, <1>9
  <2> HIDE DEF D
  <2> QED BY <1>9, <2>1
<1> HIDE DEF m
<1>11. f[m] = 0
  BY <1>8, <1>9, <1>10
<1>12. \A q \in D : Ideal!Normal(f, D)[q] = Ahead(s[l], s[q])
  <2>1. \A q \in D : q \in Procs /\ f[q] - f[m] = f[q]
    BY <1>8, <1>11
  <2> QED BY <1>5, <1>7, <2>1
<1>13. ~ \A q \in D : Ideal!Normal(f, D)[q] <= BIG_STRIDE
  <2> SUFFICES ASSUME \A q \in D : Ideal!Normal(f, D)[q] <= BIG_STRIDE PROVE FALSE
    OBVIOUS
  <2>1. \A q \in D : Ahead(s[l], s[q]) <= BIG_STRIDE
    BY <1>12
  <2>2. s[l] \in Words
    BY <1>3, <1>9
  <2>3. Spread(s, D, s[l])
    BY <1>3, <2>1, <2>2 DEF Spread
  <2> QED BY <2>3 DEF D
<1> HIDE DEF gap
<1> QED BY <1>6, <1>13 DEF f, D

(* The stride of who joins does not matter to the others' lead.             *)
LEMMA LeadAgrees ==
    ASSUME NEW s, NEW s2, NEW C \in SUBSET Procs, NEW v, C # {} => Spread(s, C, v),
           \A q \in C : s2[q] = s[q]
    PROVE  LeadOf(s2, C) = LeadOf(s, C)
<1>1. ASSUME NEW q \in C PROVE LeadOf(s2, C)[q] = LeadOf(s, C)[q]
  <2> DEFINE l == LeastOf(s, C)
             m == LeastOf(s2, C)
  <2>1. Spread(s, C, v) /\ C # {}
    BY <1>1
  <2>2. Spread(s2, C, v)
    BY <2>1 DEF Spread
  <2>3. /\ l \in C
        /\ \A r \in C : Ahead(v, s[l]) <= Ahead(v, s[r]) /\ Ahead(v, s[r]) \in 0..BIG_STRIDE
        /\ LeadOf(s, C)[q] = Ahead(v, s[q]) - Ahead(v, s[l])
    BY <1>1, <2>1, LeastOfSpread
  <2>4. /\ m \in C
        /\ \A r \in C : Ahead(v, s2[m]) <= Ahead(v, s2[r])
        /\ LeadOf(s2, C)[q] = Ahead(v, s2[q]) - Ahead(v, s2[m])
    BY <1>1, <2>1, <2>2, LeastOfSpread
  <2> HIDE DEF l, m, Ahead
  <2>5. s2[m] = s[m] /\ s2[l] = s[l] /\ s2[q] = s[q]
    BY <1>1, <2>3, <2>4
  <2>6. Ahead(v, s[m]) <= Ahead(v, s[l]) /\ Ahead(v, s[l]) <= Ahead(v, s[m])
        /\ Ahead(v, s[m]) \in 0..BIG_STRIDE /\ Ahead(v, s[l]) \in 0..BIG_STRIDE
    BY <2>3, <2>4, <2>5
  <2>7. Ahead(v, s[m]) = Ahead(v, s[l])
    BY <2>6, WordSize
  <2> QED BY <2>3, <2>4, <2>5, <2>7
<1>2. \A q \in Procs \ C : LeadOf(s2, C)[q] = 0 /\ LeadOf(s, C)[q] = 0
  BY DEF LeadOf
<1>3. /\ LeadOf(s2, C) = [q \in Procs |-> LeadOf(s2, C)[q]]
      /\ LeadOf(s, C) = [q \in Procs |-> LeadOf(s, C)[q]]
  BY DEF LeadOf
<1> QED BY <1>1, <1>2, <1>3

LEMMA JoinRefined ==
    ASSUME StrideInv, NEW p \in Procs, Joins(p)
    PROVE  Ideal!Join(p)
<1> DEFINE Gaps == -BIG_STRIDE..2 * BIG_STRIDE + 1
           D == CanRun \cup {p}
<1>1. OrderedInv("links")
  BY InvIs
<1>2. OrderedInv("links")' /\ CanRun' = D /\ p \notin CanRun /\ rq'.procs = rq.procs \cup {p}
  <2>1. \A v : "links" = "order" => Spread(lab6_stride', CanRun \cup {p}, v)
    OBVIOUS
  <2> QED BY <1>1, <2>1, JoinStep
<1>3. /\ StrideInv' /\ CanRun \in SUBSET Procs /\ D \in SUBSET Procs
      /\ lab6_stride' \in [Procs -> Words]
      /\ \A q \in CanRun : lab6_stride'[q] = lab6_stride[q]
  BY <1>2, InvIs DEF StrideInv, StrideTypePart, CanRun, Nodes, Joins
<1>4. \E gap \in Gaps : Ideal!Strides([Lead EXCEPT ![p] = gap], D)
  <2>1. CASE ~InOrder
    <3>1. 0 \in Gaps
      BY WordSize
    <3>2. Ideal!Strides([Lead EXCEPT ![p] = 0], D)
      BY <1>3, <2>1, StridesUnknown
    <3> QED BY <3>1, <3>2
  <2>2. CASE InOrder
    <3>1. PICK v : CanRun # {} => Spread(lab6_stride, CanRun, v)
      BY <2>2, OrderIs DEF OrderedInv, SpreadPart
    <3>2. Lead = LeadOf(lab6_stride', CanRun)
      <4>1. Lead = LeadOf(lab6_stride, CanRun)
        BY <2>2, LeadIs
      <4> QED BY <1>3, <3>1, <4>1, LeadAgrees
    <3>3. ASSUME NEW w, Spread(lab6_stride', D, w)
          PROVE  \E gap \in Gaps : Ideal!Strides([Lead EXCEPT ![p] = gap], D)
      <4>1. InOrder'
        <5>1. OrderedInv("order")
          BY <2>2, OrderIs
        <5>2. OrderedInv("order")'
          BY <1>1, <3>3, <5>1, JoinStep
        <5> QED BY <1>3, <5>2, OrderIsNext
      <4>2. PICK gap \in -BIG_STRIDE..BIG_STRIDE :
               LeadOf(lab6_stride', D) = Ideal!Normal([LeadOf(lab6_stride', CanRun) EXCEPT ![p] = gap], D)
        <5> HIDE DEF Gaps
        <5>1. CanRun \in SUBSET Procs /\ p \in Procs \ CanRun
          BY <1>2, <1>3
        <5> QED BY <3>3, <5>1, JoinLead
      <4>3. Lead' = Ideal!Normal([Lead EXCEPT ![p] = gap], D)
        <5>1. Lead' = LeadOf(lab6_stride', D)
          BY <1>2, <4>1, LeadIsNext
        <5> QED BY <3>2, <4>2, <5>1
      <4>4. Ideal!Strides([Lead EXCEPT ![p] = gap], D)
        BY <1>3, <2>2, <4>1, <4>3, StridesKnown
      <4>5. gap \in Gaps
        BY WordSize
      <4> QED BY <4>4, <4>5
    <3>4. ASSUME ~ \E w : Spread(lab6_stride', D, w)
          PROVE  \E gap \in Gaps : Ideal!Strides([Lead EXCEPT ![p] = gap], D)
      <4>1. ~InOrder'
        <5>1. ~SpreadPart'
          BY <1>2, <3>4 DEF SpreadPart
        <5>2. ~OrderedInv("order")'
          BY <5>1 DEF OrderedInv
        <5> QED BY <1>3, <5>2, OrderIsNext
      <4>2. CanRun # {} => Spread(lab6_stride', CanRun, v)
        BY <1>3, <3>1 DEF Spread
      <4>3. PICK gap \in 0..(2 * BIG_STRIDE + 1) :
               ~ \A q \in D : Ideal!Normal([LeadOf(lab6_stride', CanRun) EXCEPT ![p] = gap], D)[q]
                                <= BIG_STRIDE
        BY <1>2, <1>3, <3>4, <4>2, FarJoin
      <4>4. ~ \A q \in D : Ideal!Normal([Lead EXCEPT ![p] = gap], D)[q] <= BIG_STRIDE
        BY <3>2, <4>3
      <4>5. Ideal!Strides([Lead EXCEPT ![p] = gap], D)
        BY <2>2, <4>1, <4>4, StridesLost
      <4>6. gap \in Gaps
        BY WordSize
      <4> QED BY <4>5, <4>6
    <3> QED BY <3>3, <3>4
  <2> QED BY <2>1, <2>2
<1>5. Ideal!CanRun = CanRun /\ Ideal!CanRun' = CanRun'
  BY IdealCanRun
<1>6. /\ current' = current
      /\ lab6_priority' \in {lab6_priority, [lab6_priority EXCEPT ![p] = 1]}
  BY DEF Joins
<1>7. \E gap \in -BIG_STRIDE..2 * BIG_STRIDE + 1 :
         Ideal!Strides([Lead EXCEPT ![p] = gap], Ideal!CanRun')
  BY <1>2, <1>4, <1>5
<1> QED BY <1>2, <1>5, <1>6, <1>7 DEF Ideal!Join

(* Steps that leave the heap and the strides alone keep all the ideal       *)
(* scheduler knows of them.                                                 *)
LEMMA SameOrder ==
    ASSUME rq' = rq, current' = current, lab6_stride' = lab6_stride
    PROVE  Lead' = Lead /\ InOrder' = InOrder
<1>1. CanRun' = CanRun
  BY DEF CanRun
<1>2. InOrder' = InOrder
  BY <1>1 DEF InOrder, Children, Close, Above
<1>3. Lead' = Lead
  BY <1>1, <1>2, LeadIs, LeadIsNext
<1> QED BY <1>2, <1>3

LEMMA PriorityRefined ==
    ASSUME StrideInv, NEW k \in Priorities, lab6_set_priority(k)
    PROVE  Ideal!SetPriority(k)
<1>1. current # NULL /\ lab6_priority' = [lab6_priority EXCEPT ![current] = k]
  <2>1. OrderedInv("links")
    BY InvIs
  <2> QED BY <2>1, PriorityStep DEF lab6_set_priority
<1>2. current' = current /\ rq' = rq /\ lab6_stride' = lab6_stride
  BY DEF lab6_set_priority
<1>3. Lead' = Lead /\ InOrder' = InOrder
  BY <1>2, SameOrder
<1> QED BY <1>1, <1>2, <1>3 DEF Ideal!SetPriority, Ideal!NULL, NULL

LEMMA IdealInit == StrideInit => Ideal!Init
<1> SUFFICES ASSUME StrideInit PROVE Ideal!Init
  OBVIOUS
<1>1. Lead = [p \in Procs |-> 0]
  BY DEF StrideInit, Lead, CanRun
<1>2. InOrder
  BY DEF StrideInit, InOrder, CanRun
<1> QED BY <1>1, <1>2 DEF StrideInit, Ideal!Init, Ideal!NULL, NULL

LEMMA IdealNext ==
    ASSUME StrideInv, [StrideNext]_strideVars
    PROVE  [Ideal!Next]_Ideal!vars
<1>1. CASE Reschedule
  BY <1>1, RescheduleRefined DEF Ideal!Next
<1>2. CASE Sleep \/ do_exit
  BY <1>2, LeaveRefined DEF Ideal!Next, Sleep, do_exit
<1>3. ASSUME NEW p \in Procs, wakeup_proc(p) \/ do_fork(p) PROVE Ideal!Next
  <2>1. Joins(p)
    BY <1>3, WakeupJoins, ForkJoins DEF StrideInv
  <2> QED BY <2>1, JoinRefined DEF Ideal!Next
<1>4. ASSUME NEW k \in Priorities, lab6_set_priority(k) PROVE Ideal!Next
  BY <1>4, PriorityRefined DEF Ideal!Next
<1>5. ASSUME UNCHANGED strideVars PROVE UNCHANGED Ideal!vars
  <2>1. rq' = rq /\ current' = current /\ lab6_stride' = lab6_stride /\ lab6_priority' = lab6_priority
    BY <1>5 DEF strideVars
  <2> QED BY <2>1, SameOrder DEF Ideal!vars
<1> QED BY <1>1, <1>2, <1>3, <1>4, <1>5 DEF StrideNext

(* Strides that overflow order the processes as strides of any size would,  *)
(* for every word, every priority and every order of calls: while nobody    *)
(* has joined from too far, whoever stride_pick_next lets go on the ideal   *)
(* scheduler could have picked, and nothing else ends that.                 *)
THEOREM StrideIsIdeal == StrideSpec => ImplementsIdeal
<1>1. StrideInv /\ [StrideNext]_strideVars => [Ideal!Next]_Ideal!vars
  BY IdealNext
<1> QED BY IdealInit, <1>1, StrideInvariant, PTL DEF StrideSpec, ImplementsIdeal, Ideal!Spec

-----------------------------------------------------------------------------
(* The free list of first fit and best fit.                                 *)

(* Entries of the list: pages and free_list itself.                         *)
Entry == Pages \cup {HEAD}

(* What the fields of the state of a list manager may hold.                 *)
MemStates == [next : [Entry -> Entry], prev : [Entry -> Entry],
              property : [Pages -> Nat], free : SUBSET Pages,
              area : {[k \in Orders |-> <<>>]}, nr_free : Int, failed : BOOLEAN]

(* The pages of F are linked in both directions, in the order of their      *)
(* addresses.                                                               *)
Ring(s, F) ==
    /\ \A e \in F \cup {HEAD} :
          /\ s.next[e] \in F \cup {HEAD} /\ s.prev[s.next[e]] = e
          /\ s.prev[e] \in F \cup {HEAD} /\ s.next[s.prev[e]] = e
    /\ \A e \in F : e < s.next[e]
    /\ \A e \in F \cup {HEAD}, x \in F : e = HEAD \/ e < x => s.next[e] <= x

(* The blocks at F, of the sizes in size, lie within the memory and do not  *)
(* overlap.                                                                 *)
Blocks(F, size) ==
    /\ \A p \in F : 1 <= size[p] /\ p + size[p] <= NPages
    /\ \A p, q \in F : p < q => p + size[p] <= q

(* A block that touches the block above it is in L, or that block is in U.  *)
TouchAt(F, size, L, U) == \A p, q \in F : p + size[p] = q => p \in L \/ q \in U

FreeSet(F, size) == {x \in Pages : \E p \in F : p <= x /\ x < p + size[p]}

(* The state of a list manager, with blocks that may touch at L and U, as   *)
(* in the middle of default_free_pages; between the calls there are none.   *)
ListLike(s, L, U) ==
    /\ s \in MemStates /\ ~s.failed
    /\ Ring(s, s.free)
    /\ Blocks(s.free, s.property)
    /\ TouchAt(s.free, s.property, L, U)
    /\ s.nr_free = Cardinality(FreeSet(s.free, s.property))

ListInv(s) == ListLike(s, {}, {})

HeldSet(hs) == {x \in Pages : \E r \in hs : r.page <= x /\ x < r.page + r.n}

HeldInv(hs) ==
    /\ hs \subseteq [page : Pages, n : PageSizes]
    /\ \A r \in hs : r.page + r.n <= NPages - 1
    /\ \A q, r \in hs : q = r \/ q.page + q.n <= r.page \/ r.page + r.n <= q.page

HeapInv ==
    /\ slob = slob_init /\ slub = slub_init /\ objs = {}
    /\ ListInv(pmm)
    /\ HeldInv(held)
    /\ FreeSet(pmm.free, pmm.property) \cap HeldSet(held) = {}
    /\ FreeSet(pmm.free, pmm.property) \cup HeldSet(held) = Pages

-----------------------------------------------------------------------------
(* Pages are numbers below the one of free_list, and none is NULL.          *)
LEMMA PageNumbers ==
    /\ FirstFree \in Nat \ {0} /\ NPages \in Nat \ {0} /\ FirstFree < NPages
    /\ HEAD = NPages /\ HEAD \notin Pages /\ HEAD \in Entry /\ Pages \subseteq Entry
    /\ \A p \in Pages : p \in Nat /\ p < HEAD /\ p # null /\ p # HEAD
    /\ \A x \in Int : x \in Pages <=> FirstFree <= x /\ x < NPages
    /\ \A e \in Entry : e \in Nat /\ e <= HEAD
BY PmmAssumption DEF Pages, HEAD, Entry, null

(* The four assignments of list_add, field by field.                        *)
LEMMA LinkedFields ==
    ASSUME NEW s \in MemStates, NEW e \in Pages, NEW b \in Entry, NEW a \in Entry,
           NEW t, t = LinkedIn(s, e, b, a), b # e, a # e
    PROVE  /\ t \in MemStates
           /\ t.free = s.free /\ t.nr_free = s.nr_free /\ (t.failed <=> s.failed)
           /\ t.property = s.property
           /\ t.next[b] = e /\ t.next[e] = a /\ t.prev[a] = e /\ t.prev[e] = b
           /\ \A x \in Entry : x # b /\ x # e => t.next[x] = s.next[x]
           /\ \A x \in Entry : x # a /\ x # e => t.prev[x] = s.prev[x]
<1>1. e \in Entry
  BY PageNumbers
<1>2. t = [[[[s EXCEPT !.next = [s.next EXCEPT ![b] = e]]
                 EXCEPT !.prev = [s.prev EXCEPT ![a] = e]]
                 EXCEPT !.next = [[s.next EXCEPT ![b] = e] EXCEPT ![e] = a]]
                 EXCEPT !.prev = [[s.prev EXCEPT ![a] = e] EXCEPT ![e] = b]]
  BY DEF LinkedIn, MemStates
<1>3. /\ t.next = [[s.next EXCEPT ![b] = e] EXCEPT ![e] = a]
      /\ t.prev = [[s.prev EXCEPT ![a] = e] EXCEPT ![e] = b]
      /\ t.free = s.free /\ t.nr_free = s.nr_free /\ (t.failed <=> s.failed)
      /\ t.property = s.property
  BY <1>2 DEF MemStates
<1>4. s.next \in [Entry -> Entry] /\ s.prev \in [Entry -> Entry]
  BY DEF MemStates
<1>5. t.next \in [Entry -> Entry] /\ t.prev \in [Entry -> Entry]
  BY <1>1, <1>3, <1>4
<1>6. t \in MemStates
  BY <1>2, <1>3, <1>5 DEF MemStates
<1> QED BY <1>1, <1>3, <1>4, <1>6

(* list_del, field by field; what it leaves in e is not used.               *)
TakenOut(s, e, t) ==
    /\ t \in MemStates
    /\ t.free = s.free /\ t.nr_free = s.nr_free /\ (t.failed <=> s.failed)
    /\ \A x \in Pages : x # e => t.property[x] = s.property[x]
    /\ t.next[s.prev[e]] = s.next[e] /\ t.prev[s.next[e]] = s.prev[e]
    /\ \A x \in Entry : x # s.prev[e] /\ x # e => t.next[x] = s.next[x]
    /\ \A x \in Entry : x # s.next[e] /\ x # e => t.prev[x] = s.prev[x]

LEMMA DelFields ==
    ASSUME NEW s \in MemStates, NEW e \in Pages, NEW t, t = list_del(s, e),
           s.prev[e] # e, s.next[e] # e
    PROVE  TakenOut(s, e, t)
<1> DEFINE b == s.prev[e]
           a == s.next[e]
           cut == [s EXCEPT !.next[b] = a, !.prev[a] = b]
           left == [cut EXCEPT !.next[e] = HEAD, !.prev[e] = HEAD, !.property[e] = 0]
<1>1. e \in Entry /\ HEAD \in Entry
  BY PageNumbers
<1>2. s.next \in [Entry -> Entry] /\ s.prev \in [Entry -> Entry] /\ s.property \in [Pages -> Nat]
  BY DEF MemStates
<1>3. a \in Entry /\ b \in Entry
  BY <1>1, <1>2
<1>4. cut = [[s EXCEPT !.next = [s.next EXCEPT ![b] = a]]
                 EXCEPT !.prev = [s.prev EXCEPT ![a] = b]]
  BY <1>1, <1>2, <1>3 DEF MemStates
<1>5. t = cut \/ t = left
  BY DEF list_del
<1> HIDE DEF a, b, cut
<1>6. /\ cut.next = [s.next EXCEPT ![b] = a] /\ cut.prev = [s.prev EXCEPT ![a] = b]
      /\ cut.free = s.free /\ cut.nr_free = s.nr_free /\ (cut.failed <=> s.failed)
      /\ cut.property = s.property
      /\ cut \in MemStates
  BY <1>2, <1>3, <1>4 DEF MemStates
<1>7. left = [[[cut EXCEPT !.next = [cut.next EXCEPT ![e] = HEAD]]
                   EXCEPT !.prev = [cut.prev EXCEPT ![e] = HEAD]]
                   EXCEPT !.property = [cut.property EXCEPT ![e] = 0]]
  BY <1>6 DEF MemStates
<1> HIDE DEF left
<1>8. /\ left.next = [cut.next EXCEPT ![e] = HEAD] /\ left.prev = [cut.prev EXCEPT ![e] = HEAD]
      /\ left.free = s.free /\ left.nr_free = s.nr_free /\ (left.failed <=> s.failed)
      /\ left.property = [s.property EXCEPT ![e] = 0]
      /\ left \in MemStates
  BY <1>1, <1>6, <1>7 DEF MemStates
<1>9. /\ t \in MemStates
      /\ t.free = s.free /\ t.nr_free = s.nr_free /\ (t.failed <=> s.failed)
  BY <1>5, <1>6, <1>8
<1>10. /\ \A x \in Pages : x # e => t.property[x] = s.property[x]
       /\ \A x \in Entry : x # e => t.next[x] = [s.next EXCEPT ![b] = a][x]
       /\ \A x \in Entry : x # e => t.prev[x] = [s.prev EXCEPT ![a] = b][x]
  BY <1>2, <1>3, <1>5, <1>6, <1>8
<1> QED BY <1>2, <1>3, <1>9, <1>10 DEF a, b, TakenOut

(* list_add puts e into the list, between two neighbours that are in the    *)
(* order of addresses with it.                                              *)
LEMMA LinkIn ==
    ASSUME NEW s \in MemStates, NEW F \in SUBSET Pages, Ring(s, F),
           NEW e \in Pages, e \notin F, NEW b \in F \cup {HEAD}, NEW a, a = s.next[b],
           b = HEAD \/ b < e, e < a,
           NEW t, t = LinkedIn(s, e, b, a)
    PROVE  Ring(t, F \cup {e}) /\ t.prev[e] = b /\ t.next[e] = a
<1>1. a \in F \cup {HEAD} /\ s.prev[a] = b
  BY DEF Ring
<1>2. e # HEAD /\ a # e /\ b # e
  BY <1>1, PageNumbers
<1>3. a \in Entry /\ b \in Entry /\ F \subseteq Entry
  BY <1>1, PageNumbers
<1>4. /\ t.next[b] = e /\ t.next[e] = a /\ t.prev[a] = e /\ t.prev[e] = b
      /\ \A x \in Entry : x # b /\ x # e => t.next[x] = s.next[x]
      /\ \A x \in Entry : x # a /\ x # e => t.prev[x] = s.prev[x]
  BY <1>2, <1>3, LinkedFields
<1>5. \A x \in F \cup {HEAD} : x \in Entry /\ x # e
  BY <1>2, <1>3, PageNumbers
<1>6. ASSUME NEW x \in F \cup {HEAD} \cup {e}
      PROVE  /\ t.next[x] \in F \cup {e} \cup {HEAD} /\ t.prev[t.next[x]] = x
             /\ t.prev[x] \in F \cup {e} \cup {HEAD} /\ t.next[t.prev[x]] = x
  <2>1. CASE x = e
    BY <2>1, <1>1, <1>4
  <2>2. CASE x # e
    <3>1. /\ x \in F \cup {HEAD} /\ s.next[x] \in F \cup {HEAD} /\ s.prev[s.next[x]] = x
          /\ s.prev[x] \in F \cup {HEAD} /\ s.next[s.prev[x]] = x
      BY <2>2 DEF Ring
    <3>2. t.next[x] \in F \cup {e} \cup {HEAD} /\ t.prev[t.next[x]] = x
      <4>1. CASE x = b
        BY <4>1, <1>4
      <4>2. CASE x # b
        <5>1. t.next[x] = s.next[x]
          BY <4>2, <3>1, <1>4, <1>5
        <5>2. s.next[x] # a
          BY <4>2, <3>1, <1>1
        <5> QED BY <5>1, <5>2, <3>1, <1>4, <1>5
      <4> QED BY <4>1, <4>2
    <3>3. t.prev[x] \in F \cup {e} \cup {HEAD} /\ t.next[t.prev[x]] = x
      <4>1. CASE x = a
        BY <4>1, <1>4
      <4>2. CASE x # a
        <5>1. t.prev[x] = s.prev[x]
          BY <4>2, <3>1, <1>4, <1>5
        <5>2. s.prev[x] # b
          BY <4>2, <3>1
        <5> QED BY <5>1, <5>2, <3>1, <1>4, <1>5
      <4> QED BY <4>1, <4>2
    <3> QED BY <3>2, <3>3
  <2> QED BY <2>1, <2>2
<1>7. ASSUME NEW x \in F \cup {e}
      PROVE  x < t.next[x]
  BY <1>3, <1>4, <1>5, PageNumbers DEF Ring
<1>8. ASSUME NEW x \in F \cup {e} \cup {HEAD}, NEW y \in F \cup {e}, x = HEAD \/ x < y
      PROVE  t.next[x] <= y
  <2>1. /\ \A z \in F \cup {HEAD}, u \in F : z = HEAD \/ z < u => s.next[z] <= u
        /\ \A u \in F : b = HEAD \/ b < u => a <= u
    BY DEF Ring
  <2>2. e \in Nat /\ a \in Nat /\ b \in Nat /\ x \in Nat /\ y \in Nat /\ y < HEAD /\ e < HEAD
    BY <1>1, PageNumbers
  <2>3. CASE x = e
    <3>1. y \in F /\ (b = HEAD \/ b < y)
      BY <2>2, <2>3, <1>8, <1>2
    <3> QED BY <3>1, <2>1, <2>2, <2>3, <1>4, <1>8, <1>2
  <2>4. CASE x = b
    <3>1. t.next[x] = e
      BY <2>4, <1>4
    <3>2. CASE y = e
      BY <3>1, <3>2, <2>2
    <3>3. CASE y \in F
      <4>1. a <= y
        BY <3>3, <2>1, <2>4, <1>8
      <4> QED BY <3>1, <4>1, <2>2
    <3> QED BY <3>2, <3>3
  <2>5. CASE x # e /\ x # b
    <3>1. x \in F \cup {HEAD} /\ t.next[x] = s.next[x] /\ s.next[x] \in F \cup {HEAD}
      BY <2>5, <1>4, <1>5 DEF Ring
    <3>2. CASE y \in F
      BY <3>1, <3>2, <2>1, <1>8
    <3>3. CASE y = e
      <4>1. CASE x = HEAD
        <5>1. b \in F /\ b < e
          BY <2>5, <4>1
        <5>2. s.next[x] <= b
          BY <5>1, <4>1, <3>1, <2>1
        <5>3. s.next[x] \in Nat
          BY <3>1, PageNumbers
        <5> QED BY <5>1, <5>2, <5>3, <3>1, <3>3, <2>2
      <4>2. CASE x \in F
        <5>1. x < e
          BY <4>2, <3>3, <1>8, PageNumbers
        <5>2. s.next[x] \in Nat
          BY <3>1, PageNumbers
        <5>3. CASE b \in F /\ x < b
          <6>1. s.next[x] <= b /\ b < e
            BY <5>3, <4>2, <2>1, PageNumbers
          <6> QED BY <6>1, <5>2, <3>1, <3>3, <2>2
        <5>4. CASE ~(b \in F /\ x < b)
          <6>1. b = HEAD \/ b < x
            BY <5>4, <2>2, <2>5
          <6>2. a <= x
            BY <6>1, <4>2, <2>1
          <6> QED BY <6>2, <5>1, <2>2
        <5> QED BY <5>3, <5>4
      <4> QED BY <4>1, <4>2, <3>1
    <3> QED BY <3>2, <3>3
  <2> QED BY <2>3, <2>4, <2>5
<1> QED BY <1>4, <1>6, <1>7, <1>8 DEF Ring

(* list_del takes e out of the list and joins its neighbours.               *)
LEMMA LinkOut ==
    ASSUME NEW s \in MemStates, NEW F \in SUBSET Pages, Ring(s, F),
           NEW e \in F, NEW t, t = list_del(s, e)
    PROVE  /\ Ring(t, F \ {e})
           /\ s.prev[e] \in (F \ {e}) \cup {HEAD} /\ t.next[s.prev[e]] = s.next[e]
<1> DEFINE b == s.prev[e]
           a == s.next[e]
<1>1. /\ a \in F \cup {HEAD} /\ s.prev[a] = e
      /\ b \in F \cup {HEAD} /\ s.next[b] = e
      /\ e < a
  BY DEF Ring
<1>2. e \in Pages /\ e \in Nat /\ a \in Entry /\ b \in Entry /\ a \in Nat /\ b \in Nat /\ e # HEAD
  BY <1>1, PageNumbers
<1>3. a # e /\ b # e
  BY <1>1, <1>2
<1>4. /\ t.next[b] = a /\ t.prev[a] = b
      /\ \A x \in Entry : x # b /\ x # e => t.next[x] = s.next[x]
      /\ \A x \in Entry : x # a /\ x # e => t.prev[x] = s.prev[x]
  <2>1. TakenOut(s, e, t)
    BY <1>2, <1>3, DelFields
  <2> QED BY <2>1 DEF TakenOut
<1> HIDE DEF a, b
<1>5. F \subseteq Entry /\ HEAD \in Entry
  BY PageNumbers
<1>6. ASSUME NEW x \in (F \ {e}) \cup {HEAD}
      PROVE  /\ t.next[x] \in (F \ {e}) \cup {HEAD} /\ t.prev[t.next[x]] = x
             /\ t.prev[x] \in (F \ {e}) \cup {HEAD} /\ t.next[t.prev[x]] = x
  <2>1. /\ x \in F \cup {HEAD} /\ s.next[x] \in F \cup {HEAD} /\ s.prev[s.next[x]] = x
        /\ s.prev[x] \in F \cup {HEAD} /\ s.next[s.prev[x]] = x
        /\ x \in Entry /\ x # e
    BY <1>2, <1>5 DEF Ring
  <2>2. t.next[x] \in (F \ {e}) \cup {HEAD} /\ t.prev[t.next[x]] = x
    <3>1. CASE x = b
      BY <3>1, <1>1, <1>2, <1>3, <1>4
    <3>2. CASE x # b
      <4>1. t.next[x] = s.next[x]
        BY <3>2, <2>1, <1>4
      <4>2. s.next[x] # e /\ s.next[x] # a
        BY <3>2, <2>1, <1>1 DEF b
      <4> QED BY <4>1, <4>2, <2>1, <1>4, <1>5
    <3> QED BY <3>1, <3>2
  <2>3. t.prev[x] \in (F \ {e}) \cup {HEAD} /\ t.next[t.prev[x]] = x
    <3>1. CASE x = a
      BY <3>1, <1>1, <1>2, <1>3, <1>4
    <3>2. CASE x # a
      <4>1. t.prev[x] = s.prev[x]
        BY <3>2, <2>1, <1>4
      <4>2. s.prev[x] # e /\ s.prev[x] # b
        BY <3>2, <2>1, <1>1 DEF a
      <4> QED BY <4>1, <4>2, <2>1, <1>4, <1>5
    <3> QED BY <3>1, <3>2
  <2> QED BY <2>2, <2>3
<1>7. ASSUME NEW x \in F \ {e}
      PROVE  x < t.next[x]
  <2>1. x < s.next[x] /\ x \in Nat
    BY PageNumbers DEF Ring
  <2>2. CASE x = b
    BY <2>1, <2>2, <1>1, <1>2, <1>4
  <2>3. CASE x # b
    BY <2>1, <2>3, <1>4, <1>5
  <2> QED BY <2>2, <2>3
<1>8. ASSUME NEW x \in (F \ {e}) \cup {HEAD}, NEW y \in F \ {e}, x = HEAD \/ x < y
      PROVE  t.next[x] <= y
  <2>1. /\ \A z \in F \cup {HEAD}, u \in F : z = HEAD \/ z < u => s.next[z] <= u
        /\ y \in Nat
    BY PageNumbers DEF Ring
  <2>2. CASE x = b
    <3>1. e <= y
      BY <2>1, <2>2, <1>1, <1>8
    <3>2. e < y
      BY <3>1, <2>1, <1>2
    <3> QED BY <3>2, <2>1, <2>2, <1>4 DEF a
  <2>3. CASE x # b
    <3>1. t.next[x] = s.next[x]
      BY <2>3, <1>2, <1>4, <1>5
    <3>2. s.next[x] <= y
      BY <2>1, <1>8
    <3> QED BY <3>1, <3>2
  <2> QED BY <2>2, <2>3
<1>9. b \in (F \ {e}) \cup {HEAD}
  BY <1>1, <1>3
<1> QED BY <1>4, <1>6, <1>7, <1>8, <1>9 DEF Ring, a, b

-----------------------------------------------------------------------------
(* The free list as the loops over it meet it.                              *)

(* The definition of the entries has a value: they are the links followed   *)
(* from HEAD, and HEAD for ever once it is met again.                       *)
LEMMA EntriesFollow ==
    ASSUME NEW s \in MemStates
    PROVE  /\ Entries(s)[1] = s.next[HEAD]
           /\ \A i \in 1..NPages : Entries(s)[i] \in Entry
           /\ \A i \in 1..NPages - 1 :
                 Entries(s)[i + 1] = IF Entries(s)[i] = HEAD THEN HEAD ELSE s.next[Entries(s)[i]]
<1> DEFINE Step(f, i) ==
               LET before == IF i = 1 THEN HEAD ELSE f[i - 1]
               IN  IF i > 1 /\ before = HEAD THEN HEAD ELSE s.next[before]
           Good(n, f) == f \in [1..n -> Entry] /\ \A i \in 1..n : f[i] = Step(f, i)
           S == {n \in Nat : \E f : Good(n, f)}
<1>1. s.next \in [Entry -> Entry] /\ HEAD \in Entry /\ NPages \in Nat \ {0}
  BY PageNumbers DEF MemStates
<1>2. 0 \in S
  <2>1. Good(0, [i \in 1..0 |-> HEAD])
    OBVIOUS
  <2> QED BY <2>1
<1>3. ASSUME NEW n \in S PROVE n + 1 \in S
  <2>1. PICK f : Good(n, f)
    OBVIOUS
  <2> DEFINE g == [i \in 1..n + 1 |-> IF i = n + 1 THEN Step(f, n + 1) ELSE f[i]]
  <2>2. Step(f, n + 1) \in Entry
    <3>1. n + 1 # 1 => (n + 1) - 1 \in 1..n
      OBVIOUS
    <3> QED BY <3>1, <2>1, <1>1
  <2>3. g \in [1..n + 1 -> Entry]
    <3> HIDE DEF Step
    <3> QED BY <2>1, <2>2
  <2>4. ASSUME NEW i \in 1..n + 1 PROVE g[i] = Step(g, i)
    <3>1. i # 1 => i - 1 \in 1..n /\ i - 1 \in 1..n + 1 /\ i - 1 # n + 1
      OBVIOUS
    <3>2. i # 1 => g[i - 1] = f[i - 1]
      BY <3>1
    <3>3. Step(g, i) = Step(f, i)
      <4> HIDE DEF g
      <4> QED BY <3>2
    <3>4. g[i] = Step(f, i)
      <4>1. CASE i = n + 1
        BY <4>1
      <4>2. CASE i # n + 1
        <5>1. i \in 1..n /\ g[i] = f[i]
          BY <4>2
        <5> QED BY <5>1, <2>1
      <4> QED BY <4>1, <4>2
    <3> QED BY <3>3, <3>4
  <2>5. Good(n + 1, g)
    BY <2>3, <2>4
  <2>6. n + 1 \in Nat
    OBVIOUS
  <2> HIDE DEF Good
  <2> QED BY <2>5, <2>6
<1>4. NPages \in S
  <2>1. S = Nat
    <3> HIDE DEF S
    <3>1. S \subseteq Nat
      BY DEF S
    <3> QED BY <1>2, <1>3, <3>1, SetInduction
  <2> QED BY <2>1, <1>1
<1>5. PICK f : Good(NPages, f)
  BY <1>4
<1>6. f = [i \in 1..NPages |-> Step(f, i)]
  BY <1>5
<1>7. Entries(s) = [i \in 1..NPages |-> Step(Entries(s), i)]
  <2> DEFINE Rec(g) == g = [i \in 1..NPages |-> Step(g, i)]
  <2>1. Entries(s) = CHOOSE g : Rec(g)
    BY DEF Entries
  <2>2. Rec(f)
    BY <1>6
  <2> HIDE DEF Rec
  <2>3. Rec(Entries(s))
    BY <2>1, <2>2
  <2> QED BY <2>3 DEF Rec
<1> DEFINE g == Entries(s)
<1> HIDE DEF g
<1>8. /\ \A i \in 1..NPages : g[i] = Step(g, i)
  BY <1>7 DEF g
<1>9. g[1] = s.next[HEAD]
  BY <1>1, <1>8
<1>10. \A i \in 1..NPages - 1 : g[i + 1] = IF g[i] = HEAD THEN HEAD ELSE s.next[g[i]]
  <2> SUFFICES ASSUME NEW i \in 1..NPages - 1
               PROVE  g[i + 1] = IF g[i] = HEAD THEN HEAD ELSE s.next[g[i]]
    OBVIOUS
  <2>1. i + 1 \in 1..NPages /\ i + 1 # 1 /\ (i + 1) - 1 = i /\ i + 1 > 1
    BY <1>1
  <2>2. g[i + 1] = Step(g, i + 1)
    BY <1>8, <2>1
  <2> QED BY <2>1, <2>2
<1>11. \A i \in 1..NPages : g[i] \in Entry
  <2> DEFINE T == {n \in Nat : n + 1 \in 1..NPages => g[n + 1] \in Entry}
  <2>1. 0 \in T
    BY <1>1, <1>9
  <2>2. ASSUME NEW n \in T PROVE n + 1 \in T
    <3> SUFFICES ASSUME (n + 1) + 1 \in 1..NPages PROVE g[(n + 1) + 1] \in Entry
      OBVIOUS
    <3>1. n + 1 \in 1..NPages - 1 /\ n + 1 \in 1..NPages
      BY <1>1
    <3>2. g[n + 1] \in Entry
      BY <3>1
    <3> QED BY <3>1, <3>2, <1>1, <1>10
  <2>3. T = Nat
    <3> HIDE DEF T
    <3>1. T \subseteq Nat
      BY DEF T
    <3> QED BY <2>1, <2>2, <3>1, SetInduction
  <2> SUFFICES ASSUME NEW i \in 1..NPages PROVE g[i] \in Entry
    OBVIOUS
  <2>4. i - 1 \in Nat /\ (i - 1) + 1 = i
    BY <1>1
  <2>5. i - 1 \in T
    BY <2>3, <2>4
  <2> QED BY <2>4, <2>5
<1> QED BY <1>9, <1>10, <1>11 DEF g

(* Min of a set of numbers is its least element.                            *)
LEMMA MinIs ==
    ASSUME NEW S, S \subseteq Nat, NEW k \in S, \A j \in S : k <= j
    PROVE  Min(S) = k
<1>1. \A x \in S : (\A y \in S : x <= y) => x = k
  OBVIOUS
<1> QED BY <1>1 DEF Min

(* Position i of the list, and HEAD at either end.                          *)
Stop(list, i) == IF i \in DOMAIN list THEN list[i] ELSE HEAD

(* A list of the pages of F that the links lead through.                    *)
Follows(s, F, list) ==
    /\ list \in Seq(F) /\ ToSet(list) = F
    /\ \A i, j \in 1..Len(list) : i < j => list[i] < list[j]
    /\ \A i \in 0..Len(list) : s.next[Stop(list, i)] = Stop(list, i + 1)

(* The free list holds the pages that are linked, in the order of their     *)
(* addresses.                                                               *)
LEMMA FreeListFollows ==
    ASSUME NEW s \in MemStates, NEW F \in SUBSET Pages, Ring(s, F)
    PROVE  Follows(s, F, FreeList(s))
<1> DEFINE E == Entries(s)
           ends == {i \in 1..NPages : E[i] = HEAD}
<1> HIDE DEF E
<1>1. /\ E[1] = s.next[HEAD]
      /\ \A i \in 1..NPages : E[i] \in Entry
      /\ \A i \in 1..NPages - 1 : E[i + 1] = IF E[i] = HEAD THEN HEAD ELSE s.next[E[i]]
  BY EntriesFollow DEF E
<1>2. /\ \A e \in F \cup {HEAD} : s.next[e] \in F \cup {HEAD} /\ e \in Nat
      /\ \A e \in F : e < s.next[e] /\ e < HEAD /\ e >= 1
      /\ \A e \in F \cup {HEAD}, x \in F : e = HEAD \/ e < x => s.next[e] <= x
      /\ HEAD = NPages /\ NPages \in Nat \ {0}
  BY PageNumbers DEF Ring
<1>3. \A i \in 1..NPages : E[i] \in F \cup {HEAD} /\ (E[i] = HEAD \/ E[i] >= i)
  <2> DEFINE Good(i) == E[i] \in F \cup {HEAD} /\ (E[i] = HEAD \/ E[i] >= i)
             T == {n \in Nat : n + 1 <= NPages => Good(n + 1)}
  <2>1. Good(1)
    BY <1>1, <1>2
  <2>2. 0 \in T
    BY <2>1
  <2>3. ASSUME NEW n \in Nat, n \in T PROVE n + 1 \in T
    <3> SUFFICES ASSUME (n + 1) + 1 <= NPages PROVE Good((n + 1) + 1)
      OBVIOUS
    <3>1. PICK i \in 1..NPages - 1 : i = n + 1
      BY <1>2
    <3>2. Good(i)
      <4>1. n + 1 <= NPages
        BY <1>2
      <4>2. Good(n + 1)
        BY <4>1, <2>3
      <4> QED BY <3>1, <4>2
    <3>3. Good(i + 1)
      <4>1. CASE E[i] = HEAD
        BY <4>1, <1>1
      <4>2. CASE E[i] # HEAD
        <5>1. E[i] \in F /\ E[i] >= i /\ E[i + 1] = s.next[E[i]]
          BY <4>2, <3>2, <1>1
        <5>2. E[i] < s.next[E[i]] /\ s.next[E[i]] \in F \cup {HEAD} /\ s.next[E[i]] \in Nat /\ E[i] \in Nat
          BY <5>1, <1>2
        <5> QED BY <5>1, <5>2
      <4> QED BY <4>1, <4>2
    <3> QED BY <3>1, <3>3
  <2>4. Nat \subseteq T
    <3> HIDE DEF T
    <3> QED BY <2>2, <2>3, SetInduction
  <2> SUFFICES ASSUME NEW i \in 1..NPages PROVE Good(i)
    OBVIOUS
  <2>5. i - 1 \in Nat /\ (i - 1) + 1 = i
    OBVIOUS
  <2>6. i - 1 \in T
    BY <2>4, <2>5
  <2> HIDE DEF Good
  <2> QED BY <2>5, <2>6
<1>4. NPages \in ends
  <2>1. NPages \in 1..NPages
    BY <1>2
  <2>2. E[NPages] \in F \cup {HEAD} /\ (E[NPages] = HEAD \/ E[NPages] >= NPages)
    BY <2>1, <1>3
  <2>3. E[NPages] \notin F
    BY <2>2, <1>2
  <2>4. E[NPages] = HEAD
    BY <2>2, <2>3
  <2> QED BY <2>1, <2>4
<1>5. PICK k \in ends : \A j \in ends : k <= j
  <2>1. ends \subseteq Nat
    OBVIOUS
  <2> HIDE DEF ends
  <2> QED BY <1>4, <2>1, LeastNat
<1>6. Min(ends) = k
  <2>1. ends \subseteq Nat
    OBVIOUS
  <2> HIDE DEF ends
  <2> QED BY <1>5, <2>1, MinIs
<1> DEFINE list == FreeList(s)
<1>7. list = [i \in 1..k - 1 |-> E[i]]
  <2>1. ends # {}
    BY <1>4
  <2>2. list = [i \in 1..(IF ends = {} THEN NPages ELSE Min(ends) - 1) |-> E[i]]
    BY DEF FreeList, E
  <2> QED BY <1>6, <2>1, <2>2
<1> HIDE DEF list
<1>8. k \in 1..NPages /\ E[k] = HEAD /\ \A i \in 1..NPages : i < k => E[i] # HEAD
  BY <1>5
<1> HIDE DEF ends
<1>9. \A i \in 1..k - 1 : E[i] \in F /\ E[i + 1] = s.next[E[i]] /\ E[i] < E[i + 1]
  <2> SUFFICES ASSUME NEW i \in 1..k - 1
               PROVE  E[i] \in F /\ E[i + 1] = s.next[E[i]] /\ E[i] < E[i + 1]
    OBVIOUS
  <2>1. i \in 1..NPages - 1 /\ i \in 1..NPages /\ i < k
    BY <1>2, <1>8
  <2>2. E[i] \in F
    BY <2>1, <1>3, <1>8
  <2>3. E[i + 1] = s.next[E[i]]
    BY <2>1, <1>1, <1>8
  <2> QED BY <2>2, <2>3, <1>2
<1>10. /\ list \in Seq(F) /\ Len(list) = k - 1 /\ DOMAIN list = 1..k - 1
       /\ \A i \in 1..k - 1 : list[i] = E[i]
  BY <1>7, <1>8, <1>9
<1>11. ASSUME NEW i \in 1..k - 1, NEW j \in 1..k - 1, i < j
       PROVE  E[i] < E[j]
  <2> DEFINE T == {d \in Nat : i + 1 + d <= k - 1 => E[i] < E[i + 1 + d]}
  <2>1. 0 \in T
    BY <1>9
  <2>2. ASSUME NEW d \in Nat, d \in T PROVE d + 1 \in T
    <3> SUFFICES ASSUME i + 1 + (d + 1) <= k - 1 PROVE E[i] < E[i + 1 + (d + 1)]
      OBVIOUS
    <3>1. PICK u \in 1..k - 1 : u = i + 1 + d
      BY <1>8
    <3>2. E[i] < E[u]
      BY <3>1, <2>2
    <3>3. u + 1 \in 1..k - 1 /\ i + 1 + (d + 1) = u + 1
      BY <3>1, <1>8
    <3>4. E[u] < E[u + 1] /\ E[i] \in Nat /\ E[u] \in Nat /\ E[u + 1] \in Nat
      BY <3>3, <1>2, <1>9
    <3> QED BY <3>2, <3>3, <3>4
  <2>3. Nat \subseteq T
    <3> HIDE DEF T
    <3> QED BY <2>1, <2>2, SetInduction
  <2>4. j - (i + 1) \in Nat /\ i + 1 + (j - (i + 1)) = j
    BY <1>11, <1>8
  <2>5. j - (i + 1) \in T
    BY <2>3, <2>4
  <2> QED BY <2>4, <2>5, <1>8
<1>12. \A i, j \in 1..Len(list) : i < j => list[i] < list[j]
  BY <1>10, <1>11
<1>13. \A i \in 0..Len(list) : s.next[Stop(list, i)] = Stop(list, i + 1)
  <2> SUFFICES ASSUME NEW i \in 0..k - 1 PROVE s.next[Stop(list, i)] = Stop(list, i + 1)
    BY <1>10
  <2>1. Stop(list, i + 1) = E[i + 1]
    <3>1. CASE i + 1 \in 1..k - 1
      BY <3>1, <1>10 DEF Stop
    <3>2. CASE i + 1 \notin 1..k - 1
      <4>1. i + 1 = k
        BY <3>2, <1>8
      <4> QED BY <3>2, <4>1, <1>8, <1>10 DEF Stop
    <3> QED BY <3>1, <3>2
  <2>2. CASE i = 0
    <3>1. Stop(list, i) = HEAD
      BY <2>2, <1>10 DEF Stop
    <3> QED BY <2>1, <2>2, <3>1, <1>1
  <2>3. CASE i # 0
    <3>1. i \in 1..k - 1
      BY <2>3, <1>8
    <3>2. Stop(list, i) = E[i]
      BY <3>1, <1>10 DEF Stop
    <3> QED BY <2>1, <3>1, <3>2, <1>9
  <2> QED BY <2>2, <2>3
<1>14. ASSUME NEW x \in F, \A i \in 1..k - 1 : E[i] # x
       PROVE  FALSE
  <2> DEFINE T == {n \in Nat : n + 1 <= k - 1 => E[n + 1] < x}
  <2>1. 0 \in T
    <3> SUFFICES ASSUME 1 <= k - 1 PROVE E[1] < x
      OBVIOUS
    <3>1. 1 \in 1..k - 1
      BY <1>8
    <3>2. E[1] <= x /\ E[1] \in Nat /\ x \in Nat
      BY <3>1, <1>1, <1>2, <1>9
    <3> QED BY <3>1, <3>2, <1>14
  <2>2. ASSUME NEW n \in Nat, n \in T PROVE n + 1 \in T
    <3> SUFFICES ASSUME (n + 1) + 1 <= k - 1 PROVE E[(n + 1) + 1] < x
      OBVIOUS
    <3>1. PICK u \in 1..k - 1 : u = n + 1
      BY <1>8
    <3>2. E[u] < x
      BY <3>1, <2>2
    <3>3. u + 1 \in 1..k - 1
      BY <3>1, <1>8
    <3>4. E[u + 1] <= x /\ E[u + 1] \in Nat /\ x \in Nat
      BY <3>2, <3>3, <1>2, <1>9
    <3> QED BY <3>1, <3>3, <3>4, <1>14
  <2>3. Nat \subseteq T
    <3> HIDE DEF T
    <3> QED BY <2>1, <2>2, SetInduction
  <2>4. CASE k = 1
    <3>1. HEAD <= x
      BY <2>4, <1>1, <1>2, <1>8
    <3> QED BY <3>1, <1>2
  <2>5. CASE k # 1
    <3>1. k - 1 \in 1..k - 1 /\ (k - 1) + 1 = k
      BY <2>5, <1>8
    <3>2. PICK n \in Nat : n + 1 = k - 1
      <4>1. k - 2 \in Nat /\ (k - 2) + 1 = k - 1
        BY <2>5, <1>8
      <4> QED BY <4>1
    <3>3. E[k - 1] < x
      <4>1. n \in T
        BY <2>3
      <4> QED BY <4>1, <3>2, <1>8
    <3>4. s.next[E[k - 1]] <= x
      BY <3>1, <3>3, <1>2, <1>9
    <3>5. s.next[E[k - 1]] = HEAD
      BY <3>1, <1>8, <1>9
    <3> QED BY <3>4, <3>5, <1>2
  <2> QED BY <2>4, <2>5
<1>15. ToSet(list) = F
  <2>1. ToSet(list) = {E[i] : i \in 1..k - 1}
    BY <1>10 DEF ToSet
  <2>2. \A i \in 1..k - 1 : E[i] \in F
    BY <1>9
  <2>3. \A x \in F : \E i \in 1..k - 1 : E[i] = x
    BY <1>14
  <2> QED BY <2>1, <2>2, <2>3
<1> QED BY <1>10, <1>12, <1>13, <1>15 DEF Follows, list

(* First fit and best fit answer with a free block that is large enough.    *)
LEMMA PickFits ==
    ASSUME NEW manager, NEW s \in MemStates, NEW F \in SUBSET Pages, NEW list,
           Follows(s, F, list), NEW n,
           NEW page, page = Search(manager, s, list, n), page # null
    PROVE  page \in F /\ s.property[page] >= n
<1> DEFINE fits == {i \in DOMAIN list : s.property[list[i]] >= n}
           small == {i \in fits : \A j \in fits : s.property[list[i]] <= s.property[list[j]]}
<1>1. /\ DOMAIN list = 1..Len(list) /\ Len(list) \in Nat
      /\ \A i \in DOMAIN list : list[i] \in F
  BY DEF Follows
<1>2. \A p \in F : s.property[p] \in Nat
  BY DEF MemStates
<1>3. page = IF fits = {} THEN null ELSE list[Min(IF manager = "best_fit" THEN small ELSE fits)]
  BY DEF Search, Pick
<1>4. fits # {} /\ fits \subseteq Nat
  <2>1. fits \subseteq Nat
    BY <1>1
  <2> QED BY <1>3, <2>1
<1>5. small # {} /\ small \subseteq fits
  <2> DEFINE sizes == {s.property[list[i]] : i \in fits}
  <2>1. sizes \subseteq Nat /\ sizes # {}
    BY <1>1, <1>2, <1>4
  <2>2. PICK v \in sizes : \A w \in sizes : v <= w
    <3> HIDE DEF sizes
    <3> QED BY <2>1, LeastNat
  <2>3. PICK i \in fits : v = s.property[list[i]]
    BY <2>2
  <2>4. \A j \in fits : s.property[list[i]] <= s.property[list[j]]
    BY <2>2, <2>3
  <2> QED BY <2>3, <2>4
<1> HIDE DEF small
<1>6. ASSUME NEW S, S \subseteq fits, S # {} PROVE Min(S) \in fits
  <2>1. S \subseteq Nat
    BY <1>4, <1>6
  <2>2. PICK k \in S : \A j \in S : k <= j
    BY <1>6, <2>1, LeastNat
  <2>3. Min(S) = k
    BY <2>1, <2>2, MinIs
  <2> QED BY <1>6, <2>2, <2>3
<1>7. Min(IF manager = "best_fit" THEN small ELSE fits) \in fits
  <2>1. CASE manager = "best_fit"
    <3>1. Min(small) \in fits
      BY <1>5, <1>6
    <3> QED BY <2>1, <3>1
  <2>2. CASE manager # "best_fit"
    <3>1. Min(fits) \in fits
      BY <1>4, <1>6
    <3> QED BY <2>2, <3>1
  <2> QED BY <2>1, <2>2
<1> QED BY <1>1, <1>3, <1>4, <1>7

(* The block chosen is free and large enough.                               *)
LEMMA ChosenFits ==
    ASSUME NEW manager, NEW s \in MemStates, Ring(s, s.free), NEW n,
           NEW page, page = Chosen(manager, s, n), page # null
    PROVE  page \in s.free /\ s.property[page] >= n
<1>1. s.free \in SUBSET Pages
  BY DEF MemStates
<1>2. Follows(s, s.free, FreeList(s))
  BY <1>1, FreeListFollows
<1>3. page = Search(manager, s, FreeList(s), n)
  BY DEF Chosen
<1> QED BY <1>1, <1>2, <1>3, PickFits

(* The entry that default_free_pages stops at, the first above base, and    *)
(* the one before it have base between them.                                *)
LEMMA AboveBase ==
    ASSUME NEW s \in MemStates, NEW F \in SUBSET Pages, Ring(s, F), NEW list,
           Follows(s, F, list), NEW base \in Pages, base \notin F,
           NEW top \in F, base < top,
           NEW above, above = {i \in DOMAIN list : base < list[i]}
    PROVE  /\ list # <<>> /\ above # {}
           /\ LET last == list[Min(above)]
              IN  /\ last \in F /\ s.prev[last] \in F \cup {HEAD} /\ s.next[s.prev[last]] = last
                  /\ base < last /\ (s.prev[last] = HEAD \/ s.prev[last] < base)
<1>1. PICK D : /\ D = DOMAIN list /\ D \subseteq Nat
               /\ \A i \in D : list[i] \in F
               /\ F = {list[i] : i \in D}
               /\ \A i, j \in D : i < j => list[i] < list[j]
  <2>1. list \in Seq(F) /\ ToSet(list) = F
    BY DEF Follows
  <2>2. DOMAIN list = 1..Len(list) /\ Len(list) \in Nat
    BY <2>1
  <2>3. F = {list[i] : i \in DOMAIN list}
    BY <2>1 DEF ToSet
  <2>4. \A i, j \in DOMAIN list : i < j => list[i] < list[j]
    BY <2>2 DEF Follows
  <2>5. DOMAIN list \subseteq Nat
    BY <2>2
  <2>6. \A i \in DOMAIN list : list[i] \in F
    BY <2>3
  <2> HIDE DEF ToSet
  <2> QED BY <2>3, <2>4, <2>5, <2>6
<1>2. PICK t \in D : list[t] = top
  BY <1>1
<1>3. list # <<>>
  BY <1>1, <1>2
<1>4. above # {} /\ above \subseteq Nat
  BY <1>1, <1>2
<1>5. PICK k \in above : \A j \in above : k <= j
  BY <1>4, LeastNat
<1>6. Min(above) = k
  BY <1>4, <1>5, MinIs
<1> DEFINE last == list[k]
           b == s.prev[last]
<1>7. k \in D /\ last \in F /\ base < last
  BY <1>1, <1>5
<1>8. b \in F \cup {HEAD} /\ s.next[b] = last /\ (b \in F => b < last)
  BY <1>7 DEF Ring
<1> HIDE DEF last, b
<1>9. b = HEAD \/ b < base
  <2> SUFFICES ASSUME b \in F, ~(b < base) PROVE FALSE
    BY <1>8
  <2>1. base < b
    <3>1. base \in Nat /\ b \in Nat /\ base # b
      BY PageNumbers
    <3> QED BY <3>1
  <2>2. PICK j \in D : list[j] = b
    BY <1>1
  <2>3. j \in above
    BY <2>1, <2>2, <1>1
  <2>4. k <= j /\ k \in Nat /\ j \in Nat
    BY <2>3, <1>1, <1>5, <1>7
  <2>5. k # j => list[k] < list[j]
    BY <2>4, <1>1, <1>7
  <2>6. last <= b /\ b < last /\ b \in Nat /\ last \in Nat
    <3>1. b < last /\ b \in Nat /\ last \in Nat
      BY <1>7, <1>8, PageNumbers
    <3> QED BY <2>2, <2>4, <2>5, <3>1 DEF last
  <2> QED BY <2>6
<1> QED BY <1>3, <1>4, <1>6, <1>7, <1>8, <1>9 DEF last, b

-----------------------------------------------------------------------------
(* What allocating, freeing and merging do to the blocks.                   *)

(* The first n pages of a block are cut off; the rest, if any, is a block.  *)
CutOff(F, size, page, n, G, new) ==
    /\ G = IF size[page] = n THEN F \ {page} ELSE (F \ {page}) \cup {page + n}
    /\ \A p \in F \ {page} : new[p] = size[p]
    /\ size[page] # n => new[page + n] = size[page] - n

LEMMA CutBlock ==
    ASSUME NEW F \in SUBSET Pages, NEW size \in [Pages -> Nat],
           Blocks(F, size), TouchAt(F, size, {}, {}),
           NEW page \in F, NEW n \in Nat \ {0}, n <= size[page],
           NEW G, NEW new \in [Pages -> Nat], CutOff(F, size, page, n, G, new)
    PROVE  /\ G \in SUBSET Pages
           /\ Blocks(G, new) /\ TouchAt(G, new, {}, {})
           /\ FreeSet(G, new) = FreeSet(F, size) \ Run(page, n)
           /\ Run(page, n) \subseteq FreeSet(F, size)
           /\ size[page] # n => page + n \in Pages \ F
<1>1. /\ \A p \in F : p \in Nat /\ size[p] \in Nat /\ 1 <= size[p] /\ p + size[p] <= NPages
      /\ \A p, q \in F : p < q => p + size[p] < q
  <2>1. \A p \in F : p \in Pages
    OBVIOUS
  <2> QED BY <2>1, PageNumbers DEF Blocks, TouchAt
<1>2. NPages \in Nat /\ FirstFree \in Nat /\ \A x \in Int : x \in Pages <=> FirstFree <= x /\ x < NPages
  BY PageNumbers
<1>3. \A x \in Pages : x \in Nat
  BY PageNumbers
<1>4. page \in Pages /\ page \in Nat /\ size[page] \in Nat
  BY <1>1
<1>5. Run(page, n) = {x \in Pages : page <= x /\ x < page + n}
  <2>1. FirstFree <= page /\ page + n <= NPages
    BY <1>1, <1>2, <1>4
  <2>2. \A x \in Run(page, n) : x \in Int /\ page <= x /\ x < page + n
    BY <1>4 DEF Run
  <2>3. \A x \in Run(page, n) : x \in Pages
    BY <2>1, <2>2, <1>2, <1>4
  <2>4. \A x \in Pages : page <= x /\ x < page + n => x \in Run(page, n)
    BY <1>3, <1>4 DEF Run
  <2> QED BY <2>2, <2>3, <2>4
<1>6. Run(page, n) \subseteq FreeSet(F, size)
  <2> SUFFICES ASSUME NEW x \in Pages, page <= x, x < page + n
               PROVE  x < page + size[page]
    BY <1>5 DEF FreeSet
  <2> QED BY <1>3, <1>4
<1>7. CASE size[page] = n
  <2>1. G = F \ {page} /\ \A p \in G : p \in F /\ new[p] = size[p]
    BY <1>7 DEF CutOff
  <2>2. Blocks(G, new) /\ TouchAt(G, new, {}, {}) /\ G \in SUBSET Pages
    BY <2>1 DEF Blocks, TouchAt
  <2>3. ASSUME NEW x \in Pages
        PROVE  x \in FreeSet(G, new) <=> x \in FreeSet(F, size) /\ ~(page <= x /\ x < page + n)
    <3>1. ASSUME NEW p \in G, p <= x, x < p + new[p]
          PROVE  x \in FreeSet(F, size) /\ ~(page <= x /\ x < page + n)
      <4>1. p \in F /\ p # page /\ new[p] = size[p] /\ x \in Nat
        BY <2>1, <1>3
      <4>2. x \in FreeSet(F, size)
        BY <3>1, <4>1 DEF FreeSet
      <4>3. p < page => p + size[p] < page
        BY <4>1, <1>1
      <4>4. page < p => page + size[page] < p
        BY <4>1, <1>1
      <4>5. p \in Nat /\ size[p] \in Nat
        BY <4>1, <1>1
      <4> QED BY <3>1, <4>1, <4>2, <4>3, <4>4, <4>5, <1>4, <1>7
    <3>2. ASSUME NEW p \in F, p <= x, x < p + size[p], ~(page <= x /\ x < page + n)
          PROVE  x \in FreeSet(G, new)
      <4>1. p # page
        BY <3>2, <1>7
      <4> QED BY <3>2, <4>1, <2>1 DEF FreeSet
    <3> QED BY <3>1, <3>2 DEF FreeSet
  <2>4. FreeSet(G, new) = FreeSet(F, size) \ Run(page, n)
    <3>1. FreeSet(G, new) \subseteq Pages /\ FreeSet(F, size) \subseteq Pages
      BY DEF FreeSet
    <3> QED BY <3>1, <2>3, <1>5
  <2> QED BY <1>6, <1>7, <2>2, <2>4
<1>8. CASE size[page] # n
  <2> DEFINE rest == page + n
  <2>1. /\ rest \in Nat /\ rest < page + size[page] /\ page < rest
        /\ rest \in Pages
    BY <1>1, <1>2, <1>4, <1>8
  <2>2. rest \notin F
    <3> SUFFICES ASSUME rest \in F PROVE FALSE
      OBVIOUS
    <3>1. page + size[page] < rest
      BY <2>1, <1>1
    <3> QED BY <3>1, <2>1, <1>4
  <2>3. new[rest] = size[page] - n /\ rest + new[rest] = page + size[page] /\ new[rest] \in Nat
    BY <1>4, <1>8, <2>1 DEF CutOff
  <2>4. /\ G = (F \ {page}) \cup {rest}
        /\ \A p \in F \ {page} : new[p] = size[p]
    BY <1>8 DEF CutOff
  <2> HIDE DEF rest
  <2>5. /\ \A p \in G : 1 <= new[p] /\ p + new[p] <= NPages
        /\ \A p, q \in G : p < q => p + new[p] < q
    <3>1. ASSUME NEW p \in G PROVE 1 <= new[p] /\ p + new[p] <= NPages
      <4>1. CASE p = rest
        BY <4>1, <1>1, <1>4, <1>8, <2>3
      <4>2. CASE p # rest
        BY <4>2, <1>1, <2>4
      <4> QED BY <4>1, <4>2
    <3>2. ASSUME NEW p \in G, NEW q \in G, p < q PROVE p + new[p] < q
      <4>1. CASE p = rest
        <5>1. q \in F /\ q # page /\ q \in Nat
          <6>1. q # rest
            BY <3>2, <4>1, <2>1
          <6> QED BY <6>1, <2>4, <1>1
        <5>2. page < q
          BY <3>2, <4>1, <5>1, <2>1, <1>4
        <5> QED BY <4>1, <5>1, <5>2, <2>3, <1>1
      <4>2. CASE q = rest
        <5>1. p \in F /\ p # page /\ p \in Nat /\ new[p] = size[p] /\ size[p] \in Nat
          <6>1. p # rest
            BY <3>2, <4>2, <2>1
          <6> QED BY <6>1, <2>4, <1>1
        <5>2. ~(page < p)
          <6> SUFFICES ASSUME page < p PROVE FALSE
            OBVIOUS
          <6>1. page + size[page] < p
            BY <5>1, <1>1
          <6> QED BY <6>1, <3>2, <4>2, <2>1, <5>1, <1>4
        <5>3. p < page
          BY <5>1, <5>2, <1>4
        <5>4. p + size[p] < page
          BY <5>1, <5>3, <1>1
        <5> QED BY <5>1, <5>4, <4>2, <2>1, <1>4
      <4>3. CASE p # rest /\ q # rest
        BY <3>2, <4>3, <1>1, <2>4
      <4> QED BY <4>1, <4>2, <4>3
    <3> QED BY <3>1, <3>2
  <2>6. G \in SUBSET Pages
    BY <2>1, <2>4
  <2>7. \A p \in G : p \in Nat /\ new[p] \in Nat
    BY <2>6, <1>3
  <2>8. Blocks(G, new) /\ TouchAt(G, new, {}, {})
    BY <2>5, <2>7 DEF Blocks, TouchAt
  <2>9. ASSUME NEW x \in Pages
        PROVE  x \in FreeSet(G, new) <=> x \in FreeSet(F, size) /\ ~(page <= x /\ x < page + n)
    <3>1. ASSUME NEW p \in G, p <= x, x < p + new[p]
          PROVE  x \in FreeSet(F, size) /\ ~(page <= x /\ x < page + n)
      <4>1. CASE p = rest
        <5>1. page <= x /\ x < page + size[page] /\ ~(x < page + n)
          BY <3>1, <4>1, <1>3, <1>4, <2>1, <2>3 DEF rest
        <5> QED BY <5>1 DEF FreeSet
      <4>2. CASE p # rest
        <5>1. p \in F /\ p # page /\ new[p] = size[p] /\ x \in Nat
          BY <4>2, <2>4, <1>3
        <5>2. x \in FreeSet(F, size)
          BY <3>1, <5>1 DEF FreeSet
        <5>3. p < page => p + size[p] < page
          BY <5>1, <1>1
        <5>4. page < p => page + size[page] < p
          BY <5>1, <1>1
        <5>5. p \in Nat /\ size[p] \in Nat
          BY <5>1, <1>1
        <5> QED BY <3>1, <5>1, <5>2, <5>3, <5>4, <5>5, <1>4
      <4> QED BY <4>1, <4>2
    <3>2. ASSUME NEW p \in F, p <= x, x < p + size[p], ~(page <= x /\ x < page + n)
          PROVE  x \in FreeSet(G, new)
      <4>1. CASE p = page
        <5>1. rest \in G /\ rest <= x /\ x < rest + new[rest]
          BY <3>2, <4>1, <1>3, <1>4, <2>3, <2>4 DEF rest
        <5> QED BY <5>1 DEF FreeSet
      <4>2. CASE p # page
        BY <3>2, <4>2, <2>4 DEF FreeSet
      <4> QED BY <4>1, <4>2
    <3> QED BY <3>1, <3>2 DEF FreeSet
  <2>10. FreeSet(G, new) = FreeSet(F, size) \ Run(page, n)
    <3>1. FreeSet(G, new) \subseteq Pages /\ FreeSet(F, size) \subseteq Pages
      BY DEF FreeSet
    <3> QED BY <3>1, <2>9, <1>5
  <2>11. page + n \in Pages \ F
    BY <2>1, <2>2 DEF rest
  <2> QED BY <1>6, <2>6, <2>8, <2>10, <2>11
<1> QED BY <1>7, <1>8

(* A block of n pages that are in no free block comes in at base.           *)
BlockAdded(F, size, base, n, new) ==
    /\ base \notin F /\ Run(base, n) \cap F = {}
    /\ Blocks(F \cup {base}, new) /\ TouchAt(F \cup {base}, new, {base}, {base})
    /\ FreeSet(F \cup {base}, new) = FreeSet(F, size) \cup Run(base, n)
    /\ Run(base, n) \subseteq Pages

LEMMA AddBlock ==
    ASSUME NEW F \in SUBSET Pages, NEW size \in [Pages -> Nat],
           Blocks(F, size), TouchAt(F, size, {}, {}),
           NEW base \in Pages, NEW n \in Nat \ {0}, base + n <= NPages,
           Run(base, n) \cap FreeSet(F, size) = {},
           NEW new \in [Pages -> Nat], new[base] = n,
           \A p \in F : p # base => new[p] = size[p]
    PROVE  BlockAdded(F, size, base, n, new)
<1>1. /\ \A p \in F : p \in Nat /\ size[p] \in Nat /\ 1 <= size[p] /\ p + size[p] <= NPages
      /\ \A p, q \in F : p < q => p + size[p] < q
  <2>1. \A p \in F : p \in Pages
    OBVIOUS
  <2> QED BY <2>1, PageNumbers DEF Blocks, TouchAt
<1>2. NPages \in Nat /\ FirstFree \in Nat /\ \A x \in Int : x \in Pages <=> FirstFree <= x /\ x < NPages
  BY PageNumbers
<1>3. \A x \in Pages : x \in Nat
  BY PageNumbers
<1>4. base \in Nat /\ FirstFree <= base
  BY <1>2, <1>3
<1>5. /\ Run(base, n) \subseteq Pages
      /\ Run(base, n) = {x \in Pages : base <= x /\ x < base + n}
  <2>1. \A x \in Run(base, n) : x \in Int /\ base <= x /\ x < base + n
    BY <1>4 DEF Run
  <2>2. \A x \in Run(base, n) : x \in Pages
    BY <2>1, <1>2, <1>4
  <2>3. \A x \in Pages : base <= x /\ x < base + n => x \in Run(base, n)
    BY <1>3, <1>4 DEF Run
  <2> QED BY <2>1, <2>2, <2>3
<1>6. \A p \in F : p + size[p] <= base \/ base + n <= p
  <2> SUFFICES ASSUME NEW p \in F, base < p + size[p], p < base + n PROVE FALSE
    BY <1>1, <1>4
  <2>1. p \in Nat /\ size[p] \in Nat /\ 1 <= size[p] /\ p \in Pages
    BY <1>1
  <2>2. CASE p <= base
    <3>1. base \in FreeSet(F, size)
      BY <2>2 DEF FreeSet
    <3>2. base \in Run(base, n)
      BY <1>4, <1>5
    <3> QED BY <3>1, <3>2
  <2>3. CASE ~(p <= base)
    <3>1. p \in FreeSet(F, size)
      BY <2>1 DEF FreeSet
    <3>2. p \in Run(base, n)
      BY <2>1, <2>3, <1>4, <1>5
    <3> QED BY <3>1, <3>2
  <2> QED BY <2>2, <2>3
<1>7. base \notin F
  BY <1>1, <1>4, <1>6
<1>8. Run(base, n) \cap F = {}
  <2> SUFFICES ASSUME NEW p \in F, base <= p, p < base + n PROVE FALSE
    BY <1>5
  <2>1. p \in Nat /\ size[p] \in Nat /\ 1 <= size[p] /\ (p + size[p] <= base \/ base + n <= p)
    BY <1>1, <1>6
  <2> QED BY <2>1, <1>4
<1>9. \A p \in F : new[p] = size[p] /\ p # base
  BY <1>7
<1>10. Blocks(F \cup {base}, new)
  <2>1. ASSUME NEW p \in F \cup {base} PROVE 1 <= new[p] /\ p + new[p] <= NPages
    BY <1>1, <1>9
  <2>2. ASSUME NEW p \in F \cup {base}, NEW q \in F \cup {base}, p < q PROVE p + new[p] <= q
    <3>1. CASE p = base
      <4>1. q \in F /\ q \in Nat /\ size[q] \in Nat /\ 1 <= size[q]
        BY <2>2, <3>1, <1>1, <1>4
      <4>2. q + size[q] <= base \/ base + n <= q
        BY <4>1, <1>6
      <4> QED BY <2>2, <3>1, <4>1, <4>2, <1>4
    <3>2. CASE q = base
      <4>1. p \in F /\ p \in Nat /\ size[p] \in Nat /\ new[p] = size[p]
        BY <2>2, <3>2, <1>1, <1>4, <1>9
      <4>2. p + size[p] <= base \/ base + n <= p
        BY <4>1, <1>6
      <4> QED BY <2>2, <3>2, <4>1, <4>2, <1>4
    <3>3. CASE p # base /\ q # base
      <4>1. p \in F /\ q \in F /\ p \in Nat /\ q \in Nat /\ size[p] \in Nat /\ new[p] = size[p]
        BY <3>3, <1>1, <1>9
      <4>2. p + size[p] < q
        BY <4>1, <2>2, <1>1
      <4> QED BY <4>1, <4>2
    <3> QED BY <3>1, <3>2, <3>3
  <2> QED BY <2>1, <2>2 DEF Blocks
<1>11. TouchAt(F \cup {base}, new, {base}, {base})
  BY <1>9 DEF TouchAt
<1>12. ASSUME NEW x \in Pages
       PROVE  x \in FreeSet(F \cup {base}, new) <=> x \in FreeSet(F, size) \/ (base <= x /\ x < base + n)
  BY <1>9 DEF FreeSet
<1>13. FreeSet(F \cup {base}, new) = FreeSet(F, size) \cup Run(base, n)
  <2>1. FreeSet(F \cup {base}, new) \subseteq Pages /\ FreeSet(F, size) \subseteq Pages
    BY DEF FreeSet
  <2> QED BY <2>1, <1>5, <1>12
<1> QED BY <1>5, <1>7, <1>8, <1>10, <1>11, <1>13 DEF BlockAdded

(* A block takes in the block above it, which it touches.                   *)
MergedInto(F, size, p, q, new, L, U) ==
    /\ Blocks(F \ {q}, new)
    /\ FreeSet(F \ {q}, new) = FreeSet(F, size)
    /\ q \in U => TouchAt(F \ {q}, new, (L \ {q}) \cup {p}, U \ {q})
    /\ q \notin L \cup U => TouchAt(F \ {q}, new, L \ {p}, U)

LEMMA MergeBlocks ==
    ASSUME NEW F \in SUBSET Pages, NEW size \in [Pages -> Nat], Blocks(F, size),
           NEW p \in F, NEW q \in F, p + size[p] = q,
           NEW new \in [Pages -> Nat], new[p] = size[p] + size[q],
           \A x \in F \ {p, q} : new[x] = size[x],
           NEW L, NEW U, TouchAt(F, size, L, U)
    PROVE  MergedInto(F, size, p, q, new, L, U)
<1>1. /\ \A x \in F : x \in Nat /\ size[x] \in Nat /\ 1 <= size[x] /\ x + size[x] <= NPages
      /\ \A x, y \in F : x < y => x + size[x] <= y
  <2>1. \A x \in F : x \in Pages
    OBVIOUS
  <2> QED BY <2>1, PageNumbers DEF Blocks
<1>2. /\ p \in Nat /\ q \in Nat /\ size[p] \in Nat /\ size[q] \in Nat
      /\ 1 <= size[p] /\ 1 <= size[q] /\ p < q /\ p # q
      /\ p + new[p] = q + size[q] /\ q + size[q] <= NPages
  BY <1>1
<1>3. \A x \in F \ {q} : x \in F /\ (x # p => new[x] = size[x])
  OBVIOUS
<1>4. Blocks(F \ {q}, new)
  <2>1. ASSUME NEW x \in F \ {q} PROVE 1 <= new[x] /\ x + new[x] <= NPages
    <3>1. CASE x = p
      BY <3>1, <1>2
    <3>2. CASE x # p
      BY <3>2, <1>1, <1>3
    <3> QED BY <3>1, <3>2
  <2>2. ASSUME NEW x \in F \ {q}, NEW y \in F \ {q}, x < y PROVE x + new[x] <= y
    <3>1. CASE x = p
      <4>1. q <= y /\ y \in Nat
        BY <2>2, <3>1, <1>1
      <4>2. q < y
        BY <4>1, <1>2
      <4>3. q + size[q] <= y
        BY <4>2, <1>1
      <4> QED BY <4>3, <3>1, <1>2
    <3>2. CASE x # p
      BY <2>2, <3>2, <1>1, <1>3
    <3> QED BY <3>1, <3>2
  <2> QED BY <2>1, <2>2 DEF Blocks
<1>5. ASSUME NEW x \in Pages
      PROVE  x \in FreeSet(F \ {q}, new) <=> x \in FreeSet(F, size)
  <2>1. x \in Nat
    BY PageNumbers
  <2>2. ASSUME NEW y \in F \ {q}, y <= x, x < y + new[y] PROVE x \in FreeSet(F, size)
    <3>1. CASE y = p
      <4>1. p <= x /\ x < q + size[q]
        BY <2>2, <3>1, <1>2
      <4>2. x < p + size[p] \/ q <= x
        BY <2>1, <1>2
      <4> QED BY <4>1, <4>2 DEF FreeSet
    <3>2. CASE y # p
      BY <2>2, <3>2, <1>3 DEF FreeSet
    <3> QED BY <3>1, <3>2
  <2>3. ASSUME NEW y \in F, y <= x, x < y + size[y] PROVE x \in FreeSet(F \ {q}, new)
    <3>1. CASE y = p \/ y = q
      <4>1. p <= x /\ x < p + new[p]
        BY <2>1, <2>3, <3>1, <1>2
      <4>2. p \in F \ {q}
        BY <1>2
      <4> QED BY <4>1, <4>2 DEF FreeSet
    <3>2. CASE ~(y = p \/ y = q)
      BY <2>3, <3>2 DEF FreeSet
    <3> QED BY <3>1, <3>2
  <2> QED BY <2>2, <2>3 DEF FreeSet
<1>6. FreeSet(F \ {q}, new) = FreeSet(F, size)
  <2>1. FreeSet(F \ {q}, new) \subseteq Pages /\ FreeSet(F, size) \subseteq Pages
    BY DEF FreeSet
  <2> QED BY <2>1, <1>5
<1>7. ASSUME NEW x \in F \ {q}, NEW y \in F \ {q}, x + new[x] = y
      PROVE  /\ x = p => q \in L \/ y \in U
             /\ x # p => x \in L \/ y \in U
  <2>1. CASE x = p
    <3>1. q + size[q] = y
      BY <2>1, <1>2, <1>7
    <3> QED BY <3>1, <2>1, <1>7 DEF TouchAt
  <2>2. CASE x # p
    BY <2>2, <1>3, <1>7 DEF TouchAt
  <2> QED BY <2>1, <2>2
<1>8. /\ q \in U => TouchAt(F \ {q}, new, (L \ {q}) \cup {p}, U \ {q})
      /\ q \notin L \cup U => TouchAt(F \ {q}, new, L \ {p}, U)
  BY <1>7 DEF TouchAt
<1> QED BY <1>4, <1>6, <1>8 DEF MergedInto

-----------------------------------------------------------------------------
(* The operations of the list managers.                                     *)

(* A run of n pages has n of them, and the free pages are finitely many.    *)
LEMMA RunCounts ==
    /\ IsFiniteSet(Pages)
    /\ \A p, n \in Nat : IsFiniteSet(Run(p, n)) /\ Cardinality(Run(p, n)) = n
    /\ \A F, size : FreeSet(F, size) \subseteq Pages /\ IsFiniteSet(FreeSet(F, size))
<1>1. IsFiniteSet(Pages)
  <2>1. FirstFree \in Int /\ NPages - 1 \in Int
    BY PageNumbers
  <2> QED BY <2>1, FS_Interval DEF Pages
<1>2. ASSUME NEW p \in Nat, NEW n \in Nat
      PROVE  IsFiniteSet(Run(p, n)) /\ Cardinality(Run(p, n)) = n
  <2>1. p + n - 1 \in Int /\ p \in Int
    OBVIOUS
  <2>2. PICK b \in Int : b = p + n - 1
    BY <2>1
  <2>3. /\ IsFiniteSet(p..b)
        /\ Cardinality(p..b) = IF p > b THEN 0 ELSE b - p + 1
    BY <2>1, FS_Interval
  <2>4. Cardinality(p..b) = n
    BY <2>2, <2>3
  <2> QED BY <2>2, <2>3, <2>4 DEF Run
<1>3. ASSUME NEW F, NEW size
      PROVE  FreeSet(F, size) \subseteq Pages /\ IsFiniteSet(FreeSet(F, size))
  <2>1. FreeSet(F, size) \subseteq Pages
    BY DEF FreeSet
  <2> QED BY <1>1, <2>1, FS_Subset
<1> QED BY <1>1, <1>2, <1>3

(* n pages leave a finite set, or come to it.                               *)
LEMMA CountChanges ==
    ASSUME NEW S, IsFiniteSet(S), NEW p \in Nat, NEW n \in Nat
    PROVE  /\ Cardinality(S) \in Nat
           /\ Run(p, n) \subseteq S => Cardinality(S \ Run(p, n)) = Cardinality(S) - n
           /\ Run(p, n) \cap S = {} => Cardinality(S \cup Run(p, n)) = Cardinality(S) + n
<1> DEFINE R == Run(p, n)
<1>1. IsFiniteSet(R) /\ Cardinality(R) = n
  BY RunCounts
<1> HIDE DEF R
<1>2. Cardinality(S) \in Nat
  BY FS_CardinalityType
<1>3. R \cap S = {} => Cardinality(S \cup R) = Cardinality(S) + n
  <2>1. Cardinality(S \cup R) = Cardinality(S) + Cardinality(R) - Cardinality(S \cap R)
    BY <1>1, FS_Union
  <2>2. R \cap S = {} => Cardinality(S \cap R) = 0
    <3>1. R \cap S = {} => S \cap R = {}
      OBVIOUS
    <3> QED BY <3>1, FS_EmptySet
  <2> QED BY <1>1, <1>2, <2>1, <2>2
<1>4. ASSUME R \subseteq S PROVE Cardinality(S \ R) = Cardinality(S) - n
  <2>1. PICK A : A = S \ R
    OBVIOUS
  <2>2. A \in SUBSET S /\ A \cup R = S /\ A \cap R = {}
    BY <1>4, <2>1
  <2>3. IsFiniteSet(A)
    BY <2>2, FS_Subset
  <2>4. Cardinality(A) \in Nat
    BY <2>3, FS_CardinalityType
  <2>5. Cardinality(A \cup R) = Cardinality(A) + Cardinality(R) - Cardinality(A \cap R)
    BY <1>1, <2>3, FS_Union
  <2>6. Cardinality(A \cap R) = 0
    BY <2>2, FS_EmptySet
  <2>7. Cardinality(S) = Cardinality(A) + n - 0
    BY <1>1, <2>2, <2>5, <2>6
  <2>8. Cardinality(A) = Cardinality(S) - n
    BY <1>2, <2>4, <2>7
  <2> QED BY <2>1, <2>8
<1> QED BY <1>2, <1>3, <1>4 DEF R

(* The links alone make a ring.                                             *)
LEMMA RingLinks ==
    ASSUME NEW s, NEW t, NEW F, t.next = s.next, t.prev = s.prev, Ring(s, F)
    PROVE  Ring(t, F)
BY DEF Ring

(* Absorbed: q leaves the list and p takes in its pages.                    *)
Absorbing(s, t, p, q, L, U) ==
    /\ t.free = s.free \ {q}
    /\ FreeSet(t.free, t.property) = FreeSet(s.free, s.property)
    /\ q \in U => ListLike(t, (L \ {q}) \cup {p}, U \ {q})
    /\ q \notin L \cup U => ListLike(t, L \ {p}, U)

LEMMA AbsorbStep ==
    ASSUME NEW s, NEW L, NEW U, ListLike(s, L, U), NEW p \in s.free, NEW q \in s.free,
           p + s.property[p] = q, NEW t, t = Absorbed(s, p, q)
    PROVE  Absorbing(s, t, p, q, L, U)
<1> DEFINE F == s.free
           v == s.property[p] + s.property[q]
           u == [s EXCEPT !.property[p] = @ + s.property[q], !.free = @ \ {q}]
<1>1. /\ s \in MemStates /\ ~s.failed /\ Ring(s, F) /\ Blocks(F, s.property)
      /\ TouchAt(F, s.property, L, U)
      /\ s.nr_free = Cardinality(FreeSet(F, s.property))
  BY DEF ListLike
<1>2. F \in SUBSET Pages /\ s.property \in [Pages -> Nat]
  BY <1>1 DEF MemStates
<1>3. p \in Pages /\ q \in Pages /\ v \in Nat
  BY <1>2
<1>4. p # q
  <2>1. 1 <= s.property[p] /\ s.property[p] \in Nat /\ p \in Nat
    BY <1>1, <1>2, <1>3, PageNumbers DEF Blocks
  <2> QED BY <2>1
<1>5. u = [[s EXCEPT !.property = [s.property EXCEPT ![p] = v]] EXCEPT !.free = F \ {q}]
  BY <1>1, <1>2, <1>3 DEF MemStates
<1> HIDE DEF u, v
<1>6. /\ u.property = [s.property EXCEPT ![p] = v] /\ u.free = F \ {q}
      /\ u.next = s.next /\ u.prev = s.prev /\ u.nr_free = s.nr_free /\ (u.failed <=> s.failed)
      /\ u \in MemStates
  BY <1>1, <1>2, <1>3, <1>5 DEF MemStates
<1>7. Ring(u, F)
  BY <1>1, <1>6, RingLinks
<1>8. t = list_del(u, q)
  BY DEF Absorbed, u
<1>9. u.prev[q] # q /\ u.next[q] # q
  <2>1. q < u.next[q] /\ u.next[u.prev[q]] = q /\ q \in Nat
    BY <1>3, <1>7, PageNumbers DEF Ring
  <2> QED BY <2>1
<1>10. /\ t \in MemStates
       /\ t.free = u.free /\ t.nr_free = u.nr_free /\ (t.failed <=> u.failed)
       /\ \A x \in Pages : x # q => t.property[x] = u.property[x]
  <2>1. TakenOut(u, q, t)
    BY <1>3, <1>6, <1>8, <1>9, DelFields
  <2> QED BY <2>1 DEF TakenOut
<1>11. Ring(t, F \ {q})
  BY <1>2, <1>6, <1>7, <1>8, LinkOut
<1>12. t.property \in [Pages -> Nat] /\ t.free = F \ {q}
  BY <1>6, <1>10 DEF MemStates
<1>13. /\ t.property[p] = s.property[p] + s.property[q]
       /\ \A x \in F \ {p, q} : t.property[x] = s.property[x]
  BY <1>2, <1>3, <1>4, <1>6, <1>10 DEF v
<1>14. MergedInto(F, s.property, p, q, t.property, L, U)
  BY <1>1, <1>2, <1>12, <1>13, MergeBlocks
<1>15. t.nr_free = Cardinality(FreeSet(F \ {q}, t.property)) /\ ~t.failed
  BY <1>1, <1>6, <1>10, <1>14 DEF MergedInto
<1> QED BY <1>10, <1>11, <1>12, <1>14, <1>15 DEF ListLike, Absorbing, MergedInto

(* Merging with the block above leaves none that touch.                     *)
Settled(s, t) ==
    ListInv(t) /\ FreeSet(t.free, t.property) = FreeSet(s.free, s.property)

LEMMA MergedUpStep ==
    ASSUME NEW s, NEW p \in s.free, ListLike(s, {p}, {}), NEW t, t = MergedUp(s, p)
    PROVE  Settled(s, t)
<1> DEFINE q == s.next[p]
<1>1. /\ s \in MemStates /\ Ring(s, s.free) /\ Blocks(s.free, s.property)
      /\ TouchAt(s.free, s.property, {p}, {})
  BY DEF ListLike
<1>2. s.free \in SUBSET Pages /\ s.property \in [Pages -> Nat]
  BY <1>1 DEF MemStates
<1>3. q \in s.free \cup {HEAD} /\ p < q /\ p \in Nat /\ q \in Nat /\ p # HEAD
  BY <1>1, <1>2, PageNumbers DEF Ring
<1> HIDE DEF q
<1>4. CASE Adjacent(s, p, q)
  <2>1. q \in s.free /\ p + s.property[p] = q /\ q \notin {p} \cup {}
    BY <1>3, <1>4 DEF Adjacent
  <2>2. t = Absorbed(s, p, q)
    BY <1>4 DEF MergedUp, q
  <2>3. Absorbing(s, t, p, q, {p}, {})
    BY <2>1, <2>2, AbsorbStep
  <2>4. {p} \ {p} = {}
    OBVIOUS
  <2> QED BY <2>1, <2>3, <2>4 DEF ListInv, Absorbing, Settled
<1>5. CASE ~Adjacent(s, p, q)
  <2>1. t = s
    BY <1>5 DEF MergedUp, q
  <2>2. ASSUME NEW x \in s.free, NEW y \in s.free, x + s.property[x] = y PROVE FALSE
    <3>1. x = p
      BY <2>2, <1>1 DEF TouchAt
    <3>2. p < y /\ y < HEAD /\ y \in Nat
      <4>1. 1 <= s.property[p] /\ s.property[p] \in Nat
        BY <1>1, <1>2 DEF Blocks
      <4>2. y \in Nat /\ y < HEAD
        BY <1>2, PageNumbers
      <4> QED BY <2>2, <3>1, <4>1, <4>2, <1>3
    <3>3. q <= y
      BY <3>2, <1>1 DEF Ring, q
    <3>4. q \in s.free
      BY <3>2, <3>3, <1>3, PageNumbers
    <3>5. p + s.property[p] <= q
      BY <3>4, <1>1, <1>3 DEF Blocks
    <3>6. q = y
      BY <3>1, <3>2, <3>3, <3>5, <2>2, <1>3
    <3>7. q # HEAD
      BY <3>2, <3>6, PageNumbers
    <3> QED BY <3>1, <3>6, <3>7, <2>2, <1>3, <1>5 DEF Adjacent
  <2>3. TouchAt(s.free, s.property, {}, {})
    BY <2>2 DEF TouchAt
  <2> QED BY <2>1, <2>3 DEF ListInv, ListLike, Settled
<1> QED BY <1>4, <1>5

(* The block that came in at base merges with the one below and the one     *)
(* above, and then none touch.                                              *)
LEMMA MergedStep ==
    ASSUME NEW s, NEW base \in s.free, ListLike(s, {base}, {base}),
           NEW t, t = MergedBoth(s, base)
    PROVE  Settled(s, t)
<1> DEFINE low == s.prev[base]
<1>1. /\ s \in MemStates /\ Ring(s, s.free) /\ Blocks(s.free, s.property)
      /\ TouchAt(s.free, s.property, {base}, {base})
  BY DEF ListLike
<1>2. s.free \in SUBSET Pages /\ s.property \in [Pages -> Nat]
  BY <1>1 DEF MemStates
<1>3. /\ low \in s.free \cup {HEAD} /\ s.next[low] = base /\ (low \in s.free => low < base)
      /\ low \in Nat /\ base \in Nat /\ base # HEAD
  <2>1. low \in s.free \cup {HEAD} /\ s.next[low] = base /\ (low \in s.free => low < base)
    BY <1>1 DEF Ring
  <2>2. low \in Entry /\ base \in Pages
    BY <2>1, <1>2, PageNumbers
  <2> QED BY <2>1, <2>2, PageNumbers
<1> HIDE DEF low
<1>4. CASE Adjacent(s, low, base)
  <2> DEFINE u == Absorbed(s, low, base)
  <2>1. low \in s.free /\ low + s.property[low] = base /\ low # base
    BY <1>3, <1>4 DEF Adjacent
  <2>2. t = MergedUp(u, low)
    BY <1>4 DEF MergedBoth, low
  <2> HIDE DEF u
  <2>3. Absorbing(s, u, low, base, {base}, {base})
    BY <2>1, AbsorbStep DEF u
  <2>4. ({base} \ {base}) \cup {low} = {low} /\ {base} \ {base} = {}
    OBVIOUS
  <2>5. low \in u.free /\ ListLike(u, {low}, {})
    BY <2>1, <2>3, <2>4 DEF Absorbing
  <2>6. FreeSet(u.free, u.property) = FreeSet(s.free, s.property)
    BY <2>3 DEF Absorbing
  <2>7. Settled(u, t)
    BY <2>2, <2>5, MergedUpStep
  <2> QED BY <2>6, <2>7 DEF Settled
<1>5. CASE ~Adjacent(s, low, base)
  <2>1. t = MergedUp(s, base)
    BY <1>5 DEF MergedBoth, low
  <2>2. ASSUME NEW x \in s.free, x + s.property[x] = base PROVE FALSE
    <3>1. x < base /\ x \in Nat /\ s.property[x] \in Nat
      <4>1. 1 <= s.property[x] /\ s.property[x] \in Nat
        BY <1>1, <1>2 DEF Blocks
      <4>2. x \in Nat
        BY <1>2, PageNumbers
      <4> QED BY <2>2, <4>1, <4>2, <1>3
    <3>2. low # HEAD /\ ~(low < x)
      <4> SUFFICES ASSUME low = HEAD \/ low < x PROVE FALSE
        OBVIOUS
      <4>1. s.next[low] <= x
        BY <1>1, <1>3 DEF Ring
      <4> QED BY <4>1, <3>1, <1>3
    <3>3. low \in s.free /\ low < base
      BY <3>2, <1>3
    <3>4. x # low
      BY <3>2, <1>3, <1>5, <2>2 DEF Adjacent
    <3>5. x < low
      BY <3>1, <3>2, <3>4, <1>3
    <3>6. x + s.property[x] <= low
      BY <3>3, <3>5, <1>1 DEF Blocks
    <3> QED BY <3>3, <3>6, <2>2, <1>3
  <2>3. TouchAt(s.free, s.property, {base}, {})
    BY <2>2, <1>1 DEF TouchAt
  <2>4. ListLike(s, {base}, {})
    BY <2>3 DEF ListLike
  <2> QED BY <2>1, <2>4, MergedUpStep
<1> QED BY <1>4, <1>5

(* WithRest: the rest of a block, if there is any, takes the place of the   *)
(* whole in the list.                                                       *)
RestLeft(s, page, n, w) ==
    /\ w \in MemStates /\ ~w.failed /\ w.nr_free = s.nr_free
    /\ w.free = IF s.property[page] = n THEN s.free ELSE s.free \cup {page + n}
    /\ Ring(w, w.free \ {page})
    /\ CutOff(s.free, s.property, page, n, w.free \ {page}, w.property)

LEMMA RestStep ==
    ASSUME NEW s, ListInv(s), NEW page \in s.free, NEW n \in Nat \ {0}, n <= s.property[page],
           NEW w, w = WithRest(list_del(s, page), s, page, n)
    PROVE  RestLeft(s, page, n, w)
<1> DEFINE F == s.free
           cut == list_del(s, page)
           b == s.prev[page]
           a == s.next[page]
<1>1. /\ s \in MemStates /\ ~s.failed /\ Ring(s, F) /\ Blocks(F, s.property)
      /\ TouchAt(F, s.property, {}, {})
  BY DEF ListInv, ListLike
<1>2. F \in SUBSET Pages /\ s.property \in [Pages -> Nat] /\ page \in Pages /\ page \in Entry
  BY <1>1, PageNumbers DEF MemStates
<1>3. /\ Ring(cut, F \ {page})
      /\ b \in (F \ {page}) \cup {HEAD} /\ cut.next[b] = a
  BY <1>1, <1>2, LinkOut
<1>4. a \in F \cup {HEAD} /\ page < a /\ s.next[b] = page
  BY <1>1 DEF Ring
<1>5. page \in Nat /\ a \in Nat /\ s.property[page] \in Nat
  BY <1>2, <1>4, PageNumbers
<1>6. TakenOut(s, page, cut)
  <2>1. b # page /\ a # page
    BY <1>2, <1>3, <1>4, <1>5, PageNumbers
  <2> QED BY <1>1, <1>2, <2>1, DelFields
<1>7. /\ cut \in MemStates /\ ~cut.failed /\ cut.free = F /\ cut.nr_free = s.nr_free
      /\ \A x \in F \ {page} : cut.property[x] = s.property[x]
  BY <1>1, <1>2, <1>6 DEF TakenOut
<1> HIDE DEF cut, a, b
<1>8. CASE s.property[page] = n
  <2>1. w = cut
    BY <1>8 DEF WithRest, cut
  <2>2. CutOff(F, s.property, page, n, F \ {page}, cut.property)
    BY <1>7, <1>8 DEF CutOff
  <2> QED BY <2>1, <2>2, <1>3, <1>7, <1>8 DEF RestLeft
<1>9. CASE s.property[page] # n
  <2> DEFINE rest == page + n
             u == [cut EXCEPT !.property[page + n] = s.property[page] - n,
                              !.free = @ \cup {page + n}]
             v == s.property[page] - n
  <2>1. v \in Nat /\ rest \in Nat /\ page < rest
    BY <1>5, <1>9
  <2>2. rest < a
    <3>1. rest < page + s.property[page]
      BY <1>5, <1>9
    <3>2. CASE a = HEAD
      <4>1. page + s.property[page] <= HEAD
        BY <1>1, PageNumbers DEF Blocks
      <4> QED BY <3>1, <3>2, <4>1, <1>5, <2>1
    <3>3. CASE a \in F
      <4>1. page + s.property[page] <= a
        BY <3>3, <1>1, <1>4 DEF Blocks
      <4> QED BY <3>1, <4>1, <1>5, <2>1
    <3> QED BY <3>2, <3>3, <1>4
  <2>3. rest \in Pages
    <3>1. a <= NPages /\ FirstFree <= page /\ rest \in Int /\ FirstFree \in Nat /\ NPages \in Nat
      BY <1>2, <1>4, <1>5, <2>1, PageNumbers
    <3>2. FirstFree <= rest /\ rest < NPages
      BY <3>1, <2>1, <2>2, <1>5
    <3> QED BY <3>1, <3>2, PageNumbers
  <2>4. rest \notin F
    <3> SUFFICES ASSUME rest \in F PROVE FALSE
      OBVIOUS
    <3>1. a <= rest
      BY <1>1, <2>1 DEF Ring, a
    <3> QED BY <3>1, <2>1, <2>2, <1>5
  <2>5. u = [[cut EXCEPT !.property = [cut.property EXCEPT ![rest] = v]]
                  EXCEPT !.free = F \cup {rest}]
    BY <1>7 DEF MemStates
  <2>6. w = LinkedIn(u, rest, b, u.next[b])
    BY <1>9 DEF WithRest, list_add, cut, b
  <2> HIDE DEF u, v, rest
  <2>7. /\ u.property = [cut.property EXCEPT ![rest] = v] /\ u.free = F \cup {rest}
        /\ u.next = cut.next /\ u.prev = cut.prev /\ u.nr_free = s.nr_free /\ ~u.failed
        /\ u \in MemStates
    BY <1>2, <1>7, <2>1, <2>3, <2>5 DEF MemStates
  <2>8. Ring(u, F \ {page})
    BY <1>3, <2>7, RingLinks
  <2>9. b \in (F \ {page}) \cup {HEAD} /\ u.next[b] = a /\ rest \notin F \ {page}
    BY <1>3, <2>4, <2>7
  <2>10. b = HEAD \/ b < rest
    <3>1. b \in F => b < page /\ b \in Nat
      BY <1>1, <1>2, <1>4, PageNumbers DEF Ring
    <3> QED BY <3>1, <2>1, <2>9, <1>5
  <2>11. F \ {page} \in SUBSET Pages
    BY <1>2
  <2>12. Ring(w, (F \ {page}) \cup {rest})
    <3>1. w = LinkedIn(u, rest, b, a) /\ u \in MemStates
      BY <2>6, <2>7, <2>9
    <3>2. rest \in Pages /\ rest \notin F \ {page} /\ rest < a /\ a = u.next[b]
      BY <2>2, <2>3, <2>9
    <3>3. ASSUME NEW G, G = F \ {page} PROVE Ring(w, G \cup {rest})
      <4>1. G \in SUBSET Pages /\ Ring(u, G) /\ rest \notin G /\ b \in G \cup {HEAD}
        BY <3>2, <3>3, <2>8, <2>9, <2>11
      <4> QED BY <4>1, <3>1, <3>2, <2>10, LinkIn
    <3> QED BY <3>3
  <2>13. b \in Entry /\ a \in Entry /\ b # rest /\ a # rest
    BY <1>2, <1>4, <2>2, <2>3, <2>4, <2>9, <2>1, PageNumbers
  <2>14. /\ w \in MemStates
         /\ w.free = u.free /\ w.nr_free = u.nr_free /\ (w.failed <=> u.failed)
         /\ w.property = u.property
    BY <2>3, <2>6, <2>7, <2>9, <2>13, LinkedFields
  <2>15. w.free \ {page} = (F \ {page}) \cup {rest}
    BY <2>1, <2>7, <2>14, <1>5
  <2>16. /\ w.property[rest] = v
         /\ \A x \in F \ {page} : w.property[x] = s.property[x]
    <3>1. cut.property \in [Pages -> Nat]
      BY <1>7 DEF MemStates
    <3> QED BY <3>1, <1>2, <1>7, <2>3, <2>4, <2>7, <2>14
  <2>17. CutOff(F, s.property, page, n, w.free \ {page}, w.property)
    BY <1>9, <2>15, <2>16 DEF CutOff, rest, v
  <2> QED BY <1>9, <2>7, <2>12, <2>14, <2>15, <2>17 DEF RestLeft, rest
<1> QED BY <1>8, <1>9

(* list_alloc_pages takes the first n pages of the block it has chosen.     *)
LEMMA AllocStep ==
    ASSUME NEW s, ListInv(s), NEW page \in s.free, NEW n \in Nat \ {0}, n <= s.property[page],
           page # null, NEW t, t = Answer(s, page, n).m
    PROVE  /\ ListInv(t)
           /\ FreeSet(t.free, t.property) = FreeSet(s.free, s.property) \ Run(page, n)
           /\ Run(page, n) \subseteq FreeSet(s.free, s.property)
<1> DEFINE w == WithRest(list_del(s, page), s, page, n)
<1>1. /\ s \in MemStates /\ Blocks(s.free, s.property) /\ TouchAt(s.free, s.property, {}, {})
      /\ s.nr_free = Cardinality(FreeSet(s.free, s.property))
  BY DEF ListInv, ListLike
<1>2. s.free \in SUBSET Pages /\ s.property \in [Pages -> Nat]
  BY <1>1 DEF MemStates
<1>3. t = [w EXCEPT !.nr_free = @ - n, !.free = @ \ {page}]
  BY DEF Answer
<1>4. RestLeft(s, page, n, w)
  BY RestStep
<1> HIDE DEF w
<1>5. /\ w \in MemStates /\ ~w.failed /\ w.nr_free = s.nr_free
      /\ Ring(w, w.free \ {page})
      /\ CutOff(s.free, s.property, page, n, w.free \ {page}, w.property)
  BY <1>4 DEF RestLeft
<1>6. t = [[w EXCEPT !.nr_free = w.nr_free - n] EXCEPT !.free = w.free \ {page}]
  BY <1>3, <1>5 DEF MemStates
<1>7. /\ t.next = w.next /\ t.prev = w.prev /\ t.property = w.property
      /\ t.free = w.free \ {page} /\ t.nr_free = s.nr_free - n /\ ~t.failed
      /\ t \in MemStates
  <2>1. w.nr_free - n \in Int /\ w.free \ {page} \in SUBSET Pages
    BY <1>5 DEF MemStates
  <2> QED BY <2>1, <1>5, <1>6 DEF MemStates
<1>8. Ring(t, t.free)
  BY <1>5, <1>7, RingLinks
<1>9. /\ Blocks(t.free, t.property) /\ TouchAt(t.free, t.property, {}, {})
      /\ FreeSet(t.free, t.property) = FreeSet(s.free, s.property) \ Run(page, n)
      /\ Run(page, n) \subseteq FreeSet(s.free, s.property)
  <2>1. t.property \in [Pages -> Nat]
    BY <1>7 DEF MemStates
  <2>2. CutOff(s.free, s.property, page, n, t.free, t.property)
    BY <1>5, <1>7
  <2> QED BY <1>1, <1>2, <2>1, <2>2, CutBlock
<1>10. t.nr_free = Cardinality(FreeSet(t.free, t.property))
  <2>1. page \in Nat /\ n \in Nat
    BY <1>2, PageNumbers
  <2>2. IsFiniteSet(FreeSet(s.free, s.property))
    BY RunCounts
  <2>3. Cardinality(FreeSet(s.free, s.property) \ Run(page, n))
          = Cardinality(FreeSet(s.free, s.property)) - n
    BY <1>9, <2>1, <2>2, CountChanges
  <2> QED BY <1>1, <1>7, <1>9, <2>3
<1> QED BY <1>7, <1>8, <1>9, <1>10 DEF ListInv, ListLike

(* list_free_pages gives n pages back that nobody else has; the free page   *)
(* at the top is what keeps the loop from running past the end of the list. *)
LEMMA FreeStep ==
    ASSUME NEW s, ListInv(s), NEW base \in Pages, NEW n \in Nat \ {0}, base + n <= NPages - 1,
           Run(base, n) \cap FreeSet(s.free, s.property) = {},
           NPages - 1 \in FreeSet(s.free, s.property),
           NEW t, t = list_free_pages(s, base, n)
    PROVE  /\ ListInv(t)
           /\ FreeSet(t.free, t.property) = FreeSet(s.free, s.property) \cup Run(base, n)
           /\ Run(base, n) \subseteq Pages
<1> DEFINE F == s.free
           free == FreeSet(F, s.property)
           u == [s EXCEPT !.property[base] = n, !.nr_free = @ + n,
                          !.failed = @ \/ s.free \cap Run(base, n) # {},
                          !.free = @ \cup {base}]
           list == FreeList(s)
           above == {i \in DOMAIN list : base < list[i]}
           last == list[Min(above)]
           w == Inserted(u, base, list)
<1>1. /\ s \in MemStates /\ ~s.failed /\ Ring(s, F) /\ Blocks(F, s.property)
      /\ TouchAt(F, s.property, {}, {})
      /\ s.nr_free = Cardinality(free)
  BY DEF ListInv, ListLike
<1>2. F \in SUBSET Pages /\ s.property \in [Pages -> Nat] /\ s.nr_free \in Int
  BY <1>1 DEF MemStates
<1>3. /\ base \in Nat /\ NPages \in Nat /\ base < NPages - 1 /\ base + n <= NPages
      /\ \A p \in F : p \in Nat /\ p \in Pages
      /\ \A p \in F : s.property[p] \in Nat
  <2>1. base \in Nat /\ NPages \in Nat
    BY PageNumbers
  <2>2. \A p \in F : p \in Pages
    BY <1>2
  <2>3. base < NPages - 1 /\ base + n <= NPages
    BY <2>1
  <2>4. \A p \in F : p \in Nat
    BY <2>2, PageNumbers
  <2>5. \A p \in F : s.property[p] \in Nat
    BY <1>2, <2>2
  <2> QED BY <2>1, <2>2, <2>3, <2>4, <2>5
<1>4. base \notin F /\ F \cap Run(base, n) = {}
  <2> DEFINE new == [s.property EXCEPT ![base] = n]
  <2>1. new \in [Pages -> Nat] /\ new[base] = n /\ \A p \in F : p # base => new[p] = s.property[p]
    BY <1>2
  <2> HIDE DEF new
  <2>2. BlockAdded(F, s.property, base, n, new)
    BY <1>1, <1>2, <1>3, <2>1, AddBlock
  <2> QED BY <2>2 DEF BlockAdded
<1>5. PICK top \in F : base < top
  <2>1. PICK top \in F : top <= NPages - 1 /\ NPages - 1 < top + s.property[top]
    BY DEF FreeSet
  <2>2. base < top
    <3> SUFFICES ASSUME top <= base PROVE FALSE
      BY <1>3
    <3>1. base < top + s.property[top]
      BY <2>1, <1>3
    <3>2. base \in free
      BY <3>1 DEF FreeSet
    <3>3. base \in Run(base, n)
      BY <1>3 DEF Run
    <3> QED BY <3>2, <3>3
  <2> QED BY <2>2
<1>6. Follows(s, F, list)
  BY <1>1, <1>2, FreeListFollows
<1>7. u = [[[[s EXCEPT !.property = [s.property EXCEPT ![base] = n]]
                 EXCEPT !.nr_free = s.nr_free + n]
                 EXCEPT !.failed = FALSE]
                 EXCEPT !.free = F \cup {base}]
  <2>1. (s.failed \/ s.free \cap Run(base, n) # {}) = FALSE
    BY <1>1, <1>4
  <2> QED BY <2>1, <1>1 DEF MemStates
<1>8. t = MergedBoth(w, base)
  BY DEF list_free_pages
<1> HIDE DEF u, list
<1>9. /\ u.property = [s.property EXCEPT ![base] = n] /\ u.free = F \cup {base}
      /\ u.next = s.next /\ u.prev = s.prev /\ u.nr_free = s.nr_free + n
      /\ ~u.failed
      /\ u \in MemStates
  <2>1. /\ s.nr_free + n \in Int /\ F \cup {base} \in SUBSET Pages
        /\ [s.property EXCEPT ![base] = n] \in [Pages -> Nat]
    BY <1>2
  <2>2. /\ u.property = [s.property EXCEPT ![base] = n] /\ u.free = F \cup {base}
        /\ u.next = s.next /\ u.prev = s.prev /\ u.nr_free = s.nr_free + n
        /\ ~u.failed
    BY <1>1, <1>7 DEF MemStates
  <2>3. u \in MemStates
    BY <1>1, <1>7, <2>1 DEF MemStates
  <2> QED BY <2>2, <2>3
<1>11. /\ list # <<>> /\ above # {}
       /\ last \in F /\ s.prev[last] \in F \cup {HEAD} /\ s.next[s.prev[last]] = last
       /\ base < last /\ (s.prev[last] = HEAD \/ s.prev[last] < base)
  BY <1>1, <1>2, <1>4, <1>5, <1>6, AboveBase
<1>12. w = LinkedIn(u, base, u.prev[last], last)
  BY <1>11 DEF Inserted, list_add_before
<1> HIDE DEF above, last, w
<1> DEFINE b == u.prev[last]
<1>13. /\ b \in F \cup {HEAD} /\ u.next[b] = last /\ base < last /\ (b = HEAD \/ b < base)
  BY <1>9, <1>11
<1> HIDE DEF b
<1>14. Ring(u, F)
  BY <1>1, <1>9, RingLinks
<1>15. w = LinkedIn(u, base, b, last)
  BY <1>12 DEF b
<1>16. Ring(w, F \cup {base})
  BY <1>2, <1>4, <1>9, <1>13, <1>14, <1>15, LinkIn
<1>17. /\ w \in MemStates
       /\ w.free = u.free /\ w.nr_free = u.nr_free /\ (w.failed <=> u.failed)
       /\ w.property = u.property
  <2>1. b \in Entry /\ last \in Entry /\ b # base /\ last # base
    BY <1>2, <1>4, <1>11, <1>13, PageNumbers
  <2> QED BY <1>9, <1>15, <2>1, LinkedFields
<1>18. /\ w.property \in [Pages -> Nat] /\ w.property[base] = n
       /\ \A p \in F : p # base => w.property[p] = s.property[p]
  BY <1>2, <1>9, <1>17
<1>19. /\ Blocks(F \cup {base}, w.property)
       /\ TouchAt(F \cup {base}, w.property, {base}, {base})
       /\ FreeSet(F \cup {base}, w.property) = free \cup Run(base, n)
       /\ Run(base, n) \subseteq Pages
  <2>1. BlockAdded(F, s.property, base, n, w.property)
    BY <1>1, <1>2, <1>3, <1>18, AddBlock
  <2> QED BY <2>1 DEF BlockAdded
<1>20. w.nr_free = Cardinality(FreeSet(F \cup {base}, w.property))
  <2>1. IsFiniteSet(free)
    BY RunCounts
  <2>2. Cardinality(free \cup Run(base, n)) = Cardinality(free) + n
    BY <2>1, <1>3, CountChanges
  <2> QED BY <2>2, <1>1, <1>9, <1>17, <1>19
<1>21. w.free = F \cup {base} /\ base \in w.free /\ ~w.failed
  BY <1>9, <1>17
<1>22. ListLike(w, {base}, {base})
  BY <1>16, <1>17, <1>19, <1>20, <1>21 DEF ListLike
<1>23. Settled(w, t)
  BY <1>8, <1>21, <1>22, MergedStep
<1> QED BY <1>19, <1>21, <1>23 DEF Settled

-----------------------------------------------------------------------------
(* The counts and sets that PagesExact is stated with.                      *)

(* Runs that do not overlap have as many pages as they cover.               *)
LEMMA DisjointRuns ==
    ASSUME NEW runs, Covered(runs) \subseteq Pages,
           \A q, r \in runs : q = r \/ Run(q[1], q[2]) \cap Run(r[1], r[2]) = {}
    PROVE  PageCount(runs) = Cardinality(Covered(runs))
<1> DEFINE S == Covered(runs)
           T == UNION {{r} \X Run(r[1], r[2]) : r \in runs}
           of(x) == CHOOSE r \in runs : x \in Run(r[1], r[2])
           f == [x \in S |-> <<of(x), x>>]
<1>1. \A x \in S : of(x) \in runs /\ x \in Run(of(x)[1], of(x)[2])
  BY DEF Covered
<1>2. \A x \in S, r \in runs : x \in Run(r[1], r[2]) => r = of(x)
  BY <1>1
<1>3. \A r \in runs : \A x \in Run(r[1], r[2]) : x \in S
  BY DEF Covered
<1> HIDE DEF S, of
<1>4. f \in [S -> T]
  <2> SUFFICES ASSUME NEW x \in S PROVE <<of(x), x>> \in T
    OBVIOUS
  <2>1. <<of(x), x>> \in {of(x)} \X Run(of(x)[1], of(x)[2])
    BY <1>1
  <2> QED BY <2>1, <1>1
<1>5. \A x, y \in S : f[x] = f[y] => x = y
  OBVIOUS
<1>6. \A t \in T : \E x \in S : f[x] = t
  <2> SUFFICES ASSUME NEW t \in T PROVE \E x \in S : f[x] = t
    OBVIOUS
  <2>1. PICK r \in runs : t \in {r} \X Run(r[1], r[2])
    OBVIOUS
  <2>2. PICK x \in Run(r[1], r[2]) : t = <<r, x>>
    BY <2>1
  <2>3. x \in S /\ r = of(x)
    BY <2>2, <1>2, <1>3
  <2> QED BY <2>2, <2>3
<1> HIDE DEF f, T
<1>7. f \in Bijection(S, T)
  BY <1>4, <1>5, <1>6 DEF Bijection, Injection, Surjection, IsInjective
<1>8. ExistsBijection(S, T)
  BY <1>7 DEF ExistsBijection
<1>9. IsFiniteSet(S)
  <2>1. S \in SUBSET Pages
    BY DEF S
  <2> QED BY <2>1, RunCounts, FS_Subset
<1>10. Cardinality(T) = Cardinality(S)
  BY <1>8, <1>9, FS_Bijection
<1> QED BY <1>10 DEF PageCount, S, T

(* The free blocks cover the free pages, as many as nr_free says.           *)
LEMMA FreeRunsCounted ==
    ASSUME ListInv(pmm)
    PROVE  /\ Covered(FreeRuns) = FreeSet(pmm.free, pmm.property)
           /\ PageCount(FreeRuns) = pmm.nr_free
           /\ PageCount(FreeRuns) = Cardinality(FreeSet(pmm.free, pmm.property))
<1>1. /\ pmm \in MemStates /\ Blocks(pmm.free, pmm.property)
      /\ pmm.nr_free = Cardinality(FreeSet(pmm.free, pmm.property))
  BY DEF ListInv, ListLike
<1>2. pmm.free \in SUBSET Pages /\ pmm.property \in [Pages -> Nat]
  BY <1>1 DEF MemStates
<1>3. ASSUME NEW p \in pmm.free
      PROVE  Run(p, pmm.property[p]) = {x \in Pages : p <= x /\ x < p + pmm.property[p]}
  <2>1. p \in Nat /\ pmm.property[p] \in Nat /\ p \in Pages
    BY <1>2, PageNumbers
  <2>2. p + pmm.property[p] <= NPages /\ FirstFree <= p
    BY <1>1, <2>1, PageNumbers DEF Blocks
  <2>3. \A x \in Run(p, pmm.property[p]) : x \in Int /\ p <= x /\ x < p + pmm.property[p]
    BY <2>1 DEF Run
  <2>4. \A x \in Run(p, pmm.property[p]) : x \in Pages
    BY <2>1, <2>2, <2>3, PageNumbers
  <2>5. ASSUME NEW x \in Pages, p <= x, x < p + pmm.property[p]
        PROVE  x \in Run(p, pmm.property[p])
    <3>1. PICK k \in Nat : k = pmm.property[p]
      BY <2>1
    <3>2. x \in Int /\ x <= p + k - 1
      BY <3>1, <2>1, <2>5, PageNumbers
    <3> QED BY <3>1, <3>2, <2>1, <2>5 DEF Run
  <2> QED BY <2>3, <2>4, <2>5
<1>4. Covered(FreeRuns) = FreeSet(pmm.free, pmm.property)
  <2>1. \A x : x \in Covered(FreeRuns) <=> \E p \in pmm.free : x \in Run(p, pmm.property[p])
    <3> SUFFICES ASSUME NEW x
                 PROVE  x \in Covered(FreeRuns) <=> \E p \in pmm.free : x \in Run(p, pmm.property[p])
      OBVIOUS
    <3>1. x \in Covered(FreeRuns) <=> \E r \in FreeRuns : x \in Run(r[1], r[2])
      BY DEF Covered
    <3>2. ASSUME NEW p \in pmm.free, x \in Run(p, pmm.property[p])
          PROVE  \E r \in FreeRuns : x \in Run(r[1], r[2])
      <4>1. PICK r : r = <<p, pmm.property[p]>>
        OBVIOUS
      <4>2. r \in FreeRuns /\ r[1] = p /\ r[2] = pmm.property[p]
        BY <4>1 DEF FreeRuns
      <4> QED BY <3>2, <4>2
    <3>3. ASSUME NEW r \in FreeRuns, x \in Run(r[1], r[2])
          PROVE  \E p \in pmm.free : x \in Run(p, pmm.property[p])
      <4>1. PICK p \in pmm.free : r = <<p, pmm.property[p]>>
        BY DEF FreeRuns
      <4> QED BY <3>3, <4>1
    <3> QED BY <3>1, <3>2, <3>3
  <2> QED BY <2>1, <1>3 DEF FreeSet
<1>5. ASSUME NEW p \in pmm.free, NEW q \in pmm.free, p < q
      PROVE  Run(p, pmm.property[p]) \cap Run(q, pmm.property[q]) = {}
  <2>1. p + pmm.property[p] <= q
    BY <1>1, <1>5 DEF Blocks
  <2>2. /\ \A x \in Pages : x \in Nat
        /\ p \in Nat /\ q \in Nat /\ pmm.property[p] \in Nat
    BY <1>2, PageNumbers
  <2>3. ASSUME NEW x, x \in Run(p, pmm.property[p]), x \in Run(q, pmm.property[q])
        PROVE  FALSE
    <3>1. x \in Pages /\ x < p + pmm.property[p]
      BY <2>3, <1>3
    <3>2. q <= x
      BY <2>3, <1>3
    <3>3. PICK e \in Nat : e = p + pmm.property[p]
      BY <2>2
    <3> QED BY <3>1, <3>2, <3>3, <2>1, <2>2
  <2> QED BY <2>3
<1>6. ASSUME NEW q \in FreeRuns, NEW r \in FreeRuns
      PROVE  q = r \/ Run(q[1], q[2]) \cap Run(r[1], r[2]) = {}
  <2>1. PICK x \in pmm.free : q = <<x, pmm.property[x]>>
    BY DEF FreeRuns
  <2>2. PICK y \in pmm.free : r = <<y, pmm.property[y]>>
    BY DEF FreeRuns
  <2>3. x = y \/ x < y \/ y < x
    <3>1. x \in Nat /\ y \in Nat
      BY <1>2, PageNumbers
    <3> QED BY <3>1
  <2>4. CASE x = y
    BY <2>1, <2>2, <2>4
  <2>5. CASE x < y
    BY <2>1, <2>2, <2>5, <1>5
  <2>6. CASE y < x
    <3>1. Run(y, pmm.property[y]) \cap Run(x, pmm.property[x]) = {}
      BY <2>6, <1>5
    <3> QED BY <2>1, <2>2, <3>1
  <2> QED BY <2>3, <2>4, <2>5, <2>6
<1>7. PageCount(FreeRuns) = Cardinality(Covered(FreeRuns))
  <2>1. Covered(FreeRuns) \subseteq Pages
    BY <1>4, RunCounts
  <2> QED BY <2>1, <1>6, DisjointRuns
<1> QED BY <1>1, <1>4, <1>7

(* What is in use when no object allocator is: the runs held.               *)
HeldRuns == {<<r.page, r.n>> : r \in held}

LEMMA UsedIsHeld ==
    pmm_manager # "buddy" /\ slob = slob_init /\ slub = slub_init => UsedRuns = HeldRuns
<1> SUFFICES ASSUME pmm_manager # "buddy", slob = slob_init, slub = slub_init
             PROVE  UsedRuns = HeldRuns
  OBVIOUS
<1>1. DOMAIN slob.ring = {arena} /\ slob.used = <<>> /\ slob.bigblocks = <<>> /\ slub.slab = <<>>
  BY DEF slob_init, slub_init
<1>2. DOMAIN slob.used = {} /\ DOMAIN slob.bigblocks = {} /\ DOMAIN slub.slab = {}
  BY <1>1
<1>3. HeapUnits(slob) = {}
  BY <1>1, <1>2 DEF HeapUnits
<1>4. HeapPages(slob) = {}
  BY <1>3 DEF HeapPages
<1>5. BigRuns(slob) = {}
  BY <1>2 DEF BigRuns
<1>6. \A r \in held : PagesAsked(r.n) = r.n
  BY DEF PagesAsked
<1> QED BY <1>2, <1>4, <1>5, <1>6 DEF UsedRuns, HeldRuns

(* The same of the state after a step.                                      *)
LEMMA UsedIsHeldNext ==
    (pmm_manager # "buddy" /\ slob = slob_init /\ slub = slub_init => UsedRuns = HeldRuns)'
BY UsedIsHeld, PTL

(* The runs held cover the pages held, and as many.                         *)
LEMMA HeldRunsCounted ==
    ASSUME HeldInv(held)
    PROVE  /\ Covered(HeldRuns) = HeldSet(held)
           /\ PageCount(HeldRuns) = Cardinality(HeldSet(held))
<1>1. /\ \A r \in held : /\ r.page \in Pages /\ r.n \in Nat /\ r.page \in Nat
                         /\ r.page + r.n <= NPages - 1
      /\ \A q, r \in held : q = r \/ q.page + q.n <= r.page \/ r.page + r.n <= q.page
  BY HeapAssumption, PageNumbers DEF HeldInv
<1>2. ASSUME NEW r \in held
      PROVE  Run(r.page, r.n) = {x \in Pages : r.page <= x /\ x < r.page + r.n}
  <2>1. PICK p \in Nat, k \in Nat : p = r.page /\ k = r.n /\ p \in Pages /\ p + k <= NPages - 1
    BY <1>1
  <2>2. FirstFree <= p /\ FirstFree \in Nat /\ NPages \in Nat
    BY <2>1, PageNumbers
  <2>3. \A x \in Run(p, k) : x \in Int /\ p <= x /\ x < p + k
    BY <2>1 DEF Run
  <2>4. \A x \in Run(p, k) : x \in Pages
    BY <2>1, <2>2, <2>3, PageNumbers
  <2>5. \A x \in Pages : p <= x /\ x < p + k => x \in Run(p, k)
    BY <2>1, PageNumbers DEF Run
  <2>6. Run(p, k) = {x \in Pages : p <= x /\ x < p + k}
    BY <2>3, <2>4, <2>5
  <2> QED BY <2>1, <2>6
<1>3. Covered(HeldRuns) = HeldSet(held)
  <2>1. \A x : x \in Covered(HeldRuns) <=> \E r \in held : x \in Run(r.page, r.n)
    <3> SUFFICES ASSUME NEW x
                 PROVE  x \in Covered(HeldRuns) <=> \E r \in held : x \in Run(r.page, r.n)
      OBVIOUS
    <3>1. x \in Covered(HeldRuns) <=> \E q \in HeldRuns : x \in Run(q[1], q[2])
      BY DEF Covered
    <3>2. ASSUME NEW r \in held, x \in Run(r.page, r.n)
          PROVE  \E q \in HeldRuns : x \in Run(q[1], q[2])
      <4>1. PICK q : q = <<r.page, r.n>>
        OBVIOUS
      <4>2. q \in HeldRuns /\ q[1] = r.page /\ q[2] = r.n
        BY <4>1 DEF HeldRuns
      <4> QED BY <3>2, <4>2
    <3>3. ASSUME NEW q \in HeldRuns, x \in Run(q[1], q[2])
          PROVE  \E r \in held : x \in Run(r.page, r.n)
      <4>1. PICK r \in held : q = <<r.page, r.n>>
        BY DEF HeldRuns
      <4> QED BY <3>3, <4>1
    <3> QED BY <3>1, <3>2, <3>3
  <2> QED BY <2>1, <1>2 DEF HeldSet
<1>4. ASSUME NEW q \in HeldRuns, NEW r \in HeldRuns
      PROVE  q = r \/ Run(q[1], q[2]) \cap Run(r[1], r[2]) = {}
  <2>1. PICK x \in held : q = <<x.page, x.n>>
    BY DEF HeldRuns
  <2>2. PICK y \in held : r = <<y.page, y.n>>
    BY DEF HeldRuns
  <2>3. CASE x = y
    BY <2>1, <2>2, <2>3
  <2>4. CASE x # y
    <3>1. /\ x.page + x.n <= y.page \/ y.page + y.n <= x.page
          /\ x.page \in Nat /\ y.page \in Nat /\ x.n \in Nat /\ y.n \in Nat
      BY <2>4, <1>1
    <3>2. \A z \in Pages : z \in Nat
      BY PageNumbers
    <3>3. Run(x.page, x.n) \cap Run(y.page, y.n) = {}
      <4> SUFFICES ASSUME NEW z \in Nat, x.page <= z, z < x.page + x.n, y.page <= z, z < y.page + y.n
                   PROVE  FALSE
        BY <1>2, <3>2
      <4> QED BY <3>1
    <3> QED BY <2>1, <2>2, <3>3
  <2> QED BY <2>3, <2>4
<1>5. PageCount(HeldRuns) = Cardinality(Covered(HeldRuns))
  <2>1. Covered(HeldRuns) \subseteq Pages
    BY <1>3 DEF HeldSet
  <2> QED BY <2>1, <1>4, DisjointRuns
<1> QED BY <1>3, <1>5

(* The list links the free blocks both ways, in order, with nothing to      *)
(* merge.                                                                   *)
LEMMA ListIsOk == ListInv(pmm) => ListOk
<1> SUFFICES ASSUME ListInv(pmm) PROVE ListOk
  OBVIOUS
<1> DEFINE list == FreeList(pmm)
<1>1. /\ pmm \in MemStates /\ Ring(pmm, pmm.free) /\ Blocks(pmm.free, pmm.property)
      /\ TouchAt(pmm.free, pmm.property, {}, {})
  BY DEF ListInv, ListLike
<1>2. pmm.free \in SUBSET Pages /\ pmm.property \in [Pages -> Nat]
  BY <1>1 DEF MemStates
<1>3. Follows(pmm, pmm.free, list)
  BY <1>1, <1>2, FreeListFollows
<1> HIDE DEF list
<1>4. /\ list \in Seq(pmm.free) /\ ToSet(list) = pmm.free /\ Len(list) \in Nat
      /\ DOMAIN list = 1..Len(list) /\ \A i \in 1..Len(list) : list[i] \in pmm.free
      /\ \A i, j \in 1..Len(list) : i < j => list[i] < list[j]
      /\ \A i \in 0..Len(list) : pmm.next[Stop(list, i)] = Stop(list, i + 1)
  BY <1>3 DEF Follows
<1>5. \A i \in 0..Len(list) : pmm.prev[Stop(list, i + 1)] = Stop(list, i)
  <2> SUFFICES ASSUME NEW i \in 0..Len(list)
               PROVE  pmm.prev[Stop(list, i + 1)] = Stop(list, i)
    OBVIOUS
  <2>1. Stop(list, i) \in pmm.free \cup {HEAD}
    BY <1>4 DEF Stop
  <2>2. pmm.prev[pmm.next[Stop(list, i)]] = Stop(list, i)
    BY <2>1, <1>1 DEF Ring
  <2> QED BY <2>2, <1>4
<1>6. \A i \in 1..Len(list) - 1 : list[i] + pmm.property[list[i]] < list[i + 1]
  <2> SUFFICES ASSUME NEW i \in 1..Len(list) - 1
               PROVE  list[i] + pmm.property[list[i]] < list[i + 1]
    OBVIOUS
  <2>1. i \in 1..Len(list) /\ i + 1 \in 1..Len(list) /\ i < i + 1
    BY <1>4
  <2>2. list[i] \in pmm.free /\ list[i + 1] \in pmm.free /\ list[i] < list[i + 1]
    BY <2>1, <1>4
  <2>3. PICK p \in pmm.free, q \in pmm.free : p = list[i] /\ q = list[i + 1] /\ p < q
    BY <2>2
  <2>4. p + pmm.property[p] <= q /\ p + pmm.property[p] # q
    BY <2>3, <1>1 DEF Blocks, TouchAt
  <2>5. p \in Nat /\ q \in Nat /\ pmm.property[p] \in Nat
    BY <1>2, PageNumbers
  <2>6. p + pmm.property[p] < q
    BY <2>4, <2>5
  <2> QED BY <2>3, <2>6
<1>7. pmm.nr_free = PageCount(FreeRuns)
  BY FreeRunsCounted
<1> QED BY <1>4, <1>5, <1>6, <1>7 DEF ListOk, Stop, list

-----------------------------------------------------------------------------
(* The kernels whose pages a list manager has to itself: best fit, and      *)
(* first fit as long as kmalloc is not called.                              *)
ListAlone ==
    /\ pmm_manager # "buddy"
    /\ pmm_manager = "first_fit" => ObjectSizes = {}

ListKernel == ListAlone => HeapInv

(* The invariant is stronger than PagesExact, where it holds.               *)
LEMMA HeapInvExact == ListAlone /\ HeapInv => PagesExact
<1> SUFFICES ASSUME ListAlone, HeapInv PROVE PagesExact
  OBVIOUS
<1> DEFINE A == FreeSet(pmm.free, pmm.property)
           B == HeldSet(held)
<1>1. /\ ListInv(pmm) /\ HeldInv(held) /\ A \cap B = {} /\ A \cup B = Pages
      /\ slob = slob_init /\ slub = slub_init /\ pmm_manager # "buddy"
  BY DEF HeapInv, ListAlone
<1>2. UsedRuns = HeldRuns
  BY <1>1, UsedIsHeld
<1>3. /\ Covered(FreeRuns) = A /\ PageCount(FreeRuns) = Cardinality(A)
      /\ Covered(UsedRuns) = B /\ PageCount(UsedRuns) = Cardinality(B)
  BY <1>1, <1>2, FreeRunsCounted, HeldRunsCounted
<1> HIDE DEF A, B
<1>4. Covered(FreeRuns \cup UsedRuns) = Pages
  <2>1. Covered(FreeRuns \cup UsedRuns) = Covered(FreeRuns) \cup Covered(UsedRuns)
    BY DEF Covered
  <2> QED BY <2>1, <1>1, <1>3
<1>5. PageCount(FreeRuns) + PageCount(UsedRuns) = Cardinality(Pages)
  <2>1. IsFiniteSet(A) /\ IsFiniteSet(B)
    <3>1. A \in SUBSET Pages /\ B \in SUBSET Pages
      BY <1>1
    <3> QED BY <3>1, RunCounts, FS_Subset
  <2>2. Cardinality(A \cup B) = Cardinality(A) + Cardinality(B) - Cardinality(A \cap B)
    BY <2>1, FS_Union
  <2>3. Cardinality(A \cap B) = 0
    BY <1>1, FS_EmptySet
  <2>4. Cardinality(A) \in Nat /\ Cardinality(B) \in Nat
    BY <2>1, FS_CardinalityType
  <2>5. Cardinality(Pages) = Cardinality(A) + Cardinality(B)
    <3>1. PICK i \in Nat, j \in Nat : i = Cardinality(A) /\ j = Cardinality(B)
      BY <2>4
    <3>2. Cardinality(A \cup B) = i + j - 0
      BY <2>2, <2>3, <3>1
    <3>3. Cardinality(A \cup B) = i + j
      BY <3>1, <3>2
    <3> QED BY <1>1, <3>1, <3>3
  <2> QED BY <2>5, <1>3
<1>6. ListOk /\ ~pmm.failed
  BY <1>1, ListIsOk DEF ListInv, ListLike
<1> QED BY <1>1, <1>4, <1>5, <1>6 DEF PagesExact

(* page_init hands all pages to init_memmap as one block.                   *)
LEMMA HeapStarts == HeapInit => ListKernel
<1> SUFFICES ASSUME HeapInit, ListAlone PROVE HeapInv
  BY DEF ListKernel
<1>1. /\ pmm_manager # "buddy" /\ pmm = init_memmap(pmm_manager) /\ held = {}
      /\ slob = slob_init /\ slub = slub_init /\ objs = {}
  BY DEF HeapInit, ListAlone
<1>2. pmm = PagesIn({FirstFree}, [p \in {FirstFree} |-> NPages - FirstFree],
                  [k \in Orders |-> <<>>], NPages - FirstFree, FirstFree)
  BY <1>1 DEF init_memmap
<1>3. /\ FirstFree \in Pages /\ HEAD \in Entry /\ FirstFree \in Entry /\ FirstFree # HEAD
      /\ NPages - FirstFree \in Nat /\ 1 <= NPages - FirstFree
      /\ FirstFree + (NPages - FirstFree) = NPages
  <2>1. FirstFree \in Nat \ {0} /\ NPages \in Nat \ {0} /\ FirstFree < NPages
    BY PageNumbers
  <2>2. FirstFree \in Pages
    BY <2>1, PageNumbers
  <2> QED BY <2>1, <2>2, PageNumbers
<1>4. /\ pmm.free = {FirstFree} /\ pmm.nr_free = NPages - FirstFree /\ ~pmm.failed
      /\ pmm.next = [e \in Entry |-> IF e = HEAD THEN FirstFree ELSE HEAD]
      /\ pmm.prev = [e \in Entry |-> IF e = HEAD THEN FirstFree ELSE HEAD]
      /\ pmm.property = [p \in Pages |-> IF p = FirstFree THEN NPages - FirstFree ELSE 0]
      /\ pmm \in MemStates
  BY <1>2, <1>3 DEF PagesIn, MemStates, Entry
<1>5. pmm.property[FirstFree] = NPages - FirstFree
  BY <1>3, <1>4
<1>6. Ring(pmm, pmm.free)
  BY <1>3, <1>4, PageNumbers DEF Ring
<1>7. Blocks(pmm.free, pmm.property) /\ TouchAt(pmm.free, pmm.property, {}, {})
  <2>1. \A p \in pmm.free : p = FirstFree /\ p + pmm.property[p] = NPages /\ 1 <= pmm.property[p]
    BY <1>3, <1>4, <1>5
  <2>2. FirstFree \in Nat /\ NPages \in Nat /\ FirstFree < NPages
    BY PageNumbers
  <2>3. \A p, q \in pmm.free : ~(p < q) /\ NPages # q
    BY <2>1, <2>2
  <2>4. \A p \in pmm.free : 1 <= pmm.property[p] /\ p + pmm.property[p] <= NPages
    BY <2>1, <2>2
  <2>5. Blocks(pmm.free, pmm.property)
    BY <2>3, <2>4 DEF Blocks
  <2>6. TouchAt(pmm.free, pmm.property, {}, {})
    BY <2>1, <2>3 DEF TouchAt
  <2> QED BY <2>5, <2>6
<1>8. FreeSet(pmm.free, pmm.property) = Pages
  <2>1. FirstFree \in pmm.free /\ FirstFree + pmm.property[FirstFree] = NPages
    BY <1>3, <1>4, <1>5
  <2>2. \A x \in Pages : FirstFree <= x /\ x < NPages
    BY PageNumbers
  <2> QED BY <2>1, <2>2 DEF FreeSet
<1>9. pmm.nr_free = Cardinality(Pages)
  <2>1. FirstFree \in Nat /\ NPages \in Nat /\ FirstFree < NPages
    BY PageNumbers
  <2>2. PICK b \in Int : b = NPages - 1
    BY <2>1
  <2>3. Cardinality(FirstFree..b) = IF FirstFree > b THEN 0 ELSE b - FirstFree + 1
    BY <2>1, FS_Interval
  <2>4. Cardinality(FirstFree..b) = NPages - FirstFree
    BY <2>1, <2>2, <2>3
  <2> QED BY <2>2, <2>4, <1>4 DEF Pages
<1>10. HeldSet(held) = {} /\ HeldInv(held)
  BY <1>1 DEF HeldSet, HeldInv
<1> QED BY <1>1, <1>4, <1>6, <1>7, <1>8, <1>9, <1>10 DEF HeapInv, ListInv, ListLike

(* alloc_pages moves a run from the free pages to those in use.             *)
LEMMA AllocPagesStep ==
    ASSUME HeapInv, pmm_manager # "buddy", TopStaysFree, NEW n \in PageSizes, AllocPages(n),
           NPages - 1 \notin Covered(UsedRuns')
    PROVE  HeapInv'
<1>1. /\ ListInv(pmm) /\ HeldInv(held) /\ slob = slob_init /\ slub = slub_init /\ objs = {}
      /\ FreeSet(pmm.free, pmm.property) \cap HeldSet(held) = {}
      /\ FreeSet(pmm.free, pmm.property) \cup HeldSet(held) = Pages
  BY DEF HeapInv
<1>2. n \in Nat \ {0}
  BY HeapAssumption
<1> DEFINE page == Chosen(pmm_manager, pmm, n)
           r == [page |-> page, n |-> n]
<1>3. /\ page # null /\ pmm' = Answer(pmm, page, n).m
      /\ held' = held \cup {r}
      /\ pmm_manager' = pmm_manager /\ slob' = slob /\ slub' = slub /\ objs' = objs
  BY DEF AllocPages, alloc_pages, list_alloc_pages, Answer
<1> HIDE DEF page
<1>4. pmm \in MemStates /\ Ring(pmm, pmm.free)
  BY <1>1 DEF ListInv, ListLike
<1>5. page \in pmm.free /\ pmm.property[page] >= n
  BY <1>3, <1>4, ChosenFits DEF page
<1>6. page \in Pages /\ pmm.property[page] \in Nat /\ page \in Nat
  BY <1>4, <1>5, PageNumbers DEF MemStates
<1>7. n <= pmm.property[page]
  BY <1>2, <1>5, <1>6
<1>8. /\ ListInv(pmm')
      /\ FreeSet(pmm'.free, pmm'.property) = FreeSet(pmm.free, pmm.property) \ Run(page, n)
      /\ Run(page, n) \subseteq FreeSet(pmm.free, pmm.property)
  BY <1>1, <1>2, <1>3, <1>5, <1>7, AllocStep
<1>9. Run(page, n) = {x \in Pages : page <= x /\ x < page + n}
  <2>1. \A x \in Run(page, n) : x \in Pages /\ page <= x /\ x < page + n
    BY <1>2, <1>6, <1>8, RunCounts DEF Run
  <2>2. \A x \in Pages : page <= x /\ x < page + n => x \in Run(page, n)
    BY <1>2, <1>6, PageNumbers DEF Run
  <2> QED BY <2>1, <2>2
<1>10. page + n <= NPages - 1
  <2>1. UsedRuns' = HeldRuns'
    <3>1. pmm_manager' # "buddy" /\ slob' = slob_init /\ slub' = slub_init
      BY <1>1, <1>3
    <3> QED BY <3>1, UsedIsHeldNext
  <2>2. <<page, n>> \in HeldRuns'
    <3>1. r \in held' /\ r.page = page /\ r.n = n
      BY <1>3
    <3> HIDE DEF r
    <3> QED BY <3>1 DEF HeldRuns
  <2>3. NPages - 1 \notin Run(page, n)
    <3>1. PICK q : q = <<page, n>>
      OBVIOUS
    <3>2. q \in UsedRuns' /\ q[1] = page /\ q[2] = n
      BY <2>1, <2>2, <3>1
    <3>3. Run(q[1], q[2]) \subseteq Covered(UsedRuns')
      BY <3>2 DEF Covered
    <3> QED BY <3>2, <3>3
  <2>4. page <= NPages - 1 /\ NPages \in Nat /\ NPages - 1 \in Pages
    BY <1>6, PageNumbers
  <2>5. ~(NPages - 1 < page + n)
    BY <2>3, <2>4, <1>9
  <2> QED BY <1>2, <1>6, <2>4, <2>5
<1>11. HeldSet(held') = HeldSet(held) \cup Run(page, n)
  <2>1. r.page = page /\ r.n = n
    OBVIOUS
  <2>2. ASSUME NEW x \in Pages
        PROVE  x \in HeldSet(held') <=> x \in HeldSet(held) \/ (page <= x /\ x < page + n)
    BY <1>3, <2>1 DEF HeldSet
  <2>3. HeldSet(held') \subseteq Pages /\ HeldSet(held) \subseteq Pages
    BY DEF HeldSet
  <2> QED BY <1>9, <2>2, <2>3
<1>12. HeldInv(held')
  <2>1. r \in [page : Pages, n : PageSizes] /\ r.page = page /\ r.n = n
    BY <1>6
  <2>2. ASSUME NEW q \in held
        PROVE  q.page + q.n <= page \/ page + n <= q.page
    <3>1. PICK a \in Nat, k \in Nat \ {0} : a = q.page /\ k = q.n /\ a \in Pages
      BY <1>1, HeapAssumption, PageNumbers DEF HeldInv
    <3> SUFFICES ASSUME page < a + k, a < page + n PROVE FALSE
      BY <3>1, <1>2, <1>6
    <3>2. CASE a <= page
      <4>1. page \in HeldSet(held)
        BY <3>1, <3>2, <1>6 DEF HeldSet
      <4>2. page \in Run(page, n)
        BY <1>2, <1>6, <1>9
      <4> QED BY <4>1, <4>2, <1>1, <1>8
    <3>3. CASE page < a
      <4>1. a \in HeldSet(held)
        BY <3>1 DEF HeldSet
      <4>2. a \in Run(page, n)
        BY <3>1, <3>3, <1>2, <1>6, <1>9
      <4> QED BY <4>1, <4>2, <1>1, <1>8
    <3> QED BY <3>1, <3>2, <3>3, <1>6
  <2>3. held' \subseteq [page : Pages, n : PageSizes]
    BY <1>1, <1>3, <2>1 DEF HeldInv
  <2>4. \A q \in held' : q.page + q.n <= NPages - 1
    BY <1>1, <1>3, <1>10, <2>1 DEF HeldInv
  <2>5. \A p, q \in held' : p = q \/ p.page + p.n <= q.page \/ q.page + q.n <= p.page
    <3> SUFFICES ASSUME NEW p \in held', NEW q \in held', p # q
                 PROVE  p.page + p.n <= q.page \/ q.page + q.n <= p.page
      OBVIOUS
    <3>1. CASE p \in held /\ q \in held
      BY <3>1, <1>1 DEF HeldInv
    <3>2. CASE p = r /\ q \in held
      BY <3>2, <2>1, <2>2
    <3>3. CASE q = r /\ p \in held
      BY <3>3, <2>1, <2>2
    <3> QED BY <3>1, <3>2, <3>3, <1>3
  <2> QED BY <2>3, <2>4, <2>5 DEF HeldInv
<1>13. /\ FreeSet(pmm'.free, pmm'.property) \cap HeldSet(held') = {}
       /\ FreeSet(pmm'.free, pmm'.property) \cup HeldSet(held') = Pages
  BY <1>1, <1>8, <1>11
<1> QED BY <1>1, <1>3, <1>8, <1>12, <1>13 DEF HeapInv

(* free_pages gives a run back.                                             *)
LEMMA FreePagesStep ==
    ASSUME HeapInv, pmm_manager # "buddy", NPages - 1 \notin HeldSet(held),
           NEW r \in held, FreePages(r)
    PROVE  HeapInv'
<1>1. /\ ListInv(pmm) /\ HeldInv(held) /\ slob = slob_init /\ slub = slub_init /\ objs = {}
      /\ FreeSet(pmm.free, pmm.property) \cap HeldSet(held) = {}
      /\ FreeSet(pmm.free, pmm.property) \cup HeldSet(held) = Pages
  BY DEF HeapInv
<1>2. PICK base \in Pages, n \in Nat \ {0} : base = r.page /\ n = r.n /\ base + n <= NPages - 1
  BY <1>1, HeapAssumption DEF HeldInv
<1>3. /\ pmm' = list_free_pages(pmm, base, n)
      /\ held' = held \ {r}
      /\ pmm_manager' = pmm_manager /\ slob' = slob /\ slub' = slub /\ objs' = objs
  BY <1>2 DEF FreePages, free_pages
<1>4. base \in Nat /\ NPages \in Nat /\ FirstFree \in Nat /\ FirstFree <= base
      /\ \A x \in Pages : x \in Nat
  BY PageNumbers
<1>5. Run(base, n) = {x \in Pages : base <= x /\ x < base + n}
  <2>1. \A x \in Run(base, n) : x \in Int /\ base <= x /\ x < base + n
    BY <1>4 DEF Run
  <2>2. \A x \in Run(base, n) : x \in Pages
    BY <2>1, <1>2, <1>4, PageNumbers
  <2>3. \A x \in Pages : base <= x /\ x < base + n => x \in Run(base, n)
    BY <1>4 DEF Run
  <2> QED BY <2>1, <2>2, <2>3
<1>6. Run(base, n) \subseteq HeldSet(held)
  BY <1>2, <1>5 DEF HeldSet
<1>7. NPages - 1 \in FreeSet(pmm.free, pmm.property)
  <2>1. NPages - 1 \in Pages
    BY PageNumbers
  <2> QED BY <2>1, <1>1
<1>8. /\ ListInv(pmm')
      /\ FreeSet(pmm'.free, pmm'.property) = FreeSet(pmm.free, pmm.property) \cup Run(base, n)
  <2>1. Run(base, n) \cap FreeSet(pmm.free, pmm.property) = {}
    BY <1>1, <1>6
  <2> QED BY <2>1, <1>1, <1>2, <1>3, <1>7, FreeStep
<1>9. HeldSet(held') = HeldSet(held) \ Run(base, n)
  <2>1. ASSUME NEW x \in Pages
        PROVE  x \in HeldSet(held') <=> x \in HeldSet(held) /\ ~(base <= x /\ x < base + n)
    <3>1. ASSUME NEW q \in held, q # r, q.page <= x, x < q.page + q.n, base <= x, x < base + n
          PROVE  FALSE
      <4>1. PICK a \in Nat, k \in Nat : a = q.page /\ k = q.n
        BY <1>1, HeapAssumption, PageNumbers DEF HeldInv
      <4>2. a + k <= base \/ base + n <= a
        BY <3>1, <4>1, <1>1, <1>2 DEF HeldInv
      <4> QED BY <3>1, <4>1, <4>2, <1>4
    <3>2. ASSUME NEW q \in held, q.page <= x, x < q.page + q.n, ~(base <= x /\ x < base + n)
          PROVE  q # r
      BY <3>2, <1>2
    <3> QED BY <3>1, <3>2, <1>3 DEF HeldSet
  <2>2. HeldSet(held') \subseteq Pages /\ HeldSet(held) \subseteq Pages
    BY DEF HeldSet
  <2> QED BY <2>1, <2>2, <1>5
<1>10. HeldInv(held')
  BY <1>1, <1>3 DEF HeldInv
<1>11. /\ FreeSet(pmm'.free, pmm'.property) \cap HeldSet(held') = {}
       /\ FreeSet(pmm'.free, pmm'.property) \cup HeldSet(held') = Pages
  BY <1>1, <1>6, <1>8, <1>9
<1> QED BY <1>1, <1>3, <1>8, <1>10, <1>11 DEF HeapInv

(* In every reachable state the last page is free.                          *)
LEMMA TopIsFree ==
    ASSUME HeldInv(held) PROVE NPages - 1 \notin HeldSet(held)
<1> SUFFICES ASSUME NEW r \in held, NPages - 1 < r.page + r.n PROVE FALSE
  BY DEF HeldSet
<1>1. PICK a \in Nat, k \in Nat : a = r.page /\ k = r.n /\ a + k <= NPages - 1
  BY HeapAssumption, PageNumbers DEF HeldInv
<1>2. NPages \in Nat
  BY PageNumbers
<1> QED BY <1>1, <1>2

(* No other operation runs in these kernels.                                *)
LEMMA HeapSteps ==
    ASSUME TopStaysFree, ListKernel, [HeapNext]_memVars
    PROVE  ListKernel'
<1>1. CASE UNCHANGED memVars
  BY <1>1 DEF memVars, ListKernel, ListAlone, HeapInv
<1>2. CASE HeapNext
  <2>1. pmm_manager' = pmm_manager
    BY <1>2 DEF HeapNext, AllocPages, FreePages, KMalloc, KFree, SlubAlloc, SlubFree
  <2> SUFFICES ASSUME ListAlone PROVE HeapInv'
    BY <2>1 DEF ListKernel, ListAlone
  <2>2. HeapInv /\ pmm_manager # "buddy"
    BY DEF ListKernel, ListAlone
  <2>3. objs = {} /\ HeldInv(held)
    BY <2>2 DEF HeapInv
  <2>4. NPages - 1 \notin Covered(UsedRuns')
    BY <1>2, <2>2 DEF HeapNext
  <2>5. ASSUME NEW n \in PageSizes, AllocPages(n) PROVE HeapInv'
    BY <2>2, <2>4, <2>5, AllocPagesStep
  <2>6. ASSUME NEW r \in held, FreePages(r) PROVE HeapInv'
    BY <2>2, <2>3, <2>6, TopIsFree, FreePagesStep
  <2>7. ASSUME NEW size \in ObjectSizes, KMalloc(size) PROVE FALSE
    BY <2>7 DEF KMalloc, ListAlone
  <2>8. ASSUME NEW k \in Caches, SlubAlloc(k) PROVE FALSE
    BY <2>2, <2>8 DEF SlubAlloc
  <2> QED BY <1>2, <2>3, <2>5, <2>6, <2>7, <2>8 DEF HeapNext
<1> QED BY <1>1, <1>2

(* default_alloc_pages, default_free_pages and those of best fit: as long   *)
(* as the last page of the memory stays free and no object allocator takes  *)
(* from the same pages, every page is in one free block or in use by one    *)
(* owner, the list is linked both ways in the order of addresses, free      *)
(* blocks are merged, nr_free counts their pages, and no assertion on       *)
(* PG_property fails.                                                       *)
THEOREM ListPagesExact ==
    ASSUME TopStaysFree
    PROVE  HeapSpec => [](ListAlone => PagesExact)
<1>1. HeapInit => ListKernel
  BY HeapStarts
<1>2. ListKernel /\ [HeapNext]_memVars => ListKernel'
  BY HeapSteps
<1>3. ListKernel => (ListAlone => PagesExact)
  BY HeapInvExact DEF ListKernel
<1> QED BY <1>1, <1>2, <1>3, PTL DEF HeapSpec

-----------------------------------------------------------------------------
(* What alloc_pages answers.                                                *)

(* A run of free pages lies in one block, since blocks that touch would     *)
(* have been merged.                                                        *)
LEMMA RunInBlock ==
    ASSUME ListInv(pmm), NEW p \in Pages, NEW n \in Nat \ {0},
           Run(p, n) \subseteq FreeSet(pmm.free, pmm.property)
    PROVE  \E f \in pmm.free : f <= p /\ p + n <= f + pmm.property[f] /\ n <= pmm.property[f]
<1>1. /\ pmm \in MemStates /\ Blocks(pmm.free, pmm.property) /\ TouchAt(pmm.free, pmm.property, {}, {})
  BY DEF ListInv, ListLike
<1>2. pmm.free \in SUBSET Pages /\ pmm.property \in [Pages -> Nat]
  BY <1>1 DEF MemStates
<1>3. /\ \A f \in pmm.free : f \in Nat /\ pmm.property[f] \in Nat
      /\ \A f, g \in pmm.free : f < g => f + pmm.property[f] < g
  <2>1. \A f \in pmm.free : f \in Pages
    BY <1>2
  <2>2. \A f \in pmm.free : f \in Nat /\ pmm.property[f] \in Nat
    BY <2>1, <1>2, PageNumbers
  <2>3. ASSUME NEW f \in pmm.free, NEW g \in pmm.free, f < g
        PROVE  f + pmm.property[f] < g
    <3>1. f + pmm.property[f] <= g
      BY <2>3, <1>1 DEF Blocks
    <3>2. f + pmm.property[f] # g
      BY <1>1 DEF TouchAt
    <3>3. PICK a, b, n0 \in Nat : a = f /\ b = g /\ n0 = pmm.property[f]
      BY <2>2
    <3> QED BY <3>1, <3>2, <3>3
  <2> QED BY <2>2, <2>3
<1>4. p \in Nat /\ p \in Run(p, n)
  <2>1. p \in Nat
    BY PageNumbers
  <2> QED BY <2>1 DEF Run
<1>5. PICK f \in pmm.free : f <= p /\ p < f + pmm.property[f]
  BY <1>4 DEF FreeSet
<1>6. PICK e \in Nat : e = f + pmm.property[f]
  BY <1>3
<1>7. ASSUME e < p + n PROVE FALSE
  <2>1. e \in Run(p, n)
    BY <1>4, <1>5, <1>6, <1>7 DEF Run
  <2>2. PICK g \in pmm.free : g <= e /\ e < g + pmm.property[g]
    BY <2>1 DEF FreeSet
  <2>3. g \in Nat /\ pmm.property[g] \in Nat /\ f \in Nat /\ pmm.property[f] \in Nat
    BY <1>3
  <2>4. CASE g = f
    BY <2>2, <2>3, <2>4, <1>6
  <2>5. CASE f < g
    <3>1. e < g
      BY <2>5, <1>3, <1>6
    <3> QED BY <3>1, <2>2, <2>3
  <2>6. CASE g < f
    <3>1. g + pmm.property[g] < f
      BY <2>6, <1>3
    <3> QED BY <3>1, <2>2, <2>3, <1>6
  <2> QED BY <2>3, <2>4, <2>5, <2>6
<1>8. f \in Nat /\ pmm.property[f] \in Nat
  BY <1>3
<1> QED BY <1>4, <1>5, <1>6, <1>7, <1>8

(* The free blocks that are large enough are where the allocator looks.     *)
LEMMA BlockHasRun ==
    ASSUME ListInv(pmm), NEW f \in pmm.free, NEW n \in Nat \ {0}, n <= pmm.property[f]
    PROVE  /\ f \in Pages /\ Run(f, n) \subseteq FreeSet(pmm.free, pmm.property)
           /\ n <= pmm.nr_free
<1>1. /\ pmm \in MemStates /\ Blocks(pmm.free, pmm.property)
      /\ pmm.nr_free = Cardinality(FreeSet(pmm.free, pmm.property))
  BY DEF ListInv, ListLike
<1>2. pmm.free \in SUBSET Pages /\ pmm.property \in [Pages -> Nat]
  BY <1>1 DEF MemStates
<1>3. /\ f \in Pages /\ f \in Nat /\ pmm.property[f] \in Nat /\ FirstFree <= f
      /\ FirstFree \in Nat /\ NPages \in Nat /\ f + pmm.property[f] <= NPages
  <2>1. f \in Pages /\ pmm.property[f] \in Nat
    BY <1>2
  <2>2. f + pmm.property[f] <= NPages
    BY <1>1 DEF Blocks
  <2> QED BY <2>1, <2>2, PageNumbers
<1>4. ASSUME NEW x \in Run(f, n) PROVE x \in FreeSet(pmm.free, pmm.property)
  <2>1. x \in Int /\ f <= x /\ x < f + n
    BY <1>3 DEF Run
  <2>2. x < f + pmm.property[f]
    BY <2>1, <1>3
  <2>3. x \in Pages
    BY <2>1, <2>2, <1>3, PageNumbers
  <2> QED BY <2>1, <2>2, <2>3 DEF FreeSet
<1>5. Run(f, n) \in SUBSET FreeSet(pmm.free, pmm.property)
  BY <1>4
<1>6. n <= pmm.nr_free
  <2>1. Cardinality(Run(f, n)) <= Cardinality(FreeSet(pmm.free, pmm.property))
    BY <1>5, RunCounts, FS_Subset
  <2>2. Cardinality(Run(f, n)) = n
    BY <1>3, RunCounts
  <2> QED BY <2>1, <2>2, <1>1
<1> QED BY <1>3, <1>5, <1>6

(* Search answers NULL only when no block is large enough; the block it     *)
(* answers with is the lowest such, or of the least size for best fit.      *)
Best(manager, s, F, n, page) ==
    /\ page \in F /\ n <= s.property[page]
    /\ \A f \in F : n <= s.property[f] =>
          IF manager = "best_fit" THEN s.property[page] <= s.property[f] ELSE page <= f

LEMMA SearchIsBest ==
    ASSUME NEW manager, NEW s \in MemStates, NEW F \in SUBSET Pages, NEW list,
           Follows(s, F, list), NEW n \in Nat,
           NEW page, page = Search(manager, s, list, n), NEW top \in F, n <= s.property[top]
    PROVE  Best(manager, s, F, n, page)
<1> DEFINE fits == {i \in DOMAIN list : s.property[list[i]] >= n}
           small == {i \in fits : \A j \in fits : s.property[list[i]] <= s.property[list[j]]}
<1>1. PICK D : /\ D = DOMAIN list /\ D \subseteq Nat
               /\ F = {list[i] : i \in D}
               /\ \A i, j \in D : i < j => list[i] < list[j]
  <2>1. list \in Seq(F) /\ ToSet(list) = F
    BY DEF Follows
  <2>2. DOMAIN list = 1..Len(list) /\ Len(list) \in Nat
    BY <2>1
  <2>3. F = {list[i] : i \in DOMAIN list}
    BY <2>1 DEF ToSet
  <2>4. \A i, j \in DOMAIN list : i < j => list[i] < list[j]
    BY <2>2 DEF Follows
  <2>5. DOMAIN list \subseteq Nat
    BY <2>2
  <2> HIDE DEF ToSet
  <2> QED BY <2>3, <2>4, <2>5
<1>2. \A p \in F : s.property[p] \in Nat /\ p \in Nat
  BY PageNumbers DEF MemStates
<1>3. /\ fits \subseteq D /\ fits # {}
      /\ \A i \in D : n <= s.property[list[i]] <=> i \in fits
  <2>1. \A i \in D : n <= s.property[list[i]] <=> s.property[list[i]] >= n
    BY <1>1, <1>2
  <2>2. PICK t \in D : list[t] = top
    BY <1>1
  <2> QED BY <1>1, <2>1, <2>2
<1>4. page = list[Min(IF manager = "best_fit" THEN small ELSE fits)]
  BY <1>3 DEF Search, Pick
<1> HIDE DEF fits
<1>5. ASSUME NEW S, S \subseteq fits, S # {} PROVE Min(S) \in S /\ \A j \in S : Min(S) <= j
  <2>1. S \subseteq Nat
    BY <1>1, <1>3, <1>5
  <2>2. PICK k \in S : \A j \in S : k <= j
    BY <1>5, <2>1, LeastNat
  <2>3. Min(S) = k
    BY <2>1, <2>2, MinIs
  <2> QED BY <2>2, <2>3
<1>6. CASE manager = "best_fit"
  <2>1. small # {} /\ small \subseteq fits
    <3> DEFINE sizes == {s.property[list[i]] : i \in fits}
    <3>1. sizes \subseteq Nat /\ sizes # {}
      BY <1>1, <1>2, <1>3
    <3>2. PICK v \in sizes : \A w \in sizes : v <= w
      <4> HIDE DEF sizes
      <4> QED BY <3>1, LeastNat
    <3>3. PICK i \in fits : v = s.property[list[i]]
      BY <3>2
    <3>4. \A j \in fits : s.property[list[i]] <= s.property[list[j]]
      BY <3>2, <3>3
    <3> QED BY <3>3, <3>4
  <2>2. Min(small) \in small
    <3> HIDE DEF small
    <3> QED BY <2>1, <1>5
  <2>3. PICK k \in small : page = list[k]
    BY <2>2, <1>4, <1>6
  <2>4. k \in fits /\ \A j \in fits : s.property[page] <= s.property[list[j]]
    BY <2>3
  <2>5. page \in F /\ n <= s.property[page]
    BY <2>3, <2>4, <1>1, <1>3
  <2>6. ASSUME NEW f \in F, n <= s.property[f] PROVE s.property[page] <= s.property[f]
    <3>1. PICK i \in D : f = list[i]
      BY <1>1
    <3>2. i \in fits
      BY <3>1, <2>6, <1>3
    <3> QED BY <3>1, <3>2, <2>4
  <2> QED BY <2>5, <2>6, <1>6 DEF Best
<1>7. CASE manager # "best_fit"
  <2>1. Min(fits) \in fits /\ \A j \in fits : Min(fits) <= j
    BY <1>3, <1>5
  <2>2. PICK k \in fits : page = list[k] /\ \A j \in fits : k <= j
    BY <2>1, <1>4, <1>7
  <2>3. page \in F /\ n <= s.property[page]
    BY <2>2, <1>1, <1>3
  <2>4. ASSUME NEW f \in F, n <= s.property[f] PROVE page <= f
    <3>1. PICK i \in D : f = list[i]
      BY <1>1
    <3>2. i \in fits
      BY <3>1, <2>4, <1>3
    <3>3. k <= i /\ k \in Nat /\ i \in Nat /\ k \in D
      BY <3>2, <2>2, <1>1, <1>3
    <3>4. CASE k = i
      BY <3>1, <3>4, <2>2, <1>2
    <3>5. CASE k # i
      <4>1. list[k] < list[i]
        BY <3>3, <3>5, <1>1
      <4> QED BY <4>1, <3>1, <2>2, <2>3, <1>2
    <3> QED BY <3>4, <3>5
  <2> QED BY <2>3, <2>4, <1>7 DEF Best
<1> QED BY <1>6, <1>7

(* With the invariant alloc_pages answers rightly.                          *)
LEMMA AnswersRight == ListAlone /\ HeapInv => PagesAnswered
<1> SUFFICES ASSUME ListAlone, HeapInv, NEW n \in 1..Cardinality(Pages)
             PROVE  RightPage(n, alloc_pages(pmm_manager, pmm, n).page, Places(n))
  BY DEF PagesAnswered
<1> DEFINE page == Chosen(pmm_manager, pmm, n)
           free == FreeSet(pmm.free, pmm.property)
<1>1. ListInv(pmm) /\ pmm_manager # "buddy"
  BY DEF HeapInv, ListAlone
<1>2. pmm \in MemStates /\ Ring(pmm, pmm.free) /\ pmm.nr_free = Cardinality(free)
  BY <1>1 DEF ListInv, ListLike
<1>3. pmm.free \in SUBSET Pages /\ pmm.property \in [Pages -> Nat]
  BY <1>2 DEF MemStates
<1>4. n \in Nat \ {0}
  <2>1. Cardinality(Pages) \in Nat
    BY RunCounts, FS_CardinalityType
  <2> QED BY <2>1
<1>5. alloc_pages(pmm_manager, pmm, n).page = page
  BY <1>1 DEF alloc_pages, list_alloc_pages, Answer
<1>6. Places(n) = {p \in Pages : Run(p, n) \subseteq free}
  BY <1>1, FreeRunsCounted DEF Places, PagesAsked
<1>7. Follows(pmm, pmm.free, FreeList(pmm))
  BY <1>2, <1>3, FreeListFollows
<1>8. page = IF n > pmm.nr_free THEN null ELSE Search(pmm_manager, pmm, FreeList(pmm), n)
  BY DEF Chosen
<1> HIDE DEF page, free
<1>9. CASE \A f \in pmm.free : ~(n <= pmm.property[f])
  <2>1. Places(n) = {}
    <3> SUFFICES ASSUME NEW p \in Pages, Run(p, n) \subseteq free PROVE FALSE
      BY <1>6
    <3>1. \E f \in pmm.free : n <= pmm.property[f]
      BY <1>1, <1>4, RunInBlock DEF free
    <3> QED BY <3>1, <1>9
  <2>2. page = null
    <3> SUFFICES ASSUME page # null PROVE FALSE
      OBVIOUS
    <3>1. page \in pmm.free /\ pmm.property[page] >= n
      BY <1>2, ChosenFits DEF page
    <3>2. n <= pmm.property[page]
      BY <3>1, <1>3, <1>4
    <3> QED BY <3>1, <3>2, <1>9
  <2> QED BY <2>1, <2>2, <1>5 DEF RightPage
<1>10. CASE \E f \in pmm.free : n <= pmm.property[f]
  <2>1. PICK top \in pmm.free : n <= pmm.property[top]
    BY <1>10
  <2>2. n <= pmm.nr_free
    BY <2>1, <1>1, <1>4, BlockHasRun
  <2>3. page = Search(pmm_manager, pmm, FreeList(pmm), n)
    <3>1. pmm.nr_free \in Int
      BY <1>2 DEF MemStates
    <3> QED BY <2>2, <3>1, <1>4, <1>8
  <2>4. Best(pmm_manager, pmm, pmm.free, n, page)
    BY <2>1, <2>3, <1>2, <1>3, <1>4, <1>7, SearchIsBest
  <2>5. page \in pmm.free /\ n <= pmm.property[page] /\ page \in Pages
    BY <2>4, <1>3 DEF Best
  <2>6. page \in Places(n) /\ Places(n) # {}
    <3>1. Run(page, n) \subseteq free
      BY <2>5, <1>1, <1>4, BlockHasRun DEF free
    <3> QED BY <3>1, <2>5, <1>6
  <2>7. ASSUME pmm_manager = "first_fit" PROVE page = Min(Places(n))
    <3>1. \A p \in Places(n) : page <= p
      <4> SUFFICES ASSUME NEW p \in Pages, Run(p, n) \subseteq free PROVE page <= p
        BY <1>6
      <4>1. PICK f \in pmm.free : f <= p /\ n <= pmm.property[f]
        BY <1>1, <1>4, RunInBlock DEF free
      <4>2. page <= f
        BY <4>1, <2>4, <2>7 DEF Best
      <4>3. page \in Nat /\ f \in Nat /\ p \in Nat
        BY <2>5, <1>3, PageNumbers
      <4> QED BY <4>1, <4>2, <4>3
    <3>2. Places(n) \subseteq Nat
      BY <1>6, PageNumbers
    <3>3. Min(Places(n)) = page
      BY <2>6, <3>1, <3>2, MinIs
    <3> QED BY <3>3
  <2>8. ASSUME pmm_manager = "best_fit"
        PROVE  pmm.property[page] = Min({r[2] : r \in {f \in FreeRuns : f[2] >= n}})
    <3> DEFINE sizes == {r[2] : r \in {f \in FreeRuns : f[2] >= n}}
    <3>1. ASSUME NEW k \in sizes PROVE k \in Nat /\ pmm.property[page] <= k
      <4>1. PICK r \in FreeRuns : r[2] >= n /\ k = r[2]
        OBVIOUS
      <4>2. PICK f \in pmm.free : r = <<f, pmm.property[f]>>
        BY DEF FreeRuns
      <4>3. k = pmm.property[f] /\ pmm.property[f] \in Nat /\ n <= pmm.property[f]
        BY <4>1, <4>2, <1>3, <1>4
      <4>4. pmm.property[page] <= pmm.property[f]
        BY <4>3, <2>4, <2>8 DEF Best
      <4> QED BY <4>3, <4>4
    <3>2. pmm.property[page] \in sizes
      <4>1. PICK r : r = <<page, pmm.property[page]>>
        OBVIOUS
      <4>2. r \in FreeRuns /\ r[2] = pmm.property[page]
        BY <4>1, <2>5 DEF FreeRuns
      <4>3. r[2] >= n
        BY <4>2, <2>5, <1>3, <1>4
      <4>4. r \in {f \in FreeRuns : f[2] >= n}
        BY <4>2, <4>3
      <4> QED BY <4>2, <4>4
    <3> HIDE DEF sizes
    <3>3. sizes \subseteq Nat
      BY <3>1
    <3>4. Min(sizes) = pmm.property[page]
      BY <3>1, <3>2, <3>3, MinIs
    <3> QED BY <3>4 DEF sizes
  <2> QED BY <2>6, <2>7, <2>8, <1>5 DEF RightPage
<1> QED BY <1>9, <1>10

(* default_alloc_pages and best_fit_alloc_pages answer null just when no    *)
(* run of free pages is as long as was asked for, and otherwise with the    *)
(* lowest such run, or the start of the smallest block that has one.        *)
THEOREM ListPagesAnswered ==
    ASSUME TopStaysFree
    PROVE  HeapSpec => [](ListAlone => PagesAnswered)
<1>1. HeapInit => ListKernel
  BY HeapStarts
<1>2. ListKernel /\ [HeapNext]_memVars => ListKernel'
  BY HeapSteps
<1>3. ListKernel => (ListAlone => PagesAnswered)
  BY AnswersRight DEF ListKernel
<1> QED BY <1>1, <1>2, <1>3, PTL DEF HeapSpec

(* The kernel of lab2 with best fit has no other allocator: all that        *)
(* AnswersExact says holds of it.                                           *)
THEOREM BestFitAnswers ==
    ASSUME TopStaysFree
    PROVE  HeapSpec => [](pmm_manager = "best_fit" => AnswersExact)
<1>1. (ListAlone => PagesAnswered) => (pmm_manager = "best_fit" => AnswersExact)
  BY DEF ListAlone, AnswersExact, ObjectsAnswered
<1> QED BY <1>1, ListPagesAnswered, PTL

=============================================================================
