-------------------------- MODULE TimerQueue_proofs --------------------------
(***************************************************************************)
(* Proofs about TimerQueue: a timer is in the tree exactly while it is set *)
(* and has not expired, its key stays within TIMER_LAZY_DELAY of what was  *)
(* asked for, no timer expires early, and none that is due is left behind  *)
(* but the one hidden by a wrapped key; for any width, events, timeouts    *)
(* and steps of the clock.                                                 *)
(***************************************************************************)
EXTENDS TimerQueue, FiniteSetTheorems, SequenceTheorems, WellFoundedInduction,
        TLAPS

(***************************************************************************)
(* Insertion and deletion in an ordered queue, for any queue, node and     *)
(* key.                                                                    *)
(***************************************************************************)
Entry == [node : Nodes, key : Keys]
Entries(q) == {q[j] : j \in DOMAIN q}

(* A node is in the queue at most once, and the keys never descend.        *)
Ordered(q) ==
  /\ q \in Seq(Entry)
  /\ \A a, b \in 1 .. Len(q) :
       a < b => q[a].node # q[b].node /\ q[a].key <= q[b].key

(* Of a set of numbers without holes the count is the largest.             *)
LEMMA NoHoles ==
  ASSUME NEW n \in Nat, NEW S \in SUBSET (1 .. n),
         \A b \in S : \A a \in 1 .. n : a < b => a \in S
  PROVE  Cardinality(S) \in 0 .. n /\ S = 1 .. Cardinality(S)
<1>1. CASE S = 1 .. n
  <2>1. Cardinality(1 .. n) = n
    BY FS_Interval
  <2> QED BY <1>1, <2>1
<1>2. CASE S # 1 .. n
  <2> DEFINE R == OpToRel(<, Nat)
             T == (1 .. n) \ S
  <2>1. PICK m \in T : \A y \in T : ~ (<<y, m>> \in R)
    <3>1. IsWellFoundedOn(R, Nat)
      BY NatLessThanWellFounded
    <3>2. T \subseteq Nat /\ T # {}
      <4>1. \E x \in 1 .. n : x \notin S
        BY <1>2
      <4> QED BY <4>1
    <3> HIDE DEF R, T
    <3> QED BY <3>1, <3>2, WFMin
  <2>2. \A y \in T : m <= y
    <3>1. ASSUME NEW y \in T, y < m PROVE FALSE
      <4>1. y \in Nat /\ m \in Nat
        OBVIOUS
      <4>2. <<y, m>> \in R
        BY <3>1, <4>1 DEF OpToRel
      <4> QED BY <4>2, <2>1
    <3> QED BY <3>1
  <2>3. S = 1 .. m - 1
    <3>1. ASSUME NEW a \in S PROVE a \in 1 .. m - 1
      <4>1. a \in 1 .. n /\ m \in 1 .. n /\ m \notin S
        OBVIOUS
      <4> QED BY <4>1
    <3>2. ASSUME NEW a \in 1 .. m - 1 PROVE a \in S
      BY <2>2
    <3> QED BY <3>1, <3>2
  <2>4. Cardinality(S) = m - 1 /\ m \in 1 .. n
    BY <2>3, FS_Interval
  <2> QED BY <2>3, <2>4
<1> QED BY <1>1, <1>2

(* Two sequences and three in a row.                                       *)
LEMMA Joined ==
  ASSUME NEW E, NEW a \in Seq(E), NEW c \in Seq(E), NEW r, r = a \o c
  PROVE  /\ r \in Seq(E) /\ Len(r) = Len(a) + Len(c)
         /\ \A j \in 1 .. Len(a) : r[j] = a[j]
         /\ \A j \in 1 .. Len(c) : r[Len(a) + j] = c[j]
<1>1. Len(a) \in Nat /\ Len(c) \in Nat
  BY LenProperties
<1>2. /\ r \in Seq(E) /\ Len(r) = Len(a) + Len(c)
      /\ \A j \in 1 .. Len(a) + Len(c) : r[j] = IF j <= Len(a) THEN a[j] ELSE c[j - Len(a)]
  BY ConcatProperties
<1>3. ASSUME NEW j \in 1 .. Len(a) PROVE r[j] = a[j]
  BY <1>1, <1>2
<1>4. ASSUME NEW j \in 1 .. Len(c) PROVE r[Len(a) + j] = c[j]
  <2>1. /\ Len(a) + j \in 1 .. Len(a) + Len(c) /\ ~(Len(a) + j <= Len(a))
        /\ Len(a) + j - Len(a) = j
    BY <1>1
  <2> QED BY <1>2, <2>1
<1> QED BY <1>2, <1>3, <1>4

LEMMA JoinedThree ==
  ASSUME NEW E, NEW a \in Seq(E), NEW m \in Seq(E), NEW c \in Seq(E),
         NEW r, r = a \o m \o c
  PROVE  /\ r \in Seq(E) /\ Len(r) = Len(a) + Len(m) + Len(c)
         /\ \A j \in 1 .. Len(a) : r[j] = a[j]
         /\ \A j \in 1 .. Len(m) : r[Len(a) + j] = m[j]
         /\ \A j \in 1 .. Len(c) : r[Len(a) + Len(m) + j] = c[j]
<1>1. Len(a) \in Nat /\ Len(m) \in Nat /\ Len(c) \in Nat
  BY LenProperties
<1>2. PICK b : b = a \o m
  OBVIOUS
<1>3. r = b \o c
  BY <1>2
<1>4. /\ b \in Seq(E) /\ Len(b) = Len(a) + Len(m)
      /\ \A j \in 1 .. Len(a) : b[j] = a[j]
      /\ \A j \in 1 .. Len(m) : b[Len(a) + j] = m[j]
  BY ONLY a \in Seq(E), m \in Seq(E), <1>2, Joined
<1>5. /\ r \in Seq(E) /\ Len(r) = Len(b) + Len(c)
      /\ \A j \in 1 .. Len(b) : r[j] = b[j]
      /\ \A j \in 1 .. Len(c) : r[Len(b) + j] = c[j]
  <2>1. b \in Seq(E)
    BY <1>4
  <2> QED BY ONLY <2>1, c \in Seq(E), <1>3, Joined
<1>6. ASSUME NEW j \in 1 .. Len(a) PROVE r[j] = a[j]
  BY <1>1, <1>4, <1>5
<1>7. ASSUME NEW j \in 1 .. Len(m) PROVE r[Len(a) + j] = m[j]
  <2>1. Len(a) + j \in 1 .. Len(b)
    BY <1>1, <1>4
  <2> QED BY <1>4, <1>5, <2>1
<1> QED BY <1>1, <1>4, <1>5, <1>6, <1>7

(* r is q with m in the place of what follows i entries, up to entry k.    *)
Splice(q, i, m, k) == SubSeq(q, 1, i) \o m \o SubSeq(q, k + 1, Len(q))

IsSpliced(E, q, i, m, k, r) ==
  /\ r \in Seq(E) /\ Len(r) = i + Len(m) + (Len(q) - k)
  /\ \A j \in 1 .. i : r[j] = q[j]
  /\ \A j \in 1 .. Len(m) : r[i + j] = m[j]
  /\ \A j \in 1 .. Len(q) - k : r[i + Len(m) + j] = q[k + j]

LEMMA Spliced ==
  ASSUME NEW E, NEW q \in Seq(E), NEW m \in Seq(E),
         NEW i \in 0 .. Len(q), NEW k \in i .. Len(q),
         NEW r, r = Splice(q, i, m, k)
  PROVE  IsSpliced(E, q, i, m, k, r)
<1> DEFINE a == SubSeq(q, 1, i)
           c == SubSeq(q, k + 1, Len(q))
<1>1. Len(q) \in Nat /\ Len(m) \in Nat /\ \A j \in 1 .. Len(q) : q[j] \in E
  BY LenProperties, ElementOfSeq
<1>2. a \in Seq(E) /\ Len(a) = i /\ \A j \in 1 .. i : a[j] = q[j]
  <2>1. \A j \in 1 .. i : q[j] \in E
    BY <1>1
  <2>2. /\ a \in Seq(E) /\ Len(a) = IF 1 <= i THEN i - 1 + 1 ELSE 0
        /\ \A j \in 1 .. i - 1 + 1 : a[j] = q[1 + j - 1]
    BY <1>1, <2>1, SubSeqProperties
  <2> HIDE DEF a
  <2> QED BY <2>2
<1>3. c \in Seq(E) /\ Len(c) = Len(q) - k /\ \A j \in 1 .. Len(q) - k : c[j] = q[k + j]
  <2>1. \A j \in k + 1 .. Len(q) : q[j] \in E
    BY <1>1
  <2>2. /\ c \in Seq(E)
        /\ Len(c) = IF k + 1 <= Len(q) THEN Len(q) - (k + 1) + 1 ELSE 0
        /\ \A j \in 1 .. Len(q) - (k + 1) + 1 : c[j] = q[k + 1 + j - 1]
    BY <1>1, <2>1, SubSeqProperties
  <2> HIDE DEF c
  <2>3. Len(c) = Len(q) - k
    BY <1>1, <2>2
  <2>4. ASSUME NEW j \in 1 .. Len(q) - k PROVE c[j] = q[k + j]
    <3>1. j \in 1 .. Len(q) - (k + 1) + 1 /\ k + 1 + j - 1 = k + j
      BY <1>1
    <3> QED BY <2>2, <3>1
  <2> QED BY <2>2, <2>3, <2>4
<1>4. r = a \o m \o c
  BY DEF Splice
<1> HIDE DEF a, c
<1>5. a \in Seq(E) /\ c \in Seq(E) /\ Len(a) = i /\ Len(c) = Len(q) - k
  BY <1>2, <1>3
<1>6. /\ r \in Seq(E) /\ Len(r) = Len(a) + Len(m) + Len(c)
      /\ \A j \in 1 .. Len(a) : r[j] = a[j]
      /\ \A j \in 1 .. Len(m) : r[Len(a) + j] = m[j]
      /\ \A j \in 1 .. Len(c) : r[Len(a) + Len(m) + j] = c[j]
  <2>1. a \in Seq(E) /\ c \in Seq(E)
    BY <1>5
  <2> QED BY ONLY <2>1, m \in Seq(E), <1>4, JoinedThree
<1>7. ASSUME NEW j \in 1 .. i PROVE r[j] = q[j]
  BY <1>2, <1>5, <1>6
<1>8. ASSUME NEW j \in 1 .. Len(q) - k PROVE r[i + Len(m) + j] = q[k + j]
  <2>1. c[j] = q[k + j] /\ j \in 1 .. Len(c)
    BY <1>3, <1>5
  <2>2. r[Len(a) + Len(m) + j] = c[j]
    BY ONLY <1>6, <2>1
  <2>3. i \in Int /\ Len(m) \in Int /\ j \in Int
    BY <1>1
  <2> QED BY <1>5, <2>1, <2>2, <2>3
<1>9. Len(r) = i + Len(m) + (Len(q) - k)
  BY <1>5, <1>6
<1>10. \A j \in 1 .. Len(m) : r[i + j] = m[j]
  BY <1>5, <1>6
<1> QED BY <1>6, <1>7, <1>8, <1>9, <1>10 DEF IsSpliced

(* rbtree_delete takes the entry of its node out and no other.             *)
LEMMA RemovedFacts ==
  ASSUME NEW q, Ordered(q), NEW n
  PROVE  /\ Ordered(Removed(q, n))
         /\ Entries(Removed(q, n)) = {x \in Entries(q) : x.node # n}
<1>1. q \in Seq(Entry) /\ Len(q) \in Nat /\ DOMAIN q = 1 .. Len(q)
  BY LenProperties DEF Ordered
<1>2. CASE n \notin Members(q)
  BY <1>2 DEF Removed, Members, Entries
<1>3. CASE n \in Members(q)
  <2> DEFINE at == CHOOSE j \in DOMAIN q : q[j].node = n
             r == SubSeq(q, 1, at - 1) \o SubSeq(q, at + 1, Len(q))
  <2>1. at \in 1 .. Len(q) /\ q[at].node = n
    BY <1>1, <1>3 DEF Members
  <2>2. Removed(q, n) = r
    BY <1>3 DEF Removed
  <2> HIDE DEF at
  <2>3. r = SubSeq(q, 1, at - 1) \o <<>> \o SubSeq(q, at + 1, Len(q))
    <3>1. \A j \in 1 .. at - 1 : q[j] \in Entry
      BY <1>1, <2>1, ElementOfSeq
    <3>2. SubSeq(q, 1, at - 1) \in Seq(Entry)
      BY <2>1, <3>1, SubSeqProperties
    <3> QED BY <3>2, ConcatEmptySeq
  <2> HIDE DEF r
  <2>4. /\ r \in Seq(Entry) /\ Len(r) = Len(q) - 1
        /\ \A j \in 1 .. at - 1 : r[j] = q[j]
        /\ \A j \in 1 .. Len(q) - at : r[at - 1 + j] = q[at + j]
    <3>1. PICK m : m = <<>> /\ m \in Seq(Entry) /\ Len(m) = 0
      BY EmptySeq
    <3>2. PICK i, k, s : i = at - 1 /\ k = at /\ s = r
      OBVIOUS
    <3>3. i \in 0 .. Len(q) /\ k \in i .. Len(q)
      BY <1>1, <2>1, <3>2
    <3>4. s = Splice(q, i, m, k)
      BY <2>3, <3>1, <3>2 DEF Splice
    <3>5. q \in Seq(Entry) /\ m \in Seq(Entry)
      BY <1>1, <3>1
    <3>6. IsSpliced(Entry, q, i, m, k, s)
      BY ONLY <3>3, <3>4, <3>5, Spliced, Zenon
    <3>7. Len(m) = 0 /\ i \in Int
      BY <3>1, <3>3
    <3> QED BY <1>1, <2>1, <3>2, <3>6, <3>7 DEF IsSpliced
  <2>5. \A j \in 1 .. Len(r) : r[j] = IF j < at THEN q[j] ELSE q[j + 1]
    <3>1. SUFFICES ASSUME NEW j \in 1 .. Len(r)
                   PROVE  r[j] = IF j < at THEN q[j] ELSE q[j + 1]
      OBVIOUS
    <3>2. CASE j < at
      BY <1>1, <2>1, <2>4, <3>2
    <3>3. CASE ~(j < at)
      <4>1. j - at + 1 \in 1 .. Len(q) - at
        BY <1>1, <2>1, <2>4, <3>3
      <4>2. r[at - 1 + (j - at + 1)] = q[at + (j - at + 1)]
        BY <2>4, <4>1
      <4>3. at - 1 + (j - at + 1) = j /\ at + (j - at + 1) = j + 1
        BY <1>1, <2>1, <2>4
      <4> QED BY <3>3, <4>2, <4>3
    <3> QED BY <3>2, <3>3
  <2>6. Ordered(r)
    <3>1. SUFFICES ASSUME NEW a \in 1 .. Len(r), NEW b \in 1 .. Len(r), a < b
                   PROVE  r[a].node # r[b].node /\ r[a].key <= r[b].key
      BY <2>4 DEF Ordered
    <3> DEFINE c == IF a < at THEN a ELSE a + 1
               d == IF b < at THEN b ELSE b + 1
    <3>2. r[a] = q[c] /\ r[b] = q[d]
      BY <2>5
    <3>3. c \in 1 .. Len(q) /\ d \in 1 .. Len(q) /\ c < d
      BY <1>1, <2>1, <2>4, <3>1
    <3> HIDE DEF c, d
    <3> QED BY <3>2, <3>3 DEF Ordered
  <2>7. Entries(r) = {x \in Entries(q) : x.node # n}
    <3>1. DOMAIN r = 1 .. Len(r)
      BY <2>4, LenProperties
    <3>2. ASSUME NEW j \in 1 .. Len(r)
          PROVE  r[j] \in Entries(q) /\ r[j].node # n
      <4> DEFINE c == IF j < at THEN j ELSE j + 1
      <4>1. r[j] = q[c]
        BY <2>5
      <4>2. c \in 1 .. Len(q) /\ (c < at \/ at < c)
        BY <1>1, <2>1, <2>4
      <4> HIDE DEF c
      <4>3. q[c].node # q[at].node
        BY <2>1, <4>2 DEF Ordered
      <4> QED BY <1>1, <2>1, <4>1, <4>2, <4>3 DEF Entries
    <3>3. ASSUME NEW j \in 1 .. Len(q), q[j].node # n
          PROVE  q[j] \in Entries(r)
      <4>1. j # at
        BY <2>1, <3>3
      <4> DEFINE c == IF j < at THEN j ELSE j - 1
      <4>2. c \in 1 .. Len(r) /\ (IF c < at THEN c ELSE c + 1) = j
        BY <1>1, <2>1, <2>4, <4>1
      <4> HIDE DEF c
      <4>3. r[c] = q[j]
        BY <2>5, <4>2
      <4> QED BY <3>1, <4>2, <4>3 DEF Entries
    <3> QED BY <1>1, <3>1, <3>2, <3>3 DEF Entries
  <2> QED BY <2>2, <2>6, <2>7
<1> QED BY <1>2, <1>3

(* rbtree_insert adds an entry for a node that is not in the tree.         *)
LEMMA InsertedFacts ==
  ASSUME Keys \subseteq Int, NEW q, Ordered(q),
         NEW n \in Nodes \ Members(q), NEW k \in Keys
  PROVE  /\ Ordered(Inserted(q, n, k))
         /\ Entries(Inserted(q, n, k)) = Entries(q) \cup {[node |-> n, key |-> k]}
<1> DEFINE S == {j \in DOMAIN q : q[j].key <= k}
           x == [node |-> n, key |-> k]
           r == Inserted(q, n, k)
<1>1. q \in Seq(Entry) /\ Len(q) \in Nat /\ DOMAIN q = 1 .. Len(q)
  BY LenProperties DEF Ordered
<1>2. \A j \in 1 .. Len(q) : q[j].key \in Int /\ q[j].node # n
  <2>1. \A j \in 1 .. Len(q) : q[j] \in Entry
    BY <1>1, ElementOfSeq
  <2> QED BY <1>1, <2>1 DEF Entry, Members
<1>3. k \in Int
  OBVIOUS
<1>4. PICK i : i = Cardinality(S) /\ i \in 0 .. Len(q) /\ S = 1 .. i
  <2>1. S \in SUBSET (1 .. Len(q))
    BY <1>1
  <2>2. \A b \in S : \A a \in 1 .. Len(q) : a < b => a \in S
    <3> SUFFICES ASSUME NEW b \in S, NEW a \in 1 .. Len(q), a < b PROVE a \in S
      OBVIOUS
    <3>1. b \in 1 .. Len(q) /\ q[b].key <= k
      BY <1>1
    <3>2. q[a].key <= q[b].key
      BY <3>1 DEF Ordered
    <3> QED BY <1>1, <1>2, <1>3, <3>1, <3>2
  <2> HIDE DEF S
  <2>3. Cardinality(S) \in 0 .. Len(q) /\ S = 1 .. Cardinality(S)
    <3>1. Len(q) \in Nat
      BY <1>1
    <3> QED BY ONLY <3>1, <2>1, <2>2, NoHoles
  <2> QED BY <2>3
<1>5. PICK m : m = <<x>> /\ m \in Seq(Entry) /\ Len(m) = 1 /\ m[1] = x
  <2>1. x \in Entry
    BY DEF Entry
  <2> HIDE DEF x
  <2>2. <<x>> \in Seq(Entry) /\ Len(<<x>>) = 1 /\ <<x>>[1] = x
    BY <2>1
  <2> QED BY <2>2
<1>6. PICK s : s = r /\ s = Splice(q, i, m, i)
  BY <1>4, <1>5 DEF Inserted, Splice
<1> HIDE DEF r
<1>7. IsSpliced(Entry, q, i, m, i, s)
  <2>1. i \in i .. Len(q)
    BY <1>1, <1>4
  <2> QED BY <1>1, <1>4, <1>5, <1>6, <2>1, Spliced, Zenon
<1> DEFINE o(j) == IF j <= i THEN j ELSE j - 1
<1>8. /\ s \in Seq(Entry) /\ Len(s) = Len(q) + 1 /\ DOMAIN s = 1 .. Len(s)
      /\ i + 1 \in 1 .. Len(s) /\ s[i + 1] = x
  <2>1. s \in Seq(Entry) /\ Len(s) = i + 1 + (Len(q) - i)
    BY <1>5, <1>7 DEF IsSpliced
  <2>2. Len(s) = Len(q) + 1 /\ i + 1 \in 1 .. Len(s)
    BY <1>1, <1>4, <2>1
  <2>3. s[i + 1] = m[1]
    BY <1>5, <1>7 DEF IsSpliced
  <2>4. DOMAIN s = 1 .. Len(s)
    BY <2>1, LenProperties
  <2> QED BY <1>5, <2>1, <2>2, <2>3, <2>4
<1>9. ASSUME NEW j \in 1 .. Len(s), j # i + 1
      PROVE  s[j] = q[o(j)] /\ o(j) \in 1 .. Len(q)
  <2>1. CASE j <= i
    <3>1. j \in 1 .. i /\ j \in 1 .. Len(q) /\ o(j) = j
      BY <1>1, <1>4, <2>1
    <3> HIDE DEF o
    <3> QED BY <1>7, <3>1 DEF IsSpliced
  <2>2. CASE ~(j <= i)
    <3>1. PICK L \in Nat : L = Len(q) /\ i \in 0 .. L /\ Len(s) = L + 1
      BY <1>1, <1>4, <1>8
    <3>2. PICK d : d = j - i - 1 /\ d \in 1 .. L - i
      BY <1>9, <2>2, <3>1
    <3>3. s[i + 1 + d] = q[i + d]
      BY <1>5, <1>7, <3>1, <3>2 DEF IsSpliced
    <3>4. i + 1 + d = j /\ i + d = j - 1 /\ j - 1 \in 1 .. L
      BY <3>1, <3>2
    <3> QED BY <2>2, <3>1, <3>3, <3>4
  <2> QED BY <2>1, <2>2
<1>10. /\ \A j \in 1 .. i : q[j].key <= k
       /\ \A j \in 1 .. Len(q) : ~(j <= i) => k < q[j].key
  <2>1. ASSUME NEW j \in 1 .. i PROVE q[j].key <= k
    BY <1>4
  <2>2. ASSUME NEW j \in 1 .. Len(q), ~(j <= i) PROVE k < q[j].key
    <3>1. j \notin S
      BY <1>1, <1>4, <2>2
    <3> QED BY <1>1, <1>2, <1>3, <3>1
  <2> QED BY <2>1, <2>2
<1> HIDE DEF S
<1>11. Ordered(s)
  <2>1. SUFFICES ASSUME NEW a \in 1 .. Len(s), NEW b \in 1 .. Len(s), a < b
                 PROVE  s[a].node # s[b].node /\ s[a].key <= s[b].key
    BY <1>8 DEF Ordered
  <2>2. CASE a # i + 1 /\ b # i + 1
    <3>1. o(a) < o(b)
      BY <1>1, <1>4, <1>8, <2>1, <2>2
    <3> HIDE DEF o
    <3>2. /\ s[a] = q[o(a)] /\ o(a) \in 1 .. Len(q)
          /\ s[b] = q[o(b)] /\ o(b) \in 1 .. Len(q)
      BY <1>9, <2>2
    <3> QED BY <3>1, <3>2 DEF Ordered
  <2>3. CASE a = i + 1
    <3>0. b \in Int /\ i \in Int
      BY <1>1, <1>4, <1>8
    <3>1. b # i + 1 /\ ~(o(b) <= i)
      BY <2>1, <2>3, <3>0
    <3> HIDE DEF o
    <3>2. s[b] = q[o(b)] /\ o(b) \in 1 .. Len(q)
      BY <1>9, <3>1
    <3>3. s[b].node # n /\ k < s[b].key /\ s[b].key \in Int
      BY <1>2, <1>10, <3>1, <3>2
    <3>4. s[a].node = n /\ s[a].key = k
      BY <1>8, <2>3
    <3> QED BY <1>3, <3>3, <3>4
  <2>4. CASE b = i + 1
    <3>0. a \in Int /\ 1 <= a /\ i \in Int
      BY <1>1, <1>4, <1>8
    <3>1. a # i + 1 /\ o(a) \in 1 .. i
      BY <2>1, <2>4, <3>0
    <3> HIDE DEF o
    <3>2. s[a] = q[o(a)] /\ o(a) \in 1 .. Len(q)
      BY <1>9, <3>1
    <3>3. s[a].node # n /\ s[a].key <= k
      BY <1>2, <1>10, <3>1, <3>2
    <3>4. s[b].node = n /\ s[b].key = k
      BY <1>8, <2>4
    <3> QED BY <1>3, <3>3, <3>4
  <2> QED BY <2>2, <2>3, <2>4
<1>12. Entries(s) = Entries(q) \cup {x}
  <2>1. ASSUME NEW j \in 1 .. Len(s) PROVE s[j] \in Entries(q) \cup {x}
    <3>1. CASE j = i + 1
      BY <1>8, <3>1
    <3>2. CASE j # i + 1
      <4> HIDE DEF o
      <4> QED BY <1>1, <1>9, <3>2 DEF Entries
    <3> QED BY <3>1, <3>2
  <2>2. ASSUME NEW j \in 1 .. Len(q) PROVE q[j] \in Entries(s)
    <3> DEFINE c == IF j <= i THEN j ELSE j + 1
    <3>1. c \in 1 .. Len(s) /\ c # i + 1 /\ o(c) = j
      BY <1>1, <1>4, <1>8
    <3> HIDE DEF o, c
    <3>2. s[c] = q[j]
      BY <1>9, <3>1
    <3> QED BY <1>8, <3>1, <3>2 DEF Entries
  <2>3. x \in Entries(s)
    BY <1>8 DEF Entries
  <2> QED BY <1>1, <1>8, <2>1, <2>2, <2>3 DEF Entries
<1> QED BY <1>6, <1>11, <1>12 DEF r

-----------------------------------------------------------------------------

(***************************************************************************)
(* Numbers that wrap.                                                      *)
(***************************************************************************)
LEMMA Width ==
  /\ M \in Nat /\ M \div 2 \in Nat /\ M = 2 * (M \div 2) /\ 2 <= M \div 2
  /\ Keys = 0 .. M - 1
  /\ TIMER_LAZY_DELAY \in Nat /\ 1 <= TIMER_LAZY_DELAY
  /\ 2 * TIMER_LAZY_DELAY <= M \div 2
  /\ Late = -(M \div 2) /\ Late \in Int
<1>1. M \in Nat /\ M % 2 = 0 /\ Keys = 0 .. M - 1
  BY WidthAssumption
<1>2. M \div 4 \in Int /\ 4 * (M \div 4) <= M
  BY <1>1
<1>3. M \div 2 \in Nat /\ M = 2 * (M \div 2)
  BY <1>1
<1>4. TIMER_LAZY_DELAY \in 1 .. M \div 4
  BY LazyAssumption
<1>5. TIMER_LAZY_DELAY \in Nat /\ 1 <= TIMER_LAZY_DELAY /\ 4 * TIMER_LAZY_DELAY <= M
  BY <1>1, <1>2, <1>4
<1> QED BY <1>1, <1>3, <1>5 DEF Late

LEMMA Division ==
  ASSUME NEW x \in Int
  PROVE  /\ x % M \in 0 .. M - 1 /\ x \div M \in Int
         /\ x = M * (x \div M) + (x % M)
<1>1. M \in Nat /\ M > 0
  BY Width
<1> QED BY <1>1

LEMMA Unique ==
  ASSUME NEW x \in Int, NEW q \in Int, NEW r \in 0 .. M - 1, x = M * q + r
  PROVE  x % M = r
<1>1. M \in Nat /\ M > 0
  BY Width
<1> QED BY <1>1

(* Numbers that differ by a multiple of M are the same modulo M.           *)
LEMMA SameModM ==
  ASSUME NEW x \in Int, NEW y \in Int, NEW q \in Int, x = M * q + y
  PROVE  x % M = y % M
<1>1. M \in Nat /\ M > 0
  BY Width
<1>2. PICK p \in Int, r \in 0 .. M - 1 : y = M * p + r /\ r = y % M
  BY Division
<1>3. x = M * (q + p) + r
  BY <1>1, <1>2
<1>4. q + p \in Int
  OBVIOUS
<1> QED BY <1>2, <1>3, <1>4, Unique

LEMMA ModSum ==
  ASSUME NEW x \in Int, NEW y \in Int
  PROVE  ((x % M) + y) % M = (x + y) % M
<1>1. M \in Nat /\ M > 0
  BY Width
<1>2. PICK p \in Int, r \in 0 .. M - 1 : x = M * p + r /\ r = x % M
  BY Division
<1>3. x + y = M * p + (r + y) /\ r + y \in Int /\ x + y \in Int
  BY <1>1, <1>2
<1> QED BY <1>2, <1>3, SameModM

LEMMA ModIdentity ==
  ASSUME NEW x \in 0 .. M - 1
  PROVE  x % M = x
<1>1. M \in Nat /\ M > 0
  BY Width
<1>2. x = M * 0 + x /\ x \in Int
  BY <1>1
<1> QED BY <1>2, Unique

(* The signed reading depends on the number modulo M only, and finds a     *)
(* number that is less than half a turn away from zero.                    *)
LEMMA SignedFacts ==
  ASSUME NEW x \in Int, NEW y \in Int, x % M = y % M
  PROVE  /\ Signed(x) \in -(M \div 2) .. M \div 2 - 1
         /\ Signed(x) % M = x % M
         /\ Signed(x) = Signed(y)
         /\ y \in -(M \div 2) .. M \div 2 - 1 => Signed(x) = y
<1> DEFINE u == x % M
<1>1. PICK H \in Nat : H = M \div 2 /\ M = 2 * H /\ 2 <= H
  BY Width
<1>2. u \in 0 .. M - 1
  BY Division
<1>3. Signed(x) = IF u >= H THEN u - M ELSE u
  BY <1>1 DEF Signed
<1>4. Signed(y) = Signed(x)
  BY DEF Signed
<1>5. Signed(x) \in -(M \div 2) .. M \div 2 - 1
  <2> HIDE DEF u
  <2> QED BY <1>1, <1>2, <1>3
<1>6. Signed(x) % M = u
  <2>1. u % M = u
    <3> HIDE DEF u
    <3> QED BY <1>2, ModIdentity
  <2>2. (u - M) % M = u
    <3> HIDE DEF u
    <3>1. u - M = M * (-1) + u /\ u - M \in Int
      BY <1>1, <1>2
    <3> QED BY <1>2, <3>1, Unique
  <2> QED BY <1>3, <2>1, <2>2
<1>7. ASSUME y \in -H .. H - 1 PROVE Signed(x) = y
  <2>1. CASE y >= 0
    <3>1. y % M = y
      BY <1>1, <1>7, <2>1, ModIdentity
    <3> QED BY <1>1, <1>3, <1>7, <3>1
  <2>2. CASE ~(y >= 0)
    <3>1. y = M * (-1) + (y + M) /\ y + M \in 0 .. M - 1 /\ y + M >= H
      BY <1>1, <1>7, <2>2
    <3>2. y % M = y + M
      BY <3>1, Unique
    <3> QED BY <1>1, <1>3, <1>7, <3>1, <3>2
  <2> QED BY <2>1, <2>2
<1> QED BY <1>1, <1>4, <1>5, <1>6, <1>7

(* p_abs tells how far a number is from zero, if that is less than half    *)
(* a turn, and is negative for the smallest one.                           *)
LEMMA PAbsFacts ==
  ASSUME NEW x \in Int, NEW d \in Nat, d < M \div 2
  PROVE  /\ PAbs(x) \in Int
         /\ PAbs(x) \in 0 .. d <=> Signed(x) \in -d .. d
<1>1. PICK H \in Nat : H = M \div 2 /\ 2 <= H
  BY Width
<1>2. PICK s : s = Signed(x) /\ s \in -H .. H - 1
  BY <1>1, SignedFacts
<1>3. PAbs(x) = IF s < 0 /\ s # -H THEN -s ELSE s
  BY <1>1, <1>2 DEF PAbs
<1> QED BY <1>1, <1>2, <1>3

(***************************************************************************)
(* The inductive invariant.  What an event was asked for and the key it    *)
(* has are never further apart than the early return of event_add_timer    *)
(* allows; and a timeout is not so long that the clock is taken for later. *)
(***************************************************************************)
Slack == 1 - TIMER_LAZY_DELAY .. TIMER_LAZY_DELAY - 1

KeysAgree == \A x \in Entries(queue) : x.key = key[x.node]

InTree ==
  \A e \in Nodes :
    /\ e \in Pending <=> timer_set[e] /\ ~timedout[e]
    /\ e \notin Pending => key[e] = 0
    /\ timedout[e] => timer_set[e]

Near ==
  \A e \in Nodes : left[e] # None =>
    /\ started
    /\ left[e] <= M \div 2 - TIMER_LAZY_DELAY
    /\ left[e] = Late \/ \E d \in Slack : key[e] = (now + left[e] - d) % M

Core == TypeOK /\ Ordered(queue) /\ KeysAgree /\ InTree /\ Near

IInv == Core /\ OverdueIsHidden

(***************************************************************************)
(* More of numbers that wrap, as the timers meet them.                     *)
(***************************************************************************)
LEMMA ModDifference ==
  ASSUME NEW a \in Int, NEW b \in Int, NEW d \in Int,
         NEW c \in Int, c = a - b, c % M = d % M, NEW e \in Int, e = a - d
  PROVE  e % M = b % M
<1>1. M \in Nat
  BY Width
<1>2. PICK p \in Int, r \in 0 .. M - 1 : d = M * p + r /\ r = d % M
  BY Division
<1>3. PICK q \in Int : c = M * q + r
  BY <1>2, Division
<1>4. e = M * (q - p) + b /\ q - p \in Int
  <2>1. M * (q - p) = M * q - M * p
    BY <1>1
  <2>2. M * q \in Int /\ M * p \in Int
    BY <1>1
  <2> QED BY <1>2, <1>3, <2>1, <2>2
<1> QED BY <1>4, SameModM

(* The key seen from the clock lies where the timer is due.                *)
Seen(n, l, d, k) ==
  /\ k \in Int
  /\ (k - n) % M = (l - d) % M
  /\ (((n + l) % M) - k) % M = d % M

LEMMA KeyIsNear ==
  ASSUME NEW n \in Int, NEW l \in Int, NEW d \in Int, NEW k,
         k = (n + l - d) % M
  PROVE  Seen(n, l, d, k)
<1> DEFINE x == n + l - d
<1>1. x \in Int /\ k \in Int /\ k = x % M
  BY Division
<1> HIDE DEF x
<1>2. (k + (-n)) % M = (x + (-n)) % M
  BY <1>1, ModSum
<1>3. k + (-n) = k - n /\ x + (-n) = l - d
  BY <1>1 DEF x
<1>4. (((n + l) % M) + (-k)) % M = (n + l + (-k)) % M
  BY <1>1, ModSum
<1>5. ((n + l) % M) + (-k) = ((n + l) % M) - k
  <2>1. (n + l) % M \in Int
    BY Division
  <2> QED BY <1>1, <2>1
<1>6. (n + l - k) % M = d % M
  <2>1. k % M = x % M
    <3>1. k \in 0 .. M - 1
      BY <1>1, Division
    <3> QED BY <1>1, <3>1, ModIdentity
  <2>2. PICK a \in Int, e \in Int : a = n + l /\ e = a - k
    BY <1>1
  <2>3. x = a - d
    BY <2>2 DEF x
  <2>4. e % M = d % M
    BY <1>1, <2>1, <2>2, <2>3, ModDifference
  <2> QED BY <2>2, <2>4
<1>7. n + l + (-k) = n + l - k
  BY <1>1
<1> QED BY <1>1, <1>2, <1>3, <1>4, <1>5, <1>6, <1>7 DEF Seen

(* An old key as far from the clock as the early return finds it.          *)
LEMMA OldKeyIsNear ==
  ASSUME NEW n \in Int, NEW c, c = n % M, NEW y \in 0 .. M - 1,
         NEW x \in Int, x = c - y, NEW d \in Int, d % M = x % M
  PROVE  y = (n - d) % M
<1>1. c \in Int /\ y \in Int
  BY Division, Width
<1>2. PICK a \in Int : a = c - d
  BY <1>1
<1>3. a % M = y % M
  BY <1>1, <1>2, ModDifference
<1>4. PICK h \in Int : h = -d
  OBVIOUS
<1>5. ((n % M) + h) % M = (n + h) % M
  BY ModSum
<1>6. (n % M) + h = a /\ n + h = n - d
  BY <1>1, <1>2, <1>4
<1>7. y % M = y
  BY ModIdentity
<1> QED BY <1>3, <1>5, <1>6, <1>7

(***************************************************************************)
(* The tree.                                                               *)
(***************************************************************************)
LEMMA EntryFacts ==
  ASSUME NEW q, Ordered(q), NEW x \in Entries(q)
  PROVE  x.node \in Nodes /\ x.key \in Keys
<1>1. q \in Seq(Entry)
  BY DEF Ordered
<1>2. PICK j \in DOMAIN q : x = q[j]
  BY DEF Entries
<1>3. x \in Entry
  BY <1>1, <1>2, ElementOfSeq, LenProperties
<1> QED BY <1>3 DEF Entry

LEMMA MembersFacts ==
  ASSUME NEW q
  PROVE  Members(q) = {x.node : x \in Entries(q)}
BY DEF Members, Entries

(* A node leaves the tree, and its key is cleared.                         *)
LEMMA NodeLeaves ==
  ASSUME TypeOK, Ordered(queue), KeysAgree, NEW e \in Nodes,
         queue' = Removed(queue, e), key' = [key EXCEPT ![e] = 0]
  PROVE  Ordered(queue)' /\ KeysAgree' /\ Pending' = Pending \ {e}
<1>1. Ordered(queue') /\ Entries(queue') = {x \in Entries(queue) : x.node # e}
  BY RemovedFacts
<1>2. ASSUME NEW x \in Entries(queue') PROVE x.key = key'[x.node]
  <2>1. x \in Entries(queue) /\ x.node # e /\ x.key = key[x.node]
    BY <1>1 DEF KeysAgree
  <2>2. x.node \in Nodes
    BY <2>1, EntryFacts
  <2> QED BY <2>1, <2>2 DEF TypeOK
<1>3. Members(queue') = Members(queue) \ {e}
  BY <1>1, MembersFacts
<1> QED BY <1>1, <1>2, <1>3 DEF KeysAgree, Pending

(* A node enters the tree, or changes its place there.                     *)
LEMMA NodeEnters ==
  ASSUME TypeOK, Ordered(queue), KeysAgree, NEW e \in Nodes, NEW k \in Keys,
         queue' = Inserted(Removed(queue, e), e, k),
         key' = [key EXCEPT ![e] = k]
  PROVE  Ordered(queue)' /\ KeysAgree' /\ Pending' = Pending \cup {e}
<1>1. PICK q : q = Removed(queue, e)
  OBVIOUS
<1>2. Ordered(q) /\ Entries(q) = {x \in Entries(queue) : x.node # e}
  BY <1>1, RemovedFacts
<1>3. Members(q) = Members(queue) \ {e}
  BY <1>2, MembersFacts
<1>4. Keys \subseteq Int
  BY Width
<1>5. /\ Ordered(queue')
      /\ Entries(queue') = Entries(q) \cup {[node |-> e, key |-> k]}
  BY <1>1, <1>2, <1>3, <1>4, InsertedFacts
<1>6. ASSUME NEW x \in Entries(queue') PROVE x.key = key'[x.node]
  <2>1. CASE x \in Entries(q)
    <3>1. x \in Entries(queue) /\ x.node # e /\ x.key = key[x.node]
      BY <1>2, <2>1 DEF KeysAgree
    <3>2. x.node \in Nodes
      BY <3>1, EntryFacts
    <3> QED BY <3>1, <3>2 DEF TypeOK
  <2>2. CASE x = [node |-> e, key |-> k]
    BY <2>2 DEF TypeOK
  <2> QED BY <1>5, <2>1, <2>2
<1>7. Members(queue') = Members(queue) \cup {e}
  <2>1. Members(queue') = {x.node : x \in Entries(q) \cup {[node |-> e, key |-> k]}}
    BY <1>5, MembersFacts
  <2>2. Members(q) = {x.node : x \in Entries(q)}
    BY MembersFacts
  <2>3. Members(queue') = Members(q) \cup {e}
    <3> DEFINE y == [node |-> e, key |-> k]
    <3>1. y.node = e
      OBVIOUS
    <3> HIDE DEF y
    <3>2. Members(queue') = {x.node : x \in Entries(q) \cup {y}}
      BY <2>1 DEF y
    <3> QED BY <2>2, <3>1, <3>2
  <2> QED BY <1>3, <2>3
<1> QED BY <1>5, <1>6, <1>7 DEF KeysAgree, Pending

(***************************************************************************)
(* What the invariant says of a timer that is late, and of one that is     *)
(* not.                                                                    *)
(***************************************************************************)
LEMMA KeyOfKnown ==
  ASSUME TypeOK, Near, NEW e \in Nodes, left[e] # None, left[e] # Late
  PROVE  \E d \in Slack :
           /\ left[e] \in Late .. M \div 2 - TIMER_LAZY_DELAY
           /\ Signed(((now + left[e]) % M) - key[e]) = d
           /\ left[e] - d \in -(M \div 2) .. M \div 2 - 1
                => Signed(key[e] - now) = left[e] - d
<1>1. PICK d \in Slack : key[e] = (now + left[e] - d) % M
  BY DEF Near
<1>2. PICK H \in Nat : H = M \div 2 /\ M = 2 * H /\ Late = -H
  BY Width
<1>3. left[e] \in Late .. M \div 2 - TIMER_LAZY_DELAY
  <2>1. left[e] \in {None} \cup Late .. M
    BY DEF TypeOK
  <2>2. left[e] \in Late .. M
    BY <2>1
  <2>3. left[e] <= M \div 2 - TIMER_LAZY_DELAY
    BY DEF Near
  <2>4. M \div 2 - TIMER_LAZY_DELAY \in Int
    BY Width
  <2> QED BY <2>2, <2>3, <2>4, Width
<1>4. PICK n \in Int, l \in Int, k \in {key[e]} : n = now /\ l = left[e] /\ k = key[e]
  <2>1. now \in Int
    BY Width DEF TypeOK
  <2> QED BY <1>2, <1>3, <2>1
<1>5. d \in Int /\ d \in -(M \div 2) .. M \div 2 - 1
  BY Width DEF Slack
<1>6. k \in Int /\ (k - n) % M = (l - d) % M /\ (((n + l) % M) - k) % M = d % M
  <2>1. k = (n + l - d) % M
    BY <1>1, <1>4
  <2>2. d \in Int
    BY <1>5
  <2>3. Seen(n, l, d, k)
    BY <2>1, <2>2, KeyIsNear, Zenon
  <2> QED BY <2>3 DEF Seen
<1>7. Signed(((n + l) % M) - k) = d
  <2>1. ((n + l) % M) - k \in Int
    BY <1>6, Division
  <2> QED BY <1>5, <1>6, <2>1, SignedFacts
<1>8. ASSUME l - d \in -(M \div 2) .. M \div 2 - 1
      PROVE  Signed(k - n) = l - d
  <2>1. k - n \in Int /\ l - d \in Int
    BY <1>5, <1>6
  <2> QED BY <1>6, <1>8, <2>1, SignedFacts
<1> QED BY <1>3, <1>4, <1>7, <1>8

(* A timer that was due TIMER_LAZY_DELAY ago looks expired.                *)
LEMMA DueLooksExpired ==
  ASSUME TypeOK, Near, NEW e \in Nodes,
         left[e] # None, ~Lapped(e), left[e] <= -TIMER_LAZY_DELAY
  PROVE  IsExpired(key[e])
<1>1. left[e] # Late
  <2>1. Late < Late + TIMER_LAZY_DELAY
    BY Width
  <2> QED BY <2>1 DEF Lapped
<1>2. PICK d \in Slack :
           /\ left[e] \in Late .. M \div 2 - TIMER_LAZY_DELAY
           /\ left[e] - d \in -(M \div 2) .. M \div 2 - 1
                => Signed(key[e] - now) = left[e] - d
  BY <1>1, KeyOfKnown
<1>3. left[e] - d \in -(M \div 2) .. M \div 2 - 1 /\ left[e] - d < 0
  <2>1. PICK H \in Nat, Z \in Nat :
          H = M \div 2 /\ Late = -H /\ Z = TIMER_LAZY_DELAY /\ 2 * Z <= H
    BY Width
  <2>2. PICK l \in Int : l = left[e] /\ -H + Z <= l /\ l <= -Z
    BY <1>2, <2>1 DEF Lapped
  <2>3. d \in 1 - Z .. Z - 1
    BY <2>1 DEF Slack
  <2> QED BY <2>1, <2>2, <2>3
<1> QED BY <1>2, <1>3 DEF IsExpired

(* A timer that is due in TIMER_LAZY_DELAY or more does not.               *)
LEMMA EarlyLooksAhead ==
  ASSUME TypeOK, Near, NEW e \in Nodes,
         left[e] # None, TIMER_LAZY_DELAY <= left[e]
  PROVE  ~IsExpired(key[e])
<1>1. left[e] # Late
  BY Width
<1>2. PICK d \in Slack :
           /\ left[e] \in Late .. M \div 2 - TIMER_LAZY_DELAY
           /\ left[e] - d \in -(M \div 2) .. M \div 2 - 1
                => Signed(key[e] - now) = left[e] - d
  BY <1>1, KeyOfKnown
<1>3. left[e] - d \in -(M \div 2) .. M \div 2 - 1 /\ ~(left[e] - d < 0)
  BY <1>2, Width DEF Slack
<1> QED BY <1>2, <1>3 DEF IsExpired

(* The first node of the tree, and the rest.                               *)
LEMMA HeadFacts ==
  ASSUME Ordered(queue), KeysAgree, queue # <<>>
  PROVE  /\ Head(queue).node \in Pending /\ Head(queue).node \in Nodes
         /\ Head(queue).key = key[Head(queue).node]
         /\ \A e \in Pending : key[Head(queue).node] <= key[e]
<1>1. /\ queue \in Seq(Entry) /\ Len(queue) \in Nat
      /\ DOMAIN queue = 1 .. Len(queue) /\ 1 \in DOMAIN queue
      /\ Head(queue) = queue[1]
  BY LenProperties, EmptySeq DEF Ordered
<1>2. queue[1] \in Entries(queue)
  BY <1>1 DEF Entries
<1>3. queue[1].node \in Nodes /\ queue[1].key = key[queue[1].node]
      /\ queue[1].key \in Int
  BY <1>2, EntryFacts, Width DEF KeysAgree
<1>4. ASSUME NEW e \in Pending PROVE queue[1].key <= key[e]
  <2>1. PICK j \in 1 .. Len(queue) : e = queue[j].node
    BY <1>1 DEF Pending, Members
  <2>2. queue[j] \in Entries(queue)
    BY <1>1 DEF Entries
  <2>3. queue[j].key = key[e]
    BY <2>1, <2>2 DEF KeysAgree
  <2>4. CASE j = 1
    BY <1>3, <2>3, <2>4
  <2>5. CASE j # 1
    <3>1. 1 < j /\ 1 \in 1 .. Len(queue)
      BY <1>1, <2>5
    <3> QED BY <2>3, <3>1 DEF Ordered
  <2> QED BY <2>4, <2>5
<1>5. queue[1].node \in Pending
  BY <1>1 DEF Pending, Members
<1> QED BY <1>1, <1>3, <1>4, <1>5

(***************************************************************************)
(* Every action preserves the invariant.                                   *)
(***************************************************************************)
LEMMA InitCore == Init => IInv
<1> SUFFICES ASSUME Init PROVE IInv
  OBVIOUS
<1> USE DEF Init, OrderInit
<1>1. 0 \in Keys
  BY Width
<1>2. TypeOK
  BY <1>1 DEF TypeOK
<1>3. Entries(queue) = {} /\ Pending = {}
  BY DEF Entries, Pending, Members
<1>4. Ordered(queue)
  BY EmptySeq DEF Ordered
<1>5. KeysAgree /\ InTree /\ Near /\ OverdueIsHidden
  BY <1>3 DEF KeysAgree, InTree, Near, OverdueIsHidden
<1> QED BY <1>2, <1>4, <1>5 DEF IInv, Core

(* An event leaves the tree: event_del_timer.                              *)
LEMMA DelTimerStep ==
  ASSUME Core, NEW e \in Nodes, DelTimer(e)
  PROVE  Core'
<1> USE DEF Core
<1>1. /\ queue' = Removed(queue, e) /\ key' = [key EXCEPT ![e] = 0]
      /\ timer_set' = [timer_set EXCEPT ![e] = FALSE]
      /\ timedout' = [timedout EXCEPT ![e] = FALSE]
      /\ left' = [left EXCEPT ![e] = None]
      /\ UNCHANGED <<now, started, alarm, delta, pc>>
  BY DEF DelTimer, loop
<1>2. Ordered(queue)' /\ KeysAgree' /\ Pending' = Pending \ {e}
  BY <1>1, NodeLeaves
<1>3. TypeOK'
  <2>1. 0 \in Keys
    BY Width
  <2> QED BY <1>1, <2>1 DEF TypeOK
<1>4. InTree'
  <2>1. ASSUME NEW f \in Nodes
        PROVE  /\ f \in Pending' <=> timer_set'[f] /\ ~timedout'[f]
               /\ f \notin Pending' => key'[f] = 0
               /\ timedout'[f] => timer_set'[f]
    <3>1. CASE f = e
      BY <1>1, <1>2, <3>1 DEF TypeOK
    <3>2. CASE f # e
      BY <1>1, <1>2, <3>2 DEF TypeOK, InTree
    <3> QED BY <3>1, <3>2
  <2> QED BY <2>1 DEF InTree
<1>5. Near'
  <2>1. ASSUME NEW f \in Nodes, left'[f] # None
        PROVE  f # e /\ left'[f] = left[f] /\ key'[f] = key[f]
    BY <1>1, <2>1 DEF TypeOK
  <2> QED BY <1>1, <2>1 DEF Near
<1> QED BY <1>2, <1>3, <1>4, <1>5

(* An event enters the tree, keeps its place, or changes it:               *)
(* event_add_timer.                                                        *)
LEMMA AddTimerStep ==
  ASSUME Core, NEW e \in Nodes, AddTimer(e)
  PROVE  Core'
<1> USE DEF Core
<1> DEFINE k(timer) == (now + timer) % M
           known(timer) == started /\ ~(timer_set[e] /\ PAbs(k(timer) - key[e]) < 0)
<1>1. PICK timer \in Timeouts :
        /\ left' = [left EXCEPT ![e] = IF known(timer) THEN timer ELSE None]
        /\ \/ TooClose(e, k(timer)) /\ UNCHANGED event
           \/ /\ ~TooClose(e, k(timer))
              /\ queue' = Inserted(Removed(queue, e), e, k(timer))
              /\ key' = [key EXCEPT ![e] = k(timer)]
              /\ timer_set' = [timer_set EXCEPT ![e] = TRUE]
              /\ timedout' = [timedout EXCEPT ![e] = @ /\ ~timer_set[e]]
  BY DEF AddTimer
<1>2. UNCHANGED <<now, started, alarm, delta, pc>>
  BY DEF AddTimer, loop
<1>3. /\ timer \in Nat /\ timer \in Late .. M
      /\ timer <= M \div 2 - TIMER_LAZY_DELAY
      /\ now \in Int /\ now + timer \in Int
  BY TimeoutsAssumption, Width DEF TypeOK
<1>4. PICK c \in Keys : c = k(timer)
  BY <1>3, Division, Width
<1> DEFINE sure == known(timer)
<1>5. /\ left' = [left EXCEPT ![e] = IF sure THEN timer ELSE None]
      /\ sure => started /\ ~(timer_set[e] /\ PAbs(c - key[e]) < 0)
  BY <1>1, <1>4
<1>6. /\ c = (now + timer) % M
      /\ \/ TooClose(e, c) /\ UNCHANGED event
         \/ /\ queue' = Inserted(Removed(queue, e), e, c)
            /\ key' = [key EXCEPT ![e] = c]
            /\ timer_set' = [timer_set EXCEPT ![e] = TRUE]
            /\ timedout' = [timedout EXCEPT ![e] = @ /\ ~timer_set[e]]
  BY <1>1, <1>4
<1> HIDE DEF k, known, sure
<1>7. left' \in [Nodes -> {None} \cup Late .. M]
  BY <1>3, <1>5 DEF TypeOK
<1>8. \A f \in Nodes : f # e => left'[f] = left[f]
  BY <1>5 DEF TypeOK
<1>9. left'[e] # None => sure /\ left'[e] = timer
  BY <1>5 DEF TypeOK
<1>10. CASE TooClose(e, c) /\ UNCHANGED event
  <2>1. UNCHANGED <<queue, key, timer_set, timedout>>
    BY <1>10 DEF event
  <2>2. TypeOK'
    BY <1>2, <1>7, <2>1 DEF TypeOK
  <2>3. Ordered(queue)' /\ KeysAgree' /\ InTree'
    BY <2>1 DEF KeysAgree, InTree, Pending
  <2>4. ASSUME sure
        PROVE  \E d \in Slack : key[e] = (now + timer - d) % M
    <3>1. PICK y \in Int : y = key[e] /\ y \in 0 .. M - 1
      BY Width DEF TypeOK
    <3>2. PICK x \in Int : x = c - y
      BY <1>4, <3>1, Width
    <3>3. PAbs(x) < TIMER_LAZY_DELAY /\ ~(PAbs(x) < 0)
      BY <1>5, <1>10, <2>4, <3>1, <3>2 DEF TooClose
    <3>4. PICK z \in Nat : z = TIMER_LAZY_DELAY - 1 /\ z < M \div 2
      BY Width
    <3>5. PAbs(x) \in 0 .. z
      <4>1. PAbs(x) \in Int
        BY <3>4, PAbsFacts
      <4> QED BY <3>3, <3>4, <4>1, Width
    <3>6. PICK d \in Int : d = Signed(x) /\ d \in -z .. z /\ d % M = x % M
      BY <3>4, <3>5, PAbsFacts, SignedFacts
    <3>7. d \in Slack
      BY <3>4, <3>6, Width DEF Slack
    <3>8. PICK n \in Int : n = now + timer
      BY <1>3
    <3>9. y = (n - d) % M
      BY <1>6, <3>1, <3>2, <3>6, <3>8, OldKeyIsNear
    <3>10. key[e] = (now + timer - d) % M
      BY <1>3, <3>1, <3>8, <3>9
    <3> QED BY <3>7, <3>10
  <2>5. Near'
    <3>1. ASSUME NEW f \in Nodes, left'[f] # None
          PROVE  /\ started'
                 /\ left'[f] <= M \div 2 - TIMER_LAZY_DELAY
                 /\ \/ left'[f] = Late
                    \/ \E d \in Slack : key'[f] = (now' + left'[f] - d) % M
      <4>1. CASE f = e
        BY <1>2, <1>3, <1>5, <1>9, <2>1, <2>4, <3>1, <4>1
      <4>2. CASE f # e
        BY <1>2, <1>8, <2>1, <3>1, <4>2 DEF Near
      <4> QED BY <4>1, <4>2
    <3> QED BY <3>1 DEF Near, Slack, Late
  <2> QED BY <2>2, <2>3, <2>5
<1>11. CASE /\ queue' = Inserted(Removed(queue, e), e, c)
            /\ key' = [key EXCEPT ![e] = c]
            /\ timer_set' = [timer_set EXCEPT ![e] = TRUE]
            /\ timedout' = [timedout EXCEPT ![e] = @ /\ ~timer_set[e]]
  <2>1. Ordered(queue)' /\ KeysAgree' /\ Pending' = Pending \cup {e}
    BY <1>4, <1>11, NodeEnters
  <2>2. timedout' \in [Nodes -> BOOLEAN] /\ ~timedout'[e]
        /\ \A f \in Nodes : f # e => timedout'[f] = timedout[f]
    BY <1>11 DEF TypeOK, InTree
  <2>3. TypeOK'
    BY <1>2, <1>4, <1>7, <1>11, <2>2 DEF TypeOK
  <2>4. InTree'
    <3>1. ASSUME NEW f \in Nodes
          PROVE  /\ f \in Pending' <=> timer_set'[f] /\ ~timedout'[f]
                 /\ f \notin Pending' => key'[f] = 0
                 /\ timedout'[f] => timer_set'[f]
      <4>1. CASE f = e
        BY <1>11, <2>1, <2>2, <4>1 DEF TypeOK
      <4>2. CASE f # e
        BY <1>11, <2>1, <2>2, <4>2 DEF TypeOK, InTree
      <4> QED BY <4>1, <4>2
    <3> QED BY <3>1 DEF InTree
  <2>5. Near'
    <3>1. ASSUME NEW f \in Nodes, left'[f] # None
          PROVE  /\ started'
                 /\ left'[f] <= M \div 2 - TIMER_LAZY_DELAY
                 /\ \/ left'[f] = Late
                    \/ \E d \in Slack : key'[f] = (now' + left'[f] - d) % M
      <4>1. CASE f = e
        <5>1. 0 \in Slack /\ now + timer - 0 = now + timer
          BY <1>3, Width DEF Slack
        <5>2. key'[e] = (now' + left'[e] - 0) % M
          BY <1>2, <1>6, <1>9, <1>11, <3>1, <4>1, <5>1 DEF TypeOK
        <5> QED BY <1>2, <1>3, <1>5, <1>9, <3>1, <4>1, <5>1, <5>2
      <4>2. CASE f # e
        <5>1. key'[f] = key[f]
          BY <1>11, <4>2 DEF TypeOK
        <5> QED BY <1>2, <1>8, <3>1, <4>2, <5>1 DEF Near
      <4> QED BY <4>1, <4>2
    <3> QED BY <3>1 DEF Near, Slack, Late
  <2> QED BY <2>1, <2>3, <2>4, <2>5
<1> QED BY <1>6, <1>10, <1>11

(* The smallest timer leaves the tree, and its handler is called.          *)
LEMMA ExpireStep ==
  ASSUME Core, Expire
  PROVE  Core'
<1> USE DEF Core
<1>1. PICK e \in Nodes : e = Head(queue).node /\ e \in Pending
  BY HeadFacts DEF Expire, SmallestExpired
<1>2. /\ queue' = Removed(queue, e) /\ key' = [key EXCEPT ![e] = 0]
      /\ timedout' = [timedout EXCEPT ![e] = TRUE]
      /\ left' = [left EXCEPT ![e] = None]
      /\ pc' = "handler"
      /\ UNCHANGED <<timer_set, now, started, alarm, delta>>
  BY <1>1 DEF Expire, loop
<1>3. Ordered(queue)' /\ KeysAgree' /\ Pending' = Pending \ {e}
  BY <1>2, NodeLeaves
<1>4. TypeOK'
  <2>1. 0 \in Keys
    BY Width
  <2> QED BY <1>2, <2>1 DEF TypeOK
<1>5. InTree'
  <2>1. ASSUME NEW f \in Nodes
        PROVE  /\ f \in Pending' <=> timer_set'[f] /\ ~timedout'[f]
               /\ f \notin Pending' => key'[f] = 0
               /\ timedout'[f] => timer_set'[f]
    <3>1. CASE f = e
      BY <1>1, <1>2, <1>3, <3>1 DEF TypeOK, InTree
    <3>2. CASE f # e
      BY <1>2, <1>3, <3>2 DEF TypeOK, InTree
    <3> QED BY <3>1, <3>2
  <2> QED BY <2>1 DEF InTree
<1>6. Near'
  <2>1. ASSUME NEW f \in Nodes, left'[f] # None
        PROVE  f # e /\ left'[f] = left[f] /\ key'[f] = key[f]
    BY <1>2, <2>1 DEF TypeOK
  <2> QED BY <1>2, <2>1 DEF Near
<1> QED BY <1>3, <1>4, <1>5, <1>6

(* Time passes: keys stay as near as they were.                            *)
LEMMA TimeStep ==
  ASSUME Core, NEW s \in Nat, TimeUpdate(s), UNCHANGED event,
         alarm' \in BOOLEAN, pc' \in {"wait", "events", "expire", "handler"}
  PROVE  Core'
<1> USE DEF Core
<1>1. UNCHANGED <<queue, key, timer_set, timedout>>
  BY DEF event
<1>2. /\ IF started THEN now' = (now + s) % M ELSE now' \in Keys
      /\ started' = TRUE
      /\ delta' \in BOOLEAN
      /\ left' = [f \in Nodes |->
           IF left[f] = None THEN None
           ELSE IF left[f] - s < Late THEN Late ELSE left[f] - s]
  BY DEF TimeUpdate
<1>3. /\ \A f \in Nodes : left[f] # None => left[f] \in Late .. M
      /\ now \in Int /\ Late .. M \subseteq Int
  BY Width DEF TypeOK
<1>4. now' \in Keys
  <2>1. PICK x \in Int : x = now + s
    BY <1>3
  <2>2. x % M \in Keys
    BY Division, Width
  <2> QED BY <1>2, <2>1, <2>2
<1>5. left' \in [Nodes -> {None} \cup Late .. M]
  <2>1. ASSUME NEW f \in Nodes PROVE left'[f] \in {None} \cup Late .. M
    BY <1>2, <1>3, Width
  <2> QED BY <1>2, <2>1
<1>6. TypeOK'
  BY <1>1, <1>2, <1>4, <1>5 DEF TypeOK
<1>7. Ordered(queue)' /\ KeysAgree' /\ InTree'
  BY <1>1 DEF KeysAgree, InTree, Pending
<1>8. Near'
  <2>1. ASSUME NEW f \in Nodes, left'[f] # None
        PROVE  /\ started'
               /\ left'[f] <= M \div 2 - TIMER_LAZY_DELAY
               /\ \/ left'[f] = Late
                  \/ \E d \in Slack : key'[f] = (now' + left'[f] - d) % M
    <3>1. PICK l \in Int : l = left[f] /\ l # None /\ l <= M \div 2 - TIMER_LAZY_DELAY
          /\ started
      BY <1>2, <1>3, <2>1 DEF Near
    <3>2. CASE l - s < Late
      <4>1. left'[f] = Late
        BY <1>2, <3>1, <3>2
      <4> QED BY <1>2, <4>1, Width
    <3>3. CASE ~(l - s < Late)
      <4>1. left'[f] = l - s /\ now' = (now + s) % M
        BY <1>2, <3>1, <3>3
      <4>2. CASE l = Late
        BY <1>2, <3>3, <4>1, <4>2, Width
      <4>3. CASE l # Late
        <5>1. PICK d \in Slack : key[f] = (now + l - d) % M
          BY <3>1, <4>3 DEF Near
        <5>2. PICK a \in Int, b \in Int : a = now + s /\ b = l - s - d
          BY <1>3, <3>1, Width DEF Slack
        <5>3. ((a % M) + b) % M = (a + b) % M
          BY <5>2, ModSum
        <5>4. a + b = now + l - d
          <6>1. now \in Int /\ l \in Int /\ s \in Int
            BY <1>3, <3>1
          <6>2. d \in Int
            BY Width DEF Slack
          <6> QED BY <5>2, <6>1, <6>2
        <5>5. now' + left'[f] - d = (a % M) + b
          <6>1. a % M \in Int /\ d \in Int
            BY Division, Width DEF Slack
          <6> QED BY <3>1, <4>1, <5>2, <6>1
        <5>6. key'[f] = (now' + left'[f] - d) % M
          BY <1>1, <5>1, <5>3, <5>4, <5>5
        <5> QED BY <1>2, <3>1, <4>1, <5>6, Width
      <4> QED BY <4>2, <4>3
    <3> QED BY <3>2, <3>3
  <2> QED BY <2>1 DEF Near, Slack, Late
<1> QED BY <1>6, <1>7, <1>8

(* The other steps move the control only.                                  *)
LEMMA ControlStep ==
  ASSUME Core, UNCHANGED <<event, left, now, started>>,
         alarm' \in BOOLEAN, delta' \in BOOLEAN,
         pc' \in {"wait", "events", "expire", "handler"}
  PROVE  Core'
<1> USE DEF Core
<1>1. UNCHANGED <<queue, key, timer_set, timedout>>
  BY DEF event
<1>2. TypeOK'
  BY <1>1 DEF TypeOK
<1>3. Ordered(queue)' /\ KeysAgree' /\ InTree' /\ Near'
  BY <1>1 DEF KeysAgree, InTree, Pending, Near, Slack, Late
<1> QED BY <1>2, <1>3

LEMMA CoreStep ==
  ASSUME Core, [Next]_vars
  PROVE  Core'
<1> USE DEF Core, loop
<1>1. alarm \in BOOLEAN /\ delta \in BOOLEAN
      /\ pc \in {"wait", "events", "expire", "handler"}
  BY DEF TypeOK
<1>2. \A s \in Steps \cup {0} : s \in Nat
  BY StepsAssumption, Width
<1>3. ASSUME NEW e \in Nodes, DelTimer(e) PROVE Core'
  BY <1>3, DelTimerStep
<1>4. ASSUME NEW e \in Nodes, AddTimer(e) PROVE Core'
  BY <1>4, AddTimerStep
<1>5. CASE Expire
  BY <1>5, ExpireStep
<1>6. CASE EndEvents
  BY <1>1, <1>6, ControlStep DEF EndEvents
<1>7. CASE EndHandler
  BY <1>1, <1>7, ControlStep DEF EndHandler
<1>8. CASE EndExpire
  BY <1>1, <1>8, ControlStep DEF EndExpire
<1>9. CASE SigAlrm
  BY <1>1, <1>9, ControlStep DEF SigAlrm
<1>10. CASE EventsSoon
  BY <1>1, <1>10, ControlStep DEF EventsSoon
<1>11. CASE Interrupted
  <2>1. PICK s \in Steps : TimeUpdate(s)
    BY <1>11 DEF Interrupted
  <2>2. UNCHANGED event /\ alarm' \in BOOLEAN
        /\ pc' \in {"wait", "events", "expire", "handler"}
    BY <1>11 DEF Interrupted
  <2> QED BY <1>2, <2>1, <2>2, TimeStep
<1>12. CASE EventsLate(Steps \cup {0})
  <2>1. PICK s \in Steps \cup {0} : TimeUpdate(s)
    BY <1>12 DEF EventsLate
  <2>2. UNCHANGED event /\ alarm' \in BOOLEAN
        /\ pc' \in {"wait", "events", "expire", "handler"}
    BY <1>1, <1>12 DEF EventsLate
  <2> QED BY <1>2, <2>1, <2>2, TimeStep
<1>13. CASE UNCHANGED vars
  BY <1>1, <1>13, ControlStep DEF vars
<1> QED BY <1>3, <1>4, <1>5, <1>6, <1>7, <1>8, <1>9, <1>10, <1>11, <1>12, <1>13
        DEF Next, Handler

(***************************************************************************)
(* What the turn of the loop leaves behind.                                *)
(***************************************************************************)
LEMMA DoneHidesOnly ==
  ASSUME Core, EndExpire
  PROVE  OverdueIsHidden'
<1> USE DEF Core
<1>1. /\ ~SmallestExpired
      /\ UNCHANGED <<queue, key, timer_set, timedout, now, left>>
  BY DEF EndExpire, event, loop
<1>2. ASSUME NEW e \in Nodes, Overdue(e)
      PROVE  \E f \in Pending :
               key[f] < key[e] /\ (left[f] = None \/ Lapped(f) \/ left[f] > left[e])
  <2>1. e \in Pending /\ left[e] # None /\ ~Lapped(e) /\ left[e] <= -TIMER_LAZY_DELAY
    BY <1>2 DEF Overdue
  <2>2. IsExpired(key[e])
    BY <2>1, DueLooksExpired
  <2>3. queue # <<>>
    BY <2>1 DEF Pending, Members
  <2> DEFINE f == Head(queue).node
  <2>4. f \in Pending /\ f \in Nodes /\ Head(queue).key = key[f] /\ key[f] <= key[e]
    BY <2>1, <2>3, HeadFacts
  <2> HIDE DEF f
  <2>5. ~IsExpired(key[f])
    BY <1>1, <2>3, <2>4 DEF SmallestExpired
  <2>6. key[f] < key[e]
    <3>1. key[f] # key[e]
      BY <2>2, <2>5
    <3>2. key[f] \in Int /\ key[e] \in Int
      BY <2>4, Width DEF TypeOK
    <3> QED BY <2>4, <3>1, <3>2
  <2>7. ASSUME left[f] # None, ~Lapped(f) PROVE left[f] > left[e]
    <3>1. ~(left[f] <= -TIMER_LAZY_DELAY)
      BY <2>4, <2>5, <2>7, DueLooksExpired
    <3>2. left[f] \in Late .. M /\ left[e] \in Late .. M
      BY <2>1, <2>4, <2>7 DEF TypeOK
    <3> QED BY <2>1, <3>1, <3>2, Width
  <2> QED BY <2>4, <2>6, <2>7
<1>3. \A e : (Overdue(e)' => Overdue(e)) /\ (Lapped(e) => Lapped(e)')
  BY <1>1 DEF Overdue, Lapped, Pending, Late
<1> QED BY <1>1, <1>2, <1>3 DEF OverdueIsHidden, Pending

LEMMA HiddenStep ==
  ASSUME IInv, [Next]_vars
  PROVE  OverdueIsHidden'
<1> USE DEF IInv
<1>1. CASE EndExpire
  BY <1>1, DoneHidesOnly
<1>2. ASSUME pc' = pc, delta' = delta, UNCHANGED <<queue, key, left>>
      PROVE  OverdueIsHidden'
  BY <1>2 DEF OverdueIsHidden, Overdue, Lapped, Pending, Late
<1>3. ASSUME ~(pc' = "wait" /\ delta') PROVE OverdueIsHidden'
  BY <1>3 DEF OverdueIsHidden
<1>4. CASE EndEvents
  BY <1>3, <1>4 DEF EndEvents, loop
<1>5. CASE Handler
  BY <1>3, <1>5 DEF Handler, DelTimer, AddTimer, InHandler
<1>6. CASE Expire \/ EndHandler \/ EventsSoon \/ EventsLate(Steps \cup {0})
  BY <1>3, <1>6 DEF Expire, EndHandler, EventsSoon, EventsLate
<1>7. CASE Interrupted
  BY <1>3, <1>7 DEF Interrupted
<1>8. CASE SigAlrm \/ UNCHANGED vars
  BY <1>2, <1>8 DEF SigAlrm, vars, event, loop
<1> QED BY <1>1, <1>4, <1>5, <1>6, <1>7, <1>8 DEF Next

(* The timers' invariant.                                                  *)
THEOREM Invariant == Spec => []IInv
<1>1. IInv /\ [Next]_vars => IInv'
  BY CoreStep, HiddenStep DEF IInv
<1> QED BY <1>1, InitCore, PTL DEF Spec

(***************************************************************************)
(* The properties the runs check.                                          *)
(***************************************************************************)

(* A timer is in the tree exactly while it is set and has not expired,     *)
(* with the key the event has, and out of the tree the key is 0            *)
(* (event_add_timer, event_del_timer and event_expire_timers).             *)
THEOREM TreeHoldsSetTimers == Spec => []SetMeansPending
<1>1. IInv => SetMeansPending
  <2> SUFFICES ASSUME IInv PROVE SetMeansPending
    OBVIOUS
  <2>1. ASSUME NEW e \in Nodes, NEW j \in DOMAIN queue, queue[j].node = e
        PROVE  queue[j].key = key[e]
    BY <2>1 DEF IInv, Core, KeysAgree, Entries
  <2> QED BY <2>1 DEF IInv, Core, InTree, SetMeansPending
<1> QED BY <1>1, Invariant, PTL

(* Whatever an event did before, a timer that was asked for is in the tree *)
(* close to where it was asked for, but for a key that lies next to 0 (the *)
(* early return of event_add_timer).                                       *)
THEOREM AskedTimersAreArmed == Spec => []AskedIsArmed
<1>1. IInv => AskedIsArmed
  <2> SUFFICES ASSUME IInv, NEW e \in Nodes, left[e] # None, left[e] # Late
               PROVE  LET asked == (now + left[e]) % M
                      IN  \/ e \in Pending /\ PAbs(asked - key[e]) < TIMER_LAZY_DELAY
                          \/ e \notin Pending /\ PAbs(asked) < TIMER_LAZY_DELAY
    BY DEF AskedIsArmed
  <2> USE DEF IInv, Core
  <2>1. PICK a \in Int, k \in Int : a = (now + left[e]) % M /\ k = key[e]
    <3>1. now + left[e] \in Int
      BY Width DEF TypeOK
    <3> QED BY <3>1, Division, Width DEF TypeOK
  <2>2. PICK d \in Slack : Signed(a - k) = d
    BY <2>1, KeyOfKnown
  <2>3. PICK z \in Nat : z = TIMER_LAZY_DELAY - 1 /\ z < M \div 2
    BY Width
  <2>4. Signed(a - k) \in -z .. z
    BY <2>2, <2>3, Width DEF Slack
  <2>5. PAbs(a - k) < TIMER_LAZY_DELAY
    <3>1. PAbs(a - k) \in 0 .. z
      BY <2>3, <2>4, PAbsFacts
    <3> QED BY <2>3, <3>1, Width
  <2>6. e \notin Pending => k = 0 /\ a - k = a
    BY <2>1 DEF InTree
  <2> QED BY <2>1, <2>5, <2>6
<1> QED BY <1>1, Invariant, PTL

(* When event_expire_timers is done, a timer that is due is still in the   *)
(* tree only behind a smaller key that is due later: one that has wrapped, *)
(* or that was itself hidden for half a turn (event_expire_timers).        *)
THEOREM OverdueTimersAreHidden == Spec => []OverdueIsHidden
<1>1. IInv => OverdueIsHidden
  BY DEF IInv
<1> QED BY <1>1, Invariant, PTL

(* No event times out early, also where the clock wraps (is_expired).      *)
THEOREM NoneIsEarly == Spec => NeverEarly
<1> DEFINE Early ==
      pc' = "handler" /\ pc = "expire" =>
        \A e \in Pending : e \notin Members(queue') /\ left[e] # None =>
          left[e] < TIMER_LAZY_DELAY
<1>1. IInv /\ [Next]_vars => [Early]_vars
  <2> SUFFICES ASSUME IInv, Next, pc' = "handler", pc = "expire",
                      NEW e \in Pending, e \notin Members(queue'), left[e] # None
               PROVE  left[e] < TIMER_LAZY_DELAY
    OBVIOUS
  <2> USE DEF IInv, Core
  <2>1. Expire
    BY DEF Next, Handler, InHandler, DelTimer, AddTimer, EndEvents, EndHandler,
           EndExpire, SigAlrm, Interrupted, EventsLate, EventsSoon
  <2> DEFINE f == Head(queue).node
  <2>2. f \in Nodes /\ Head(queue).key = key[f]
    BY <2>1, HeadFacts DEF Expire, SmallestExpired
  <2>3. IsExpired(key[f]) /\ queue' = Removed(queue, f)
    BY <2>1, <2>2 DEF Expire, SmallestExpired
  <2> HIDE DEF f
  <2>4. e = f
    <3>1. Entries(queue') = {x \in Entries(queue) : x.node # f}
      BY <2>3, RemovedFacts
    <3>2. Members(queue') = Members(queue) \ {f}
      BY <3>1, MembersFacts
    <3> QED BY <3>2 DEF Pending
  <2>5. ~(TIMER_LAZY_DELAY <= left[e])
    BY <2>2, <2>3, <2>4, EarlyLooksAhead
  <2>6. left[e] \in Late .. M
    BY <2>2, <2>4 DEF TypeOK
  <2> QED BY <2>5, <2>6, Width
<1> QED BY <1>1, Invariant, PTL DEF Spec, NeverEarly

==============================================================================
