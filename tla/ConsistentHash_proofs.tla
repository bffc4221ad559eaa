------------------------ MODULE ConsistentHash_proofs ------------------------
(***************************************************************************)
(* Proofs about ConsistentHash, for any servers, weights and points, any   *)
(* number of requests, and any order of their steps.                       *)
(*                                                                         *)
(* The recursive functions of the model, the sum of the weights, the       *)
(* filling of the ring and the binary search, are treated in three steps:  *)
(* a function with that equation exists, so the one defined satisfies it,  *)
(* and what it computes follows by induction.                              *)
(***************************************************************************)
EXTENDS ConsistentHash, SetSums

-----------------------------------------------------------------------------
(***************************************************************************)
(* The sum of the weights.                                                 *)
(***************************************************************************)
LEMMA WeightIsNat == \A s \in Servers : Weight[s] \in Nat /\ Weight[s] >= 1
BY WeightAssumption

(* total_w is the last of the partial sums.                                *)
WeightIn(up, k) == IF k - 1 \in up THEN Weight[k - 1] ELSE 0
IsAdding(up, sum) ==
  /\ sum[0] = 0 /\ \A k \in 0 .. nelts : sum[k] \in Nat
  /\ \A k \in 1 .. nelts : sum[k] = sum[k - 1] + WeightIn(up, k)
  /\ TotalWeight(up) = sum[nelts]

LEMMA Adding ==
  ASSUME NEW up
  PROVE  \E sum : IsAdding(up, sum)
<1> DEFINE W(k) == WeightIn(up, k)
           G == [k \in 1 .. nelts |-> [x \in Nat |-> x + W(k)]]
           sum == CHOOSE g : g = [k \in 0 .. nelts |->
                    IF k = 0 THEN 0 ELSE g[k - 1] + W(k)]
<1>1. \A k \in 1 .. nelts : W(k) \in Nat /\ k - 1 \in Servers
  BY WeightIsNat, NeltsAssumption DEF Servers, WeightIn
<1>6. TotalWeight(up) = sum[nelts]
  BY DEF TotalWeight, WeightIn
<1> HIDE DEF W
<1>2. nelts \in Nat /\ 0 \in Nat /\ IsStep(nelts, Nat, G)
  BY <1>1, NeltsAssumption DEF IsStep
<1>3. PICK f \in [0 .. nelts -> Nat] :
        f[0] = 0 /\ \A k \in 1 .. nelts : f[k] = G[k][f[k - 1]]
  <2> HIDE DEF G
  <2>1. HasRecursive(nelts, Nat, 0, G)
    BY <1>2, Recursion, Zenon
  <2> QED BY <2>1 DEF HasRecursive
<1>4. f = [k \in 0 .. nelts |-> IF k = 0 THEN 0 ELSE f[k - 1] + W(k)]
  <2>1. ASSUME NEW k \in 0 .. nelts
        PROVE  f[k] = IF k = 0 THEN 0 ELSE f[k - 1] + W(k)
    <3>1. CASE k # 0
      <4>1. k \in 1 .. nelts /\ f[k - 1] \in Nat
        BY <3>1, <1>2
      <4> QED BY <1>3, <3>1, <4>1
    <3> QED BY <1>3, <3>1
  <2> QED BY <2>1
<1>5. sum = [k \in 0 .. nelts |-> IF k = 0 THEN 0 ELSE sum[k - 1] + W(k)]
  BY <1>4
<1> HIDE DEF sum
<1>7. \A k \in 0 .. nelts : sum[k] = IF k = 0 THEN 0 ELSE sum[k - 1] + W(k)
  BY <1>5, Zenon
<1>8. sum[0] = 0
  BY <1>2, <1>7
<1>9. ASSUME NEW k \in 1 .. nelts PROVE sum[k] = sum[k - 1] + W(k)
  <2>1. k \in 0 .. nelts /\ k # 0
    BY <1>2
  <2> QED BY <1>7, <2>1
<1> DEFINE S == {k \in Nat : k <= nelts => sum[k] \in Nat}
<1>10. 0 \in S
  BY <1>8
<1>11. ASSUME NEW k \in Nat, k \in S PROVE k + 1 \in S
  <2> SUFFICES ASSUME k + 1 <= nelts PROVE sum[k + 1] \in Nat
    OBVIOUS
  <2>1. k + 1 \in 1 .. nelts /\ (k + 1) - 1 = k /\ k <= nelts
    BY <1>2
  <2>2. sum[k + 1] = sum[k] + W(k + 1)
    BY <1>9, <2>1
  <2> QED BY <1>1, <1>11, <2>1, <2>2
<1> HIDE DEF S
<1>12. \A k \in Nat : k \in S
  BY <1>10, <1>11, Induction
<1>13. \A k \in 0 .. nelts : sum[k] \in Nat
  BY <1>2, <1>12 DEF S
<1>14. IsAdding(up, sum)
  BY <1>6, <1>8, <1>9, <1>13 DEF IsAdding, W
<1> QED BY <1>14

LEMMA TotalWeightIs ==
  ASSUME NEW up
  PROVE  /\ TotalWeight(up) \in Nat
         /\ \A s \in Servers : s \in up => 1 <= TotalWeight(up)
<1>1. PICK sum : IsAdding(up, sum)
  BY Adding
<1>2. nelts \in Nat
  BY NeltsAssumption
<1> DEFINE S == {k \in Nat : k <= nelts => \A s \in up : s \in 0 .. k - 1 => 1 <= sum[k]}
<1>3. 0 \in S
  OBVIOUS
<1>4. ASSUME NEW k \in Nat, k \in S PROVE k + 1 \in S
  <2> SUFFICES ASSUME k + 1 <= nelts, NEW s \in up, s \in 0 .. k PROVE 1 <= sum[k + 1]
    OBVIOUS
  <2>1. k + 1 \in 1 .. nelts /\ (k + 1) - 1 = k /\ k \in 0 .. nelts /\ k \in Servers
    BY <1>2 DEF Servers
  <2>2. sum[k + 1] = sum[k] + WeightIn(up, k + 1) /\ sum[k] \in Nat
    BY <1>1, <2>1 DEF IsAdding
  <2>3. WeightIn(up, k + 1) \in Nat /\ s = k => 1 <= WeightIn(up, k + 1)
    BY <2>1, WeightIsNat DEF WeightIn
  <2>4. s # k => 1 <= sum[k]
    BY <1>2, <1>4
  <2>5. WeightIn(up, k + 1) \in Nat
    BY <2>1, WeightIsNat DEF WeightIn
  <2> QED BY <2>2, <2>3, <2>4, <2>5
<1> HIDE DEF S
<1>5. nelts \in S
  BY <1>2, <1>3, <1>4, Induction
<1>6. \A s \in up : s \in Servers => 1 <= sum[nelts]
  BY <1>2, <1>5 DEF S, Servers
<1> QED BY <1>1, <1>2, <1>6 DEF IsAdding

(* Every server in the ring has a virtual node at least.                   *)
LEMMA VNodesIs ==
  ASSUME NEW up \in SUBSET Servers, NEW s \in up
  PROVE  VNodes(s, up) \in Nat /\ 1 <= VNodes(s, up)
<1>1. PICK w \in Nat : w = TotalWeight(up) /\ 1 <= w
  BY TotalWeightIs
<1>2. Cardinality(up) \in Nat /\ 1 <= Cardinality(up)
  <2>1. IsFiniteSet(up)
    <3>1. IsFiniteSet(Servers)
      BY FS_Interval, NeltsAssumption DEF Servers
    <3> QED BY <3>1, FS_Subset
  <2>2. Cardinality(up) # 0
    BY <2>1, FS_EmptySet
  <2> QED BY <2>1, <2>2, FS_CardinalityType
<1>3. PICK x \in Nat : x = 8 * Cardinality(up) * Weight[s] /\ 1 <= x
  <2>1. \A a, b \in Nat : 1 <= a /\ 1 <= b => 8 * a * b \in Nat /\ 1 <= 8 * a * b
    OBVIOUS
  <2> QED BY <1>2, <2>1, WeightIsNat
<1>4. (x + w - 1) \div w \in Nat /\ 1 <= (x + w - 1) \div w
  BY <1>1, <1>3
<1> QED BY <1>1, <1>3, <1>4 DEF VNodes

-----------------------------------------------------------------------------
(***************************************************************************)
(* The filling of the ring.                                                *)
(***************************************************************************)
Cell == [rnode : Servers, hashcode : Nat]

(* The cells of q are virtual nodes of the servers of T, of each at least  *)
(* one, in the order of their hashcodes.                                   *)
IsRing(q, T) ==
  /\ q \in Seq(Cell)
  /\ \A i \in 1 .. Len(q) : q[i].rnode \in T /\ q[i].hashcode = Point[q[i].rnode]
  /\ \A s \in T : \E i \in 1 .. Len(q) : q[i].rnode = s
  /\ \A i, j \in 1 .. Len(q) : i <= j => q[i].hashcode <= q[j].hashcode

IsCut(q, c, h) == \A i \in 1 .. Len(q) : q[i].hashcode < h <=> i <= c

(* There is a place for every hashcode.                                    *)
LEMMA CutExists ==
  ASSUME NEW q, NEW T, IsRing(q, T), NEW h \in Nat
  PROVE  \E c \in 0 .. Len(q) : IsCut(q, c, h)
<1> DEFINE S == {n \in Nat : n <= Len(q) =>
                   \E c \in 0 .. n : \A i \in 1 .. n : q[i].hashcode < h <=> i <= c}
<1>1. Len(q) \in Nat /\ \A i \in 1 .. Len(q) : q[i].hashcode \in Nat
  <2>1. q \in Seq(Cell)
    BY DEF IsRing
  <2>2. Len(q) \in Nat /\ \A i \in 1 .. Len(q) : q[i] \in Cell
    BY <2>1
  <2> QED BY <2>2 DEF Cell
<1>2. 0 \in S
  OBVIOUS
<1>3. ASSUME NEW n \in Nat, n \in S PROVE n + 1 \in S
  <2> SUFFICES ASSUME n + 1 <= Len(q)
               PROVE  \E c \in 0 .. n + 1 :
                        \A i \in 1 .. n + 1 : q[i].hashcode < h <=> i <= c
    OBVIOUS
  <2>1. PICK c \in 0 .. n : \A i \in 1 .. n : q[i].hashcode < h <=> i <= c
    BY <1>1, <1>3
  <2>2. CASE q[n + 1].hashcode < h
    <3>1. \A i \in 1 .. n + 1 : q[i].hashcode <= q[n + 1].hashcode
      BY <1>1 DEF IsRing
    <3>2. \A i \in 1 .. n + 1 : q[i].hashcode < h <=> i <= n + 1
      BY <1>1, <2>2, <3>1
    <3> QED BY <3>2
  <2>3. CASE ~(q[n + 1].hashcode < h)
    <3>1. \A i \in 1 .. n + 1 : q[i].hashcode < h <=> i <= c
      <4> TAKE i \in 1 .. n + 1
      <4>1. i \in 1 .. n \/ i = n + 1
        OBVIOUS
      <4> QED BY <2>1, <2>3, <4>1
    <3>2. c \in 0 .. n + 1
      OBVIOUS
    <3> QED BY <3>1, <3>2
  <2> QED BY <2>2, <2>3
<1>4. Len(q) \in S
  <2> HIDE DEF S
  <2> QED BY <1>1, <1>2, <1>3, Induction
<1> QED BY <1>1, <1>4 DEF IsCut

Spread(q, c, m, node) ==
  SubSeq(q, 1, c) \o [i \in 1 .. m |-> node] \o SubSeq(q, c + 1, Len(q))

IsSpread(z, q, c, m, node, A) ==
  /\ z \in Seq(A) /\ Len(z) = Len(q) + m
  /\ \A i \in 1 .. Len(q) + m :
       z[i] = IF i <= c THEN q[i] ELSE IF i <= c + m THEN node ELSE q[i - m]

(* Where the cells are when m of them are put in behind c.                 *)
LEMMA SpreadIs ==
  ASSUME NEW A, NEW q \in Seq(A), NEW c \in 0 .. Len(q), NEW m \in Nat, NEW node \in A
  PROVE  IsSpread(Spread(q, c, m, node), q, c, m, node, A)
<1> DEFINE a == SubSeq(q, 1, c)
           b == [i \in 1 .. m |-> node]
           d == SubSeq(q, c + 1, Len(q))
<1>1. PICK L \in Nat : L = Len(q)
  OBVIOUS
<1>2. a \in Seq(A) /\ Len(a) = c /\ \A i \in 1 .. c : a[i] = q[i]
  BY <1>1
<1>3. b \in Seq(A) /\ Len(b) = m /\ \A i \in 1 .. m : b[i] = node
  BY <1>1
<1>4. d \in Seq(A) /\ Len(d) = L - c /\ \A i \in 1 .. L - c : d[i] = q[c + i]
  BY <1>1
<1>5. Spread(q, c, m, node) = a \o b \o d
  BY DEF Spread
<1> HIDE DEF a, b, d
<1>6. /\ a \o b \in Seq(A) /\ Len(a \o b) = c + m
      /\ \A i \in 1 .. c + m : (a \o b)[i] = IF i <= c THEN q[i] ELSE node
  BY <1>1, <1>2, <1>3
<1> DEFINE e == a \o b
<1>7. e \in Seq(A) /\ Len(e) = c + m
  BY <1>6
<1>8. \A i \in 1 .. c + m : e[i] = IF i <= c THEN q[i] ELSE node
  BY <1>6
<1> HIDE DEF e
<1>9. e \o d \in Seq(A) /\ Len(e \o d) = L + m
  <2>1. L + m = c + m + (L - c) /\ c \in Nat /\ L - c \in Nat
    BY <1>1
  <2>2. PICK x \in Nat, y \in Nat : x = c + m /\ y = L - c /\ x + y = L + m
    BY <2>1
  <2>3. Len(e) = x /\ Len(d) = y
    BY <1>4, <1>7, <2>2
  <2>4. e \o d \in Seq(A) /\ Len(e \o d) = x + y
    BY <1>4, <1>7, <2>3
  <2> QED BY <2>2, <2>4
<1>10. ASSUME NEW i \in 1 .. L + m
       PROVE  (e \o d)[i] = IF i <= c THEN q[i] ELSE IF i <= c + m THEN node ELSE q[i - m]
  <2>1. CASE i <= c + m
    BY <1>1, <1>4, <1>7, <1>8, <2>1
  <2>2. CASE c + m < i
    <3>1. (e \o d)[i] = d[i - (c + m)]
      BY <1>1, <1>4, <1>7, <2>2
    <3>2. i - (c + m) \in 1 .. L - c /\ c + (i - (c + m)) = i - m
      BY <1>1, <2>2
    <3> QED BY <1>1, <1>4, <2>2, <3>1, <3>2
  <2>3. i <= c + m \/ c + m < i
    BY <1>1
  <2> QED BY <2>1, <2>2, <2>3
<1>11. e \o d = Spread(q, c, m, node)
  BY <1>5 DEF e
<1> QED BY <1>1, <1>9, <1>10, <1>11 DEF IsSpread

(* The virtual nodes of one more server are put in.                        *)
LEMMA PutIn ==
  ASSUME NEW T \in SUBSET Servers, NEW q, IsRing(q, T), NEW s \in Servers,
         NEW m \in Nat, 1 <= m,
         NEW c \in 0 .. Len(q), IsCut(q, c, Point[s])
  PROVE  IsRing(Spread(q, c, m, [rnode |-> s, hashcode |-> Point[s]]), T \cup {s})
<1> DEFINE node == [rnode |-> s, hashcode |-> Point[s]]
           z == Spread(q, c, m, node)
<1>1. q \in Seq(Cell) /\ node \in Cell
  BY PointAssumption DEF IsRing, Cell
<1>2. PICK L \in Nat : L = Len(q)
  BY <1>1
<1>3. node.rnode = s /\ node.hashcode = Point[s] /\ Point[s] \in Nat
  BY PointAssumption
<1> HIDE DEF node
<1>0. IsSpread(z, q, c, m, node, Cell)
  BY <1>1, SpreadIs, Zenon
<1>4. z \in Seq(Cell) /\ Len(z) = L + m
  BY <1>0, <1>2 DEF IsSpread
<1>5. \A i \in 1 .. L + m :
        z[i] = IF i <= c THEN q[i] ELSE IF i <= c + m THEN node ELSE q[i - m]
  BY <1>0, <1>2 DEF IsSpread
<1> HIDE DEF z
<1>6. /\ \A i \in 1 .. L : q[i].rnode \in T /\ q[i].hashcode = Point[q[i].rnode]
      /\ \A t \in T : \E i \in 1 .. L : q[i].rnode = t
      /\ \A i, j \in 1 .. L : i <= j => q[i].hashcode <= q[j].hashcode
      /\ \A i \in 1 .. L : q[i].hashcode \in Nat
  <2>1. \A i \in 1 .. L : q[i] \in Cell
    BY <1>1, <1>2
  <2> QED BY <1>2, <2>1 DEF IsRing, Cell
<1>7. \A i \in 1 .. L : q[i].hashcode < Point[s] <=> i <= c
  BY <1>2 DEF IsCut
<1>8. c \in Nat /\ c <= L
  BY <1>2
<1>9. \A i \in 1 .. L + m : z[i].rnode \in T \cup {s} /\ z[i].hashcode = Point[z[i].rnode]
  <2> TAKE i \in 1 .. L + m
  <2>1. CASE i <= c
    BY <1>5, <1>6, <1>8, <2>1
  <2>2. CASE c < i /\ i <= c + m
    BY <1>3, <1>5, <1>8, <2>2
  <2>3. CASE c + m < i
    <3>1. i - m \in 1 .. L /\ z[i] = q[i - m]
      BY <1>5, <1>8, <2>3
    <3> QED BY <1>6, <3>1
  <2> QED BY <1>8, <2>1, <2>2, <2>3
<1>10. \A t \in T \cup {s} : \E i \in 1 .. L + m : z[i].rnode = t
  <2> TAKE t \in T \cup {s}
  <2>1. CASE t = s
    <3>1. c + 1 \in 1 .. L + m /\ z[c + 1] = node
      BY <1>5, <1>8
    <3> QED BY <1>3, <2>1, <3>1
  <2>2. CASE t \in T
    <3>1. PICK i \in 1 .. L : q[i].rnode = t
      BY <1>6, <2>2
    <3>2. CASE i <= c
      BY <1>5, <1>8, <3>1, <3>2
    <3>3. CASE c < i
      <4>1. i + m \in 1 .. L + m /\ z[i + m] = q[i]
        <5>1. i + m \in 1 .. L + m /\ ~(i + m <= c) /\ ~(i + m <= c + m) /\ i + m - m = i
          BY <1>8, <3>3
        <5> QED BY <1>5, <5>1
      <4> QED BY <3>1, <4>1
    <3> QED BY <1>8, <3>2, <3>3
  <2> QED BY <2>1, <2>2
<1>11. \A i, j \in 1 .. L + m : i <= j => z[i].hashcode <= z[j].hashcode
  <2> SUFFICES ASSUME NEW i \in 1 .. L + m, NEW j \in 1 .. L + m, i <= j
               PROVE  z[i].hashcode <= z[j].hashcode
    OBVIOUS
  <2>1. CASE j <= c
    <3>1. z[i] = q[i] /\ z[j] = q[j] /\ i \in 1 .. L /\ j \in 1 .. L
      BY <1>5, <1>8, <2>1
    <3> QED BY <1>6, <3>1
  <2>2. CASE i <= c /\ c < j /\ j <= c + m
    <3>1. z[i] = q[i] /\ z[j] = node /\ i \in 1 .. L
      BY <1>5, <1>8, <2>2
    <3> QED BY <1>3, <1>6, <1>7, <2>2, <3>1
  <2>3. CASE i <= c /\ c + m < j
    <3>1. z[i] = q[i] /\ z[j] = q[j - m] /\ i \in 1 .. L /\ j - m \in 1 .. L /\ i <= j - m
      BY <1>5, <1>8, <2>3
    <3> QED BY <1>6, <3>1
  <2>4. CASE c < i /\ j <= c + m
    <3>1. z[i] = node /\ z[j] = node
      BY <1>5, <1>8, <2>4
    <3> QED BY <1>3, <3>1
  <2>5. CASE c < i /\ i <= c + m /\ c + m < j
    <3>1. z[i] = node /\ z[j] = q[j - m] /\ j - m \in 1 .. L /\ ~(j - m <= c)
      BY <1>5, <1>8, <2>5
    <3>2. q[j - m].hashcode \in Nat /\ ~(q[j - m].hashcode < Point[s])
      BY <1>6, <1>7, <3>1
    <3> QED BY <1>3, <3>1, <3>2
  <2>6. CASE c + m < i
    <3>1. /\ z[i] = q[i - m] /\ z[j] = q[j - m] /\ i - m \in 1 .. L /\ j - m \in 1 .. L
          /\ i - m <= j - m
      BY <1>5, <1>8, <2>6
    <3> QED BY <1>6, <3>1
  <2> QED BY <1>8, <2>1, <2>2, <2>3, <2>4, <2>5, <2>6
<1>12. IsRing(z, T \cup {s})
  BY <1>4, <1>9, <1>10, <1>11 DEF IsRing
<1> QED BY <1>12 DEF z, node

(* A turn of the loop over the servers: server k - 1 is put in.            *)
Put(up, k, q) ==
  IF k - 1 \notin up THEN q
  ELSE LET node == VNode(k - 1, up)
           cut == CHOOSE c \in 0 .. Len(q) :
                    \A i \in 1 .. Len(q) : q[i].hashcode < node.hashcode <=> i <= c
       IN  SubSeq(q, 1, cut) \o [i \in 1 .. VNodes(k - 1, up) |-> node]
             \o SubSeq(q, cut + 1, Len(q))

IsPut(up, k, q) ==
  \E c \in 0 .. Len(q) :
    /\ IsCut(q, c, Point[k - 1])
    /\ Put(up, k, q) = Spread(q, c, VNodes(k - 1, up),
                              [rnode |-> k - 1, hashcode |-> Point[k - 1]])

LEMMA PutSpreads ==
  ASSUME NEW up \in SUBSET Servers, NEW k, NEW q, NEW T \in SUBSET Servers,
         IsRing(q, T), k - 1 \in up
  PROVE  IsPut(up, k, q)
<1> DEFINE s == k - 1
           node == [rnode |-> s, hashcode |-> Point[s]]
           cut == CHOOSE c \in 0 .. Len(q) : IsCut(q, c, Point[s])
<1>1. s \in Servers /\ Point[s] \in Nat
  BY PointAssumption
<1>2. \E c \in 0 .. Len(q) : IsCut(q, c, Point[s])
  BY <1>1, CutExists
<1>3. cut \in 0 .. Len(q) /\ IsCut(q, cut, Point[s])
  BY <1>2
<1>4. VNode(s, up) = node /\ node.hashcode = Point[s]
  BY DEF VNode
<1>5. Put(up, k, q) = Spread(q, cut, VNodes(s, up), node)
  BY <1>4 DEF Put, Spread, IsCut
<1> HIDE DEF cut
<1> QED BY <1>3, <1>5 DEF IsPut

LEMMA PutIs ==
  ASSUME NEW up \in SUBSET Servers, NEW k \in 1 .. nelts, NEW q, NEW T \in SUBSET Servers,
         IsRing(q, T)
  PROVE  IsRing(Put(up, k, q), T \cup ({k - 1} \cap up))
<1>1. CASE k - 1 \notin up
  <2>1. T \cup ({k - 1} \cap up) = T /\ Put(up, k, q) = q
    BY <1>1 DEF Put
  <2> QED BY <2>1
<1>2. CASE k - 1 \in up
  <2> DEFINE s == k - 1
             m == VNodes(s, up)
  <2>1. s \in Servers /\ s \in up /\ m \in Nat /\ 1 <= m
    BY <1>2, VNodesIs
  <2>2. IsPut(up, k, q)
    BY <1>2, PutSpreads
  <2>3. PICK c \in 0 .. Len(q) :
          /\ IsCut(q, c, Point[s])
          /\ Put(up, k, q) = Spread(q, c, m, [rnode |-> s, hashcode |-> Point[s]])
    BY <2>2 DEF IsPut
  <2>4. T \cup ({k - 1} \cap up) = T \cup {s}
    BY <2>1
  <2> HIDE DEF m, s
  <2>5. IsRing(Spread(q, c, m, [rnode |-> s, hashcode |-> Point[s]]), T \cup {s})
    BY <2>1, <2>3, PutIn
  <2> QED BY <2>3, <2>4, <2>5
<1> QED BY <1>1, <1>2

(* It makes the ring longer by its virtual nodes.                          *)
NodesIn(up, k) == IF k - 1 \in up THEN VNodes(k - 1, up) ELSE 0

LEMMA PutLength ==
  ASSUME NEW up \in SUBSET Servers, NEW k \in 1 .. nelts, NEW q, NEW T \in SUBSET Servers,
         IsRing(q, T)
  PROVE  Len(Put(up, k, q)) = Len(q) + NodesIn(up, k)
<1>1. q \in Seq(Cell) /\ Len(q) \in Nat
  BY DEF IsRing
<1>2. CASE k - 1 \notin up
  BY <1>1, <1>2 DEF Put, NodesIn
<1>3. CASE k - 1 \in up
  <2> DEFINE s == k - 1
             m == VNodes(s, up)
             node == [rnode |-> s, hashcode |-> Point[s]]
  <2>1. s \in Servers /\ Point[s] \in Nat /\ m \in Nat
    BY <1>3, VNodesIs, PointAssumption
  <2>2. IsPut(up, k, q)
    BY <1>3, PutSpreads
  <2>3. PICK c \in 0 .. Len(q) : Put(up, k, q) = Spread(q, c, m, node)
    BY <2>2 DEF IsPut
  <2>4. node \in Cell
    BY <2>1 DEF Cell
  <2>5. NodesIn(up, k) = m
    BY <1>3 DEF NodesIn
  <2> HIDE DEF m, node, s
  <2>6. IsSpread(Spread(q, c, m, node), q, c, m, node, Cell)
    BY <1>1, <2>1, <2>4, SpreadIs
  <2> QED BY <2>3, <2>5, <2>6 DEF IsSpread
<1> QED BY <1>2, <1>3

(* The ring is the last of the rings over the first servers.               *)
Below(up, k) == {s \in up : s < k}
IsFilling(up, put) ==
  /\ put[0] = <<>> /\ \A k \in 0 .. nelts : IsRing(put[k], Below(up, k))
  /\ \A k \in 1 .. nelts : put[k] = Put(up, k, put[k - 1])
  /\ Sorted(up) = put[nelts]

LEMMA Filling ==
  ASSUME NEW up \in SUBSET Servers
  PROVE  \E put : IsFilling(up, put)
<1> DEFINE A == {q \in Seq(Cell) : \E T \in SUBSET Servers : IsRing(q, T)}
           G == [k \in 1 .. nelts |-> [q \in A |-> Put(up, k, q)]]
           put == CHOOSE f : f = [k \in 0 .. nelts |->
                    IF k = 0 THEN <<>> ELSE Put(up, k, f[k - 1])]
           S == {k \in Nat : k <= nelts => IsRing(put[k], Below(up, k))}
<1>1. nelts \in Nat
  BY NeltsAssumption
<1>0. \A s \in up : s \in Nat /\ s < nelts
  BY <1>1 DEF Servers
<1>2. IsRing(<<>>, {})
  BY DEF IsRing
<1>3. Sorted(up) = put[nelts]
  BY DEF Sorted, Put
<1>4. <<>> \in A /\ IsStep(nelts, A, G)
  <2>1. ASSUME NEW k \in 1 .. nelts, NEW q \in A PROVE Put(up, k, q) \in A
    <3>1. PICK T \in SUBSET Servers : IsRing(q, T)
      OBVIOUS
    <3> DEFINE U == T \cup ({k - 1} \cap up)
    <3>2. IsRing(Put(up, k, q), U) /\ U \in SUBSET Servers
      BY <3>1, PutIs
    <3>3. Put(up, k, q) \in Seq(Cell)
      BY <3>2 DEF IsRing
    <3> HIDE DEF U
    <3> QED BY <3>2, <3>3
  <2>2. <<>> \in A
    BY <1>2 DEF IsRing
  <2> HIDE DEF A
  <2> QED BY <2>1, <2>2 DEF IsStep
<1>5. PICK f \in [0 .. nelts -> A] :
        f[0] = <<>> /\ \A k \in 1 .. nelts : f[k] = G[k][f[k - 1]]
  <2>1. HasRecursive(nelts, A, <<>>, G)
    <3> HIDE DEF A, G
    <3> QED BY <1>1, <1>4, Recursion, Zenon
  <2> HIDE DEF A, G
  <2> QED BY <2>1 DEF HasRecursive
<1> HIDE DEF A
<1>6. f = [k \in 0 .. nelts |-> IF k = 0 THEN <<>> ELSE Put(up, k, f[k - 1])]
  <2>1. ASSUME NEW k \in 0 .. nelts
        PROVE  f[k] = IF k = 0 THEN <<>> ELSE Put(up, k, f[k - 1])
    <3>1. CASE k # 0
      <4>1. k \in 1 .. nelts /\ f[k - 1] \in A
        BY <3>1, <1>1
      <4> QED BY <1>5, <3>1, <4>1
    <3> QED BY <1>5, <3>1
  <2> QED BY <2>1
<1>7. put = [k \in 0 .. nelts |-> IF k = 0 THEN <<>> ELSE Put(up, k, put[k - 1])]
  BY <1>6
<1> HIDE DEF put
<1>8. \A k \in 0 .. nelts : put[k] = IF k = 0 THEN <<>> ELSE Put(up, k, put[k - 1])
  BY <1>7
<1>14. put[0] = <<>>
  BY <1>1, <1>8
<1>15. ASSUME NEW k \in 1 .. nelts PROVE put[k] = Put(up, k, put[k - 1])
  <2>1. k \in 0 .. nelts /\ k # 0
    BY <1>1
  <2> QED BY <1>8, <2>1
<1>9. 0 \in S
  <2>1. Below(up, 0) = {}
    BY <1>0 DEF Below
  <2> QED BY <1>2, <1>14, <2>1
<1>10. ASSUME NEW k \in Nat, k \in S PROVE k + 1 \in S
  <2> SUFFICES ASSUME k + 1 <= nelts PROVE IsRing(put[k + 1], Below(up, k + 1))
    OBVIOUS
  <2>1. IsRing(put[k], Below(up, k)) /\ Below(up, k) \in SUBSET Servers
    BY <1>1, <1>10 DEF Below
  <2>2. k + 1 \in 1 .. nelts /\ (k + 1) - 1 = k
    BY <1>1
  <2>3. put[k + 1] = Put(up, k + 1, put[k])
    BY <1>15, <2>2
  <2>4. IsRing(Put(up, k + 1, put[k]), Below(up, k) \cup ({(k + 1) - 1} \cap up))
    BY <2>1, <2>2, PutIs
  <2>5. Below(up, k) \cup ({(k + 1) - 1} \cap up) = Below(up, k + 1)
    <3>1. ASSUME NEW s \in up PROVE s < k + 1 <=> s < k \/ s = k
      BY <1>0
    <3> QED BY <2>2, <3>1 DEF Below
  <2> QED BY <2>3, <2>4, <2>5
<1> HIDE DEF S
<1>11. \A k \in Nat : k \in S
  BY <1>9, <1>10, Induction
<1>12. \A k \in 0 .. nelts : IsRing(put[k], Below(up, k))
  BY <1>1, <1>11 DEF S
<1>13. IsFilling(up, put)
  BY <1>3, <1>12, <1>14, <1>15 DEF IsFilling
<1> QED BY <1>13

(* The ring of the servers `up' is well-formed (the loops of               *)
(* init_before_consistent_hash_get and its qsort).                         *)
LEMMA SortedIs ==
  ASSUME NEW up \in SUBSET Servers
  PROVE  IsRing(Sorted(up), up)
<1>1. PICK put : IsFilling(up, put)
  BY Filling
<1>2. nelts \in Nat /\ \A s \in up : s < nelts
  BY NeltsAssumption DEF Servers
<1>3. Below(up, nelts) = up
  BY <1>2 DEF Below
<1> QED BY <1>1, <1>2, <1>3 DEF IsFilling

-----------------------------------------------------------------------------
(***************************************************************************)
(* The length of the ring.  The shares are rounded up, one by one, so a    *)
(* ring of k servers has between 8k and 9k - 1 virtual nodes; the memory   *)
(* is that of the ring over all servers, which is enough for the others    *)
(* while 9(n - 1) - 1 <= 8n.                                               *)
(***************************************************************************)
ServersOf(up, k) == Cardinality(Below(up, k))

(* p_ceil: the quotient, rounded up.                                       *)
IsCeiling(x, w, v) == v \in Nat /\ x <= w * v /\ w * v <= x + (w - 1)

LEMMA Ceiling ==
  ASSUME NEW x \in Nat, NEW w \in Nat, 1 <= w
  PROVE  IsCeiling(x, w, (x + w - 1) \div w)
<1> DEFINE y == x + w - 1
           v == y \div w
<1>1. y \in Nat
  OBVIOUS
<1> HIDE DEF y
<1>2. v \in Nat /\ w * v <= y /\ y < w * v + w
  BY <1>1
<1>3. w * v \in Nat
  BY <1>2
<1>4. x <= w * v /\ w * v <= x + (w - 1)
  BY <1>2, <1>3 DEF y
<1> QED BY <1>2, <1>4 DEF IsCeiling, y

(* Of the servers before the k-th: their virtual nodes against their       *)
(* weights, c times the number of servers in the ring being 8 of each.     *)
InShare(c, w, sum, len, n) == c * sum <= w * len /\ w * len <= c * sum + n * (w - 1)

LEMMA ShareMore ==
  ASSUME NEW c \in Nat, NEW w \in Nat, 1 <= w, NEW sum \in Nat, NEW len \in Nat, NEW n \in Nat,
         InShare(c, w, sum, len, n), NEW x \in Nat
  PROVE  InShare(c, w, sum + x, len + (c * x + w - 1) \div w, n + 1)
<1> DEFINE v == (c * x + w - 1) \div w
<1>1. c * x \in Nat
  OBVIOUS
<1>2. PICK y \in Nat : y = c * x
  BY <1>1
<1>3. v \in Nat /\ y <= w * v /\ w * v <= y + (w - 1)
  <2>1. IsCeiling(y, w, (y + w - 1) \div w)
    BY Ceiling
  <2> QED BY <1>2, <2>1 DEF IsCeiling
<1> HIDE DEF v
<1>4. /\ c * (sum + x) = c * sum + y /\ w * (len + v) = w * len + w * v
      /\ (n + 1) * (w - 1) = n * (w - 1) + (w - 1)
  BY <1>2, <1>3
<1>5. c * sum \in Nat /\ w * len \in Nat /\ w * v \in Nat /\ n * (w - 1) \in Nat
  BY <1>3
<1>6. InShare(c, w, sum + x, len + v, n + 1)
  BY <1>2, <1>3, <1>4, <1>5 DEF InShare
<1> QED BY <1>6 DEF v

LEMMA ServersOfIs ==
  ASSUME NEW up \in SUBSET Servers, NEW k \in 1 .. nelts
  PROVE  /\ ServersOf(up, k - 1) \in Nat
         /\ ServersOf(up, k) = ServersOf(up, k - 1) + (IF k - 1 \in up THEN 1 ELSE 0)
<1> DEFINE B == Below(up, k - 1)
<1>1. IsFiniteSet(B)
  <2>1. IsFiniteSet(Servers)
    BY FS_Interval, NeltsAssumption DEF Servers
  <2>2. B \in SUBSET Servers
    BY DEF Below
  <2> QED BY <2>1, <2>2, FS_Subset
<1>2. Cardinality(B) \in Nat
  BY <1>1, FS_CardinalityType
<1>3. \A s \in up : s \in Nat
  BY NeltsAssumption DEF Servers
<1>4. Below(up, k) = B \cup ({k - 1} \cap up)
  <2>1. ASSUME NEW s \in up PROVE s < k <=> s < k - 1 \/ s = k - 1
    BY <1>3, NeltsAssumption
  <2> QED BY <2>1 DEF Below
<1>5. k - 1 \notin B
  BY NeltsAssumption DEF Below
<1> HIDE DEF B
<1>6. CASE k - 1 \in up
  <2>1. Below(up, k) = B \cup {k - 1}
    BY <1>4, <1>6
  <2>2. Cardinality(B \cup {k - 1}) = Cardinality(B) + 1
    BY <1>1, <1>5, FS_AddElement
  <2> QED BY <1>2, <1>6, <2>1, <2>2 DEF ServersOf, B
<1>7. CASE k - 1 \notin up
  <2>1. Below(up, k) = B
    BY <1>4, <1>7
  <2> QED BY <1>2, <1>7, <2>1 DEF ServersOf, B
<1> QED BY <1>6, <1>7

LEMMA Monotone ==
  ASSUME NEW a \in Nat, NEW x \in Nat, NEW y \in Nat, x <= y
  PROVE  a * x <= a * y
<1>1. PICK d \in Nat : y = x + d
  <2>1. y - x \in Nat /\ y = x + (y - x)
    OBVIOUS
  <2> QED BY <2>1
<1>2. a * y = a * x + a * d /\ a * d \in Nat /\ a * x \in Nat
  BY <1>1
<1> QED BY <1>2

LEMMA RingLength ==
  ASSUME NEW up \in SUBSET Servers, up # {}
  PROVE  /\ Len(Sorted(up)) \in Nat
         /\ 8 * Cardinality(up) <= Len(Sorted(up))
         /\ Len(Sorted(up)) <= 9 * Cardinality(up) - 1
<1>1. nelts \in Nat
  BY NeltsAssumption
<1>2. PICK K \in Nat : K = Cardinality(up) /\ 1 <= K
  <2>1. IsFiniteSet(up)
    <3>1. IsFiniteSet(Servers)
      BY FS_Interval, NeltsAssumption DEF Servers
    <3> QED BY <3>1, FS_Subset
  <2>2. Cardinality(up) # 0
    BY <2>1, FS_EmptySet
  <2> QED BY <2>1, <2>2, FS_CardinalityType
<1>3. PICK w \in Nat : w = TotalWeight(up) /\ 1 <= w
  BY TotalWeightIs
<1>4. PICK c \in Nat : c = 8 * K
  BY <1>2
<1>5. PICK sum : IsAdding(up, sum)
  BY Adding
<1>6. PICK put : IsFilling(up, put)
  BY Filling
<1> DEFINE Q(k) == InShare(c, w, sum[k], Len(put[k]), ServersOf(up, k))
           S == {k \in Nat : k <= nelts => Q(k)}
<1>7. \A k \in 0 .. nelts : sum[k] \in Nat /\ Len(put[k]) \in Nat /\ IsRing(put[k], Below(up, k))
  <2>1. \A k \in 0 .. nelts : put[k] \in Seq(Cell)
    BY <1>6 DEF IsFilling, IsRing
  <2> QED BY <1>5, <1>6, <2>1 DEF IsAdding, IsFilling
<1>8. 0 \in S
  <2>1. \A s \in up : ~(s < 0)
    BY <1>1 DEF Servers
  <2>2. Below(up, 0) = {}
    BY <2>1 DEF Below
  <2>3. sum[0] = 0 /\ put[0] = <<>> /\ ServersOf(up, 0) = 0
    BY <1>5, <1>6, <2>2, FS_EmptySet DEF IsAdding, IsFilling, ServersOf
  <2>4. Len(put[0]) = 0
    BY <2>3
  <2>5. InShare(c, w, 0, 0, 0)
    BY <1>3 DEF InShare
  <2>6. Q(0)
    BY <2>3, <2>4, <2>5
  <2> HIDE DEF Q
  <2> QED BY <2>6
<1>9. ASSUME NEW k \in Nat, k \in S PROVE k + 1 \in S
  <2> SUFFICES ASSUME k + 1 <= nelts PROVE Q(k + 1)
    OBVIOUS
  <2>1. k + 1 \in 1 .. nelts /\ (k + 1) - 1 = k /\ k \in 0 .. nelts
    BY <1>1
  <2>2. Q(k)
    BY <1>1, <1>9
  <2>3. sum[k + 1] = sum[k] + WeightIn(up, k + 1) /\ put[k + 1] = Put(up, k + 1, put[k])
    BY <1>5, <1>6, <2>1 DEF IsAdding, IsFilling
  <2>4. Len(put[k + 1]) = Len(put[k]) + NodesIn(up, k + 1)
    <3>1. Below(up, k) \in SUBSET Servers
      BY DEF Below
    <3>2. Len(Put(up, k + 1, put[k])) = Len(put[k]) + NodesIn(up, k + 1)
      BY <1>7, <2>1, <3>1, PutLength
    <3> QED BY <2>3, <3>2
  <2>5. /\ ServersOf(up, k) \in Nat
        /\ ServersOf(up, k + 1) = ServersOf(up, k) + (IF k \in up THEN 1 ELSE 0)
    BY <2>1, ServersOfIs
  <2>6. PICK a \in Nat, l \in Nat, n \in Nat :
          a = sum[k] /\ l = Len(put[k]) /\ n = ServersOf(up, k)
    BY <1>7, <2>1, <2>5
  <2>7. CASE k \notin up
    <3>1. /\ sum[k + 1] = sum[k] /\ Len(put[k + 1]) = Len(put[k])
          /\ ServersOf(up, k + 1) = ServersOf(up, k)
      BY <2>1, <2>3, <2>4, <2>5, <2>6, <2>7 DEF WeightIn, NodesIn
    <3> QED BY <2>2, <3>1
  <2>8. CASE k \in up
    <3>1. PICK x \in Nat : x = Weight[k]
      BY <2>8, WeightIsNat
    <3>2. VNodes(k, up) = (c * x + w - 1) \div w
      <4>1. 8 * Cardinality(up) * Weight[k] = c * x
        BY <1>2, <1>4, <3>1
      <4> QED BY <1>3, <4>1 DEF VNodes
    <3>3. InShare(c, w, a + x, l + (c * x + w - 1) \div w, n + 1)
      BY <1>3, <2>2, <2>6, ShareMore
    <3>4. sum[k + 1] = a + x /\ Len(put[k + 1]) = l + (c * x + w - 1) \div w
          /\ ServersOf(up, k + 1) = n + 1
      BY <2>1, <2>3, <2>4, <2>5, <2>6, <2>8, <3>1, <3>2 DEF WeightIn, NodesIn
    <3> QED BY <3>3, <3>4
  <2> QED BY <2>7, <2>8
<1>10. Q(nelts)
  <2> HIDE DEF Q
  <2>1. nelts \in S
    <3> HIDE DEF S
    <3> QED BY <1>1, <1>8, <1>9, Induction
  <2> QED BY <1>1, <2>1
<1>11. PICK L \in Nat : L = Len(Sorted(up)) /\ L = Len(put[nelts])
  BY <1>1, <1>6, <1>7 DEF IsFilling
<1>12. sum[nelts] = w /\ ServersOf(up, nelts) = K
  <2>1. \A s \in up : s < nelts
    BY <1>1 DEF Servers
  <2>2. Below(up, nelts) = up
    BY <2>1 DEF Below
  <2> QED BY <1>2, <1>3, <1>5, <2>2 DEF IsAdding, ServersOf
<1>13. c * w <= w * L /\ w * L <= c * w + K * (w - 1)
  BY <1>10, <1>11, <1>12 DEF InShare
<1>14. c <= L
  <2> SUFFICES ASSUME L + 1 <= c PROVE FALSE
    OBVIOUS
  <2>1. w * (L + 1) <= w * c
    BY Monotone
  <2>2. w * (L + 1) = w * L + w /\ w * c = c * w /\ w * L \in Nat
    OBVIOUS
  <2> QED BY <1>3, <1>13, <2>1, <2>2
<1>15. L <= 9 * K - 1
  <2> SUFFICES ASSUME 9 * K <= L PROVE FALSE
    BY <1>2
  <2>1. w * (9 * K) <= w * L
    BY Monotone
  <2>2. w * (9 * K) = c * w + K * (w - 1) + K
    BY <1>4
  <2>3. w * L \in Nat /\ c * w \in Nat /\ K * (w - 1) \in Nat
    BY <1>3
  <2> QED BY <1>2, <1>13, <2>1, <2>2, <2>3
<1> QED BY <1>2, <1>4, <1>11, <1>14, <1>15

-----------------------------------------------------------------------------
(***************************************************************************)
(* The binary search.                                                      *)
(***************************************************************************)
(* The cells in use are a ring of some servers.                            *)
RingOk ==
  /\ cycle \in Seq(Cell) /\ vnodes \in Nat /\ vnodes <= Len(cycle)
  /\ \A i \in 1 .. vnodes : cycle[i].hashcode = Point[cycle[i].rnode]
  /\ \A i, j \in 1 .. vnodes : i <= j => cycle[i].hashcode <= cycle[j].hashcode

Intervals == (0 .. vnodes) \X (-1 .. vnodes)
Width(x) == x[2] - x[1]
LookTurn(code, look, x) == IF x[2] <= x[1] THEN x[1] ELSE look[Half(code, x[1], x[2])]

LEMMA CellsAre ==
  ASSUME RingOk
  PROVE  /\ Len(cycle) \in Nat
         /\ \A i \in 1 .. Len(cycle) : cycle[i].rnode \in Servers /\ cycle[i].hashcode \in Nat
<1>1. cycle \in Seq(Cell)
  BY DEF RingOk
<1>2. \A i \in 1 .. Len(cycle) : cycle[i] \in Cell
  BY <1>1
<1> QED BY <1>1, <1>2 DEF Cell

(* A turn makes the interval smaller.                                      *)
LEMMA HalfIs ==
  ASSUME RingOk, NEW code \in Nat, NEW x \in Intervals, x[1] < x[2]
  PROVE  \E mid \in 0 .. vnodes - 1 :
           /\ x[1] <= mid /\ mid < x[2] /\ cycle[mid + 1].hashcode \in Nat
           /\ \/ cycle[mid + 1].hashcode < code /\ Half(code, x[1], x[2]) = <<mid + 1, x[2]>>
              \/ cycle[mid + 1].hashcode > code /\ Half(code, x[1], x[2]) = <<x[1], mid>>
              \/ cycle[mid + 1].hashcode = code /\ Half(code, x[1], x[2]) = <<mid, mid>>
<1> DEFINE mid == (x[1] + x[2]) \div 2
<1>1. vnodes \in Nat /\ vnodes <= Len(cycle)
  BY DEF RingOk
<1>2. PICK l \in Nat, r \in Nat : l = x[1] /\ r = x[2] /\ l < r /\ r <= vnodes
  BY <1>1 DEF Intervals
<1>3. mid = (l + r) \div 2
  BY <1>2
<1>4. mid \in Nat /\ l <= mid /\ mid < r
  BY <1>2, <1>3
<1> HIDE DEF mid
<1>5. mid \in 0 .. vnodes - 1 /\ mid + 1 \in 1 .. Len(cycle)
  BY <1>1, <1>2, <1>4, CellsAre
<1>6. cycle[mid + 1].hashcode \in Nat
  BY <1>5, CellsAre
<1>7. Half(code, l, r) = IF cycle[mid + 1].hashcode < code THEN <<mid + 1, r>>
                         ELSE IF cycle[mid + 1].hashcode > code THEN <<l, mid>>
                         ELSE <<mid, mid>>
  BY <1>3 DEF Half
<1>8. \/ cycle[mid + 1].hashcode < code /\ Half(code, l, r) = <<mid + 1, r>>
      \/ cycle[mid + 1].hashcode > code /\ Half(code, l, r) = <<l, mid>>
      \/ cycle[mid + 1].hashcode = code /\ Half(code, l, r) = <<mid, mid>>
  BY <1>6, <1>7
<1> QED BY <1>2, <1>4, <1>5, <1>6, <1>8

LEMMA HalfShrinks ==
  ASSUME RingOk, NEW code \in Nat, NEW x \in Intervals, x[1] < x[2]
  PROVE  Half(code, x[1], x[2]) \in Intervals /\ Width(Half(code, x[1], x[2])) < Width(x)
<1>1. vnodes \in Nat /\ x[1] \in 0 .. vnodes /\ x[2] \in -1 .. vnodes
  BY DEF RingOk, Intervals
<1>2. PICK mid \in 0 .. vnodes - 1 :
           /\ x[1] <= mid /\ mid < x[2]
           /\ \/ Half(code, x[1], x[2]) = <<mid + 1, x[2]>>
              \/ Half(code, x[1], x[2]) = <<x[1], mid>>
              \/ Half(code, x[1], x[2]) = <<mid, mid>>
  BY HalfIs
<1> QED BY <1>1, <1>2 DEF Intervals, Width

(* So the recursion is well-defined.                                       *)
LEMMA LookExists ==
  ASSUME RingOk, NEW code \in Nat
  PROVE  \E f \in [Intervals -> 0 .. vnodes] :
           f = [x \in Intervals |-> LookTurn(code, f, x)]
<1> DEFINE Sat(f, m) == \A x \in Intervals : Width(x) <= m => f[x] = LookTurn(code, f, x)
           S == {m \in Nat : \E f \in [Intervals -> 0 .. vnodes] : Sat(f, m)}
<1>1. vnodes \in Nat
  BY DEF RingOk
<1>2. \A x \in Intervals : x[1] \in 0 .. vnodes /\ x[2] \in Int /\ x[2] <= vnodes /\ Width(x) \in Int
  BY <1>1 DEF Intervals, Width
<1>3. 0 \in S
  <2> DEFINE f == [x \in Intervals |-> x[1]]
  <2>1. f \in [Intervals -> 0 .. vnodes]
    BY <1>2
  <2>2. Sat(f, 0)
    BY <1>2 DEF LookTurn, Width
  <2> HIDE DEF f
  <2>3. \E g \in [Intervals -> 0 .. vnodes] : Sat(g, 0)
    BY <2>1, <2>2
  <2> QED BY <2>3
<1>4. ASSUME NEW m \in Nat, m \in S PROVE m + 1 \in S
  <2>1. PICK f \in [Intervals -> 0 .. vnodes] : Sat(f, m)
    BY <1>4
  <2> DEFINE H(x) == Half(code, x[1], x[2])
             g == [x \in Intervals |-> IF Width(x) <= m THEN f[x] ELSE
                     IF x[1] < x[2] /\ H(x) \in Intervals THEN f[H(x)] ELSE 0]
  <2>2. g \in [Intervals -> 0 .. vnodes]
    BY <1>1
  <2>3. ASSUME NEW x \in Intervals, Width(x) <= m + 1
        PROVE  g[x] = LookTurn(code, g, x)
    <3>1. CASE x[1] < x[2]
      <4>1. H(x) \in Intervals /\ Width(H(x)) < Width(x)
        BY <3>1, HalfShrinks
      <4>2. Width(H(x)) <= m
        BY <1>2, <2>3, <4>1
      <4> HIDE DEF H
      <4>3. g[H(x)] = f[H(x)]
        BY <4>1, <4>2
      <4>4. g[x] = f[H(x)]
        <5>1. CASE Width(x) <= m
          <6>1. f[x] = LookTurn(code, f, x)
            BY <2>1, <5>1
          <6>2. ~(x[2] <= x[1])
            BY <1>2, <3>1
          <6> QED BY <5>1, <6>1, <6>2 DEF LookTurn, H
        <5>2. CASE ~(Width(x) <= m)
          BY <3>1, <4>1, <5>2
        <5> QED BY <5>1, <5>2
      <4>5. LookTurn(code, g, x) = g[H(x)]
        BY <1>2, <3>1 DEF LookTurn, H
      <4> QED BY <4>3, <4>4, <4>5
    <3>2. CASE ~(x[1] < x[2])
      <4>1. Width(x) <= m /\ x[2] <= x[1]
        BY <1>2, <3>2 DEF Width
      <4>2. f[x] = x[1]
        BY <2>1, <4>1 DEF LookTurn
      <4> QED BY <4>1, <4>2 DEF LookTurn
    <3> QED BY <3>1, <3>2
  <2> HIDE DEF g
  <2>4. Sat(g, m + 1)
    BY <2>3
  <2> QED BY <2>2, <2>4
<1>5. vnodes \in S
  <2> HIDE DEF S
  <2> QED BY <1>1, <1>3, <1>4, Induction
<1>6. PICK f \in [Intervals -> 0 .. vnodes] : Sat(f, vnodes)
  BY <1>5
<1>7. \A x \in Intervals : f[x] = LookTurn(code, f, x)
  <2> TAKE x \in Intervals
  <2>1. Width(x) <= vnodes
    BY <1>1, <1>2 DEF Width
  <2> QED BY <1>6, <2>1
<1>8. f = [x \in Intervals |-> f[x]]
  OBVIOUS
<1>9. f = [x \in Intervals |-> LookTurn(code, f, x)]
  BY <1>7, <1>8
<1> QED BY <1>9

(* r is the number of cells before the first one at or behind the code, or *)
(* before another one with the same hashcode.                              *)
Good(code, r) ==
  /\ r \in 0 .. vnodes
  /\ r < vnodes =>
       /\ cycle[r + 1].hashcode >= code
       /\ \A j \in 1 .. vnodes : cycle[j].hashcode >= code =>
                                   cycle[r + 1].hashcode <= cycle[j].hashcode
  /\ r = vnodes => \A j \in 1 .. vnodes : cycle[j].hashcode < code

(* What the search knows of the interval it goes on with.                  *)
Between(code, x) ==
  \/ /\ x[1] <= x[2]
     /\ \A j \in 1 .. x[1] : cycle[j].hashcode < code
     /\ \A j \in x[2] + 1 .. vnodes : cycle[j].hashcode >= code
  \/ x[1] = x[2] /\ Good(code, x[1])

LEMMA BetweenStays ==
  ASSUME RingOk, NEW code \in Nat, NEW x \in Intervals, x[1] < x[2], Between(code, x)
  PROVE  Between(code, Half(code, x[1], x[2]))
<1> DEFINE y == Half(code, x[1], x[2])
<1>1. /\ vnodes \in Nat /\ \A j \in 1 .. vnodes : cycle[j].hashcode \in Nat
      /\ \A i, j \in 1 .. vnodes : i <= j => cycle[i].hashcode <= cycle[j].hashcode
  BY CellsAre DEF RingOk
<1>2. PICK l \in Nat, r \in Nat : l = x[1] /\ r = x[2] /\ l < r /\ r <= vnodes
  BY <1>1 DEF Intervals
<1>3. PICK mid \in 0 .. vnodes - 1 :
           /\ l <= mid /\ mid < r /\ cycle[mid + 1].hashcode \in Nat
           /\ \/ cycle[mid + 1].hashcode < code /\ y = <<mid + 1, r>>
              \/ cycle[mid + 1].hashcode > code /\ y = <<l, mid>>
              \/ cycle[mid + 1].hashcode = code /\ y = <<mid, mid>>
  BY <1>2, HalfIs
<1>4. /\ \A j \in 1 .. l : cycle[j].hashcode < code
      /\ \A j \in r + 1 .. vnodes : cycle[j].hashcode >= code
  BY <1>2 DEF Between
<1> SUFFICES Between(code, y)
  OBVIOUS
<1> HIDE DEF y
<1>5. mid \in Nat /\ mid + 1 \in 1 .. vnodes
  BY <1>1, <1>3
<1>6. CASE cycle[mid + 1].hashcode < code /\ y = <<mid + 1, r>>
  <2>1. ASSUME NEW j \in 1 .. mid + 1 PROVE cycle[j].hashcode < code
    <3>1. j \in 1 .. vnodes /\ j <= mid + 1
      BY <1>1, <1>5
    <3>2. cycle[j].hashcode <= cycle[mid + 1].hashcode /\ cycle[j].hashcode \in Nat
      BY <1>1, <1>5, <3>1
    <3> QED BY <1>3, <1>6, <3>2
  <2>2. y[1] = mid + 1 /\ y[2] = r /\ mid + 1 <= r
    BY <1>2, <1>3, <1>5, <1>6
  <2> QED BY <1>4, <2>1, <2>2 DEF Between
<1>7. CASE cycle[mid + 1].hashcode > code /\ y = <<l, mid>>
  <2>1. ASSUME NEW j \in mid + 1 .. vnodes PROVE cycle[j].hashcode >= code
    <3>1. j \in 1 .. vnodes /\ mid + 1 <= j
      BY <1>5
    <3>2. cycle[mid + 1].hashcode <= cycle[j].hashcode /\ cycle[j].hashcode \in Nat
      BY <1>1, <1>5, <3>1
    <3> QED BY <1>3, <1>7, <3>2
  <2>2. y[1] = l /\ y[2] = mid /\ l <= mid
    BY <1>3, <1>7
  <2> QED BY <1>4, <2>1, <2>2 DEF Between
<1>8. CASE cycle[mid + 1].hashcode = code /\ y = <<mid, mid>>
  <2>1. Good(code, mid)
    BY <1>1, <1>3, <1>5, <1>8 DEF Good
  <2>2. y[1] = mid /\ y[2] = mid
    BY <1>8
  <2> QED BY <2>1, <2>2 DEF Between
<1> QED BY <1>3, <1>6, <1>7, <1>8

(* The search finds the first virtual node at or behind the code, or the   *)
(* first cell of all.                                                      *)
LEMMA SearchIs ==
  ASSUME RingOk, NEW code \in Nat
  PROVE  \E r : Good(code, r) /\ Search(code) = cycle[IF r = vnodes THEN 1 ELSE r + 1].rnode
<1> DEFINE look == CHOOSE f : f = [x \in Intervals |-> LookTurn(code, f, x)]
           S == {m \in Nat : \A x \in Intervals :
                   Width(x) <= m /\ Between(code, x) => Good(code, look[x])}
<1>1. vnodes \in Nat /\ \A x \in Intervals :
        x[1] \in 0 .. vnodes /\ x[2] \in Int /\ x[2] <= vnodes /\ Width(x) = x[2] - x[1]
  BY DEF RingOk, Intervals, Width
<1>2. look = [x \in Intervals |-> LookTurn(code, look, x)]
  BY LookExists
<1>3. Search(code) = cycle[IF look[<<0, vnodes>>] = vnodes THEN 1
                           ELSE look[<<0, vnodes>>] + 1].rnode
  BY DEF Search, LookTurn, Intervals
<1> HIDE DEF look
<1>4. \A x \in Intervals : look[x] = LookTurn(code, look, x)
  BY <1>2
<1>5. ASSUME NEW x \in Intervals, ~(x[1] < x[2]), Between(code, x)
      PROVE  Good(code, look[x])
  <2>1. look[x] = x[1] /\ x[1] = x[2]
    BY <1>1, <1>4, <1>5 DEF LookTurn, Between
  <2>2. CASE Good(code, x[1])
    BY <2>1, <2>2
  <2>3. CASE /\ \A j \in 1 .. x[1] : cycle[j].hashcode < code
             /\ \A j \in x[2] + 1 .. vnodes : cycle[j].hashcode >= code
    <3>1. PICK r \in 0 .. vnodes : r = x[1] /\ r = x[2]
      BY <1>1, <2>1
    <3>2. ASSUME r < vnodes, NEW j \in 1 .. vnodes, cycle[j].hashcode >= code
          PROVE  cycle[r + 1].hashcode <= cycle[j].hashcode
      <4>1. cycle[j].hashcode \in Nat
        BY CellsAre, <1>1 DEF RingOk
      <4>2. ~(j <= r)
        BY <2>3, <3>1, <3>2, <4>1
      <4>3. r + 1 \in 1 .. vnodes /\ r + 1 <= j
        BY <1>1, <3>2, <4>2
      <4> QED BY <4>3 DEF RingOk
    <3>3. r < vnodes => cycle[r + 1].hashcode >= code
      BY <1>1, <2>3, <3>1
    <3>4. r = vnodes => \A j \in 1 .. vnodes : cycle[j].hashcode < code
      BY <2>3, <3>1
    <3> QED BY <2>1, <3>1, <3>2, <3>3, <3>4 DEF Good
  <2> QED BY <1>5, <2>2, <2>3 DEF Between
<1>6. 0 \in S
  BY <1>1, <1>5
<1>7. ASSUME NEW m \in Nat, m \in S PROVE m + 1 \in S
  <2> SUFFICES ASSUME NEW x \in Intervals, Width(x) <= m + 1, Between(code, x)
               PROVE  Good(code, look[x])
    OBVIOUS
  <2>1. CASE x[1] < x[2]
    <3> DEFINE y == Half(code, x[1], x[2])
    <3>1. y \in Intervals /\ Width(y) < Width(x)
      BY <2>1, HalfShrinks
    <3>2. Between(code, y)
      BY <2>1, BetweenStays
    <3>3. look[x] = look[y]
      BY <1>1, <1>4, <2>1 DEF LookTurn
    <3> HIDE DEF y
    <3>4. Width(y) <= m
      <4>1. Width(x) \in Int /\ Width(y) \in Int
        BY <1>1, <3>1
      <4> QED BY <3>1, <4>1
    <3> QED BY <1>7, <3>1, <3>2, <3>3, <3>4
  <2> QED BY <1>5, <2>1
<1>8. vnodes \in S
  <2> HIDE DEF S
  <2> QED BY <1>1, <1>6, <1>7, Induction
<1>9. Good(code, look[<<0, vnodes>>])
  <2> DEFINE x == <<0, vnodes>>
  <2>1. x \in Intervals /\ x[1] = 0 /\ x[2] = vnodes
    BY <1>1 DEF Intervals
  <2> HIDE DEF x
  <2>2. Width(x) <= vnodes
    BY <1>1, <2>1
  <2>3. Between(code, x)
    BY <1>1, <2>1 DEF Between
  <2>4. Good(code, look[x])
    BY <1>8, <2>1, <2>2, <2>3
  <2> QED BY <2>4 DEF x
<1> QED BY <1>3, <1>9

-----------------------------------------------------------------------------
(***************************************************************************)
(* The inductive invariant.                                                *)
(***************************************************************************)
Phases == {"new", "asking", "connecting", "connected", "502"}
RequestType == [tries : 0 .. nelts, cur : Servers \cup {None}, phase : Phases]

Typed ==
  /\ fails \in [Servers -> Nat] /\ recent \subseteq Servers /\ failed \subseteq Servers
  /\ req \in [Requests -> RequestType]
  /\ chooser \in Requests \cup {None}
  /\ armed \subseteq Requests /\ busy \subseteq Requests
  /\ init_state \in {"IDLE", "MODIFIED", "INIT_DONE"}
  /\ owner \in Requests \cup {None, "freed"}

(* Where a request may be: only the chooser asks the ring or is on its way *)
(* through the loop; any other is new and has left nothing behind, or has  *)
(* a server, or was answered.                                              *)
PlaceOf(r) ==
  /\ req[r].phase = "asking" => chooser = r /\ r \notin armed /\ r \notin retried
  /\ req[r].phase = "new" /\ chooser # r =>
       req[r] = NewRequest /\ r \notin armed /\ r \notin retried /\ r \notin busy
  /\ chooser = r => /\ req[r].phase \in {"new", "asking"}
                    /\ r \in armed => r \notin retried
  /\ req[r].phase \in {"connecting", "connected"} => req[r].cur \in Servers

Places == \A r \in Requests : PlaceOf(r)

(* Before the first request nothing has happened, and after it there is a  *)
(* ring with a cell at least.                                              *)
Fresh ==
  /\ init_state = "IDLE" => /\ \A s \in Servers : fails[s] = 0
                            /\ chooser = None /\ \A r \in Requests : req[r] = NewRequest
  /\ init_state # "IDLE" => Len(cycle) >= 1

IInv == Typed /\ Places /\ Fresh /\ RingOk /\ RingMissing /\ LeftArmed

-----------------------------------------------------------------------------
(***************************************************************************)
(* The parts of the steps.                                                 *)
(***************************************************************************)
(* The search gives a server, even in a ring that is empty now.            *)
LEMMA SearchServer ==
  ASSUME RingOk, Len(cycle) >= 1, NEW code \in Codes
  PROVE  Search(code) \in Servers
<1>1. code \in Nat
  BY CodesAssumption
<1>2. PICK r : Good(code, r) /\ Search(code) = cycle[IF r = vnodes THEN 1 ELSE r + 1].rnode
  BY <1>1, SearchIs
<1>3. r \in 0 .. vnodes /\ vnodes \in Nat /\ vnodes <= Len(cycle) /\ Len(cycle) \in Nat
  BY <1>2, CellsAre DEF Good, RingOk
<1>4. (IF r = vnodes THEN 1 ELSE r + 1) \in 1 .. Len(cycle)
  BY <1>3
<1> QED BY <1>2, <1>4, CellsAre

(* The new cells are in front, and none of the old ones is lost.           *)
IsRefill(z, p, q, A) ==
  /\ z \in Seq(A) /\ Len(p) <= Len(z) /\ Len(q) <= Len(z)
  /\ \A i \in 1 .. Len(p) : z[i] = p[i]

LEMMA RefillIs ==
  ASSUME NEW A, NEW p \in Seq(A), NEW q \in Seq(A)
  PROVE  IsRefill(p \o SubSeq(q, Len(p) + 1, Len(q)), p, q, A)
<1>1. PICK l \in Nat, m \in Nat : l = Len(p) /\ m = Len(q)
  OBVIOUS
<1> DEFINE d == SubSeq(q, l + 1, m)
<1>2. d \in Seq(A) /\ Len(d) = IF l < m THEN m - l ELSE 0
  <2>1. CASE l < m
    BY <1>1, <2>1
  <2>2. CASE ~(l < m)
    <3>1. d = <<>>
      BY <1>1, <2>2
    <3> QED BY <2>2, <3>1
  <2> QED BY <2>1, <2>2
<1> HIDE DEF d
<1>3. /\ p \o d \in Seq(A) /\ Len(p \o d) = l + Len(d)
      /\ \A i \in 1 .. l : (p \o d)[i] = p[i]
  BY <1>1, <1>2
<1>4. IsRefill(p \o d, p, q, A)
  BY <1>1, <1>2, <1>3 DEF IsRefill
<1> QED BY <1>1, <1>4 DEF d

(* The fields of a request that changes.                                   *)
IsReq(z, q, r, t, c, p) ==
  /\ z \in [Requests -> RequestType]
  /\ \A x \in Requests : x # r => z[x] = q[x]
  /\ z[r].tries = t /\ z[r].cur = c /\ z[r].phase = p

LEMMA ReqSet ==
  ASSUME NEW q \in [Requests -> RequestType], NEW r \in Requests,
         NEW t \in 0 .. nelts, NEW c \in Servers \cup {None}, NEW p \in Phases
  PROVE  IsReq([q EXCEPT ![r] = [tries |-> t, cur |-> c, phase |-> p]], q, r, t, c, p)
BY DEF IsReq, RequestType

FieldsSet(q, r, v, w) ==
  LET At(t, c, p) == [q EXCEPT ![r] = [tries |-> t, cur |-> c, phase |-> p]]
  IN  /\ [q EXCEPT ![r].tries = v, ![r].phase = w] = At(v, q[r].cur, w)
      /\ [q EXCEPT ![r].phase = v, ![r].cur = w] = At(q[r].tries, w, v)
      /\ [q EXCEPT ![r].cur = v, ![r].phase = w] = At(q[r].tries, v, w)
      /\ [q EXCEPT ![r].phase = v] = At(q[r].tries, q[r].cur, v)
      /\ [q EXCEPT ![r].tries = v] = At(v, q[r].cur, q[r].phase)

LEMMA ReqFields ==
  ASSUME NEW q \in [Requests -> RequestType], NEW r \in Requests, NEW v, NEW w
  PROVE  FieldsSet(q, r, v, w)
<1> DEFINE a == [q EXCEPT ![r].tries = v]
           b == [q EXCEPT ![r].phase = v]
           c == [q EXCEPT ![r].cur = v]
<1>1. PICK e \in RequestType : q[r] = e
  OBVIOUS
<1>2. e = [tries |-> e.tries, cur |-> e.cur, phase |-> e.phase]
  BY DEF RequestType
<1>3. /\ [e EXCEPT !.tries = v] = [tries |-> v, cur |-> e.cur, phase |-> e.phase]
      /\ [e EXCEPT !.phase = v] = [tries |-> e.tries, cur |-> e.cur, phase |-> v]
      /\ [e EXCEPT !.cur = v] = [tries |-> e.tries, cur |-> v, phase |-> e.phase]
  BY <1>2
<1>4. /\ a = [q EXCEPT ![r] = [e EXCEPT !.tries = v]]
      /\ b = [q EXCEPT ![r] = [e EXCEPT !.phase = v]]
      /\ c = [q EXCEPT ![r] = [e EXCEPT !.cur = v]]
  BY <1>1
<1>5. /\ a = [q EXCEPT ![r] = [tries |-> v, cur |-> e.cur, phase |-> e.phase]]
      /\ b = [q EXCEPT ![r] = [tries |-> e.tries, cur |-> e.cur, phase |-> v]]
      /\ c = [q EXCEPT ![r] = [tries |-> e.tries, cur |-> v, phase |-> e.phase]]
  <2> HIDE DEF a, b, c
  <2> QED BY <1>3, <1>4
<1>6. /\ [q EXCEPT ![r].tries = v, ![r].phase = w] = [a EXCEPT ![r].phase = w]
      /\ [q EXCEPT ![r].phase = v, ![r].cur = w] = [b EXCEPT ![r].cur = w]
      /\ [q EXCEPT ![r].cur = v, ![r].phase = w] = [c EXCEPT ![r].phase = w]
  OBVIOUS
<1> HIDE DEF a, b, c
<1>7. ASSUME NEW d
      PROVE  LET z == [q EXCEPT ![r] = d]
             IN  /\ [z EXCEPT ![r].phase = w] = [q EXCEPT ![r] = [d EXCEPT !.phase = w]]
                 /\ [z EXCEPT ![r].cur = w] = [q EXCEPT ![r] = [d EXCEPT !.cur = w]]
  OBVIOUS
<1>8. ASSUME NEW x, NEW y, NEW z
      PROVE  /\ [[tries |-> x, cur |-> y, phase |-> z] EXCEPT !.phase = w] =
                   [tries |-> x, cur |-> y, phase |-> w]
             /\ [[tries |-> x, cur |-> y, phase |-> z] EXCEPT !.cur = w] =
                   [tries |-> x, cur |-> w, phase |-> z]
  OBVIOUS
<1> DEFINE A == [tries |-> v, cur |-> e.cur, phase |-> e.phase]
           B == [tries |-> e.tries, cur |-> e.cur, phase |-> v]
           C == [tries |-> e.tries, cur |-> v, phase |-> e.phase]
<1>9. /\ [A EXCEPT !.phase = w] = [tries |-> v, cur |-> e.cur, phase |-> w]
      /\ [B EXCEPT !.cur = w] = [tries |-> e.tries, cur |-> w, phase |-> v]
      /\ [C EXCEPT !.phase = w] = [tries |-> e.tries, cur |-> v, phase |-> w]
  BY <1>8
<1>10. a = [q EXCEPT ![r] = A] /\ b = [q EXCEPT ![r] = B] /\ c = [q EXCEPT ![r] = C]
  BY <1>5
<1> HIDE DEF A, B, C
<1>11. /\ [a EXCEPT ![r].phase = w] = [q EXCEPT ![r] = [A EXCEPT !.phase = w]]
       /\ [b EXCEPT ![r].cur = w] = [q EXCEPT ![r] = [B EXCEPT !.cur = w]]
       /\ [c EXCEPT ![r].phase = w] = [q EXCEPT ![r] = [C EXCEPT !.phase = w]]
  BY <1>7, <1>10
<1> QED BY <1>1, <1>5, <1>6, <1>9, <1>11 DEF a, b, FieldsSet

LEMMA ReqIs ==
  ASSUME Typed, NEW r \in Requests
  PROVE  req[r].tries \in 0 .. nelts /\ req[r].cur \in Servers \cup {None} /\ req[r].phase \in Phases
BY DEF Typed, RequestType

(* init_before_round leaves numbers; when it has nothing to mark, it       *)
(* changes none.                                                           *)
LEMMA RoundIs ==
  ASSUME NEW f \in [Servers -> Nat], NEW rec, NEW st, InitBeforeRound(f, rec)
  PROVE  /\ fails' \in [Servers -> Nat] /\ failed' = {}
         /\ Marked(f, rec, st) \in {st, "MODIFIED"}
         /\ Marked(f, rec, st) = "INIT_DONE" => fails' = f
BY DEF InitBeforeRound, Marked

(* A step of one request, the chooser before or after it if there is one,  *)
(* is nothing to the others.                                               *)
Alone(r) ==
  /\ chooser \in {r, None} /\ chooser' \in {r, None}
  /\ \A x \in Requests : x # r =>
       /\ req'[x] = req[x]
       /\ x \in armed' <=> x \in armed
       /\ x \in busy' <=> x \in busy
       /\ x \in retried' <=> x \in retried

LeftOf(r) ==
  r \in armed /\ req[r].cur = None /\ chooser # r => req[r].phase = "502" /\ r \notin retried

LEMMA OthersKept ==
  ASSUME Places, LeftArmed, NEW r \in Requests, Alone(r), PlaceOf(r)', LeftOf(r)',
         armed' \subseteq Requests
  PROVE  Places' /\ LeftArmed'
<1>1. ASSUME NEW x \in Requests, x # r PROVE PlaceOf(x)' /\ LeftOf(x)'
  <2>1. PlaceOf(x) /\ LeftOf(x)
    BY DEF Places, LeftArmed, LeftOf
  <2>2. chooser # x /\ chooser' # x
    BY <1>1, NoneAssumption DEF Alone
  <2> QED BY <1>1, <2>1, <2>2 DEF Alone, PlaceOf, LeftOf
<1> QED BY <1>1 DEF Places, LeftArmed, LeftOf

LEMMA RingKept ==
  ASSUME RingOk, cycle' = cycle, vnodes' = vnodes
  PROVE  RingOk'
BY DEF RingOk

(* While the ring is left alone, a server out of it has its failures       *)
(* still, or the ring has to be rebuilt.                                   *)
LEMMA MissingKept ==
  ASSUME Typed, RingMissing, cycle' = cycle, vnodes' = vnodes, cleared \subseteq cleared',
         init_state' = "INIT_DONE" =>
           /\ init_state = "INIT_DONE" /\ fails' \in [Servers -> Nat]
           /\ \A s \in Servers : fails[s] <= fails'[s] \/ s \in cleared'
                                 \/ fails[s] < max_fails \/ s \in Members
  PROVE  RingMissing'
BY MaxFailsAssumption DEF Typed, RingMissing, Members

(* A step that leaves init_state and the ring alone leaves Fresh alone,    *)
(* once it was asked.                                                      *)
LEMMA FreshKept ==
  ASSUME Fresh, init_state # "IDLE", init_state' # "IDLE", cycle' = cycle
  PROVE  Fresh'
BY DEF Fresh

LEMMA AskedBefore ==
  ASSUME Fresh, chooser # None \/ \E r \in Requests : req[r].phase # "new"
  PROVE  init_state # "IDLE" /\ Len(cycle) >= 1
BY DEF Fresh, NewRequest

-----------------------------------------------------------------------------
(***************************************************************************)
(* The steps.                                                              *)
(***************************************************************************)
LEMMA InitStep == Init => IInv
<1> SUFFICES ASSUME Init PROVE IInv
  OBVIOUS
<1> USE DEF Init
<1>1. Typed
  BY NeltsAssumption DEF Typed, RequestType, Phases, NewRequest
<1>2. Places
  BY NoneAssumption DEF Places, PlaceOf, NewRequest
<1>3. Fresh /\ RingMissing /\ LeftArmed
  BY DEF Fresh, RingMissing, LeftArmed
<1>4. RingOk
  BY DEF RingOk
<1> QED BY <1>1, <1>2, <1>3, <1>4 DEF IInv

(* The ring is asked: it is rebuilt over the servers that are up, unless   *)
(* init_state says that nothing has changed.                               *)
LEMMA AskStep ==
  ASSUME IInv, NEW r \in Requests, Ask(r)
  PROVE  IInv'
<1> DEFINE st == Marked(fails, recent, init_state)
           up == {s \in Servers : fails'[s] < max_fails \/ s \notin recent}
           nodes == Sorted(up)
<1>0. Typed /\ Places /\ Fresh /\ RingOk /\ RingMissing /\ LeftArmed
  BY DEF IInv
<1>1. /\ chooser = None /\ req[r].phase = "new" /\ req[r].tries = 0
      /\ InitBeforeRound(fails, recent) /\ chooser' = r
      /\ req' = [req EXCEPT ![r].tries = 1, ![r].phase = "asking"]
      /\ IF st = "INIT_DONE" THEN UNCHANGED <<cycle, vnodes, cleared>>
         ELSE /\ cycle' = nodes \o SubSeq(cycle, Len(nodes) + 1, Len(cycle))
              /\ vnodes' = Len(nodes)
      /\ IF st = "IDLE" THEN owner' = r ELSE UNCHANGED owner
      /\ init_state' = "INIT_DONE" /\ recent' = recent /\ armed' = armed /\ busy' = busy
      /\ retried' = retried
  BY DEF Ask, New, sockets
<1>2. /\ fails' \in [Servers -> Nat] /\ failed' = {} /\ st \in {init_state, "MODIFIED"}
      /\ st = "INIT_DONE" => fails' = fails
  <2>1. fails \in [Servers -> Nat]
    BY <1>0 DEF Typed
  <2> QED BY <1>1, <2>1, RoundIs
<1>3. PICK c \in Servers \cup {None} : IsReq(req', req, r, 1, c, "asking")
  <2>1. req' = [req EXCEPT ![r] = [tries |-> 1, cur |-> req[r].cur, phase |-> "asking"]]
    <3>1. req \in [Requests -> RequestType]
      BY <1>0 DEF Typed
    <3>2. FieldsSet(req, r, 1, "asking")
      BY <3>1, ReqFields
    <3> QED BY <1>1, <3>2, Zenon DEF FieldsSet
  <2>2. 1 \in 0 .. nelts /\ "asking" \in Phases
    BY NeltsAssumption DEF Phases
  <2>3. req \in [Requests -> RequestType] /\ req[r].cur \in Servers \cup {None}
    BY <1>0, ReqIs DEF Typed
  <2> QED BY <2>1, <2>2, <2>3, ReqSet, Zenon
<1>4. Typed'
  BY <1>0, <1>1, <1>2, <1>3 DEF Typed, IsReq
<1>5. Places' /\ LeftArmed'
  <2>1. r # None /\ PlaceOf(r)
    BY <1>0, NoneAssumption DEF Places
  <2>2. r \notin armed /\ r \notin retried
    BY <1>1, <2>1 DEF PlaceOf
  <2>3. Alone(r)
    BY <1>1, <1>3 DEF Alone, IsReq
  <2>4. PlaceOf(r)' /\ LeftOf(r)'
    BY <1>1, <1>3, <2>2 DEF PlaceOf, LeftOf, IsReq
  <2>5. armed' \subseteq Requests
    BY <1>4 DEF Typed
  <2> QED BY <1>0, <2>3, <2>4, <2>5, OthersKept
<1>6. CASE st = "INIT_DONE"
  <2>1. cycle' = cycle /\ vnodes' = vnodes /\ cleared' = cleared /\ fails' = fails
        /\ init_state = "INIT_DONE"
    BY <1>1, <1>2, <1>6
  <2>2. RingOk' /\ Fresh'
    BY <1>0, <1>1, <2>1, RingKept, FreshKept
  <2>3. RingMissing'
    BY <1>0, <2>1 DEF RingMissing, Members
  <2> QED BY <1>4, <1>5, <2>2, <2>3 DEF IInv
<1>7. CASE st # "INIT_DONE"
  <2>1. up \in SUBSET Servers
    OBVIOUS
  <2>2. IsRing(nodes, up)
    BY <2>1, SortedIs
  <2>3. nodes \in Seq(Cell) /\ cycle \in Seq(Cell)
    BY <1>0, <2>2 DEF IsRing, RingOk
  <2> DEFINE z == nodes \o SubSeq(cycle, Len(nodes) + 1, Len(cycle))
  <2>4. cycle' = z /\ vnodes' = Len(nodes)
    BY <1>1, <1>7
  <2>5. IsRefill(z, nodes, cycle, Cell)
    BY <2>3, RefillIs
  <2>6. \A s \in Servers : s \in up <=> (fails'[s] < max_fails \/ s \notin recent)
    OBVIOUS
  <2> HIDE DEF z, nodes, up
  <2>7. PICK n \in Nat : n = Len(nodes)
    BY <2>3
  <2>8. RingOk'
    BY <2>2, <2>4, <2>5, <2>7 DEF RingOk, IsRing, IsRefill
  <2>9. Members' = up
    BY <2>2, <2>4, <2>5, <2>7 DEF Members, IsRing, IsRefill
  <2>10. RingMissing'
    BY <1>1, <1>2, <2>6, <2>9, MaxFailsAssumption DEF RingMissing
  <2>11. Len(cycle') >= 1
    <3>1. Len(cycle) \in Nat /\ Len(cycle') \in Nat
      BY <1>0, <2>8 DEF RingOk
    <3>2. CASE init_state = "IDLE"
      <4>1. 0 \in Servers
        BY NeltsAssumption DEF Servers
      <4>2. fails'[0] = 0
        BY <1>0, <1>1, <3>2, <4>1 DEF Fresh, InitBeforeRound
      <4>3. 0 \in up
        BY <2>6, <4>1, <4>2, MaxFailsAssumption
      <4>4. PICK i \in 1 .. n : nodes[i].rnode = 0
        BY <2>2, <2>7, <4>3 DEF IsRing
      <4> QED BY <2>4, <2>5, <2>7, <3>1, <4>4 DEF IsRefill
    <3>3. CASE init_state # "IDLE"
      BY <1>0, <2>4, <2>5, <3>1, <3>3 DEF Fresh, IsRefill
    <3> QED BY <3>2, <3>3
  <2>12. Fresh'
    BY <1>1, <2>11 DEF Fresh
  <2> QED BY <1>4, <1>5, <2>8, <2>10, <2>12 DEF IInv
<1> QED BY <1>6, <1>7

(* What a step of a request r must see to, other than rebuilding the ring. *)
Kept(r) ==
  /\ Typed' /\ Alone(r) /\ PlaceOf(r)' /\ LeftOf(r)'
  /\ init_state # "IDLE" /\ init_state' # "IDLE"
  /\ cycle' = cycle /\ vnodes' = vnodes /\ cleared \subseteq cleared'
  /\ init_state' = "INIT_DONE" =>
       /\ init_state = "INIT_DONE"
       /\ \A s \in Servers : fails[s] <= fails'[s] \/ s \in cleared' \/ fails[s] < max_fails
                             \/ s \in Members

LEMMA KeptStep ==
  ASSUME IInv, NEW r \in Requests, Kept(r)
  PROVE  IInv'
<1>1. Typed /\ Places /\ Fresh /\ RingOk /\ RingMissing /\ LeftArmed
  BY DEF IInv
<1>2. armed' \subseteq Requests /\ fails' \in [Servers -> Nat] /\ Typed'
  BY DEF Kept, Typed
<1>3. Places' /\ LeftArmed'
  BY <1>1, <1>2, OthersKept DEF Kept
<1>4. RingOk'
  BY <1>1, RingKept DEF Kept
<1>5. Fresh'
  BY <1>1, FreshKept DEF Kept
<1>6. RingMissing'
  BY <1>1, <1>2, MissingKept DEF Kept
<1> QED BY <1>2, <1>3, <1>4, <1>5, <1>6 DEF IInv

LEMMA ReqPhase ==
  ASSUME Typed, NEW r \in Requests, NEW p \in Phases, req' = [req EXCEPT ![r].phase = p]
  PROVE  IsReq(req', req, r, req[r].tries, req[r].cur, p)
<1>1. req \in [Requests -> RequestType] /\ req[r].cur \in Servers \cup {None}
      /\ req[r].tries \in 0 .. nelts
  BY ReqIs DEF Typed
<1>2. FieldsSet(req, r, p, None)
  BY <1>1, ReqFields
<1>3. req' = [req EXCEPT ![r] = [tries |-> req[r].tries, cur |-> req[r].cur, phase |-> p]]
  BY <1>2, Zenon DEF FieldsSet
<1>4. PICK t \in 0 .. nelts, c \in Servers \cup {None} : t = req[r].tries /\ c = req[r].cur
  BY <1>1
<1>5. IsReq([req EXCEPT ![r] = [tries |-> t, cur |-> c, phase |-> p]], req, r, t, c, p)
  BY <1>1, ReqSet
<1> QED BY <1>3, <1>4, <1>5

LEMMA ReqTries ==
  ASSUME Typed, NEW r \in Requests, NEW t \in 0 .. nelts, req' = [req EXCEPT ![r].tries = t]
  PROVE  IsReq(req', req, r, t, req[r].cur, req[r].phase)
<1>1. req \in [Requests -> RequestType] /\ req[r].cur \in Servers \cup {None}
      /\ req[r].phase \in Phases
  BY ReqIs DEF Typed
<1>2. FieldsSet(req, r, t, None)
  BY <1>1, ReqFields
<1>3. req' = [req EXCEPT ![r] = [tries |-> t, cur |-> req[r].cur, phase |-> req[r].phase]]
  BY <1>2, Zenon DEF FieldsSet
<1>4. PICK p \in Phases, c \in Servers \cup {None} : p = req[r].phase /\ c = req[r].cur
  BY <1>1
<1>5. IsReq([req EXCEPT ![r] = [tries |-> t, cur |-> c, phase |-> p]], req, r, t, c, p)
  BY <1>1, ReqSet
<1> QED BY <1>3, <1>4, <1>5

LEMMA ReqCurPhase ==
  ASSUME Typed, NEW r \in Requests, NEW c \in Servers \cup {None}, NEW p \in Phases,
         \/ req' = [req EXCEPT ![r].phase = p, ![r].cur = c]
         \/ req' = [req EXCEPT ![r].cur = c, ![r].phase = p]
  PROVE  IsReq(req', req, r, req[r].tries, c, p)
<1>1. req \in [Requests -> RequestType] /\ req[r].tries \in 0 .. nelts
  BY ReqIs DEF Typed
<1>2. FieldsSet(req, r, p, c) /\ FieldsSet(req, r, c, p)
  BY <1>1, ReqFields
<1>3. req' = [req EXCEPT ![r] = [tries |-> req[r].tries, cur |-> c, phase |-> p]]
  BY <1>2, Zenon DEF FieldsSet
<1> QED BY <1>1, <1>3, ReqSet, Zenon

(* What is known where the chooser goes on.                                *)
IsChooser(r) ==
  /\ chooser = r /\ r # None /\ Typed /\ RingOk /\ PlaceOf(r)
  /\ init_state # "IDLE" /\ Len(cycle) >= 1 /\ req[r].phase \in {"new", "asking"}
  /\ Asking <=> req[r].phase = "asking"

LEMMA ChooserIs ==
  ASSUME IInv, chooser # None
  PROVE  \E r \in Requests : IsChooser(r)
<1>1. Typed /\ RingOk /\ Places /\ Fresh
  BY DEF IInv
<1>2. PICK r \in Requests : chooser = r /\ PlaceOf(r)
  BY <1>1 DEF Typed, Places
<1>3. init_state # "IDLE" /\ Len(cycle) >= 1
  BY <1>1, AskedBefore
<1> QED BY <1>1, <1>2, <1>3 DEF PlaceOf, Asking, IsChooser

LEMMA RingDownStep ==
  ASSUME IInv, RingDown
  PROVE  IInv'
<1> USE DEF servers, ring, sockets
<1>1. /\ chooser # None /\ chooser' = chooser /\ Asking
      /\ req' = [req EXCEPT ![chooser].phase = "new"]
      /\ UNCHANGED <<fails, recent, failed, ring, sockets>>
  BY DEF RingDown, Asking
<1>2. PICK r \in Requests : IsChooser(r)
  BY <1>1, ChooserIs
<1>3. Typed /\ chooser = r /\ PlaceOf(r) /\ init_state # "IDLE" /\ req[r].phase = "asking"
  BY <1>1, <1>2 DEF IsChooser
<1>4. PICK t, c : IsReq(req', req, r, t, c, "new")
  BY <1>1, <1>3, ReqPhase DEF Phases
<1>5. Typed'
  BY <1>1, <1>3, <1>4 DEF Typed, IsReq
<1>6. Alone(r)
  BY <1>1, <1>3, <1>4 DEF Alone, IsReq
<1>7. PlaceOf(r)' /\ LeftOf(r)'
  BY <1>1, <1>3, <1>4 DEF PlaceOf, LeftOf, IsReq
<1>8. Kept(r)
  BY <1>1, <1>3, <1>5, <1>6, <1>7 DEF Kept, Typed
<1> QED BY <1>8, KeptStep

LEMMA RingConnectsStep ==
  ASSUME IInv, RingConnects
  PROVE  IInv'
<1> USE DEF servers, ring, sockets
<1>1. PICK code \in Codes :
        req' = [req EXCEPT ![chooser].phase = "connected", ![chooser].cur = Search(code)]
  BY DEF RingConnects
<1>2. /\ chooser # None /\ chooser' = None /\ Asking
      /\ UNCHANGED <<fails, recent, failed, ring, sockets>>
  BY DEF RingConnects, Asking
<1>3. PICK r \in Requests : IsChooser(r)
  BY <1>2, ChooserIs
<1>4. /\ Typed /\ chooser = r /\ PlaceOf(r) /\ init_state # "IDLE" /\ req[r].phase = "asking"
      /\ r # None /\ RingOk /\ Len(cycle) >= 1
  BY <1>2, <1>3 DEF IsChooser
<1>5. PICK us \in Servers : us = Search(code)
  BY <1>4, SearchServer
<1>6. PICK t : IsReq(req', req, r, t, us, "connected")
  BY <1>1, <1>4, <1>5, ReqCurPhase DEF Phases
<1>7. Typed'
  BY <1>2, <1>4, <1>6 DEF Typed, IsReq
<1>8. Alone(r)
  BY <1>2, <1>4, <1>6 DEF Alone, IsReq
<1>9. PlaceOf(r)' /\ LeftOf(r)'
  BY <1>2, <1>4, <1>6, NoneAssumption DEF PlaceOf, LeftOf, IsReq
<1>10. Kept(r)
  BY <1>2, <1>4, <1>7, <1>8, <1>9 DEF Kept, Typed
<1> QED BY <1>10, KeptStep

(* The connect counts as a failure whether it refused or is in progress.   *)
LEMMA RingFailsStep ==
  ASSUME IInv, RingFails
  PROVE  IInv'
<1> USE DEF servers, ring, sockets
<1>1. chooser # None /\ Asking
  BY DEF RingFails, Asking
<1>2. PICK r \in Requests : IsChooser(r)
  BY <1>1, ChooserIs
<1>3. /\ Typed /\ chooser = r /\ PlaceOf(r) /\ init_state # "IDLE" /\ req[r].phase = "asking"
      /\ r # None /\ RingOk /\ Len(cycle) >= 1
  BY <1>1, <1>2 DEF IsChooser
<1>4. PICK code \in Codes :
        /\ recent' = recent \cup {Search(code)}
        /\ InitBeforeRound([fails EXCEPT ![Search(code)] = @ + 1], recent \cup {Search(code)})
        /\ \/ armed' = armed /\ busy' = busy
           \/ armed' = armed \cup {r} /\ busy' = busy \cup {r}
  BY <1>3 DEF RingFails
<1>5. /\ req' = [req EXCEPT ![r].phase = "new"] /\ init_state' = "MODIFIED"
      /\ UNCHANGED <<chooser, cycle, vnodes, owner, cleared, retried>>
  BY <1>3 DEF RingFails
<1>6. PICK us \in Servers : us = Search(code)
  BY <1>3, SearchServer
<1>7. fails' \in [Servers -> Nat] /\ failed' = {}
  <2>1. [fails EXCEPT ![us] = @ + 1] \in [Servers -> Nat]
    BY <1>3 DEF Typed
  <2> QED BY <1>4, <1>6, <2>1, RoundIs
<1>8. PICK t, c : IsReq(req', req, r, t, c, "new")
  BY <1>3, <1>5, ReqPhase DEF Phases
<1>9. Typed'
  BY <1>3, <1>4, <1>5, <1>6, <1>7, <1>8 DEF Typed, IsReq
<1>10. Alone(r)
  BY <1>3, <1>4, <1>5, <1>8 DEF Alone, IsReq
<1>11. PlaceOf(r)' /\ LeftOf(r)'
  BY <1>3, <1>4, <1>5, <1>8 DEF PlaceOf, LeftOf, IsReq
<1>12. Kept(r)
  BY <1>3, <1>5, <1>9, <1>10, <1>11 DEF Kept
<1> QED BY <1>12, KeptStep

LEMMA TryNoneStep ==
  ASSUME IInv, TryNone
  PROVE  IInv'
<1> USE DEF servers, ring, sockets
<1>1. /\ chooser # None /\ chooser' = chooser /\ ~Asking /\ req[chooser].tries < nelts
      /\ req' = [req EXCEPT ![chooser].tries = @ + 1]
      /\ UNCHANGED <<fails, recent, failed, ring, sockets>>
  BY DEF TryNone, Turn
<1>2. PICK r \in Requests : IsChooser(r)
  BY <1>1, ChooserIs
<1>3. /\ Typed /\ chooser = r /\ PlaceOf(r) /\ init_state # "IDLE" /\ req[r].phase = "new"
  BY <1>1, <1>2 DEF IsChooser
<1>4. PICK c : IsReq(req', req, r, req[r].tries + 1, c, "new")
  <2>1. PICK t \in 0 .. nelts : t = req[r].tries + 1
    BY <1>1, <1>3, ReqIs, NeltsAssumption
  <2>2. req' = [req EXCEPT ![r].tries = t]
    BY <1>1, <1>3, <2>1
  <2>3. IsReq(req', req, r, t, req[r].cur, req[r].phase)
    BY <1>3, <2>2, ReqTries
  <2> QED BY <1>3, <2>1, <2>3
<1>5. Typed'
  BY <1>1, <1>3, <1>4 DEF Typed, IsReq
<1>6. Alone(r)
  BY <1>1, <1>3, <1>4 DEF Alone, IsReq
<1>7. PlaceOf(r)' /\ LeftOf(r)'
  BY <1>1, <1>3, <1>4 DEF PlaceOf, LeftOf, IsReq
<1>8. Kept(r)
  BY <1>1, <1>3, <1>5, <1>6, <1>7 DEF Kept, Typed
<1> QED BY <1>8, KeptStep

LEMMA TryGoodStep ==
  ASSUME IInv, TryGood
  PROVE  IInv'
<1> USE DEF servers, ring, sockets
<1>1. /\ chooser # None /\ chooser' = None /\ ~Asking /\ req[chooser].tries < nelts
      /\ retried' = retried \cup {chooser}
      /\ UNCHANGED <<fails, recent, failed, ring, busy>>
  BY DEF TryGood, Turn
<1>2. PICK r \in Requests : IsChooser(r)
  BY <1>1, ChooserIs
<1>3. /\ Typed /\ chooser = r /\ PlaceOf(r) /\ init_state # "IDLE" /\ r # None
  BY <1>1, <1>2 DEF IsChooser
<1>4. PICK us \in Servers, res \in {"connected", "connecting"} :
        /\ req' = [req EXCEPT ![r] = [tries |-> @.tries + 1, cur |-> us, phase |-> res]]
        /\ armed' = IF res = "connecting" THEN armed \cup {r} ELSE armed
  BY <1>3 DEF TryGood, Eligible
<1>5. PICK t \in 0 .. nelts : IsReq(req', req, r, t, us, res)
  <2>1. PICK t \in 0 .. nelts : t = req[r].tries + 1
    BY <1>1, <1>3, ReqIs, NeltsAssumption
  <2>2. req' = [req EXCEPT ![r] = [tries |-> t, cur |-> us, phase |-> res]]
    BY <1>4, <2>1
  <2>3. req \in [Requests -> RequestType] /\ res \in Phases
    BY <1>3 DEF Typed, Phases
  <2>4. IsReq([req EXCEPT ![r] = [tries |-> t, cur |-> us, phase |-> res]], req, r, t, us, res)
    BY <2>3, ReqSet
  <2> QED BY <2>2, <2>4
<1>6. Typed'
  BY <1>1, <1>3, <1>4, <1>5 DEF Typed, IsReq
<1>7. Alone(r)
  BY <1>1, <1>3, <1>4, <1>5 DEF Alone, IsReq
<1>8. PlaceOf(r)' /\ LeftOf(r)'
  BY <1>1, <1>3, <1>5, NoneAssumption DEF PlaceOf, LeftOf, IsReq
<1>9. Kept(r)
  BY <1>1, <1>3, <1>6, <1>7, <1>8 DEF Kept, Typed
<1> QED BY <1>9, KeptStep

(* try_connect has removed the event, whatever had added it.               *)
LEMMA TryBadStep ==
  ASSUME IInv, TryBad
  PROVE  IInv'
<1> USE DEF servers, ring, sockets
<1>1. /\ chooser # None /\ chooser' = chooser /\ ~Asking /\ req[chooser].tries < nelts
      /\ req' = [req EXCEPT ![chooser].tries = @ + 1]
      /\ armed' = armed \ {chooser} /\ retried' = retried \cup {chooser}
      /\ UNCHANGED <<ring, busy>>
  BY DEF TryBad, Turn
<1>2. PICK r \in Requests : IsChooser(r)
  BY <1>1, ChooserIs
<1>3. /\ Typed /\ chooser = r /\ PlaceOf(r) /\ init_state # "IDLE" /\ req[r].phase = "new"
  BY <1>1, <1>2 DEF IsChooser
<1>4. PICK us \in Servers : /\ fails' = [fails EXCEPT ![us] = @ + 1]
                            /\ recent' = recent \cup {us} /\ failed' = failed \cup {us}
  BY DEF TryBad, Eligible
<1>5. PICK c : IsReq(req', req, r, req[r].tries + 1, c, "new")
  <2>1. PICK t \in 0 .. nelts : t = req[r].tries + 1
    BY <1>1, <1>3, ReqIs, NeltsAssumption
  <2>2. req' = [req EXCEPT ![r].tries = t]
    BY <1>1, <1>3, <2>1
  <2>3. IsReq(req', req, r, t, req[r].cur, req[r].phase)
    BY <1>3, <2>2, ReqTries
  <2> QED BY <1>3, <2>1, <2>3
<1>6. Typed'
  BY <1>1, <1>3, <1>4, <1>5 DEF Typed, IsReq
<1>7. Alone(r)
  BY <1>1, <1>3, <1>5 DEF Alone, IsReq
<1>8. PlaceOf(r)' /\ LeftOf(r)'
  BY <1>1, <1>3, <1>5 DEF PlaceOf, LeftOf, IsReq
<1>9. \A s \in Servers : fails[s] <= fails'[s]
  BY <1>3, <1>4 DEF Typed
<1>10. Kept(r)
  BY <1>1, <1>3, <1>6, <1>7, <1>8, <1>9 DEF Kept
<1> QED BY <1>10, KeptStep

LEMMA GiveUpStep ==
  ASSUME IInv, GiveUp
  PROVE  IInv'
<1> USE DEF servers, ring, sockets
<1>1. /\ chooser # None /\ chooser' = None
      /\ req' = [req EXCEPT ![chooser].phase = "502"]
      /\ UNCHANGED <<fails, recent, failed, ring, sockets>>
  BY DEF GiveUp
<1>2. PICK r \in Requests : IsChooser(r)
  BY <1>1, ChooserIs
<1>3. Typed /\ chooser = r /\ PlaceOf(r) /\ init_state # "IDLE" /\ r # None
  BY <1>2 DEF IsChooser
<1>4. PICK t, c : IsReq(req', req, r, t, c, "502")
  BY <1>1, <1>3, ReqPhase DEF Phases
<1>5. Typed'
  BY <1>1, <1>3, <1>4 DEF Typed, IsReq
<1>6. Alone(r)
  BY <1>1, <1>3, <1>4 DEF Alone, IsReq
<1>7. PlaceOf(r)' /\ LeftOf(r)'
  BY <1>1, <1>3, <1>4 DEF PlaceOf, LeftOf, IsReq
<1>8. Kept(r)
  BY <1>1, <1>3, <1>5, <1>6, <1>7 DEF Kept, Typed
<1> QED BY <1>8, KeptStep

LEMMA ConnectedStep ==
  ASSUME IInv, NEW r \in Requests, Connected(r)
  PROVE  IInv'
<1> USE DEF servers, ring, sockets
<1>1. /\ chooser = None /\ chooser' = None /\ req[r].phase = "connecting"
      /\ req' = [req EXCEPT ![r].phase = "connected"] /\ armed' = armed \ {r}
      /\ UNCHANGED <<fails, recent, failed, ring, busy, retried>>
  BY DEF Connected
<1>2. Typed /\ PlaceOf(r) /\ init_state # "IDLE" /\ r # None
  BY <1>1, AskedBefore, NoneAssumption DEF IInv, Places
<1>3. PICK t : IsReq(req', req, r, t, req[r].cur, "connected")
  BY <1>1, <1>2, ReqPhase DEF Phases
<1>4. Typed'
  BY <1>1, <1>2, <1>3 DEF Typed, IsReq
<1>5. Alone(r)
  BY <1>1, <1>3 DEF Alone, IsReq
<1>6. PlaceOf(r)' /\ LeftOf(r)'
  BY <1>1, <1>2, <1>3 DEF PlaceOf, LeftOf, IsReq
<1>7. Kept(r)
  BY <1>1, <1>2, <1>4, <1>5, <1>6 DEF Kept, Typed
<1> QED BY <1>7, KeptStep

(* A ring that still counts as up to date has seen no failure cleared.     *)
LEMMA RefusedStep ==
  ASSUME IInv, NEW r \in Requests, Refused(r)
  PROVE  IInv'
<1> USE DEF servers, ring, sockets
<1> DEFINE us == req[r].cur
           f == [fails EXCEPT ![us] = @ + 1]
           rec == recent \cup {us}
<1>1. /\ chooser = None /\ req[r].phase = "connecting"
      /\ req' = [req EXCEPT ![r].cur = None, ![r].phase = "new"]
      /\ recent' = rec /\ InitBeforeRound(f, rec) /\ init_state' = Marked(f, rec, init_state)
      /\ chooser' = r /\ armed' = armed \ {r}
      /\ UNCHANGED <<cycle, vnodes, owner, cleared, busy, retried>>
  BY DEF Refused
<1>2. Typed /\ PlaceOf(r) /\ init_state # "IDLE" /\ r # None
  BY <1>1, AskedBefore, NoneAssumption DEF IInv, Places
<1>3. us \in Servers
  BY <1>1, <1>2 DEF PlaceOf
<1>4. f \in [Servers -> Nat] /\ \A s \in Servers : fails[s] <= f[s]
  BY <1>2, <1>3 DEF Typed
<1>5. /\ fails' \in [Servers -> Nat] /\ failed' = {} /\ init_state' \in {init_state, "MODIFIED"}
      /\ init_state' = "INIT_DONE" => fails' = f
  BY <1>1, <1>4, RoundIs
<1>6. PICK t : IsReq(req', req, r, t, None, "new")
  BY <1>1, <1>2, ReqCurPhase DEF Phases
<1> HIDE DEF f
<1>7. Typed'
  BY <1>1, <1>2, <1>3, <1>5, <1>6 DEF Typed, IsReq
<1>8. Alone(r)
  BY <1>1, <1>6 DEF Alone, IsReq
<1>9. PlaceOf(r)' /\ LeftOf(r)'
  BY <1>1, <1>2, <1>6 DEF PlaceOf, LeftOf, IsReq
<1>10. Kept(r)
  BY <1>1, <1>2, <1>4, <1>5, <1>7, <1>8, <1>9 DEF Kept
<1> QED BY <1>10, KeptStep

LEMMA ForgetIs ==
  ASSUME Typed, NEW r \in Requests, Forget(r)
  PROVE  /\ req' \in [Requests -> RequestType] /\ req'[r] = NewRequest
         /\ \A x \in Requests : x # r => req'[x] = req[x]
         /\ armed' = armed \ {r} /\ busy' = busy \ {r} /\ retried' = retried \ {r}
<1>1. NewRequest \in RequestType
  BY NeltsAssumption DEF NewRequest, RequestType, Phases
<1> QED BY <1>1 DEF Typed, Forget

(* What the end of a request clears of its failures is noted, unless the   *)
(* server is in the ring.                                                  *)
LEMMA CloseStep ==
  ASSUME IInv, NEW r \in Requests, Close(r)
  PROVE  IInv'
<1> DEFINE us == req[r].cur
<1>1. /\ chooser = None /\ chooser' = None /\ req[r].phase # "new" /\ Forget(r)
      /\ owner' = IF owner = r THEN "freed" ELSE owner
      /\ cleared' = cleared \cup {s \in Servers \ Members : fails[s] >= max_fails /\ fails'[s] = 0}
      /\ UNCHANGED <<failed, init_state, cycle, vnodes>>
  BY DEF Close, PoolFreed
<1>2. Typed /\ PlaceOf(r) /\ init_state # "IDLE"
  BY <1>1, AskedBefore DEF IInv, Places
<1>3. us \in Servers \cup {None}
  BY <1>2, ReqIs
<1>4. \/ UNCHANGED <<fails, recent>>
      \/ us \in Servers /\ fails' = [fails EXCEPT ![us] = @ + 1] /\ recent' = recent \cup {us}
      \/ us \in Servers /\ fails' = [fails EXCEPT ![us] = 0] /\ recent' = recent
  <2>0. None \notin failed
    BY <1>2, NoneAssumption DEF Typed
  <2>1. CASE us = None
    BY <2>0, <2>1 DEF Close
  <2>2. CASE us # None /\ us \in failed
    BY <1>3, <2>2 DEF Close
  <2>3. CASE us # None /\ us \notin failed
    <3>1. /\ fails' = [fails EXCEPT ![us] = IF us \in recent THEN @ ELSE 0]
          /\ recent' = recent
      BY <2>3 DEF Close
    <3>2. CASE us \in recent
      <4>1. fails' = fails
        BY <1>2, <3>1, <3>2 DEF Typed
      <4> QED BY <3>1, <4>1
    <3>3. CASE us \notin recent
      BY <1>3, <2>3, <3>1, <3>3
    <3> QED BY <3>2, <3>3
  <2> QED BY <2>1, <2>2, <2>3
<1> HIDE DEF us
<1>5. /\ fails' \in [Servers -> Nat] /\ recent' \subseteq Servers
      /\ \A s \in Servers : fails[s] <= fails'[s] \/ fails'[s] = 0
  BY <1>2, <1>4 DEF Typed
<1>6. /\ req' \in [Requests -> RequestType] /\ req'[r] = NewRequest
      /\ \A x \in Requests : x # r => req'[x] = req[x]
      /\ armed' = armed \ {r} /\ busy' = busy \ {r} /\ retried' = retried \ {r}
  BY <1>1, <1>2, ForgetIs
<1>7. Typed'
  BY <1>1, <1>2, <1>5, <1>6 DEF Typed
<1>8. Alone(r)
  BY <1>1, <1>6 DEF Alone
<1>9. PlaceOf(r)' /\ LeftOf(r)'
  BY <1>1, <1>6, NoneAssumption DEF PlaceOf, LeftOf, NewRequest
<1>10. \A s \in Servers : fails[s] <= fails'[s] \/ s \in cleared' \/ fails[s] < max_fails
                            \/ s \in Members
  <2>1. ASSUME NEW s \in Servers, fails'[s] = 0, ~(fails[s] < max_fails), s \notin Members
        PROVE  s \in cleared'
    <3>1. fails[s] >= max_fails
      BY <1>2, <2>1, MaxFailsAssumption DEF Typed
    <3> QED BY <1>1, <2>1, <3>1
  <2> QED BY <1>5, <2>1
<1>11. Kept(r)
  BY <1>1, <1>2, <1>7, <1>8, <1>9, <1>10 DEF Kept
<1> QED BY <1>11, KeptStep

LEMMA ClearStep ==
  ASSUME IInv, NEW r \in Requests, Clear(r)
  PROVE  IInv'
<1>1. /\ chooser = None /\ chooser' = None /\ req[r].phase # "new" /\ Forget(r)
      /\ UNCHANGED <<fails, recent, failed, ring>>
  BY DEF Clear, servers
<1>2. Typed /\ init_state # "IDLE"
  BY <1>1, AskedBefore DEF IInv
<1>3. /\ req' \in [Requests -> RequestType] /\ req'[r] = NewRequest
      /\ \A x \in Requests : x # r => req'[x] = req[x]
      /\ armed' = armed \ {r} /\ busy' = busy \ {r} /\ retried' = retried \ {r}
  BY <1>1, <1>2, ForgetIs
<1>4. Typed'
  BY <1>1, <1>2, <1>3 DEF Typed, ring
<1>5. Alone(r)
  BY <1>1, <1>3 DEF Alone
<1>6. PlaceOf(r)' /\ LeftOf(r)'
  BY <1>1, <1>3, NoneAssumption DEF PlaceOf, LeftOf, NewRequest
<1>7. Kept(r)
  BY <1>1, <1>2, <1>4, <1>5, <1>6 DEF Kept, ring, Typed
<1> QED BY <1>7, KeptStep

(* Steps of no request: a pool is freed, time passes, the worker ends.     *)
LEMMA QuietStep ==
  ASSUME IInv, recent' \subseteq Servers, failed' = failed, owner' \in Requests \cup {None, "freed"},
         UNCHANGED <<fails, req, chooser, init_state, cycle, vnodes, cleared, sockets>>
  PROVE  IInv'
<1> USE DEF IInv, sockets
<1>1. Typed'
  BY DEF Typed
<1>2. Places'
  BY DEF Places, PlaceOf
<1>3. Fresh' /\ RingOk'
  BY DEF Fresh, RingOk
<1>4. RingMissing'
  BY DEF RingMissing, Members
<1>5. LeftArmed'
  BY DEF LeftArmed
<1> QED BY <1>1, <1>2, <1>3, <1>4, <1>5

LEMMA NextStep ==
  ASSUME IInv, [Next]_vars
  PROVE  IInv'
<1> USE DEF servers, ring, sockets
<1>1. recent \subseteq Servers /\ owner \in Requests \cup {None, "freed"}
  BY DEF IInv, Typed
<1>2. CASE UNCHANGED vars
  BY <1>1, <1>2, QuietStep DEF vars
<1>3. CASE Choose
  BY <1>3, RingDownStep, RingConnectsStep, RingFailsStep, TryNoneStep, TryGoodStep, TryBadStep,
     GiveUpStep DEF Choose
<1>4. CASE TimePasses
  <2>1. /\ recent' \subseteq Servers /\ failed' = failed
        /\ UNCHANGED <<fails, req, chooser, init_state, cycle, vnodes, cleared, owner, sockets>>
    BY <1>1, <1>4 DEF TimePasses
  <2> QED BY <1>1, <2>1, QuietStep
<1>5. ASSUME NEW r \in Requests,
             \/ Ask(r) \/ Connected(r) \/ Refused(r) \/ Close(r) \/ Clear(r)
      PROVE  IInv'
  BY <1>5, AskStep, ConnectedStep, RefusedStep, CloseStep, ClearStep
<1>6. ASSUME NEW r \in Requests, NoMemory(r) \/ UseFreed(r) \/ LateResult(r)
      PROVE  IInv'
  <2>1. UNCHANGED <<servers, req, chooser, ring, sockets>>
    BY <1>6 DEF NoMemory, UseFreed, LateResult
  <2> QED BY <1>1, <2>1, QuietStep
<1>7. ASSUME NEW r \in Requests, CloseIdle(r) PROVE IInv'
  <2>1. /\ recent' = recent /\ failed' = failed /\ owner' \in Requests \cup {None, "freed"}
        /\ UNCHANGED <<fails, req, chooser, init_state, cycle, vnodes, cleared, sockets>>
    BY <1>1, <1>7 DEF CloseIdle, PoolFreed
  <2> QED BY <1>1, <2>1, QuietStep
<1> QED BY <1>2, <1>3, <1>4, <1>5, <1>6, <1>7 DEF Next, Ended

(* The inductive invariant holds: the ring is well-formed after every      *)
(* rebuild, and every request is where it says.                            *)
THEOREM Invariant == Spec => []IInv
<1>1. IInv /\ [Next]_vars => IInv'
  BY NextStep
<1> QED BY <1>1, InitStep, PTL DEF Spec

(* Types of the ring and of the requests: the half of RingSound that does  *)
(* not depend on the number of servers (init_before_consistent_hash_get).  *)
THEOREM RingTyped == Spec => []TypeOK
<1>1. IInv => TypeOK
  <2> SUFFICES ASSUME IInv PROVE TypeOK
    OBVIOUS
  <2>1. Typed /\ cycle \in Seq(Cell)
    BY DEF IInv, RingOk
  <2>2. \A r \in Requests : req[r].tries \in 0 .. nelts
    BY <2>1, ReqIs
  <2> QED BY <2>1, <2>2 DEF TypeOK, Typed, Cell
<1> QED BY <1>1, Invariant, PTL

(* A server that may be used is missing in a ring that counts as up to     *)
(* date only if the end of an older request has cleared its failures       *)
(* (free_server_after_round_select).                                       *)
THEOREM MissingOnlyIfCleared == Spec => []RingMissing
<1>1. IInv => RingMissing
  BY DEF IInv
<1> QED BY <1>1, Invariant, PTL

(* A callback of a connect is left to a request without a server only if   *)
(* the ring's connect was the only one (try_connect).                      *)
THEOREM CallbackLeft == Spec => []LeftArmed
<1>1. IInv => LeftArmed
  BY DEF IInv
<1> QED BY <1>1, Invariant, PTL

-----------------------------------------------------------------------------
(***************************************************************************)
(* What the ring gives a client.                                           *)
(***************************************************************************)
(* The server whose point is next to the code, around the ring.            *)
IsNext(s, code, M) ==
  /\ s \in M
  /\ Point[s] >= code => \A t \in M : Point[t] >= code => Point[s] <= Point[t]
  /\ Point[s] < code => \A t \in M : Point[t] < code /\ Point[s] <= Point[t]

Routed == vnodes > 0 => \A code \in Codes : IsNext(Search(code), code, Members)

LEMMA RoutedIs ==
  ASSUME RingOk
  PROVE  Routed /\ Members \subseteq Servers
<1>1. vnodes \in Nat /\ vnodes <= Len(cycle) /\ Len(cycle) \in Nat
  BY CellsAre DEF RingOk
<1>2. \A i \in 1 .. vnodes : /\ cycle[i].rnode \in Servers /\ cycle[i].hashcode \in Nat
                             /\ cycle[i].hashcode = Point[cycle[i].rnode]
  BY <1>1, CellsAre DEF RingOk
<1>3. ASSUME vnodes > 0, NEW code \in Codes
      PROVE  IsNext(Search(code), code, Members)
  <2>1. code \in Nat
    BY CodesAssumption
  <2>2. PICK r : Good(code, r) /\ Search(code) = cycle[IF r = vnodes THEN 1 ELSE r + 1].rnode
    BY <2>1, SearchIs
  <2>3. r \in 0 .. vnodes
    BY <2>2 DEF Good
  <2>4. CASE r < vnodes
    <3>1. PICK k \in 1 .. vnodes : k = r + 1
      BY <1>1, <2>3, <2>4
    <3>2. /\ Search(code) = cycle[k].rnode /\ cycle[k].hashcode >= code
          /\ \A j \in 1 .. vnodes : cycle[j].hashcode >= code =>
                                      cycle[k].hashcode <= cycle[j].hashcode
      BY <1>1, <2>2, <2>3, <2>4, <3>1 DEF Good
    <3>3. PICK s \in Members : s = Search(code) /\ Point[s] = cycle[k].hashcode
      BY <1>2, <3>1, <3>2 DEF Members
    <3>4. \A t \in Members : Point[t] >= code => Point[s] <= Point[t]
      BY <1>2, <3>2, <3>3 DEF Members
    <3>5. ~(Point[s] < code)
      BY <1>2, <2>1, <3>2, <3>3
    <3> QED BY <3>3, <3>4, <3>5 DEF IsNext
  <2>5. CASE r = vnodes
    <3>1. 1 \in 1 .. vnodes
      BY <1>1, <1>3
    <3>2. Search(code) = cycle[1].rnode /\ \A j \in 1 .. vnodes : cycle[j].hashcode < code
      BY <2>2, <2>5 DEF Good
    <3>3. PICK s \in Members : s = Search(code) /\ Point[s] = cycle[1].hashcode
      BY <1>2, <3>1, <3>2 DEF Members
    <3>4. \A j \in 1 .. vnodes : cycle[1].hashcode <= cycle[j].hashcode
      BY <3>1 DEF RingOk
    <3>5. \A t \in Members : Point[t] < code /\ Point[s] <= Point[t]
      BY <1>2, <3>2, <3>3, <3>4 DEF Members
    <3>6. ~(Point[s] >= code)
      BY <1>2, <2>1, <3>1, <3>2, <3>3
    <3> QED BY <3>3, <3>5, <3>6 DEF IsNext
  <2> QED BY <1>1, <2>3, <2>4, <2>5
<1>4. Members \subseteq Servers
  BY <1>2 DEF Members
<1> QED BY <1>3, <1>4 DEF Routed

(* The binary search gives the server of the first virtual node at or      *)
(* behind the code, around the end of the ring to its beginning            *)
(* (get_server_by_consistent_hash_once).                                   *)
THEOREM SearchFindsNext == Spec => []SearchFinds
<1>1. ASSUME IInv PROVE SearchFinds
  <2> SUFFICES ASSUME vnodes > 0, NEW code \in Codes
               PROVE  LET behind == {s \in Members : Point[s] >= code}
                      IN  Point[Search(code)] =
                            Min({Point[s] : s \in IF behind = {} THEN Members ELSE behind})
    BY DEF SearchFinds
  <2> DEFINE behind == {s \in Members : Point[s] >= code}
             T == IF behind = {} THEN Members ELSE behind
             V == {Point[s] : s \in T}
  <2>1. IsNext(Search(code), code, Members) /\ Members \subseteq Servers
    BY <1>1, RoutedIs DEF IInv, Routed
  <2>2. PICK us \in Servers : us = Search(code)
    BY <2>1 DEF IsNext
  <2>3. \A s \in Members : Point[s] \in Nat
    BY <2>1, PointAssumption
  <2>4. code \in Nat
    BY CodesAssumption
  <2>5. us \in T /\ \A t \in T : Point[us] <= Point[t]
    <3>1. CASE Point[us] >= code
      BY <2>1, <2>2, <3>1 DEF IsNext
    <3>2. CASE Point[us] < code
      <4>1. behind = {}
        BY <2>1, <2>2, <2>3, <2>4, <3>2 DEF IsNext
      <4> QED BY <2>1, <2>2, <3>2, <4>1 DEF IsNext
    <3> QED BY <2>1, <2>2, <2>3, <2>4, <3>1, <3>2 DEF IsNext
  <2>6. T \subseteq Members
    OBVIOUS
  <2> HIDE DEF T
  <2>7. PICK v \in Nat : v = Point[us]
    BY <2>3, <2>5, <2>6
  <2>8. v \in V /\ V \subseteq Nat /\ \A y \in V : v <= y
    BY <2>3, <2>5, <2>6, <2>7
  <2> HIDE DEF V
  <2>9. Min(V) = v
    <3>1. \A x \in V : (\A y \in V : x <= y) => x = v
      BY <2>8
    <3>2. (CHOOSE x \in V : \A y \in V : x <= y) = v
      BY <2>8, <3>1
    <3> QED BY <3>2, Zenon DEF Min
  <2> QED BY <2>2, <2>7, <2>9 DEF V, T
<1> QED BY <1>1, Invariant, PTL

(* The same client, two rings: it moves only from a server that has left   *)
(* or to one that has joined.                                              *)
LEMMA NextIsOne ==
  ASSUME NEW M \in SUBSET Servers, NEW N \in SUBSET Servers, NEW code \in Nat,
         NEW a, IsNext(a, code, M), NEW b, IsNext(b, code, N), a \in N, b \in M
  PROVE  a = b
<1>1. a \in Servers /\ b \in Servers /\ a \in M /\ b \in N
  BY DEF IsNext
<1>2. PICK x \in Nat, y \in Nat : x = Point[a] /\ y = Point[b]
  BY <1>1, PointAssumption
<1>3. x = y
  <2>1. CASE x >= code /\ y >= code
    BY <1>1, <1>2, <2>1 DEF IsNext
  <2>2. CASE x < code /\ y < code
    BY <1>1, <1>2, <2>2 DEF IsNext
  <2>3. CASE x < code /\ y >= code
    BY <1>1, <1>2, <2>3 DEF IsNext
  <2>4. CASE x >= code /\ y < code
    BY <1>1, <1>2, <2>4 DEF IsNext
  <2> QED BY <2>1, <2>2, <2>3, <2>4
<1> QED BY <1>1, <1>2, <1>3, PointAssumption

(* Consistency: when servers leave or join the ring, only the clients of   *)
(* these servers move (init_before_consistent_hash_get).                   *)
THEOREM Consistency == Spec => OnlyAffectedMove
<1>1. IInv => Routed /\ Members \subseteq Servers
  BY RoutedIs DEF IInv
<1> DEFINE Q == Routed /\ Members \subseteq Servers
           A == cycle' # cycle /\ vnodes > 0 /\ vnodes' > 0 => \A code \in Codes :
                  Search(code) # Search(code)' =>
                    Search(code) \notin Members' \/ Search(code)' \notin Members
<1>2. Q /\ Q' => A
  <2> SUFFICES ASSUME Q, Q', vnodes > 0, vnodes' > 0, NEW code \in Codes,
                      Search(code) \in Members', Search(code)' \in Members
               PROVE  Search(code) = Search(code)'
    OBVIOUS
  <2>1. IsNext(Search(code), code, Members)
    BY DEF Routed
  <2>2. IsNext(Search(code)', code, Members')
    BY DEF Routed, IsNext
  <2>3. code \in Nat /\ Members \subseteq Servers /\ Members' \subseteq Servers
    BY CodesAssumption
  <2> QED BY <2>1, <2>2, <2>3, NextIsOne
<1>3. Q /\ Q' => [A]_vars
  BY <1>2
<1> HIDE DEF A, Q
<1>4. IInv => Q
  BY <1>1 DEF Q
<1>5. Spec => [][A]_vars
  BY <1>3, <1>4, Invariant, PTL
<1> QED BY <1>5 DEF A, OnlyAffectedMove

-----------------------------------------------------------------------------
(***************************************************************************)
(* The ring in its memory.                                                 *)
(***************************************************************************)
(* What a ring may lack in cells, if there are more than ten servers.      *)
Excess == IF nelts <= 10 THEN 0 ELSE nelts - 10

(* The memory is that of the ring over all servers.                        *)
Fits ==
  /\ init_state = "IDLE" => room = 0 /\ cycle = <<>>
  /\ init_state # "IDLE" => /\ room = Len(Sorted(Servers))
                            /\ Len(cycle) <= room + Excess

LEMMA NoRingIsLonger ==
  ASSUME NEW up \in SUBSET Servers
  PROVE  /\ Len(Sorted(up)) \in Nat /\ Len(Sorted(Servers)) \in Nat
         /\ Len(Sorted(up)) <= Len(Sorted(Servers)) + Excess
<1>1. nelts \in Nat /\ nelts >= 1 /\ Excess \in Nat
  BY NeltsAssumption DEF Excess
<1>2. IsFiniteSet(Servers) /\ Cardinality(Servers) = nelts
  <2>1. 0 \in Int /\ nelts - 1 \in Int /\ 0 <= nelts - 1
    BY <1>1
  <2>2. IsFiniteSet(0 .. nelts - 1) /\ Cardinality(0 .. nelts - 1) = nelts - 1 - 0 + 1
    BY <2>1, FS_Interval
  <2> QED BY <1>1, <2>2 DEF Servers
<1>3. 0 \in Servers
  BY <1>1 DEF Servers
<1>4. PICK r \in Nat : r = Len(Sorted(Servers)) /\ 8 * nelts <= r
  <2>1. Len(Sorted(Servers)) \in Nat /\ 8 * Cardinality(Servers) <= Len(Sorted(Servers))
    BY <1>3, RingLength
  <2> QED BY <1>2, <2>1
<1>5. CASE up = Servers
  BY <1>1, <1>4, <1>5
<1>6. CASE up = {}
  <2>1. \A s \in up : FALSE
    BY <1>6
  <2>2. IsRing(Sorted(up), up)
    BY SortedIs
  <2>3. PICK l \in Nat : l = Len(Sorted(up)) /\ \A i \in 1 .. l : FALSE
    BY <2>1, <2>2 DEF IsRing
  <2>4. l = 0
    <3>1. l >= 1 => 1 \in 1 .. l
      OBVIOUS
    <3> QED BY <2>3, <3>1
  <2> QED BY <1>1, <1>4, <2>3, <2>4
<1>7. CASE up # {} /\ up # Servers
  <2>1. PICK k \in Nat : k = Cardinality(up) /\ k <= nelts - 1
    <3>1. Cardinality(up) < Cardinality(Servers) /\ Cardinality(up) \in Nat
      <4>1. Cardinality(up) <= Cardinality(Servers) /\ IsFiniteSet(up)
            /\ (Cardinality(up) = Cardinality(Servers) => up = Servers)
        BY <1>2, FS_Subset
      <4>2. Cardinality(up) \in Nat /\ Cardinality(Servers) \in Nat
        BY <1>2, <4>1, FS_CardinalityType
      <4> QED BY <1>7, <4>1, <4>2
    <3> QED BY <1>1, <1>2, <3>1
  <2>2. PICK l \in Nat : l = Len(Sorted(up)) /\ l <= 9 * k - 1
    <3>1. Len(Sorted(up)) \in Nat /\ Len(Sorted(up)) <= 9 * Cardinality(up) - 1
      BY <1>7, RingLength
    <3> QED BY <2>1, <3>1
  <2>3. l <= r + Excess
    BY <1>1, <1>4, <2>1, <2>2 DEF Excess
  <2> QED BY <1>4, <2>2, <2>3
<1> QED BY <1>5, <1>6, <1>7

(* Refilling makes the ring no longer than its old and its new cells.      *)
LEMMA RefillLength ==
  ASSUME NEW p \in Seq(Cell), NEW q \in Seq(Cell)
  PROVE  Len(p \o SubSeq(q, Len(p) + 1, Len(q))) = IF Len(p) < Len(q) THEN Len(q) ELSE Len(p)
<1>1. PICK l \in Nat, m \in Nat : l = Len(p) /\ m = Len(q)
  OBVIOUS
<1> DEFINE d == SubSeq(q, l + 1, m)
<1>2. d \in Seq(Cell) /\ Len(d) = IF l < m THEN m - l ELSE 0
  <2>1. CASE l < m
    BY <1>1, <2>1
  <2>2. CASE ~(l < m)
    <3>1. d = <<>>
      BY <1>1, <2>2
    <3> QED BY <2>2, <3>1
  <2> QED BY <2>1, <2>2
<1> HIDE DEF d
<1>3. Len(p \o d) = l + (IF l < m THEN m - l ELSE 0)
  BY <1>1, <1>2
<1> QED BY <1>1, <1>3 DEF d

LEMMA AskFits ==
  ASSUME IInv, Fits, NEW r \in Requests, Ask(r)
  PROVE  Fits'
<1> DEFINE st == Marked(fails, recent, init_state)
           up == {s \in Servers : fails'[s] < max_fails \/ s \notin recent}
           nodes == Sorted(up)
<1>0. Typed /\ Fresh /\ RingOk
  BY DEF IInv
<1>1. /\ InitBeforeRound(fails, recent) /\ init_state' = "INIT_DONE"
      /\ IF st = "INIT_DONE" THEN UNCHANGED cycle
         ELSE cycle' = nodes \o SubSeq(cycle, Len(nodes) + 1, Len(cycle))
      /\ IF st = "IDLE" THEN room' = Len(nodes) ELSE UNCHANGED room
  BY DEF Ask
<1>2. st \in {init_state, "MODIFIED"}
  BY DEF Marked
<1>3. up \in SUBSET Servers
  OBVIOUS
<1>4. nodes \in Seq(Cell) /\ cycle \in Seq(Cell)
  BY <1>0, <1>3, SortedIs DEF IsRing, RingOk
<1>5. PICK l \in Nat, a \in Nat, e \in Nat :
        l = Len(nodes) /\ a = Len(Sorted(Servers)) /\ l <= a + e /\ e = Excess
  <2>1. Excess \in Nat
    BY NeltsAssumption DEF Excess
  <2> QED BY <1>3, <2>1, NoRingIsLonger
<1>6. CASE init_state = "IDLE"
  <2>1. \A s \in Servers : fails[s] = 0
    BY <1>0, <1>6 DEF Fresh
  <2>2. st = "IDLE"
    BY <1>6, <2>1, MaxFailsAssumption DEF Marked
  <2>3. \A s \in Servers : fails'[s] = 0
    BY <1>1, <2>1 DEF InitBeforeRound
  <2>4. up = Servers
    BY <2>3, MaxFailsAssumption
  <2>5. cycle' = nodes \o SubSeq(cycle, Len(nodes) + 1, Len(cycle)) /\ room' = Len(nodes)
    BY <1>1, <2>2
  <2>6. Len(cycle) = 0
    BY <1>6 DEF Fits
  <2> HIDE DEF up, nodes
  <2>7. Len(cycle') = l
    BY <1>4, <1>5, <2>5, <2>6, RefillLength
  <2>8. l = a
    BY <1>5, <2>4 DEF nodes
  <2>9. room' = a /\ Len(cycle') <= room' + Excess
    BY <1>5, <2>5, <2>7, <2>8
  <2> QED BY <1>1, <1>5, <2>9 DEF Fits
<1>7. CASE init_state # "IDLE"
  <2>1. room' = room /\ room = a /\ Len(cycle) <= a + e
    BY <1>1, <1>2, <1>5, <1>7 DEF Fits
  <2>2. Len(cycle') <= a + e
    <3>1. CASE cycle' = cycle
      BY <2>1, <3>1
    <3>2. CASE cycle' = nodes \o SubSeq(cycle, Len(nodes) + 1, Len(cycle))
      <4> HIDE DEF nodes
      <4>1. Len(cycle') = IF Len(nodes) < Len(cycle) THEN Len(cycle) ELSE Len(nodes)
        BY <1>4, <3>2, RefillLength
      <4> QED BY <1>5, <2>1, <4>1
    <3> QED BY <1>1, <3>1, <3>2
  <2> QED BY <1>1, <1>5, <2>1, <2>2 DEF Fits
<1> QED BY <1>6, <1>7

LEMMA FitsStep ==
  ASSUME IInv, Fits, [Next]_vars
  PROVE  Fits'
<1>1. CASE \E r \in Requests : Ask(r)
  BY <1>1, AskFits
<1>2. CASE ~\E r \in Requests : Ask(r)
  <2>1. UNCHANGED <<cycle, room>>
    BY <1>2 DEF Next, Choose, RingDown, RingConnects, RingFails, TryNone, TryGood, TryBad,
         GiveUp, NoMemory, UseFreed, Connected, Refused, LateResult, Close, CloseIdle,
         Clear, TimePasses, Ended, vars, ring
  <2>2. init_state' = "IDLE" <=> init_state = "IDLE"
    <3>1. CASE RingFails
      <4>1. init_state # "IDLE" /\ init_state' # "IDLE"
        BY <3>1 DEF RingFails, Asking, IInv, Fresh
      <4> QED BY <4>1
    <3>2. CASE \E r \in Requests : Refused(r)
      <4>1. PICK r \in Requests : Refused(r)
        BY <3>2
      <4>2. req[r].phase = "connecting"
        BY <4>1 DEF Refused
      <4>3. init_state # "IDLE"
        BY <4>2 DEF IInv, Fresh, NewRequest
      <4>4. init_state' \in {init_state, "MODIFIED"}
        BY <4>1 DEF Refused, Marked
      <4> QED BY <4>3, <4>4
    <3>3. CASE ~RingFails /\ ~\E r \in Requests : Refused(r)
      <4>1. init_state' = init_state
        BY <1>2, <3>3 DEF Next, Choose, RingDown, RingConnects, TryNone, TryGood, TryBad,
             GiveUp, NoMemory, UseFreed, Connected, LateResult, Close, CloseIdle,
             Clear, TimePasses, Ended, vars, ring
      <4> QED BY <4>1
    <3> QED BY <3>1, <3>2, <3>3
  <2> QED BY <2>1, <2>2 DEF Fits
<1> QED BY <1>1, <1>2

LEMMA FitsAlways == Spec => [](IInv /\ Fits)
<1>1. Init => IInv /\ Fits
  BY InitStep DEF Init, Fits
<1>2. IInv /\ Fits /\ [Next]_vars => (IInv /\ Fits)'
  BY NextStep, FitsStep
<1> QED BY <1>1, <1>2, PTL DEF Spec

(* With ten servers or fewer the ring never outgrows the memory of its     *)
(* first filling, whatever their weights are and whichever of them fail    *)
(* and come back (init_before_consistent_hash_get).                        *)
THEOREM RingInMemory ==
  ASSUME nelts <= 10
  PROVE  Spec => []RingSound
<1>1. IInv /\ Fits => CycleFits
  <2>1. CASE init_state = "IDLE"
    <3>1. Fits => Len(cycle) = 0 /\ room = 0
      BY <2>1 DEF Fits
    <3> QED BY <3>1 DEF CycleFits
  <2>2. CASE init_state # "IDLE"
    <3>1. Len(Sorted(Servers)) \in Nat /\ Excess = 0
      BY NoRingIsLonger DEF Excess
    <3>2. Fits => room \in Nat /\ Len(cycle) <= room + 0
      BY <2>2, <3>1 DEF Fits
    <3>3. IInv => Len(cycle) \in Nat
      BY DEF IInv, RingOk
    <3> QED BY <3>2, <3>3 DEF CycleFits
  <2> QED BY <2>1, <2>2
<1>2. RingSound <=> TypeOK /\ CycleFits
  BY DEF RingSound
<1> QED BY <1>1, <1>2, RingTyped, FitsAlways, PTL
=============================================================================
