------------------------------- MODULE SetSums -------------------------------
(***************************************************************************)
(* Induction and recursion over numbers, induction over finite sets, and   *)
(* sums over finite sets: lemmas that the proofs about weights, rings and  *)
(* layouts share.                                                          *)
(***************************************************************************)
EXTENDS Integers, FiniteSetsExt, FiniteSetTheorems, WellFoundedInduction, TLAPS

-----------------------------------------------------------------------------
(***************************************************************************)
(* Induction, as facts about sets.                                         *)
(***************************************************************************)
(* A set of numbers that has 0 and the successors of its elements has all. *)
LEMMA Induction ==
  ASSUME NEW S, 0 \in S, \A k \in Nat : k \in S => k + 1 \in S
  PROVE  \A k \in Nat : k \in S
<1> SUFFICES ASSUME NEW n \in Nat, n \notin S PROVE FALSE
  OBVIOUS
<1> DEFINE R == OpToRel(<, Nat)
           T == Nat \ S
<1>1. PICK m \in T : \A y \in T : ~ (<<y, m>> \in R)
  <2>1. IsWellFoundedOn(R, Nat)
    BY NatLessThanWellFounded
  <2>2. T \subseteq Nat /\ T # {}
    OBVIOUS
  <2> HIDE DEF R, T
  <2> QED BY <2>1, <2>2, WFMin
<1>2. m \in Nat /\ m # 0 /\ m - 1 \in Nat /\ m - 1 < m
  OBVIOUS
<1>3. <<m - 1, m>> \in R
  BY <1>2 DEF OpToRel
<1>4. m - 1 \in S
  BY <1>1, <1>2, <1>3
<1> QED BY <1>2, <1>4

(* A function may be defined by what it is at 0 and how it goes on.        *)
IsStep(n, A, G) == \A k \in 1 .. n : \A x \in A : G[k][x] \in A
HasRecursive(n, A, a, G) ==
  \E f \in [0 .. n -> A] : f[0] = a /\ \A k \in 1 .. n : f[k] = G[k][f[k - 1]]

LEMMA Recursion ==
  ASSUME NEW n \in Nat, NEW A, NEW a \in A, NEW G, IsStep(n, A, G)
  PROVE  HasRecursive(n, A, a, G)
<1> USE DEF IsStep, HasRecursive
<1> DEFINE P(m) == m <= n => \E f \in [0 .. n -> A] :
                     f[0] = a /\ \A k \in 1 .. m : f[k] = G[k][f[k - 1]]
           S == {m \in Nat : P(m)}
<1>1. 0 \in S
  <2> DEFINE f == [k \in 0 .. n |-> a]
  <2>1. f \in [0 .. n -> A] /\ f[0] = a
    OBVIOUS
  <2>2. \A k \in 1 .. 0 : f[k] = G[k][f[k - 1]]
    OBVIOUS
  <2> HIDE DEF f
  <2>3. \E g \in [0 .. n -> A] : g[0] = a /\ \A k \in 1 .. 0 : g[k] = G[k][g[k - 1]]
    BY <2>1, <2>2
  <2> QED BY <2>3
<1>2. ASSUME NEW m \in Nat, m \in S PROVE m + 1 \in S
  <2> SUFFICES ASSUME m + 1 <= n PROVE P(m + 1)
    OBVIOUS
  <2>1. PICK f \in [0 .. n -> A] :
          f[0] = a /\ \A k \in 1 .. m : f[k] = G[k][f[k - 1]]
    BY <1>2
  <2> DEFINE g == [k \in 0 .. n |-> IF k = m + 1 THEN G[m + 1][f[m]] ELSE f[k]]
  <2>2. f[m] \in A /\ m + 1 \in 1 .. n
    BY <2>1
  <2>3. g \in [0 .. n -> A]
    BY <2>1, <2>2
  <2>4. g[0] = a
    BY <2>1
  <2>5. ASSUME NEW k \in 1 .. m + 1 PROVE g[k] = G[k][g[k - 1]]
    <3>1. CASE k = m + 1
      BY <2>1, <3>1
    <3>2. CASE k # m + 1
      <4>1. k \in 1 .. m /\ k \in 0 .. n /\ k - 1 \in 0 .. n /\ k - 1 # m + 1
        BY <3>2
      <4> QED BY <2>1, <3>2, <4>1
    <3> QED BY <3>1, <3>2
  <2> QED BY <2>3, <2>4, <2>5
<1>3. n \in S
  <2> HIDE DEF S
  <2> QED BY <1>1, <1>2, Induction
<1> QED BY <1>3

(* Taking an element out of a finite set makes it smaller by one.          *)
LEMMA Less ==
  ASSUME NEW S, IsFiniteSet(S), NEW s \in SUBSET S, NEW x \in s
  PROVE  /\ IsFiniteSet(s) /\ s \ {x} \in SUBSET S
         /\ Cardinality(s) \in Nat /\ Cardinality(s \ {x}) = Cardinality(s) - 1
<1>1. IsFiniteSet(s)
  BY FS_Subset
<1> QED BY <1>1, FS_RemoveElement, FS_CardinalityType

(* What holds of the empty set, and of a set with one element more, holds  *)
(* of a finite set.                                                        *)
LEMMA SetInduction ==
  ASSUME NEW S, IsFiniteSet(S), NEW P, {} \in P,
         \A s \in SUBSET S : \A x \in S \ s : s \in P => s \cup {x} \in P
  PROVE  S \in P
<1> DEFINE N == {n \in Nat : \A s \in SUBSET S : Cardinality(s) = n => s \in P}
<1>1. 0 \in N
  <2>1. ASSUME NEW s \in SUBSET S, Cardinality(s) = 0 PROVE s \in P
    <3>1. s = {}
      BY <2>1, FS_Subset, FS_EmptySet
    <3> QED BY <3>1
  <2> QED BY <2>1
<1>2. ASSUME NEW n \in Nat, n \in N PROVE n + 1 \in N
  <2>1. ASSUME NEW s \in SUBSET S, Cardinality(s) = n + 1 PROVE s \in P
    <3>0. Cardinality({}) = 0 /\ n + 1 # 0
      BY FS_EmptySet
    <3>1. s # {}
      BY <2>1, <3>0
    <3>2. PICK x \in s : TRUE
      BY <3>1
    <3>3. s \ {x} \in SUBSET S /\ Cardinality(s \ {x}) = n /\ x \in S \ (s \ {x})
      BY <2>1, <3>2, Less
    <3>4. s \ {x} \in P /\ s = (s \ {x}) \cup {x}
      BY <1>2, <3>2, <3>3
    <3> DEFINE t == s \ {x}
    <3> HIDE DEF t
    <3>5. t \cup {x} \in P
      BY <3>3, <3>4 DEF t
    <3> QED BY <3>4, <3>5 DEF t
  <2> QED BY <2>1
<1> HIDE DEF N
<1>3. \A n \in Nat : n \in N
  BY <1>1, <1>2, Induction
<1>4. Cardinality(S) \in Nat
  BY FS_CardinalityType
<1> QED BY <1>3, <1>4 DEF N

-----------------------------------------------------------------------------
(***************************************************************************)
(* Sums over a set.  MapThenSumSet takes a recursive function on the       *)
(* subsets: that there is one, and that the order in which it takes the    *)
(* elements does not matter, follows by induction on their number.         *)
(***************************************************************************)
Sum(g, S) == MapThenSumSet(LAMBDA s : g[s], S)
First(s) == CHOOSE x \in s : TRUE
Folded(g, s, f) == IF s = {} THEN 0 ELSE g[First(s)] + f[s \ {First(s)}]
IsFold(g, S, f) == f = [s \in SUBSET S |-> Folded(g, s, f)]

LEMMA FirstIn == \A s : s # {} => First(s) \in s
BY DEF First

LEMMA FoldExists ==
  ASSUME NEW S, IsFiniteSet(S), NEW g
  PROVE  \E f : IsFold(g, S, f)
<1> DEFINE Upto(n, f) ==
             \A s \in SUBSET S : Cardinality(s) <= n => f[s] = Folded(g, s, f)
           N == {n \in Nat : \E f : f = [s \in SUBSET S |-> f[s]] /\ Upto(n, f)}
<1>1. 0 \in N
  <2> DEFINE f == [s \in SUBSET S |-> 0]
  <2>1. ASSUME NEW s \in SUBSET S, Cardinality(s) <= 0 PROVE f[s] = Folded(g, s, f)
    <3>1. IsFiniteSet(s) /\ Cardinality(s) \in Nat
      BY FS_Subset, FS_CardinalityType
    <3>2. s = {}
      BY <2>1, <3>1, FS_EmptySet
    <3> QED BY <3>2 DEF Folded
  <2>2. f = [s \in SUBSET S |-> f[s]]
    OBVIOUS
  <2> HIDE DEF f
  <2> QED BY <2>1, <2>2
<1>2. ASSUME NEW n \in Nat, n \in N PROVE n + 1 \in N
  <2>1. PICK f : Upto(n, f)
    BY <1>2
  <2> DEFINE h == [s \in SUBSET S |-> Folded(g, s, f)]
  <2>2. ASSUME NEW s \in SUBSET S, Cardinality(s) <= n + 1 PROVE h[s] = Folded(g, s, h)
    <3>1. CASE s = {}
      BY <3>1 DEF Folded
    <3>2. CASE s # {}
      <4> DEFINE r == s \ {First(s)}
      <4>1. r \in SUBSET S /\ Cardinality(r) <= n
        BY <2>2, <3>2, Less, FirstIn
      <4>2. h[r] = f[r]
        BY <2>1, <4>1
      <4>3. h[s] = Folded(g, s, f)
        OBVIOUS
      <4> HIDE DEF h
      <4> QED BY <3>2, <4>2, <4>3 DEF Folded
    <3> QED BY <3>1, <3>2
  <2>3. h = [s \in SUBSET S |-> h[s]]
    OBVIOUS
  <2> HIDE DEF h
  <2>4. Upto(n + 1, h)
    BY <2>2
  <2> HIDE DEF Upto
  <2> QED BY <2>3, <2>4
<1> HIDE DEF N
<1>3. \A n \in Nat : n \in N
  BY <1>1, <1>2, Induction
<1>4. Cardinality(S) \in Nat
  BY FS_CardinalityType
<1>5. PICK f : f = [s \in SUBSET S |-> f[s]] /\ Upto(Cardinality(S), f)
  BY <1>3, <1>4 DEF N
<1>6. ASSUME NEW s \in SUBSET S PROVE f[s] = Folded(g, s, f)
  <2>1. Cardinality(s) <= Cardinality(S)
    BY FS_Subset
  <2> QED BY <1>5, <2>1
<1>7. f = [s \in SUBSET S |-> Folded(g, s, f)]
  BY <1>5, <1>6
<1> QED BY <1>7 DEF IsFold

LEMMA SumIsFold ==
  ASSUME NEW S, IsFiniteSet(S), NEW g
  PROVE  \E f : IsFold(g, S, f) /\ Sum(g, S) = f[S]
<1> DEFINE F(f) == [s \in SUBSET S |-> IF s = {} THEN 0
                                       ELSE g[First(s)] + f[s \ {First(s)}]]
           h == CHOOSE f : f = F(f)
<1>1. Sum(g, S) = h[S]
  BY DEF Sum, MapThenSumSet, MapThenFoldSet, First
<1>2. \A f : IsFold(g, S, f) <=> f = F(f)
  BY DEF IsFold, Folded
<1> HIDE DEF F
<1>3. \E f : f = F(f)
  BY <1>2, FoldExists
<1>4. h = F(h)
  BY <1>3
<1> HIDE DEF h
<1> QED BY <1>1, <1>2, <1>4

(* On integers: the function of a fold, with any element taken first.      *)
IntsOn(g, S) == \A s \in S : g[s] \in Int
Unfolds(g, S, f) ==
  /\ f[{}] = 0
  /\ \A s \in SUBSET S : f[s] \in Int
  /\ \A s \in SUBSET S : \A x \in s : f[s] = g[x] + f[s \ {x}]

LEMMA FoldUnfolds ==
  ASSUME NEW S, IsFiniteSet(S), NEW g, IntsOn(g, S), NEW f, IsFold(g, S, f)
  PROVE  Unfolds(g, S, f)
<1> USE DEF IntsOn
<1>0. \A s \in SUBSET S : f[s] = Folded(g, s, f)
  <2>1. f = [s \in SUBSET S |-> Folded(g, s, f)]
    BY DEF IsFold
  <2> QED BY <2>1
<1>1. f[{}] = 0
  BY <1>0 DEF Folded
<1>2. \A s \in SUBSET S : s # {} => f[s] = g[First(s)] + f[s \ {First(s)}]
  BY <1>0 DEF Folded
<1> DEFINE I == {n \in Nat : \A s \in SUBSET S : Cardinality(s) = n => f[s] \in Int}
<1>3. 0 \in I
  <2>1. ASSUME NEW s \in SUBSET S, Cardinality(s) = 0 PROVE f[s] \in Int
    <3>1. s = {}
      BY <2>1, FS_Subset, FS_EmptySet
    <3> QED BY <1>1, <3>1
  <2> QED BY <2>1
<1>4. ASSUME NEW n \in Nat, n \in I PROVE n + 1 \in I
  <2>1. ASSUME NEW s \in SUBSET S, Cardinality(s) = n + 1 PROVE f[s] \in Int
    <3>0. Cardinality({}) = 0 /\ n + 1 # 0
      BY FS_EmptySet
    <3>1. s # {}
      BY <2>1, <3>0
    <3>2. First(s) \in s /\ First(s) \in S
      BY <3>1, FirstIn
    <3>3. s \ {First(s)} \in SUBSET S /\ Cardinality(s \ {First(s)}) = n
      BY <2>1, <3>2, Less
    <3>4. f[s \ {First(s)}] \in Int
      BY <1>4, <3>3
    <3> QED BY <1>2, <3>1, <3>2, <3>4
  <2> QED BY <2>1
<1> HIDE DEF I
<1>5. ASSUME NEW s \in SUBSET S PROVE f[s] \in Int
  <2>1. Cardinality(s) \in Nat /\ \A n \in Nat : n \in I
    BY <1>3, <1>4, Induction, FS_Subset, FS_CardinalityType
  <2> QED BY <2>1 DEF I
<1> DEFINE Q(s) == \A x \in s : f[s] = g[x] + f[s \ {x}]
           N == {n \in Nat : \A s \in SUBSET S : Cardinality(s) = n => Q(s)}
<1>6. 0 \in N
  <2>1. ASSUME NEW s \in SUBSET S, Cardinality(s) = 0 PROVE Q(s)
    <3>1. s = {}
      BY <2>1, FS_Subset, FS_EmptySet
    <3> QED BY <3>1
  <2> QED BY <2>1
<1>7. ASSUME NEW n \in Nat, n \in N PROVE n + 1 \in N
  <2>0. \A s \in SUBSET S : Cardinality(s) = n => Q(s)
    BY <1>7
  <2>1. ASSUME NEW s \in SUBSET S, Cardinality(s) = n + 1, NEW x \in s
        PROVE  f[s] = g[x] + f[s \ {x}]
    <3>1. s # {}
      OBVIOUS
    <3>2. PICK y \in s : f[s] = g[y] + f[s \ {y}]
      BY <1>2, <3>1, FirstIn
    <3>3. CASE x # y
      <4>1. x \in s \ {y} /\ y \in s \ {x} /\ x \in S /\ y \in S
        BY <3>3
      <4>2. /\ s \ {y} \in SUBSET S /\ Cardinality(s \ {y}) = n
            /\ s \ {x} \in SUBSET S /\ Cardinality(s \ {x}) = n
        BY <2>1, Less
      <4>3. f[s \ {y}] = g[x] + f[(s \ {y}) \ {x}]
        BY <2>0, <4>1, <4>2
      <4>4. f[s \ {x}] = g[y] + f[(s \ {x}) \ {y}]
        BY <2>0, <4>1, <4>2
      <4>5. (s \ {x}) \ {y} = (s \ {y}) \ {x}
        OBVIOUS
      <4>6. PICK u \in Int, a \in Int, b \in Int :
              u = f[(s \ {y}) \ {x}] /\ a = g[x] /\ b = g[y]
        BY <1>5, <4>1
      <4>7. f[s \ {y}] = a + u /\ f[s \ {x}] = b + u
        BY <4>3, <4>4, <4>5, <4>6
      <4>8. f[s] = b + (a + u)
        BY <3>2, <4>6, <4>7
      <4>9. b + (a + u) = a + (b + u)
        BY <4>6
      <4> QED BY <4>6, <4>7, <4>8, <4>9
    <3> QED BY <3>2, <3>3
  <2> HIDE DEF Q
  <2>2. \A s \in SUBSET S : Cardinality(s) = n + 1 => Q(s)
    BY <2>1 DEF Q
  <2> QED BY <2>2
<1> HIDE DEF N
<1>8. ASSUME NEW s \in SUBSET S PROVE Q(s)
  <2>1. Cardinality(s) \in Nat /\ \A n \in Nat : n \in N
    BY <1>6, <1>7, Induction, FS_Subset, FS_CardinalityType
  <2> HIDE DEF Q
  <2> QED BY <2>1 DEF N
<1> QED BY <1>1, <1>5, <1>8 DEF Unfolds

(* A fold over a subset is the fold over the whole, seen there.            *)
LEMMA FoldOnSubset ==
  ASSUME NEW S, IsFiniteSet(S), NEW g, IntsOn(g, S), NEW f, Unfolds(g, S, f),
         NEW T \in SUBSET S, NEW h, Unfolds(g, T, h)
  PROVE  f[T] = h[T]
<1> DEFINE P == {s \in SUBSET T : f[s] = h[s]}
<1>1. IsFiniteSet(T)
  BY FS_Subset
<1>2. {} \in P
  BY DEF Unfolds
<1>3. ASSUME NEW s \in SUBSET T, NEW x \in T \ s, s \in P PROVE s \cup {x} \in P
  <2> DEFINE t == s \cup {x}
  <2>1. t \in SUBSET T /\ t \in SUBSET S /\ x \in t /\ t \ {x} = s
    OBVIOUS
  <2> HIDE DEF t
  <2>2. f[t] = g[x] + f[t \ {x}]
    BY <2>1 DEF Unfolds
  <2>3. h[t] = g[x] + h[t \ {x}]
    BY <2>1 DEF Unfolds
  <2>4. f[t] = h[t]
    BY <1>3, <2>1, <2>2, <2>3
  <2> QED BY <2>1, <2>4 DEF t
<1> HIDE DEF P
<1>4. T \in P
  BY <1>1, <1>2, <1>3, SetInduction
<1> QED BY <1>4 DEF P

(* The sum over nothing, and over one element more.                        *)
LEMMA SumEmpty == \A g : Sum(g, {}) = 0
<1> SUFFICES ASSUME NEW g PROVE Sum(g, {}) = 0
  OBVIOUS
<1>1. IsFiniteSet({}) /\ IntsOn(g, {})
  BY FS_EmptySet DEF IntsOn
<1>2. PICK f : IsFold(g, {}, f) /\ Sum(g, {}) = f[{}]
  BY <1>1, SumIsFold
<1> QED BY <1>1, <1>2, FoldUnfolds DEF Unfolds

LEMMA SumType ==
  ASSUME NEW S, IsFiniteSet(S), NEW g, IntsOn(g, S)
  PROVE  Sum(g, S) \in Int
<1>1. PICK f : IsFold(g, S, f) /\ Sum(g, S) = f[S]
  BY SumIsFold
<1> QED BY <1>1, FoldUnfolds DEF Unfolds

LEMMA SumMore ==
  ASSUME NEW S, IsFiniteSet(S), NEW g, IntsOn(g, S), NEW T \in SUBSET S, NEW x \in S \ T
  PROVE  Sum(g, T \cup {x}) = Sum(g, T) + g[x]
<1> DEFINE V == T \cup {x}
<1>1. V \in SUBSET S /\ T \in SUBSET V /\ x \in V /\ V \ {x} = T
  OBVIOUS
<1> HIDE DEF V
<1>2. IsFiniteSet(V) /\ IsFiniteSet(T) /\ IntsOn(g, V) /\ IntsOn(g, T) /\ g[x] \in Int
  BY <1>1, FS_Subset DEF IntsOn
<1>3. PICK f : IsFold(g, V, f) /\ Sum(g, V) = f[V]
  BY <1>2, SumIsFold
<1>4. PICK h : IsFold(g, T, h) /\ Sum(g, T) = h[T]
  BY <1>2, SumIsFold
<1>5. Unfolds(g, V, f) /\ Unfolds(g, T, h)
  BY <1>2, <1>3, <1>4, FoldUnfolds
<1>6. f[T] = h[T]
  BY <1>1, <1>2, <1>5, FoldOnSubset
<1>7. f[V] = g[x] + f[T] /\ f[T] \in Int
  BY <1>1, <1>5 DEF Unfolds
<1> QED BY <1>2, <1>3, <1>4, <1>6, <1>7 DEF V

(* Sums over two parts, of bounded terms, and of sums of terms.            *)
LEMMA SumParts ==
  ASSUME NEW S, IsFiniteSet(S), NEW g, IntsOn(g, S), NEW T \in SUBSET S,
         NEW U \in SUBSET (S \ T)
  PROVE  Sum(g, T \cup U) = Sum(g, T) + Sum(g, U)
<1> DEFINE P == {s \in SUBSET U : Sum(g, T \cup s) = Sum(g, T) + Sum(g, s)}
<1>1. IsFiniteSet(U) /\ IsFiniteSet(T) /\ IntsOn(g, T)
  BY FS_Subset DEF IntsOn
<1>2. {} \in P
  <2>1. Sum(g, T) \in Int /\ T \cup {} = T
    BY <1>1, SumType
  <2> QED BY <2>1, SumEmpty
<1>3. ASSUME NEW s \in SUBSET U, NEW x \in U \ s, s \in P PROVE s \cup {x} \in P
  <2>1. /\ s \in SUBSET S /\ x \in S \ s /\ T \cup s \in SUBSET S /\ x \in S \ (T \cup s)
        /\ s \cup {x} \in SUBSET U /\ g[x] \in Int
    BY DEF IntsOn
  <2>2. Sum(g, s \cup {x}) = Sum(g, s) + g[x]
    BY <2>1, SumMore
  <2> DEFINE V == T \cup s
  <2>3. Sum(g, V \cup {x}) = Sum(g, V) + g[x]
    <3>1. V \in SUBSET S /\ x \in S \ V
      BY <2>1
    <3> HIDE DEF V
    <3> QED BY <3>1, SumMore
  <2>4. Sum(g, T) \in Int /\ Sum(g, s) \in Int
    <3>1. IsFiniteSet(s) /\ IntsOn(g, s)
      BY <2>1, FS_Subset DEF IntsOn
    <3> QED BY <1>1, <3>1, SumType
  <2>5. V \cup {x} = T \cup (s \cup {x})
    OBVIOUS
  <2>6. Sum(g, T \cup s) = Sum(g, T) + Sum(g, s)
    BY <1>3
  <2> HIDE DEF V
  <2>7. Sum(g, T \cup (s \cup {x})) = Sum(g, V) + g[x]
    BY <2>3, <2>5
  <2>8. Sum(g, V) = Sum(g, T) + Sum(g, s)
    BY <2>6 DEF V
  <2>9. Sum(g, V) + g[x] = Sum(g, T) + (Sum(g, s) + g[x])
    BY <2>1, <2>4, <2>8
  <2>10. Sum(g, T \cup (s \cup {x})) = Sum(g, T) + Sum(g, s \cup {x})
    BY <2>2, <2>7, <2>9
  <2> QED BY <2>1, <2>10
<1> HIDE DEF P
<1>4. U \in P
  BY <1>1, <1>2, <1>3, SetInduction
<1> QED BY <1>4 DEF P

LEMMA SumAtMost ==
  ASSUME NEW S, IsFiniteSet(S), NEW g, IntsOn(g, S), NEW c \in Int,
         \A s \in S : g[s] <= c
  PROVE  Sum(g, S) <= c * Cardinality(S)
<1> DEFINE P == {s \in SUBSET S : Sum(g, s) <= c * Cardinality(s)}
<1>1. {} \in P
  BY SumEmpty, FS_EmptySet
<1>2. ASSUME NEW s \in SUBSET S, NEW x \in S \ s, s \in P PROVE s \cup {x} \in P
  <2>1. IsFiniteSet(s) /\ IntsOn(g, s) /\ s \cup {x} \in SUBSET S
    BY FS_Subset DEF IntsOn
  <2>2. Cardinality(s \cup {x}) = Cardinality(s) + 1
    BY <2>1, FS_AddElement
  <2>3. Sum(g, s \cup {x}) = Sum(g, s) + g[x]
    BY SumMore
  <2>4. PICK k \in Nat, a \in Int, b \in Int :
          k = Cardinality(s) /\ a = Sum(g, s) /\ b = g[x]
    BY <2>1, FS_CardinalityType, SumType DEF IntsOn
  <2>5. a <= c * k /\ b <= c
    BY <1>2, <2>4
  <2>6. c * (k + 1) = c * k + c
    BY <2>4
  <2>7. a + b <= c * (k + 1)
    <3>1. c * k \in Int
      BY <2>4
    <3> QED BY <2>4, <2>5, <2>6, <3>1
  <2> QED BY <2>1, <2>2, <2>3, <2>4, <2>7
<1> HIDE DEF P
<1>3. S \in P
  BY <1>1, <1>2, SetInduction
<1> QED BY <1>3 DEF P

LEMMA SumNotNegative ==
  ASSUME NEW S, IsFiniteSet(S), NEW g, \A s \in S : g[s] \in Nat
  PROVE  Sum(g, S) \in Nat
<1> DEFINE P == {s \in SUBSET S : Sum(g, s) \in Nat}
<1>0. IntsOn(g, S)
  BY DEF IntsOn
<1>1. {} \in P
  BY SumEmpty
<1>2. ASSUME NEW s \in SUBSET S, NEW x \in S \ s, s \in P PROVE s \cup {x} \in P
  <2>1. Sum(g, s \cup {x}) = Sum(g, s) + g[x]
    BY <1>0, SumMore
  <2>2. Sum(g, s) \in Nat /\ g[x] \in Nat
    BY <1>2
  <2> QED BY <2>1, <2>2
<1> HIDE DEF P
<1>3. S \in P
  BY <1>1, <1>2, SetInduction
<1> QED BY <1>3 DEF P

(* A part of a sum of natural numbers is at most the sum.                  *)
LEMMA SumOfPart ==
  ASSUME NEW S, IsFiniteSet(S), NEW g, \A s \in S : g[s] \in Nat, NEW T \in SUBSET S
  PROVE  Sum(g, T) \in Nat /\ Sum(g, S) \in Nat /\ Sum(g, T) <= Sum(g, S)
<1> DEFINE U == S \ T
<1>1. IntsOn(g, S) /\ IsFiniteSet(T) /\ IsFiniteSet(U)
  BY FS_Subset DEF IntsOn
<1>2. U \in SUBSET (S \ T) /\ T \cup U = S /\ \A s \in U : g[s] \in Nat
  OBVIOUS
<1> HIDE DEF U
<1>3. Sum(g, T \cup U) = Sum(g, T) + Sum(g, U)
  BY <1>1, <1>2, SumParts
<1>4. Sum(g, T) \in Nat /\ Sum(g, U) \in Nat
  BY <1>1, <1>2, SumNotNegative
<1>5. Sum(g, S) = Sum(g, T) + Sum(g, U)
  BY <1>2, <1>3, Zenon
<1> QED BY <1>4, <1>5

(* A sum of multiples of c is one.                                         *)
Multiple(c, n) == \E k \in Nat : n = c * k
LEMMA SumOfMultiples ==
  ASSUME NEW S, IsFiniteSet(S), NEW g, NEW c \in Nat, \A s \in S : Multiple(c, g[s])
  PROVE  Multiple(c, Sum(g, S))
<1> DEFINE P == {s \in SUBSET S : Multiple(c, Sum(g, s))}
<1>0. IntsOn(g, S)
  BY DEF IntsOn, Multiple
<1>1. {} \in P
  <2>1. 0 = c * 0
    OBVIOUS
  <2> QED BY <2>1, SumEmpty DEF Multiple
<1>2. ASSUME NEW s \in SUBSET S, NEW x \in S \ s, s \in P PROVE s \cup {x} \in P
  <2>1. Sum(g, s \cup {x}) = Sum(g, s) + g[x]
    BY <1>0, SumMore
  <2>2. PICK k \in Nat : Sum(g, s) = c * k
    BY <1>2 DEF Multiple
  <2>3. PICK m \in Nat : g[x] = c * m
    BY DEF Multiple
  <2>4. c * k + c * m = c * (k + m) /\ k + m \in Nat
    OBVIOUS
  <2> QED BY <2>1, <2>2, <2>3, <2>4 DEF Multiple
<1> HIDE DEF P
<1>3. S \in P
  BY <1>1, <1>2, SetInduction
<1> QED BY <1>3 DEF P

LEMMA SumPlus ==
  ASSUME NEW S, IsFiniteSet(S), NEW g, NEW h, IntsOn(g, S), IntsOn(h, S), NEW k,
         \A s \in S : k[s] = g[s] + h[s]
  PROVE  Sum(k, S) = Sum(g, S) + Sum(h, S)
<1> DEFINE P == {s \in SUBSET S : Sum(k, s) = Sum(g, s) + Sum(h, s)}
<1>0. IntsOn(k, S)
  BY DEF IntsOn
<1>1. {} \in P
  BY SumEmpty
<1>2. ASSUME NEW s \in SUBSET S, NEW x \in S \ s, s \in P PROVE s \cup {x} \in P
  <2>1. IsFiniteSet(s) /\ IntsOn(g, s) /\ IntsOn(h, s) /\ s \cup {x} \in SUBSET S
    BY FS_Subset DEF IntsOn
  <2>2. Sum(g, s \cup {x}) = Sum(g, s) + g[x]
    BY SumMore
  <2>3. Sum(h, s \cup {x}) = Sum(h, s) + h[x]
    BY SumMore
  <2>4. Sum(k, s \cup {x}) = Sum(k, s) + k[x]
    BY <1>0, SumMore
  <2>5. Sum(g, s) \in Int /\ Sum(h, s) \in Int /\ g[x] \in Int /\ h[x] \in Int
    BY <2>1, SumType DEF IntsOn
  <2>6. Sum(k, s) = Sum(g, s) + Sum(h, s) /\ k[x] = g[x] + h[x]
    BY <1>2
  <2> QED BY <2>1, <2>2, <2>3, <2>4, <2>5, <2>6
<1> HIDE DEF P
<1>3. S \in P
  BY <1>1, <1>2, SetInduction
<1> QED BY <1>3 DEF P

(* A finite set that is not empty has an element of the largest value.     *)
LEMMA Largest ==
  ASSUME NEW S, IsFiniteSet(S), S # {}, NEW g, IntsOn(g, S)
  PROVE  \E x \in S : \A y \in S : g[y] <= g[x]
<1> DEFINE P == {s \in SUBSET S : s = {} \/ \E x \in s : \A y \in s : g[y] <= g[x]}
<1>1. {} \in P
  OBVIOUS
<1>2. ASSUME NEW s \in SUBSET S, NEW x \in S \ s, s \in P PROVE s \cup {x} \in P
  <2>0. \A y \in S : g[y] \in Int
    BY DEF IntsOn
  <2>1. CASE s = {}
    <3>1. \A y \in s \cup {x} : g[y] <= g[x]
      BY <2>0, <2>1
    <3> QED BY <3>1
  <2>2. CASE s # {}
    <3>1. PICK z \in s : \A y \in s : g[y] <= g[z]
      BY <1>2, <2>2
    <3>2. CASE g[x] <= g[z]
      <4>1. \A y \in s \cup {x} : g[y] <= g[z]
        BY <3>1, <3>2
      <4> QED BY <4>1
    <3>3. CASE ~(g[x] <= g[z])
      <4>1. \A y \in s \cup {x} : g[y] <= g[x]
        BY <2>0, <3>1, <3>3
      <4> QED BY <4>1
    <3> QED BY <3>2, <3>3
  <2> QED BY <2>1, <2>2
<1> HIDE DEF P
<1>3. S \in P
  BY <1>1, <1>2, SetInduction
<1> QED BY <1>3 DEF P
=============================================================================
