------------------------ MODULE UpstreamRound_proofs ------------------------
(***************************************************************************)
(* Proofs about UpstreamRound, for any number of servers, any weights, any *)
(* max_fails and any requests: effective_weight stays between 0 and        *)
(* weight, and the round-robin is smooth.                                  *)
(***************************************************************************)
EXTENDS UpstreamRound, SetSums

-----------------------------------------------------------------------------
(***************************************************************************)
(* One selection, for any credits cw and weights e on a finite set S, a    *)
(* set E of candidates and the chosen b.                                   *)
(***************************************************************************)
Moved(S, cw, e, E, b, new) ==
  \A s \in S : new[s] = IF s \notin E THEN cw[s]
                        ELSE (cw[s] + e[s]) - (IF s = b THEN Sum(e, E) ELSE 0)

(* What a group gains: the weights of its candidates; it pays the total if *)
(* the chosen one belongs to it.                                           *)
LEMMA GainWithout ==
  ASSUME NEW S, IsFiniteSet(S), NEW cw, IntsOn(cw, S), NEW e, IntsOn(e, S),
         NEW E \in SUBSET S, NEW b \in E, NEW new, Moved(S, cw, e, E, b, new),
         NEW T \in SUBSET S, b \notin T
  PROVE  Sum(new, T) = Sum(cw, T) + Sum(e, T \cap E)
<1> DEFINE P == {s \in SUBSET T : Sum(new, s) = Sum(cw, s) + Sum(e, s \cap E)}
<1>0. ASSUME NEW s \in T PROVE new[s] = cw[s] + (IF s \in E THEN e[s] ELSE 0)
  <2>1. new[s] = IF s \notin E THEN cw[s] ELSE (cw[s] + e[s]) - 0
    BY DEF Moved
  <2>2. cw[s] \in Int /\ e[s] \in Int
    BY DEF IntsOn
  <2> QED BY <2>1, <2>2
<1>1. IsFiniteSet(T) /\ IntsOn(cw, T) /\ IntsOn(e, T)
  BY FS_Subset DEF IntsOn
<1>2. IntsOn(new, T)
  BY <1>0, <1>1 DEF IntsOn
<1>3. {} \in P
  <2>1. {} \cap E = {}
    OBVIOUS
  <2> QED BY <2>1, SumEmpty
<1>4. ASSUME NEW s \in SUBSET T, NEW x \in T \ s, s \in P PROVE s \cup {x} \in P
  <2> DEFINE C == s \cap E
  <2>1. Sum(new, s \cup {x}) = Sum(new, s) + new[x]
    BY <1>1, <1>2, SumMore
  <2>2. Sum(cw, s \cup {x}) = Sum(cw, s) + cw[x]
    BY <1>1, SumMore
  <2>3. Sum(e, (s \cup {x}) \cap E) = Sum(e, C) + (IF x \in E THEN e[x] ELSE 0)
    <3>1. C \in SUBSET T /\ x \in T \ C
      OBVIOUS
    <3>2. IsFiniteSet(C) /\ IntsOn(e, C)
      BY <1>1, <3>1, FS_Subset DEF IntsOn
    <3>3. CASE x \in E
      <4>1. (s \cup {x}) \cap E = C \cup {x}
        BY <3>3
      <4> HIDE DEF C
      <4>2. Sum(e, C \cup {x}) = Sum(e, C) + e[x]
        BY <1>1, <3>1, SumMore
      <4> QED BY <3>3, <4>1, <4>2
    <3>4. CASE x \notin E
      <4>1. (s \cup {x}) \cap E = C
        BY <3>4
      <4> HIDE DEF C
      <4>2. Sum(e, C) \in Int
        BY <3>2, SumType
      <4>3. Sum(e, C) = Sum(e, C) + (IF x \in E THEN e[x] ELSE 0)
        BY <3>4, <4>2
      <4>4. Sum(e, (s \cup {x}) \cap E) = Sum(e, C)
        BY <4>1
      <4> QED BY <4>3, <4>4
    <3> QED BY <3>3, <3>4
  <2>4. Sum(new, s) = Sum(cw, s) + Sum(e, C)
    BY <1>4
  <2>5. new[x] = cw[x] + (IF x \in E THEN e[x] ELSE 0)
    BY <1>0
  <2>6. C \in SUBSET T /\ s \cup {x} \in SUBSET T
    OBVIOUS
  <2> HIDE DEF C
  <2>7. PICK p \in Int, q \in Int, y \in Int, z \in Int :
          p = Sum(cw, s) /\ q = Sum(e, C) /\ y = cw[x] /\ z = IF x \in E THEN e[x] ELSE 0
    <3>1. IsFiniteSet(s) /\ IntsOn(cw, s) /\ IsFiniteSet(C) /\ IntsOn(e, C)
      BY <1>1, <2>6, FS_Subset DEF IntsOn
    <3>2. cw[x] \in Int /\ e[x] \in Int
      BY <1>1 DEF IntsOn
    <3> QED BY <3>1, <3>2, SumType
  <2>8. Sum(new, s \cup {x}) = (p + q) + (y + z)
    BY <2>1, <2>4, <2>5, <2>7
  <2>9. Sum(cw, s \cup {x}) + Sum(e, (s \cup {x}) \cap E) = (p + y) + (q + z)
    BY <2>2, <2>3, <2>7
  <2>10. Sum(new, s \cup {x}) = Sum(cw, s \cup {x}) + Sum(e, (s \cup {x}) \cap E)
    BY <2>7, <2>8, <2>9
  <2> QED BY <2>6, <2>10
<1> HIDE DEF P
<1>5. T \in P
  BY <1>1, <1>3, <1>4, SetInduction
<1> QED BY <1>5 DEF P

LEMMA GainWith ==
  ASSUME NEW S, IsFiniteSet(S), NEW cw, IntsOn(cw, S), NEW e, IntsOn(e, S),
         NEW E \in SUBSET S, NEW b \in E, NEW new, Moved(S, cw, e, E, b, new),
         NEW T \in SUBSET S, b \in T
  PROVE  Sum(new, T) = Sum(cw, T) - Sum(e, E \ T)
<1> DEFINE R == T \ {b}
           C == R \cap E
           O == E \ T
<1>0. IsFiniteSet(T) /\ IsFiniteSet(E) /\ IsFiniteSet(R) /\ IsFiniteSet(C) /\ IsFiniteSet(O)
  BY FS_Subset
<1>1. /\ R \in SUBSET S /\ b \in S \ R /\ R \cup {b} = T /\ b \notin R
      /\ C \in SUBSET S /\ b \in S \ C /\ O \in SUBSET (S \ (C \cup {b}))
      /\ C \cup {b} \in SUBSET S /\ (C \cup {b}) \cup O = E /\ O \in SUBSET S
  OBVIOUS
<1> HIDE DEF C, O
<1>2. Sum(new, R) = Sum(cw, R) + Sum(e, C)
  <2> HIDE DEF R
  <2> QED BY <1>1, GainWithout DEF C
<1>3. IntsOn(cw, R) /\ IntsOn(e, C) /\ IntsOn(e, O) /\ IntsOn(e, E)
  BY <1>1 DEF IntsOn
<1>4. cw[b] \in Int /\ e[b] \in Int /\ Sum(e, E) \in Int /\ Sum(cw, R) \in Int
      /\ Sum(e, C) \in Int /\ Sum(e, O) \in Int
  <2>1. cw[b] \in Int /\ e[b] \in Int
    BY <1>1 DEF IntsOn
  <2> HIDE DEF R
  <2> QED BY <2>1, <1>0, <1>3, SumType
<1>5. new[b] = (cw[b] + e[b]) - Sum(e, E)
  BY <1>1 DEF Moved
<1>6. IntsOn(new, T)
  <2>1. ASSUME NEW s \in T PROVE new[s] \in Int
    <3>1. new[s] = IF s \notin E THEN cw[s]
                   ELSE (cw[s] + e[s]) - (IF s = b THEN Sum(e, E) ELSE 0)
      BY DEF Moved
    <3>2. cw[s] \in Int /\ e[s] \in Int
      BY DEF IntsOn
    <3> QED BY <1>4, <3>1, <3>2
  <2> QED BY <2>1 DEF IntsOn
<1>7. Sum(new, T) = Sum(new, R) + new[b]
  <2>1. R \in SUBSET T /\ b \in T \ R
    OBVIOUS
  <2> HIDE DEF R
  <2> QED BY <1>0, <1>1, <1>6, <2>1, SumMore
<1> HIDE DEF R
<1>8. Sum(cw, T) = Sum(cw, R) + cw[b]
  BY <1>1, SumMore
<1>9. Sum(e, C \cup {b}) = Sum(e, C) + e[b]
  BY <1>1, SumMore
<1>10. Sum(e, E) = Sum(e, C \cup {b}) + Sum(e, O)
  <2> DEFINE K == C \cup {b}
  <2>1. K \in SUBSET S /\ O \in SUBSET (S \ K) /\ K \cup O = E
    BY <1>1
  <2> HIDE DEF K
  <2>2. Sum(e, K \cup O) = Sum(e, K) + Sum(e, O)
    BY <2>1, SumParts
  <2> QED BY <2>1, <2>2 DEF K
<1>11. PICK p \in Int, q \in Int, o \in Int, y \in Int, z \in Int :
         p = Sum(cw, R) /\ q = Sum(e, C) /\ o = Sum(e, O) /\ y = cw[b] /\ z = e[b]
  BY <1>4
<1>12. Sum(e, E) = (q + z) + o
  BY <1>9, <1>10, <1>11
<1>13. Sum(new, T) = (p + q) + ((y + z) - ((q + z) + o))
  BY <1>2, <1>5, <1>7, <1>11, <1>12
<1>14. Sum(cw, T) - Sum(e, O) = (p + y) - o
  BY <1>8, <1>11
<1>15. Sum(new, T) = Sum(cw, T) - Sum(e, O)
  BY <1>11, <1>13, <1>14
<1> QED BY <1>15 DEF O

-----------------------------------------------------------------------------
(***************************************************************************)
(* The bound: a group of j of the n servers holds at most M * j * (n - j). *)
(***************************************************************************)
Bounded(S, cw, M) ==
  \A T \in SUBSET S :
    Sum(cw, T) <= M * (Cardinality(T) * (Cardinality(S) - Cardinality(T)))

LEMMA Times ==
  ASSUME NEW a \in Nat, NEW x \in Int, NEW y \in Int, x <= y
  PROVE  a * x <= a * y
<1>1. a * (y - x) >= 0
  <2>1. PICK d \in Nat : d = y - x
    OBVIOUS
  <2>2. a * d \in Nat
    OBVIOUS
  <2> QED BY <2>1, <2>2
<1>2. a * (y - x) = a * y - a * x
  OBVIOUS
<1>3. a * x \in Int /\ a * y \in Int
  OBVIOUS
<1> QED BY <1>1, <1>2, <1>3

(* The numbers of a selection of a server outside the group: the group has *)
(* j servers of which u are candidates; these hold C and gain F, the       *)
(* others hold A; the chosen one holds B - A - C and gains g.              *)
LEMMA SelectionArithmetic ==
  ASSUME NEW M \in Nat, NEW n \in Nat, NEW j \in Nat, NEW u \in Nat,
         u <= j, j + 1 <= n,
         NEW A \in Int, NEW B \in Int, NEW C \in Int, NEW F \in Int, NEW g \in Int,
         A <= M * ((j - u) * (n - (j - u))),
         B <= M * ((j + 1) * (n - (j + 1))),
         C + F <= (B - A - C + g) * u,
         F <= M * u, g <= M
  PROVE  A + C + F <= M * (j * (n - j))
<1> DEFINE a == (j - u) * (n - (j - u))
           b == (j + 1) * (n - (j + 1))
           y == j * (n - j)
           X == A + C + F
<1>0. a \in Int /\ b \in Int /\ y \in Int /\ X \in Int
      /\ M * a \in Int /\ M * b \in Int /\ M * y \in Int
  OBVIOUS
<1>1. a + u * b + u * (u + 1) = (u + 1) * y
  OBVIOUS
<1>2. (u + 1) * X <= A + u * B + u * (F + g)
  <2>1. (B - A - C + g) * u = u * B - u * A - u * C + u * g
    OBVIOUS
  <2>2. (u + 1) * X = A + (C + F) + u * A + u * C + u * F
    OBVIOUS
  <2>3. u * (F + g) = u * F + u * g
    OBVIOUS
  <2>4. u * B \in Int /\ u * A \in Int /\ u * C \in Int /\ u * F \in Int /\ u * g \in Int
    OBVIOUS
  <2> HIDE DEF X
  <2> QED BY <2>1, <2>2, <2>3, <2>4
<1>3. u * B <= u * (M * b)
  <2> DEFINE c == M * b
  <2>1. c \in Int /\ B <= c
    BY <1>0
  <2> HIDE DEF c
  <2>2. u * B <= u * c
    BY <2>1, Times
  <2> QED BY <2>2 DEF c
<1>4. u * (F + g) <= u * (M * u + M)
  <2>1. F + g \in Int /\ M * u + M \in Int /\ F + g <= M * u + M
    OBVIOUS
  <2> QED BY <2>1, Times
<1>5. M * a + u * (M * b) + u * (M * u + M) = M * (a + u * b + u * (u + 1))
  <2> HIDE DEF a, b
  <2> QED BY <1>0
<1>6. M * ((u + 1) * y) = (u + 1) * (M * y)
  <2> HIDE DEF y
  <2> QED BY <1>0
<1>7. (u + 1) * X <= (u + 1) * (M * y)
  <2>1. /\ u * B \in Int /\ u * (F + g) \in Int /\ u * (M * b) \in Int
        /\ u * (M * u + M) \in Int /\ (u + 1) * X \in Int /\ (u + 1) * (M * y) \in Int
    <3> HIDE DEF b, y, X
    <3> QED BY <1>0
  <2>2. A <= M * a
    OBVIOUS
  <2>3. M * a + u * (M * b) + u * (M * u + M) = (u + 1) * (M * y)
    BY <1>1, <1>5, <1>6
  <2> HIDE DEF a, b, y, X
  <2> QED BY <1>0, <1>2, <1>3, <1>4, <2>1, <2>2, <2>3
<1>8. X <= M * y
  <2> SUFFICES ASSUME M * y + 1 <= X PROVE FALSE
    <3> HIDE DEF y, X
    <3> QED BY <1>0
  <2> HIDE DEF y, X
  <2>1. (u + 1) * (M * y + 1) <= (u + 1) * X
    <3>1. u + 1 \in Nat /\ M * y + 1 \in Int
      BY <1>0
    <3> QED BY <1>0, <3>1, Times
  <2>2. (u + 1) * (M * y + 1) = (u + 1) * (M * y) + (u + 1)
    BY <1>0
  <2>3. (u + 1) * (M * y) \in Int /\ (u + 1) * X \in Int
    BY <1>0
  <2> QED BY <1>7, <2>1, <2>2, <2>3
<1> QED BY <1>8

(* No selection takes a group beyond its bound, whatever the weights are   *)
(* and whichever servers are candidates: the chosen one had the largest    *)
(* raised weight.                                                          *)
LEMMA SelectionBounded ==
  ASSUME NEW S, IsFiniteSet(S), NEW M \in Nat, NEW cw, IntsOn(cw, S), NEW e,
         \A s \in S : e[s] \in 0 .. M, NEW E \in SUBSET S, NEW b \in E,
         \A s \in E : cw[s] + e[s] <= cw[b] + e[b],
         NEW new, Moved(S, cw, e, E, b, new), Bounded(S, cw, M)
  PROVE  Bounded(S, new, M)
<1>0. IntsOn(e, S)
  BY DEF IntsOn
<1> SUFFICES ASSUME NEW T \in SUBSET S
             PROVE  Sum(new, T) <= M * (Cardinality(T) * (Cardinality(S) - Cardinality(T)))
  BY DEF Bounded
<1>1. CASE b \in T
  <2>1. Sum(new, T) = Sum(cw, T) - Sum(e, E \ T)
    BY <1>0, <1>1, GainWith
  <2>2. Sum(e, E \ T) \in Nat
    <3> DEFINE O == E \ T
    <3>1. IsFiniteSet(O) /\ \A s \in O : e[s] \in Nat
      BY FS_Subset
    <3> HIDE DEF O
    <3>2. Sum(e, O) \in Nat
      BY <3>1, SumNotNegative
    <3> QED BY <3>2 DEF O
  <2>3. Sum(cw, T) <= M * (Cardinality(T) * (Cardinality(S) - Cardinality(T)))
    BY DEF Bounded
  <2>4. Sum(cw, T) \in Int /\ Cardinality(T) \in Nat /\ Cardinality(S) \in Nat
    <3>1. IsFiniteSet(T) /\ IntsOn(cw, T)
      BY FS_Subset DEF IntsOn
    <3> QED BY <3>1, SumType, FS_CardinalityType
  <2>5. M * (Cardinality(T) * (Cardinality(S) - Cardinality(T))) \in Int
    BY <2>4
  <2> QED BY <2>1, <2>2, <2>3, <2>4, <2>5
<1>2. CASE b \notin T
  <2> DEFINE U == T \cap E
             R == T \ E
             V == T \cup {b}
             n == Cardinality(S)
             j == Cardinality(T)
             u == Cardinality(U)
  <2>1. /\ IsFiniteSet(T) /\ IsFiniteSet(U) /\ IsFiniteSet(R) /\ IsFiniteSet(V)
        /\ U \in SUBSET S /\ R \in SUBSET S /\ V \in SUBSET S /\ T \in SUBSET S
        /\ U \in SUBSET (S \ R) /\ R \cup U = T /\ U \in SUBSET E /\ U \in SUBSET T
        /\ R = T \ U /\ b \in S /\ b \in S \ T
    BY <1>2, FS_Subset
  <2> HIDE DEF U, R
  <2>2. /\ n \in Nat /\ j \in Nat /\ u \in Nat /\ u <= j
        /\ Cardinality(R) = j - u /\ Cardinality(V) = j + 1 /\ j + 1 <= n
    <3>1. n \in Nat /\ j \in Nat /\ u \in Nat
      BY <2>1, FS_CardinalityType
    <3>2. u <= j
      BY <2>1, FS_Subset
    <3>3. Cardinality(V) = j + 1
      BY <2>1, FS_AddElement
    <3>4. Cardinality(V) <= n
      <4> HIDE DEF V
      <4> QED BY <2>1, FS_Subset
    <3>5. Cardinality(R) = j - u
      <4>1. Cardinality(T \ U) = Cardinality(T) - Cardinality(T \cap U)
        BY <2>1, FS_Difference
      <4>2. T \cap U = U
        BY <2>1
      <4> QED BY <2>1, <4>1, <4>2
    <3> QED BY <3>1, <3>2, <3>3, <3>4, <3>5
  <2>3. Sum(new, T) = Sum(cw, T) + Sum(e, U)
    BY <1>0, <1>2, GainWithout DEF U
  <2>4. Sum(cw, T) = Sum(cw, R) + Sum(cw, U)
    BY <2>1, SumParts
  <2>5. Sum(cw, V) = Sum(cw, T) + cw[b]
    BY <2>1, SumMore
  <2>6. IntsOn(cw, U) /\ IntsOn(e, U) /\ IntsOn(cw, R) /\ IntsOn(cw, T)
    BY <1>0, <2>1 DEF IntsOn
  <2>7. PICK A \in Int, C \in Int, F \in Int, y \in Int, g \in 0 .. M :
          A = Sum(cw, R) /\ C = Sum(cw, U) /\ F = Sum(e, U) /\ y = cw[b] /\ g = e[b]
    <3>1. cw[b] \in Int /\ e[b] \in 0 .. M
      BY <2>1 DEF IntsOn
    <3> QED BY <2>1, <2>6, <3>1, SumType
  <2>8. C + F <= (y + g) * u
    <3> DEFINE r == [s \in U |-> cw[s] + e[s]]
    <3>1. Sum(r, U) = Sum(cw, U) + Sum(e, U)
      <4>1. \A s \in U : r[s] = cw[s] + e[s]
        OBVIOUS
      <4> HIDE DEF r
      <4> QED BY <2>1, <2>6, <4>1, SumPlus
    <3>2. IntsOn(r, U) /\ \A s \in U : r[s] <= y + g
      BY <2>1, <2>6, <2>7 DEF IntsOn
    <3>3. y + g \in Int
      BY <2>7
    <3> HIDE DEF r
    <3>4. Sum(r, U) <= (y + g) * u
      BY <2>1, <3>2, <3>3, SumAtMost
    <3> QED BY <2>7, <3>1, <3>4
  <2>9. F <= M * u
    <3>1. \A s \in U : e[s] <= M
      BY <2>1
    <3> QED BY <2>1, <2>6, <2>7, <3>1, SumAtMost
  <2>10. A <= M * ((j - u) * (n - (j - u)))
    BY <2>1, <2>2, <2>7 DEF Bounded
  <2>11. Sum(cw, V) <= M * ((j + 1) * (n - (j + 1)))
    <3> HIDE DEF V
    <3> QED BY <2>1, <2>2 DEF Bounded
  <2>12. PICK B \in Int : B = Sum(cw, V) /\ y = B - A - C
    <3>1. Sum(cw, V) = (A + C) + y
      BY <2>4, <2>5, <2>7
    <3> HIDE DEF V
    <3>2. Sum(cw, V) \in Int /\ y = Sum(cw, V) - A - C
      BY <2>7, <3>1
    <3> QED BY <3>2
  <2>13. C + F <= (B - A - C + g) * u /\ B <= M * ((j + 1) * (n - (j + 1)))
    BY <2>8, <2>11, <2>12
  <2> HIDE DEF V, n, j, u
  <2>14. g \in Int /\ g <= M
    BY <2>7
  <2>15. A + C + F <= M * (j * (n - j))
    BY <2>2, <2>7, <2>9, <2>10, <2>12, <2>13, <2>14, SelectionArithmetic
  <2>16. Sum(new, T) = A + C + F
    BY <2>3, <2>4, <2>7
  <2>17. Sum(new, T) <= M * (j * (n - j))
    BY <2>15, <2>16
  <2> QED BY <2>17 DEF j, n
<1> QED BY <1>1, <1>2

(* The credits of all servers still add up to what they did.               *)
LEMMA SelectionBalanced ==
  ASSUME NEW S, IsFiniteSet(S), NEW cw, IntsOn(cw, S), NEW e, IntsOn(e, S),
         NEW E \in SUBSET S, NEW b \in E, NEW new, Moved(S, cw, e, E, b, new)
  PROVE  Sum(new, S) = Sum(cw, S)
<1>1. S \in SUBSET S /\ b \in S /\ E \ S = {}
  OBVIOUS
<1>2. Sum(new, S) = Sum(cw, S) - Sum(e, E \ S)
  BY <1>1, GainWith
<1>3. Sum(e, E \ S) = 0 /\ Sum(cw, S) \in Int
  BY <1>1, SumEmpty, SumType
<1> QED BY <1>2, <1>3

(* Each server is in the bound for a group of one, and opposite to a group *)
(* of all the others.                                                      *)
LEMMA CreditOfOne ==
  ASSUME NEW S, IsFiniteSet(S), NEW M \in Nat, NEW cw, IntsOn(cw, S),
         Bounded(S, cw, M), Sum(cw, S) = 0, NEW s \in S
  PROVE  LET most == (Cardinality(S) - 1) * M IN cw[s] \in -most .. most
<1> DEFINE n == Cardinality(S)
           O == S \ {s}
           most == (n - 1) * M
<1>1. n \in Nat /\ Cardinality(O) = n - 1 /\ Cardinality({s}) = 1 /\ IsFiniteSet(O)
  BY FS_CardinalityType, FS_RemoveElement, FS_Singleton, FS_Subset
<1>2. cw[s] \in Int /\ most \in Int
  BY <1>1 DEF IntsOn
<1>3. Sum(cw, {s}) = cw[s]
  <2>1. Sum(cw, {} \cup {s}) = Sum(cw, {}) + cw[s]
    BY SumMore
  <2>2. {} \cup {s} = {s} /\ Sum(cw, {}) = 0
    BY SumEmpty
  <2> QED BY <1>2, <2>1, <2>2
<1>4. Sum(cw, O) = -cw[s]
  <2>1. O \in SUBSET S /\ s \in S \ O /\ O \cup {s} = S
    OBVIOUS
  <2> HIDE DEF O
  <2>2. Sum(cw, O \cup {s}) = Sum(cw, O) + cw[s]
    BY <2>1, SumMore
  <2>3. Sum(cw, O) \in Int
    <3>1. IntsOn(cw, O)
      BY <2>1 DEF IntsOn
    <3> QED BY <1>1, <3>1, SumType
  <2>4. Sum(cw, O) + cw[s] = 0
    BY <2>1, <2>2
  <2> QED BY <1>2, <2>3, <2>4
<1>5. Sum(cw, {s}) <= M * (1 * (n - 1))
  <2>1. {s} \in SUBSET S
    OBVIOUS
  <2> QED BY <1>1, <2>1 DEF Bounded
<1>6. Sum(cw, O) <= M * ((n - 1) * (n - (n - 1)))
  <2>1. O \in SUBSET S
    OBVIOUS
  <2> HIDE DEF O
  <2> QED BY <1>1, <2>1 DEF Bounded
<1>7. M * (1 * (n - 1)) = most /\ M * ((n - 1) * (n - (n - 1))) = most
  <2> HIDE DEF n
  <2> QED BY <1>1
<1> HIDE DEF most, O, n
<1>8. cw[s] <= most /\ -cw[s] <= most
  BY <1>3, <1>4, <1>5, <1>6, <1>7
<1>9. cw[s] \in -most .. most
  BY <1>2, <1>8
<1> QED BY <1>9 DEF most, n

-----------------------------------------------------------------------------
(***************************************************************************)
(* The range of effective_weight.                                          *)
(***************************************************************************)
(* The inductive invariant: the range, and that effective_weight is a      *)
(* function on the servers.                                                *)
IInv == /\ DOMAIN effective_weight = Servers
        /\ effective_weight = [s \in Servers |-> effective_weight[s]]
        /\ EffectiveInRange

(* The clamp of free_server_after_round_select.                            *)
LEMMA Clamp ==
  ASSUME NEW x \in Int
  PROVE  Max({0, x}) = IF x >= 0 THEN x ELSE 0
<1>1. CASE x >= 0
  <2>1. \A y \in {0, x} : x >= y
    BY <1>1
  <2>2. \A z \in {0, x} : (\A y \in {0, x} : z >= y) => z = x
    BY <1>1
  <2>3. QED
    BY <1>1, <2>1, <2>2 DEF Max
<1>2. CASE ~(x >= 0)
  <2>1. \A y \in {0, x} : 0 >= y
    BY <1>2
  <2>2. \A z \in {0, x} : (\A y \in {0, x} : z >= y) => z = 0
    BY <1>2
  <2>3. QED
    BY <1>2, <2>1, <2>2 DEF Max
<1>3. QED
  BY <1>1, <1>2

(* A weight reduced by weight / max_fails and clamped stays in range.      *)
LEMMA Reduced ==
  ASSUME NEW w \in Nat, NEW e \in 0 .. w
  PROVE  Max({0, e - w \div max_fails}) \in 0 .. w
<1>1. w \div max_fails \in Nat
  BY MaxFailsAssumption
<1>2. e - w \div max_fails \in Int /\ e - w \div max_fails <= w
  BY <1>1
<1>3. QED
  BY <1>2, Clamp

(* Lowering the weight of one server keeps all of them in range.           *)
LEMMA LoweredInRange ==
  ASSUME NEW f, f = [s \in Servers |-> f[s]],
         \A s \in Servers : f[s] \in 0 .. Weight[s], NEW us
  PROVE  LET g == [f EXCEPT ![us] = Max({0, @ - Weight[us] \div max_fails})]
         IN  /\ g = [s \in Servers |-> g[s]]
             /\ \A s \in Servers : g[s] \in 0 .. Weight[s]
<1> DEFINE g == [f EXCEPT ![us] = Max({0, @ - Weight[us] \div max_fails})]
<1>1. g = [s \in Servers |-> g[s]]
  OBVIOUS
<1>2. ASSUME NEW s \in Servers PROVE g[s] \in 0 .. Weight[s]
  <2>1. CASE s = us
    <3>1. g[s] = Max({0, f[s] - Weight[s] \div max_fails})
      BY <2>1
    <3>2. Weight[s] \in Nat /\ f[s] \in 0 .. Weight[s]
      BY WeightAssumption
    <3>3. QED
      BY <3>1, <3>2, Reduced
  <2>2. CASE s # us
    BY <2>2
  <2>3. QED
    BY <2>1, <2>2
<1>3. QED
  BY <1>1, <1>2

(* The recovery in get_server_by_round_once is bounded by weight.          *)
LEMMA RecoveredInRange ==
  ASSUME IInv
  PROVE  /\ NewEffectiveWeight = [s \in Servers |-> NewEffectiveWeight[s]]
         /\ \A s \in Servers : NewEffectiveWeight[s] \in 0 .. Weight[s]
<1>1. NewEffectiveWeight = [s \in Servers |-> NewEffectiveWeight[s]]
  BY DEF NewEffectiveWeight
<1>2. ASSUME NEW s \in Servers PROVE NewEffectiveWeight[s] \in 0 .. Weight[s]
  <2>1. Weight[s] \in Nat /\ effective_weight[s] \in 0 .. Weight[s]
    BY WeightAssumption DEF IInv, EffectiveInRange
  <2>2. NewEffectiveWeight[s] = effective_weight[s]
          \/ (effective_weight[s] < Weight[s]
              /\ NewEffectiveWeight[s] = effective_weight[s] + 1)
    BY DEF NewEffectiveWeight
  <2>3. QED
    BY <2>1, <2>2
<1>3. QED
  BY <1>1, <1>2

LEMMA InitRange == Init => IInv
<1> SUFFICES ASSUME Init PROVE IInv
  OBVIOUS
<1>1. effective_weight = Weight /\ Weight \in [Servers -> Nat \ {0}]
  BY WeightAssumption DEF Init
<1>2. \A s \in Servers : Weight[s] \in 0 .. Weight[s]
  BY <1>1
<1>3. QED
  BY <1>1, <1>2 DEF IInv, EffectiveInRange

LEMMA NextRange == IInv /\ [Next]_vars => IInv'
<1> SUFFICES ASSUME IInv, [Next]_vars PROVE IInv'
  OBVIOUS
<1>0. /\ effective_weight = [s \in Servers |-> effective_weight[s]]
      /\ \A s \in Servers : effective_weight[s] \in 0 .. Weight[s]
  BY DEF IInv, EffectiveInRange
<1>1. ASSUME NEW r \in Requests, Begin(r) PROVE IInv'
  BY <1>1 DEF IInv, EffectiveInRange, Begin, weights
<1>2. CASE TryNone
  BY <1>2 DEF IInv, EffectiveInRange, TryNone, weights
<1>3. CASE TryGood
  <2>1. effective_weight' = NewEffectiveWeight
    BY <1>3 DEF TryGood
  <2>2. QED
    BY <2>1, RecoveredInRange DEF IInv, EffectiveInRange
<1>4. CASE TryBad
  <2>1. effective_weight' = [NewEffectiveWeight EXCEPT
            ![Best] = Max({0, @ - Weight[Best] \div max_fails})]
    BY <1>4 DEF TryBad
  <2>2. /\ effective_weight' = [s \in Servers |-> effective_weight'[s]]
        /\ \A s \in Servers : effective_weight'[s] \in 0 .. Weight[s]
    BY <2>1, RecoveredInRange, LoweredInRange
  <2>3. QED
    BY <2>2 DEF IInv, EffectiveInRange
<1>5. CASE GiveUp
  BY <1>5 DEF IInv, EffectiveInRange, GiveUp, weights
<1>6. ASSUME NEW r \in Requests, Connected(r) PROVE IInv'
  BY <1>6 DEF IInv, EffectiveInRange, Connected, weights
<1>7. ASSUME NEW r \in Requests, Refused(r) PROVE IInv'
  <2>1. effective_weight' = [effective_weight EXCEPT ![req[r].cur] =
            Max({0, @ - Weight[req[r].cur] \div max_fails})]
    BY <1>7 DEF Refused
  <2>2. /\ effective_weight' = [s \in Servers |-> effective_weight'[s]]
        /\ \A s \in Servers : effective_weight'[s] \in 0 .. Weight[s]
    BY <1>0, <2>1, LoweredInRange
  <2>3. QED
    BY <2>2 DEF IInv, EffectiveInRange
<1>8. ASSUME NEW r \in Requests, Close(r) PROVE IInv'
  <2>1. effective_weight' = effective_weight
          \/ effective_weight' = [effective_weight EXCEPT ![req[r].cur] =
               Max({0, @ - Weight[req[r].cur] \div max_fails})]
    BY <1>8 DEF Close, Free
  <2>2. /\ effective_weight' = [s \in Servers |-> effective_weight'[s]]
        /\ \A s \in Servers : effective_weight'[s] \in 0 .. Weight[s]
    BY <1>0, <2>1, LoweredInRange
  <2>3. QED
    BY <2>2 DEF IInv, EffectiveInRange
<1>9. ASSUME NEW r \in Requests, Clear(r) PROVE IInv'
  BY <1>9 DEF IInv, EffectiveInRange, Clear, weights
<1>10. CASE TimePasses
  BY <1>10 DEF IInv, EffectiveInRange, TimePasses, weights
<1>11. CASE UNCHANGED vars
  BY <1>11 DEF IInv, EffectiveInRange, vars
<1>12. QED
  BY <1>1, <1>2, <1>3, <1>4, <1>5, <1>6, <1>7, <1>8, <1>9, <1>10, <1>11 DEF Next

(* However often servers fail, recover and are chosen by concurrent        *)
(* requests, effective_weight stays between 0 and the configured weight    *)
(* (get_server_by_round_once, free_server_after_round_select).             *)
THEOREM EffectiveRange == Spec => []EffectiveInRange
<1>1. IInv => EffectiveInRange
  BY DEF IInv
<1>2. QED
  BY <1>1, InitRange, NextRange, PTL DEF Spec

-----------------------------------------------------------------------------
(***************************************************************************)
(* Smoothness.  The credit of one server is not inductive: a server gains  *)
(* on those that are skipped.  What is, is a bound on every group of       *)
(* servers at once.                                                        *)
(***************************************************************************)
ConnectingToOne ==
  \A r \in Requests : req[r].phase = "connecting" => req[r].cur \in Servers

SumIsZero == Sum(current_weight, Servers) = 0
GroupsBounded == Bounded(Servers, current_weight, MaxWeight)

SInv == IInv /\ TypeOK /\ ConnectingToOne /\ SumIsZero /\ GroupsBounded

LEMMA ServersFinite ==
  /\ IsFiniteSet(Servers) /\ Cardinality(Servers) = nelts /\ nelts - 1 \in Servers
  /\ nelts \in Nat
<1>1. nelts \in Nat /\ nelts >= 1
  BY NeltsAssumption
<1>2. 0 \in Int /\ nelts - 1 \in Int /\ 0 <= nelts - 1
  BY <1>1
<1>3. IsFiniteSet(0 .. nelts - 1)
      /\ Cardinality(0 .. nelts - 1) = nelts - 1 - 0 + 1
  BY <1>2, FS_Interval
<1> QED BY <1>1, <1>3 DEF Servers

LEMMA MaxWeightIs == MaxWeight \in Nat /\ \A s \in Servers : Weight[s] <= MaxWeight
<1>1. \A s \in Servers : Weight[s] \in Nat
  BY WeightAssumption
<1>2. PICK x \in Servers : \A y \in Servers : Weight[y] <= Weight[x]
  <2>1. Servers # {} /\ IntsOn(Weight, Servers)
    BY <1>1, ServersFinite DEF IntsOn
  <2> QED BY <2>1, ServersFinite, Largest
<1> DEFINE W == {Weight[s] : s \in Servers}
<1>3. Weight[x] \in W /\ \A y \in W : Weight[x] >= y
  BY <1>1, <1>2
<1>4. MaxWeight = CHOOSE m \in W : \A y \in W : m >= y
  BY DEF MaxWeight, Max
<1>5. \A s \in Servers : Weight[s] \in W
  OBVIOUS
<1>6. W \subseteq Nat
  BY <1>1
<1> HIDE DEF W
<1>7. MaxWeight \in W /\ \A y \in W : MaxWeight >= y
  BY <1>3, <1>4
<1> QED BY <1>1, <1>5, <1>6, <1>7

(* The chosen server: a candidate, and none has a larger raised weight.    *)
LEMMA BestIsLargest ==
  ASSUME IInv, TypeOK, Eligible # {}
  PROVE  Best \in Eligible /\ \A s \in Eligible : Raised(s) <= Raised(Best)
<1>1. Eligible \in SUBSET Servers /\ IsFiniteSet(Eligible)
  <2>1. Eligible \in SUBSET Servers
    BY DEF Eligible
  <2> QED BY <2>1, ServersFinite, FS_Subset
<1>2. \A s \in Eligible : Raised(s) \in Int
  BY <1>1 DEF Raised, TypeOK
<1> DEFINE r == [s \in Eligible |-> Raised(s)]
           m == [s \in Eligible |-> -s]
           L == {s \in Eligible : \A t \in Eligible : Raised(t) <= Raised(s)}
<1>3. PICK x \in Eligible : \A y \in Eligible : r[y] <= r[x]
  <2>1. IntsOn(r, Eligible)
    BY <1>2 DEF IntsOn
  <2> HIDE DEF r
  <2> QED BY <1>1, <2>1, Largest
<1>4. x \in L
  BY <1>3
<1>5. L \in SUBSET Eligible /\ IsFiniteSet(L)
  <2>1. L \in SUBSET Eligible
    OBVIOUS
  <2> QED BY <1>1, <2>1, FS_Subset
<1>6. \A s \in Eligible : s \in Int /\ m[s] = -s
  BY <1>1 DEF Servers
<1>7. Best = CHOOSE y \in L : \A z \in L : y <= z
  BY DEF Best, Min
<1>8. \A s \in L : s \in Eligible /\ \A t \in Eligible : Raised(t) <= Raised(s)
  OBVIOUS
<1> HIDE DEF L, m
<1>9. PICK y \in L : \A z \in L : m[z] <= m[y]
  <2>1. IntsOn(m, L) /\ L # {}
    BY <1>4, <1>5, <1>6 DEF IntsOn
  <2> QED BY <1>5, <2>1, Largest
<1>10. \A z \in L : y <= z
  BY <1>5, <1>6, <1>9
<1>11. Best \in L
  BY <1>7, <1>9, <1>10
<1> QED BY <1>8, <1>11

(* A turn that chooses a server: the invariant's parts about credits.      *)
LEMMA Choice ==
  ASSUME IInv, TypeOK, SumIsZero, GroupsBounded, Eligible # {}
  PROVE  /\ NewCurrentWeight \in [Servers -> Int]
         /\ NewEffectiveWeight \in [Servers -> Int] /\ NewTried \subseteq Servers
         /\ Best \in Servers
         /\ Sum(NewCurrentWeight, Servers) = 0
         /\ Bounded(Servers, NewCurrentWeight, MaxWeight)
<1>1. /\ Eligible \in SUBSET Servers /\ IntsOn(current_weight, Servers)
      /\ IntsOn(effective_weight, Servers)
  BY DEF Eligible, IntsOn, TypeOK
<1>2. /\ Best \in Eligible
      /\ \A s \in Eligible : current_weight[s] + effective_weight[s]
                               <= current_weight[Best] + effective_weight[Best]
  BY BestIsLargest DEF Raised
<1>3. Total = Sum(effective_weight, Eligible)
  BY DEF Total, Sum
<1>4. Total \in Int
  <2>1. IsFiniteSet(Eligible) /\ IntsOn(effective_weight, Eligible)
    BY <1>1, ServersFinite, FS_Subset DEF IntsOn
  <2> QED BY <1>3, <2>1, SumType
<1>5. Moved(Servers, current_weight, effective_weight, Eligible, Best, NewCurrentWeight)
  <2> SUFFICES ASSUME NEW s \in Servers
               PROVE  NewCurrentWeight[s] =
                        IF s \notin Eligible THEN current_weight[s]
                        ELSE (current_weight[s] + effective_weight[s])
                               - (IF s = Best THEN Sum(effective_weight, Eligible) ELSE 0)
    BY DEF Moved
  <2>1. NewCurrentWeight[s] = IF s \notin Eligible THEN current_weight[s]
                              ELSE (current_weight[s] + effective_weight[s])
                                     - (IF s = Best THEN Total ELSE 0)
    BY DEF NewCurrentWeight, Raised
  <2> QED BY <1>3, <2>1
<1>6. Sum(current_weight, Servers) = 0
  BY DEF SumIsZero
<1>7. \A s \in Servers : effective_weight[s] \in 0 .. MaxWeight
  <2> SUFFICES ASSUME NEW s \in Servers PROVE effective_weight[s] \in 0 .. MaxWeight
    OBVIOUS
  <2>1. effective_weight[s] \in 0 .. Weight[s] /\ Weight[s] \in Nat
    BY WeightAssumption DEF IInv, EffectiveInRange
  <2>2. Weight[s] <= MaxWeight /\ MaxWeight \in Nat
    BY MaxWeightIs
  <2> QED BY <2>1, <2>2
<1>8. NewCurrentWeight \in [Servers -> Int]
  BY <1>1, <1>4 DEF NewCurrentWeight, Raised, IntsOn
<1>9. NewEffectiveWeight \in [Servers -> Int]
  BY <1>1 DEF NewEffectiveWeight, IntsOn
<1>10. NewTried \subseteq Servers
  BY ServersFinite DEF NewTried, TypeOK
<1>11. Sum(NewCurrentWeight, Servers) = 0
  BY <1>1, <1>2, <1>5, <1>6, ServersFinite, SelectionBalanced
<1>12. Bounded(Servers, NewCurrentWeight, MaxWeight)
  BY <1>1, <1>2, <1>5, <1>7, ServersFinite, MaxWeightIs, SelectionBounded
     DEF GroupsBounded
<1> QED BY <1>1, <1>2, <1>8, <1>9, <1>10, <1>11, <1>12

LEMMA InitSmooth == Init => SInv
<1> SUFFICES ASSUME Init PROVE SInv
  OBVIOUS
<1>1. current_weight = [s \in Servers |-> 0] /\ IntsOn(current_weight, Servers)
  BY DEF Init, IntsOn
<1>2. TypeOK
  BY WeightAssumption, NeltsAssumption DEF Init, TypeOK, NewRequest
<1>3. ConnectingToOne
  BY DEF Init, ConnectingToOne, NewRequest
<1>4. ASSUME NEW T \in SUBSET Servers PROVE Sum(current_weight, T) = 0
  <2>1. IsFiniteSet(T) /\ IntsOn(current_weight, T)
        /\ \A s \in T : current_weight[s] \in Nat /\ current_weight[s] <= 0
    BY <1>1, ServersFinite, FS_Subset DEF IntsOn
  <2>2. Sum(current_weight, T) \in Nat
    BY <2>1, SumNotNegative
  <2>3. Sum(current_weight, T) <= 0 * Cardinality(T)
    BY <2>1, SumAtMost
  <2>4. Cardinality(T) \in Nat
    BY <2>1, FS_CardinalityType
  <2> QED BY <2>2, <2>3, <2>4
<1>5. SumIsZero
  BY <1>4 DEF SumIsZero
<1>6. GroupsBounded
  <2>1. ASSUME NEW T \in SUBSET Servers
        PROVE  Sum(current_weight, T)
                 <= MaxWeight * (Cardinality(T) * (Cardinality(Servers) - Cardinality(T)))
    <3>1. Cardinality(T) \in Nat /\ Cardinality(T) <= nelts /\ Cardinality(Servers) = nelts
          /\ nelts \in Nat /\ MaxWeight \in Nat
      BY ServersFinite, MaxWeightIs, FS_Subset, FS_CardinalityType
    <3>2. Cardinality(T) * (nelts - Cardinality(T)) \in Nat
      <4>1. PICK j \in Nat, k \in Nat : j = Cardinality(T) /\ k = nelts - Cardinality(T)
        BY <3>1
      <4> QED BY <4>1
    <3>3. MaxWeight * (Cardinality(T) * (nelts - Cardinality(T))) \in Nat
      BY <3>1, <3>2
    <3> QED BY <1>4, <3>1, <3>3
  <2> QED BY <2>1 DEF GroupsBounded, Bounded
<1> QED BY <1>2, <1>3, <1>5, <1>6, InitRange DEF SInv

(* What every step but a selection leaves alone.                           *)
LEMMA SameCredits ==
  ASSUME SInv, current_weight' = current_weight PROVE SumIsZero' /\ GroupsBounded'
<1>1. SumIsZero'
  BY DEF SInv, SumIsZero
<1>2. GroupsBounded'
  BY DEF SInv, GroupsBounded
<1> QED BY <1>1, <1>2

LEMMA NewCredits ==
  ASSUME SInv, Eligible # {}, current_weight' = NewCurrentWeight
  PROVE  SumIsZero' /\ GroupsBounded'
<1>1. Sum(NewCurrentWeight, Servers) = 0 /\ Bounded(Servers, NewCurrentWeight, MaxWeight)
  BY Choice DEF SInv
<1>2. SumIsZero'
  BY <1>1 DEF SumIsZero
<1>3. GroupsBounded'
  BY <1>1 DEF GroupsBounded
<1> QED BY <1>2, <1>3

(* The clamp of free_server_after_round_select keeps the type.             *)
LEMMA LoweredType ==
  ASSUME NEW f \in [Servers -> Int], NEW us
  PROVE  [f EXCEPT ![us] = Max({0, @ - Weight[us] \div max_fails})] \in [Servers -> Int]
<1>1. CASE us \in Servers
  <2>1. Weight[us] \div max_fails \in Int /\ f[us] \in Int
    BY <1>1, WeightAssumption, MaxFailsAssumption
  <2>2. f[us] - Weight[us] \div max_fails \in Int
    BY <2>1
  <2>3. Max({0, f[us] - Weight[us] \div max_fails}) \in Int
    BY <2>2, Clamp
  <2> QED BY <2>3
<1>2. CASE us \notin Servers
  BY <1>2
<1> QED BY <1>1, <1>2

LEMMA NextType == SInv /\ [Next]_vars => TypeOK' /\ ConnectingToOne'
<1> SUFFICES ASSUME SInv, [Next]_vars PROVE TypeOK' /\ ConnectingToOne'
  OBVIOUS
<1>0. /\ current_weight \in [Servers -> Int] /\ effective_weight \in [Servers -> Int]
      /\ fails \in [Servers -> Nat]
      /\ failed \subseteq Servers /\ recent \subseteq Servers /\ tried \subseteq Servers
      /\ req \in [Requests -> [tries : 0 .. nelts, cur : Servers \cup {None},
                               phase : {"new", "connecting", "connected", "502"}]]
      /\ chooser \in Requests \cup {None} /\ nelts \in Nat
      /\ \A r \in Requests : req[r].phase = "connecting" => req[r].cur \in Servers
  BY ServersFinite DEF SInv, TypeOK, ConnectingToOne
<1> USE DEF TypeOK, ConnectingToOne
<1>1. ASSUME NEW r \in Requests, Begin(r) PROVE TypeOK' /\ ConnectingToOne'
  BY <1>0, <1>1 DEF Begin, InitBeforeRound, weights
<1>2. CASE TryNone
  <2>1. chooser \in Requests
    BY <1>0, <1>2 DEF TryNone
  <2>2. req[chooser].tries + 1 \in 0 .. nelts
    BY <1>0, <1>2, <2>1 DEF TryNone
  <2> QED BY <1>0, <1>2, <2>1, <2>2 DEF TryNone, weights
<1>3. CASE TryGood
  <2>1. chooser \in Requests
    BY <1>0, <1>3 DEF TryGood
  <2>2. req[chooser].tries + 1 \in 0 .. nelts
    BY <1>0, <1>3, <2>1 DEF TryGood
  <2>3. /\ NewCurrentWeight \in [Servers -> Int] /\ NewEffectiveWeight \in [Servers -> Int]
        /\ NewTried \subseteq Servers /\ Best \in Servers
    BY <1>3, Choice DEF SInv, TryGood
  <2>4. PICK ph \in {"connected", "connecting"} :
          req' = [req EXCEPT ![chooser] = [tries |-> @.tries + 1, cur |-> Best, phase |-> ph]]
    BY <1>3 DEF TryGood
  <2> QED BY <1>0, <1>3, <2>1, <2>2, <2>3, <2>4 DEF TryGood
<1>4. CASE TryBad
  <2>1. chooser \in Requests
    BY <1>0, <1>4 DEF TryBad
  <2>2. req[chooser].tries + 1 \in 0 .. nelts
    BY <1>0, <1>4, <2>1 DEF TryBad
  <2>3. /\ NewCurrentWeight \in [Servers -> Int] /\ NewEffectiveWeight \in [Servers -> Int]
        /\ NewTried \subseteq Servers /\ Best \in Servers
    BY <1>4, Choice DEF SInv, TryBad
  <2>4. effective_weight' \in [Servers -> Int]
    <3>1. effective_weight' = [NewEffectiveWeight EXCEPT
                                 ![Best] = Max({0, @ - Weight[Best] \div max_fails})]
      BY <1>4 DEF TryBad
    <3> QED BY <2>3, <3>1, LoweredType
  <2>5. /\ req' = [req EXCEPT ![chooser].tries = @ + 1] /\ current_weight' = NewCurrentWeight
        /\ tried' = NewTried /\ failed' = failed \cup {Best}
        /\ fails' = [fails EXCEPT ![Best] = @ + 1] /\ recent' = recent \cup {Best}
        /\ chooser' = chooser
    BY <1>4 DEF TryBad
  <2> QED BY <1>0, <2>1, <2>2, <2>3, <2>4, <2>5
<1>5. CASE GiveUp
  <2>1. chooser \in Requests
    BY <1>0, <1>5 DEF GiveUp
  <2> QED BY <1>0, <1>5, <2>1 DEF GiveUp, weights
<1>6. ASSUME NEW r \in Requests, Connected(r) PROVE TypeOK' /\ ConnectingToOne'
  BY <1>0, <1>6 DEF Connected, weights
<1>7. ASSUME NEW r \in Requests, Refused(r) PROVE TypeOK' /\ ConnectingToOne'
  <2>1. req[r].cur \in Servers
    BY <1>0, <1>7 DEF Refused
  <2>2. effective_weight' \in [Servers -> Int]
    <3>1. effective_weight' = [effective_weight EXCEPT
                     ![req[r].cur] = Max({0, @ - Weight[req[r].cur] \div max_fails})]
      BY <1>7 DEF Refused
    <3> QED BY <1>0, <3>1, LoweredType
  <2>3. /\ req' = [req EXCEPT ![r].cur = None, ![r].phase = "new"]
        /\ recent' = recent \cup {req[r].cur} /\ tried' = {} /\ failed' = {}
        /\ chooser' = r /\ current_weight' = current_weight
    BY <1>7 DEF Refused, InitBeforeRound
  <2>5. req' \in [Requests -> [tries : 0 .. nelts, cur : Servers \cup {None},
                              phase : {"new", "connecting", "connected", "502"}]]
    <3> DEFINE Record == [tries : 0 .. nelts, cur : Servers \cup {None},
                          phase : {"new", "connecting", "connected", "502"}]
               d == [req[r] EXCEPT !.cur = None, !.phase = "new"]
    <3>1. req[r] \in Record
      BY <1>0
    <3>2. d \in Record
      BY <3>1
    <3>3. req' = [req EXCEPT ![r] = d]
      BY <2>3
    <3>4. req \in [Requests -> Record]
      BY <1>0
    <3> HIDE DEF Record, d
    <3>5. req' \in [Requests -> Record]
      BY <3>2, <3>3, <3>4
    <3> QED BY <3>5 DEF Record
  <2>6. \A q \in Requests : req'[q].phase = "connecting" => req'[q].cur \in Servers
    BY <1>0, <2>3
  <2>7. recent' \subseteq Servers /\ tried' \subseteq Servers /\ failed' \subseteq Servers
    BY <1>0, <2>1, <2>3
  <2>4. fails' \in [Servers -> Nat]
    <3> DEFINE f == [fails EXCEPT ![req[r].cur] = @ + 1]
    <3>1. f \in [Servers -> Nat]
      BY <1>0, <2>1
    <3>2. InitBeforeRound(f, recent \cup {req[r].cur})
      BY <1>7 DEF Refused
    <3> HIDE DEF f
    <3> QED BY <3>1, <3>2 DEF InitBeforeRound
  <2> QED BY <1>0, <2>2, <2>3, <2>4, <2>5, <2>6, <2>7
<1>8. ASSUME NEW r \in Requests, Close(r) PROVE TypeOK' /\ ConnectingToOne'
  <2>1. /\ req' = [req EXCEPT ![r] = NewRequest] /\ current_weight' = current_weight
        /\ failed' = failed /\ tried' = tried /\ chooser' = chooser
    BY <1>8 DEF Close
  <2>2. /\ effective_weight' \in [Servers -> Int] /\ fails' \in [Servers -> Nat]
        /\ recent' \subseteq Servers
    <3>1. CASE req[r].cur = None
      BY <1>0, <1>8, <3>1 DEF Close
    <3>2. CASE req[r].cur # None
      <4>1. req[r].cur \in Servers
        BY <1>0, <3>2
      <4>2. Free(req[r].cur, req[r].cur \in failed)
        BY <1>8, <3>2 DEF Close
      <4>3. CASE req[r].cur \in failed
        <5>1. effective_weight' = [effective_weight EXCEPT
                     ![req[r].cur] = Max({0, @ - Weight[req[r].cur] \div max_fails})]
              /\ fails' = [fails EXCEPT ![req[r].cur] = @ + 1]
              /\ recent' = recent \cup {req[r].cur}
          BY <4>2, <4>3 DEF Free
        <5>2. effective_weight' \in [Servers -> Int]
          BY <1>0, <5>1, LoweredType
        <5> QED BY <1>0, <4>1, <5>1, <5>2
      <4>4. CASE req[r].cur \notin failed
        BY <1>0, <4>1, <4>2, <4>4 DEF Free
      <4> QED BY <4>3, <4>4
    <3> QED BY <3>1, <3>2
  <2>3. NewRequest \in [tries : 0 .. nelts, cur : Servers \cup {None},
                        phase : {"new", "connecting", "connected", "502"}]
        /\ NewRequest.phase = "new"
    BY <1>0 DEF NewRequest
  <2> QED BY <1>0, <2>1, <2>2, <2>3
<1>9. ASSUME NEW r \in Requests, Clear(r) PROVE TypeOK' /\ ConnectingToOne'
  <2>1. NewRequest \in [tries : 0 .. nelts, cur : Servers \cup {None},
                        phase : {"new", "connecting", "connected", "502"}]
        /\ NewRequest.phase = "new"
    BY <1>0 DEF NewRequest
  <2> QED BY <1>0, <1>9, <2>1 DEF Clear, weights
<1>10. CASE TimePasses
  BY <1>0, <1>10 DEF TimePasses, weights
<1>11. CASE UNCHANGED vars
  BY <1>0, <1>11 DEF vars
<1> QED BY <1>1, <1>2, <1>3, <1>4, <1>5, <1>6, <1>7, <1>8, <1>9, <1>10, <1>11 DEF Next

LEMMA NextCredits == SInv /\ [Next]_vars => SumIsZero' /\ GroupsBounded'
<1> SUFFICES ASSUME SInv, [Next]_vars PROVE SumIsZero' /\ GroupsBounded'
  OBVIOUS
<1>1. CASE TryGood \/ TryBad
  <2>1. Eligible # {} /\ current_weight' = NewCurrentWeight
    BY <1>1 DEF TryGood, TryBad
  <2> QED BY <2>1, NewCredits
<1>2. CASE ~(TryGood \/ TryBad)
  <2>1. current_weight' = current_weight
    BY <1>2 DEF Next, Begin, TryNone, GiveUp, Connected, Refused, Close, Clear,
                TimePasses, weights, vars
  <2> QED BY <2>1, SameCredits
<1> QED BY <1>1, <1>2

LEMMA SInvSmooth == SInv => SmoothShares
<1> SUFFICES ASSUME SInv PROVE SmoothShares
  OBVIOUS
<1> DEFINE most == (nelts - 1) * MaxWeight
<1>1. IntsOn(current_weight, Servers) /\ Sum(current_weight, Servers) = 0
  BY DEF SInv, TypeOK, IntsOn, SumIsZero
<1>2. ASSUME NEW s \in Servers PROVE current_weight[s] \in -most .. most
  <2>1. LET m == (Cardinality(Servers) - 1) * MaxWeight IN current_weight[s] \in -m .. m
    BY <1>1, ServersFinite, MaxWeightIs, CreditOfOne DEF SInv, GroupsBounded
  <2> QED BY <2>1, ServersFinite
<1>3. CreditBounded
  BY <1>2 DEF CreditBounded
<1>4. Balanced
  BY <1>1 DEF Balanced, Sum
<1> QED BY <1>3, <1>4 DEF SmoothShares, SInv, IInv

(* Selections only move weight between servers, and through failures,      *)
(* recoveries and skipped servers no server's credit exceeds the largest   *)
(* weight once for each other server, while effective weights stay in      *)
(* range (get_server_by_round_once, free_server_after_round_select).       *)
THEOREM Smooth == Spec => []SmoothShares
<1>1. SInv /\ [Next]_vars => SInv'
  BY NextRange, NextType, NextCredits DEF SInv
<1>2. QED
  BY <1>1, InitSmooth, SInvSmooth, PTL DEF Spec
=============================================================================
