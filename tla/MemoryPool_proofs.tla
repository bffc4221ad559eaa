-------------------------- MODULE MemoryPool_proofs --------------------------
(***************************************************************************)
(* Proofs about MemoryPool, as HashTable and the other users of the pool   *)
(* call it: the blocks tile the pool, and the pool implements Arena, for   *)
(* any size of the pool and any requests.                                  *)
(***************************************************************************)
EXTENDS HashTable, SetSums

Header == [next : Addresses, usedsize : 1 .. MEMSIZE, freesize : 0 .. MEMSIZE]

(* The first unit behind block a.                                          *)
End(h, a) == a + h[a].usedsize + h[a].freesize

(***************************************************************************)
(* The inductive invariant.                                                *)
(***************************************************************************)
(* The headers are those of the blocks handed out and the base, and every  *)
(* unit of the pool belongs to one of them.                                *)
Laid ==
  /\ hdr \in [DOMAIN hdr -> Header] /\ DOMAIN hdr \subseteq Addresses
  /\ DOMAIN hdr \ {Base} = owned
  /\ memptr \in DOMAIN hdr \cup {Null}
  /\ memptr = Null => owned = {}
  /\ DOMAIN hdr # {} =>
       /\ Base \in DOMAIN hdr /\ hdr[Base].usedsize = 1
       /\ \A x \in Addresses : \E b \in DOMAIN hdr : b <= x /\ x < End(hdr, b)

(* Every block ends where the next one begins, or at the end of the pool.  *)
Chained ==
  \A a \in DOMAIN hdr :
    /\ End(hdr, a) <= MEMSIZE
    /\ hdr[a].next = IF End(hdr, a) = MEMSIZE THEN Base ELSE End(hdr, a)
    /\ hdr[a].next \in DOMAIN hdr
    /\ \A b \in DOMAIN hdr : a < b => End(hdr, a) <= b

(* The loop of pMalloc has gone past a: it starts at memptr and goes round *)
(* the end of the pool.                                                    *)
Passed(a) == IF Start <= p THEN Start <= a /\ a < p ELSE Start <= a \/ a < p

(* The loop of pFree has gone past a: it starts behind memptr.             *)
Looked(a) == IF memptr < p THEN memptr < a /\ a < p ELSE memptr < a \/ a < p

Walks ==
  /\ pc \in {"idle", "pMalloc", "pFree"}
  /\ pc # "idle" => p \in DOMAIN hdr
  /\ pc = "pMalloc" =>
       /\ arg \in Nat \ {0}
       /\ \A a \in DOMAIN hdr : Passed(a) => hdr[a].freesize < arg
  /\ pc = "pFree" =>
       /\ memptr # Null /\ arg # Base
       /\ prev \in DOMAIN hdr /\ hdr[prev].next = p
       /\ \A a \in DOMAIN hdr : Looked(a) => a # arg

PoolInv == Laid /\ Chained /\ Walks /\ answer.at # Base

(* Where the temporary array of hashInit is: not yet taken, on its way     *)
(* back, or back.                                                          *)
TestHeld ==
  /\ bpc \in {"off", "hash", "test"} => test = Null
  /\ bpc \in {"failing", "filled"} =>
       (pc = "pFree" /\ arg = test) \/ (pc = "idle" /\ test \notin owned)
  /\ bpc \in {"done", "error"} => pc = "idle" /\ test \notin owned

LEMMA Sizes0 ==
  /\ MEMSIZE \in Nat /\ 2 <= MEMSIZE /\ Base = 0 /\ Null \notin Nat
  /\ Addresses = 0 .. MEMSIZE - 1 /\ Base \in Addresses /\ Null # Base
BY SizeAssumption, NullAssumption DEF Base, Addresses

(* What the invariant says of one block.                                   *)
LEMMA BlockFacts ==
  ASSUME Laid, Chained, NEW a \in DOMAIN hdr
  PROVE  /\ a \in Nat /\ a < MEMSIZE
         /\ hdr[a].usedsize \in Nat /\ 1 <= hdr[a].usedsize
         /\ hdr[a].freesize \in Nat
         /\ End(hdr, a) \in Nat /\ End(hdr, a) <= MEMSIZE /\ a < End(hdr, a)
         /\ hdr[a].next \in DOMAIN hdr
         /\ hdr[a].next = IF End(hdr, a) = MEMSIZE THEN Base ELSE End(hdr, a)
         /\ \A b \in DOMAIN hdr : a < b => End(hdr, a) <= b
<1>1. a \in 0 .. MEMSIZE - 1 /\ hdr[a] \in Header
  BY Sizes0 DEF Laid
<1>2. hdr[a].usedsize \in 1 .. MEMSIZE /\ hdr[a].freesize \in 0 .. MEMSIZE
  BY <1>1 DEF Header
<1>3. End(hdr, a) \in Nat /\ a < End(hdr, a)
  BY <1>1, <1>2, Sizes0 DEF End
<1> QED BY <1>1, <1>2, <1>3, Sizes0 DEF Chained

LEMMA SpansDiffer ==
  ASSUME NEW a, NEW b, NEW u, NEW v, [at |-> a, size |-> u] = [at |-> b, size |-> v]
  PROVE  a = b
OBVIOUS

(* Two fields of a header change, in either order.                         *)
LEMMA HeaderExcept ==
  ASSUME NEW h \in Header, NEW n, NEW f
  PROVE  /\ [h EXCEPT !.next = n, !.freesize = f]
           = [next |-> n, usedsize |-> h.usedsize, freesize |-> f]
         /\ [h EXCEPT !.freesize = f, !.next = n]
           = [next |-> n, usedsize |-> h.usedsize, freesize |-> f]
<1> DEFINE g == [h EXCEPT !.next = n]
           k == [h EXCEPT !.freesize = f]
<1>1. h = [next |-> h.next, usedsize |-> h.usedsize, freesize |-> h.freesize]
  BY Zenon DEF Header
<1>2. g = [next |-> n, usedsize |-> h.usedsize, freesize |-> h.freesize]
  BY <1>1
<1>3. [g EXCEPT !.freesize = f] = [next |-> n, usedsize |-> h.usedsize, freesize |-> f]
  <2> HIDE DEF g
  <2> QED BY <1>2
<1>4. k = [next |-> h.next, usedsize |-> h.usedsize, freesize |-> f]
  BY <1>1
<1>5. [k EXCEPT !.next = n] = [next |-> n, usedsize |-> h.usedsize, freesize |-> f]
  <2> HIDE DEF k
  <2> QED BY <1>4
<1>6. /\ [h EXCEPT !.next = n, !.freesize = f] = [g EXCEPT !.freesize = f]
      /\ [h EXCEPT !.freesize = f, !.next = n] = [k EXCEPT !.next = n]
  OBVIOUS
<1> QED BY <1>3, <1>5, <1>6, Zenon

LEMMA StartFacts ==
  ASSUME Laid, DOMAIN hdr # {}
  PROVE  Start \in DOMAIN hdr
BY DEF Laid, Start

(***************************************************************************)
(* Steps that leave the ring alone.                                        *)
(***************************************************************************)
LEMMA RingStays ==
  ASSUME Laid, Chained, UNCHANGED <<ring, owned>>
  PROVE  Laid' /\ Chained'
BY DEF Laid, Chained, ring, End

LEMMA PMallocStep ==
  ASSUME PoolInv, NEW n, PMalloc(n)
  PROVE  PoolInv'
<1> USE DEF PoolInv
<1>1. /\ n \in Nat /\ pc' = "pMalloc" /\ arg' = NUnits(n) /\ p' = Start
      /\ UNCHANGED <<memptr, prev, owned, answer>>
  BY DEF PMalloc
<1>2. arg' \in Nat \ {0}
  BY <1>1 DEF NUnits, HEADERSIZE
<1>3. Start' = Start
  BY <1>1 DEF Start
<1>4. CASE memptr # Null
  <2>1. hdr' = hdr
    BY <1>4 DEF PMalloc
  <2>2. Laid' /\ Chained'
    BY <1>1, <2>1, RingStays DEF ring
  <2>3. Start \in DOMAIN hdr /\ Start \in Nat
    BY <1>4, Sizes0 DEF Laid, Start
  <2>4. \A a : ~Passed(a)' \/ a \notin DOMAIN hdr'
    <3>1. SUFFICES ASSUME NEW a \in DOMAIN hdr', Passed(a)' PROVE FALSE
      OBVIOUS
    <3>2. Start <= Start
      BY <2>3
    <3>3. Start <= a /\ a < Start
      BY <1>1, <1>3, <3>1, <3>2 DEF Passed
    <3>4. a \in Nat
      BY <2>1, <3>1, Sizes0 DEF Laid
    <3> QED BY <2>3, <3>3, <3>4
  <2> QED BY <1>1, <1>2, <2>1, <2>2, <2>3, <2>4 DEF Walks
<1>5. CASE memptr = Null
  <2>1. hdr' = [a \in {Base} |-> [next |-> Base, usedsize |-> 1,
                                  freesize |-> MEMSIZE - 1]]
    BY <1>5 DEF PMalloc
  <2>2. /\ DOMAIN hdr' = {Base} /\ owned' = {} /\ hdr'[Base] \in Header
        /\ hdr'[Base].next = Base /\ hdr'[Base].usedsize = 1
        /\ hdr'[Base].freesize = MEMSIZE - 1 /\ End(hdr', Base) = MEMSIZE
    BY <1>1, <1>5, <2>1, Sizes0 DEF Laid, Header, End
  <2>3. Laid'
    <3>1. \A x \in Addresses : Base <= x /\ x < End(hdr', Base)
      BY <2>2, Sizes0
    <3>2. hdr' \in [DOMAIN hdr' -> Header] /\ DOMAIN hdr' \subseteq Addresses
      BY <2>1, <2>2, Sizes0
    <3> QED BY <1>1, <1>5, <2>2, <3>1, <3>2 DEF Laid
  <2>4. Chained'
    BY <2>2, Sizes0 DEF Chained
  <2>5. Start = Base
    BY <1>5 DEF Start
  <2>6. \A a \in DOMAIN hdr' : ~Passed(a)'
    BY <1>1, <1>3, <2>2, <2>5, Sizes0 DEF Passed
  <2> QED BY <1>1, <1>2, <2>2, <2>3, <2>4, <2>5, <2>6 DEF Walks
<1> QED BY <1>4, <1>5

(* One more block has been passed.                                         *)
LEMMA MallocNextStep ==
  ASSUME PoolInv, MallocNext
  PROVE  PoolInv'
<1> USE DEF PoolInv
<1>1. /\ pc = "pMalloc" /\ hdr[p].next # Start /\ hdr[p].freesize < arg
      /\ p' = hdr[p].next /\ UNCHANGED <<ring, pc, arg, prev, owned, answer>>
      /\ UNCHANGED <<hdr, memptr>>
  BY DEF MallocNext, ring
<1>2. Laid' /\ Chained'
  BY <1>1, RingStays
<1>3. p \in DOMAIN hdr /\ arg \in Nat
  BY <1>1 DEF Walks
<1>4. PICK e \in Nat : /\ e = End(hdr, p) /\ p \in Nat /\ p < e /\ e <= MEMSIZE
                       /\ hdr[p].next \in DOMAIN hdr
                       /\ hdr[p].next = IF e = MEMSIZE THEN 0 ELSE e
                       /\ \A b \in DOMAIN hdr : p < b => e <= b
  BY <1>3, BlockFacts, Sizes0
<1>5. Start \in DOMAIN hdr /\ Start \in Nat /\ Start < MEMSIZE /\ Start' = Start
  BY <1>1, <1>3, StartFacts, BlockFacts DEF Start
<1>6. ASSUME NEW a \in DOMAIN hdr, Passed(a)' PROVE Passed(a) \/ a = p
  <2>1. a \in Nat /\ a < MEMSIZE
    BY BlockFacts
  <2>2. IF Start <= p' THEN Start <= a /\ a < p' ELSE Start <= a \/ a < p'
    BY <1>5, <1>6 DEF Passed
  <2>3. p < a => e <= a
    BY <1>4
  <2>4. p < Start => e <= Start
    BY <1>4, <1>5
  <2>5. p' = (IF e = MEMSIZE THEN 0 ELSE e) /\ p' # Start
    BY <1>1, <1>4
  <2> QED BY <1>4, <1>5, <2>1, <2>2, <2>3, <2>4, <2>5 DEF Passed
<1>7. \A a \in DOMAIN hdr' : Passed(a)' => hdr'[a].freesize < arg'
  BY <1>1, <1>6 DEF Walks
<1> QED BY <1>1, <1>2, <1>3, <1>4, <1>7 DEF Walks

(* When the search has come round, it has passed every block.              *)
LEMMA AllPassed ==
  ASSUME PoolInv, MallocNull
  PROVE  \A a \in DOMAIN hdr : hdr[a].freesize < arg
<1> USE DEF PoolInv
<1>1. pc = "pMalloc" /\ hdr[p].next = Start /\ hdr[p].freesize < arg
  BY DEF MallocNull
<1>2. p \in DOMAIN hdr
  BY <1>1 DEF Walks
<1>3. PICK e \in Nat : /\ e = End(hdr, p) /\ p \in Nat /\ p < e /\ e <= MEMSIZE
                       /\ hdr[p].next = IF e = MEMSIZE THEN 0 ELSE e
                       /\ \A b \in DOMAIN hdr : p < b => e <= b
  BY <1>2, BlockFacts, Sizes0
<1>4. Start \in DOMAIN hdr /\ Start \in Nat /\ Start < MEMSIZE
  BY <1>2, StartFacts, BlockFacts
<1>5. ASSUME NEW a \in DOMAIN hdr PROVE Passed(a) \/ a = p
  <2>1. a \in Nat /\ a < MEMSIZE
    BY BlockFacts
  <2>2. p < a => e <= a
    BY <1>3
  <2>3. p < Start => e <= Start
    BY <1>3, <1>4
  <2> QED BY <1>1, <1>3, <1>4, <2>1, <2>2, <2>3 DEF Passed
<1> QED BY <1>1, <1>5 DEF Walks

LEMMA MallocNullStep ==
  ASSUME PoolInv, MallocNull
  PROVE  PoolInv'
<1> USE DEF PoolInv
<1>1. /\ pc' = "idle" /\ answer'.at = Null /\ UNCHANGED <<ring, owned>>
  BY DEF MallocNull
<1> QED BY <1>1, RingStays, Sizes0 DEF Walks

(* The block found gives its free units to a new block behind it.          *)
LEMMA MallocSplitStep ==
  ASSUME PoolInv, MallocSplit
  PROVE  PoolInv'
<1> USE DEF PoolInv
<1> DEFINE newp == p + hdr[p].usedsize
<1>1. /\ pc = "pMalloc" /\ hdr[p].freesize >= arg
      /\ pc' = "idle"
      /\ hdr' = [a \in DOMAIN hdr \cup {newp} |->
                   IF a = newp THEN [next |-> hdr[p].next, usedsize |-> arg,
                                     freesize |-> hdr[p].freesize - arg]
                   ELSE IF a = p THEN [hdr[p] EXCEPT !.next = newp, !.freesize = 0]
                   ELSE hdr[a]]
      /\ memptr' = newp /\ owned' = owned \cup {newp} /\ answer'.at = newp
  BY DEF MallocSplit
<1>2. p \in DOMAIN hdr /\ arg \in Nat \ {0}
  BY <1>1 DEF Walks
<1>3. PICK e \in Nat, u \in Nat, f \in Nat :
        /\ e = End(hdr, p) /\ u = hdr[p].usedsize /\ f = hdr[p].freesize
        /\ p \in Nat /\ p < e /\ e <= MEMSIZE /\ 1 <= u
        /\ hdr[p].next \in DOMAIN hdr
        /\ hdr[p].next = IF e = MEMSIZE THEN Base ELSE e
        /\ \A b \in DOMAIN hdr : p < b => e <= b
  BY <1>2, BlockFacts
<1>4. e = p + u + f
  BY <1>3 DEF End
<1>5. /\ newp = p + u /\ newp \in Nat /\ p < newp /\ newp < e
      /\ newp \in Addresses /\ newp # Base /\ arg <= f
      /\ f - arg \in Nat /\ f - arg <= MEMSIZE /\ arg <= MEMSIZE
  <2>1. newp = p + u
    BY <1>3
  <2>2. f >= arg
    BY <1>1, <1>3
  <2> HIDE DEF newp
  <2>3. p \in Nat /\ p < e /\ e <= MEMSIZE /\ 1 <= u
    BY <1>3
  <2> QED BY <1>2, <1>4, <2>1, <2>2, <2>3, Sizes0
<1>6. newp \notin DOMAIN hdr
  BY <1>3, <1>5
<1> HIDE DEF newp
<1>7. /\ DOMAIN hdr' = DOMAIN hdr \cup {newp}
      /\ hdr'[newp] = [next |-> hdr[p].next, usedsize |-> arg, freesize |-> f - arg]
      /\ hdr'[p] = [next |-> newp, usedsize |-> u, freesize |-> 0]
      /\ \A a \in DOMAIN hdr \ {p} : hdr'[a] = hdr[a]
  <2>1. hdr[p] \in Header
    BY <1>2 DEF Laid
  <2>2. [hdr[p] EXCEPT !.next = newp, !.freesize = 0]
          = [next |-> newp, usedsize |-> hdr[p].usedsize, freesize |-> 0]
    BY <2>1, HeaderExcept, Zenon
  <2> QED BY <1>1, <1>2, <1>3, <1>6, <2>2
<1>8. /\ End(hdr', newp) = e /\ End(hdr', p) = newp
      /\ \A a \in DOMAIN hdr \ {p} : End(hdr', a) = End(hdr, a)
  <2>1. newp + arg + (f - arg) = e
    BY <1>2, <1>3, <1>4, <1>5
  <2> QED BY <1>3, <1>5, <1>7, <2>1 DEF End
<1>9. Laid'
  <2>1. hdr' \in [DOMAIN hdr' -> Header] /\ DOMAIN hdr' \subseteq Addresses
    <3>1. arg \in 1 .. MEMSIZE /\ u \in 1 .. MEMSIZE
      BY <1>2, <1>3, <1>4, <1>5, Sizes0
    <3>5. hdr[p].next \in Addresses
      BY <1>3 DEF Laid
    <3>2. hdr'[newp] \in Header /\ hdr'[p] \in Header
      BY <1>3, <1>5, <1>7, <3>1, <3>5, Sizes0 DEF Header
    <3>3. \A a \in DOMAIN hdr' : hdr'[a] \in Header
      BY <1>7, <3>2 DEF Laid
    <3>4. hdr' = [a \in DOMAIN hdr' |-> hdr'[a]]
      BY <1>1
    <3> QED BY <1>5, <1>7, <3>3, <3>4 DEF Laid
  <2>2. DOMAIN hdr' \ {Base} = owned'
    BY <1>1, <1>5, <1>7 DEF Laid
  <2>3. Base \in DOMAIN hdr' /\ hdr'[Base].usedsize = 1
    BY <1>2, <1>3, <1>7 DEF Laid
  <2>4. ASSUME NEW x \in Addresses
        PROVE  \E b \in DOMAIN hdr' : b <= x /\ x < End(hdr', b)
    <3>1. PICK b \in DOMAIN hdr : b <= x /\ x < End(hdr, b)
      BY <1>2 DEF Laid
    <3>2. x \in Nat
      BY Sizes0
    <3>3. CASE b # p
      BY <1>7, <1>8, <3>1, <3>3
    <3>4. CASE b = p /\ x < newp
      BY <1>7, <1>8, <3>1, <3>4, <1>2
    <3>5. CASE b = p /\ newp <= x
      BY <1>3, <1>7, <1>8, <3>1, <3>5
    <3> QED BY <1>5, <3>2, <3>3, <3>4, <3>5
  <2> QED BY <1>1, <1>5, <1>7, <2>1, <2>2, <2>3, <2>4, Sizes0 DEF Laid
<1>10. Chained'
  <2> SUFFICES ASSUME NEW a \in DOMAIN hdr'
               PROVE  /\ End(hdr', a) <= MEMSIZE
                      /\ hdr'[a].next = IF End(hdr', a) = MEMSIZE THEN Base
                                        ELSE End(hdr', a)
                      /\ hdr'[a].next \in DOMAIN hdr'
                      /\ \A b \in DOMAIN hdr' : a < b => End(hdr', a) <= b
    BY DEF Chained
  <2>1. CASE a = newp
    <3>1. \A b \in DOMAIN hdr' : newp < b => e <= b
      <4> SUFFICES ASSUME NEW b \in DOMAIN hdr, newp < b PROVE e <= b
        BY <1>5, <1>7
      <4> QED BY <1>3, <1>5, BlockFacts
    <3> QED BY <1>3, <1>7, <1>8, <2>1, <3>1
  <2>2. CASE a = p
    <3>1. \A b \in DOMAIN hdr' : p < b => newp <= b
      <4> SUFFICES ASSUME NEW b \in DOMAIN hdr, p < b PROVE newp <= b
        BY <1>5, <1>7
      <4> QED BY <1>3, <1>5, BlockFacts
    <3>2. hdr'[p].next = newp /\ End(hdr', p) = newp /\ newp \in DOMAIN hdr'
      BY <1>7, <1>8
    <3>3. newp <= MEMSIZE /\ newp # MEMSIZE
      BY <1>3, <1>5, Sizes0
    <3> QED BY <2>2, <3>1, <3>2, <3>3
  <2>3. CASE a \in DOMAIN hdr \ {p}
    <3>1. /\ a \in Nat /\ End(hdr, a) \in Nat /\ End(hdr, a) <= MEMSIZE
          /\ hdr[a].next \in DOMAIN hdr
          /\ hdr[a].next = IF End(hdr, a) = MEMSIZE THEN Base ELSE End(hdr, a)
          /\ \A b \in DOMAIN hdr : a < b => End(hdr, a) <= b
      BY <2>3, BlockFacts
    <3>2. a < newp => End(hdr, a) <= newp
      <4>1. a < p => End(hdr, a) <= p
        BY <1>2, <3>1
      <4>2. p < a => e <= a
        BY <1>3, <2>3
      <4> QED BY <1>3, <1>5, <2>3, <3>1, <4>1, <4>2
    <3> QED BY <1>7, <1>8, <2>3, <3>1, <3>2
  <2> QED BY <1>7, <2>1, <2>2, <2>3
<1> QED BY <1>1, <1>5, <1>9, <1>10 DEF Walks

(***************************************************************************)
(* pFree.                                                                  *)
(***************************************************************************)
LEMMA PFreeStep ==
  ASSUME PoolInv, NEW bp, bp # Base, PFree(bp)
  PROVE  PoolInv'
<1> USE DEF PoolInv
<1>1. /\ pc' = "pFree" /\ memptr # Null /\ arg' = bp /\ prev' = memptr
      /\ p' = hdr[memptr].next
      /\ UNCHANGED <<ring, hdr, memptr, owned, answer>>
  BY DEF PFree, ring
<1>2. memptr \in DOMAIN hdr /\ hdr[memptr].next \in DOMAIN hdr
  BY <1>1, BlockFacts DEF Laid
<1>3. ASSUME NEW a \in DOMAIN hdr PROVE ~Looked(a)'
  <2>1. PICK e \in Nat : /\ memptr \in Nat /\ memptr < e /\ e <= MEMSIZE
                         /\ hdr[memptr].next = IF e = MEMSIZE THEN 0 ELSE e
                         /\ \A b \in DOMAIN hdr : memptr < b => e <= b
    BY <1>2, BlockFacts, Sizes0
  <2>2. a \in Nat /\ a < MEMSIZE /\ (memptr < a => e <= a)
    BY <2>1, BlockFacts
  <2>3. ~(IF memptr < p' THEN memptr < a /\ a < p' ELSE memptr < a \/ a < p')
    BY <1>1, <2>1, <2>2
  <2> QED BY <1>1, <2>3 DEF Looked
<1> QED BY <1>1, <1>2, <1>3, RingStays DEF Walks

LEMMA FreeNextStep ==
  ASSUME PoolInv, FreeNext
  PROVE  PoolInv'
<1> USE DEF PoolInv
<1>1. /\ pc = "pFree" /\ prev' = p /\ p' = hdr[p].next /\ p # arg /\ p # memptr
      /\ UNCHANGED <<ring, hdr, memptr, pc, arg, owned, answer>>
  BY DEF FreeNext, ring
<1>2. p \in DOMAIN hdr /\ hdr[p].next \in DOMAIN hdr
  BY <1>1, BlockFacts DEF Walks
<1>3. ASSUME NEW a \in DOMAIN hdr, Looked(a)' PROVE Looked(a) \/ a = p
  <2>1. PICK e \in Nat : /\ p \in Nat /\ p < e /\ e <= MEMSIZE
                         /\ hdr[p].next = IF e = MEMSIZE THEN 0 ELSE e
                         /\ \A b \in DOMAIN hdr : p < b => e <= b
    BY <1>2, BlockFacts, Sizes0
  <2>2. a \in Nat /\ a < MEMSIZE /\ (p < a => e <= a)
    BY <2>1, BlockFacts
  <2>3. memptr \in DOMAIN hdr
    BY <1>1 DEF Walks, Laid
  <2>4. memptr \in Nat /\ memptr < MEMSIZE /\ (p < memptr => e <= memptr)
    BY <2>1, <2>3, BlockFacts
  <2>5. IF memptr < p' THEN memptr < a /\ a < p' ELSE memptr < a \/ a < p'
    BY <1>1, <1>3 DEF Looked
  <2> QED BY <1>1, <2>1, <2>2, <2>4, <2>5 DEF Looked
<1>4. \A a \in DOMAIN hdr : Looked(a)' => a # arg
  BY <1>1, <1>3 DEF Walks
<1> QED BY <1>1, <1>2, <1>4, RingStays DEF Walks

LEMMA FreeUnknownStep ==
  ASSUME PoolInv, FreeUnknown
  PROVE  PoolInv'
BY RingStays DEF PoolInv, FreeUnknown, Walks

(* When the search has come round, bp is no block of the ring.             *)
LEMMA NotFound ==
  ASSUME PoolInv, FreeUnknown
  PROVE  arg \notin owned
<1>1. /\ pc = "pFree" /\ p # arg /\ p = memptr
  BY DEF FreeUnknown
<1>2. p \in DOMAIN hdr /\ memptr \in Nat
  BY <1>1, Sizes0 DEF PoolInv, Walks, Laid
<1>3. ASSUME NEW a \in DOMAIN hdr PROVE Looked(a) \/ a = p
  BY <1>1, <1>2, BlockFacts DEF Looked, PoolInv
<1>4. arg \notin DOMAIN hdr
  BY <1>1, <1>3 DEF PoolInv, Walks
<1> QED BY <1>4 DEF PoolInv, Laid

(* The block and the units behind it go to the block before it.            *)
LEMMA FreeMergeStep ==
  ASSUME PoolInv, FreeMerge
  PROVE  PoolInv'
<1> USE DEF PoolInv
<1>1. /\ pc = "pFree" /\ p = arg /\ pc' = "idle"
      /\ hdr' = [a \in DOMAIN hdr \ {p} |->
               IF a = prev
               THEN [hdr[a] EXCEPT !.freesize = @ + hdr[p].usedsize + hdr[p].freesize,
                                   !.next = hdr[p].next]
               ELSE hdr[a]]
      /\ memptr' = prev /\ owned' = owned \ {p} /\ UNCHANGED answer
  BY DEF FreeMerge
<1>2. /\ p \in DOMAIN hdr /\ p # Base /\ prev \in DOMAIN hdr
      /\ hdr[prev].next = p
  BY <1>1 DEF Walks
<1>3. PICK e \in Nat, u \in Nat, f \in Nat :
        /\ e = End(hdr, p) /\ u = hdr[p].usedsize /\ f = hdr[p].freesize
        /\ p \in Nat /\ p < e /\ e <= MEMSIZE
        /\ hdr[p].next \in DOMAIN hdr
        /\ hdr[p].next = IF e = MEMSIZE THEN Base ELSE e
        /\ \A b \in DOMAIN hdr : p < b => e <= b
  BY <1>2, BlockFacts
<1>4. PICK v \in Nat, g \in Nat :
        /\ v = hdr[prev].usedsize /\ g = hdr[prev].freesize /\ 1 <= v
        /\ prev \in Nat /\ prev < MEMSIZE /\ End(hdr, prev) = p
        /\ \A b \in DOMAIN hdr : prev < b => p <= b
  BY <1>2, BlockFacts
<1>5. p = prev + v + g /\ e = p + u + f
  BY <1>3, <1>4 DEF End
<1>6. /\ prev < p /\ g + u + f \in Nat /\ g + u + f <= MEMSIZE
      /\ prev + v + (g + u + f) = e
  <2>1. /\ g \in Nat /\ u \in Nat /\ f \in Nat /\ v \in Nat /\ 1 <= v
        /\ prev \in Nat /\ p \in Nat /\ e \in Nat /\ e <= MEMSIZE
    BY <1>3, <1>4
  <2> QED BY <1>5, <2>1, Sizes0
<1>7. /\ DOMAIN hdr' = DOMAIN hdr \ {p} /\ prev \in DOMAIN hdr'
      /\ hdr'[prev] = [next |-> hdr[p].next, usedsize |-> v, freesize |-> g + u + f]
      /\ \A a \in DOMAIN hdr' \ {prev} : hdr'[a] = hdr[a]
  <2>1. hdr[prev] \in Header
    BY <1>2 DEF Laid
  <2>2. [hdr[prev] EXCEPT !.freesize = @ + u + f, !.next = hdr[p].next]
          = [next |-> hdr[p].next, usedsize |-> hdr[prev].usedsize,
             freesize |-> hdr[prev].freesize + u + f]
    <3>1. [hdr[prev] EXCEPT !.freesize = @ + u + f, !.next = hdr[p].next]
            = [hdr[prev] EXCEPT !.freesize = hdr[prev].freesize + u + f,
                                !.next = hdr[p].next]
      OBVIOUS
    <3> QED BY <2>1, <3>1, HeaderExcept, Zenon
  <2>3. prev # p
    BY <1>3, <1>4, <1>6
  <2> QED BY <1>1, <1>2, <1>3, <1>4, <2>2, <2>3
<1>8. /\ End(hdr', prev) = e
      /\ \A a \in DOMAIN hdr' \ {prev} : End(hdr', a) = End(hdr, a)
  BY <1>6, <1>7 DEF End
<1>9. hdr[p].next \in DOMAIN hdr'
  <2>1. hdr[p].next # p
    BY <1>2, <1>3
  <2> QED BY <1>3, <1>7, <2>1
<1>10. Laid'
  <2>1. hdr' \in [DOMAIN hdr' -> Header] /\ DOMAIN hdr' \subseteq Addresses
    <3>1. hdr[p].next \in Addresses /\ v \in 1 .. MEMSIZE
      BY <1>2, <1>3, <1>4 DEF Laid, Header
    <3>2. hdr'[prev] \in Header
      BY <1>6, <1>7, <3>1, Sizes0 DEF Header
    <3>3. \A a \in DOMAIN hdr' : hdr'[a] \in Header
      BY <1>7, <3>2 DEF Laid
    <3>4. hdr' = [a \in DOMAIN hdr' |-> hdr'[a]]
      BY <1>1
    <3> QED BY <1>7, <3>3, <3>4 DEF Laid
  <2>2. DOMAIN hdr' \ {Base} = owned'
    BY <1>1, <1>7 DEF Laid
  <2>3. Base \in DOMAIN hdr' /\ hdr'[Base].usedsize = 1
    BY <1>2, <1>4, <1>7 DEF Laid
  <2>4. ASSUME NEW x \in Addresses
        PROVE  \E b \in DOMAIN hdr' : b <= x /\ x < End(hdr', b)
    <3>1. PICK b \in DOMAIN hdr : b <= x /\ x < End(hdr, b)
      BY <1>2 DEF Laid
    <3>2. x \in Nat
      BY Sizes0
    <3>3. CASE b \notin {p, prev}
      BY <1>7, <1>8, <3>1, <3>3
    <3>4. CASE b = p
      BY <1>3, <1>4, <1>6, <1>7, <1>8, <3>1, <3>2, <3>4
    <3>5. CASE b = prev
      BY <1>3, <1>4, <1>6, <1>7, <1>8, <3>1, <3>2, <3>5
    <3> QED BY <3>3, <3>4, <3>5
  <2> QED BY <1>1, <1>4, <1>7, <2>1, <2>2, <2>3, <2>4, Sizes0 DEF Laid
<1>11. Chained'
  <2> SUFFICES ASSUME NEW a \in DOMAIN hdr'
               PROVE  /\ End(hdr', a) <= MEMSIZE
                      /\ hdr'[a].next = IF End(hdr', a) = MEMSIZE THEN Base
                                        ELSE End(hdr', a)
                      /\ hdr'[a].next \in DOMAIN hdr'
                      /\ \A b \in DOMAIN hdr' : a < b => End(hdr', a) <= b
    BY DEF Chained
  <2>1. CASE a = prev
    <3>1. \A b \in DOMAIN hdr' : prev < b => e <= b
      <4> SUFFICES ASSUME NEW b \in DOMAIN hdr, b # p, prev < b PROVE e <= b
        BY <1>7
      <4> QED BY <1>3, <1>4, BlockFacts
    <3> QED BY <1>3, <1>7, <1>8, <1>9, <2>1, <3>1
  <2>2. CASE a # prev
    <3>1. a \in DOMAIN hdr /\ a # p
      BY <1>7
    <3>2. /\ a \in Nat /\ End(hdr, a) \in Nat /\ End(hdr, a) <= MEMSIZE
          /\ hdr[a].next \in DOMAIN hdr
          /\ hdr[a].next = IF End(hdr, a) = MEMSIZE THEN Base ELSE End(hdr, a)
          /\ \A b \in DOMAIN hdr : a < b => End(hdr, a) <= b
      BY <3>1, BlockFacts
    <3>3. hdr[a].next # p
      (* Only one block ends at p.                                         *)
      <4>1. a < prev => End(hdr, a) <= prev
        BY <1>2, <3>2
      <4>2. prev < a => p <= a
        BY <1>4, <3>1
      <4>3. End(hdr, a) # p
        BY <1>3, <1>4, <1>6, <2>2, <3>1, <3>2, <4>1, <4>2, BlockFacts
      <4> QED BY <1>2, <3>2, <4>3
    <3> QED BY <1>7, <1>8, <2>2, <3>1, <3>2, <3>3
  <2> QED BY <2>1, <2>2
<1> QED BY <1>1, <1>10, <1>11, <1>7 DEF Walks

(***************************************************************************)
(* The steps of all users.                                                 *)
(***************************************************************************)
LEMMA PoolStepStep ==
  ASSUME PoolInv, PoolStep
  PROVE  PoolInv'
BY MallocNextStep, MallocNullStep, MallocSplitStep, FreeNextStep,
   FreeUnknownStep, FreeMergeStep DEF PoolStep

LEMMA PoolUnchanged ==
  ASSUME PoolInv, UNCHANGED pool
  PROVE  PoolInv'
<1>1. UNCHANGED <<ring, hdr, memptr, pc, arg, p, prev, owned, answer>>
  BY DEF pool, ring
<1>2. Laid' /\ Chained'
  BY <1>1, RingStays DEF PoolInv
<1>3. Walks'
  BY <1>1 DEF PoolInv, Walks, Passed, Looked, Start
<1> QED BY <1>1, <1>2, <1>3 DEF PoolInv

-----------------------------------------------------------------------------
(***************************************************************************)
(* The layout of a table in its buckets.                                   *)
(***************************************************************************)
EltSizes(t) == [j \in DOMAIN t |-> EltSize(t[j])]
BucketLens(t, s) == [b \in 0 .. s - 1 |-> BucketLen(t, s, b)]

(* The bucket of name j, and the number of bytes of the names in bucket b. *)
BucketOf(t, s, j) == t[j].hash % s
BytesIn(t, s, b) == SumOf(t, InBucket(t, s, b))

LEMMA AlignUp ==
  ASSUME NEW d \in Nat
  PROVE  /\ Align(d, 8) \in Nat /\ d <= Align(d, 8) /\ Multiple(8, Align(d, 8))
         /\ Align(d, 32) \in Nat /\ d <= Align(d, 32) /\ Align(d, 32) <= d + 31
         /\ Multiple(32, Align(d, 32))
<1> DEFINE k == (d + 8 - 1) \div 8
           m == (d + 32 - 1) \div 32
<1>1. k \in Nat /\ d <= 8 * k /\ m \in Nat /\ d <= 32 * m /\ 32 * m <= d + 31
  OBVIOUS
<1>2. Align(d, 8) = 8 * k /\ Align(d, 32) = 32 * m
  BY DEF Align
<1> HIDE DEF k, m
<1> QED BY <1>1, <1>2 DEF Multiple

(* A slot has room for the value, the length and the name, and its end is  *)
(* where hash_find looks for the next one.                                 *)
LEMMA EltSizeIs ==
  ASSUME NEW n \in Names
  PROVE  /\ EltSize(n) \in Nat /\ n.len \in Nat /\ n.hash \in Nat
         /\ PtrSize + 2 + n.len <= EltSize(n) /\ Multiple(8, EltSize(n))
         /\ \A a \in Nat : Multiple(8, a) =>
              Align(a + PtrSize + 2 + n.len, PtrSize) = a + EltSize(n)
<1>1. n.len \in Nat /\ n.hash \in Nat
  BY NamesAssumption
<1>2. PICK l \in Nat : l = n.len + 2
  BY <1>1
<1>3. EltSize(n) = 8 + Align(l, 8) /\ PtrSize = 8
  BY <1>2 DEF EltSize, PtrSize
<1>4. PICK k \in Nat : Align(l, 8) = 8 * k /\ l <= 8 * k
  BY AlignUp DEF Multiple
<1>5. EltSize(n) = 8 * (k + 1) /\ k + 1 \in Nat
  BY <1>3, <1>4
<1>6. ASSUME NEW a \in Nat, Multiple(8, a)
      PROVE  Align(a + PtrSize + 2 + n.len, PtrSize) = a + EltSize(n)
  <2>1. PICK m \in Nat : a = 8 * m
    BY <1>6 DEF Multiple
  <2>2. Align(l, 8) = ((l + 7) \div 8) * 8
    BY DEF Align
  <2>3. Align(a + PtrSize + 2 + n.len, PtrSize) = ((8 * m + 8 + l + 7) \div 8) * 8
    BY <1>1, <1>2, <1>3, <2>1 DEF Align
  <2>4. PICK w \in Nat : w = (l + 7) \div 8
    OBVIOUS
  <2>5. (8 * m + 8 + l + 7) \div 8 = m + 1 + w
    BY <2>4
  <2>6. (m + 1 + w) * 8 = 8 * m + (8 + w * 8)
    OBVIOUS
  <2>7. a + EltSize(n) = 8 * m + (8 + w * 8)
    BY <1>3, <2>1, <2>2, <2>4
  <2> QED BY <2>3, <2>5, <2>6, <2>7
<1>7. EltSize(n) \in Nat /\ Multiple(8, EltSize(n))
  BY <1>5 DEF Multiple
<1>8. PtrSize + 2 + n.len <= EltSize(n)
  BY <1>1, <1>2, <1>3, <1>4
<1> QED BY <1>1, <1>6, <1>7, <1>8

LEMMA TableFacts ==
  ASSUME NEW t \in Seq(Names)
  PROVE  /\ DOMAIN t = 1 .. Len(t) /\ Len(t) \in Nat /\ IsFiniteSet(DOMAIN t)
         /\ \A j \in DOMAIN t : t[j] \in Names
         /\ \A j \in DOMAIN t : EltSizes(t)[j] = EltSize(t[j]) /\ EltSizes(t)[j] \in Nat
         /\ \A j \in DOMAIN t : Multiple(8, EltSizes(t)[j])
<1>1. DOMAIN t = 1 .. Len(t) /\ Len(t) \in Nat /\ \A j \in DOMAIN t : t[j] \in Names
  OBVIOUS
<1>2. IsFiniteSet(1 .. Len(t))
  BY <1>1, FS_Interval
<1> QED BY <1>1, <1>2, EltSizeIs DEF EltSizes

(* The sums of the model are sums in the sense of SetSums.                 *)
LEMMA SumOfIs ==
  ASSUME NEW t, NEW J \in SUBSET DOMAIN t, IsFiniteSet(J)
  PROVE  SumOf(t, J) = Sum(EltSizes(t), J)
<1> DEFINE g == EltSizes(t)
           F(f) == [s \in SUBSET J |-> IF s = {} THEN 0
                                       ELSE EltSize(t[First(s)]) + f[s \ {First(s)}]]
           G(f) == [s \in SUBSET J |-> IF s = {} THEN 0
                                       ELSE g[First(s)] + f[s \ {First(s)}]]
<1>1. SumOf(t, J) = (CHOOSE f : f = F(f))[J]
  BY DEF SumOf, MapThenSumSet, MapThenFoldSet, First
<1>2. Sum(g, J) = (CHOOSE f : f = G(f))[J]
  BY DEF Sum, MapThenSumSet, MapThenFoldSet, First
<1>3. \A f : F(f) = G(f)
  <2> TAKE f
  <2>1. \A s \in SUBSET J : s # {} => g[First(s)] = EltSize(t[First(s)])
    BY FirstIn DEF EltSizes
  <2> HIDE DEF g
  <2> QED BY <2>1
<1> HIDE DEF F, G, g
<1>4. (CHOOSE f : f = F(f)) = (CHOOSE f : f = G(f))
  BY <1>3
<1> QED BY <1>1, <1>2, <1>4 DEF g

LEMMA LensIs ==
  ASSUME NEW t, NEW s, NEW B \in SUBSET (0 .. s - 1)
  PROVE  MapThenSumSet(LAMBDA b : BucketLen(t, s, b), B) = Sum(BucketLens(t, s), B)
<1> DEFINE g == BucketLens(t, s)
           F(f) == [r \in SUBSET B |-> IF r = {} THEN 0
                                       ELSE BucketLen(t, s, First(r)) + f[r \ {First(r)}]]
           G(f) == [r \in SUBSET B |-> IF r = {} THEN 0
                                       ELSE g[First(r)] + f[r \ {First(r)}]]
<1>1. MapThenSumSet(LAMBDA b : BucketLen(t, s, b), B) = (CHOOSE f : f = F(f))[B]
  BY DEF MapThenSumSet, MapThenFoldSet, First
<1>2. Sum(g, B) = (CHOOSE f : f = G(f))[B]
  BY DEF Sum, MapThenSumSet, MapThenFoldSet, First
<1>3. \A f : F(f) = G(f)
  <2> TAKE f
  <2>1. \A r \in SUBSET B : r # {} => g[First(r)] = BucketLen(t, s, First(r))
    BY FirstIn DEF BucketLens
  <2> HIDE DEF g
  <2> QED BY <2>1
<1> HIDE DEF F, G, g
<1>4. (CHOOSE f : f = F(f)) = (CHOOSE f : f = G(f))
  BY <1>3
<1> QED BY <1>1, <1>2, <1>4 DEF g

(* The bytes of some names of a table, and of more of them.                *)
LEMMA SumOfFacts ==
  ASSUME NEW t \in Seq(Names), NEW J \in SUBSET DOMAIN t
  PROVE  /\ IsFiniteSet(J) /\ SumOf(t, J) \in Nat /\ Multiple(8, SumOf(t, J))
         /\ \A I \in SUBSET J : SumOf(t, I) <= SumOf(t, J) /\ SumOf(t, I) \in Nat
         /\ \A j \in DOMAIN t \ J : SumOf(t, J \cup {j}) = SumOf(t, J) + EltSize(t[j])
<1> DEFINE g == EltSizes(t)
<1>1. /\ IsFiniteSet(DOMAIN t) /\ \A j \in DOMAIN t : g[j] = EltSize(t[j])
      /\ \A j \in DOMAIN t : g[j] \in Nat /\ Multiple(8, g[j])
  BY TableFacts
<1>2. \A I \in SUBSET DOMAIN t : IsFiniteSet(I) /\ SumOf(t, I) = Sum(g, I)
  BY <1>1, FS_Subset, SumOfIs
<1> HIDE DEF g
<1>3. IntsOn(g, DOMAIN t)
  BY <1>1 DEF IntsOn
<1>4. \A I \in SUBSET J : Sum(g, I) <= Sum(g, J) /\ Sum(g, I) \in Nat
  <2>1. IsFiniteSet(J) /\ \A j \in J : g[j] \in Nat
    BY <1>1, <1>2
  <2> QED BY <2>1, SumOfPart
<1>5. Multiple(8, Sum(g, J))
  <2>1. IsFiniteSet(J) /\ 8 \in Nat /\ \A j \in J : Multiple(8, g[j])
    BY <1>1, <1>2
  <2> QED BY <2>1, SumOfMultiples
<1>6. ASSUME NEW j \in DOMAIN t \ J PROVE SumOf(t, J \cup {j}) = SumOf(t, J) + EltSize(t[j])
  <2> DEFINE I == J \cup {j}
  <2>1. Sum(g, I) = Sum(g, J) + g[j]
    BY <1>1, <1>3, SumMore
  <2>2. I \in SUBSET DOMAIN t
    OBVIOUS
  <2> HIDE DEF I
  <2>3. SumOf(t, I) = Sum(g, I)
    BY <1>2, <2>2
  <2> QED BY <1>1, <1>2, <2>1, <2>3 DEF I
<1> QED BY <1>2, <1>4, <1>5, <1>6

LEMMA Remainder ==
  ASSUME NEW h \in Nat, NEW s \in Nat \ {0}
  PROVE  h % s \in 0 .. s - 1
OBVIOUS

LEMMA BucketFacts ==
  ASSUME NEW t \in Seq(Names), NEW s \in Nat \ {0}, NEW b \in 0 .. s - 1
  PROVE  /\ InBucket(t, s, b) \in SUBSET DOMAIN t
         /\ BytesIn(t, s, b) \in Nat /\ Multiple(8, BytesIn(t, s, b))
         /\ BucketLen(t, s, b) \in Nat /\ Multiple(8, BucketLen(t, s, b))
         /\ InBucket(t, s, b) # {} => BytesIn(t, s, b) + 8 <= BucketLen(t, s, b)
<1>1. InBucket(t, s, b) \in SUBSET DOMAIN t
  BY DEF InBucket
<1>2. BytesIn(t, s, b) \in Nat /\ Multiple(8, BytesIn(t, s, b))
  BY <1>1, SumOfFacts DEF BytesIn
<1>3. PICK d \in Nat : d = PtrSize + BytesIn(t, s, b)
  BY <1>2 DEF PtrSize
<1>4. BucketLen(t, s, b) = IF InBucket(t, s, b) = {} THEN 0 ELSE Align(d, 32)
  BY <1>3 DEF BucketLen, BytesIn, CachelineSize
<1>5. PICK k \in Nat : Align(d, 32) = 32 * k /\ d <= Align(d, 32)
  BY AlignUp DEF Multiple
<1>6. \E m, n \in Nat : Align(d, 32) = 8 * m /\ 0 = 8 * n
  <2>1. PICK m \in Nat : m = 4 * k
    OBVIOUS
  <2>2. PICK n \in Nat : n = 0
    OBVIOUS
  <2>3. Align(d, 32) = 8 * m /\ 0 = 8 * n
    BY <1>5, <2>1, <2>2
  <2> QED BY <2>3
<1>7. BucketLen(t, s, b) \in Nat /\ Multiple(8, BucketLen(t, s, b))
  <2>1. Multiple(8, 0) /\ Multiple(8, Align(d, 32))
    BY <1>6 DEF Multiple
  <2> QED BY <1>4, <1>5, <2>1
<1>8. InBucket(t, s, b) # {} => BytesIn(t, s, b) + 8 <= BucketLen(t, s, b)
  <2>1. d = 8 + BytesIn(t, s, b)
    BY <1>3 DEF PtrSize
  <2>2. ASSUME InBucket(t, s, b) # {} PROVE BucketLen(t, s, b) = Align(d, 32)
    BY <1>4, <2>2
  <2> QED BY <1>2, <1>5, <2>1, <2>2
<1> QED BY <1>1, <1>2, <1>7, <1>8

(* The buckets lie one behind the other from base on.                      *)
LaidOut(t, s, at, base) ==
  at = [b \in {c \in 0 .. s - 1 : InBucket(t, s, c) # {}}
          |-> base + Sum(BucketLens(t, s), 0 .. b - 1)]

BucketsLie(t, s, at, base) ==
  \A b \in DOMAIN at :
    /\ b \in 0 .. s - 1 /\ InBucket(t, s, b) # {}
    /\ at[b] \in Nat /\ Multiple(8, at[b]) /\ base <= at[b]
    /\ at[b] + BucketLen(t, s, b) <= base + TableLen(t, s)
    /\ \A c \in DOMAIN at : b < c => at[b] + BucketLen(t, s, b) <= at[c]

LEMMA BucketsApart ==
  ASSUME NEW t \in Seq(Names), NEW s \in Nat \ {0}, NEW base \in Nat,
         Multiple(8, base), NEW at, LaidOut(t, s, at, base)
  PROVE  BucketsLie(t, s, at, base)
<1> DEFINE g == BucketLens(t, s)
           S == 0 .. s - 1
<1>1. IsFiniteSet(S) /\ \A b \in Nat : IsFiniteSet(0 .. b - 1)
  <2>1. \A b \in Nat \cup {s} : 0 \in Int /\ b - 1 \in Int
    OBVIOUS
  <2> QED BY <2>1, FS_Interval
<1>2. \A b \in S : g[b] = BucketLen(t, s, b) /\ g[b] \in Nat /\ Multiple(8, g[b])
  BY BucketFacts DEF BucketLens
<1>3. TableLen(t, s) = Sum(g, S)
  <2>1. S \in SUBSET S
    OBVIOUS
  <2> QED BY <2>1, LensIs DEF TableLen
<1>4. \A b \in DOMAIN at : b \in S /\ InBucket(t, s, b) # {} /\ at[b] = base + Sum(g, 0 .. b - 1)
  BY DEF LaidOut
<1> HIDE DEF g
<1>5. IntsOn(g, S)
  BY <1>2 DEF IntsOn
<1>6. ASSUME NEW b \in S
      PROVE  /\ Sum(g, 0 .. b - 1) \in Nat /\ Multiple(8, Sum(g, 0 .. b - 1))
             /\ Sum(g, 0 .. b) = Sum(g, 0 .. b - 1) + g[b]
             /\ \A c \in S : b < c => Sum(g, 0 .. b) <= Sum(g, 0 .. c - 1)
             /\ Sum(g, 0 .. b) <= Sum(g, S)
  <2> DEFINE B == 0 .. b - 1
  <2>1. B \in SUBSET S /\ b \in S \ B /\ B \cup {b} = 0 .. b /\ IsFiniteSet(B)
    BY <1>1
  <2> HIDE DEF B
  <2>2. Sum(g, B \cup {b}) = Sum(g, B) + g[b]
    BY <1>1, <1>5, <2>1, SumMore
  <2>3. Sum(g, B) \in Nat
    BY <1>1, <1>2, <2>1, SumOfPart
  <2>4. Multiple(8, Sum(g, B))
    <3>1. \A x \in B : Multiple(8, g[x])
      BY <1>2, <2>1
    <3>2. 8 \in Nat
      OBVIOUS
    <3> QED BY <2>1, <3>1, <3>2, SumOfMultiples
  <2>5. ASSUME NEW U \in SUBSET S, 0 .. b \subseteq U PROVE Sum(g, 0 .. b) <= Sum(g, U)
    <3> DEFINE V == 0 .. b
    <3>1. IsFiniteSet(U) /\ \A x \in U : g[x] \in Nat
      BY <1>1, <1>2, FS_Subset
    <3>2. V \in SUBSET U
      BY <2>5
    <3> HIDE DEF V
    <3>3. Sum(g, V) <= Sum(g, U)
      BY <3>1, <3>2, SumOfPart
    <3> QED BY <3>3 DEF V
  <2>6. ASSUME NEW c \in S, b < c PROVE Sum(g, 0 .. b) <= Sum(g, 0 .. c - 1)
    <3> DEFINE U == 0 .. c - 1
    <3>1. U \in SUBSET S /\ 0 .. b \subseteq U
      BY <2>6
    <3> HIDE DEF U
    <3>2. Sum(g, 0 .. b) <= Sum(g, U)
      BY <2>5, <3>1
    <3> QED BY <3>2 DEF U
  <2>7. Sum(g, 0 .. b) <= Sum(g, S)
    <3>1. S \in SUBSET S /\ 0 .. b \subseteq S
      OBVIOUS
    <3> QED BY <2>5, <3>1
  <2>8. Sum(g, 0 .. b) = Sum(g, B) + g[b]
    BY <2>1, <2>2, Zenon
  <2> QED BY <2>3, <2>4, <2>6, <2>7, <2>8 DEF B
<1>7. Sum(g, S) \in Nat
  <2>1. S \in SUBSET S
    OBVIOUS
  <2> QED BY <1>1, <1>2, <2>1, SumOfPart
<1> SUFFICES ASSUME NEW b \in DOMAIN at
             PROVE  /\ b \in 0 .. s - 1 /\ InBucket(t, s, b) # {}
                    /\ at[b] \in Nat /\ Multiple(8, at[b]) /\ base <= at[b]
                    /\ at[b] + BucketLen(t, s, b) <= base + TableLen(t, s)
                    /\ \A c \in DOMAIN at : b < c => at[b] + BucketLen(t, s, b) <= at[c]
  BY DEF BucketsLie
<1>8. PICK x \in Nat : x = Sum(g, 0 .. b - 1) /\ Multiple(8, x) /\ at[b] = base + x
  BY <1>4, <1>6
<1>9. PICK y \in Nat : y = BucketLen(t, s, b) /\ y = g[b] /\ Sum(g, 0 .. b) = x + y
  BY <1>2, <1>4, <1>6, <1>8
<1>10. at[b] \in Nat /\ Multiple(8, at[b]) /\ base <= at[b]
  <2>1. PICK k \in Nat, m \in Nat : x = 8 * k /\ base = 8 * m
    BY <1>8 DEF Multiple
  <2>2. at[b] = 8 * (m + k) /\ m + k \in Nat
    BY <1>8, <2>1
  <2> QED BY <1>8, <2>2 DEF Multiple
<1>11. at[b] + BucketLen(t, s, b) <= base + TableLen(t, s)
  <2>1. x + y <= Sum(g, S)
    BY <1>4, <1>6, <1>9
  <2> QED BY <1>3, <1>7, <1>8, <1>9, <2>1, SMTT(30)
<1>12. ASSUME NEW c \in DOMAIN at, b < c PROVE at[b] + BucketLen(t, s, b) <= at[c]
  <2>1. PICK z \in Nat : z = Sum(g, 0 .. c - 1) /\ at[c] = base + z
    BY <1>4, <1>6
  <2>2. x + y <= z
    BY <1>4, <1>6, <1>9, <1>12, <2>1
  <2> QED BY <1>8, <1>9, <2>1, <2>2, SMTT(30)
<1> QED BY <1>4, <1>10, <1>11, <1>12

(* The slots of a bucket lie one behind the other from its beginning, and  *)
(* the mark behind them.                                                   *)
Before(t, s, j) == {k \in InBucket(t, s, BucketOf(t, s, j)) : k < j}
Mark(t, s, at, b) == at[b] + BytesIn(t, s, b)

SlotLies(t, s, at, j) ==
  /\ BucketOf(t, s, j) \in DOMAIN at /\ j \in InBucket(t, s, BucketOf(t, s, j))
  /\ SlotAt(t, s, j, at) = at[BucketOf(t, s, j)] + SumOf(t, Before(t, s, j))
  /\ SlotAt(t, s, j, at) \in Nat /\ at[BucketOf(t, s, j)] <= SlotAt(t, s, j, at)
  /\ Multiple(8, SlotAt(t, s, j, at))
  /\ SlotAt(t, s, j, at) + EltSize(t[j]) <= Mark(t, s, at, BucketOf(t, s, j))
  /\ \A k \in InBucket(t, s, BucketOf(t, s, j)) :
       k < j => SlotAt(t, s, k, at) + EltSize(t[k]) <= SlotAt(t, s, j, at)

LEMMA SlotsLie ==
  ASSUME NEW t \in Seq(Names), NEW s \in Nat \ {0}, NEW base \in Nat,
         Multiple(8, base), NEW at, LaidOut(t, s, at, base), NEW j \in DOMAIN t
  PROVE  SlotLies(t, s, at, j)
<1> DEFINE b == BucketOf(t, s, j)
           J == InBucket(t, s, b)
<1>1. t[j] \in Names /\ t[j].hash \in Nat /\ EltSize(t[j]) \in Nat /\ j \in Nat
  BY TableFacts, EltSizeIs
<1>2. b \in 0 .. s - 1 /\ j \in J /\ J \in SUBSET DOMAIN t
  BY <1>1, Remainder DEF BucketOf, InBucket
<1>3. b \in DOMAIN at
  BY <1>2 DEF LaidOut
<1>4. PICK x \in Nat : x = at[b] /\ Multiple(8, x)
  BY <1>3, BucketsApart DEF BucketsLie
<1>5. ASSUME NEW k \in J
      PROVE  /\ BucketOf(t, s, k) = b /\ k \in Nat
             /\ Before(t, s, k) \in SUBSET J /\ k \notin Before(t, s, k)
             /\ SlotAt(t, s, k, at) = x + SumOf(t, Before(t, s, k))
  <2>1. BucketOf(t, s, k) = b
    BY DEF BucketOf, InBucket
  <2>2. k \in Nat
    BY <1>2, TableFacts
  <2> QED BY <1>4, <2>1, <2>2 DEF Before, SlotAt, BucketOf
<1>6. ASSUME NEW k \in J, NEW I \in SUBSET J, Before(t, s, k) \cup {k} \subseteq I
      PROVE  SlotAt(t, s, k, at) + EltSize(t[k]) <= x + SumOf(t, I)
  <2> DEFINE B == Before(t, s, k)
             C == B \cup {k}
  <2>1. B \in SUBSET DOMAIN t /\ k \in DOMAIN t \ B /\ I \in SUBSET DOMAIN t
    BY <1>2, <1>5
  <2>2. SlotAt(t, s, k, at) = x + SumOf(t, B)
    BY <1>5
  <2> HIDE DEF B
  <2>3. SumOf(t, C) = SumOf(t, B) + EltSize(t[k]) /\ SumOf(t, B) \in Nat
    BY <2>1, SumOfFacts
  <2>4. C \in SUBSET I
    BY <1>6 DEF B
  <2> HIDE DEF C
  <2>5. SumOf(t, C) <= SumOf(t, I) /\ SumOf(t, I) \in Nat /\ SumOf(t, C) \in Nat
    BY <2>1, <2>4, SumOfFacts
  <2>6. EltSize(t[k]) \in Nat
    BY <2>1, TableFacts, EltSizeIs
  <2> QED BY <2>2, <2>3, <2>5, <2>6
<1>7. PICK y \in Nat : y = SumOf(t, Before(t, s, j)) /\ Multiple(8, y)
  BY <1>2, <1>5, SumOfFacts
<1>8. SlotAt(t, s, j, at) = x + y
  BY <1>2, <1>5, <1>7
<1>9. Multiple(8, x + y)
  <2>1. PICK k \in Nat, m \in Nat : x = 8 * k /\ y = 8 * m
    BY <1>4, <1>7 DEF Multiple
  <2>2. x + y = 8 * (k + m) /\ k + m \in Nat
    BY <2>1
  <2> QED BY <2>2 DEF Multiple
<1>10. SlotAt(t, s, j, at) + EltSize(t[j]) <= x + BytesIn(t, s, b)
  <2>1. Before(t, s, j) \cup {j} \subseteq J /\ J \in SUBSET J
    BY <1>2, <1>5
  <2> HIDE DEF J
  <2>2. SlotAt(t, s, j, at) + EltSize(t[j]) <= x + SumOf(t, J)
    BY <1>2, <1>6, <2>1
  <2> QED BY <2>2 DEF BytesIn, J
<1>11. ASSUME NEW k \in J, k < j
       PROVE  SlotAt(t, s, k, at) + EltSize(t[k]) <= SlotAt(t, s, j, at)
  <2> DEFINE I == Before(t, s, j)
  <2>1. I \in SUBSET J /\ Before(t, s, k) \cup {k} \subseteq I
    <3>1. \A m \in J : m \in Nat
      BY <1>5
    <3>2. Before(t, s, k) = {m \in J : m < k} /\ I = {m \in J : m < j}
      BY <1>2, <1>5 DEF Before
    <3>3. j \in Nat /\ k \in Nat
      BY <1>1, <3>1
    <3>4. I \in SUBSET J /\ k \in I
      BY <1>11, <3>2
    <3>5. ASSUME NEW m \in Before(t, s, k) PROVE m \in I
      <4>1. m \in J /\ m < k /\ m \in Nat
        BY <3>1, <3>2
      <4>2. m < j
        BY <1>11, <3>3, <4>1
      <4> QED BY <3>2, <4>1, <4>2
    <3> HIDE DEF I
    <3> QED BY <3>4, <3>5
  <2> HIDE DEF I
  <2>2. SlotAt(t, s, k, at) + EltSize(t[k]) <= x + SumOf(t, I)
    BY <1>6, <2>1
  <2> QED BY <1>7, <1>8, <2>2 DEF I
<1> HIDE DEF J
<1>12. \A k \in J : k < j => SlotAt(t, s, k, at) + EltSize(t[k]) <= SlotAt(t, s, j, at)
  BY <1>11
<1> QED BY <1>2, <1>3, <1>4, <1>7, <1>8, <1>9, <1>10, <1>12 DEF SlotLies, Mark, J

(* No two slots or marks meet, and none leaves the buckets.                *)
NothingMeets(t, s, at, base) ==
  /\ \A j \in DOMAIN t :
       /\ SlotAt(t, s, j, at) \in Nat /\ base <= SlotAt(t, s, j, at)
       /\ SlotAt(t, s, j, at) + EltSize(t[j]) <= base + TableLen(t, s)
       /\ \A k \in DOMAIN t : j < k =>
            \/ SlotAt(t, s, j, at) + EltSize(t[j]) <= SlotAt(t, s, k, at)
            \/ SlotAt(t, s, k, at) + EltSize(t[k]) <= SlotAt(t, s, j, at)
       /\ \A b \in DOMAIN at :
            \/ SlotAt(t, s, j, at) + EltSize(t[j]) <= Mark(t, s, at, b)
            \/ Mark(t, s, at, b) + 8 <= SlotAt(t, s, j, at)
  /\ \A b \in DOMAIN at :
       /\ Mark(t, s, at, b) \in Nat /\ base <= Mark(t, s, at, b)
       /\ Mark(t, s, at, b) + 8 <= base + TableLen(t, s)
       /\ \A c \in DOMAIN at : b < c => Mark(t, s, at, b) + 8 <= Mark(t, s, at, c)

LEMMA TableLenIs ==
  ASSUME NEW t \in Seq(Names), NEW s \in Nat \ {0}
  PROVE  TableLen(t, s) \in Nat
<1> DEFINE g == BucketLens(t, s)
           S == 0 .. s - 1
<1>1. IsFiniteSet(S) /\ S \in SUBSET S
  BY FS_Interval
<1>2. \A b \in S : g[b] \in Nat
  BY BucketFacts DEF BucketLens
<1>3. TableLen(t, s) = Sum(g, S)
  BY <1>1, LensIs DEF TableLen
<1> HIDE DEF g
<1> QED BY <1>1, <1>2, <1>3, SumOfPart

LEMMA LayoutApart ==
  ASSUME NEW t \in Seq(Names), NEW s \in Nat \ {0}, NEW base \in Nat,
         Multiple(8, base), NEW at, LaidOut(t, s, at, base)
  PROVE  NothingMeets(t, s, at, base)
<1> DEFINE A(j) == SlotAt(t, s, j, at)
           Z(j) == SlotAt(t, s, j, at) + EltSize(t[j])
           B(j) == BucketOf(t, s, j)
           M(b) == Mark(t, s, at, b)
           E(b) == at[b] + BucketLen(t, s, b)
           T == base + TableLen(t, s)
<1>1. T \in Nat
  BY TableLenIs
<1>2. \A b \in DOMAIN at :
        /\ b \in Nat /\ at[b] \in Nat /\ M(b) \in Nat /\ E(b) \in Nat
        /\ base <= at[b] /\ at[b] <= M(b) /\ M(b) + 8 <= E(b) /\ E(b) <= T
        /\ \A c \in DOMAIN at : b < c => E(b) <= at[c]
  <2> TAKE b \in DOMAIN at
  <2>1. /\ b \in 0 .. s - 1 /\ InBucket(t, s, b) # {} /\ at[b] \in Nat
        /\ base <= at[b] /\ E(b) <= T /\ \A c \in DOMAIN at : b < c => E(b) <= at[c]
    BY BucketsApart DEF BucketsLie
  <2>2. /\ BytesIn(t, s, b) \in Nat /\ BucketLen(t, s, b) \in Nat
        /\ BytesIn(t, s, b) + 8 <= BucketLen(t, s, b)
    BY <2>1, BucketFacts
  <2> QED BY <2>1, <2>2 DEF Mark
<1>3. \A j \in DOMAIN t :
        /\ j \in Nat /\ B(j) \in DOMAIN at /\ A(j) \in Nat /\ Z(j) \in Nat
        /\ at[B(j)] <= A(j) /\ A(j) <= Z(j) /\ Z(j) <= M(B(j))
        /\ \A k \in DOMAIN t : B(k) = B(j) /\ k < j => Z(k) <= A(j)
  <2> TAKE j \in DOMAIN t
  <2>1. SlotLies(t, s, at, j)
    BY SlotsLie
  <2>2. j \in Nat /\ EltSize(t[j]) \in Nat
    BY TableFacts, EltSizeIs, SMTT(30)
  <2>3. ASSUME NEW k \in DOMAIN t, B(k) = B(j), k < j PROVE Z(k) <= A(j)
    <3>1. k \in InBucket(t, s, B(j))
      BY <2>3 DEF InBucket, BucketOf
    <3> QED BY <2>1, <2>3, <3>1 DEF SlotLies
  <2> QED BY <2>1, <2>2, <2>3 DEF SlotLies
<1> HIDE DEF A, Z, B, M, E, T
<1>4. ASSUME NEW j \in DOMAIN t
      PROVE  /\ A(j) \in Nat /\ base <= A(j) /\ Z(j) <= T
             /\ \A k \in DOMAIN t : j < k => Z(j) <= A(k) \/ Z(k) <= A(j)
             /\ \A b \in DOMAIN at : Z(j) <= M(b) \/ M(b) + 8 <= A(j)
  <2>1. PICK b \in DOMAIN at : b = B(j)
    BY <1>3
  <2>2. /\ A(j) \in Nat /\ Z(j) \in Nat /\ at[b] <= A(j) /\ A(j) <= Z(j) /\ Z(j) <= M(b)
    BY <1>3, <2>1
  <2>3. /\ at[b] \in Nat /\ M(b) \in Nat /\ E(b) \in Nat /\ b \in Nat
        /\ base <= at[b] /\ M(b) + 8 <= E(b) /\ E(b) <= T
        /\ \A c \in DOMAIN at : b < c => E(b) <= at[c]
    BY <1>2
  <2>4. base <= A(j) /\ Z(j) <= T
    BY <1>1, <2>2, <2>3
  <2>5. ASSUME NEW k \in DOMAIN t, j < k PROVE Z(j) <= A(k) \/ Z(k) <= A(j)
    <3>1. PICK c \in DOMAIN at : c = B(k)
      BY <1>3
    <3>2. A(k) \in Nat /\ Z(k) \in Nat /\ at[c] <= A(k) /\ A(k) <= Z(k) /\ Z(k) <= M(c)
      BY <1>3, <3>1
    <3>3. /\ at[c] \in Nat /\ M(c) \in Nat /\ E(c) \in Nat /\ c \in Nat
          /\ M(c) + 8 <= E(c) /\ (c < b => E(c) <= at[b])
      BY <1>2
    <3>4. CASE b = c
      BY <1>3, <2>1, <2>5, <3>1, <3>4
    <3>5. CASE b < c
      <4>1. E(b) <= at[c]
        BY <2>3, <3>5
      <4>2. Z(j) <= A(k)
        BY <2>2, <2>3, <3>2, <3>3, <4>1, SMTT(30)
      <4> QED BY <4>2
    <3>6. CASE c < b
      BY <2>2, <2>3, <3>2, <3>3, <3>6, SMTT(30)
    <3> QED BY <2>3, <3>3, <3>4, <3>5, <3>6
  <2>6. ASSUME NEW c \in DOMAIN at PROVE Z(j) <= M(c) \/ M(c) + 8 <= A(j)
    <3>1. /\ at[c] \in Nat /\ M(c) \in Nat /\ E(c) \in Nat /\ c \in Nat /\ at[c] <= M(c)
          /\ M(c) + 8 <= E(c) /\ (c < b => E(c) <= at[b])
      BY <1>2
    <3>2. b < c => E(b) <= at[c]
      BY <2>3
    <3> QED BY <2>2, <2>3, <3>1, <3>2, SMTT(30)
  <2> QED BY <2>2, <2>4, <2>5, <2>6
<1>5. ASSUME NEW b \in DOMAIN at
      PROVE  /\ M(b) \in Nat /\ base <= M(b) /\ M(b) + 8 <= T
             /\ \A c \in DOMAIN at : b < c => M(b) + 8 <= M(c)
  <2>1. /\ at[b] \in Nat /\ M(b) \in Nat /\ E(b) \in Nat
        /\ base <= at[b] /\ at[b] <= M(b) /\ M(b) + 8 <= E(b) /\ E(b) <= T
        /\ \A c \in DOMAIN at : b < c => E(b) <= at[c]
    BY <1>2
  <2>2. ASSUME NEW c \in DOMAIN at, b < c PROVE M(b) + 8 <= M(c)
    <3>1. at[c] \in Nat /\ M(c) \in Nat /\ at[c] <= M(c) /\ E(b) <= at[c]
      BY <1>2, <2>1, <2>2
    <3> QED BY <2>1, <3>1
  <2> QED BY <1>1, <2>1, <2>2
<1> QED BY <1>4, <1>5 DEF NothingMeets, A, Z, M, T

(* What is stored where.                                                   *)
IsFilled(t, s, at, sl) ==
  /\ DOMAIN sl = {SlotAt(t, s, j, at) : j \in DOMAIN t}
                 \cup {Mark(t, s, at, b) : b \in DOMAIN at}
  /\ \A j \in DOMAIN t :
       sl[SlotAt(t, s, j, at)] = [value |-> j, len |-> t[j].len, name |-> t[j].low]
  /\ \A b \in DOMAIN at :
       sl[Mark(t, s, at, b)] = [value |-> Null, len |-> 0, name |-> ""]

LEMMA EltPositive ==
  ASSUME NEW t \in Seq(Names), NEW j \in DOMAIN t
  PROVE  /\ j \in Nat /\ t[j].len \in Nat /\ EltSize(t[j]) \in Nat
         /\ 10 + t[j].len <= EltSize(t[j])
BY TableFacts, EltSizeIs DEF PtrSize

LEMMA FilledIs ==
  ASSUME NEW t \in Seq(Names), NEW s \in Nat \ {0}, NEW base \in Nat,
         Multiple(8, base), NEW at, LaidOut(t, s, at, base)
  PROVE  IsFilled(t, s, at, Filled(t, s, at))
<1> DEFINE A(j) == SlotAt(t, s, j, at)
           M(b) == Mark(t, s, at, b)
           places == {A(j) : j \in DOMAIN t}
           ends == {M(b) : b \in DOMAIN at}
           slot(j) == [value |-> j, len |-> t[j].len, name |-> t[j].low]
           F == [a \in places \cup ends |->
                   IF a \in ends THEN [value |-> Null, len |-> 0, name |-> ""]
                   ELSE slot(CHOOSE k \in DOMAIN t : A(k) = a)]
<1>1. Filled(t, s, at) = F
  BY DEF Filled, Mark, BytesIn
<1>2. \A j \in DOMAIN t : /\ j \in Nat /\ A(j) \in Nat /\ EltSize(t[j]) \in Nat
                          /\ 0 < EltSize(t[j])
  <2>1. \A j \in DOMAIN t : 0 < EltSize(t[j])
    <3> TAKE j \in DOMAIN t
    <3>1. t[j].len \in Nat /\ EltSize(t[j]) \in Nat /\ 10 + t[j].len <= EltSize(t[j])
      BY EltPositive
    <3> QED BY <3>1
  <2> QED BY <2>1, EltPositive, LayoutApart DEF NothingMeets
<1>3. \A b \in DOMAIN at : M(b) \in Nat
  BY LayoutApart DEF NothingMeets
<1>4. \A j \in DOMAIN t : A(j) \notin ends
  <2> SUFFICES ASSUME NEW j \in DOMAIN t, NEW b \in DOMAIN at, A(j) = M(b) PROVE FALSE
    OBVIOUS
  <2>1. A(j) + EltSize(t[j]) <= M(b) \/ M(b) + 8 <= A(j)
    BY LayoutApart DEF NothingMeets
  <2> HIDE DEF A, M
  <2> QED BY <1>2, <1>3, <2>1
<1>5. \A j, k \in DOMAIN t : A(j) = A(k) => j = k
  <2>1. ASSUME NEW j \in DOMAIN t, NEW k \in DOMAIN t, A(j) = A(k), j < k PROVE FALSE
    <3>1. A(j) + EltSize(t[j]) <= A(k) \/ A(k) + EltSize(t[k]) <= A(j)
      BY <2>1, LayoutApart DEF NothingMeets
    <3> HIDE DEF A
    <3> QED BY <1>2, <2>1, <3>1
  <2> HIDE DEF A
  <2> QED BY <1>2, <2>1
<1> HIDE DEF A, M
<1>6. \A j \in DOMAIN t : F[A(j)] = slot(j)
  <2> TAKE j \in DOMAIN t
  <2>1. (CHOOSE k \in DOMAIN t : A(k) = A(j)) = j
    BY <1>5
  <2>2. A(j) \in places
    OBVIOUS
  <2> HIDE DEF slot, places, ends
  <2> QED BY <1>4, <2>1, <2>2
<1>7. \A b \in DOMAIN at : F[M(b)] = [value |-> Null, len |-> 0, name |-> ""]
  <2> TAKE b \in DOMAIN at
  <2>1. M(b) \in ends
    OBVIOUS
  <2> HIDE DEF slot, places, ends
  <2> QED BY <2>1
<1>8. DOMAIN F = places \cup ends
  OBVIOUS
<1> HIDE DEF F
<1> QED BY <1>1, <1>6, <1>7, <1>8 DEF IsFilled, A, M

(* Different elements have different images.                               *)
LEMMA ImageCount ==
  ASSUME NEW S, IsFiniteSet(S), NEW f, \A x, y \in S : f[x] = f[y] => x = y
  PROVE  /\ IsFiniteSet({f[x] : x \in S})
         /\ Cardinality({f[x] : x \in S}) = Cardinality(S)
<1> DEFINE T == {f[x] : x \in S}
           g == [x \in S |-> f[x]]
<1>1. g \in Bijection(S, T)
  BY DEF Bijection, Injection, Surjection, IsInjective
<1>2. ExistsBijection(S, T)
  BY <1>1 DEF ExistsBijection
<1> HIDE DEF T
<1>3. IsFiniteSet(T) /\ Cardinality(T) = Cardinality(S)
  BY <1>2, FS_Bijection
<1> QED BY <1>3 DEF T

(* A finished table.                                                       *)
Finished(base) ==
  /\ names \in Seq(Names) /\ size \in Nat \ {0}
  /\ base \in Nat /\ Multiple(8, base)
  /\ LaidOut(names, size, bucket, base) /\ slots = Filled(names, size, bucket)

(* The bytes that are written at an address are those of a slot or a mark. *)
EndOf(a) == a + (IF slots[a].value = Null THEN PtrSize ELSE PtrSize + 2 + slots[a].len)

LEMMA WrittenIs ==
  ASSUME NEW base, Finished(base)
  PROVE  /\ \A a \in DOMAIN slots :
              /\ a \in Nat /\ EndOf(a) \in Nat /\ base <= a /\ a < EndOf(a)
              /\ EndOf(a) <= base + TableLen(names, size)
              /\ Written(a) = a .. EndOf(a) - 1
         /\ \A a, c \in DOMAIN slots : a # c => EndOf(a) <= c \/ EndOf(c) <= a
<1> USE DEF Finished
<1> DEFINE A(j) == SlotAt(names, size, j, bucket)
           Z(j) == SlotAt(names, size, j, bucket) + EltSize(names[j])
           M(b) == Mark(names, size, bucket, b)
           T == base + TableLen(names, size)
<1>0. T \in Nat
  BY TableLenIs
<1>1. NothingMeets(names, size, bucket, base)
  BY LayoutApart
<1>2. IsFilled(names, size, bucket, slots)
  BY FilledIs
<1>3. \A a \in DOMAIN slots : \/ \E j \in DOMAIN names : a = A(j)
                              \/ \E b \in DOMAIN bucket : a = M(b)
  BY <1>2 DEF IsFilled
<1>4. ASSUME NEW j \in DOMAIN names
      PROVE  /\ A(j) \in Nat /\ EndOf(A(j)) \in Nat /\ EndOf(A(j)) <= Z(j)
             /\ Z(j) \in Nat /\ A(j) < EndOf(A(j)) /\ slots[A(j)].len \in Nat
  <2>0. slots[A(j)] = [value |-> j, len |-> names[j].len, name |-> names[j].low]
    BY <1>2 DEF IsFilled
  <2>1. slots[A(j)].value = j /\ slots[A(j)].len = names[j].len
    <3> HIDE DEF A
    <3> QED BY <2>0
  <2>2. A(j) \in Nat
    BY <1>1 DEF NothingMeets
  <2>3. /\ j \in Nat /\ names[j].len \in Nat /\ EltSize(names[j]) \in Nat
        /\ 10 + names[j].len <= EltSize(names[j]) /\ j # Null
    BY EltPositive, NullAssumption
  <2> HIDE DEF A
  <2>4. EndOf(A(j)) = A(j) + (10 + names[j].len)
    BY <2>1, <2>3 DEF EndOf, PtrSize
  <2>5. Z(j) = A(j) + EltSize(names[j])
    BY DEF A
  <2> HIDE DEF Z
  <2>6. PICK x \in Nat, l \in Nat, e \in Nat :
          x = A(j) /\ l = names[j].len /\ e = EltSize(names[j]) /\ 10 + l <= e
    BY <2>2, <2>3
  <2>7. EndOf(A(j)) = x + (10 + l) /\ Z(j) = x + e
    BY <2>4, <2>5, <2>6
  <2>8. slots[A(j)].len \in Nat
    BY <2>1, <2>3
  <2>9. /\ A(j) \in Nat /\ EndOf(A(j)) \in Nat /\ EndOf(A(j)) <= Z(j)
        /\ Z(j) \in Nat /\ A(j) < EndOf(A(j))
    <3> HIDE DEF Finished, M, T
    <3>1. PICK y, z : y = EndOf(A(j)) /\ z = Z(j) /\ y = x + (10 + l) /\ z = x + e
      BY <2>7
    <3>2. x \in Nat /\ y \in Nat /\ y <= z /\ z \in Nat /\ x < y
      BY <2>6, <3>1
    <3> QED BY <2>6, <3>1, <3>2
  <2> QED BY <2>8, <2>9
<1>5. ASSUME NEW b \in DOMAIN bucket
      PROVE  M(b) \in Nat /\ EndOf(M(b)) = M(b) + 8 /\ slots[M(b)].value = Null
  <2>0. PICK n : slots[M(b)] = [value |-> Null, len |-> 0, name |-> n]
    BY <1>2, Zenon DEF IsFilled
  <2>1. slots[M(b)].value = Null
    <3> HIDE DEF M
    <3> QED BY <2>0
  <2>2. M(b) \in Nat
    BY <1>1 DEF NothingMeets
  <2> HIDE DEF M
  <2> QED BY <2>1, <2>2 DEF EndOf, PtrSize
<1>6. \A j \in DOMAIN names :
        /\ j \in Nat /\ base <= A(j) /\ Z(j) <= T
        /\ \A k \in DOMAIN names : j < k => Z(j) <= A(k) \/ Z(k) <= A(j)
        /\ \A b \in DOMAIN bucket : Z(j) <= M(b) \/ M(b) + 8 <= A(j)
  BY <1>1, EltPositive DEF NothingMeets
<1>7. \A b \in DOMAIN bucket :
        /\ b \in Nat /\ base <= M(b) /\ M(b) + 8 <= T
        /\ \A c \in DOMAIN bucket : b < c => M(b) + 8 <= M(c)
  <2>1. \A b \in DOMAIN bucket : b \in 0 .. size - 1
    BY BucketsApart DEF BucketsLie
  <2> QED BY <1>1, <2>1 DEF NothingMeets
<1> HIDE DEF A, Z, M, T
<1>8. ASSUME NEW a \in DOMAIN slots
      PROVE  a \in Nat /\ EndOf(a) \in Nat /\ base <= a /\ EndOf(a) <= T /\ a < EndOf(a)
  <2>1. CASE \E j \in DOMAIN names : a = A(j)
    BY <1>0, <1>4, <1>6, <2>1
  <2>2. CASE \E b \in DOMAIN bucket : a = M(b)
    BY <1>0, <1>5, <1>7, <2>2
  <2> QED BY <1>3, <2>1, <2>2
<1>9. ASSUME NEW a \in DOMAIN slots PROVE Written(a) = a .. EndOf(a) - 1
  <2> DEFINE w == IF slots[a].value = Null THEN PtrSize ELSE PtrSize + 2 + slots[a].len
  <2>1. Written(a) = a .. a + w - 1 /\ EndOf(a) = a + w
    BY DEF Written, EndOf
  <2>2. slots[a].value = Null \/ slots[a].len \in Nat
    BY <1>3, <1>4, <1>5
  <2>3. w \in Nat /\ a \in Nat
    BY <1>8, <2>2 DEF PtrSize
  <2> HIDE DEF w
  <2> QED BY <2>1, <2>3
<1>10. ASSUME NEW a \in DOMAIN slots, NEW c \in DOMAIN slots, a # c
       PROVE  EndOf(a) <= c \/ EndOf(c) <= a
  <2>1. CASE \E j, k \in DOMAIN names : a = A(j) /\ c = A(k)
    <3>1. PICK j \in DOMAIN names, k \in DOMAIN names : a = A(j) /\ c = A(k)
      BY <2>1
    <3>2. Z(j) <= A(k) \/ Z(k) <= A(j)
      BY <1>6, <1>10, <3>1
    <3> QED BY <1>4, <3>1, <3>2
  <2>2. CASE \E b, d \in DOMAIN bucket : a = M(b) /\ c = M(d)
    BY <1>5, <1>7, <1>10, <2>2
  <2>3. ASSUME NEW j \in DOMAIN names, NEW b \in DOMAIN bucket
        PROVE  EndOf(A(j)) <= M(b) \/ EndOf(M(b)) <= A(j)
    BY <1>4, <1>5, <1>6
  <2> QED BY <1>3, <2>1, <2>2, <2>3
<1> QED BY <1>8, <1>9, <1>10 DEF T

LEMMA SlotsCount ==
  ASSUME NEW base, Finished(base)
  PROVE  Cardinality(DOMAIN slots) = Len(names) + Cardinality(DOMAIN bucket)
<1> USE DEF Finished
<1> DEFINE f == [j \in DOMAIN names |-> SlotAt(names, size, j, bucket)]
           g == [b \in DOMAIN bucket |-> Mark(names, size, bucket, b)]
           S == {f[j] : j \in DOMAIN names}
           E == {g[b] : b \in DOMAIN bucket}
<1>1. NothingMeets(names, size, bucket, base)
  BY LayoutApart
<1>2. DOMAIN slots = S \cup E
  <2>1. IsFilled(names, size, bucket, slots)
    BY FilledIs
  <2> QED BY <2>1 DEF IsFilled
<1>3. \A j \in DOMAIN names :
        /\ j \in Nat /\ f[j] \in Nat /\ EltSize(names[j]) \in Nat /\ 0 < EltSize(names[j])
        /\ \A k \in DOMAIN names :
             j < k => f[j] + EltSize(names[j]) <= f[k] \/ f[k] + EltSize(names[k]) <= f[j]
        /\ \A b \in DOMAIN bucket : f[j] + EltSize(names[j]) <= g[b] \/ g[b] + 8 <= f[j]
  <2> TAKE j \in DOMAIN names
  <2>1. /\ j \in Nat /\ names[j].len \in Nat /\ EltSize(names[j]) \in Nat
        /\ 10 + names[j].len <= EltSize(names[j])
    BY EltPositive
  <2>2. 0 < EltSize(names[j])
    BY <2>1
  <2> QED BY <1>1, <2>1, <2>2 DEF NothingMeets
<1>4. \A b \in DOMAIN bucket :
        /\ b \in 0 .. size - 1 /\ g[b] \in Nat
        /\ \A c \in DOMAIN bucket : b < c => g[b] + 8 <= g[c]
  <2>1. \A b \in DOMAIN bucket : b \in 0 .. size - 1
    BY BucketsApart DEF BucketsLie
  <2> QED BY <1>1, <2>1 DEF NothingMeets
<1> HIDE DEF f, g
<1>5. \A j, k \in DOMAIN names : f[j] = f[k] => j = k
  <2>1. ASSUME NEW j \in DOMAIN names, NEW k \in DOMAIN names, f[j] = f[k], j < k PROVE FALSE
    BY <1>3, <2>1
  <2> QED BY <1>3, <2>1
<1>6. \A b, c \in DOMAIN bucket : g[b] = g[c] => b = c
  <2>1. ASSUME NEW b \in DOMAIN bucket, NEW c \in DOMAIN bucket, g[b] = g[c], b < c PROVE FALSE
    BY <1>4, <2>1
  <2> QED BY <1>4, <2>1
<1>7. S \cap E = {}
  <2> SUFFICES ASSUME NEW j \in DOMAIN names, NEW b \in DOMAIN bucket, f[j] = g[b] PROVE FALSE
    OBVIOUS
  <2> QED BY <1>3, <1>4
<1>8. IsFiniteSet(DOMAIN names) /\ Cardinality(DOMAIN names) = Len(names)
  <2>1. PICK n \in Nat : n = Len(names) /\ DOMAIN names = 1 .. n
    BY TableFacts
  <2>2. IsFiniteSet(1 .. n) /\ Cardinality(1 .. n) = n
    <3>1. 1 \in Int /\ n \in Int /\ (IF 1 > n THEN 0 ELSE n-1+1) = n
      OBVIOUS
    <3> QED BY <3>1, FS_Interval
  <2> QED BY <2>1, <2>2
<1>9. IsFiniteSet(DOMAIN bucket)
  <2>1. DOMAIN bucket \in SUBSET (0 .. size - 1)
    BY <1>4
  <2>2. IsFiniteSet(0 .. size - 1)
    <3>1. 0 \in Int /\ size - 1 \in Int
      OBVIOUS
    <3> QED BY <3>1, FS_Interval
  <2> QED BY <2>1, <2>2, FS_Subset
<1>10. /\ IsFiniteSet(S) /\ Cardinality(S) = Len(names)
       /\ IsFiniteSet(E) /\ Cardinality(E) = Cardinality(DOMAIN bucket)
  BY <1>5, <1>6, <1>8, <1>9, ImageCount
<1> HIDE DEF S, E
<1>11. Cardinality(S \cup E) = Cardinality(S) + Cardinality(E) - Cardinality(S \cap E)
  BY <1>10, FS_Union
<1>12. Cardinality(S) \in Nat /\ Cardinality(E) \in Nat /\ Cardinality({}) = 0
  BY <1>10, FS_CardinalityType, FS_EmptySet
<1>13. PICK m \in Nat, n \in Nat : m = Cardinality(S) /\ n = Cardinality(E)
  BY <1>12
<1>14. Cardinality(S \cup E) = m + n - 0
  BY <1>7, <1>11, <1>12, <1>13
<1> QED BY <1>2, <1>10, <1>13, <1>14

LEMMA TableInside ==
  ASSUME NEW base, Finished(base), elts \in Nat, hdr[elts].usedsize \in Nat,
         (elts + 1) * HEADERSIZE <= base,
         base + TableLen(names, size) <= (elts + hdr[elts].usedsize) * HEADERSIZE
  PROVE  SlotsInside
<1>1. PICK lo \in Nat, hi \in Nat :
        lo = (elts + 1) * HEADERSIZE /\ hi = (elts + hdr[elts].usedsize) * HEADERSIZE
  BY DEF HEADERSIZE
<1>2. base \in Nat /\ TableLen(names, size) \in Nat
  BY TableLenIs DEF Finished
<1>3. ASSUME NEW a \in DOMAIN slots PROVE Written(a) \subseteq lo .. hi - 1
  <2>1. /\ a \in Nat /\ EndOf(a) \in Nat /\ base <= a
        /\ EndOf(a) <= base + TableLen(names, size) /\ Written(a) = a .. EndOf(a) - 1
    BY WrittenIs
  <2> QED BY <1>1, <1>2, <2>1, SMTT(30)
<1>4. ASSUME NEW a \in DOMAIN slots, NEW c \in DOMAIN slots, a # c
      PROVE  Written(a) \cap Written(c) = {}
  <2>1. /\ a \in Nat /\ EndOf(a) \in Nat /\ Written(a) = a .. EndOf(a) - 1
        /\ c \in Nat /\ EndOf(c) \in Nat /\ Written(c) = c .. EndOf(c) - 1
        /\ EndOf(a) <= c \/ EndOf(c) <= a
    BY <1>4, WrittenIs
  <2> QED BY <2>1
<1> QED BY <1>1, <1>3, <1>4, SlotsCount DEF SlotsInside

-----------------------------------------------------------------------------
(***************************************************************************)
(* What hashInit has asked for and holds, from call to call.               *)
(***************************************************************************)
Asked == NUnits(TableLen(names, size) + CachelineSize)

TableHeld ==
  /\ bpc \in {"off", "hash", "test", "buckets", "elts", "failing", "filled",
              "done", "error", "abort", "wild"}
  /\ size \in 0 .. max_size /\ names \in Tables \cup {<<>>}
  /\ test \in Addresses \cup {Null} /\ elts \in Addresses \cup {Null}
  /\ bpc \in {"test", "buckets", "elts"} =>
       /\ pc \in {"idle", "pMalloc"}
       /\ pc = "idle" /\ answer.at # Null => answer.at \in owned
  /\ bpc \in {"buckets", "elts"} =>
       /\ test \in owned /\ size # 0
       /\ pc = "idle" => answer.at # test
  /\ bpc = "elts" =>
       /\ pc = "pMalloc" => arg = Asked
       /\ pc = "idle" /\ answer.at # Null => hdr[answer.at].usedsize = Asked
  /\ bpc \in {"filled", "done"} =>
       /\ elts \in owned /\ elts # test /\ hdr[elts].usedsize = Asked
       /\ \E base : /\ Finished(base)
                    /\ (elts + 1) * HEADERSIZE <= base
                    /\ base <= (elts + 1) * HEADERSIZE + 31

IInv == PoolInv /\ TestHeld /\ test # Base /\ TableHeld

(* A step of the pool keeps every block but the one that is given back.    *)
LEMMA SplitKeeps ==
  ASSUME PoolInv, MallocSplit
  PROVE  /\ answer'.at \notin owned /\ owned' = owned \cup {answer'.at}
         /\ hdr'[answer'.at].usedsize = arg
         /\ \A a \in owned : hdr'[a].usedsize = hdr[a].usedsize
<1> DEFINE newp == p + hdr[p].usedsize
<1>1. /\ pc = "pMalloc" /\ hdr[p].freesize >= arg
      /\ hdr' = [a \in DOMAIN hdr \cup {newp} |->
                   IF a = newp THEN [next |-> hdr[p].next, usedsize |-> arg,
                                     freesize |-> hdr[p].freesize - arg]
                   ELSE IF a = p THEN [hdr[p] EXCEPT !.next = newp, !.freesize = 0]
                   ELSE hdr[a]]
      /\ owned' = owned \cup {newp} /\ answer'.at = newp
  BY DEF MallocSplit
<1>2. p \in DOMAIN hdr /\ arg \in Nat \ {0} /\ hdr[p] \in Header /\ owned \subseteq DOMAIN hdr
  BY <1>1 DEF PoolInv, Walks, Laid
<1>3. newp \notin DOMAIN hdr
  <2>1. PICK e \in Nat, u \in Nat, f \in Nat :
        /\ e = End(hdr, p) /\ u = hdr[p].usedsize /\ f = hdr[p].freesize
        /\ p \in Nat /\ 1 <= u /\ \A b \in DOMAIN hdr : p < b => e <= b
    BY <1>2, BlockFacts DEF PoolInv
  <2>2. e = p + u + f /\ f >= 1
    BY <1>1, <1>2, <2>1 DEF End
  <2> QED BY <2>1, <2>2
<1> HIDE DEF newp
<1>4. [hdr[p] EXCEPT !.next = newp, !.freesize = 0]
        = [next |-> newp, usedsize |-> hdr[p].usedsize, freesize |-> 0]
  BY <1>2, HeaderExcept, Zenon
<1>5. \A a \in owned : hdr'[a].usedsize = hdr[a].usedsize
  <2> TAKE a \in owned
  <2>1. a \in DOMAIN hdr /\ a # newp
    BY <1>2, <1>3
  <2> QED BY <1>1, <1>4, <2>1
<1>6. hdr'[newp].usedsize = arg
  BY <1>1
<1> QED BY <1>1, <1>2, <1>3, <1>5, <1>6

LEMMA MergeKeeps ==
  ASSUME PoolInv, FreeMerge
  PROVE  /\ owned' = owned \ {arg}
         /\ \A a \in owned' : hdr'[a].usedsize = hdr[a].usedsize
<1>1. /\ pc = "pFree" /\ p = arg
      /\ hdr' = [a \in DOMAIN hdr \ {p} |->
               IF a = prev
               THEN [hdr[a] EXCEPT !.freesize = @ + hdr[p].usedsize + hdr[p].freesize,
                                   !.next = hdr[p].next]
               ELSE hdr[a]]
      /\ owned' = owned \ {p}
  BY DEF FreeMerge
<1>2. owned \subseteq DOMAIN hdr /\ prev \in DOMAIN hdr /\ hdr[prev] \in Header
  BY <1>1 DEF PoolInv, Walks, Laid
<1>3. \A n, f : [hdr[prev] EXCEPT !.freesize = f, !.next = n].usedsize
                  = hdr[prev].usedsize
  <2>1. \A n, f : [hdr[prev] EXCEPT !.freesize = f, !.next = n]
                  = [next |-> n, usedsize |-> hdr[prev].usedsize, freesize |-> f]
    BY <1>2, HeaderExcept, Zenon
  <2> QED BY <2>1
<1> QED BY <1>1, <1>2, <1>3

LEMMA PoolKeeps ==
  ASSUME PoolInv, PoolStep
  PROVE  /\ pc \in {"pMalloc", "pFree"}
         /\ \A a \in owned : pc = "pMalloc" \/ a # arg =>
              a \in owned' /\ hdr'[a].usedsize = hdr[a].usedsize
         /\ pc = "pMalloc" =>
              /\ pc' = "idle" /\ answer'.at # Null =>
                   answer'.at \in owned' \ owned /\ hdr'[answer'.at].usedsize = arg
              /\ pc' # "idle" => pc' = pc /\ arg' = arg
<1>1. CASE MallocNext \/ FreeNext \/ FreeUnknown
  BY <1>1 DEF MallocNext, FreeNext, FreeUnknown, ring
<1>2. CASE MallocNull
  BY <1>2 DEF MallocNull, ring
<1>3. CASE MallocSplit
  <2>1. pc = "pMalloc" /\ pc' = "idle"
    BY <1>3 DEF MallocSplit
  <2> QED BY <1>3, <2>1, SplitKeeps
<1>4. CASE FreeMerge
  <2>1. pc = "pFree"
    BY <1>4 DEF FreeMerge
  <2> QED BY <1>4, <2>1, MergeKeeps
<1> QED BY <1>1, <1>2, <1>3, <1>4 DEF PoolStep

LEMMA NamesTyped ==
  ASSUME names \in Tables \cup {<<>>}
  PROVE  names \in Seq(Names)
<1>1. <<>> \in Seq(Names)
  OBVIOUS
<1> QED BY <1>1, TablesAssumption

(* A set of numbers has a smallest one.                                    *)
LEMMA MinIs ==
  ASSUME NEW S \in SUBSET Nat, S # {}
  PROVE  Min(S) \in S /\ \A y \in S : Min(S) <= y
<1> DEFINE R == OpToRel(<, Nat)
<1>1. PICK m \in S : \A y \in S : ~ (<<y, m>> \in R)
  <2>1. IsWellFoundedOn(R, Nat)
    BY NatLessThanWellFounded
  <2> HIDE DEF R
  <2> QED BY <2>1, WFMin
<1>2. ASSUME NEW y \in S PROVE m <= y
  <2>1. y \in Nat /\ m \in Nat /\ ~ (<<y, m>> \in R)
    BY <1>1
  <2>2. y < m => <<y, m>> \in R
    BY <2>1 DEF OpToRel
  <2> HIDE DEF R
  <2> QED BY <2>1, <2>2
<1>3. \E x \in S : \A y \in S : x <= y
  BY <1>2
<1> QED BY <1>3 DEF Min

LEMMA Quotient ==
  ASSUME NEW n \in Nat, NEW d \in Nat \ {0}
  PROVE  n \div d \in Nat
OBVIOUS

LEMMA SizeFound ==
  ASSUME NEW t \in Seq(Names), Sizes(t) # {}
  PROVE  Min(Sizes(t)) \in 1 .. max_size
<1>1. Len(t) \div ((bucket_size - PtrSize) \div (2 * PtrSize + 4)) \in Nat
  <2>1. (bucket_size - 8) \div 20 \in Nat \ {0}
    BY BucketAssumption
  <2>2. 2 * 8 + 4 = 20 /\ Len(t) \in Nat
    OBVIOUS
  <2> QED BY <2>1, <2>2, Quotient DEF PtrSize
<1>2. StartSize(t) \in Nat \ {0}
  BY <1>1 DEF StartSize
<1>3. Sizes(t) \subseteq 1 .. max_size
  BY <1>2, MaxSizeAssumption DEF Sizes
<1>4. Sizes(t) \in SUBSET Nat
  BY <1>3, MaxSizeAssumption
<1> QED BY <1>3, <1>4, MinIs

LEMMA NextPool ==
  ASSUME PoolInv, test # Base, [Next]_vars
  PROVE  PoolInv' /\ test' # Base
<1>1. CASE Step
  BY <1>1, PoolStepStep DEF Step, build
<1>2. CASE Users
  <2>1. test' = test
    BY <1>2 DEF Users, build
  <2>2. CASE \E n \in Bytes : PMalloc(n)
    BY <2>1, <2>2, PMallocStep
  <2>3. CASE \E a \in owned : PFree(a)
    <3>1. PICK a \in owned : PFree(a)
      BY <2>3
    <3>2. a # Base
      BY DEF PoolInv, Laid
    <3> QED BY <2>1, <3>1, <3>2, PFreeStep
  <2>4. CASE PFree(MEMSIZE)
    BY <2>1, <2>4, PFreeStep, Sizes0
  <2> QED BY <1>2, <2>2, <2>3, <2>4 DEF Users
<1>3. CASE StartBuild
  BY <1>3, PMallocStep DEF StartBuild
<1>4. CASE AskTest
  BY <1>4, PMallocStep, PoolUnchanged DEF AskTest
<1>5. CASE AskBuckets
  <2>1. test' # Base
    BY <1>5 DEF AskBuckets, PoolInv
  <2> QED BY <1>5, <2>1, PMallocStep, PoolUnchanged DEF AskBuckets
<1>6. CASE NoTest
  BY <1>6, PoolUnchanged DEF NoTest
<1>7. CASE AskElts
  BY <1>7, PMallocStep DEF AskElts
<1>8. CASE GiveUp
  BY <1>8, PFreeStep DEF GiveUp
<1>9. CASE Fill
  BY <1>9, PFreeStep DEF Fill
<1>10. CASE Finish
  BY <1>10, PoolUnchanged DEF Finish
<1>11. CASE Ended
  BY <1>11, PoolUnchanged DEF Ended, vars, build
<1>12. CASE UNCHANGED vars
  BY <1>12, PoolUnchanged DEF vars, build
<1> QED BY <1>1, <1>2, <1>3, <1>4, <1>5, <1>6, <1>7, <1>8, <1>9, <1>10, <1>11,
           <1>12 DEF Next

(* The way of the temporary array.                                         *)
LEMMA NextTest ==
  ASSUME PoolInv, TestHeld, [Next]_vars
  PROVE  TestHeld'
<1>1. Null \notin owned
  BY Sizes0 DEF PoolInv, Laid
<1>2. CASE Step
  <2>1. PoolStep /\ bpc' = bpc /\ test' = test
    BY <1>2 DEF Step, build
  <2>2. pc # "idle"
    BY <2>1 DEF PoolStep, MallocNext, MallocNull, MallocSplit, FreeNext,
                FreeUnknown, FreeMerge
  <2>3. ASSUME pc = "pFree", arg = test
        PROVE  (pc' = "pFree" /\ arg' = test) \/ (pc' = "idle" /\ test \notin owned')
    <3>1. CASE FreeNext
      BY <2>3, <3>1 DEF FreeNext
    <3>2. CASE FreeUnknown
      BY <2>3, <3>2, NotFound DEF FreeUnknown
    <3>3. CASE FreeMerge
      BY <2>3, <3>3 DEF FreeMerge
    <3> QED BY <2>1, <2>3, <3>1, <3>2, <3>3
            DEF PoolStep, MallocNext, MallocNull, MallocSplit
  <2> QED BY <2>1, <2>2, <2>3 DEF TestHeld
<1>3. CASE Users
  BY <1>3 DEF Users, build, TestHeld
<1>4. CASE StartBuild \/ AskTest \/ AskBuckets \/ AskElts
  BY <1>4 DEF StartBuild, AskTest, AskBuckets, AskElts, TestHeld
<1>5. CASE NoTest
  BY <1>1, <1>5 DEF NoTest, pool, TestHeld
<1>6. CASE GiveUp
  BY <1>6 DEF GiveUp, PFree, TestHeld
<1>7. CASE Fill
  BY <1>7 DEF Fill, PFree, TestHeld
<1>8. CASE Finish
  BY <1>8 DEF Finish, pool, TestHeld
<1>9. CASE Ended \/ UNCHANGED vars
  BY <1>9 DEF Ended, vars, pool, build, TestHeld
<1> QED BY <1>2, <1>3, <1>4, <1>5, <1>6, <1>7, <1>8, <1>9 DEF Next

(* The buckets begin at the first multiple of 32 behind the header; data   *)
(* is one of 16.                                                           *)
LEMMA FillFinishes ==
  ASSUME PoolInv, TableHeld, Fill
  PROVE  \E base : /\ Finished(base)'
                   /\ (elts' + 1) * HEADERSIZE <= base
                   /\ base <= (elts' + 1) * HEADERSIZE + 31
<1>1. /\ elts' = answer.at /\ answer.at # Null /\ UNCHANGED <<names, size>>
      /\ bpc = "elts" /\ pc = "idle"
  BY DEF Fill
<1>2. PICK data \in Nat :
        /\ data = 0 \/ data = 16
        /\ bucket' = [b \in {c \in 0 .. size - 1 : InBucket(names, size, c) # {}}
                        |-> BucketAt(names, size, b, elts', data) - data]
        /\ slots' = Filled(names, size, bucket')
  BY DEF Fill, HEADERSIZE
<1>3. names \in Seq(Names) /\ size \in Nat \ {0} /\ answer.at \in Nat
  <2>1. answer.at \in Addresses
    BY <1>1 DEF TableHeld, PoolInv, Laid
  <2>2. size \in Nat /\ size # 0
    BY <1>1, MaxSizeAssumption DEF TableHeld
  <2> QED BY <2>1, <2>2, Sizes0, NamesTyped DEF TableHeld
<1>4. PICK e \in Nat : e = elts'
  BY <1>1, <1>3
<1>5. PICK d \in Nat : d = data + (e + 1) * 16 /\ data + 16 <= d
  <2>1. data + (e + 1) * 16 \in Nat /\ data + 16 <= data + (e + 1) * 16
    OBVIOUS
  <2> QED BY <2>1
<1>6. PICK m \in Nat : Align(d, 32) = 32 * m /\ d <= 32 * m /\ 32 * m <= d + 31
  <2>1. /\ d <= Align(d, 32) /\ Align(d, 32) <= d + 31
        /\ Multiple(32, Align(d, 32))
    BY AlignUp, SMTT(30)
  <2> QED BY <2>1 DEF Multiple
<1> DEFINE base == 32 * m - data
<1>7. base \in Nat /\ (e + 1) * 16 <= base /\ base <= (e + 1) * 16 + 31
  BY <1>5, <1>6
<1>8. Multiple(8, base)
  <2>1. CASE data = 0
    <3>1. PICK k \in Nat : k = 4 * m
      OBVIOUS
    <3>2. base = 8 * k
      BY <2>1, <3>1
    <3> QED BY <3>2 DEF Multiple
  <2>2. CASE data = 16
    <3>1. PICK k \in Nat : k = 4 * m - 2
      <4>1. 32 <= d /\ d <= 32 * m
        BY <1>5, <1>6, <2>2
      <4> QED BY <4>1
    <3>2. base = 8 * k
      BY <2>2, <3>1
    <3> QED BY <3>2 DEF Multiple
  <2> QED BY <1>2, <2>1, <2>2
<1>9. \A b \in 0 .. size - 1 :
        /\ BucketAt(names, size, b, elts', data)
             = 32 * m + Sum(BucketLens(names, size), 0 .. b - 1)
        /\ Sum(BucketLens(names, size), 0 .. b - 1) \in Nat
  <2> TAKE b \in 0 .. size - 1
  <2> DEFINE B == 0 .. b - 1
             g == BucketLens(names, size)
  <2>1. B \in SUBSET (0 .. size - 1) /\ b \in Nat
    BY <1>3
  <2>2. IsFiniteSet(B)
    <3>1. 0 \in Int /\ b - 1 \in Int
      BY <2>1
    <3> QED BY <3>1, FS_Interval
  <2>3. BucketAt(names, size, b, elts', data)
          = Align(d, 32) + MapThenSumSet(LAMBDA k : BucketLen(names, size, k), B)
    BY <1>5, <1>4 DEF BucketAt, CachelineSize, HEADERSIZE
  <2>4. \A x \in B : g[x] \in Nat
    BY <1>3, <2>1, BucketFacts DEF BucketLens
  <2> HIDE DEF B
  <2>5. MapThenSumSet(LAMBDA k : BucketLen(names, size, k), B) = Sum(g, B)
    BY <2>1, LensIs
  <2> HIDE DEF g
  <2>6. Sum(g, B) \in Nat
    BY <2>2, <2>4, SumNotNegative
  <2>7. BucketAt(names, size, b, elts', data) = 32 * m + Sum(g, B)
    BY <1>6, <2>3, <2>5
  <2> QED BY <2>6, <2>7 DEF B, g
<1>10. LaidOut(names, size, bucket', base)
  <2> DEFINE S == {c \in 0 .. size - 1 : InBucket(names, size, c) # {}}
             f == [b \in S |-> BucketAt(names, size, b, elts', data) - data]
             h == [b \in S |-> base + Sum(BucketLens(names, size), 0 .. b - 1)]
  <2>1. ASSUME NEW b \in S
        PROVE  BucketAt(names, size, b, elts', data) - data
                 = base + Sum(BucketLens(names, size), 0 .. b - 1)
    <3>1. PICK y \in Nat : y = Sum(BucketLens(names, size), 0 .. b - 1)
      BY <1>9
    <3>2. BucketAt(names, size, b, elts', data) = 32 * m + y
      BY <1>9, <3>1
    <3>3. (32 * m + y) - data = base + y
      BY <1>5
    <3> QED BY <3>1, <3>2, <3>3
  <2>2. f = h
    BY <2>1
  <2> HIDE DEF S
  <2>3. bucket' = f
    BY <1>2 DEF S
  <2> QED BY <2>2, <2>3 DEF LaidOut, S
<1> HIDE DEF base
<1>11. Finished(base)'
  BY <1>1, <1>2, <1>3, <1>7, <1>8, <1>10 DEF Finished
<1> QED BY <1>7, <1>11, <1>4 DEF HEADERSIZE

LEMMA TableStep ==
  ASSUME PoolInv, TableHeld, TestHeld, Step
  PROVE  TableHeld'
<1>1. /\ PoolStep
      /\ UNCHANGED <<bpc, names, test, size, elts, bucket, slots>>
  BY DEF Step, build
<1>2. /\ pc \in {"pMalloc", "pFree"}
      /\ \A a \in owned : pc = "pMalloc" \/ a # arg =>
           a \in owned' /\ hdr'[a].usedsize = hdr[a].usedsize
      /\ pc = "pMalloc" =>
           /\ pc' = "idle" /\ answer'.at # Null =>
                answer'.at \in owned' \ owned /\ hdr'[answer'.at].usedsize = arg
           /\ pc' # "idle" => pc' = pc /\ arg' = arg
  BY <1>1, PoolKeeps
<1>3. Asked' = Asked
  BY <1>1 DEF Asked
<1>4. PoolInv'
  BY <1>1, PoolStepStep
<1>5. ASSUME bpc \in {"test", "buckets", "elts"}
      PROVE  /\ pc' \in {"idle", "pMalloc"} /\ pc = "pMalloc"
             /\ pc' = "idle" /\ answer'.at # Null => answer'.at \in owned'
  BY <1>2, <1>5 DEF TableHeld
<1>6. ASSUME bpc \in {"buckets", "elts"}
      PROVE  test \in owned' /\ (pc' = "idle" => answer'.at # test)
  <2>1. test \in owned /\ test # Null
    BY <1>6, Sizes0 DEF TableHeld, PoolInv, Laid
  <2> QED BY <1>2, <1>5, <1>6, <2>1
<1>7. ASSUME bpc = "elts"
      PROVE  /\ pc' = "pMalloc" => arg' = Asked
             /\ pc' = "idle" /\ answer'.at # Null => hdr'[answer'.at].usedsize = Asked
  BY <1>2, <1>5, <1>7 DEF TableHeld
<1>8. ASSUME bpc \in {"filled", "done"}
      PROVE  elts \in owned' /\ hdr'[elts].usedsize = Asked
  BY <1>2, <1>8 DEF TableHeld, TestHeld
<1>9. ASSUME NEW base PROVE Finished(base)' <=> Finished(base)
  BY <1>1 DEF Finished
<1> QED BY <1>1, <1>3, <1>5, <1>6, <1>7, <1>8, <1>9 DEF TableHeld

(* Between the calls: hashInit, and the users before it.                   *)
LEMMA NextTable ==
  ASSUME PoolInv, TableHeld, TestHeld, [Next]_vars
  PROVE  TableHeld'
<1> DEFINE Same == UNCHANGED <<names, test, size, elts, bucket, slots>>
<1>0. owned \subseteq Addresses /\ Null \notin owned
  BY Sizes0 DEF PoolInv, Laid
<1>1. CASE Step
  BY <1>1, TableStep
<1>2. CASE Users
  <2>1. bpc = "off" /\ UNCHANGED <<bpc, names, test, size, elts, bucket, slots>>
    BY <1>2 DEF Users, build
  <2> QED BY <2>1 DEF TableHeld
<1>3. CASE StartBuild
  <2>1. /\ bpc' = "hash" /\ names' \in Tables
        /\ UNCHANGED <<test, size, elts, bucket, slots>>
    BY <1>3 DEF StartBuild
  <2> QED BY <2>1 DEF TableHeld
<1>4. CASE AskTest
  <2>1. Same /\ (bpc' = "abort" \/ (bpc' = "test" /\ pc' = "pMalloc"))
    BY <1>4 DEF AskTest, PMalloc
  <2> QED BY <2>1 DEF TableHeld
<1>5. CASE AskBuckets
  <2>1. /\ bpc = "test" /\ pc = "idle" /\ answer.at # Null /\ test' = answer.at
        /\ UNCHANGED <<names, elts, bucket, slots>>
    BY <1>5 DEF AskBuckets
  <2>2. answer.at \in owned
    BY <2>1 DEF TableHeld
  <2>3. CASE Sizes(names) = {}
    <3>1. bpc' = "abort" /\ size' = size
      BY <1>5, <2>3 DEF AskBuckets
    <3> QED BY <1>0, <2>1, <2>2, <3>1 DEF TableHeld
  <2>4. CASE Sizes(names) # {}
    <3>1. /\ bpc' = "buckets" /\ size' = Min(Sizes(names)) /\ pc' = "pMalloc"
          /\ owned' = owned
      BY <1>5, <2>4 DEF AskBuckets, PMalloc
    <3>2. size' \in 1 .. max_size
      BY <2>4, <3>1, NamesTyped, SizeFound DEF TableHeld
    <3>3. size' # 0 /\ size' \in 0 .. max_size
      BY <3>2, MaxSizeAssumption
    <3> QED BY <1>0, <2>1, <2>2, <3>1, <3>3 DEF TableHeld
  <2> QED BY <2>3, <2>4
<1>6. CASE NoTest
  <2>1. Same /\ bpc' = "error"
    BY <1>6 DEF NoTest
  <2> QED BY <2>1 DEF TableHeld
<1>7. CASE AskElts
  <2>1. /\ Same /\ bpc = "buckets" /\ bpc' = "elts" /\ pc' = "pMalloc" /\ owned' = owned
        /\ arg' = Asked
    BY <1>7 DEF AskElts, PMalloc, Asked
  <2>2. Asked' = Asked
    BY <2>1 DEF Asked
  <2> QED BY <2>1, <2>2 DEF TableHeld
<1>8. CASE GiveUp
  <2>1. Same /\ bpc' = "failing"
    BY <1>8 DEF GiveUp
  <2> QED BY <2>1 DEF TableHeld
<1>9. CASE Fill
  <2>1. /\ bpc = "elts" /\ pc = "idle" /\ elts' = answer.at /\ answer.at # Null
        /\ bpc' \in {"filled", "wild"} /\ UNCHANGED <<names, test, size>>
        /\ UNCHANGED <<hdr, owned>> /\ PFree(test)
    BY <1>9 DEF Fill, PFree, ring
  <2>2. elts' \in owned /\ elts' # test /\ hdr[elts'].usedsize = Asked
    BY <2>1 DEF TableHeld
  <2>3. Asked' = Asked
    BY <2>1 DEF Asked
  <2>4. PICK base : /\ Finished(base)'
                    /\ (elts' + 1) * HEADERSIZE <= base
                    /\ base <= (elts' + 1) * HEADERSIZE + 31
    BY <1>9, FillFinishes
  <2>5. (\E b : /\ Finished(b)
                /\ (elts + 1) * HEADERSIZE <= b
                /\ b <= (elts + 1) * HEADERSIZE + 31)'
    BY <2>4
  <2>6. elts' \in Addresses
    BY <1>0, <2>2
  <2> QED BY <2>1, <2>2, <2>3, <2>5, <2>6 DEF TableHeld
<1>10. CASE Finish
  <2>1. /\ Same /\ UNCHANGED <<hdr, owned>>
        /\ (bpc = "filled" /\ bpc' = "done") \/ bpc' = "error"
    BY <1>10 DEF Finish, pool
  <2>2. Asked' = Asked /\ \A base : Finished(base)' <=> Finished(base)
    BY <2>1 DEF Asked, Finished
  <2> QED BY <2>1, <2>2 DEF TableHeld
<1>11. CASE Ended \/ UNCHANGED vars
  <2>1. /\ Same /\ UNCHANGED <<hdr, owned, bpc, pc, arg, answer>>
    BY <1>11 DEF Ended, vars, build, pool
  <2>2. Asked' = Asked /\ \A base : Finished(base)' <=> Finished(base)
    BY <2>1 DEF Asked, Finished
  <2> QED BY <2>1, <2>2 DEF TableHeld
<1> QED BY <1>1, <1>2, <1>3, <1>4, <1>5, <1>6, <1>7, <1>8, <1>9, <1>10, <1>11 DEF Next

LEMMA InitInv ==
  ASSUME Init
  PROVE  IInv
<1>1. /\ hdr = [a \in {} |-> Null] /\ memptr = Null /\ pc = "idle" /\ bpc = "off"
      /\ owned = {} /\ answer.at = Null /\ test = Null
      /\ names = <<>> /\ size = 0 /\ elts = Null
  BY DEF Init, PoolInit
<1>2. Laid /\ Chained
  BY <1>1 DEF Laid, Chained
<1>3. Walks /\ TestHeld
  BY <1>1 DEF Walks, TestHeld
<1>4. TableHeld
  BY <1>1, MaxSizeAssumption DEF TableHeld
<1> QED BY <1>1, <1>2, <1>3, <1>4, Sizes0 DEF IInv, PoolInv

LEMMA NextInv ==
  ASSUME IInv, [Next]_vars
  PROVE  IInv'
BY NextPool, NextTest, NextTable DEF IInv

(* The invariant holds, whatever is asked of the pool and of hashInit.     *)
THEOREM Invariant == Spec => []IInv
BY InitInv, NextInv, PTL DEF Spec

(* The block has room for the table, wherever its first bucket begins.     *)
LEMMA UnitsCover ==
  ASSUME NEW n \in Nat
  PROVE  NUnits(n) \in Nat /\ n + 16 <= NUnits(n) * 16
BY DEF NUnits, HEADERSIZE

LEMMA TableIsInside ==
  ASSUME PoolInv, TableHeld
  PROVE  SlotsInside
<1> SUFFICES ASSUME bpc = "done" PROVE SlotsInside
  BY DEF SlotsInside
<1>1. PICK base : /\ Finished(base)
                  /\ (elts + 1) * HEADERSIZE <= base
                  /\ base <= (elts + 1) * HEADERSIZE + 31
  BY DEF TableHeld
<1>2. elts \in owned /\ hdr[elts].usedsize = Asked
  BY DEF TableHeld
<1>3. elts \in Nat
  BY <1>2, Sizes0 DEF PoolInv, Laid
<1>4. PICK n \in Nat, b \in Nat : n = TableLen(names, size) /\ b = base
  BY <1>1, TableLenIs DEF Finished
<1>5. PICK u \in Nat : u = hdr[elts].usedsize /\ (n + 32) + 16 <= u * 16
  BY <1>2, <1>4, UnitsCover DEF Asked, CachelineSize
<1>6. b + n <= (elts + u) * 16
  <2>1. b <= (elts + 1) * 16 + 31
    BY <1>1, <1>4 DEF HEADERSIZE
  <2> QED BY <1>3, <1>5, <2>1
<1>7. base + TableLen(names, size) <= (elts + hdr[elts].usedsize) * HEADERSIZE
  BY <1>4, <1>5, <1>6 DEF HEADERSIZE
<1> QED BY <1>1, <1>3, <1>5, <1>7, TableInside

-----------------------------------------------------------------------------
(***************************************************************************)
(* The walk of hash_find through a finished table.                         *)
(***************************************************************************)
Next8(a) == Align(a + PtrSize + 2 + slots[a].len, PtrSize)

IsWalk(n, w) ==
  /\ HashFind(n) = w[Len(names) + 1][bucket[n.hash % size]]
  /\ \A k \in 0 .. Len(names) + 1 : \A a \in Nat :
       w[k][a] = IF k = 0 \/ a \notin DOMAIN slots THEN 0
                 ELSE IF slots[a].value = Null THEN Null
                 ELSE IF slots[a].len = n.len /\ slots[a].name = n.text
                      THEN slots[a].value
                 ELSE w[k - 1][Next8(a)]

(* The function that hash_find is defined by exists.                       *)
LEMMA Walking ==
  ASSUME NEW n, Len(names) \in Nat, \A a \in DOMAIN slots : slots[a].len \in Nat
  PROVE  \E w : IsWalk(n, w)
<1> DEFINE N == Len(names) + 1
           V == {slots[a].value : a \in DOMAIN slots} \cup {0, Null}
           A == [Nat -> V]
           Zero == [a \in Nat |-> 0]
           Turn(g, a) == IF a \notin DOMAIN slots THEN 0
                         ELSE IF slots[a].value = Null THEN Null
                         ELSE IF slots[a].len = n.len /\ slots[a].name = n.text
                              THEN slots[a].value
                         ELSE g[Next8(a)]
           G == [k \in 1 .. N |-> [g \in A |-> [a \in Nat |-> Turn(g, a)]]]
           Body(w, k) ==
             [a \in Nat |->
               LET e == slots[a]
               IN  IF k = 0 \/ a \notin DOMAIN slots THEN 0
                   ELSE IF e.value = Null THEN Null
                   ELSE IF e.len = n.len /\ e.name = n.text THEN e.value
                   ELSE w[k - 1][Align(a + PtrSize + 2 + e.len, PtrSize)]]
           walk == CHOOSE w : w = [k \in 0 .. Len(names) + 1 |-> Body(w, k)]
<1>1. N \in Nat /\ N \in 1 .. N
  OBVIOUS
<1>2. \A a \in Nat : a \in DOMAIN slots => Next8(a) \in Nat
  <2> TAKE a \in Nat
  <2> HAVE a \in DOMAIN slots
  <2>1. PICK d \in Nat : d = a + PtrSize + 2 + slots[a].len
    BY DEF PtrSize
  <2> QED BY <2>1, AlignUp DEF Next8, PtrSize
<1>3. HashFind(n) = walk[N][bucket[n.hash % size]]
  BY DEF HashFind
<1>4. \A w, k : Body(w, k) = IF k = 0 THEN Zero ELSE [a \in Nat |-> Turn(w[k - 1], a)]
  BY DEF Next8
<1> HIDE DEF Body
<1>5. \A g \in A : \A a \in Nat : Turn(g, a) \in V
  BY <1>2
<1> HIDE DEF Turn
<1>6. IsStep(N, A, G) /\ Zero \in A
  <2>1. Zero \in A
    OBVIOUS
  <2>2. ASSUME NEW k \in 1 .. N, NEW g \in A PROVE G[k][g] \in A
    <3>1. G[k][g] = [a \in Nat |-> Turn(g, a)]
      OBVIOUS
    <3> QED BY <1>5, <3>1
  <2> QED BY <2>1, <2>2 DEF IsStep
<1>7. PICK f \in [0 .. N -> A] : f[0] = Zero /\ \A k \in 1 .. N : f[k] = G[k][f[k - 1]]
  <2> HIDE DEF G, A, Zero, N
  <2>1. HasRecursive(N, A, Zero, G)
    BY <1>1, <1>6, Recursion, Zenon
  <2> QED BY <2>1 DEF HasRecursive
<1>8. f = [k \in 0 .. N |-> Body(f, k)]
  <2>1. ASSUME NEW k \in 0 .. N PROVE f[k] = Body(f, k)
    <3>1. CASE k = 0
      <4> HIDE DEF Zero
      <4> QED BY <1>4, <1>7, <3>1
    <3>2. CASE k # 0
      <4>1. k \in 1 .. N /\ k - 1 \in 0 .. N
        BY <1>1, <3>2
      <4>2. f[k] = [a \in Nat |-> Turn(f[k - 1], a)]
        BY <1>7, <4>1
      <4> QED BY <1>4, <3>2, <4>2
    <3> QED BY <3>1, <3>2
  <2> HIDE DEF A
  <2> QED BY <1>7, <2>1
<1>9. walk = [k \in 0 .. N |-> Body(walk, k)]
  BY <1>8
<1> HIDE DEF walk, N
<1>10. \A k \in 0 .. N : walk[k] = Body(walk, k)
  BY <1>9, Zenon
<1>11. ASSUME NEW k \in 0 .. N, NEW a \in Nat
       PROVE  walk[k][a] = IF k = 0 \/ a \notin DOMAIN slots THEN 0
                           ELSE IF slots[a].value = Null THEN Null
                           ELSE IF slots[a].len = n.len /\ slots[a].name = n.text
                                THEN slots[a].value
                           ELSE walk[k - 1][Next8(a)]
  <2>1. walk[k] = IF k = 0 THEN Zero ELSE [x \in Nat |-> Turn(walk[k - 1], x)]
    BY <1>4, <1>10
  <2>2. CASE k = 0
    BY <2>1, <2>2
  <2>3. CASE k # 0
    <3>1. walk[k][a] = Turn(walk[k - 1], a)
      BY <2>1, <2>3
    <3> QED BY <2>3, <3>1 DEF Turn
  <2> QED BY <2>2, <2>3
<1>12. IsWalk(n, walk)
  BY <1>3, <1>11 DEF IsWalk, N
<1> QED BY <1>12

(* Where the walk is before it comes to the names from m on, and those of  *)
(* them that are asked for.                                                *)
Chain(n) == InBucket(names, size, n.hash % size)
Place(n, m) == bucket[n.hash % size] + SumOf(names, {i \in Chain(n) : i < m})
Hits(n, m) == {i \in Chain(n) : m <= i /\ names[i].text = n.text}
Right(n, m, r) == IF Hits(n, m) = {} THEN r = Null ELSE r \in Hits(n, m)

(* At the end of the chain the walk stands at the mark.                    *)
LEMMA AtMark ==
  ASSUME NEW base, Finished(base), NEW n \in Names, n.hash % size \in DOMAIN bucket,
         NEW m \in Nat, \A i \in Chain(n) : i < m
  PROVE  /\ Place(n, m) \in Nat /\ Place(n, m) \in DOMAIN slots
         /\ slots[Place(n, m)].value = Null /\ Hits(n, m) = {}
<1> USE DEF Finished
<1>1. {i \in Chain(n) : i < m} = Chain(n)
  OBVIOUS
<1>2. Place(n, m) = Mark(names, size, bucket, n.hash % size)
  BY <1>1 DEF Place, Mark, BytesIn, Chain
<1>3. Mark(names, size, bucket, n.hash % size) \in Nat
  BY LayoutApart DEF NothingMeets
<1>4. IsFilled(names, size, bucket, slots)
  BY FilledIs
<1>5. [value |-> Null, len |-> 0, name |-> ""].value = Null
  OBVIOUS
<1>6. /\ Mark(names, size, bucket, n.hash % size) \in DOMAIN slots
      /\ slots[Mark(names, size, bucket, n.hash % size)].value = Null
  BY <1>4, <1>5, Zenon DEF IsFilled
<1>7. Chain(n) \in SUBSET Nat
  BY TableFacts DEF Chain, InBucket
<1>8. Hits(n, m) = {}
  BY <1>7 DEF Hits
<1> QED BY <1>2, <1>3, <1>6, <1>8

(* Otherwise it stands at the slot of the next name of the chain.          *)
LEMMA AtSlot ==
  ASSUME NEW base, Finished(base), NEW n \in Names, n.hash % size \in DOMAIN bucket,
         NEW m \in Nat, NEW i \in Chain(n), m <= i,
         \A k \in Chain(n) : m <= k => i <= k
  PROVE  /\ i \in DOMAIN names /\ i \in Nat
         /\ Place(n, m) \in Nat /\ Place(n, m) \in DOMAIN slots
         /\ slots[Place(n, m)].value = i /\ slots[Place(n, m)].len = names[i].len
         /\ slots[Place(n, m)].name = names[i].low
         /\ Next8(Place(n, m)) = Place(n, i + 1)
<1> USE DEF Finished
<1> DEFINE b == n.hash % size
           a == SlotAt(names, size, i, bucket)
           B == Before(names, size, i)
<1>1. Chain(n) \in SUBSET DOMAIN names /\ Chain(n) \in SUBSET Nat
  BY TableFacts DEF Chain, InBucket
<1>2. names[i] \in Names /\ BucketOf(names, size, i) = b /\ i \in DOMAIN names
  BY <1>1, TableFacts DEF BucketOf, Chain, InBucket
<1>3. B = {k \in Chain(n) : k < m}
  BY <1>1, <1>2 DEF Before, Chain
<1>4. SlotLies(names, size, bucket, i)
  BY <1>2, SlotsLie
<1>5. a = bucket[b] + SumOf(names, B) /\ a \in Nat /\ Multiple(8, a)
  BY <1>2, <1>4 DEF SlotLies
<1>6. Place(n, m) = a
  BY <1>3, <1>5 DEF Place
<1>7. slots[a] = [value |-> i, len |-> names[i].len, name |-> names[i].low] /\ a \in DOMAIN slots
  <2>1. IsFilled(names, size, bucket, slots)
    BY FilledIs
  <2> QED BY <1>2, <2>1 DEF IsFilled
<1>8. {k \in Chain(n) : k < i + 1} = B \cup {i}
  BY <1>1, <1>3
<1>9. B \in SUBSET DOMAIN names /\ i \in DOMAIN names \ B
  BY <1>1, <1>2, <1>3
<1>10. SumOf(names, B \cup {i}) = SumOf(names, B) + EltSize(names[i])
       /\ SumOf(names, B) \in Nat
  BY <1>9, SumOfFacts
<1>11. EltSize(names[i]) \in Nat /\ names[i].len \in Nat
  BY <1>2, EltSizeIs
<1>12. bucket[b] \in Nat
  BY BucketsApart DEF BucketsLie
<1>13. Place(n, i + 1) = bucket[b] + SumOf(names, B \cup {i})
  BY <1>8 DEF Place
<1>14. Next8(a) = a + EltSize(names[i])
  BY <1>2, <1>5, <1>7, EltSizeIs DEF Next8
<1> HIDE DEF a, B, b
<1>15. Place(n, i + 1) = a + EltSize(names[i])
  BY <1>5, <1>10, <1>11, <1>12, <1>13
<1> QED BY <1>1, <1>2, <1>5, <1>6, <1>7, <1>14, <1>15

(* Equal texts are equal names, and the low of a stored name is its text.  *)
LEMMA SameName ==
  ASSUME names \in Tables, NEW n \in Names, NEW i \in DOMAIN names
  PROVE  /\ names[i].low = names[i].text
         /\ names[i].text = n.text => names[i] = n
         /\ \A k \in DOMAIN names : names[k].text = n.text /\ names[i].text = n.text => k = i
<1>1. names \in Seq(Names) /\ \A k \in DOMAIN names : names[k] \in Names
  BY TablesAssumption
<1> QED BY <1>1, TablesAssumption, FunctionAssumption

(* What the walk has not seen decides what it returns: if turns enough are *)
(* left, the name asked for, or that it is not there.                      *)
LEMMA WalkFinds ==
  ASSUME NEW base, Finished(base), names \in Tables, NEW n \in Names,
         n.hash % size \in DOMAIN bucket, NEW w, IsWalk(n, w),
         NEW d \in Nat, d <= Len(names),
         \A m \in 1 .. Len(names) + 1 :
           Len(names) + 1 - m < d => Right(n, m, w[d][Place(n, m)]),
         NEW m \in 1 .. Len(names) + 1, Len(names) + 1 - m < d + 1
  PROVE  Right(n, m, w[d + 1][Place(n, m)])
<1> DEFINE a == Place(n, m)
           L == Len(names)
           later == {i \in Chain(n) : m <= i}
<1>1. L \in Nat /\ m \in Nat /\ d + 1 \in 0 .. L + 1 /\ (d + 1) - 1 = d /\ d + 1 # 0
      /\ DOMAIN names = 1 .. L
  BY DEF Finished
<1>2. Chain(n) \in SUBSET Nat /\ Chain(n) \in SUBSET DOMAIN names
  BY <1>1 DEF Chain, InBucket
<1>3. ASSUME a \in Nat, a \in DOMAIN slots
      PROVE  w[d + 1][a] = IF slots[a].value = Null THEN Null
                           ELSE IF slots[a].len = n.len /\ slots[a].name = n.text
                                THEN slots[a].value
                           ELSE w[d][Next8(a)]
  <2> HIDE DEF a, L
  <2>1. w[d + 1][a] = IF d + 1 = 0 \/ a \notin DOMAIN slots THEN 0
                      ELSE IF slots[a].value = Null THEN Null
                      ELSE IF slots[a].len = n.len /\ slots[a].name = n.text
                           THEN slots[a].value
                      ELSE w[(d + 1) - 1][Next8(a)]
    BY <1>1, <1>3 DEF IsWalk, L
  <2> QED BY <1>1, <1>3, <2>1
<1>4. CASE later = {}
  <2>1. \A i \in Chain(n) : i < m
    BY <1>1, <1>2, <1>4
  <2>2. a \in Nat /\ a \in DOMAIN slots /\ slots[a].value = Null /\ Hits(n, m) = {}
    BY <1>1, <2>1, AtMark
  <2> HIDE DEF a
  <2>3. w[d + 1][a] = Null
    BY <1>3, <2>2
  <2> QED BY <2>2, <2>3 DEF Right, a
<1>5. CASE later # {}
  <2>1. PICK i \in later : \A k \in later : i <= k
    <3>1. later \in SUBSET Nat
      BY <1>2
    <3> HIDE DEF later
    <3> QED BY <1>5, <3>1, MinIs
  <2>2. i \in Chain(n) /\ m <= i /\ \A k \in Chain(n) : m <= k => i <= k
    BY <2>1
  <2>3. /\ i \in DOMAIN names /\ i \in Nat /\ a \in Nat /\ a \in DOMAIN slots
        /\ slots[a].value = i /\ slots[a].len = names[i].len
        /\ slots[a].name = names[i].low /\ Next8(a) = Place(n, i + 1)
    BY <1>1, <2>2, AtSlot
  <2>4. names[i].low = names[i].text /\ (names[i].text = n.text => names[i] = n)
    BY <2>3, SameName
  <2>5. i # Null
    BY <2>3, NullAssumption
  <2> HIDE DEF a
  <2>6. CASE names[i].text = n.text
    <3>1. w[d + 1][a] = i
      BY <1>3, <2>3, <2>4, <2>5, <2>6
    <3>2. i \in Hits(n, m)
      BY <2>2, <2>6 DEF Hits
    <3> QED BY <3>1, <3>2 DEF Right, a
  <2>7. CASE names[i].text # n.text
    <3>1. w[d + 1][a] = w[d][Place(n, i + 1)]
      BY <1>3, <2>3, <2>4, <2>5, <2>7
    <3>2. i + 1 \in 1 .. L + 1 /\ L + 1 - (i + 1) < d
      BY <1>1, <2>2, <2>3
    <3>3. Right(n, i + 1, w[d][Place(n, i + 1)])
      BY <3>2
    <3>4. Hits(n, i + 1) = Hits(n, m)
      BY <1>1, <1>2, <2>2, <2>3, <2>7 DEF Hits
    <3> QED BY <3>1, <3>3, <3>4 DEF Right, a
  <2> QED BY <2>6, <2>7
<1> QED BY <1>4, <1>5

LEMMA FindIsExact ==
  ASSUME IInv
  PROVE  FindExact
<1> SUFFICES ASSUME bpc = "done", NEW n \in Names, n.hash % size \in DOMAIN bucket
             PROVE  LET put == {j \in DOMAIN names : names[j].text = n.text}
                    IN  HashFind(n) = IF put = {} THEN Null ELSE CHOOSE j \in put : TRUE
  BY DEF FindExact
<1>1. PICK base : Finished(base)
  BY DEF IInv, TableHeld
<1>2. names \in Seq(Names) /\ size \in Nat \ {0} /\ names \in Tables \cup {<<>>}
  BY <1>1 DEF Finished, IInv, TableHeld
<1>3. PICK L \in Nat : L = Len(names) /\ DOMAIN names = 1 .. L
  BY <1>2
<1>4. names \in Tables
  <2>1. ASSUME names = <<>> PROVE FALSE
    <3>1. DOMAIN names = {}
      BY <2>1
    <3>2. \A b : InBucket(names, size, b) = {}
      BY <3>1 DEF InBucket
    <3>3. DOMAIN bucket = {}
      BY <1>1, <3>2 DEF Finished, LaidOut
    <3> QED BY <3>3
  <2> QED BY <1>2, <2>1
<1>5. \A a \in DOMAIN slots : slots[a].len \in Nat
  <2>1. IsFilled(names, size, bucket, slots)
    BY <1>1, FilledIs DEF Finished
  <2>2. ASSUME NEW j \in DOMAIN names
        PROVE  slots[SlotAt(names, size, j, bucket)].len \in Nat
    <3>1. slots[SlotAt(names, size, j, bucket)]
            = [value |-> j, len |-> names[j].len, name |-> names[j].low]
      BY <2>1 DEF IsFilled
    <3> QED BY <1>2, <3>1, EltPositive
  <2>3. ASSUME NEW b \in DOMAIN bucket
        PROVE  slots[Mark(names, size, bucket, b)].len \in Nat
    <3>1. [value |-> Null, len |-> 0, name |-> ""].len = 0
      OBVIOUS
    <3>2. slots[Mark(names, size, bucket, b)].len = 0
      BY <2>1, <3>1, Zenon DEF IsFilled
    <3> QED BY <3>2
  <2>4. DOMAIN slots = {SlotAt(names, size, j, bucket) : j \in DOMAIN names}
                       \cup {Mark(names, size, bucket, b) : b \in DOMAIN bucket}
    BY <2>1 DEF IsFilled
  <2> QED BY <2>2, <2>3, <2>4
<1>6. PICK w : IsWalk(n, w)
  BY <1>3, <1>5, Walking
<1> DEFINE S == {d \in Nat : d <= L + 1 =>
                   \A m \in 1 .. L + 1 : L + 1 - m < d => Right(n, m, w[d][Place(n, m)])}
<1>7. 0 \in S
  BY <1>3
<1>8. ASSUME NEW d \in Nat, d \in S PROVE d + 1 \in S
  BY <1>1, <1>3, <1>4, <1>6, <1>8, WalkFinds
<1> HIDE DEF S
<1>9. L + 1 \in S
  <2>1. \A d \in Nat : d \in S
    BY <1>7, <1>8, Induction
  <2> QED BY <1>3, <2>1
<1>10. Right(n, 1, w[L + 1][Place(n, 1)])
  <2>1. 1 \in 1 .. L + 1 /\ L + 1 - 1 < L + 1
    BY <1>3
  <2> QED BY <1>9, <2>1 DEF S
<1>11. Chain(n) \in SUBSET (1 .. L)
  BY <1>3 DEF Chain, InBucket
<1>12. Place(n, 1) = bucket[n.hash % size]
  <2>1. {i \in Chain(n) : i < 1} = {}
    BY <1>11
  <2>2. SumOf(names, {}) = 0
    <3>1. {} \in SUBSET DOMAIN names /\ IsFiniteSet({})
      BY FS_EmptySet
    <3> QED BY <3>1, SumOfIs, SumEmpty
  <2>3. bucket[n.hash % size] \in Nat
    BY <1>1, BucketsApart DEF BucketsLie, Finished
  <2> QED BY <2>1, <2>2, <2>3 DEF Place
<1>13. HashFind(n) = w[L + 1][Place(n, 1)]
  BY <1>3, <1>6, <1>12 DEF IsWalk
<1> DEFINE put == {j \in DOMAIN names : names[j].text = n.text}
<1>14. Hits(n, 1) = put
  <2>1. \A j \in put : names[j] = n
    BY <1>4, SameName
  <2>2. put \subseteq Chain(n)
    BY <2>1 DEF Chain, InBucket
  <2>3. \A j \in Chain(n) : 1 <= j /\ j \in DOMAIN names
    BY <1>3, <1>11
  <2> QED BY <2>2, <2>3 DEF Hits
<1>15. \A j, k \in put : j = k
  BY <1>4, SameName
<1> HIDE DEF put
<1>16. HashFind(n) = IF put = {} THEN Null ELSE CHOOSE j \in put : TRUE
  BY <1>10, <1>13, <1>14, <1>15 DEF Right
<1> QED BY <1>16 DEF put

LEMMA PoolIsTiled ==
  ASSUME PoolInv
  PROVE  Tiled
<1> SUFFICES ASSUME hdr # [a \in {} |-> Null] PROVE Tiled
  BY DEF Tiled
<1>1. Laid /\ Chained
  BY DEF PoolInv
<1>2. DOMAIN hdr # {}
  BY <1>1 DEF Laid
<1>3. DOMAIN hdr = owned \cup {Base} /\ Base \notin owned
  BY <1>1, <1>2 DEF Laid
<1>4. \A a \in DOMAIN hdr :
        /\ a + hdr[a].usedsize + hdr[a].freesize <= MEMSIZE
        /\ hdr[a].next = IF a + hdr[a].usedsize + hdr[a].freesize = MEMSIZE
                         THEN Base ELSE a + hdr[a].usedsize + hdr[a].freesize
        /\ \A b \in DOMAIN hdr :
             a < b => a + hdr[a].usedsize + hdr[a].freesize <= b
  BY <1>1 DEF Chained, End
<1> QED BY <1>3, <1>4 DEF Tiled

(* The blocks of the pool tile its memory in every state of every use of   *)
(* it (pMalloc, pFree); when hashInit is done, the slots and end marks lie *)
(* inside the block of the elements and nowhere overlap, however the names *)
(* fall into the buckets and wherever the pool lies (hash.c:156-206); when *)
(* it returns, its temporary array is back, on the error paths too.        *)
THEOREM TableIsSound == Spec => []TableSound
<1>1. ASSUME IInv PROVE TypeOK
  <2>1. /\ hdr \in [DOMAIN hdr -> Header] /\ DOMAIN hdr \subseteq Addresses
        /\ owned \subseteq Addresses /\ memptr \in DOMAIN hdr \cup {Null}
        /\ pc \in {"idle", "pMalloc", "pFree"}
    BY <1>1 DEF IInv, PoolInv, Laid, Walks
  <2>2. PoolTypeOK
    BY <2>1 DEF PoolTypeOK, Header
  <2> QED BY <1>1, <2>2 DEF TypeOK, IInv, TableHeld
<1>2. ASSUME IInv PROVE Tiled /\ SlotsInside
  BY <1>2, PoolIsTiled, TableIsInside DEF IInv
<1>3. ASSUME IInv PROVE TestGivenBack
  BY <1>3 DEF IInv, TestHeld, TestGivenBack
<1>4. IInv => TableSound
  BY <1>1, <1>2, <1>3 DEF TableSound
<1> QED BY <1>4, Invariant, PTL

(* A finished table answers for every name: hash_find finds exactly the    *)
(* names that were put in, with their values, however they collide and     *)
(* whatever their lengths; its walk never leaves the bucket and always     *)
(* ends (hash_find, hashInit).                                             *)
THEOREM EveryNameFound == Spec => []FindExact
<1>1. IInv => FindExact
  BY FindIsExact
<1> QED BY <1>1, Invariant, PTL

-----------------------------------------------------------------------------
(***************************************************************************)
(* The refinement.                                                         *)
(***************************************************************************)
Spans == {[at |-> a, size |-> hdr[a].usedsize] : a \in owned}

(* The units in use behind the header of b, as Arena counts them.          *)
Used(b) == b .. b + hdr[b].usedsize - 1

LEMMA TakenIs ==
  Memory!Taken = UNION {Used(b) : b \in owned}
<1>1. \A s \in Spans : \E b \in owned : s.at .. s.at + s.size - 1 = Used(b)
  BY DEF Spans, Used
<1>2. \A b \in owned : \E s \in Spans : s.at .. s.at + s.size - 1 = Used(b)
  <2> TAKE b \in owned
  <2> DEFINE s == [at |-> b, size |-> hdr[b].usedsize]
  <2>1. s \in Spans /\ s.at = b /\ s.size = hdr[b].usedsize
    BY DEF Spans
  <2> QED BY <2>1 DEF Used
<1>3. Memory!Taken = UNION {s.at .. s.at + s.size - 1 : s \in Spans}
  BY DEF Memory!Taken, Spans
<1> QED BY <1>1, <1>2, <1>3

(* Nothing is handed out or given back, and no answer is returned.         *)
LEMMA Stutters ==
  ASSUME UNCHANGED <<owned, answer>>,
         \A a \in owned : hdr'[a].usedsize = hdr[a].usedsize
  PROVE  UNCHANGED <<Spans, answer>>
BY DEF Spans

LEMMA GrantStep ==
  ASSUME PoolInv, MallocSplit
  PROVE  Memory!Grant
<1> USE DEF PoolInv
<1> DEFINE newp == p + hdr[p].usedsize
<1>1. /\ pc = "pMalloc" /\ hdr[p].freesize >= arg
      /\ hdr' = [a \in DOMAIN hdr \cup {newp} |->
                   IF a = newp THEN [next |-> hdr[p].next, usedsize |-> arg,
                                     freesize |-> hdr[p].freesize - arg]
                   ELSE IF a = p THEN [hdr[p] EXCEPT !.next = newp, !.freesize = 0]
                   ELSE hdr[a]]
      /\ owned' = owned \cup {newp} /\ answer' = [units |-> arg, at |-> newp]
  BY DEF MallocSplit
<1>2. p \in DOMAIN hdr /\ arg \in Nat \ {0}
  BY <1>1 DEF Walks
<1>3. PICK e \in Nat, u \in Nat, f \in Nat :
        /\ e = End(hdr, p) /\ u = hdr[p].usedsize /\ f = hdr[p].freesize
        /\ p \in Nat /\ p < e /\ e <= MEMSIZE /\ 1 <= u
        /\ \A b \in DOMAIN hdr : p < b => e <= b
  BY <1>2, BlockFacts
<1>4. /\ newp = p + u /\ newp \in Nat /\ p < newp /\ newp + arg <= e /\ newp < e
  <2>1. newp = p + u /\ e = p + u + f
    BY <1>3 DEF End
  <2>2. f >= arg
    BY <1>1, <1>3
  <2> HIDE DEF newp
  <2>3. p \in Nat /\ 1 <= u
    BY <1>3
  <2> QED BY <1>2, <2>1, <2>2, <2>3
<1>5. newp \notin DOMAIN hdr
  BY <1>3, <1>4
<1> HIDE DEF newp
<1>6. newp \in Memory!Gaps(arg)
  <2>1. newp \in 1 .. MEMSIZE - 1
    BY <1>3, <1>4, Sizes0
  <2>2. ASSUME NEW x \in newp .. newp + arg - 1
        PROVE  x \in 1 .. MEMSIZE - 1 /\ \A b \in owned : x \notin Used(b)
    <3>1. x \in Nat /\ newp <= x /\ x < newp + arg
      BY <1>2, <1>4
    <3>2. x \in 1 .. MEMSIZE - 1
      <4>1. 0 < newp /\ newp + arg <= e /\ e <= MEMSIZE /\ newp \in Nat
        BY <1>3, <1>4
      <4> QED BY <1>2, <1>3, <3>1, <4>1, Sizes0
    <3>3. ASSUME NEW b \in owned, x \in Used(b) PROVE FALSE
      <4>1. b \in DOMAIN hdr
        BY DEF Laid
      <4>2. PICK v \in Nat, g \in Nat :
              /\ v = hdr[b].usedsize /\ g = hdr[b].freesize /\ b \in Nat
              /\ b < p => End(hdr, b) <= p
        BY <1>2, <4>1, BlockFacts
      <4>3. b <= x /\ x < b + v
        BY <3>1, <3>3, <4>2 DEF Used
      <4>4. b < p => b + v + g <= p
        BY <4>2 DEF End
      <4>5. p < b => e <= b
        BY <1>3, <4>1
      <4> QED BY <1>2, <1>3, <1>4, <3>1, <4>2, <4>3, <4>4, <4>5
    <3> QED BY <3>2, <3>3
  <2>3. newp .. newp + arg - 1 \subseteq (1 .. MEMSIZE - 1) \ Memory!Taken
    BY <2>2, TakenIs
  <2> QED BY <2>1, <2>3 DEF Memory!Gaps
<1>7. Spans' = Spans \cup {[at |-> newp, size |-> arg]}
  <2>1. hdr'[newp].usedsize = arg
    BY <1>1
  <2>2. \A a \in owned : hdr'[a].usedsize = hdr[a].usedsize
    <3> TAKE a \in owned
    <3>1. a \in DOMAIN hdr /\ a # newp /\ hdr[p] \in Header
      BY <1>2, <1>5 DEF Laid
    <3>2. [hdr[p] EXCEPT !.next = newp, !.freesize = 0]
            = [next |-> newp, usedsize |-> hdr[p].usedsize, freesize |-> 0]
      BY <3>1, HeaderExcept, Zenon
    <3> QED BY <1>1, <3>1, <3>2
  <2> QED BY <1>1, <2>1, <2>2 DEF Spans
<1>8. answer'.units = arg /\ answer'.at = newp
  BY <1>1
<1> QED BY <1>2, <1>6, <1>7, <1>8 DEF Memory!Grant, Spans

LEMMA RefuseStep ==
  ASSUME PoolInv, MallocNull
  PROVE  Memory!Refuse
<1> USE DEF PoolInv
<1>1. /\ pc = "pMalloc" /\ UNCHANGED <<hdr, owned>>
      /\ answer' = [units |-> arg, at |-> Null]
  BY DEF MallocNull, ring
<1>2. arg \in Nat \ {0} /\ p \in DOMAIN hdr
  BY <1>1 DEF Walks
<1>3. ASSUME NEW x \in Memory!Gaps(arg) PROVE FALSE
  <2>1. x \in 1 .. MEMSIZE - 1 /\ x \in Nat /\ x \in Addresses
    BY Sizes0 DEF Memory!Gaps
  <2>2. \A y \in x .. x + arg - 1 :
          y \in 1 .. MEMSIZE - 1 /\ \A b \in owned : y \notin Used(b)
    BY TakenIs DEF Memory!Gaps
  <2>3. PICK b \in DOMAIN hdr : b <= x /\ x < End(hdr, b)
    BY <1>2, <2>1 DEF Laid
  <2>4. PICK e \in Nat, u \in Nat, f \in Nat :
          /\ e = End(hdr, b) /\ u = hdr[b].usedsize /\ f = hdr[b].freesize
          /\ b \in Nat /\ e <= MEMSIZE /\ hdr[b].next \in DOMAIN hdr
          /\ hdr[b].next = IF e = MEMSIZE THEN Base ELSE e
    BY <2>3, BlockFacts
  <2>5. e = b + u + f /\ f < arg
    BY <1>2, <2>3, <2>4, AllPassed DEF End
  <2>6. b + u <= x
    <3>1. CASE b = Base
      <4>1. hdr[Base].usedsize = 1
        BY <2>3 DEF Laid
      <4> QED BY <2>1, <2>4, <3>1, <4>1, Sizes0
    <3>2. CASE b # Base
      <4>1. x \notin b .. b + u - 1
        BY <1>2, <2>1, <2>2, <2>3, <2>4, <3>2 DEF Laid, Used
      <4> QED BY <2>1, <2>3, <2>4, <4>1
    <3> QED BY <3>1, <3>2
  <2>7. e \in x .. x + arg - 1
    BY <1>2, <2>1, <2>3, <2>4, <2>5, <2>6
  <2>8. e \in 1 .. MEMSIZE - 1 /\ \A c \in owned : e \notin Used(c)
    BY <2>2, <2>7
  <2>9. e \in DOMAIN hdr /\ e \in owned
    BY <2>4, <2>8, Sizes0 DEF Laid
  <2>10. hdr[e].usedsize \in Nat /\ 1 <= hdr[e].usedsize
    BY <2>9, BlockFacts
  <2>11. e \in Used(e)
    BY <2>4, <2>10 DEF Used
  <2> QED BY <2>8, <2>9, <2>11
<1>4. Spans' = Spans
  BY <1>1 DEF Spans
<1>5. answer'.at = Null /\ answer'.units = arg
  BY <1>1
<1> QED BY <1>3, <1>4, <1>5 DEF Memory!Refuse, Spans

LEMMA ReleaseStep ==
  ASSUME PoolInv, FreeMerge
  PROVE  Memory!Release
<1> USE DEF PoolInv
<1>1. /\ pc = "pFree" /\ p = arg
      /\ hdr' = [a \in DOMAIN hdr \ {p} |->
               IF a = prev
               THEN [hdr[a] EXCEPT !.freesize = @ + hdr[p].usedsize + hdr[p].freesize,
                                   !.next = hdr[p].next]
               ELSE hdr[a]]
      /\ owned' = owned \ {p} /\ answer' = answer
  BY DEF FreeMerge
<1>2. p \in owned /\ owned \subseteq DOMAIN hdr /\ prev \in DOMAIN hdr
  BY <1>1 DEF Walks, Laid
<1>3. \A a \in owned' : hdr'[a].usedsize = hdr[a].usedsize
  <2>1. \A n, f : [hdr[prev] EXCEPT !.freesize = f, !.next = n].usedsize
                    = hdr[prev].usedsize
    <3>1. hdr[prev] \in Header
      BY <1>2 DEF Laid
    <3>2. \A n, f : [hdr[prev] EXCEPT !.freesize = f, !.next = n]
                    = [next |-> n, usedsize |-> hdr[prev].usedsize, freesize |-> f]
      BY <3>1, HeaderExcept, Zenon
    <3> QED BY <3>2
  <2> QED BY <1>1, <1>2, <2>1
<1> DEFINE s == [at |-> p, size |-> hdr[p].usedsize]
<1>4. s \in Spans /\ Spans' = Spans \ {s}
  <2> DEFINE Span(a) == [at |-> a, size |-> hdr[a].usedsize]
  <2>1. Spans = {Span(a) : a \in owned} /\ Spans' = {Span(a) : a \in owned \ {p}}
    <3>1. owned' = owned \ {p} /\ \A a \in owned \ {p} : hdr'[a].usedsize = hdr[a].usedsize
      BY <1>1, <1>3
    <3>2. Spans = {Span(a) : a \in owned}
      BY DEF Spans
    <3>3. Spans' = {[at |-> a, size |-> hdr'[a].usedsize] : a \in owned \ {p}}
      BY <3>1 DEF Spans
    <3> QED BY <3>1, <3>2, <3>3
  <2>2. s = Span(p) /\ \A a, b : Span(a) = Span(b) => a = b
    BY SpansDiffer
  <2> HIDE DEF Span, s
  <2> QED BY <1>2, <2>1, <2>2
<1> QED BY <1>1, <1>4 DEF Memory!Release, Spans

LEMMA StepRefines ==
  ASSUME IInv, [Next]_vars
  PROVE  Memory!Next \/ UNCHANGED <<Spans, answer>>
<1> USE DEF IInv
<1>1. ASSUME NEW n, PMalloc(n) PROVE UNCHANGED <<Spans, answer>>
  BY <1>1, Stutters DEF PMalloc, PoolInv, Laid
<1>2. ASSUME NEW bp, PFree(bp) PROVE UNCHANGED <<Spans, answer>>
  BY <1>2, Stutters DEF PFree, ring
<1>3. ASSUME UNCHANGED pool PROVE UNCHANGED <<Spans, answer>>
  BY <1>3, Stutters DEF pool
<1>4. CASE PoolStep
  <2>1. ASSUME MallocNext \/ FreeNext \/ FreeUnknown
        PROVE  UNCHANGED <<Spans, answer>>
    BY <2>1, Stutters DEF MallocNext, FreeNext, FreeUnknown, ring
  <2> QED BY <1>4, <2>1, GrantStep, RefuseStep, ReleaseStep
          DEF PoolStep, Memory!Next
<1>5. CASE Users
  BY <1>1, <1>2, <1>5 DEF Users
<1>6. CASE StartBuild \/ AskTest \/ AskBuckets \/ NoTest \/ AskElts
  BY <1>1, <1>3, <1>6 DEF StartBuild, AskTest, AskBuckets, NoTest, AskElts
<1>7. CASE GiveUp \/ Fill \/ Finish \/ Ended \/ UNCHANGED vars
  BY <1>2, <1>3, <1>7 DEF GiveUp, Fill, Finish, Ended, vars
<1> QED BY <1>4, <1>5, <1>6, <1>7 DEF Next, Step

(* The pool implements Arena: every span it hands out lies in the pool and *)
(* meets no other, and a request is refused only if no gap is large        *)
(* enough, wherever memptr stands (pMalloc, pFree).                        *)
THEOREM PoolImplementsArena == Spec => ImplementsArena
<1>1. Init => Memory!Init
  BY DEF Init, PoolInit, Memory!Init
<1>2. IInv /\ [Next]_vars => [Memory!Next]_<<Spans, answer>>
  BY StepRefines
<1>3. Memory!Spec <=> Memory!Init /\ [][Memory!Next]_<<Spans, answer>>
  BY DEF Memory!Spec, Spans
<1> QED BY <1>1, <1>2, <1>3, Invariant, PTL DEF Spec, ImplementsArena
=============================================================================
