------------------------ MODULE ConnectionPool_proofs ------------------------
(***************************************************************************)
(* Proofs about ConnectionPool, for every chunk size and every limit: the  *)
(* pool's data structure stays sound, and the pool implements the          *)
(* allocator of ConnectionAllocator.                                       *)
(***************************************************************************)
EXTENDS ConnectionPool, FiniteSetTheorems, TLAPS

(* What a new chunk holds: the next UnitNum slot numbers, each once.       *)
LEMMA ChunkFacts ==
  ASSUME NEW k \in Nat
  PROVE  /\ ChunkInit(k) \in Seq(Nat)
         /\ Len(ChunkInit(k)) = UnitNum
         /\ \A i \in 1 .. UnitNum : ChunkInit(k)[i] = k * UnitNum + i - 1
         /\ Members(ChunkInit(k)) = k * UnitNum .. (k + 1) * UnitNum - 1
<1>1. \A i \in 1 .. UnitNum : k * UnitNum + i - 1 \in Nat
  BY UnitAssumption
<1>2. ChunkInit(k) \in Seq(Nat) /\ Len(ChunkInit(k)) = UnitNum
  BY <1>1, UnitAssumption DEF ChunkInit
<1>3. \A i \in 1 .. UnitNum : ChunkInit(k)[i] = k * UnitNum + i - 1
  BY DEF ChunkInit
<1>4. (k + 1) * UnitNum = k * UnitNum + UnitNum
  BY UnitAssumption
<1>5. \A x \in k * UnitNum .. (k + 1) * UnitNum - 1 :
        x - k * UnitNum + 1 \in 1 .. UnitNum
  BY <1>4, UnitAssumption
<1>6. Members(ChunkInit(k)) = k * UnitNum .. (k + 1) * UnitNum - 1
  <2>1. ASSUME NEW x \in Members(ChunkInit(k))
        PROVE  x \in k * UnitNum .. (k + 1) * UnitNum - 1
    BY <1>2, <1>3, <1>4, UnitAssumption DEF Members
  <2>2. ASSUME NEW x \in k * UnitNum .. (k + 1) * UnitNum - 1
        PROVE  x \in Members(ChunkInit(k))
    <3>1. x = ChunkInit(k)[x - k * UnitNum + 1]
      BY <1>3, <1>5, UnitAssumption
    <3> QED BY <3>1, <1>2, <1>5 DEF Members
  <2> QED BY <2>1, <2>2
<1> QED BY <1>2, <1>3, <1>6

(* The list poolAlloc takes from is never empty, repeats nothing, and is   *)
(* made of slots nobody holds.                                             *)
LEMMA FreeListFacts ==
  ASSUME IInv
  PROVE  /\ FreeList \in Seq(Nat)
         /\ FreeList # <<>>
         /\ \A i, j \in 1 .. Len(FreeList) : FreeList[i] = FreeList[j] => i = j
         /\ Members(FreeList) \cap busy = {}
         /\ Members(FreeList) \cup busy =
              IF free = <<>> THEN 0 .. (chunks + 1) * UnitNum - 1 ELSE Slots
<1>1. CASE free # <<>>
  BY <1>1 DEF IInv, TypeOK, NoDuplicates, Partition, FreeList
<1>2. CASE free = <<>>
  <2>1. FreeList = ChunkInit(chunks)
    BY <1>2 DEF FreeList
  <2>2. chunks \in Nat
    BY DEF IInv, TypeOK
  <2>3. busy = 0 .. chunks * UnitNum - 1
    <3>1. Len(free) = 0
      BY <1>2
    <3>2. Members(free) = {}
      BY <3>1 DEF Members
    <3> QED BY <3>2 DEF IInv, Partition, Slots
  <2>4. /\ FreeList \in Seq(Nat) /\ Len(FreeList) = UnitNum
        /\ \A i \in 1 .. UnitNum : FreeList[i] = chunks * UnitNum + i - 1
        /\ Members(FreeList) = chunks * UnitNum .. (chunks + 1) * UnitNum - 1
    BY <2>1, <2>2, ChunkFacts
  <2>5. chunks * UnitNum \in Nat /\ (chunks + 1) * UnitNum = chunks * UnitNum + UnitNum
    BY <2>2, UnitAssumption
  <2>6. FreeList # <<>>
    BY <2>4, UnitAssumption
  <2>7. \A i, j \in 1 .. Len(FreeList) : FreeList[i] = FreeList[j] => i = j
    BY <2>4, <2>5, UnitAssumption
  <2>8. Members(FreeList) \cap busy = {}
    BY <2>3, <2>4, <2>5, UnitAssumption
  <2>9. Members(FreeList) \cup busy = 0 .. (chunks + 1) * UnitNum - 1
    BY <2>3, <2>4, <2>5, UnitAssumption
  <2> QED BY <1>2, <2>4, <2>6, <2>7, <2>8, <2>9
<1> QED BY <1>1, <1>2

(* Taking the head off a list without repetitions.                         *)
LEMMA HeadTail ==
  ASSUME NEW s \in Seq(Nat), s # <<>>,
         \A i, j \in 1 .. Len(s) : s[i] = s[j] => i = j
  PROVE  /\ Head(s) \in Nat
         /\ Tail(s) \in Seq(Nat)
         /\ \A i, j \in 1 .. Len(Tail(s)) : Tail(s)[i] = Tail(s)[j] => i = j
         /\ Members(Tail(s)) = Members(s) \ {Head(s)}
         /\ Head(s) \in Members(s)
<1>1. Len(s) \in Nat /\ Len(s) > 0 /\ Head(s) = s[1] /\ Tail(s) \in Seq(Nat)
  OBVIOUS
<1>2. Len(Tail(s)) = Len(s) - 1 /\ \A i \in 1 .. Len(s) - 1 : Tail(s)[i] = s[i + 1]
  BY <1>1
<1>3. \A i, j \in 1 .. Len(Tail(s)) : Tail(s)[i] = Tail(s)[j] => i = j
  BY <1>1, <1>2
<1>4. Members(Tail(s)) \subseteq Members(s) \ {Head(s)}
  BY <1>1, <1>2 DEF Members
<1>5. ASSUME NEW x \in Members(s), x # Head(s)
      PROVE  x \in Members(Tail(s))
  <2>1. PICK i \in 1 .. Len(s) : x = s[i]
    BY DEF Members
  <2>2. i # 1
    BY <2>1, <1>1, <1>5
  <2>3. i - 1 \in 1 .. Len(Tail(s)) /\ Tail(s)[i - 1] = x
    BY <2>1, <2>2, <1>1, <1>2
  <2> QED BY <2>3 DEF Members
<1>6. Head(s) \in Members(s)
  BY <1>1 DEF Members
<1> QED BY <1>1, <1>3, <1>4, <1>5, <1>6

(* Putting an element in front of a list that does not hold it.            *)
LEMMA ConsFacts ==
  ASSUME NEW s \in Seq(Nat), NEW c \in Nat, c \notin Members(s),
         \A i, j \in 1 .. Len(s) : s[i] = s[j] => i = j,
         NEW t, t = <<c>> \o s
  PROVE  /\ t \in Seq(Nat)
         /\ \A i, j \in 1 .. Len(t) : t[i] = t[j] => i = j
         /\ Members(t) = Members(s) \cup {c}
<1>1. /\ t \in Seq(Nat) /\ Len(t) = Len(s) + 1 /\ t[1] = c
      /\ Len(s) \in Nat
  OBVIOUS
<1>2. \A i \in 1 .. Len(s) + 1 : i # 1 => t[i] = s[i - 1]
  BY <1>1
<1>3. \A i \in 1 .. Len(s) + 1 : i # 1 => t[i] # c
  BY <1>1, <1>2 DEF Members
<1>4. \A i, j \in 1 .. Len(t) : t[i] = t[j] => i = j
  <2> SUFFICES ASSUME NEW i \in 1 .. Len(t), NEW j \in 1 .. Len(t), t[i] = t[j]
               PROVE  i = j
    OBVIOUS
  <2>1. CASE i = 1 \/ j = 1
    BY <1>1, <1>3, <2>1
  <2>2. CASE i # 1 /\ j # 1
    <3>1. i - 1 \in 1 .. Len(s) /\ j - 1 \in 1 .. Len(s) /\ s[i - 1] = s[j - 1]
      BY <1>1, <1>2, <2>2
    <3>2. i - 1 = j - 1
      BY <3>1
    <3> QED BY <1>1, <3>2
  <2> QED BY <2>1, <2>2
<1>5. Members(t) \subseteq Members(s) \cup {c}
  <2>1. ASSUME NEW i \in 1 .. Len(t), i # 1 PROVE t[i] \in Members(s)
    <3>1. i - 1 \in 1 .. Len(s) /\ t[i] = s[i - 1]
      BY <2>1, <1>1, <1>2
    <3> QED BY <3>1 DEF Members
  <2> QED BY <2>1, <1>1 DEF Members
<1>6. \A i \in 1 .. Len(s) : i + 1 \in 1 .. Len(t) /\ t[i + 1] = s[i]
  BY <1>1, <1>2
<1>7. Members(s) \cup {c} \subseteq Members(t)
  <2>1. c \in Members(t)
    BY <1>1 DEF Members
  <2>2. Members(s) \subseteq Members(t)
    <3>1. ASSUME NEW i \in 1 .. Len(s) PROVE s[i] \in Members(t)
      <4>1. i + 1 \in 1 .. Len(t) /\ t[i + 1] = s[i]
        BY <1>6
      <4> QED BY <4>1 DEF Members
    <3> QED BY <3>1 DEF Members
  <2> QED BY <2>1, <2>2
<1> QED BY <1>1, <1>4, <1>5, <1>7

(* Growing the vector never shrinks it and always makes room, and up to    *)
(* four elements it makes no room to spare.                                *)
LEMMA ResizeFacts ==
  ASSUME NEW cap \in Nat, NEW n \in Nat
  PROVE  /\ ResizeTo(cap, n) \in Nat /\ n <= ResizeTo(cap, n)
         /\ n = cap + 1 /\ n <= 4 => ResizeTo(cap, n) = n
BY DEF ResizeTo

-----------------------------------------------------------------------------
(* The initial pool, with the listening object taken, is sound.            *)
LEMMA InitIInv == Init => IInv
<1> SUFFICES ASSUME Init PROVE IInv
  OBVIOUS
<1>1. /\ ChunkInit(0) \in Seq(Nat) /\ Len(ChunkInit(0)) = UnitNum
      /\ \A i \in 1 .. UnitNum : ChunkInit(0)[i] = i - 1
      /\ Members(ChunkInit(0)) = 0 .. UnitNum - 1
  BY ChunkFacts, UnitAssumption
<1>2. /\ ChunkInit(0) # <<>> /\ Head(ChunkInit(0)) = 0
      /\ \A i, j \in 1 .. Len(ChunkInit(0)) :
           ChunkInit(0)[i] = ChunkInit(0)[j] => i = j
  BY <1>1, UnitAssumption
<1>3. free \in Seq(Nat) /\ NoDuplicates /\ Members(free) = (0 .. UnitNum - 1) \ {0}
  BY <1>1, <1>2, HeadTail DEF Init, NoDuplicates
<1>4. TypeOK /\ CapacityCovers
  <2>1. capacity = 1
    BY ResizeFacts DEF Init
  <2>2. free \in Seq(Nat) /\ used = 1 /\ chunks = 1
    BY <1>3 DEF Init
  <2>3. /\ connected = {} /\ linked = {} /\ idle = {} /\ waiting = {} /\ backends = {}
        /\ phase = "run" /\ scan = 0
    BY DEF Init
  <2>4. busy \subseteq Nat
    BY DEF Init, Listen
  <2>5. exiting \in BOOLEAN
    BY DEF Init
  <2> QED BY <2>1, <2>2, <2>3, <2>4, <2>5 DEF TypeOK, CapacityCovers
<1>5. Partition
  BY <1>3, UnitAssumption DEF Init, Partition, Slots, Listen
<1>6. UsedCounts
  <2>1. IsFiniteSet({Listen}) /\ Cardinality({Listen}) = 1
    BY FS_Singleton
  <2> QED BY <2>1, MaxAssumption DEF Init, UsedCounts
<1>7. ReturnedOnce /\ LeakedOnlyByScan /\ Roles /\ Scanned /\ ScanInside
  BY DEF Init, ReturnedOnce, LeakedOnlyByScan, Roles, Scanned, ScanInside
<1> QED BY <1>3, <1>4, <1>5, <1>6, <1>7 DEF IInv

(* getIdleConnection keeps the list sound and hands out a free object.     *)
LEMMA AllocFacts ==
  ASSUME IInv, GetIdleConnection
  PROVE  /\ free' \in Seq(Nat) /\ used' \in Nat /\ chunks' \in Nat \ {0}
         /\ capacity' \in Nat /\ busy' \subseteq Nat
         /\ NoDuplicates' /\ Partition' /\ UsedCounts' /\ CapacityCovers'
         /\ Head(FreeList) \in Nat /\ Head(FreeList) \notin busy
         /\ busy' = busy \cup {Head(FreeList)}
<1> DEFINE c == Head(FreeList)
<1>1. /\ FreeList \in Seq(Nat) /\ FreeList # <<>>
      /\ \A i, j \in 1 .. Len(FreeList) : FreeList[i] = FreeList[j] => i = j
      /\ Members(FreeList) \cap busy = {}
      /\ Members(FreeList) \cup busy =
           IF free = <<>> THEN 0 .. (chunks + 1) * UnitNum - 1 ELSE Slots
  BY FreeListFacts
<1>2. /\ c \in Nat /\ Tail(FreeList) \in Seq(Nat)
      /\ \A i, j \in 1 .. Len(Tail(FreeList)) :
           Tail(FreeList)[i] = Tail(FreeList)[j] => i = j
      /\ Members(Tail(FreeList)) = Members(FreeList) \ {c}
      /\ c \in Members(FreeList)
  BY <1>1, HeadTail
<1>3. free' = Tail(FreeList) /\ used' = used + 1 /\ busy' = busy \cup {c}
  BY DEF GetIdleConnection, PoolAlloc
<1>4. c \notin busy
  BY <1>1, <1>2
<1>5. free' \in Seq(Nat) /\ NoDuplicates'
  BY <1>2, <1>3 DEF NoDuplicates
<1>6. chunks' \in Nat \ {0} /\ capacity' \in Nat /\ CapacityCovers'
  <2>1. chunks \in Nat \ {0} /\ capacity \in Nat /\ chunks <= capacity
        /\ (chunks <= 4 => capacity = chunks)
    BY DEF IInv, TypeOK, CapacityCovers
  <2>2. /\ ResizeTo(capacity, chunks + 1) \in Nat
        /\ chunks + 1 <= ResizeTo(capacity, chunks + 1)
        /\ chunks + 1 <= 4 => ResizeTo(capacity, chunks + 1) = chunks + 1
    BY <2>1, ResizeFacts
  <2> QED BY <2>1, <2>2 DEF GetIdleConnection, PoolAlloc, CapacityCovers
<1>7. Partition'
  <2>1. Slots' = IF free = <<>> THEN 0 .. (chunks + 1) * UnitNum - 1 ELSE Slots
    BY DEF GetIdleConnection, PoolAlloc, Slots
  <2>2. Members(free') = Members(FreeList) \ {c}
    BY <1>2, <1>3
  <2>3. Members(free') \cap busy' = {} /\ Members(free') \cup busy' = Slots'
    BY <2>1, <2>2, <1>1, <1>2, <1>3
  <2> QED BY <2>3 DEF Partition, Members
<1>8. UsedCounts' /\ used' \in Nat
  <2>1. IsFiniteSet(busy) /\ used = Cardinality(busy) /\ used < MaxConnections
        /\ used \in Nat
    BY DEF IInv, TypeOK, UsedCounts, GetIdleConnection
  <2>2. IsFiniteSet(busy \cup {c}) /\ Cardinality(busy \cup {c}) = used + 1
    BY <2>1, <1>4, FS_AddElement
  <2> QED BY <2>1, <2>2, <1>3, MaxAssumption DEF UsedCounts
<1>9. busy' \subseteq Nat
  BY <1>2, <1>3 DEF IInv, TypeOK
<1> QED BY <1>2, <1>3, <1>4, <1>5, <1>6, <1>7, <1>8, <1>9

(* poolFree of a held object keeps the list sound.                         *)
LEMMA FreeFacts ==
  ASSUME IInv, NEW c \in busy, PoolFree(c)
  PROVE  /\ free' \in Seq(Nat) /\ used' \in Nat /\ chunks' \in Nat \ {0}
         /\ capacity' \in Nat /\ busy' \subseteq Nat
         /\ NoDuplicates' /\ Partition' /\ UsedCounts' /\ CapacityCovers'
<1>1. /\ free \in Seq(Nat) /\ c \in Nat /\ c \notin Members(free)
      /\ \A i, j \in 1 .. Len(free) : free[i] = free[j] => i = j
  BY DEF IInv, TypeOK, NoDuplicates, Partition
<1>2. /\ free' = <<c>> \o free /\ used' = used - 1 /\ busy' = busy \ {c}
      /\ chunks' = chunks /\ capacity' = capacity
  BY DEF PoolFree
<1>3. /\ free' \in Seq(Nat)
      /\ \A i, j \in 1 .. Len(free') : free'[i] = free'[j] => i = j
      /\ Members(free') = Members(free) \cup {c}
  <2>1. \A t : t = <<c>> \o free =>
          /\ t \in Seq(Nat)
          /\ \A i, j \in 1 .. Len(t) : t[i] = t[j] => i = j
          /\ Members(t) = Members(free) \cup {c}
    BY <1>1, ConsFacts
  <2> QED BY <2>1, <1>2
<1>4. NoDuplicates'
  BY <1>3 DEF NoDuplicates
<1>5. Partition'
  <2>1. Slots' = Slots
    BY <1>2 DEF Slots
  <2>2. Members(free) \cap busy = {} /\ Members(free) \cup busy = Slots
    BY DEF IInv, Partition
  <2>3. Members(free') \cap busy' = {} /\ Members(free') \cup busy' = Slots'
    BY <2>1, <2>2, <1>2, <1>3
  <2> QED BY <2>3 DEF Partition, Members
<1>6. UsedCounts' /\ used' \in Nat
  <2>1. IsFiniteSet(busy) /\ used = Cardinality(busy) /\ used <= MaxConnections
        /\ used \in Nat
    BY DEF IInv, TypeOK, UsedCounts
  <2>2. IsFiniteSet(busy \ {c}) /\ Cardinality(busy \ {c}) = used - 1
    BY <2>1, FS_RemoveElement
  <2>3. Cardinality(busy \ {c}) \in Nat
    BY <2>2, FS_CardinalityType
  <2> QED BY <2>1, <2>2, <2>3, <1>2, MaxAssumption DEF UsedCounts
<1> QED BY <1>2, <1>3, <1>4, <1>5, <1>6 DEF IInv, TypeOK, CapacityCovers

(* A step that leaves the free list and its counters alone.                *)
LEMMA SameList ==
  ASSUME IInv, UNCHANGED list
  PROVE  /\ free' \in Seq(Nat) /\ used' \in Nat /\ chunks' \in Nat \ {0}
         /\ capacity' \in Nat /\ busy' \subseteq Nat
         /\ NoDuplicates' /\ Partition' /\ UsedCounts' /\ CapacityCovers'
BY DEF IInv, TypeOK, list, NoDuplicates, Partition, Slots, Members, UsedCounts,
       CapacityCovers

(* Closing an object that looks open: it was held, and the others are as   *)
(* they were.                                                              *)
LEMMA CloseFacts ==
  ASSUME IInv, NEW c, LooksOpen(c), Close(c), exiting' = exiting
  PROVE  /\ c \in busy \ {Listen} /\ busy' = busy \ {c}
         /\ ReturnedOnce' /\ LeakedOnlyByScan'
         /\ backends' \subseteq busy' \ {Listen}
         /\ busy' \ ({Listen} \cup backends') \subseteq connected'
         /\ waiting' \subseteq connected' \ (linked' \cup backends')
         /\ free' \in Seq(Nat) /\ used' \in Nat /\ chunks' = chunks
         /\ chunks' \in Nat \ {0} /\ capacity' \in Nat /\ busy' \subseteq Nat
         /\ NoDuplicates' /\ Partition' /\ UsedCounts' /\ CapacityCovers'
<1>1. c \in busy \ {Listen}
  BY DEF IInv, ReturnedOnce, LooksOpen
<1>2. /\ PoolFree(c) /\ busy' = busy \ {c} /\ chunks' = chunks
      /\ connected' = connected \ {c} /\ linked' = linked \ {c}
      /\ waiting' = waiting \ {c} /\ backends' = backends \ {c}
  BY DEF Close, PoolFree
<1>3. ReturnedOnce'
  BY <1>1, <1>2 DEF IInv, ReturnedOnce
<1>4. LeakedOnlyByScan'
  BY <1>1, <1>2 DEF IInv, LeakedOnlyByScan, LooksOpen
<1>5. /\ backends' \subseteq busy' \ {Listen}
      /\ busy' \ ({Listen} \cup backends') \subseteq connected'
      /\ waiting' \subseteq connected' \ (linked' \cup backends')
  BY <1>1, <1>2 DEF IInv, Roles
<1> QED BY <1>1, <1>2, <1>3, <1>4, <1>5, FreeFacts

(* Every operation of the pool, and every step of a scan, preserves the    *)
(* invariant.                                                              *)
LEMMA NextIInv == IInv /\ [Next]_vars => IInv'
<1> SUFFICES ASSUME IInv, [Next]_vars PROVE IInv'
  OBVIOUS
<1> DEFINE h == Head(FreeList)
<1>1. CASE EventAccept
  <2>1. /\ phase = "run" /\ GetIdleConnection
        /\ connected' = connected \cup {h} /\ waiting' = waiting \cup {h}
        /\ UNCHANGED <<linked, idle, backends, exiting, phase, scan>>
    BY <1>1 DEF EventAccept, shutdown
  <2>2. h \in Nat /\ h \notin busy /\ busy' = busy \cup {h}
    BY <2>1, AllocFacts
  <2>3. ReturnedOnce' /\ LeakedOnlyByScan' /\ Roles'
    BY <2>1, <2>2 DEF IInv, ReturnedOnce, LeakedOnlyByScan, LooksOpen, Roles
  <2>4. TypeOK' /\ Scanned' /\ ScanInside'
    BY <2>1, <2>2, AllocFacts DEF IInv, TypeOK, Scanned, ScanInside
  <2> QED BY <2>1, <2>3, <2>4, AllocFacts DEF IInv
<1>2. CASE OpenUpstreamConnection
  <2>1. /\ phase = "run" /\ GetIdleConnection
        /\ linked' = linked \cup {h} /\ backends' = backends \cup {h}
        /\ UNCHANGED <<connected, idle, waiting, exiting, phase, scan>>
    BY <1>2 DEF OpenUpstreamConnection, shutdown
  <2>2. h \in Nat /\ h \notin busy /\ busy' = busy \cup {h}
    BY <2>1, AllocFacts
  <2>3. ReturnedOnce' /\ LeakedOnlyByScan' /\ Roles'
    BY <2>1, <2>2 DEF IInv, ReturnedOnce, LeakedOnlyByScan, LooksOpen, Roles
  <2>4. TypeOK' /\ Scanned' /\ ScanInside'
    BY <2>1, <2>2, AllocFacts DEF IInv, TypeOK, Scanned, ScanInside
  <2> QED BY <2>1, <2>3, <2>4, AllocFacts DEF IInv
<1>3. CASE HttpInitRequest
  <2>1. PICK c \in waiting : linked' = linked \cup {c} /\ waiting' = waiting \ {c}
    BY <1>3 DEF HttpInitRequest
  <2>2. /\ phase = "run" /\ UNCHANGED list
        /\ UNCHANGED <<chunks, busy, connected, idle, backends, exiting, phase, scan>>
    BY <1>3 DEF HttpInitRequest, shutdown, list
  <2>3. ReturnedOnce' /\ LeakedOnlyByScan' /\ Roles'
    BY <2>1, <2>2 DEF IInv, ReturnedOnce, LeakedOnlyByScan, LooksOpen, Roles
  <2>4. TypeOK' /\ Scanned' /\ ScanInside'
    BY <2>1, <2>2, SameList DEF IInv, TypeOK, Scanned, ScanInside
  <2> QED BY <2>2, <2>3, <2>4, SameList DEF IInv
<1>4. CASE InitUpstreamConnection
  <2>1. PICK c \in (backends \cap linked) \ connected : connected' = connected \cup {c}
    BY <1>4 DEF InitUpstreamConnection
  <2>2. /\ phase = "run" /\ UNCHANGED list
        /\ UNCHANGED <<chunks, busy, linked, idle, waiting, backends, exiting, phase, scan>>
    BY <1>4 DEF InitUpstreamConnection, shutdown, list
  <2>3. ReturnedOnce' /\ LeakedOnlyByScan' /\ Roles'
    BY <2>1, <2>2 DEF IInv, ReturnedOnce, LeakedOnlyByScan, LooksOpen, Roles
  <2>4. TypeOK' /\ Scanned' /\ ScanInside'
    BY <2>1, <2>2, SameList DEF IInv, TypeOK, Scanned, ScanInside
  <2> QED BY <2>2, <2>3, <2>4, SameList DEF IInv
<1>5. CASE HttpClearRequest
  <2>1. PICK c \in linked \ backends :
          /\ idle' = idle \cup {c}
          /\ \/ UNCHANGED <<list, connected, linked, waiting, backends>>
             \/ \E u \in backends : LooksOpen(u) /\ Close(u)
    BY <1>5 DEF HttpClearRequest
  <2>2. phase = "run" /\ UNCHANGED <<exiting, phase, scan>>
    BY <1>5 DEF HttpClearRequest, shutdown
  <2>3. c \in Nat /\ c \in connected
    BY DEF IInv, TypeOK, ReturnedOnce, Roles
  <2>4. CASE UNCHANGED <<list, connected, linked, waiting, backends>>
    <3>1. UNCHANGED list /\ UNCHANGED <<chunks, busy, connected, linked, waiting, backends>>
      BY <2>4 DEF list
    <3>2. ReturnedOnce' /\ LeakedOnlyByScan' /\ Roles'
      BY <3>1, <2>1, <2>2, <2>3
         DEF IInv, ReturnedOnce, LeakedOnlyByScan, LooksOpen, Roles
    <3>3. TypeOK' /\ Scanned' /\ ScanInside'
      BY <3>1, <2>1, <2>2, <2>3, SameList DEF IInv, TypeOK, Scanned, ScanInside
    <3> QED BY <3>1, <3>2, <3>3, SameList DEF IInv
  <2>5. CASE \E u \in backends : LooksOpen(u) /\ Close(u)
    <3>1. PICK u \in backends : LooksOpen(u) /\ Close(u)
      BY <2>5
    <3>2. /\ connected' = connected \ {u} /\ linked' = linked \ {u}
          /\ waiting' = waiting \ {u} /\ backends' = backends \ {u}
      BY <3>1 DEF Close
    <3>3. Roles'
      <4>1. /\ backends' \subseteq busy' \ {Listen}
            /\ busy' \ ({Listen} \cup backends') \subseteq connected'
            /\ waiting' \subseteq connected' \ (linked' \cup backends')
        BY <3>1, <2>2, CloseFacts
      <4>2. idle' \subseteq connected' \ backends'
        BY <3>1, <3>2, <2>1, <2>3 DEF IInv, Roles
      <4> QED BY <4>1, <4>2 DEF Roles
    <3>4. TypeOK' /\ Scanned' /\ ScanInside'
      <4>1. /\ free' \in Seq(Nat) /\ used' \in Nat /\ chunks' = chunks
            /\ chunks' \in Nat \ {0} /\ capacity' \in Nat /\ busy' \subseteq Nat
        BY <3>1, <2>2, CloseFacts
      <4> QED BY <4>1, <3>2, <2>1, <2>2, <2>3 DEF IInv, TypeOK, Scanned, ScanInside
    <3> QED BY <3>1, <3>3, <3>4, <2>2, CloseFacts DEF IInv
  <2> QED BY <2>1, <2>4, <2>5
<1>6. CASE HttpCloseConnection
  <2>1. PICK c \in Slots : LooksOpen(c) /\ Close(c) /\ idle' = idle \ {c}
    BY <1>6 DEF HttpCloseConnection
  <2>2. phase = "run" /\ UNCHANGED <<exiting, phase, scan>>
    BY <1>6 DEF HttpCloseConnection, shutdown
  <2>3. /\ connected' = connected \ {c} /\ linked' = linked \ {c}
        /\ waiting' = waiting \ {c} /\ backends' = backends \ {c}
    BY <2>1 DEF Close
  <2>4. Roles'
    BY <2>1, <2>2, <2>3, CloseFacts DEF IInv, Roles
  <2>5. TypeOK' /\ Scanned' /\ ScanInside'
    BY <2>1, <2>2, <2>3, CloseFacts DEF IInv, TypeOK, Scanned, ScanInside
  <2> QED BY <2>1, <2>2, <2>4, <2>5, CloseFacts DEF IInv
<1>7. CASE BeginScan
  <2>1. /\ phase = "run" /\ phase' = "scan" /\ exiting' = TRUE /\ UNCHANGED list
        /\ UNCHANGED <<chunks, busy, connected, linked, idle, waiting, backends, scan>>
    BY <1>7 DEF BeginScan, list
  <2>2. ReturnedOnce' /\ LeakedOnlyByScan' /\ Roles'
    BY <2>1 DEF IInv, ReturnedOnce, LeakedOnlyByScan, LooksOpen, Roles
  <2>3. TypeOK' /\ Scanned' /\ ScanInside'
    BY <2>1, SameList DEF IInv, TypeOK, Scanned, ScanInside
  <2> QED BY <2>1, <2>2, <2>3, SameList DEF IInv
<1>8. CASE ScanSlot
  <2>1. /\ phase = "scan" /\ exiting /\ scan' = scan + 1
        /\ UNCHANGED <<exiting, phase>>
    BY <1>8 DEF ScanSlot, IInv, Scanned
  <2>2. CASE scan \in idle /\ LooksOpen(scan) /\ Close(scan) /\ idle' = idle \ {scan}
    <3>1. /\ connected' = connected \ {scan} /\ linked' = linked \ {scan}
          /\ waiting' = waiting \ {scan} /\ backends' = backends \ {scan}
      BY <2>2 DEF Close
    <3>2. Roles'
      BY <2>1, <2>2, <3>1, CloseFacts DEF IInv, Roles
    <3>3. TypeOK' /\ Scanned' /\ ScanInside'
      <4>1. /\ free' \in Seq(Nat) /\ used' \in Nat /\ chunks' = chunks
            /\ chunks' \in Nat \ {0} /\ capacity' \in Nat /\ busy' \subseteq Nat
        BY <2>1, <2>2, CloseFacts
      <4>2. TypeOK' /\ ScanInside'
        BY <4>1, <3>1, <2>1, <2>2 DEF IInv, TypeOK, ScanInside
      <4>3. Scanned'
        BY <3>1, <2>1, <2>2 DEF IInv, TypeOK, Scanned
      <4> QED BY <4>2, <4>3
    <3> QED BY <2>1, <2>2, <3>2, <3>3, CloseFacts DEF IInv
  <2>3. CASE /\ scan \notin idle /\ linked' = linked \ {scan}
             /\ UNCHANGED <<list, connected, idle, waiting, backends>>
    <3>1. UNCHANGED list /\ UNCHANGED <<chunks, busy, connected, idle, waiting, backends>>
      BY <2>3 DEF list
    <3>2. ReturnedOnce' /\ LeakedOnlyByScan' /\ Roles'
      BY <2>1, <2>3, <3>1
         DEF IInv, ReturnedOnce, LeakedOnlyByScan, LooksOpen, Roles
    <3>3. TypeOK' /\ Scanned' /\ ScanInside'
      BY <2>1, <2>3, <3>1, SameList DEF IInv, TypeOK, Scanned, ScanInside
    <3> QED BY <3>1, <3>2, <3>3, SameList DEF IInv
  <2> QED BY <1>8, <2>2, <2>3 DEF ScanSlot
<1>9. CASE EndScan
  <2>1. /\ phase = "scan" /\ phase' = (IF capacity = chunks THEN "run" ELSE "lost")
        /\ scan' = 0 /\ UNCHANGED list
        /\ UNCHANGED <<chunks, busy, connected, linked, idle, waiting, backends, exiting>>
    BY <1>9 DEF EndScan, list
  <2>2. ReturnedOnce' /\ LeakedOnlyByScan' /\ Roles'
    BY <2>1 DEF IInv, ReturnedOnce, LeakedOnlyByScan, LooksOpen, Roles
  <2>3. TypeOK' /\ Scanned' /\ ScanInside'
    BY <2>1, SameList DEF IInv, TypeOK, Scanned, CapacityCovers, ScanInside
  <2> QED BY <2>1, <2>2, <2>3, SameList DEF IInv
<1>10. CASE UNCHANGED vars
  <2>1. /\ UNCHANGED list
        /\ UNCHANGED <<chunks, busy, connected, linked, idle, waiting, backends, exiting,
                       phase, scan>>
    BY <1>10 DEF vars, list, shutdown
  <2>2. ReturnedOnce' /\ LeakedOnlyByScan' /\ Roles'
    BY <2>1 DEF IInv, ReturnedOnce, LeakedOnlyByScan, LooksOpen, Roles
  <2>3. TypeOK' /\ Scanned' /\ ScanInside'
    BY <2>1, SameList DEF IInv, TypeOK, Scanned, ScanInside
  <2> QED BY <2>1, <2>2, <2>3, SameList DEF IInv
<1> QED BY <1>1, <1>2, <1>3, <1>4, <1>5, <1>6, <1>7, <1>8, <1>9, <1>10
        DEF Next, Lost

(* The pool's invariant holds for every chunk size and every limit.        *)
THEOREM Invariance == Spec => []IInv
BY InitIInv, NextIInv, PTL DEF Spec

(* The free list, the ownership of the objects and the counter stay        *)
(* consistent, no object is returned twice, and only a backend that is not *)
(* connected when a worker shuts down is lost to the pool (poolAlloc,      *)
(* poolFree, http_close_connection, clear_idle_connections).               *)
THEOREM Soundness == Spec => []PoolSound
<1>1. IInv => PoolSound
  BY DEF IInv, PoolSound
<1> QED BY <1>1, Invariance, PTL

(* Types of the pool's fields.                                             *)
THEOREM TypeCorrect == Spec => []TypeOK
<1>1. IInv => TypeOK
  BY DEF IInv
<1> QED BY <1>1, Invariance, PTL

(* The pool implements the allocator: getIdleConnection hands out an       *)
(* object nobody holds and respects the limit, http_close_connection       *)
(* returns a held object once, and never the listening one.                *)
THEOREM Refinement == Spec => AllocatorSpec
<1>1. Init => Allocator!Init
  BY DEF Init, Allocator!Init
<1>2. IInv /\ [Next]_vars => [Allocator!Next]_busy
  <2> SUFFICES ASSUME IInv, [Next]_vars PROVE [Allocator!Next]_busy
    OBVIOUS
  <2> DEFINE h == Head(FreeList)
  <2>1. ASSUME GetIdleConnection PROVE Allocator!Acquire
    <3>1. h \notin busy /\ busy' = busy \cup {h}
      BY <2>1, AllocFacts
    <3>2. Cardinality(busy) < MaxConnections
      BY <2>1 DEF GetIdleConnection, IInv, UsedCounts
    <3> QED BY <3>1, <3>2 DEF Allocator!Acquire, Allocator!Cardinality, Cardinality
  <2>2. CASE EventAccept \/ OpenUpstreamConnection
    BY <2>1, <2>2 DEF EventAccept, OpenUpstreamConnection, Allocator!Next
  <2>3. ASSUME NEW c, LooksOpen(c), Close(c) PROVE Allocator!Release
    BY <2>3 DEF IInv, ReturnedOnce, LooksOpen, Close, PoolFree, Allocator!Release
  <2>4. CASE HttpInitRequest \/ InitUpstreamConnection \/ BeginScan \/ EndScan
    BY <2>4 DEF HttpInitRequest, InitUpstreamConnection, BeginScan, EndScan, list
  <2>5. CASE HttpClearRequest
    BY <2>5, <2>3 DEF HttpClearRequest, list, Allocator!Next
  <2>6. CASE HttpCloseConnection
    BY <2>6, <2>3 DEF HttpCloseConnection, Allocator!Next
  <2>7. CASE ScanSlot
    BY <2>7, <2>3 DEF ScanSlot, list, Allocator!Next
  <2>8. CASE UNCHANGED vars
    BY <2>8 DEF vars, list
  <2> QED BY <2>2, <2>4, <2>5, <2>6, <2>7, <2>8 DEF Next, Lost
<1> QED BY <1>1, <1>2, Invariance, PTL DEF Spec, AllocatorSpec, Allocator!Spec
=============================================================================
