----------------------------- MODULE MemoryPool -----------------------------
(***************************************************************************)
(* The memory pool of base/memory_pool.c: a ring of headers in one piece   *)
(* of memory, counted in units of one header.  A block is its header, the  *)
(* units in use behind it (usedsize counts the header) and the free ones   *)
(* behind those.  An address is a number of units from pool->data; the     *)
(* bytes of a block begin one unit behind its header.                      *)
(*                                                                         *)
(* The two loops of the code are loops here, a turn is a step: nothing     *)
(* runs at the same time, but that a loop ends is then a property to check.*)
(* What is left in memory of a header that was merged away is never read,  *)
(* and the function `hdr' has only the headers of the ring.                *)
(***************************************************************************)
EXTENDS Naturals, FiniteSets

CONSTANTS MEMSIZE, \* units in the pool
          Null     \* NULL

ASSUME SizeAssumption == MEMSIZE \in Nat \ {0, 1}
ASSUME NullAssumption == Null \notin Nat

HEADERSIZE == 16
Base == 0 \* the header at pool->data, which is never handed out

VARIABLES hdr,    \* the headers of the ring
          memptr, \* pool->memptr
          pc,     \* "idle", or in the loop of "pMalloc" or of "pFree"
          arg,    \* nunits of a pMalloc, bp of a pFree
          p, prev,
          owned,  \* the blocks that are handed out
          answer  \* the last request for memory and what it returned

ring == <<hdr, memptr>>
pool == <<hdr, memptr, pc, arg, p, prev, owned, answer>>

Addresses == 0 .. MEMSIZE - 1

(* The nunits of pMalloc, for sizes whose sum does not wrap in 32 bits.    *)
NUnits(nbytes) == (nbytes + HEADERSIZE - 1) \div HEADERSIZE + 1

(* pMemoryPoolInit.                                                        *)
PoolInit ==
  /\ hdr = [a \in {} |-> Null] /\ memptr = Null
  /\ pc = "idle" /\ arg = Null /\ p = Null /\ prev = Null
  /\ owned = {}
  /\ answer = [units |-> 0, at |-> Null]

-----------------------------------------------------------------------------
(* The local memptr of pMalloc; the first call makes the ring.             *)
Start == IF memptr = Null THEN Base ELSE memptr

PMalloc(nbytes) == \* an unsigned number
  /\ pc = "idle" /\ nbytes \in Nat /\ pc' = "pMalloc"
  /\ arg' = NUnits(nbytes)
  /\ p' = Start
  /\ hdr' = IF memptr # Null THEN hdr
            ELSE [a \in {Base} |-> [next |-> Base, usedsize |-> 1,
                                    freesize |-> MEMSIZE - 1]]
  /\ UNCHANGED <<memptr, prev, owned, answer>>

(* Mutant: the search does not stop where it began.                        *)
MallocNext_NoEnd ==
  /\ pc = "pMalloc" /\ hdr[p].freesize < arg
  /\ p' = hdr[p].next
  /\ UNCHANGED <<ring, pc, arg, prev, owned, answer>>

(* A turn of the loop of pMalloc.                                          *)
MallocNext ==
  /\ pc = "pMalloc" /\ hdr[p].next # Start /\ hdr[p].freesize < arg
  /\ p' = hdr[p].next
  /\ UNCHANGED <<ring, pc, arg, prev, owned, answer>>

MallocNull ==
  /\ pc = "pMalloc" /\ hdr[p].next = Start /\ hdr[p].freesize < arg
  /\ pc' = "idle"
  /\ answer' = [units |-> arg, at |-> Null]
  /\ UNCHANGED <<ring, arg, p, prev, owned>>

(* The block found is split: the new block takes over its free units.      *)
MallocSplit ==
  LET newp == p + hdr[p].usedsize
  IN  /\ pc = "pMalloc" /\ hdr[p].freesize >= arg
      /\ pc' = "idle"
      /\ hdr' = [a \in DOMAIN hdr \cup {newp} |->
                   IF a = newp THEN [next |-> hdr[p].next, usedsize |-> arg,
                                     freesize |-> hdr[p].freesize - arg]
                   ELSE IF a = p THEN [hdr[p] EXCEPT !.next = newp, !.freesize = 0]
                   ELSE hdr[a]]
      /\ memptr' = newp
      /\ owned' = owned \cup {newp}
      /\ answer' = [units |-> arg, at |-> newp]
      /\ UNCHANGED <<arg, p, prev>>

-----------------------------------------------------------------------------
(* pFree of the bytes of block bp.                                         *)
PFree(bp) ==
  /\ pc = "idle" /\ pc' = "pFree" /\ memptr # Null
  /\ arg' = bp /\ prev' = memptr /\ p' = hdr[memptr].next
  /\ UNCHANGED <<ring, owned, answer>>

FreeNext ==
  /\ pc = "pFree" /\ p # arg /\ p # memptr
  /\ prev' = p /\ p' = hdr[p].next
  /\ UNCHANGED <<ring, pc, arg, owned, answer>>

(* bp is not a block of the ring.                                          *)
FreeUnknown ==
  /\ pc = "pFree" /\ p # arg /\ p = memptr
  /\ pc' = "idle"
  /\ UNCHANGED <<ring, arg, p, prev, owned, answer>>

(* Mutant: the free units of the block itself are forgotten.               *)
FreeMerge_LosesFree ==
  /\ pc = "pFree" /\ p = arg
  /\ pc' = "idle"
  /\ hdr' = [a \in DOMAIN hdr \ {p} |->
               IF a = prev THEN [hdr[a] EXCEPT !.freesize = @ + hdr[p].usedsize,
                                               !.next = hdr[p].next]
               ELSE hdr[a]]
  /\ memptr' = prev
  /\ owned' = owned \ {p}
  /\ UNCHANGED <<arg, p, prev, answer>>

(* The block is merged into the one before it.                             *)
FreeMerge ==
  /\ pc = "pFree" /\ p = arg
  /\ pc' = "idle"
  /\ hdr' = [a \in DOMAIN hdr \ {p} |->
               IF a = prev
               THEN [hdr[a] EXCEPT !.freesize = @ + hdr[p].usedsize + hdr[p].freesize,
                                   !.next = hdr[p].next]
               ELSE hdr[a]]
  /\ memptr' = prev
  /\ owned' = owned \ {p}
  /\ UNCHANGED <<arg, p, prev, answer>>

PoolStep == \/ MallocNext \/ MallocNull \/ MallocSplit
            \/ FreeNext \/ FreeUnknown \/ FreeMerge

-----------------------------------------------------------------------------
(* Types of the pool's fields and of the loops' locals.                    *)
PoolTypeOK ==
  /\ DOMAIN hdr \subseteq Addresses
  /\ \A a \in DOMAIN hdr :
       hdr[a] \in [next : Addresses, usedsize : 1 .. MEMSIZE,
                   freesize : 0 .. MEMSIZE]
  /\ memptr \in DOMAIN hdr \cup {Null}
  /\ pc \in {"idle", "pMalloc", "pFree"}
  /\ owned \subseteq Addresses

(* The blocks lie one behind the other without gap or overlap from the     *)
(* beginning of the pool to its end, the ring visits them in the order of  *)
(* their addresses, and its blocks are the base and those handed out       *)
(* (pMalloc, pFree).                                                       *)
Tiled ==
  hdr # [a \in {} |-> Null] =>
    /\ DOMAIN hdr = owned \cup {Base} /\ Base \notin owned
    /\ \A a \in DOMAIN hdr :
         LET end == a + hdr[a].usedsize + hdr[a].freesize
         IN  /\ end <= MEMSIZE
             /\ hdr[a].next = IF end = MEMSIZE THEN Base ELSE end
             /\ \A b \in DOMAIN hdr : a < b => end <= b

(* The pool implements Arena: what it hands out is disjoint and inside the *)
(* pool, and it returns NULL only if no gap is large enough, wherever      *)
(* memptr stands in the ring.                                              *)
Memory == INSTANCE Arena WITH
  Room <- 1 .. MEMSIZE - 1,
  spans <- {[at |-> a, size |-> hdr[a].usedsize] : a \in owned}
ImplementsArena == Memory!Spec

(* Every call returns: the loops meet the place where they began, although *)
(* memptr moves with every call (pMalloc, pFree).                          *)
CallsReturn == pc # "idle" ~> pc = "idle"
=============================================================================
