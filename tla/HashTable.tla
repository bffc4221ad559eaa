----------------------------- MODULE HashTable -----------------------------
(***************************************************************************)
(* The static hash table of base/hash.c, built in a memory pool: hashInit  *)
(* and hash_find, as header_map_init (http/header.c) and                   *)
(* create_location_map (config.c) use them.  Sizes are in bytes, and so    *)
(* are the addresses inside the block of elements; a pointer has 8 bytes.  *)
(*                                                                         *)
(* hashInit calls the pool, waits for its answer and goes on.  Before it,  *)
(* other users of the pool take and give back blocks, so that each of its  *)
(* three requests can be refused; the two callers use a new pool, and the  *)
(* hash structure itself always fits.  They pass that structure, so the    *)
(* branch for hinit->hash == NULL is never taken.                          *)
(***************************************************************************)
EXTENDS MemoryPool, Sequences, FiniteSetsExt

CONSTANTS
  Names,       \* the names looked up: text, lower case, length, key_hash
  Tables,      \* the sequences of names a table is built from
  max_size, bucket_size,
  Bytes,       \* bound: what the other users of the pool ask for
  MaxBlocks    \* bound: how many blocks they hold

ASSUME NamesAssumption ==
  Names \subseteq [text : STRING, low : STRING, len : Nat, hash : Nat]
(* The callers' names: length and code follow from the text, and a table   *)
(* has different names in lower case (header.c:17, config.c:25).           *)
ASSUME FunctionAssumption == \A m, n \in Names : m.text = n.text => m = n
ASSUME TablesAssumption ==
  \A t \in Tables :
    /\ t \in Seq(Names)
    /\ \A i, j \in DOMAIN t : t[i].low = t[i].text /\ (t[i] = t[j] => i = j)
(* Below 28 the division in hash.c:64 is by zero; up to 32768 the sums of  *)
(* two elements that fit a bucket do not wrap in a u_short (hash.c:81-86). *)
ASSUME BucketAssumption == bucket_size \in 28 .. 32768
ASSUME MaxSizeAssumption == max_size \in Nat \ {0}
ASSUME UsersAssumption == Bytes \subseteq Nat /\ MaxBlocks \in Nat

VARIABLES bpc,    \* where hashInit is
          names,  \* its argument
          test,   \* its temporary array, a block of the pool
          size,   \* the number of buckets
          elts,   \* the block of the elements
          bucket, \* the buckets in use and where they begin
          slots   \* what is stored, by address: hash_slots and end marks

build == <<bpc, names, test, size, elts, bucket, slots>>
vars == <<pool, build>>

PtrSize == 8
CachelineSize == 32
Align(d, a) == ((d + a - 1) \div a) * a

(* Mutant: the two bytes of the length are forgotten.                      *)
EltSize_NoLen(n) == PtrSize + Align(n.len, PtrSize)

(* HASH_ELT_SIZE: the value, the length in two bytes, the name.            *)
EltSize(n) == PtrSize + Align(n.len + 2, PtrSize)

-----------------------------------------------------------------------------
(* The layout of table t in s buckets.                                     *)
InBucket(t, s, b) == {j \in DOMAIN t : t[j].hash % s = b}
SumOf(t, J) == MapThenSumSet(LAMBDA j : EltSize(t[j]), J)

(* Where the search for the number of buckets begins.                      *)
StartSize(t) ==
  LET s == Len(t) \div ((bucket_size - PtrSize) \div (2 * PtrSize + 4))
  IN  IF s = 0 THEN 1 ELSE s
(* The sizes for which no bucket overflows.                                *)
Sizes(t) ==
  {s \in StartSize(t) .. max_size :
     \A b \in 0 .. s - 1 : SumOf(t, InBucket(t, s, b)) <= bucket_size - PtrSize}

(* Mutant: no room for the mark at the end of a bucket.                    *)
BucketLen_NoMark(t, s, b) ==
  IF InBucket(t, s, b) = {} THEN 0
  ELSE Align(SumOf(t, InBucket(t, s, b)), CachelineSize)

(* test[b] after the alignment, without the buckets that stay empty.       *)
BucketLen(t, s, b) ==
  IF InBucket(t, s, b) = {} THEN 0
  ELSE Align(PtrSize + SumOf(t, InBucket(t, s, b)), CachelineSize)
TableLen(t, s) == MapThenSumSet(LAMBDA b : BucketLen(t, s, b), 0 .. s - 1)

(* Where bucket b begins, if the block of the elements is e and pool->data *)
(* lies at address `data'.                                                 *)
BucketAt(t, s, b, e, data) ==
  Align(data + (e + 1) * HEADERSIZE, CachelineSize)
    + MapThenSumSet(LAMBDA k : BucketLen(t, s, k), 0 .. b - 1)

(* Where name j goes: behind those of its bucket that come before it.      *)
SlotAt(t, s, j, at) ==
  at[t[j].hash % s]
    + SumOf(t, {k \in InBucket(t, s, t[j].hash % s) : k < j})

(* The filled buckets: strlow stores a name in lower case.                 *)
Filled(t, s, at) ==
  LET ends == {at[b] + SumOf(t, InBucket(t, s, b)) : b \in DOMAIN at}
      places == {SlotAt(t, s, j, at) : j \in DOMAIN t}
  IN  [a \in places \cup ends |->
         IF a \in ends THEN [value |-> Null, len |-> 0, name |-> ""]
         ELSE LET j == CHOOSE k \in DOMAIN t : SlotAt(t, s, k, at) = a
              IN  [value |-> j, len |-> t[j].len, name |-> t[j].low]]

-----------------------------------------------------------------------------
Init ==
  /\ PoolInit
  /\ bpc = "off" /\ names = <<>> /\ test = Null /\ size = 0 /\ elts = Null
  /\ bucket = <<>> /\ slots = <<>>

(* Others use the pool; the last of the three gives back what is no block. *)
Users ==
  /\ bpc = "off"
  /\ \/ Cardinality(owned) < MaxBlocks /\ \E n \in Bytes : PMalloc(n)
     \/ \E a \in owned : PFree(a)
     \/ PFree(MEMSIZE)
  /\ UNCHANGED build

(* The caller takes the hash structure from the pool.                      *)
StartBuild ==
  /\ bpc = "off" /\ bpc' = "hash"
  /\ memptr = Null \/ \E a \in DOMAIN hdr : hdr[a].freesize >= NUnits(2 * PtrSize)
  /\ PMalloc(2 * PtrSize)
  /\ names' \in Tables
  /\ UNCHANGED <<test, size, elts, bucket, slots>>

(* Every name must fit in a bucket; then test is asked for.                *)
AskTest ==
  /\ bpc = "hash" /\ pc = "idle"
  /\ IF \E j \in DOMAIN names : bucket_size < EltSize(names[j]) + PtrSize
     THEN bpc' = "abort" /\ UNCHANGED pool
     ELSE bpc' = "test" /\ PMalloc(2 * max_size)
  /\ UNCHANGED <<names, test, size, elts, bucket, slots>>

(* The number of buckets is found; then the buckets are asked for.         *)
AskBuckets ==
  /\ bpc = "test" /\ pc = "idle" /\ answer.at # Null
  /\ test' = answer.at
  /\ IF Sizes(names) = {} THEN bpc' = "abort" /\ UNCHANGED <<pool, size>>
     ELSE /\ size' = Min(Sizes(names))
          /\ bpc' = "buckets" /\ PMalloc(size' * PtrSize)
  /\ UNCHANGED <<names, elts, bucket, slots>>

NoTest ==
  /\ bpc = "test" /\ pc = "idle" /\ answer.at = Null
  /\ bpc' = "error"
  /\ UNCHANGED <<pool, names, test, size, elts, bucket, slots>>

AskElts ==
  /\ bpc = "buckets" /\ pc = "idle" /\ answer.at # Null
  /\ bpc' = "elts" /\ PMalloc(TableLen(names, size) + CachelineSize)
  /\ UNCHANGED <<names, test, size, elts, bucket, slots>>

(* The pool refuses the buckets or the elements: test goes back.           *)
GiveUp ==
  /\ bpc \in {"buckets", "elts"} /\ pc = "idle" /\ answer.at = Null
  /\ bpc' = "failing" /\ PFree(test)
  /\ UNCHANGED <<names, test, size, elts, bucket, slots>>

(* The buckets are laid out and filled; test goes back.  malloc aligns     *)
(* pool->data to 16 bytes only.  The pointer of an empty bucket is never   *)
(* set but tested against NULL (hash.c:200): if the memory was not zero,   *)
(* the end mark is written to a wild address.                              *)
Fill ==
  /\ bpc = "elts" /\ pc = "idle" /\ answer.at # Null
  /\ elts' = answer.at
  /\ \E data \in {0, HEADERSIZE} :
       /\ bucket' = [b \in {c \in 0 .. size - 1 : InBucket(names, size, c) # {}}
                       |-> BucketAt(names, size, b, elts', data) - data]
       /\ slots' = Filled(names, size, bucket')
  /\ PFree(test)
  /\ \/ bpc' = "filled"
     \/ DOMAIN bucket' # 0 .. size - 1 /\ bpc' = "wild"
  /\ UNCHANGED <<names, test, size>>

(* pFree has returned.                                                     *)
Finish ==
  /\ bpc \in {"failing", "filled"} /\ pc = "idle"
  /\ bpc' = IF bpc = "filled" THEN "done" ELSE "error"
  /\ UNCHANGED <<pool, names, test, size, elts, bucket, slots>>

Step == PoolStep /\ UNCHANGED build

(* hashInit has returned, assert has ended the process, or nothing can be  *)
(* said any more.                                                          *)
Ended == /\ bpc \in {"done", "error", "abort", "wild"} /\ pc = "idle"
         /\ UNCHANGED vars

Next == Step \/ Users \/ StartBuild \/ AskTest \/ AskBuckets \/ NoTest
        \/ AskElts \/ GiveUp \/ Fill \/ Finish \/ Ended

Spec == Init /\ [][Next]_vars /\ WF_vars(Step)

-----------------------------------------------------------------------------
(* hash_find: the walk through the bucket of n, from slot to slot by the   *)
(* length of the name, to the mark at its end; 0 if it reads what was not  *)
(* written, or does not end.                                               *)
HashFind(n) ==
  LET walk[k \in 0 .. Len(names) + 1] ==
        [a \in Nat |->
           LET e == slots[a]
           IN  IF k = 0 \/ a \notin DOMAIN slots THEN 0
               ELSE IF e.value = Null THEN Null
               ELSE IF e.len = n.len /\ e.name = n.text THEN e.value
               ELSE walk[k - 1][Align(a + PtrSize + 2 + e.len, PtrSize)]]
  IN  walk[Len(names) + 1][bucket[n.hash % size]]

(* Types of the builder's variables.                                       *)
TypeOK ==
  /\ PoolTypeOK
  /\ bpc \in {"off", "hash", "test", "buckets", "elts", "failing", "filled",
              "done", "error", "abort", "wild"}
  /\ size \in 0 .. max_size /\ names \in Tables \cup {<<>>}
  /\ test \in Addresses \cup {Null} /\ elts \in Addresses \cup {Null}

(* A name is found in a table exactly if it was put in, with its value: no *)
(* walk stops early, runs past the mark of its bucket or reads between two *)
(* slots, and equal lengths or hash codes do not confuse names (hash_find, *)
(* hashInit).  A name whose bucket is empty is left out: hashInit gives    *)
(* such a bucket no pointer, and hash_find does not test for one.          *)
FindExact ==
  bpc = "done" => \A n \in Names : n.hash % size \in DOMAIN bucket =>
    LET put == {j \in DOMAIN names : names[j].text = n.text}
    IN  HashFind(n) = IF put = {} THEN Null ELSE CHOOSE j \in put : TRUE

(* The bytes of the slot, or of the end mark, at a.                        *)
Written(a) ==
  a .. a + (IF slots[a].value = Null THEN PtrSize
            ELSE PtrSize + 2 + slots[a].len) - 1

(* hashInit writes only inside the block of the elements, although the     *)
(* block is aligned after it was allocated, and no slot or end mark        *)
(* overlaps another (hash.c:156-206).                                      *)
SlotsInside ==
  bpc = "done" =>
    /\ \A a \in DOMAIN slots :
         Written(a) \subseteq (elts + 1) * HEADERSIZE
                              .. (elts + hdr[elts].usedsize) * HEADERSIZE - 1
    /\ \A a, b \in DOMAIN slots : a # b => Written(a) \cap Written(b) = {}
    /\ Cardinality(DOMAIN slots) = Len(names) + Cardinality(DOMAIN bucket)

(* When hashInit returns, the temporary array is back in the pool, on the  *)
(* error paths too (hash.c:140-158, 209).                                  *)
TestGivenBack == bpc \in {"done", "error"} => test \notin owned

(* Table and pool stay sound together: the blocks of the pool tile its     *)
(* memory at every step, the finished table lies inside its block without  *)
(* overlaps, and the temporary array is returned (hashInit, pMalloc,       *)
(* pFree).                                                                 *)
TableSound == TypeOK /\ Tiled /\ SlotsInside /\ TestGivenBack
=============================================================================
