--------------------------- MODULE ConnectionPool ---------------------------
(***************************************************************************)
(* The connection pool of a worker: base/pool.c, base/chunk.c and the part *)
(* of base/vector.c it uses, under the operations of http/connection.c and *)
(* its scan of the idle connections, slot by slot.                         *)
(*                                                                         *)
(* A connection object is a slot, numbered by its place: slot i of chunk k *)
(* is k * UnitNum + i.  The list threaded through the `next' words of the  *)
(* free slots is the sequence `free', its head first.  Of a connection_t   *)
(* these are kept, as sets of slots: is_connected, data # NULL, is_idle,   *)
(* and whether the read callback is http_init_request.  `busy' and         *)
(* `backends' are not in the code: what some caller holds, and which of    *)
(* them open_upstream_connection took.                                     *)
(***************************************************************************)
EXTENDS Integers, Sequences, FiniteSets

CONSTANTS UnitNum,        \* slots per chunk (8 in connectionPoolInit)
          MaxConnections  \* server_cfg.max_connections

ASSUME UnitAssumption == UnitNum \in Nat \ {0}
ASSUME MaxAssumption == MaxConnections \in Nat \ {0}

VARIABLES free,      \* pool.free: the free list
          used,      \* pool.used
          chunks,    \* pool.chunks.used: chunks that chunkInit has set up
          capacity,  \* pool.chunks.capacity: chunks the vector has room for
          connected, \* slots with is_connected = true
          linked,    \* slots with data # NULL
          idle,      \* slots with is_idle = true
          waiting,   \* slots whose read callback is http_init_request
          busy,      \* slots held by a caller (auxiliary)
          backends,  \* slots held for a connection to a backend (auxiliary)
          exiting,   \* p_exiting
          phase,     \* "run", "scan" in clear_idle_connections, or "lost"
          scan       \* the slot the scan is at

list == <<free, used, chunks, capacity, busy>>
shutdown == <<exiting, phase, scan>>
vars == <<list, connected, linked, idle, waiting, backends, shutdown>>

Listen == 0          \* event_process_init takes the first slot of chunk 0

Slots == 0 .. chunks * UnitNum - 1

Members(s) == {s[i] : i \in 1 .. Len(s)}

-----------------------------------------------------------------------------
(* chunkInit: the slots of chunk number k, linked in address order.        *)
ChunkInit(k) == [i \in 1 .. UnitNum |-> k * UnitNum + i - 1]

(* vectorPush: the capacity of a vector of capacity cap once it holds n    *)
(* elements (vectorResize grows it by half, truncated, or to n).           *)
ResizeTo(cap, n) ==
  CASE cap >= n -> cap
    [] cap < n /\ (cap * 3) \div 2 >= n -> (cap * 3) \div 2
    [] OTHER -> n

(* The free list poolAlloc takes from: a new chunk if the list is empty.   *)
FreeList == IF free = <<>> THEN ChunkInit(chunks) ELSE free

PoolAlloc ==
  /\ used' = used + 1
  /\ free' = Tail(FreeList)
  /\ chunks' = IF free = <<>> THEN chunks + 1 ELSE chunks
  /\ capacity' = IF free = <<>> THEN ResizeTo(capacity, chunks + 1)
                                ELSE capacity
  /\ busy' = busy \cup {Head(FreeList)}

PoolFree(c) ==
  /\ used' = used - 1
  /\ free' = <<c>> \o free
  /\ busy' = busy \ {c}
  /\ UNCHANGED <<chunks, capacity>>

(* connectionPoolInit, then event_process_init takes the object of the     *)
(* listening socket and never marks it connected.                          *)
Init ==
  /\ free = Tail(ChunkInit(0))
  /\ used = 1
  /\ chunks = 1
  /\ capacity = ResizeTo(0, 1)
  /\ connected = {}
  /\ linked = {}
  /\ idle = {} /\ waiting = {}
  /\ busy = {Listen} /\ backends = {}
  /\ exiting = FALSE /\ phase = "run" /\ scan = 0

(* Mutant: the limit is off by one.                                        *)
GetIdleConnection_OffByOne == used <= MaxConnections /\ PoolAlloc

(* getIdleConnection; the object is zeroed.  At the limit it returns NULL  *)
(* and changes nothing.                                                    *)
GetIdleConnection == used < MaxConnections /\ PoolAlloc

(* Mutant: the accepted connection is not marked connected.                *)
EventAccept_NotConnected ==
  /\ phase = "run"
  /\ GetIdleConnection
  /\ waiting' = waiting \cup {Head(FreeList)}
  /\ UNCHANGED <<connected, linked, idle, backends, shutdown>>

(* event_accept: the accepted connection is marked connected and waits for *)
(* its first bytes.                                                        *)
EventAccept ==
  /\ phase = "run"
  /\ GetIdleConnection
  /\ connected' = connected \cup {Head(FreeList)}
  /\ waiting' = waiting \cup {Head(FreeList)}
  /\ UNCHANGED <<linked, idle, backends, shutdown>>

(* open_upstream_connection for some request: the new object is tied to    *)
(* it, and not connected yet.                                              *)
OpenUpstreamConnection ==
  /\ phase = "run" /\ linked # {}
  /\ GetIdleConnection
  /\ linked' = linked \cup {Head(FreeList)}
  /\ backends' = backends \cup {Head(FreeList)}
  /\ UNCHANGED <<connected, idle, waiting, shutdown>>

(* http_init_request: the first bytes of a client create its request.      *)
HttpInitRequest ==
  /\ phase = "run"
  /\ \E c \in waiting : /\ linked' = linked \cup {c}
                         /\ waiting' = waiting \ {c}
  /\ UNCHANGED <<list, connected, idle, backends, shutdown>>

(* init_upstream_connection: the connect to the backend has succeeded.     *)
InitUpstreamConnection ==
  /\ phase = "run"
  /\ \E c \in (backends \cap linked) \ connected :
       connected' = connected \cup {c}
  /\ UNCHANGED <<list, linked, idle, waiting, backends, shutdown>>

(* The test of http_close_connection: data == NULL and not connected means *)
(* closed already.                                                         *)
LooksOpen(c) == c \in linked \/ c \in connected

(* The rest of http_close_connection, for an object that looks open.       *)
Close(c) ==
  /\ PoolFree(c)
  /\ connected' = connected \ {c}
  /\ linked' = linked \ {c}
  /\ waiting' = waiting \ {c}
  /\ backends' = backends \ {c}

(* http_clear_request: a client is kept for another request; its backend,  *)
(* if it has one, is closed.  is_idle stays set while the next request     *)
(* runs, until the object is closed.                                       *)
HttpClearRequest ==
  /\ phase = "run"
  /\ \E c \in linked \ backends :
       /\ idle' = idle \cup {c}
       /\ \/ UNCHANGED <<list, connected, linked, waiting, backends>>
          \/ \E u \in backends : LooksOpen(u) /\ Close(u)
  /\ UNCHANGED shutdown

(* Mutant: http_close_connection that leaves data as it was.               *)
HttpCloseConnection_KeepsData ==
  /\ phase = "run"
  /\ \E c \in Slots : /\ LooksOpen(c)
                      /\ PoolFree(c)
                      /\ connected' = connected \ {c}
                      /\ waiting' = waiting \ {c}
                      /\ backends' = backends \ {c}
                      /\ idle' = idle \ {c}
  /\ UNCHANGED <<linked, shutdown>>

(* http_close_connection on any object, also one that is already closed.   *)
HttpCloseConnection ==
  /\ phase = "run"
  /\ \E c \in Slots : LooksOpen(c) /\ Close(c) /\ idle' = idle \ {c}
  /\ UNCHANGED shutdown

-----------------------------------------------------------------------------
(* clear_idle_connections, called on SIGQUIT and in every turn after it.   *)
BeginScan ==
  /\ phase = "run" /\ phase' = "scan"
  /\ exiting' = TRUE
  /\ UNCHANGED <<list, connected, linked, idle, waiting, backends, scan>>

(* One slot: an idle connection is closed, and `data' is cleared in every  *)
(* slot, also in one that is held.                                         *)
ScanSlot ==
  /\ phase = "scan" /\ scan \in Slots
  /\ scan' = scan + 1
  /\ \/ /\ scan \in idle /\ LooksOpen(scan) /\ Close(scan)
        /\ idle' = idle \ {scan}
     \/ /\ scan \notin idle
        /\ linked' = linked \ {scan}
        /\ UNCHANGED <<list, connected, idle, waiting, backends>>
  /\ UNCHANGED <<exiting, phase>>

(* The loop runs to the capacity of the vector, not to the chunks in use:  *)
(* a vector with room to spare gives it a chunk that was never set up, and *)
(* what happens from there on is undefined.                                *)
EndScan ==
  /\ phase = "scan" /\ scan \notin Slots
  /\ phase' = IF capacity = chunks THEN "run" ELSE "lost"
  /\ scan' = 0
  /\ UNCHANGED <<list, connected, linked, idle, waiting, backends, exiting>>

Lost == phase = "lost" /\ UNCHANGED vars

Next == \/ EventAccept
        \/ OpenUpstreamConnection
        \/ HttpInitRequest
        \/ InitUpstreamConnection
        \/ HttpClearRequest
        \/ HttpCloseConnection
        \/ BeginScan
        \/ ScanSlot
        \/ EndScan
        \/ Lost

Spec == Init /\ [][Next]_vars

-----------------------------------------------------------------------------
(* Types of the pool's fields.                                             *)
TypeOK ==
  /\ free \in Seq(Nat)
  /\ used \in Nat
  /\ chunks \in Nat \ {0}
  /\ capacity \in Nat
  /\ connected \subseteq Nat
  /\ linked \subseteq Nat
  /\ busy \subseteq Nat
  /\ idle \subseteq Nat
  /\ waiting \subseteq Nat
  /\ backends \subseteq Nat
  /\ exiting \in BOOLEAN
  /\ phase \in {"run", "scan", "lost"}
  /\ scan \in Nat

(* No slot is on the free list twice: the `next' words form no cycle, so   *)
(* two calls of getIdleConnection never return the same object (poolAlloc, *)
(* poolFree).                                                              *)
NoDuplicates == \A i, j \in 1 .. Len(free) : free[i] = free[j] => i = j

(* Every slot of every chunk is either on the free list or held, never     *)
(* both, never neither: nothing is handed out while it is held.            *)
Partition ==
  /\ Members(free) \cap busy = {}
  /\ Members(free) \cup busy = Slots

(* The counter that getIdleConnection compares with max_connections is     *)
(* the number of objects that are out, and stays within the limit.         *)
UsedCounts == /\ IsFiniteSet(busy)
              /\ used = Cardinality(busy)
              /\ used <= MaxConnections

(* An object that http_close_connection takes for an open one is held, and *)
(* is not the listening object: nothing is returned to the pool twice, in  *)
(* whatever order an object's own event, its request, its backend and the  *)
(* idle scan close it (connection.c:131-138, 307-311).                     *)
ReturnedOnce == Listen \in busy /\ connected \cup linked \subseteq busy \ {Listen}

(* A held object that http_close_connection takes for a closed one can     *)
(* never be returned.  Only the idle scan makes such objects, by clearing  *)
(* `data' in the slot of a backend that is not connected yet               *)
(* (connection.c:311): it happens in a worker that shuts down, and never   *)
(* to a client.  The listening object is not returned at all.              *)
LeakedOnlyByScan ==
  \A c \in busy \ {Listen} : ~LooksOpen(c) => exiting /\ c \in backends

(* What the objects are: backends and clients are held, a client is marked *)
(* connected from the start, one that waits for its first bytes has no     *)
(* request, and "an upstream connection never has is_idle set"             *)
(* (connection.c:302-304).                                                 *)
Roles ==
  /\ backends \subseteq busy \ {Listen}
  /\ busy \ ({Listen} \cup backends) \subseteq connected
  /\ waiting \subseteq connected \ (linked \cup backends)
  /\ idle \subseteq connected \ backends

(* Where the idle scan has been, no idle connection and no request is left *)
(* (the comment at connection.c:286-294 needs the first).                  *)
Scanned == /\ phase # "run" => exiting
           /\ phase # "scan" => scan = 0
           /\ \A c \in linked \cup idle : phase = "scan" => scan <= c

(* The vector has room for every chunk in use, and room to spare only when *)
(* it has grown past four chunks.                                          *)
CapacityCovers == chunks <= capacity /\ (chunks <= 4 => capacity = chunks)

(* The idle scan leaves the chunks that are set up only in a pool that has *)
(* grown past four of them, 32 connections (connection.c:298, vectorResize *)
(* growing by half).                                                       *)
ScanInside == phase = "lost" => chunks > 4

(* The free list is sound, and objects are returned once and lost only by  *)
(* the idle scan.                                                          *)
PoolSound == /\ NoDuplicates /\ Partition /\ UsedCounts
             /\ ReturnedOnce /\ LeakedOnlyByScan

(* All of it together, which is inductive, through double closes, growth,  *)
(* the limit and idle scans (getIdleConnection, http_close_connection,     *)
(* clear_idle_connections, vectorResize).                                  *)
IInv == /\ TypeOK /\ NoDuplicates /\ Partition /\ UsedCounts
        /\ ReturnedOnce /\ LeakedOnlyByScan /\ Roles /\ Scanned
        /\ CapacityCovers /\ ScanInside

(* The pool implements the allocator the rest of the worker relies on.     *)
Allocator == INSTANCE ConnectionAllocator
AllocatorSpec == Allocator!Spec
=============================================================================
