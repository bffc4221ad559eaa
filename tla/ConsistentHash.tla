--------------------------- MODULE ConsistentHash ---------------------------
(***************************************************************************)
(* The consistent hash of module/upstream_server_module.c: a ring of       *)
(* virtual nodes over the servers of a domain, with the round-robin as its *)
(* fallback.  A request asks the ring once; then it goes through the loop  *)
(* of get_server_by_round.  Which server the loop prefers is the matter of *)
(* UpstreamRound; here it may be any that is up and not marked, and the    *)
(* weights that change are left out.                                       *)
(*                                                                         *)
(* The ring is memory of the pool of the request that built it first, and  *)
(* that pool is freed with its request.  What an access to freed memory    *)
(* gives is what was there, or the worker's end.                           *)
(***************************************************************************)
EXTENDS Integers, Sequences, FiniteSetsExt

CONSTANTS
  nelts,     \* the number of servers
  Weight,    \* the configured weight of each server
  max_fails, \* 3 for the consistent hash
  Point,     \* hash_code_of_ip_integer of each server's key
  Codes,     \* the hashcodes of clients
  Requests,  \* the requests that are in progress at a time
  None       \* NULL

Servers == 0 .. nelts - 1

ASSUME NeltsAssumption == nelts \in Nat \ {0}
ASSUME WeightAssumption == Weight \in [Servers -> Nat \ {0}]
ASSUME MaxFailsAssumption == max_fails \in Nat \ {0}
ASSUME PointAssumption ==
  Point \in [Servers -> Nat] /\
  \A s, t \in Servers : Point[s] = Point[t] => s = t
ASSUME CodesAssumption == Codes \subseteq Nat
ASSUME NoneAssumption == None \notin Servers \cup Requests

VARIABLES
  fails,
  failed,     \* the servers whose state is UPSTREAM_CONN_FAIL
  recent,     \* the servers within fail_timeout of last_failed
  tried,      \* the bitmap of the round
  req,        \* upstream_tries, cur_upstream and progress of each request
  chooser,    \* the request that looks for a server
  init_state, \* "IDLE", "MODIFIED" or "INIT_DONE"
  cycle,      \* the cells of the ring: rnode and hashcode of a virtual node
  vnodes,     \* how many of them are in use
  room,       \* how many were allocated
  owner,      \* the request whose pool holds the ring; None before, "freed" after
  armed,      \* requests whose process_connection_result_of_upstream is to come
  busy,       \* requests whose socket has the ring's connect in progress
  retried,    \* history: requests that have tried to connect in the round
  cleared,    \* history: servers cleared of their failures outside the ring
  worker      \* "runs", or why it ended: "abort", "freed", "null"

servers == <<fails, failed, recent, tried>>
ring == <<init_state, cycle, vnodes, room, owner, cleared>>
sockets == <<armed, busy, retried>>
vars == <<servers, req, chooser, ring, sockets, worker>>

Members == {cycle[i].rnode : i \in 1 .. vnodes}
NewRequest == [tries |-> 0, cur |-> None, phase |-> "new"]

(* state and last_failed, which upstream_process_init does not set, have   *)
(* one value here: a request sets every state before it reads one, and     *)
(* last_failed counts only after a failure, which sets it.                 *)
Init ==
  /\ fails = [s \in Servers |-> 0] /\ failed = {} /\ recent = {} /\ tried = {}
  /\ req = [r \in Requests |-> NewRequest] /\ chooser = None
  /\ init_state = "IDLE" /\ cycle = <<>> /\ vnodes = 0 /\ room = 0
  /\ owner = None /\ armed = {} /\ busy = {} /\ retried = {} /\ cleared = {}
  /\ worker = "runs"

-----------------------------------------------------------------------------
(* The ring over the servers `up'.                                         *)

(* total_w.                                                                *)
TotalWeight(up) ==
  LET sum[k \in 0 .. nelts] ==
        IF k = 0 THEN 0
        ELSE sum[k - 1] + (IF k - 1 \in up THEN Weight[k - 1] ELSE 0)
  IN  sum[nelts]

(* Mutant: the virtual nodes are counted over all servers.                 *)
VNodes_OfAll(s, up) ==
  LET w == TotalWeight(up)
  IN  (8 * nelts * Weight[s] + w - 1) \div w

(* p_ceil(temp_vnum * weight / total_w).                                   *)
VNodes(s, up) ==
  LET w == TotalWeight(up)
  IN  (8 * Cardinality(up) * Weight[s] + w - 1) \div w

(* Mutant: the servers are numbered after the ones that are down are gone. *)
VNode_Renumbered(s, up) ==
  [rnode |-> s, hashcode |-> Point[Cardinality({t \in up : t < s})]]

(* A virtual node of s; all of them have the same hashcode.                *)
VNode(s, up) == [rnode |-> s, hashcode |-> Point[s]]

(* The virtual nodes in the order of qsort: those of one server after the  *)
(* other go where their hashcode belongs.                                  *)
Sorted(up) ==
  LET put[k \in 0 .. nelts] ==
        IF k = 0 THEN <<>>
        ELSE IF k - 1 \notin up THEN put[k - 1]
        ELSE LET q == put[k - 1]
                 node == VNode(k - 1, up)
                 cut == CHOOSE c \in 0 .. Len(q) :
                          \A i \in 1 .. Len(q) : q[i].hashcode < node.hashcode <=> i <= c
             IN  SubSeq(q, 1, cut) \o [i \in 1 .. VNodes(k - 1, up) |-> node]
                   \o SubSeq(q, cut + 1, Len(q))
  IN  put[nelts]

(* Mutant: the search drops an element that is large enough.               *)
Half_DropsMid(code, left, right) ==
  LET mid == (left + right) \div 2
  IN  IF cycle[mid + 1].hashcode < code THEN <<mid + 1, right>>
      ELSE IF cycle[mid + 1].hashcode > code THEN <<left, mid - 1>>
      ELSE <<mid, mid>>

(* A turn of the binary search: the interval it goes on with.              *)
Half(code, left, right) ==
  LET mid == (left + right) \div 2
  IN  IF cycle[mid + 1].hashcode < code THEN <<mid + 1, right>>
      ELSE IF cycle[mid + 1].hashcode > code THEN <<left, mid>>
      ELSE <<mid, mid>>

(* get_server_by_consistent_hash_once before its test of the server.  The  *)
(* search ends with `target' the cell at `left'; behind the last virtual   *)
(* node it is the first cell, whatever is there if the ring is empty.      *)
Search(code) ==
  LET look[i \in (0 .. vnodes) \X (-1 .. vnodes)] == \* left and right
        IF i[2] <= i[1] THEN i[1] ELSE look[Half(code, i[1], i[2])]
      found == look[<<0, vnodes>>]
  IN  cycle[IF found = vnodes THEN 1 ELSE found + 1].rnode

-----------------------------------------------------------------------------
(* Mutant: init_before_round clears the failures and does not say so.      *)
Marked_Forgets(f, rec, state) == state

(* init_before_round: init_state, when some server's failures ran out.     *)
Marked(f, rec, state) ==
  IF \E s \in Servers : f[s] >= max_fails /\ s \notin rec THEN "MODIFIED" ELSE state

(* init_before_round, from the failure counts f and the recent failures.   *)
InitBeforeRound(f, rec) ==
  /\ tried' = {} /\ failed' = {}
  /\ fails' = [s \in Servers |-> IF f[s] >= max_fails /\ s \notin rec THEN 0
                                 ELSE f[s]]

IsServerDown(s) == fails[s] >= max_fails /\ s \in recent
New(r) == chooser = None /\ req[r].phase = "new" /\ req[r].tries = 0

(* get_server_by_consistent_hash for a new request, up to the search: the  *)
(* round is initialised and the ring rebuilt if something has changed.     *)
(* The cells behind the new virtual nodes keep what they held.             *)
Ask(r) ==
  LET state == Marked(fails, recent, init_state)
      up == {s \in Servers : fails'[s] < max_fails \/ s \notin recent}
      nodes == Sorted(up)
  IN  /\ New(r)
      /\ InitBeforeRound(fails, recent)
      /\ chooser' = r
      /\ req' = [req EXCEPT ![r].tries = 1, ![r].phase = "asking"]
      /\ IF state = "INIT_DONE" THEN UNCHANGED <<cycle, vnodes, cleared>>
         ELSE /\ cycle' = nodes \o SubSeq(cycle, Len(nodes) + 1, Len(cycle))
              /\ vnodes' = Len(nodes)
              /\ cleared' = {}
      /\ IF state = "IDLE" THEN room' = Len(nodes) /\ owner' = r
         ELSE UNCHANGED <<room, owner>>
      /\ init_state' = "INIT_DONE"
      /\ UNCHANGED <<recent, sockets, worker>>

(* The ring does not fit in the pool of the request: ABORT_ON.             *)
NoMemory(r) ==
  /\ New(r) /\ init_state = "IDLE" /\ worker' = "abort"
  /\ UNCHANGED <<servers, req, chooser, ring, sockets>>

(* The ring is read or written after its pool was freed.                   *)
UseFreed(r) ==
  /\ New(r) /\ owner = "freed" /\ worker' = "freed"
  /\ UNCHANGED <<servers, req, chooser, ring, sockets>>

Asking == chooser # None /\ req[chooser].phase = "asking"

(* The server found is down: the round is next.                            *)
RingDown ==
  /\ Asking /\ \E code \in Codes : IsServerDown(Search(code))
  /\ req' = [req EXCEPT ![chooser].phase = "new"]
  /\ UNCHANGED <<servers, chooser, ring, sockets, worker>>

(* The server found connects at once.                                      *)
RingConnects ==
  /\ Asking
  /\ \E code \in Codes :
       /\ ~IsServerDown(Search(code))
       /\ req' = [req EXCEPT ![chooser].phase = "connected",
                             ![chooser].cur = Search(code)]
  /\ chooser' = None
  /\ UNCHANGED <<servers, ring, sockets, worker>>

(* It refuses, or its connect is in progress: both count as a failure, and *)
(* the round is next, which initialises itself again.  A connect in        *)
(* progress leaves its callback behind.                                    *)
RingFails ==
  /\ Asking
  /\ \E code \in Codes, res \in {"AGAIN", "ERROR"} :
       LET us == Search(code)
       IN  /\ ~IsServerDown(us)
           /\ req' = [req EXCEPT ![chooser].phase = "new"]
           /\ recent' = recent \cup {us}
           /\ InitBeforeRound([fails EXCEPT ![us] = @ + 1], recent \cup {us})
           /\ IF res = "ERROR" THEN UNCHANGED <<armed, busy>>
              ELSE armed' = armed \cup {chooser} /\ busy' = busy \cup {chooser}
  /\ init_state' = "MODIFIED"
  /\ UNCHANGED <<chooser, cycle, vnodes, room, owner, cleared, retried, worker>>

-----------------------------------------------------------------------------
(* The loop of get_server_by_round.  A socket whose connect is in progress *)
(* or done cannot be connected again (EALREADY, EISCONN).                  *)

Turn == chooser # None /\ ~Asking /\ req[chooser].tries < nelts
Eligible == {s \in Servers \ tried : ~IsServerDown(s)}

(* A turn in which every server is down or marked as tried.                *)
TryNone ==
  /\ Turn /\ Eligible = {}
  /\ req' = [req EXCEPT ![chooser].tries = @ + 1]
  /\ UNCHANGED <<servers, chooser, ring, sockets, worker>>

(* A server is chosen and connects or is in progress.                      *)
TryGood ==
  /\ Turn /\ chooser \notin busy
  /\ \E us \in Eligible, res \in {"connected", "connecting"} :
       /\ req' = [req EXCEPT ![chooser] = [tries |-> @.tries + 1, cur |-> us, phase |-> res]]
       /\ armed' = IF res = "connecting" THEN armed \cup {chooser} ELSE armed
  /\ tried' = tried \cup {nelts - 1}
  /\ retried' = retried \cup {chooser}
  /\ chooser' = None
  /\ UNCHANGED <<fails, failed, recent, ring, busy, worker>>

(* Mutant: try_connect leaves the event of a failed connect in place.      *)
TryBad_KeepsEvent ==
  /\ Turn
  /\ \E us \in Eligible :
       /\ fails' = [fails EXCEPT ![us] = @ + 1]
       /\ failed' = failed \cup {us} /\ recent' = recent \cup {us}
  /\ req' = [req EXCEPT ![chooser].tries = @ + 1]
  /\ tried' = tried \cup {nelts - 1}
  /\ retried' = retried \cup {chooser}
  /\ UNCHANGED <<armed, chooser, ring, busy, worker>>

(* It refuses at once: try_connect removes the write event, the server is  *)
(* freed as failed, and the loop goes on.                                  *)
TryBad ==
  /\ Turn
  /\ \E us \in Eligible :
       /\ fails' = [fails EXCEPT ![us] = @ + 1]
       /\ failed' = failed \cup {us} /\ recent' = recent \cup {us}
  /\ req' = [req EXCEPT ![chooser].tries = @ + 1]
  /\ tried' = tried \cup {nelts - 1}
  /\ armed' = armed \ {chooser} /\ retried' = retried \cup {chooser}
  /\ UNCHANGED <<chooser, ring, busy, worker>>

(* The attempts are used up: 502.                                          *)
GiveUp ==
  /\ chooser # None /\ ~Asking /\ req[chooser].tries >= nelts
  /\ req' = [req EXCEPT ![chooser].phase = "502"]
  /\ chooser' = None
  /\ UNCHANGED <<servers, ring, sockets, worker>>

Choose == \/ RingDown \/ RingConnects \/ RingFails
          \/ TryNone \/ TryGood \/ TryBad \/ GiveUp

-----------------------------------------------------------------------------
(* Callbacks and the ends of requests.                                     *)

Connected(r) ==
  /\ chooser = None /\ req[r].phase = "connecting"
  /\ req' = [req EXCEPT ![r].phase = "connected"]
  /\ armed' = armed \ {r}
  /\ UNCHANGED <<servers, chooser, ring, busy, retried, worker>>

(* The retry after a failed connect goes to the round.                     *)
Refused(r) ==
  LET f == [fails EXCEPT ![req[r].cur] = @ + 1]
      rec == recent \cup {req[r].cur}
  IN  /\ chooser = None /\ req[r].phase = "connecting"
      /\ req' = [req EXCEPT ![r].cur = None, ![r].phase = "new"]
      /\ recent' = rec /\ InitBeforeRound(f, rec)
      /\ init_state' = Marked(f, rec, init_state)
      /\ chooser' = r
      /\ armed' = armed \ {r}
      /\ UNCHANGED <<cycle, vnodes, room, owner, cleared, busy, retried, worker>>

(* The callback that RingFails left behind reads r->cur_upstream->location. *)
LateResult(r) ==
  /\ chooser = None /\ r \in armed /\ req[r].cur = None
  /\ worker' = "null"
  /\ UNCHANGED <<servers, req, chooser, ring, sockets>>

(* http_close_request frees the pool with all that is in it.               *)
PoolFreed(r) == owner' = IF owner = r THEN "freed" ELSE owner

(* What the end of a request leaves behind.                                *)
Forget(r) ==
  /\ req' = [req EXCEPT ![r] = NewRequest]
  /\ armed' = armed \ {r} /\ busy' = busy \ {r} /\ retried' = retried \ {r}

(* It also frees the request's server: free_server_after_round_select.     *)
Close(r) ==
  LET us == req[r].cur
  IN  /\ chooser = None /\ req[r].phase # "new"
      /\ Forget(r) /\ PoolFreed(r)
      /\ CASE us = None -> UNCHANGED <<fails, recent>>
           [] us \in failed -> /\ fails' = [fails EXCEPT ![us] = @ + 1]
                               /\ recent' = recent \cup {us}
           [] OTHER -> /\ fails' = [fails EXCEPT ![us] = IF us \in recent THEN @ ELSE 0]
                       /\ UNCHANGED recent
      /\ cleared' = cleared \cup {s \in Servers \ Members :
                                    fails[s] >= max_fails /\ fails'[s] = 0}
      /\ UNCHANGED <<failed, tried, chooser, init_state, cycle, vnodes, room, worker>>

(* A kept connection is closed between two requests.                       *)
CloseIdle(r) ==
  /\ New(r) /\ owner = r /\ PoolFreed(r)
  /\ UNCHANGED <<servers, req, chooser, init_state, cycle, vnodes, room, cleared,
                 sockets, worker>>

(* http_clear_request zeroes cur_upstream before it looks at it.           *)
Clear(r) ==
  /\ chooser = None /\ req[r].phase \in {"connected", "502"}
  /\ Forget(r)
  /\ UNCHANGED <<servers, chooser, ring, worker>>

(* fail_timeout of a server runs out.                                      *)
TimePasses ==
  /\ chooser = None
  /\ \E s \in recent : recent' = recent \ {s}
  /\ UNCHANGED <<fails, failed, tried, req, chooser, ring, sockets, worker>>

Ended == worker # "runs" /\ UNCHANGED vars

Next ==
  \/ /\ worker = "runs"
     /\ \/ Choose \/ TimePasses
        \/ \E r \in Requests : \/ Ask(r) \/ NoMemory(r) \/ UseFreed(r)
                               \/ Connected(r) \/ Refused(r) \/ LateResult(r)
                               \/ Close(r) \/ CloseIdle(r) \/ Clear(r)
  \/ Ended

Spec == Init /\ [][Next]_vars

-----------------------------------------------------------------------------
(* Types of the ring and of what the requests leave to the kernel.         *)
TypeOK ==
  /\ init_state \in {"IDLE", "MODIFIED", "INIT_DONE"}
  /\ cycle \in Seq([rnode : Servers, hashcode : Nat])
  /\ owner \in Requests \cup {None, "freed"}
  /\ armed \subseteq Requests /\ busy \subseteq Requests
  /\ \A s \in Servers : fails[s] \in Nat
  /\ \A r \in Requests : req[r].tries \in 0 .. nelts

(* The ring is allocated once, for the servers that are up at the first    *)
(* request, and refilled in place for every other set of them: it never    *)
(* outgrows its memory, although the shares are rounded up, which "does    *)
(* not matter" (upstream_server_module.c:315, 371-377).  It holds for at   *)
(* most ten servers.                                                       *)
CycleFits == Len(cycle) <= room

(* The ring is well-formed and, with few servers, in its memory after      *)
(* every rebuild, whichever of them are up                                 *)
(* (init_before_consistent_hash_get).                                      *)
RingSound == TypeOK /\ CycleFits

(* The binary search finds the first virtual node at or behind the code,   *)
(* around the end of the ring to its beginning, although runs of them have *)
(* the same hashcode (get_server_by_consistent_hash_once).                 *)
SearchFinds ==
  vnodes > 0 => \A code \in Codes :
    LET behind == {s \in Members : Point[s] >= code}
    IN  Point[Search(code)] = Min({Point[s] : s \in IF behind = {} THEN Members ELSE behind})

(* Consistency: when servers leave or join the ring, a client moves only   *)
(* from a server that has left or to one that has joined                   *)
(* (init_before_consistent_hash_get).                                      *)
OnlyAffectedMove ==
  [][cycle' # cycle /\ vnodes > 0 /\ vnodes' > 0 => \A code \in Codes :
       Search(code) # Search(code)' =>
         Search(code) \notin Members' \/ Search(code)' \notin Members]_vars

(* A server that may be used is missing in a ring that counts as up to     *)
(* date only if the end of an older request has cleared its failures       *)
(* (free_server_after_round_select does not touch init_state); every other *)
(* way back leads through a rebuild.                                       *)
RingMissing ==
  init_state = "INIT_DONE" =>
    \A s \in Servers \ Members : fails[s] >= max_fails \/ s \in cleared

(* A callback of a connect is left to a request without a server only if   *)
(* the ring's connect was the only one: any further attempt removes it     *)
(* (try_connect, get_server_by_consistent_hash).                           *)
LeftArmed ==
  \A r \in armed : req[r].cur = None /\ chooser # r =>
    req[r].phase = "502" /\ r \notin retried
=============================================================================
