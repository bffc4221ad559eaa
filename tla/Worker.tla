------------------------------- MODULE Worker -------------------------------
(***************************************************************************)
(* One worker process: the loop of worker/worker.c over                    *)
(* kqueue_process_events, event_accept and event_expire_timers, calling    *)
(* the callbacks of HttpHandlers.                                          *)
(*                                                                         *)
(* kevent returns a batch of events, each carrying the address of a        *)
(* connection object.  The events of a batch are handled one after the     *)
(* other in the kernel's order, and one of them may close or reuse the     *)
(* object that a later one of the same batch points to.                    *)
(***************************************************************************)
EXTENDS HttpHandlers

CONSTANTS MaxClients, \* bound: clients connected at a time
          Signals     \* the signals that may arrive: "SIGQUIT", "SIGINT"

ASSUME MaxClientsAssumption == MaxClients \in Nat
ASSUME SignalsAssumption == Signals \subseteq {"SIGQUIT", "SIGINT"}

VARIABLES world,   \* the worker's memory (WorkerState)
          batch,   \* what is left of the events kevent returned
          exiting  \* p_exiting

vars == <<world, batch, exiting>>

Listen == <<"listen", "rev">> \* the read event of the listening connection

Init == /\ world = InitWorld
        /\ batch = {}
        /\ exiting = FALSE

Alive == world.dead = "no"

(* The connections that are not the upstream connection of some request.   *)
Clients == {c \in Conns : /\ world.conn[c].inuse
                          /\ \A r \in Conns : world.req[r].upstream # c}

(* The top of worker_cycle_process and kevent.  The listening event is     *)
(* never unregistered: http_close_connection returns early for it.  An     *)
(* empty batch is a wait that SIGALRM interrupts.                          *)
Poll ==
  LET w == IF exiting THEN ClearIdleConnections(world) ELSE world
  IN  /\ Alive /\ batch = {}
      /\ IF exiting /\ w.tree = {}
         THEN /\ world' = [w EXCEPT !.dead = "exit"]
              /\ batch' = {}
         ELSE /\ world' = w
              /\ batch' \in SUBSET (w.kq \cup {Listen})
      /\ UNCHANGED exiting

(* kqueue_process_events calls the handler of one event of the batch.      *)
Dispatch ==
  /\ Alive
  /\ \E e \in batch \ {Listen} :
       /\ batch' = batch \ {e}
       /\ IF world.conn[e[1]][e[2]].handler = Null THEN world' = world
          ELSE world' \in Call(world, e[1], e[2])
  /\ UNCHANGED exiting

(* event_accept takes every client that waits, up to the pool's limit.     *)
Accept ==
  /\ Alive /\ Listen \in batch
  /\ batch' = batch \ {Listen}
  /\ \E S \in SUBSET FreeConns(world) :
       /\ S = {} \/ Cardinality(S) + Cardinality(Clients) <= MaxClients
       /\ world' = FoldSet(LAMBDA c, w : InitConnection(w, c), world, S)
  /\ UNCHANGED exiting

(* event_expire_timers, one expired node; it calls the handler unchecked.  *)
Expire ==
  /\ Alive /\ batch = {}
  /\ \E e \in world.tree :
       LET w == Expired(world, e[1], e[2])
       IN  IF w.conn[e[1]][e[2]].handler = Null THEN world' = Crash(w)
           ELSE world' \in Call(w, e[1], e[2])
  /\ UNCHANGED <<batch, exiting>>

(* SIGQUIT seen at the bottom of the loop.  http_close_connection returns  *)
(* early for the listening connection: its data is NULL and is_connected   *)
(* was never set.                                                          *)
Quit ==
  /\ Alive /\ batch = {} /\ ~exiting /\ "SIGQUIT" \in Signals
  /\ exiting' = TRUE
  /\ world' = ClearIdleConnections(world)
  /\ UNCHANGED batch

(* SIGINT seen at the bottom of the loop.                                  *)
Terminate ==
  /\ Alive /\ batch = {} /\ "SIGINT" \in Signals
  /\ world' = [world EXCEPT !.dead = "exit"]
  /\ UNCHANGED <<batch, exiting>>

(* The process has ended.                                                  *)
Ended == ~Alive /\ UNCHANGED vars

Next == Poll \/ Dispatch \/ Accept \/ Expire \/ Quit \/ Terminate \/ Ended

Spec == Init /\ [][Next]_vars

-----------------------------------------------------------------------------
conn == world.conn
req == world.req
Live == {r \in Conns : req[r].live}

(* Types of the worker's memory.                                           *)
EventType == [handler : ReadHandlers \cup WriteHandlers \cup {Null},
              active : BOOLEAN, timer_set : BOOLEAN, timedout : BOOLEAN]
TypeOK ==
  /\ world.conn \in [Conns -> [inuse : BOOLEAN, open : BOOLEAN,
                               data : Conns \cup {Null}, connected : BOOLEAN,
                               idle : BOOLEAN, rev : EventType, wev : EventType]]
  /\ world.req \in [Conns -> [live : BOOLEAN, connection : Conns \cup {Null},
                              upstream : Conns \cup {Null}, resource : BOOLEAN,
                              response_done : BOOLEAN, keep_alive : BOOLEAN,
                              tries : 0 .. Servers, cur : BOOLEAN,
                              rb : {"empty", "parsed", "ready", "lost"},
                              sb : SUBSET {"head", "page", "data"}]]
  /\ world.tree \subseteq Events
  /\ world.kq \subseteq Events
  /\ world.dead \in {"no", "crash", "exit"}
  /\ batch \subseteq Events \cup {Listen}
  /\ exiting \in BOOLEAN

(* No callback follows a NULL or dangling pointer and no object is         *)
(* returned to the pool twice, whatever order the kernel reports events    *)
(* in, also when an event of a batch is stale because an earlier one       *)
(* closed its connection or the object was reused (http.c callbacks).      *)
(* This and the next properties speak of a worker that has not been told   *)
(* to quit: clear_idle_connections cuts every link (QuitNoCrash).          *)
NoCrash == ~exiting => world.dead # "crash"

(* Requests and connections point at each other: a live request has its    *)
(* open client connection, its upstream connection belongs to it and no    *)
(* other, and no connection keeps a pointer to a freed request             *)
(* (http_close_connection, http_close_request, http_clear_request).        *)
RequestLinks ==
  ~exiting =>
  /\ \A r \in Live :
       /\ req[r].connection = r /\ conn[r].inuse /\ conn[r].open
       /\ conn[r].data = r
       /\ req[r].upstream # Null =>
            conn[req[r].upstream].inuse /\ conn[req[r].upstream].data = r
  /\ \A c \in Conns : conn[c].data # Null =>
       LET r == conn[c].data
       IN  conn[c].inuse /\ req[r].live /\ (c = r \/ req[r].upstream = c)

(* Every field keeps its type and the links between requests and           *)
(* connections are mutual, in whatever order the ends close                *)
(* (http_close_connection, http_close_request).                            *)
LinksSound == TypeOK /\ RequestLinks

(* The red-black tree holds exactly the timers that are set and have not   *)
(* expired; they lie in connections that are out of the pool and have a    *)
(* handler for event_expire_timers to call, also during a shutdown.        *)
TimersOwned ==
  \A e \in Events :
    LET ev == conn[e[1]][e[2]]
    IN  /\ e \in world.tree <=> ev.timer_set /\ ~ev.timedout
        /\ e \in world.tree => conn[e[1]].inuse /\ ev.handler # Null

(* The flag `active' of an event says whether the kernel watches it        *)
(* (upstream_server_module.c:88 fears the two can disagree).               *)
KqueueMatchesActive ==
  \A e \in Events : e \in world.kq <=> conn[e[1]].open /\ conn[e[1]][e[2]].active

(* What an event says about itself is true: timer_set of the tree, active  *)
(* of the kernel, through reuse of the object, retries on another socket,  *)
(* SIGQUIT and SIGINT (event_add_timer, event_del_timer, kqueue_add_event, *)
(* kqueue_del_event, http_close_connection).                               *)
EventsTrue == TimersOwned /\ KqueueMatchesActive

(* A connection never waits for ever on a silent peer: as long as its      *)
(* response is not complete, a timer is armed on the client's connection   *)
(* or on the upstream's.                                                   *)
Guarded(c) == \E k \in Kinds : <<c, k>> \in world.tree
UnfinishedHasTimer ==
  ~exiting =>
  \A c \in Clients :
    LET r == conn[c].data
    IN  IF r = Null THEN Guarded(c)
        ELSE req[r].response_done \/ Guarded(c)
             \/ (req[r].upstream # Null /\ Guarded(req[r].upstream))

(* A complete response (an error page, or the last bytes of the backend)   *)
(* is going to be written: the kernel watches the client for writing, and  *)
(* there is a callback.                                                    *)
DoneHasWriter ==
  ~exiting =>
  \A r \in Live : req[r].response_done =>
    <<r, "wev">> \in world.kq /\ conn[r].wev.handler # Null

(* Nobody waits for what will not come: an unfinished request has a timer  *)
(* on one of its connections, a finished one a registered writer,          *)
(* whichever callback was the last (http.c callbacks, construct_err).      *)
NobodyWaits == UnfinishedHasTimer /\ DoneHasWriter

(* "In the error case keep_alive is cancelled" (http_response.c:270): the  *)
(* page says `Connection: close', and nothing between construct_err and    *)
(* the end of the response turns keep_alive on again.                      *)
PageEndsConnection == \A r \in Live : "page" \in req[r].sb => ~req[r].keep_alive

(* "A state must be set, so that the callback of a successful connect can  *)
(* add the write event" (http.c:269): a request that is complete has the   *)
(* write event of its backend registered, whether it was complete before   *)
(* or after the connect, as long as the first server is the one that       *)
(* connects (a retry may lose the event).                                  *)
ForwardArmed ==
  ~exiting =>
  \A r \in Live :
    LET u == req[r].upstream
    IN  u # Null /\ req[r].rb = "ready" /\ req[r].tries = 1
          /\ ~req[r].response_done => <<u, "wev">> \in world.kq

(* "All the data received this time has been forwarded" (http.c:773): what *)
(* http_proxy_pass clears from recv_buffer has been sent to the backend.   *)
RequestBytesKept == \A r \in Live : req[r].rb # "lost"

(* SIGQUIT "does not close all connections at once" (worker.c:89), and     *)
(* after it "what is left are the connections of active events"            *)
(* (connection.c:289): their callbacks go on as before.                    *)
QuitNoCrash == world.dead # "crash"
=============================================================================
