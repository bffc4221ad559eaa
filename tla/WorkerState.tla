---------------------------- MODULE WorkerState ----------------------------
(***************************************************************************)
(* The memory of one worker process and the primitive operations on it:    *)
(* timers (event/timer_event.c), kqueue registration                       *)
(* (module/kqueue_event_module.c) and connection objects                   *)
(* (http/connection.c).                                                    *)
(*                                                                         *)
(* A handler of the worker runs to completion and calls many of these      *)
(* operations on the same objects, so the memory is one value, a `world',  *)
(* and an operation maps a world to the next one.  A world is a record     *)
(*   conn : for each connection object its connection_t                    *)
(*   req  : for each client connection the http_request_t made for it      *)
(*   tree : the events whose timer node is in event_timer_rbtree           *)
(*   kq   : the events the kernel's kqueue watches                         *)
(*   dead : "no", or why the process has ended                             *)
(* An event_t is named by its place, <<c, "rev">> or <<c, "wev">>.  A      *)
(* request is named by the client connection that http_init_request made   *)
(* it for; `live' is false once its memory pool has been freed.            *)
(***************************************************************************)
EXTENDS Naturals, FiniteSets, FiniteSetsExt

CONSTANTS Conns, \* the connection objects, the listening one left out
          Null   \* NULL

Kinds == {"rev", "wev"}
Events == Conns \X Kinds

ASSUME ConnsAssumption == IsFiniteSet(Conns) /\ "listen" \notin Conns

(* The functions an event_t's handler can point to.                        *)
ReadHandlers == {"http_init_request", "ngx_http_process_request_line",
                 "http_parse_headers", "request_handle_body",
                 "http_recv_upstream"}
WriteHandlers == {"handle_response", "handle_response_file",
                  "process_connection_result_of_upstream", "http_proxy_pass"}

ASSUME NullAssumption == Null \notin Conns \cup ReadHandlers \cup WriteHandlers

(* event_t after the memzero of getIdleConnection.                         *)
ZeroEvent == [handler |-> Null, active |-> FALSE, timer_set |-> FALSE,
              timedout |-> FALSE]

(* connection_t: `open' stands for fd > 0, `inuse' for being out of the    *)
(* pool.                                                                   *)
ZeroConn == [inuse |-> FALSE, open |-> FALSE, data |-> Null,
             connected |-> FALSE, idle |-> FALSE,
             rev |-> ZeroEvent, wev |-> ZeroEvent]

(* http_request_t.  recv_buffer (rb) is "empty"; or it holds bytes the     *)
(* parser has consumed, so begin = end ("parsed"); or begin has been moved *)
(* back to the start to forward them ("ready"); or bytes of the request    *)
(* were cleared from it before they were forwarded ("lost").  send_buffer  *)
(* (sb) is the set of what it holds: a 200 header, an error page, bytes of *)
(* the backend.  `cur' is cur_upstream # NULL.                             *)
ZeroReq == [live |-> FALSE, connection |-> Null, upstream |-> Null,
            resource |-> FALSE, response_done |-> FALSE,
            keep_alive |-> FALSE, tries |-> 0, cur |-> FALSE,
            rb |-> "empty", sb |-> {}]

InitWorld == [conn |-> [c \in Conns |-> ZeroConn],
              req |-> [c \in Conns |-> ZeroReq],
              tree |-> {}, kq |-> {}, dead |-> "no"]

(* A NULL pointer is followed, freed memory is used, or abort() is called. *)
Crash(w) == [w EXCEPT !.dead = "crash"]

Handle(w, c, k, h) == [w EXCEPT !.conn[c][k].handler = h]

-----------------------------------------------------------------------------
(* Timers.  The key of a timer is left out: which armed timer expires      *)
(* first is up to the clock.  Keys and clock are in TimerQueue, the tree   *)
(* itself in RbTree.                                                       *)

(* event_del_timer.  The node of an expired timer has left the tree while  *)
(* timer_set is still on: rbtree_delete then finds the sentinel in all its *)
(* links and writes to the sentinel only.                                  *)
EventDelTimer(w, c, k) ==
  [w EXCEPT !.tree = @ \ {<<c, k>>},
            !.conn[c][k].timer_set = FALSE,
            !.conn[c][k].timedout = FALSE]

(* event_add_timer.  It returns early when the timer is set and its key is *)
(* within TIMER_LAZY_DELAY of the new one; the node is then in the tree,   *)
(* because rbtree_delete has set the key of an expired one to 0, and the   *)
(* result is the same as taking it out and inserting it again.             *)
EventAddTimer(w, c, k) ==
  LET v == IF w.conn[c][k].timer_set THEN EventDelTimer(w, c, k) ELSE w
  IN  [v EXCEPT !.tree = @ \cup {<<c, k>>}, !.conn[c][k].timer_set = TRUE]

(* event_expire_timers takes the node out of the tree, marks the event and *)
(* leaves timer_set as it was.                                             *)
Expired(w, c, k) ==
  [w EXCEPT !.tree = @ \ {<<c, k>>}, !.conn[c][k].timedout = TRUE]

-----------------------------------------------------------------------------
(* kqueue.  The kernel refuses a descriptor that is not open.              *)

KqueueAddEvent(w, c, k) ==
  IF w.conn[c][k].active THEN w
  ELSE [w EXCEPT !.conn[c][k].active = TRUE,
                 !.kq = IF w.conn[c].open THEN @ \cup {<<c, k>>} ELSE @]

(* Mutant: kqueue_del_event leaves `active' set.                           *)
KqueueDelEvent_KeepsActive(w, c, k) ==
  IF ~w.conn[c][k].active THEN w
  ELSE LET v == IF w.conn[c][k].timer_set THEN EventDelTimer(w, c, k) ELSE w
       IN  [v EXCEPT !.kq = @ \ {<<c, k>>}]

(* kqueue_del_event also deletes the timer of an active event.             *)
KqueueDelEvent(w, c, k) ==
  IF ~w.conn[c][k].active THEN w
  ELSE LET v == IF w.conn[c][k].timer_set THEN EventDelTimer(w, c, k) ELSE w
       IN  [v EXCEPT !.conn[c][k].active = FALSE, !.kq = @ \ {<<c, k>>}]

-----------------------------------------------------------------------------
(* Connection objects.  Which free object the pool returns is the pool's   *)
(* business (ConnectionPool implements ConnectionAllocator).               *)

FreeConns(w) == {c \in Conns : ~w.conn[c].inuse}

(* getIdleConnection returning c: the object is zeroed.                    *)
GetIdleConnection(w, c) ==
  [w EXCEPT !.conn[c] = [ZeroConn EXCEPT !.inuse = TRUE]]

(* event_accept and init_connection for one accepted client.               *)
InitConnection(w, c) ==
  LET v == GetIdleConnection(w, c)
      x == Handle([v EXCEPT !.conn[c].open = TRUE,
                            !.conn[c].connected = TRUE],
                  c, "rev", "http_init_request")
  IN  KqueueAddEvent(EventAddTimer(x, c, "rev"), c, "rev")

(* The request's pointer to connection c is cleared.                       *)
Unlink(w, c) ==
  LET r == w.conn[c].data
  IN  CASE r = Null -> w
        [] r # Null /\ w.req[r].connection = c ->
             [w EXCEPT !.req[r].connection = Null]
        [] OTHER -> [w EXCEPT !.req[r].upstream = Null]

(* Deletion of the timer of an event, if it is set.                        *)
DropTimer(w, c, k) ==
  IF w.conn[c][k].timer_set THEN EventDelTimer(w, c, k) ELSE w

(* What http_close_connection does to the object itself: close(fd) takes   *)
(* both events out of the kqueue, and the object goes back to the pool;    *)
(* its handlers stay as they were.                                         *)
Released(w, c) ==
  [w EXCEPT !.kq = @ \ {<<c, "rev">>, <<c, "wev">>},
            !.conn[c].open = FALSE, !.conn[c].data = Null,
            !.conn[c].idle = FALSE, !.conn[c].connected = FALSE,
            !.conn[c].rev.active = FALSE,
            !.conn[c].wev.active = FALSE,
            !.conn[c].inuse = FALSE]

(* Mutant: http_close_connection forgets the timer of the write event.     *)
HttpCloseConnection_LeavesTimer(w, c) ==
  IF w.conn[c].data = Null /\ ~w.conn[c].connected THEN w
  ELSE Released(DropTimer(Unlink(w, c), c, "rev"), c)

(* Mutant: http_close_connection leaves the request pointing at the        *)
(* connection it has closed.                                               *)
HttpCloseConnection_KeepsLink(w, c) ==
  IF w.conn[c].data = Null /\ ~w.conn[c].connected THEN w
  ELSE Released(DropTimer(DropTimer(w, c, "rev"), c, "wev"), c)

(* http_close_connection.  Returning an object that is in the pool already *)
(* corrupts the free list.                                                 *)
HttpCloseConnection(w, c) ==
  IF w.conn[c].data = Null /\ ~w.conn[c].connected THEN w
  ELSE [Released(DropTimer(DropTimer(Unlink(w, c), c, "rev"), c, "wev"), c)
          EXCEPT !.dead = IF w.conn[c].inuse THEN @ ELSE "crash"]

(* clear_idle_connections: the open idle connections are closed, then data *)
(* is cleared in every object.                                             *)
ClearIdleConnections(w) ==
  LET idle == {c \in Conns : w.conn[c].open /\ w.conn[c].idle}
      v == FoldSet(LAMBDA c, x : HttpCloseConnection(x, c), w, idle)
  IN  [v EXCEPT !.conn = [c \in Conns |-> [@[c] EXCEPT !.data = Null]]]
=============================================================================
