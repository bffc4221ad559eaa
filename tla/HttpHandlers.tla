---------------------------- MODULE HttpHandlers ----------------------------
(***************************************************************************)
(* The callbacks of a worker: http/http.c, with what they call in          *)
(* http/http_request.c, http/http_response.c, http/header.c and            *)
(* module/upstream_server_module.c.                                        *)
(*                                                                         *)
(* A callback runs to completion.  What it does depends on the results of  *)
(* system calls and on the bytes the peers have sent, so it maps a world   *)
(* to the set of worlds it can end in.  A callback that follows a NULL     *)
(* pointer ends in a world that is dead.                                   *)
(***************************************************************************)
EXTENDS WorkerState

CONSTANTS Servers, \* nelts: the number of backends of the domain
          Routes   \* what the clients ask for: "upstream", "file", "missing"

ASSUME ServersAssumption == Servers \in Nat \ {0}
ASSUME RoutesAssumption == Routes \subseteq {"upstream", "file", "missing"}

(* The callback f goes on in every world of ws in which the process lives. *)
Then(ws, f(_)) == UNION {IF w.dead = "no" THEN f(w) ELSE {w} : w \in ws}

(* What buffer_send can return: with nothing to send it makes no call.     *)
BufferSend(empty) == IF empty THEN {"OK"} ELSE {"OK", "AGAIN", "ERROR"}

(* What send_file can return.                                              *)
SendFile == {"OK", "AGAIN", "ERROR"}

-----------------------------------------------------------------------------
(* Requests.                                                               *)

(* http_close_request.  Its log line reads r->connection->fd.              *)
HttpCloseRequest(w, r) ==
  IF w.req[r].connection = Null THEN Crash(w)
  ELSE LET v == HttpCloseConnection(w, w.req[r].connection)
           x == IF v.req[r].upstream = Null THEN v
                ELSE HttpCloseConnection(v, v.req[r].upstream)
       IN  [x EXCEPT !.req[r] = ZeroReq]

(* http_clear_request: the backend's connection is closed and the request  *)
(* is zeroed except for its connection, its pool and its buffers.          *)
HttpClearRequest(w, r) ==
  LET c == w.req[r].connection
      v == IF w.req[r].upstream = Null THEN w
           ELSE HttpCloseConnection(w, w.req[r].upstream)
  IN  [v EXCEPT !.req[r] = [ZeroReq EXCEPT !.live = TRUE, !.connection = c],
                !.conn[c].idle = TRUE]

(* http_response_done: a kept connection waits for its next request line.  *)
HttpResponseDone(w, r) ==
  IF ~w.req[r].keep_alive THEN HttpCloseRequest(w, r)
  ELSE IF w.req[r].connection = Null THEN Crash(w)
  ELSE LET c == w.req[r].connection
           v == KqueueDelEvent(HttpClearRequest(w, r), c, "wev")
           x == Handle(KqueueAddEvent(v, c, "rev"),
                       c, "rev", "ngx_http_process_request_line")
       IN  EventAddTimer(x, c, "rev")

(* Mutant: construct_err forgets to register the write event.              *)
ConstructErr_NoWriter(w, r) ==
  IF w.req[r].connection = Null THEN Crash(w)
  ELSE LET c == w.req[r].connection
           v == KqueueDelEvent(w, c, "rev")
       IN  [Handle(v, c, "wev", "handle_response") EXCEPT
              !.req[r].sb = {"page"}, !.req[r].response_done = TRUE,
              !.req[r].keep_alive = FALSE]

(* Mutant: construct_err does not cancel keep_alive.                       *)
ConstructErr_KeepsAlive(w, r) ==
  IF w.req[r].connection = Null THEN Crash(w)
  ELSE LET c == w.req[r].connection
           v == KqueueDelEvent(KqueueAddEvent(w, c, "wev"), c, "rev")
       IN  [Handle(v, c, "wev", "handle_response") EXCEPT
              !.req[r].sb = {"page"}, !.req[r].response_done = TRUE]

(* construct_err(r, r->connection, err): the error page replaces whatever  *)
(* is in send_buffer.                                                      *)
ConstructErr(w, r) ==
  IF w.req[r].connection = Null THEN Crash(w)
  ELSE LET c == w.req[r].connection
           v == KqueueDelEvent(KqueueAddEvent(w, c, "wev"), c, "rev")
       IN  [Handle(v, c, "wev", "handle_response") EXCEPT
              !.req[r].sb = {"page"}, !.req[r].response_done = TRUE,
              !.req[r].keep_alive = FALSE]

-----------------------------------------------------------------------------
(* Sending the response.                                                   *)

HandleResponseFile(w, c) ==
  LET r == w.conn[c].data
  IN  IF r = Null THEN {Crash(w)}
      ELSE IF w.conn[c].wev.timedout THEN {ConstructErr(w, r)}
      ELSE { CASE res = "OK" ->
                    HttpResponseDone([w EXCEPT !.req[r].response_done = TRUE], r)
               [] res = "AGAIN" -> IF w.conn[c].wev.timer_set
                                   THEN EventAddTimer(w, c, "wev") ELSE w
               [] res = "ERROR" -> HttpCloseRequest(w, r) : res \in SendFile }

(* handle_response once send_buffer has been sent.                         *)
ResponseSent(w, c) ==
  LET r == w.conn[c].data
  IN  IF w.req[r].response_done THEN {HttpResponseDone(w, r)}
      ELSE IF w.req[r].upstream # Null THEN {KqueueDelEvent(w, c, "wev")}
      ELSE IF w.req[r].resource
           THEN HandleResponseFile(Handle(w, c, "wev", "handle_response_file"), c)
      ELSE {HttpResponseDone([w EXCEPT !.req[r].response_done = TRUE], r)}

HandleResponse(w, c) ==
  LET r == w.conn[c].data
  IN  IF ~w.conn[c].open THEN {w}
      ELSE IF r = Null THEN {Crash(w)}
      ELSE IF w.conn[c].wev.timedout THEN {HttpCloseRequest(w, r)}
      ELSE UNION { CASE res = "OK" -> ResponseSent([w EXCEPT !.req[r].sb = {}], c)
                     [] res = "AGAIN" -> {EventAddTimer(w, c, "wev")}
                     [] res = "ERROR" -> {HttpCloseRequest(w, r)} :
                   res \in BufferSend(w.req[r].sb = {}) }

-----------------------------------------------------------------------------
(* Choosing a backend and connecting to it.                                *)

(* init_upstream_connection                                                *)
InitUpstreamConnection(w, u) ==
  LET v == [w EXCEPT !.conn[u].connected = TRUE]
      x == Handle(Handle(v, u, "wev", "http_proxy_pass"),
                  u, "rev", "http_recv_upstream")
  IN  EventAddTimer(KqueueAddEvent(x, u, "rev"), u, "wev")

(* The three ends of try_connect.  A socket that cannot be made fails      *)
(* before anything is registered.                                          *)
TryConnectOk(w, r) ==
  LET u == w.req[r].upstream
  IN  InitUpstreamConnection([w EXCEPT !.conn[u].open = TRUE,
                                       !.req[r].cur = TRUE], u)

TryConnectAgain(w, r) ==
  LET u == w.req[r].upstream
      v == Handle([w EXCEPT !.conn[u].open = TRUE, !.req[r].cur = TRUE],
                  u, "wev", "process_connection_result_of_upstream")
  IN  EventAddTimer(KqueueAddEvent(v, u, "wev"), u, "wev")

TryConnectErrors(w, r) ==
  LET u == w.req[r].upstream
  IN  {w, KqueueDelEvent([w EXCEPT !.conn[u].open = TRUE], u, "wev")}

(* The loop of get_server_by_round: after some failed attempts (no server  *)
(* can be chosen, or try_connect fails) one connects or is in progress; or *)
(* the attempts run out and the client is told 502.  try_connect reads     *)
(* r->upstream->fd.                                                        *)
GetServerByRound(w, r) ==
  LET left == Servers - w.req[r].tries
      failed(n) == {[x EXCEPT !.req[r].tries = @ + n] :
                      x \in IF n = 0 THEN {w} ELSE TryConnectErrors(w, r)}
      taken == {[x EXCEPT !.req[r].tries = @ + 1] :
                  x \in UNION {failed(n) : n \in 0 .. left - 1}}
  IN  IF w.req[r].upstream = Null
      THEN {Crash(w), ConstructErr([w EXCEPT !.req[r].tries = Servers], r)}
      ELSE {TryConnectOk(x, r) : x \in taken}
             \cup {TryConnectAgain(x, r) : x \in taken}
             \cup {ConstructErr(x, r) : x \in failed(left)}

(* Mutant: the released connection is not recognised by its fd.            *)
ProcessConnectionResult_NoFdCheck(w, u) ==
  LET r == w.conn[u].data
      fail == KqueueDelEvent([w EXCEPT !.req[r].cur = FALSE], u, "wev")
  IN  IF r = Null THEN {Crash(w)}
      ELSE IF ~w.req[r].cur THEN {Crash(w)}
      ELSE IF w.conn[u].wev.timedout THEN {ConstructErr(w, r)}
      ELSE {InitUpstreamConnection(w, u), ConstructErr(w, r)}
             \cup GetServerByRound(fail, r)

(* process_connection_result_of_upstream.  All branches but the failing    *)
(* getsockopt read through cur_upstream.                                   *)
ProcessConnectionResult(w, u) ==
  LET r == w.conn[u].data
      fail == KqueueDelEvent([w EXCEPT !.req[r].cur = FALSE], u, "wev")
  IN  IF ~w.conn[u].open THEN {w}
      ELSE IF r = Null \/ ~w.req[r].cur THEN {Crash(w)}
      ELSE IF w.conn[u].wev.timedout THEN {ConstructErr(w, r)}
      ELSE {InitUpstreamConnection(w, u), ConstructErr(w, r)}
             \cup GetServerByRound(fail, r)

-----------------------------------------------------------------------------
(* Passing bytes between the client and the backend.                       *)

(* Mutant: http_proxy_pass does not arm upstream_timeout.                  *)
HttpProxyPass_NoTimer(w, u) ==
  LET r == w.conn[u].data
      kept == IF w.req[r].rb \in {"parsed", "lost"} THEN "lost" ELSE "empty"
      sent == [w EXCEPT !.req[r].rb = kept]
  IN  IF ~w.conn[u].open THEN {w}
      ELSE IF r = Null THEN {Crash(w)}
      ELSE IF w.req[r].connection = Null THEN {Crash(w)}
      ELSE IF w.conn[u].wev.timedout
           THEN {ConstructErr(HttpCloseConnection(w, u), r)}
      ELSE { CASE res = "OK" ->
                    KqueueDelEvent(
                      KqueueAddEvent(sent, w.req[r].connection, "rev"), u, "wev")
               [] res = "AGAIN" -> w
               [] res = "ERROR" -> ConstructErr(w, r) :
             res \in BufferSend(w.req[r].rb \in {"empty", "parsed"}) }

(* http_proxy_pass: recv_buffer is sent to the backend, then cleared.      *)
HttpProxyPass(w, u) ==
  LET r == w.conn[u].data
      rearm(x) == IF x.conn[u].rev.timer_set THEN x
                  ELSE EventAddTimer(x, u, "rev")
      kept == IF w.req[r].rb \in {"parsed", "lost"} THEN "lost" ELSE "empty"
      sent == [w EXCEPT !.req[r].rb = kept]
  IN  IF ~w.conn[u].open THEN {w}
      ELSE IF r = Null THEN {Crash(w)}
      ELSE IF w.req[r].connection = Null THEN {Crash(w)}
      ELSE IF w.conn[u].wev.timedout
           THEN {ConstructErr(HttpCloseConnection(w, u), r)}
      ELSE { CASE res = "OK" ->
                    rearm(KqueueDelEvent(
                      KqueueAddEvent(sent, w.req[r].connection, "rev"), u, "wev"))
               [] res = "AGAIN" -> rearm(w)
               [] res = "ERROR" -> rearm(ConstructErr(w, r)) :
             res \in BufferSend(w.req[r].rb \in {"empty", "parsed"}) }

(* http_recv_upstream: bytes of the backend go to send_buffer, behind what *)
(* is in it; its end of file finishes the response.                        *)
HttpRecvUpstream(w, u) ==
  LET r == w.conn[u].data
      c == w.req[r].connection
      v == KqueueAddEvent(
             IF w.conn[c].wev.handler # Null THEN w
             ELSE Handle(w, c, "wev", "handle_response"), c, "wev")
  IN  IF ~w.conn[u].open THEN {w}
      ELSE IF r = Null THEN {Crash(w)}
      ELSE IF w.conn[u].rev.timedout
           THEN {ConstructErr(HttpCloseConnection(w, u), r)}
      ELSE IF w.req[r].connection = Null \/ w.req[r].upstream = Null
           THEN {Crash(w)}
      ELSE { EventAddTimer([v EXCEPT !.req[r].sb = @ \cup {"data"}], u, "rev"),
             [HttpCloseConnection(v, u) EXCEPT !.req[r].response_done = TRUE],
             ConstructErr(v, r) }

-----------------------------------------------------------------------------
(* Receiving the request.  The bytes are left out: a parser ends in one of *)
(* the ways [rc |-> its return value, world |-> what it leaves behind].    *)

(* buffer_recv as the callbacks use it: the end of file (OK) and an error  *)
(* close the request, otherwise (AGAIN) the callback goes on, to one of    *)
(* the worlds of ws.                                                       *)
BufferRecv(w, r, ws) == {HttpCloseRequest(w, r)} \cup ws

(* parse_request_line.  It asks for more after having consumed the bytes   *)
(* that have come, if any.                                                 *)
ParseRequestLine(w, r) ==
  LET v == [w EXCEPT !.req[r].rb = "parsed"]
  IN  {[rc |-> "OK", world |-> v], [rc |-> "AGAIN", world |-> v],
       [rc |-> "AGAIN", world |-> w], [rc |-> "ERROR", world |-> w]}

(* A Connection header: header_handle_connection sets keep_alive, or makes *)
(* an error page for an unknown value.                                     *)
HeaderHandleConnection(w, r) ==
  {[w EXCEPT !.req[r].keep_alive = k] : k \in BOOLEAN} \cup {ConstructErr(w, r)}

(* The loop of http_parse_headers over parse_header: some headers, with or *)
(* without a Connection among them, then the empty line, an error, or the  *)
(* end of what has come.  It ends at once when a response is there.  A     *)
(* refused line has a name here; RequestParser also has lines without one. *)
ParseHeaders(w, r) ==
  LET v == [w EXCEPT !.req[r].rb = IF @ = "lost" THEN @ ELSE "parsed"]
      heads == {v} \cup HeaderHandleConnection(v, r)
      ends(x) == IF x.req[r].response_done THEN {"OK"} ELSE {"OK", "AGAIN", "ERROR"}
  IN  IF w.req[r].response_done THEN {[rc |-> "OK", world |-> w]}
      ELSE UNION {{[rc |-> e, world |-> x] : e \in ends(x)} : x \in heads}

(* Mutant: the backend is not watched for writing once it is connected.    *)
BodyReceived_NoWriter(w, c) ==
  LET r == w.conn[c].data
      v == KqueueDelEvent(w, c, "rev")
      u == v.req[r].upstream
      x == Handle(v, c, "wev", "handle_response")
      y == [v EXCEPT !.req[r].rb = IF @ = "parsed" THEN "ready" ELSE @]
  IN  IF u = Null
      THEN IF v.req[r].response_done THEN x
           ELSE EventAddTimer([KqueueAddEvent(x, c, "wev") EXCEPT
                                 !.req[r].sb = {"head"}], c, "wev")
      ELSE IF v.conn[u].connected THEN EventAddTimer(y, u, "wev")
      ELSE y

(* request_handle_body with the body read: no header sets content_length,  *)
(* so parse_request_body_identity always returns OK.                       *)
BodyReceived(w, c) ==
  LET r == w.conn[c].data
      v == KqueueDelEvent(w, c, "rev")
      u == v.req[r].upstream
      x == Handle(v, c, "wev", "handle_response")
      y == [v EXCEPT !.req[r].rb = IF @ = "parsed" THEN "ready" ELSE @]
  IN  IF u = Null
      THEN IF v.req[r].response_done THEN x
           ELSE EventAddTimer([KqueueAddEvent(x, c, "wev") EXCEPT
                                 !.req[r].sb = {"head"}], c, "wev")
      ELSE IF v.conn[u].connected
           THEN EventAddTimer(KqueueAddEvent(y, u, "wev"), u, "wev")
      ELSE y

RequestHandleBody(w, c) ==
  LET r == w.conn[c].data
  IN  IF ~w.conn[c].open THEN {w}
      ELSE IF r = Null THEN {Crash(w)}
      ELSE IF w.conn[c].rev.timedout THEN {ConstructErr(w, r)}
      ELSE BufferRecv(w, r, {BodyReceived(w, c)})

HttpParseHeaders(w, c) ==
  LET r == w.conn[c].data
      after(p) ==
        CASE p.rc = "OK" ->
               RequestHandleBody(Handle(p.world, c, "rev", "request_handle_body"), c)
          [] p.rc = "AGAIN" -> {IF p.world.conn[c].rev.timer_set THEN p.world
                                ELSE EventAddTimer(p.world, c, "rev")}
          [] p.rc = "ERROR" -> {HttpCloseRequest(p.world, r)}
  IN  IF w.conn[c].rev.timedout
      THEN {IF r = Null THEN Crash(w) ELSE ConstructErr(w, r)}
      ELSE IF ~w.conn[c].open THEN {w}
      ELSE IF r = Null THEN {Crash(w)}
      ELSE BufferRecv(w, r, UNION {after(p) : p \in ParseHeaders(w, r)})

(* request_process_uri.  HTTP/1.1 sets keep_alive, also after an error     *)
(* page made by try_connect_upstream.                                      *)
RequestProcessUri(w, r) ==
  LET versions(x) == {x, [x EXCEPT !.req[r].keep_alive = TRUE]}
      opened == IF FreeConns(w) = {} THEN {w}
                ELSE {[GetIdleConnection(w, u) EXCEPT !.conn[u].data = r,
                                                      !.req[r].upstream = u] :
                        u \in FreeConns(w)}
      connect(x) == GetServerByRound(x, r)
  IN  UNION { CASE route = "upstream" ->
                     IF w.req[r].upstream # Null THEN {Crash(w)}
                     ELSE Then(Then(opened, connect), versions)
                [] route = "file" -> versions([w EXCEPT !.req[r].resource = TRUE])
                [] route = "missing" -> {ConstructErr(w, r)} :
              route \in Routes }

(* ngx_http_process_request_line, for request lines that fit recv_buffer.  *)
ProcessRequestLine(w, c) ==
  LET r == w.conn[c].data
      headers(x) == HttpParseHeaders(x, c)
      after(p) ==
        CASE p.rc = "OK" ->
               Then(RequestProcessUri(
                      Handle(p.world, c, "rev", "http_parse_headers"), r), headers)
          [] p.rc = "AGAIN" -> {EventAddTimer(p.world, c, "rev")}
          [] p.rc = "ERROR" -> {ConstructErr(p.world, r)}
  IN  IF w.conn[c].rev.timedout
      THEN {IF r = Null THEN Crash(w) ELSE ConstructErr(w, r)}
      ELSE IF ~w.conn[c].open THEN {w}
      ELSE IF r = Null THEN {Crash(w)}
      ELSE BufferRecv(w, r, UNION {after(p) : p \in ParseRequestLine(w, r)})

(* http_init_request with create_http_request.  It does not look at fd.    *)
HttpInitRequest(w, c) ==
  IF w.conn[c].rev.timedout THEN {HttpCloseConnection(w, c)}
  ELSE ProcessRequestLine(
         Handle([w EXCEPT !.conn[c].data = c,
                          !.req[c] = [ZeroReq EXCEPT !.live = TRUE,
                                                     !.connection = c]],
                c, "rev", "ngx_http_process_request_line"), c)

-----------------------------------------------------------------------------
(* The call ev->handler(ev) of the event loop and of event_expire_timers.  *)
Call(w, c, k) ==
  CASE w.conn[c][k].handler = "http_init_request" -> HttpInitRequest(w, c)
    [] w.conn[c][k].handler = "ngx_http_process_request_line" ->
         ProcessRequestLine(w, c)
    [] w.conn[c][k].handler = "http_parse_headers" -> HttpParseHeaders(w, c)
    [] w.conn[c][k].handler = "request_handle_body" -> RequestHandleBody(w, c)
    [] w.conn[c][k].handler = "http_recv_upstream" -> HttpRecvUpstream(w, c)
    [] w.conn[c][k].handler = "handle_response" -> HandleResponse(w, c)
    [] w.conn[c][k].handler = "handle_response_file" -> HandleResponseFile(w, c)
    [] w.conn[c][k].handler = "process_connection_result_of_upstream" ->
         ProcessConnectionResult(w, c)
    [] w.conn[c][k].handler = "http_proxy_pass" -> HttpProxyPass(w, c)
=============================================================================
