---------------------------- MODULE Worker_proofs ----------------------------
(***************************************************************************)
(* Proofs about Worker, for any number of connection objects, any backends *)
(* and routes, any signals, and any order of the events of a batch.        *)
(*                                                                         *)
(* A callback is a composition of the operations of WorkerState on a       *)
(* world.  Each operation is shown to keep a world sound; a callback then  *)
(* ends in sound worlds only, and so does every step of the loop.          *)
(* The second part follows the phases of the connections of a worker whose *)
(* clients ask for files only.                                             *)
(***************************************************************************)
EXTENDS Worker, FiniteSetTheorems, WellFoundedInduction, TLAPS

ConnType == [inuse : BOOLEAN, open : BOOLEAN, data : Conns \cup {Null},
             connected : BOOLEAN, idle : BOOLEAN, rev : EventType, wev : EventType]
ReqType == [live : BOOLEAN, connection : Conns \cup {Null}, upstream : Conns \cup {Null},
            resource : BOOLEAN, response_done : BOOLEAN, keep_alive : BOOLEAN,
            tries : 0 .. Servers, cur : BOOLEAN,
            rb : {"empty", "parsed", "ready", "lost"}, sb : SUBSET {"head", "page", "data"}]

Worlds == [conn : [Conns -> ConnType], req : [Conns -> ReqType],
           tree : SUBSET Events, kq : SUBSET Events, dead : {"no", "crash", "exit"}]

(* What the proofs look at in a world: sets of events and of connections,  *)
(* and functions of them.                                                  *)
Ev(w, e) == w.conn[e[1]][e[2]]
Act(w) == {e \in Events : Ev(w, e).active}
TimerSet(w) == {e \in Events : Ev(w, e).timer_set}
Out(w) == {e \in Events : Ev(w, e).timedout}
Hdl(w) == [e \in Events |-> Ev(w, e).handler]
Used(w) == {c \in Conns : w.conn[c].inuse}
Opened(w) == {c \in Conns : w.conn[c].open}
Conned(w) == {c \in Conns : w.conn[c].connected}
Data(w) == [c \in Conns |-> w.conn[c].data]
LiveIn(w) == {r \in Conns : w.req[r].live}
ConnOf(w) == [r \in Conns |-> w.req[r].connection]
UpOf(w) == [r \in Conns |-> w.req[r].upstream]

Timers(w) ==
  /\ w.tree = TimerSet(w) \ Out(w) /\ Out(w) \subseteq TimerSet(w)
  /\ \A e \in w.tree : e[1] \in Used(w) /\ Hdl(w)[e] # Null

Watched(w) ==
  /\ w.kq = Act(w)
  /\ \A e \in Act(w) : e[1] \in Opened(w)
  /\ Opened(w) \subseteq Used(w) /\ Conned(w) \subseteq Opened(w)

Handlers(w) ==
  /\ \A c \in Conns : /\ Hdl(w)[<<c, "rev">>] \in ReadHandlers \cup {Null}
                      /\ Hdl(w)[<<c, "wev">>] \in WriteHandlers \cup {Null}
                      /\ Hdl(w)[<<c, "wev">>] = "http_proxy_pass" => Hdl(w)[<<c, "rev">>] # Null
  /\ \A c \in Used(w) : Hdl(w)[<<c, "rev">>] = "http_init_request" =>
       c \in Opened(w) /\ Hdl(w)[<<c, "wev">>] = Null

Links(w) ==
  /\ \A c \in Conns : Data(w)[c] # Null =>
       LET r == Data(w)[c]
       IN  /\ c \in Used(w) /\ r \in LiveIn(w) /\ (c = r \/ UpOf(w)[r] = c)
           /\ Data(w)[r] = r /\ ConnOf(w)[r] = r
           /\ c # r /\ c \in Conned(w) => Hdl(w)[<<c, "wev">>] # Null
           /\ Hdl(w)[<<c, "rev">>] # "http_init_request"
  /\ \A r \in Conns : Data(w)[r] = r =>
       /\ r \in Opened(w)
       /\ UpOf(w)[r] # Null => UpOf(w)[r] # r /\ Data(w)[UpOf(w)[r]] = r
       /\ Hdl(w)[<<r, "rev">>] # "http_recv_upstream"
       /\ Hdl(w)[<<r, "wev">>] \notin {"http_proxy_pass", "process_connection_result_of_upstream"}

Linked(w) == \A r \in LiveIn(w) : Data(w)[r] = r

-----------------------------------------------------------------------------
(***************************************************************************)
(* Types.                                                                  *)
(***************************************************************************)
LEMMA EventSet ==
  ASSUME NEW w \in Worlds, NEW c \in Conns, NEW k \in Kinds, NEW e \in EventType
  PROVE  [w EXCEPT !.conn[c][k] = e] \in Worlds
<1> DEFINE x == [w.conn[c] EXCEPT ![k] = e]
           f == [w.conn EXCEPT ![c] = x]
<1>1. w.conn \in [Conns -> ConnType] /\ w.conn[c] \in ConnType
  BY DEF Worlds
<1>2. x \in ConnType
  BY <1>1 DEF ConnType, Kinds
<1>3. f \in [Conns -> ConnType]
  <2> HIDE DEF x
  <2> QED BY <1>1, <1>2
<1>4. [w EXCEPT !.conn[c][k] = e] = [w EXCEPT !.conn = f]
  BY <1>1 DEF Worlds
<1> HIDE DEF f
<1>5. [w EXCEPT !.conn = f] \in Worlds
  BY <1>3 DEF Worlds
<1> QED BY <1>4, <1>5

LEMMA ConnSet ==
  ASSUME NEW w \in Worlds, NEW c \in Conns, NEW x \in ConnType
  PROVE  [w EXCEPT !.conn[c] = x] \in Worlds
<1> DEFINE f == [w.conn EXCEPT ![c] = x]
<1>1. w.conn \in [Conns -> ConnType]
  BY DEF Worlds
<1>2. f \in [Conns -> ConnType]
  BY <1>1
<1>3. [w EXCEPT !.conn[c] = x] = [w EXCEPT !.conn = f]
  BY <1>1 DEF Worlds
<1> HIDE DEF f
<1>4. [w EXCEPT !.conn = f] \in Worlds
  BY <1>2 DEF Worlds
<1> QED BY <1>3, <1>4

LEMMA ReqSet ==
  ASSUME NEW w \in Worlds, NEW r \in Conns, NEW q \in ReqType
  PROVE  [w EXCEPT !.req[r] = q] \in Worlds
<1> DEFINE f == [w.req EXCEPT ![r] = q]
<1>1. w.req \in [Conns -> ReqType]
  BY DEF Worlds
<1>2. f \in [Conns -> ReqType]
  BY <1>1
<1>3. [w EXCEPT !.req[r] = q] = [w EXCEPT !.req = f]
  BY <1>1 DEF Worlds
<1> HIDE DEF f
<1>4. [w EXCEPT !.req = f] \in Worlds
  BY <1>2 DEF Worlds
<1> QED BY <1>3, <1>4

LEMMA SetsSet ==
  ASSUME NEW w \in Worlds, NEW t \in SUBSET Events
  PROVE  [w EXCEPT !.tree = t] \in Worlds /\ [w EXCEPT !.kq = t] \in Worlds
BY DEF Worlds

LEMMA DeadSet ==
  ASSUME NEW w \in Worlds, NEW d \in {"no", "crash", "exit"}
  PROVE  [w EXCEPT !.dead = d] \in Worlds
BY DEF Worlds

LEMMA EvType ==
  ASSUME NEW w \in Worlds, NEW c \in Conns, NEW k \in Kinds
  PROVE  w.conn[c][k] \in EventType
BY DEF Worlds, ConnType, Kinds
SameConn(w, v) ==
  Used(v) = Used(w) /\ Opened(v) = Opened(w) /\ Conned(v) = Conned(w) /\ Data(v) = Data(w)
SameReq(w, v) == LiveIn(v) = LiveIn(w) /\ ConnOf(v) = ConnOf(w) /\ UpOf(v) = UpOf(w)
SameSets(w, v) == v.tree = w.tree /\ v.kq = w.kq

(* One event_t is replaced.                                                *)
EventIs(w, v, c, k, e) ==
  /\ v \in Worlds /\ SameConn(w, v) /\ SameReq(w, v) /\ SameSets(w, v)
  /\ v.conn[c][k] = e
  /\ \A x \in Conns, j \in Kinds : <<x, j>> # <<c, k>> => v.conn[x][j] = w.conn[x][j]

LEMMA EventIsSet ==
  ASSUME NEW w \in Worlds, NEW c \in Conns, NEW k \in Kinds, NEW e \in EventType
  PROVE  EventIs(w, [w EXCEPT !.conn[c][k] = e], c, k, e)
<1> DEFINE v == [w EXCEPT !.conn[c][k] = e]
<1>1. v \in Worlds
  BY EventSet
<1>2. v.tree = w.tree /\ v.kq = w.kq /\ v.req = w.req
  BY DEF Worlds
<1>3. /\ v.conn[c][k] = e
      /\ \A x \in Conns, j \in Kinds : <<x, j>> # <<c, k>> => v.conn[x][j] = w.conn[x][j]
  BY DEF Worlds, ConnType, Kinds
<1>4. \A x \in Conns : /\ v.conn[x].inuse = w.conn[x].inuse /\ v.conn[x].open = w.conn[x].open
                       /\ v.conn[x].connected = w.conn[x].connected
                       /\ v.conn[x].data = w.conn[x].data
  BY DEF Worlds, ConnType, Kinds
<1> HIDE DEF v
<1>5. SameConn(w, v)
  BY <1>4 DEF SameConn, Used, Opened, Conned, Data
<1>6. SameReq(w, v) /\ SameSets(w, v)
  BY <1>2 DEF SameReq, SameSets, LiveIn, ConnOf, UpOf
<1> SUFFICES EventIs(w, v, c, k, e)
  BY DEF v
<1> QED BY <1>1, <1>3, <1>5, <1>6 DEF EventIs

(* What is kept of the events, whatever becomes of one field.              *)
SameAct(w, v) == Act(v) = Act(w)
SameTimers(w, v) == TimerSet(v) = TimerSet(w) /\ Out(v) = Out(w)
SameHdl(w, v) == Hdl(v) = Hdl(w)

Same(w, v) == v \in Worlds /\ SameConn(w, v) /\ SameReq(w, v) /\ SameSets(w, v)

ActiveIs(w, v, e, b) ==
  /\ Same(w, v) /\ SameTimers(w, v) /\ SameHdl(w, v)
  /\ Act(v) = IF b THEN Act(w) \cup {e} ELSE Act(w) \ {e}
TimerSetIs(w, v, e, b) ==
  /\ Same(w, v) /\ SameAct(w, v) /\ SameHdl(w, v) /\ Out(v) = Out(w)
  /\ TimerSet(v) = IF b THEN TimerSet(w) \cup {e} ELSE TimerSet(w) \ {e}
TimedoutIs(w, v, e, b) ==
  /\ Same(w, v) /\ SameAct(w, v) /\ SameHdl(w, v) /\ TimerSet(v) = TimerSet(w)
  /\ Out(v) = IF b THEN Out(w) \cup {e} ELSE Out(w) \ {e}
HandlerIs(w, v, e, h) ==
  /\ Same(w, v) /\ SameAct(w, v) /\ SameTimers(w, v)
  /\ Hdl(v)[e] = h /\ \A x \in Events : x # e => Hdl(v)[x] = Hdl(w)[x]

LEMMA ActiveSet ==
  ASSUME NEW w \in Worlds, NEW c \in Conns, NEW k \in Kinds, NEW b \in BOOLEAN
  PROVE  ActiveIs(w, [w EXCEPT !.conn[c][k].active = b], <<c, k>>, b)
<1> DEFINE d == Ev(w, <<c, k>>)
           e == [d EXCEPT !.active = b]
           v == [w EXCEPT !.conn[c][k] = e]
<1>1. d \in EventType /\ d = w.conn[c][k]
  BY EvType DEF Ev
<1> HIDE DEF d
<1>2. e \in EventType /\ e.active = b
  BY <1>1 DEF EventType
<1>3. e.timer_set = d.timer_set /\ e.timedout = d.timedout /\ e.handler = d.handler
  BY <1>1 DEF EventType
<1> HIDE DEF e
<1>4. EventIs(w, v, c, k, e)
  BY <1>2, EventIsSet
<1> HIDE DEF v
<1>5. Ev(v, <<c, k>>) = e /\ Ev(w, <<c, k>>) = d
  BY <1>1, <1>4 DEF EventIs, Ev
<1>6. \A x \in Events : x # <<c, k>> => Ev(v, x) = Ev(w, x)
  BY <1>4 DEF EventIs, Ev, Events
<1>7. <<c, k>> \in Events
  BY DEF Events
<1>8. ActiveIs(w, v, <<c, k>>, b)
  <2>1. Same(w, v)
    BY <1>4 DEF EventIs, Same
  <2>2. Act(v) = IF b THEN Act(w) \cup {<<c, k>>} ELSE Act(w) \ {<<c, k>>}
    BY <1>2, <1>5, <1>6, <1>7 DEF Act
  <2>3. TimerSet(v) = TimerSet(w)
    BY <1>3, <1>5, <1>6 DEF TimerSet
  <2>4. Out(v) = Out(w)
    BY <1>3, <1>5, <1>6 DEF Out
  <2>5. Hdl(v) = Hdl(w)
    BY <1>3, <1>5, <1>6 DEF Hdl
  <2> QED BY <2>1, <2>2, <2>3, <2>4, <2>5 DEF ActiveIs, SameAct, SameTimers, SameHdl
<1>9. v = [w EXCEPT !.conn[c][k].active = b]
  BY DEF v, e, d, Ev, Worlds, ConnType, Kinds
<1> QED BY <1>8, <1>9

LEMMA TimerSetSet ==
  ASSUME NEW w \in Worlds, NEW c \in Conns, NEW k \in Kinds, NEW b \in BOOLEAN
  PROVE  TimerSetIs(w, [w EXCEPT !.conn[c][k].timer_set = b], <<c, k>>, b)
<1> DEFINE d == Ev(w, <<c, k>>)
           e == [d EXCEPT !.timer_set = b]
           v == [w EXCEPT !.conn[c][k] = e]
<1>1. d \in EventType /\ d = w.conn[c][k]
  BY EvType DEF Ev
<1> HIDE DEF d
<1>2. e \in EventType /\ e.timer_set = b
  BY <1>1 DEF EventType
<1>3. e.active = d.active /\ e.timedout = d.timedout /\ e.handler = d.handler
  BY <1>1 DEF EventType
<1> HIDE DEF e
<1>4. EventIs(w, v, c, k, e)
  BY <1>2, EventIsSet
<1> HIDE DEF v
<1>5. Ev(v, <<c, k>>) = e /\ Ev(w, <<c, k>>) = d
  BY <1>1, <1>4 DEF EventIs, Ev
<1>6. \A x \in Events : x # <<c, k>> => Ev(v, x) = Ev(w, x)
  BY <1>4 DEF EventIs, Ev, Events
<1>7. <<c, k>> \in Events
  BY DEF Events
<1>8. TimerSetIs(w, v, <<c, k>>, b)
  <2>1. Same(w, v)
    BY <1>4 DEF EventIs, Same
  <2>2. Act(v) = Act(w)
    BY <1>3, <1>5, <1>6 DEF Act
  <2>3. TimerSet(v) = IF b THEN TimerSet(w) \cup {<<c, k>>} ELSE TimerSet(w) \ {<<c, k>>}
    BY <1>2, <1>5, <1>6, <1>7 DEF TimerSet
  <2>4. Out(v) = Out(w)
    BY <1>3, <1>5, <1>6 DEF Out
  <2>5. Hdl(v) = Hdl(w)
    BY <1>3, <1>5, <1>6 DEF Hdl
  <2> QED BY <2>1, <2>2, <2>3, <2>4, <2>5 DEF TimerSetIs, SameAct, SameTimers, SameHdl
<1>9. v = [w EXCEPT !.conn[c][k].timer_set = b]
  BY DEF v, e, d, Ev, Worlds, ConnType, Kinds
<1> QED BY <1>8, <1>9

LEMMA TimedoutSet ==
  ASSUME NEW w \in Worlds, NEW c \in Conns, NEW k \in Kinds, NEW b \in BOOLEAN
  PROVE  TimedoutIs(w, [w EXCEPT !.conn[c][k].timedout = b], <<c, k>>, b)
<1> DEFINE d == Ev(w, <<c, k>>)
           e == [d EXCEPT !.timedout = b]
           v == [w EXCEPT !.conn[c][k] = e]
<1>1. d \in EventType /\ d = w.conn[c][k]
  BY EvType DEF Ev
<1> HIDE DEF d
<1>2. e \in EventType /\ e.timedout = b
  BY <1>1 DEF EventType
<1>3. e.active = d.active /\ e.timer_set = d.timer_set /\ e.handler = d.handler
  BY <1>1 DEF EventType
<1> HIDE DEF e
<1>4. EventIs(w, v, c, k, e)
  BY <1>2, EventIsSet
<1> HIDE DEF v
<1>5. Ev(v, <<c, k>>) = e /\ Ev(w, <<c, k>>) = d
  BY <1>1, <1>4 DEF EventIs, Ev
<1>6. \A x \in Events : x # <<c, k>> => Ev(v, x) = Ev(w, x)
  BY <1>4 DEF EventIs, Ev, Events
<1>7. <<c, k>> \in Events
  BY DEF Events
<1>8. TimedoutIs(w, v, <<c, k>>, b)
  <2>1. Same(w, v)
    BY <1>4 DEF EventIs, Same
  <2>2. Act(v) = Act(w)
    BY <1>3, <1>5, <1>6 DEF Act
  <2>3. TimerSet(v) = TimerSet(w)
    BY <1>3, <1>5, <1>6 DEF TimerSet
  <2>4. Out(v) = IF b THEN Out(w) \cup {<<c, k>>} ELSE Out(w) \ {<<c, k>>}
    BY <1>2, <1>5, <1>6, <1>7 DEF Out
  <2>5. Hdl(v) = Hdl(w)
    BY <1>3, <1>5, <1>6 DEF Hdl
  <2> QED BY <2>1, <2>2, <2>3, <2>4, <2>5 DEF TimedoutIs, SameAct, SameTimers, SameHdl
<1>9. v = [w EXCEPT !.conn[c][k].timedout = b]
  BY DEF v, e, d, Ev, Worlds, ConnType, Kinds
<1> QED BY <1>8, <1>9

LEMMA HandlerSet ==
  ASSUME NEW w \in Worlds, NEW c \in Conns, NEW k \in Kinds, NEW b \in ReadHandlers \cup WriteHandlers
  PROVE  HandlerIs(w, [w EXCEPT !.conn[c][k].handler = b], <<c, k>>, b)
<1> DEFINE d == Ev(w, <<c, k>>)
           e == [d EXCEPT !.handler = b]
           v == [w EXCEPT !.conn[c][k] = e]
<1>1. d \in EventType /\ d = w.conn[c][k]
  BY EvType DEF Ev
<1> HIDE DEF d
<1>2. e \in EventType /\ e.handler = b
  BY <1>1 DEF EventType
<1>3. e.active = d.active /\ e.timer_set = d.timer_set /\ e.timedout = d.timedout
  BY <1>1 DEF EventType
<1> HIDE DEF e
<1>4. EventIs(w, v, c, k, e)
  BY <1>2, EventIsSet
<1> HIDE DEF v
<1>5. Ev(v, <<c, k>>) = e /\ Ev(w, <<c, k>>) = d
  BY <1>1, <1>4 DEF EventIs, Ev
<1>6. \A x \in Events : x # <<c, k>> => Ev(v, x) = Ev(w, x)
  BY <1>4 DEF EventIs, Ev, Events
<1>7. <<c, k>> \in Events
  BY DEF Events
<1>8. HandlerIs(w, v, <<c, k>>, b)
  <2>1. Same(w, v)
    BY <1>4 DEF EventIs, Same
  <2>2. Act(v) = Act(w)
    BY <1>3, <1>5, <1>6 DEF Act
  <2>3. TimerSet(v) = TimerSet(w)
    BY <1>3, <1>5, <1>6 DEF TimerSet
  <2>4. Out(v) = Out(w)
    BY <1>3, <1>5, <1>6 DEF Out
  <2>5. Hdl(v)[<<c, k>>] = b /\ \A x \in Events : x # <<c, k>> => Hdl(v)[x] = Hdl(w)[x]
    BY <1>2, <1>5, <1>6, <1>7 DEF Hdl
  <2> QED BY <2>1, <2>2, <2>3, <2>4, <2>5 DEF HandlerIs, SameAct, SameTimers, SameHdl
<1>9. v = [w EXCEPT !.conn[c][k].handler = b]
  BY DEF v, e, d, Ev, Worlds, ConnType, Kinds
<1> QED BY <1>8, <1>9

(* One connection_t is replaced.                                           *)
SameEv(w, v) == SameAct(w, v) /\ SameTimers(w, v) /\ SameHdl(w, v)

ConnIs(w, v, c, x) ==
  /\ v \in Worlds /\ SameReq(w, v) /\ SameSets(w, v)
  /\ v.conn[c] = x /\ \A d \in Conns : d # c => v.conn[d] = w.conn[d]

LEMMA ConnIsSet ==
  ASSUME NEW w \in Worlds, NEW c \in Conns, NEW x \in ConnType
  PROVE  ConnIs(w, [w EXCEPT !.conn[c] = x], c, x)
<1> DEFINE v == [w EXCEPT !.conn[c] = x]
<1>1. v \in Worlds
  BY ConnSet
<1>2. v.tree = w.tree /\ v.kq = w.kq /\ v.req = w.req
  BY DEF Worlds
<1>3. v.conn[c] = x /\ \A d \in Conns : d # c => v.conn[d] = w.conn[d]
  BY DEF Worlds
<1> HIDE DEF v
<1>4. SameReq(w, v) /\ SameSets(w, v)
  BY <1>2 DEF SameReq, SameSets, LiveIn, ConnOf, UpOf
<1> SUFFICES ConnIs(w, v, c, x)
  BY DEF v
<1> QED BY <1>1, <1>3, <1>4 DEF ConnIs

OpenIs(w, v, c, b) ==
  /\ v \in Worlds /\ SameEv(w, v) /\ SameReq(w, v) /\ SameSets(w, v)
  /\ Used(v) = Used(w) /\ Conned(v) = Conned(w) /\ Data(v) = Data(w)
  /\ Opened(v) = IF b THEN Opened(w) \cup {c} ELSE Opened(w) \ {c}
ConnedIs(w, v, c, b) ==
  /\ v \in Worlds /\ SameEv(w, v) /\ SameReq(w, v) /\ SameSets(w, v)
  /\ Used(v) = Used(w) /\ Opened(v) = Opened(w) /\ Data(v) = Data(w)
  /\ Conned(v) = IF b THEN Conned(w) \cup {c} ELSE Conned(w) \ {c}
DataIs(w, v, c, r) ==
  /\ v \in Worlds /\ SameEv(w, v) /\ SameReq(w, v) /\ SameSets(w, v)
  /\ Used(v) = Used(w) /\ Opened(v) = Opened(w) /\ Conned(v) = Conned(w)
  /\ Data(v)[c] = r /\ \A d \in Conns : d # c => Data(v)[d] = Data(w)[d]
UsedIs(w, v, c, b) ==
  /\ v \in Worlds /\ SameEv(w, v) /\ SameReq(w, v) /\ SameSets(w, v)
  /\ Opened(v) = Opened(w) /\ Conned(v) = Conned(w) /\ Data(v) = Data(w)
  /\ Used(v) = IF b THEN Used(w) \cup {c} ELSE Used(w) \ {c}
IdleIs(w, v, c, b) ==
  v \in Worlds /\ SameEv(w, v) /\ SameReq(w, v) /\ SameSets(w, v) /\ SameConn(w, v)

LEMMA UsedSet ==
  ASSUME NEW w \in Worlds, NEW c \in Conns, NEW b \in BOOLEAN
  PROVE  UsedIs(w, [w EXCEPT !.conn[c].inuse = b], c, b)
<1> DEFINE d == w.conn[c]
           x == [d EXCEPT !.inuse = b]
           v == [w EXCEPT !.conn[c] = x]
<1>1. d \in ConnType /\ d = w.conn[c]
  BY DEF Worlds
<1> HIDE DEF d
<1>2. x \in ConnType /\ x.inuse = b
  BY <1>1 DEF ConnType
<1>3. x.open = d.open /\ x.connected = d.connected /\ x.data = d.data /\ x.idle = d.idle /\ x.rev = d.rev /\ x.wev = d.wev
  BY <1>1 DEF ConnType
<1> HIDE DEF x
<1>4. ConnIs(w, v, c, x)
  BY <1>2, ConnIsSet
<1> HIDE DEF v
<1>5. v.conn[c] = x /\ \A y \in Conns : y # c => v.conn[y] = w.conn[y]
  BY <1>4 DEF ConnIs
<1>6. \A e \in Events : Ev(v, e) = Ev(w, e)
  <2> TAKE e \in Events
  <2>1. e[1] \in Conns /\ e[2] \in {"rev", "wev"}
    BY DEF Events, Kinds
  <2>2. CASE e[1] = c
    <3>1. CASE e[2] = "rev"
      BY <1>1, <1>3, <1>5, <2>2, <3>1 DEF Ev
    <3>2. CASE e[2] = "wev"
      BY <1>1, <1>3, <1>5, <2>2, <3>2 DEF Ev
    <3> QED BY <2>1, <3>1, <3>2
  <2> QED BY <1>5, <2>1, <2>2 DEF Ev
<1>7. SameEv(w, v)
  BY <1>6 DEF SameEv, SameAct, SameTimers, SameHdl, Act, TimerSet, Out, Hdl
<1>8. Used(v) = IF b THEN Used(w) \cup {c} ELSE Used(w) \ {c}
  BY <1>2, <1>5 DEF Used
<1>9. Opened(v) = Opened(w)
  BY <1>1, <1>3, <1>5 DEF Opened
<1>10. Conned(v) = Conned(w)
  BY <1>1, <1>3, <1>5 DEF Conned
<1>11. Data(v) = Data(w)
  BY <1>1, <1>3, <1>5 DEF Data
<1>12. UsedIs(w, v, c, b)
  BY <1>4, <1>7, <1>8, <1>9, <1>10, <1>11 DEF UsedIs, ConnIs, SameConn
<1>13. v = [w EXCEPT !.conn[c].inuse = b]
  BY DEF v, x, d, Worlds, ConnType
<1> QED BY <1>12, <1>13

LEMMA OpenSet ==
  ASSUME NEW w \in Worlds, NEW c \in Conns, NEW b \in BOOLEAN
  PROVE  OpenIs(w, [w EXCEPT !.conn[c].open = b], c, b)
<1> DEFINE d == w.conn[c]
           x == [d EXCEPT !.open = b]
           v == [w EXCEPT !.conn[c] = x]
<1>1. d \in ConnType /\ d = w.conn[c]
  BY DEF Worlds
<1> HIDE DEF d
<1>2. x \in ConnType /\ x.open = b
  BY <1>1 DEF ConnType
<1>3. x.inuse = d.inuse /\ x.connected = d.connected /\ x.data = d.data /\ x.idle = d.idle /\ x.rev = d.rev /\ x.wev = d.wev
  BY <1>1 DEF ConnType
<1> HIDE DEF x
<1>4. ConnIs(w, v, c, x)
  BY <1>2, ConnIsSet
<1> HIDE DEF v
<1>5. v.conn[c] = x /\ \A y \in Conns : y # c => v.conn[y] = w.conn[y]
  BY <1>4 DEF ConnIs
<1>6. \A e \in Events : Ev(v, e) = Ev(w, e)
  <2> TAKE e \in Events
  <2>1. e[1] \in Conns /\ e[2] \in {"rev", "wev"}
    BY DEF Events, Kinds
  <2>2. CASE e[1] = c
    <3>1. CASE e[2] = "rev"
      BY <1>1, <1>3, <1>5, <2>2, <3>1 DEF Ev
    <3>2. CASE e[2] = "wev"
      BY <1>1, <1>3, <1>5, <2>2, <3>2 DEF Ev
    <3> QED BY <2>1, <3>1, <3>2
  <2> QED BY <1>5, <2>1, <2>2 DEF Ev
<1>7. SameEv(w, v)
  BY <1>6 DEF SameEv, SameAct, SameTimers, SameHdl, Act, TimerSet, Out, Hdl
<1>8. Used(v) = Used(w)
  BY <1>1, <1>3, <1>5 DEF Used
<1>9. Opened(v) = IF b THEN Opened(w) \cup {c} ELSE Opened(w) \ {c}
  BY <1>2, <1>5 DEF Opened
<1>10. Conned(v) = Conned(w)
  BY <1>1, <1>3, <1>5 DEF Conned
<1>11. Data(v) = Data(w)
  BY <1>1, <1>3, <1>5 DEF Data
<1>12. OpenIs(w, v, c, b)
  BY <1>4, <1>7, <1>8, <1>9, <1>10, <1>11 DEF OpenIs, ConnIs, SameConn
<1>13. v = [w EXCEPT !.conn[c].open = b]
  BY DEF v, x, d, Worlds, ConnType
<1> QED BY <1>12, <1>13

LEMMA ConnedSet ==
  ASSUME NEW w \in Worlds, NEW c \in Conns, NEW b \in BOOLEAN
  PROVE  ConnedIs(w, [w EXCEPT !.conn[c].connected = b], c, b)
<1> DEFINE d == w.conn[c]
           x == [d EXCEPT !.connected = b]
           v == [w EXCEPT !.conn[c] = x]
<1>1. d \in ConnType /\ d = w.conn[c]
  BY DEF Worlds
<1> HIDE DEF d
<1>2. x \in ConnType /\ x.connected = b
  BY <1>1 DEF ConnType
<1>3. x.inuse = d.inuse /\ x.open = d.open /\ x.data = d.data /\ x.idle = d.idle /\ x.rev = d.rev /\ x.wev = d.wev
  BY <1>1 DEF ConnType
<1> HIDE DEF x
<1>4. ConnIs(w, v, c, x)
  BY <1>2, ConnIsSet
<1> HIDE DEF v
<1>5. v.conn[c] = x /\ \A y \in Conns : y # c => v.conn[y] = w.conn[y]
  BY <1>4 DEF ConnIs
<1>6. \A e \in Events : Ev(v, e) = Ev(w, e)
  <2> TAKE e \in Events
  <2>1. e[1] \in Conns /\ e[2] \in {"rev", "wev"}
    BY DEF Events, Kinds
  <2>2. CASE e[1] = c
    <3>1. CASE e[2] = "rev"
      BY <1>1, <1>3, <1>5, <2>2, <3>1 DEF Ev
    <3>2. CASE e[2] = "wev"
      BY <1>1, <1>3, <1>5, <2>2, <3>2 DEF Ev
    <3> QED BY <2>1, <3>1, <3>2
  <2> QED BY <1>5, <2>1, <2>2 DEF Ev
<1>7. SameEv(w, v)
  BY <1>6 DEF SameEv, SameAct, SameTimers, SameHdl, Act, TimerSet, Out, Hdl
<1>8. Used(v) = Used(w)
  BY <1>1, <1>3, <1>5 DEF Used
<1>9. Opened(v) = Opened(w)
  BY <1>1, <1>3, <1>5 DEF Opened
<1>10. Conned(v) = IF b THEN Conned(w) \cup {c} ELSE Conned(w) \ {c}
  BY <1>2, <1>5 DEF Conned
<1>11. Data(v) = Data(w)
  BY <1>1, <1>3, <1>5 DEF Data
<1>12. ConnedIs(w, v, c, b)
  BY <1>4, <1>7, <1>8, <1>9, <1>10, <1>11 DEF ConnedIs, ConnIs, SameConn
<1>13. v = [w EXCEPT !.conn[c].connected = b]
  BY DEF v, x, d, Worlds, ConnType
<1> QED BY <1>12, <1>13

LEMMA DataSet ==
  ASSUME NEW w \in Worlds, NEW c \in Conns, NEW b \in Conns \cup {Null}
  PROVE  DataIs(w, [w EXCEPT !.conn[c].data = b], c, b)
<1> DEFINE d == w.conn[c]
           x == [d EXCEPT !.data = b]
           v == [w EXCEPT !.conn[c] = x]
<1>1. d \in ConnType /\ d = w.conn[c]
  BY DEF Worlds
<1> HIDE DEF d
<1>2. x \in ConnType /\ x.data = b
  BY <1>1 DEF ConnType
<1>3. x.inuse = d.inuse /\ x.open = d.open /\ x.connected = d.connected /\ x.idle = d.idle /\ x.rev = d.rev /\ x.wev = d.wev
  BY <1>1 DEF ConnType
<1> HIDE DEF x
<1>4. ConnIs(w, v, c, x)
  BY <1>2, ConnIsSet
<1> HIDE DEF v
<1>5. v.conn[c] = x /\ \A y \in Conns : y # c => v.conn[y] = w.conn[y]
  BY <1>4 DEF ConnIs
<1>6. \A e \in Events : Ev(v, e) = Ev(w, e)
  <2> TAKE e \in Events
  <2>1. e[1] \in Conns /\ e[2] \in {"rev", "wev"}
    BY DEF Events, Kinds
  <2>2. CASE e[1] = c
    <3>1. CASE e[2] = "rev"
      BY <1>1, <1>3, <1>5, <2>2, <3>1 DEF Ev
    <3>2. CASE e[2] = "wev"
      BY <1>1, <1>3, <1>5, <2>2, <3>2 DEF Ev
    <3> QED BY <2>1, <3>1, <3>2
  <2> QED BY <1>5, <2>1, <2>2 DEF Ev
<1>7. SameEv(w, v)
  BY <1>6 DEF SameEv, SameAct, SameTimers, SameHdl, Act, TimerSet, Out, Hdl
<1>8. Used(v) = Used(w)
  BY <1>1, <1>3, <1>5 DEF Used
<1>9. Opened(v) = Opened(w)
  BY <1>1, <1>3, <1>5 DEF Opened
<1>10. Conned(v) = Conned(w)
  BY <1>1, <1>3, <1>5 DEF Conned
<1>11. Data(v)[c] = b /\ \A y \in Conns : y # c => Data(v)[y] = Data(w)[y]
  BY <1>2, <1>5 DEF Data
<1>12. DataIs(w, v, c, b)
  BY <1>4, <1>7, <1>8, <1>9, <1>10, <1>11 DEF DataIs, ConnIs, SameConn
<1>13. v = [w EXCEPT !.conn[c].data = b]
  BY DEF v, x, d, Worlds, ConnType
<1> QED BY <1>12, <1>13

LEMMA IdleSet ==
  ASSUME NEW w \in Worlds, NEW c \in Conns, NEW b \in BOOLEAN
  PROVE  IdleIs(w, [w EXCEPT !.conn[c].idle = b], c, b)
<1> DEFINE d == w.conn[c]
           x == [d EXCEPT !.idle = b]
           v == [w EXCEPT !.conn[c] = x]
<1>1. d \in ConnType /\ d = w.conn[c]
  BY DEF Worlds
<1> HIDE DEF d
<1>2. x \in ConnType /\ x.idle = b
  BY <1>1 DEF ConnType
<1>3. x.inuse = d.inuse /\ x.open = d.open /\ x.connected = d.connected /\ x.data = d.data /\ x.rev = d.rev /\ x.wev = d.wev
  BY <1>1 DEF ConnType
<1> HIDE DEF x
<1>4. ConnIs(w, v, c, x)
  BY <1>2, ConnIsSet
<1> HIDE DEF v
<1>5. v.conn[c] = x /\ \A y \in Conns : y # c => v.conn[y] = w.conn[y]
  BY <1>4 DEF ConnIs
<1>6. \A e \in Events : Ev(v, e) = Ev(w, e)
  <2> TAKE e \in Events
  <2>1. e[1] \in Conns /\ e[2] \in {"rev", "wev"}
    BY DEF Events, Kinds
  <2>2. CASE e[1] = c
    <3>1. CASE e[2] = "rev"
      BY <1>1, <1>3, <1>5, <2>2, <3>1 DEF Ev
    <3>2. CASE e[2] = "wev"
      BY <1>1, <1>3, <1>5, <2>2, <3>2 DEF Ev
    <3> QED BY <2>1, <3>1, <3>2
  <2> QED BY <1>5, <2>1, <2>2 DEF Ev
<1>7. SameEv(w, v)
  BY <1>6 DEF SameEv, SameAct, SameTimers, SameHdl, Act, TimerSet, Out, Hdl
<1>8. Used(v) = Used(w)
  BY <1>1, <1>3, <1>5 DEF Used
<1>9. Opened(v) = Opened(w)
  BY <1>1, <1>3, <1>5 DEF Opened
<1>10. Conned(v) = Conned(w)
  BY <1>1, <1>3, <1>5 DEF Conned
<1>11. Data(v) = Data(w)
  BY <1>1, <1>3, <1>5 DEF Data
<1>12. IdleIs(w, v, c, b)
  BY <1>4, <1>7, <1>8, <1>9, <1>10, <1>11 DEF IdleIs, ConnIs, SameConn
<1>13. v = [w EXCEPT !.conn[c].idle = b]
  BY DEF v, x, d, Worlds, ConnType
<1> QED BY <1>12, <1>13

(* One http_request_t is replaced.                                         *)
ReqIs(w, v, r, q) ==
  /\ v \in Worlds /\ SameEv(w, v) /\ SameConn(w, v) /\ SameSets(w, v)
  /\ v.req[r] = q /\ \A x \in Conns : x # r => v.req[x] = w.req[x]
  /\ LiveIn(v) = IF q.live THEN LiveIn(w) \cup {r} ELSE LiveIn(w) \ {r}
  /\ ConnOf(v)[r] = q.connection /\ UpOf(v)[r] = q.upstream
  /\ \A x \in Conns : x # r => ConnOf(v)[x] = ConnOf(w)[x] /\ UpOf(v)[x] = UpOf(w)[x]

LEMMA ReqIsSet ==
  ASSUME NEW w \in Worlds, NEW r \in Conns, NEW q \in ReqType
  PROVE  ReqIs(w, [w EXCEPT !.req[r] = q], r, q)
<1> DEFINE v == [w EXCEPT !.req[r] = q]
<1>1. v \in Worlds
  BY ReqSet
<1>2. v.tree = w.tree /\ v.kq = w.kq /\ v.conn = w.conn
  BY DEF Worlds
<1>3. v.req[r] = q /\ \A x \in Conns : x # r => v.req[x] = w.req[x]
  BY DEF Worlds
<1> HIDE DEF v
<1>4. SameConn(w, v) /\ SameSets(w, v)
  BY <1>2 DEF SameConn, SameSets, Used, Opened, Conned, Data
<1>5. SameEv(w, v)
  BY <1>2 DEF SameEv, SameAct, SameTimers, SameHdl, Act, TimerSet, Out, Hdl, Ev
<1>6. LiveIn(v) = IF q.live THEN LiveIn(w) \cup {r} ELSE LiveIn(w) \ {r}
  BY <1>3 DEF LiveIn
<1>7. /\ ConnOf(v)[r] = q.connection /\ UpOf(v)[r] = q.upstream
      /\ \A x \in Conns : x # r => ConnOf(v)[x] = ConnOf(w)[x] /\ UpOf(v)[x] = UpOf(w)[x]
  BY <1>3 DEF ConnOf, UpOf
<1> SUFFICES ReqIs(w, v, r, q)
  BY DEF v
<1> QED BY <1>1, <1>3, <1>4, <1>5, <1>6, <1>7 DEF ReqIs

-----------------------------------------------------------------------------
(***************************************************************************)
(* Sound worlds, and what a callback keeps.                                *)
(***************************************************************************)
Sound(w) == w \in Worlds /\ Timers(w) /\ Watched(w) /\ Handlers(w) /\ Links(w)

(* Only timers and registrations change.                                   *)
Frame(w, v) == SameConn(w, v) /\ SameReq(w, v) /\ SameHdl(w, v)

(* A connection that waits for its first request is not closed by the      *)
(* callbacks of others, none is made one, and no request is cut loose.     *)
Keep(w, v) ==
  /\ \A c \in Conns : Hdl(v)[<<c, "rev">>] = "http_init_request" =>
       /\ Hdl(w)[<<c, "rev">>] = "http_init_request"
       /\ c \in Used(w) => c \in Used(v)
  /\ \A r \in LiveIn(v) : Data(v)[r] # r => r \in LiveIn(w) /\ Data(w)[r] # r

(* What may still be relied on, as long as no connection is closed.        *)
Grow(w, v) ==
  /\ Used(w) \subseteq Used(v) /\ Opened(w) \subseteq Opened(v)
  /\ \A c \in Used(w) : Data(v)[c] = Data(w)[c]
  /\ \A e \in Events : e[1] \in Used(w) /\ Hdl(w)[e] # Null => Hdl(v)[e] # Null

LEMMA KeepTrans ==
  ASSUME NEW u, NEW v, NEW w, Keep(u, v), Keep(v, w)
  PROVE  Keep(u, w)
BY DEF Keep

LEMMA GrowTrans ==
  ASSUME NEW u, NEW v, NEW w, Grow(u, v), Grow(v, w)
  PROVE  Grow(u, w)
BY DEF Grow

LEMMA FrameTrans ==
  ASSUME NEW u, NEW v, NEW w, Frame(u, v), Frame(v, w)
  PROVE  Frame(u, w)
BY DEF Frame, SameConn, SameReq, SameHdl

LEMMA FrameKeeps ==
  ASSUME NEW w, NEW v, Frame(w, v)
  PROVE  Keep(w, v) /\ Grow(w, v)
BY DEF Frame, SameConn, SameReq, SameHdl, Keep, Grow

LEMMA FrameSound ==
  ASSUME NEW w, NEW v, Sound(w), Frame(w, v)
  PROVE  Handlers(v) /\ Links(v)
BY DEF Sound, Frame, SameConn, SameReq, SameHdl, Handlers, Links

-----------------------------------------------------------------------------
(***************************************************************************)
(* Timers and the kqueue.                                                  *)
(***************************************************************************)
TreeIs(w, v, t) ==
  v \in Worlds /\ SameEv(w, v) /\ SameConn(w, v) /\ SameReq(w, v) /\ v.kq = w.kq /\ v.tree = t
KqIs(w, v, t) ==
  v \in Worlds /\ SameEv(w, v) /\ SameConn(w, v) /\ SameReq(w, v) /\ v.kq = t /\ v.tree = w.tree

LEMMA SetsIs ==
  ASSUME NEW w \in Worlds, NEW t \in SUBSET Events
  PROVE  TreeIs(w, [w EXCEPT !.tree = t], t) /\ KqIs(w, [w EXCEPT !.kq = t], t)
<1> DEFINE a == [w EXCEPT !.tree = t]
           b == [w EXCEPT !.kq = t]
<1>1. a \in Worlds /\ b \in Worlds
  BY SetsSet
<1>2. /\ a.conn = w.conn /\ a.req = w.req /\ a.tree = t /\ a.kq = w.kq
      /\ b.conn = w.conn /\ b.req = w.req /\ b.kq = t /\ b.tree = w.tree
  BY DEF Worlds
<1> HIDE DEF a, b
<1>3. SameEv(w, a) /\ SameEv(w, b)
  BY <1>2 DEF SameEv, SameAct, SameTimers, SameHdl, Act, TimerSet, Out, Hdl, Ev
<1>4. SameConn(w, a) /\ SameConn(w, b)
  BY <1>2 DEF SameConn, Used, Opened, Conned, Data
<1>5. SameReq(w, a) /\ SameReq(w, b)
  BY <1>2 DEF SameReq, LiveIn, ConnOf, UpOf
<1>6. TreeIs(w, a, t) /\ KqIs(w, b, t)
  BY <1>1, <1>2, <1>3, <1>4, <1>5 DEF TreeIs, KqIs
<1> QED BY <1>6 DEF a, b

TimerOff(w, v, e) ==
  /\ v \in Worlds /\ Frame(w, v) /\ SameAct(w, v) /\ v.kq = w.kq
  /\ v.tree = w.tree \ {e} /\ TimerSet(v) = TimerSet(w) \ {e} /\ Out(v) = Out(w) \ {e}
TimerOn(w, v, e) ==
  /\ v \in Worlds /\ Frame(w, v) /\ SameAct(w, v) /\ v.kq = w.kq
  /\ v.tree = w.tree \cup {e} /\ TimerSet(v) = TimerSet(w) \cup {e} /\ Out(v) = Out(w) \ {e}

LEMMA EventDelTimerIs ==
  ASSUME NEW w \in Worlds, NEW c \in Conns, NEW k \in Kinds
  PROVE  TimerOff(w, EventDelTimer(w, c, k), <<c, k>>)
<1> DEFINE t == w.tree \ {<<c, k>>}
           a == [w EXCEPT !.tree = t]
           b == [a EXCEPT !.conn[c][k].timer_set = FALSE]
           d == [b EXCEPT !.conn[c][k].timedout = FALSE]
<1>1. EventDelTimer(w, c, k) = d
  BY DEF EventDelTimer
<1>2. t \in SUBSET Events
  BY DEF Worlds
<1> HIDE DEF t
<1>3. TreeIs(w, a, t)
  BY <1>2, SetsIs
<1> HIDE DEF a
<1>4. a \in Worlds
  BY <1>3 DEF TreeIs
<1>5. TimerSetIs(a, b, <<c, k>>, FALSE)
  BY <1>4, TimerSetSet
<1> HIDE DEF b
<1>6. b \in Worlds
  BY <1>5 DEF TimerSetIs, Same
<1>7. TimedoutIs(b, d, <<c, k>>, FALSE)
  BY <1>6, TimedoutSet
<1> HIDE DEF d
<1>8. TimerOff(w, d, <<c, k>>)
  BY <1>3, <1>5, <1>7 DEF TreeIs, TimerSetIs, TimedoutIs, Same, TimerOff, Frame, SameEv,
     SameAct, SameTimers, SameHdl, SameConn, SameReq, SameSets, t
<1> QED BY <1>1, <1>8

LEMMA EvIn ==
  ASSUME NEW w \in Worlds, NEW c \in Conns, NEW k \in Kinds
  PROVE  /\ <<c, k>> \in Events
         /\ w.conn[c][k].timer_set <=> <<c, k>> \in TimerSet(w)
         /\ w.conn[c][k].active <=> <<c, k>> \in Act(w)
         /\ w.conn[c][k].timedout <=> <<c, k>> \in Out(w)
         /\ w.conn[c][k].handler = Hdl(w)[<<c, k>>]
BY DEF Events, TimerSet, Act, Out, Hdl, Ev

LEMMA DropTimerIs ==
  ASSUME NEW w \in Worlds, Timers(w), NEW c \in Conns, NEW k \in Kinds
  PROVE  TimerOff(w, DropTimer(w, c, k), <<c, k>>)
<1>1. CASE <<c, k>> \in TimerSet(w)
  <2>1. DropTimer(w, c, k) = EventDelTimer(w, c, k)
    BY <1>1, EvIn DEF DropTimer
  <2> QED BY <2>1, EventDelTimerIs
<1>2. CASE <<c, k>> \notin TimerSet(w)
  <2>1. DropTimer(w, c, k) = w
    BY <1>2, EvIn DEF DropTimer
  <2>2. TimerOff(w, w, <<c, k>>)
    BY <1>2 DEF TimerOff, Frame, SameAct, SameHdl, SameConn, SameReq, Timers
  <2> QED BY <2>1, <2>2
<1> QED BY <1>1, <1>2

LEMMA EventAddTimerIs ==
  ASSUME NEW w \in Worlds, Timers(w), NEW c \in Conns, NEW k \in Kinds
  PROVE  TimerOn(w, EventAddTimer(w, c, k), <<c, k>>)
<1> DEFINE a == DropTimer(w, c, k)
           t == a.tree \cup {<<c, k>>}
           b == [a EXCEPT !.tree = t]
           d == [b EXCEPT !.conn[c][k].timer_set = TRUE]
<1>1. EventAddTimer(w, c, k) = d
  BY DEF EventAddTimer, DropTimer
<1>2. TimerOff(w, a, <<c, k>>)
  BY DropTimerIs
<1> HIDE DEF a
<1>3. a \in Worlds /\ t \in SUBSET Events
  BY <1>2 DEF TimerOff, Worlds, Events
<1> HIDE DEF t
<1>4. TreeIs(a, b, t)
  BY <1>3, SetsIs
<1> HIDE DEF b
<1>5. b \in Worlds
  BY <1>4 DEF TreeIs
<1>6. TimerSetIs(b, d, <<c, k>>, TRUE)
  BY <1>5, TimerSetSet
<1> HIDE DEF d
<1>7. TimerOn(w, d, <<c, k>>)
  BY <1>2, <1>4, <1>6 DEF TreeIs, TimerSetIs, TimerOff, Same, TimerOn, Frame, SameEv,
     SameAct, SameTimers, SameHdl, SameConn, SameReq, SameSets, t
<1> QED BY <1>1, <1>7

(* An operation that keeps worlds sound and touches timers and             *)
(* registrations only.                                                     *)
Quiet(w, v) == Sound(v) /\ Frame(w, v)

LEMMA QuietTrans ==
  ASSUME NEW u, NEW v, NEW w, Quiet(u, v), Quiet(v, w)
  PROVE  Quiet(u, w)
BY FrameTrans DEF Quiet

LEMMA TimerOffQuiet ==
  ASSUME NEW w, Sound(w), NEW e \in Events, NEW v, TimerOff(w, v, e)
  PROVE  Quiet(w, v)
<1>1. Handlers(v) /\ Links(v)
  BY FrameSound DEF TimerOff
<1>2. Timers(v)
  BY DEF TimerOff, Sound, Timers, Frame, SameConn, SameHdl
<1>3. Watched(v)
  BY DEF TimerOff, Sound, Watched, Frame, SameConn, SameAct
<1> QED BY <1>1, <1>2, <1>3 DEF Quiet, Sound, TimerOff

LEMMA EventAddTimerQuiet ==
  ASSUME NEW w, Sound(w), NEW c \in Used(w), NEW k \in Kinds, Hdl(w)[<<c, k>>] # Null
  PROVE  Quiet(w, EventAddTimer(w, c, k))
<1> DEFINE v == EventAddTimer(w, c, k)
<1>1. w \in Worlds /\ Timers(w) /\ c \in Conns
  BY DEF Sound, Used
<1>2. TimerOn(w, v, <<c, k>>)
  BY <1>1, EventAddTimerIs
<1>3. Handlers(v) /\ Links(v)
  BY <1>2, FrameSound DEF TimerOn
<1> HIDE DEF v
<1>4. Timers(v)
  BY <1>1, <1>2 DEF TimerOn, Timers, Frame, SameConn, SameHdl
<1>5. Watched(v)
  BY <1>2 DEF TimerOn, Sound, Watched, Frame, SameConn, SameAct
<1> QED BY <1>2, <1>3, <1>4, <1>5 DEF Quiet, Sound, TimerOn, v

LEMMA KqueueAddEventQuiet ==
  ASSUME NEW w, Sound(w), NEW c \in Opened(w), NEW k \in Kinds
  PROVE  Quiet(w, KqueueAddEvent(w, c, k))
<1> DEFINE a == [w EXCEPT !.conn[c][k].active = TRUE]
           t == w.kq \cup {<<c, k>>}
           b == [a EXCEPT !.kq = t]
<1>1. w \in Worlds /\ c \in Conns /\ w.conn[c].open
  BY DEF Sound, Opened
<1>2. CASE <<c, k>> \in Act(w)
  <2>1. KqueueAddEvent(w, c, k) = w
    BY <1>1, <1>2, EvIn DEF KqueueAddEvent
  <2> QED BY <2>1 DEF Quiet, Frame, SameConn, SameReq, SameHdl
<1>3. CASE <<c, k>> \notin Act(w)
  <2>1. KqueueAddEvent(w, c, k) = b
    BY <1>1, <1>3, EvIn DEF KqueueAddEvent
  <2>2. ActiveIs(w, a, <<c, k>>, TRUE)
    BY <1>1, ActiveSet
  <2> HIDE DEF a
  <2>3. a \in Worlds /\ t \in SUBSET Events
    BY <1>1, <2>2, EvIn DEF ActiveIs, Same, Worlds
  <2> HIDE DEF t
  <2>4. KqIs(a, b, t)
    BY <2>3, SetsIs
  <2> HIDE DEF b
  <2>5. Frame(w, b) /\ SameTimers(w, b) /\ b.tree = w.tree /\ b.kq = t
        /\ Act(b) = Act(w) \cup {<<c, k>>} /\ b \in Worlds
    BY <2>2, <2>4 DEF ActiveIs, Same, KqIs, Frame, SameEv, SameAct, SameTimers, SameHdl,
       SameConn, SameReq, SameSets
  <2>6. Handlers(b) /\ Links(b)
    BY <2>5, FrameSound
  <2>7. Timers(b)
    BY <2>5 DEF Sound, Timers, Frame, SameConn, SameHdl, SameTimers
  <2>8. Watched(b)
    BY <2>5 DEF Sound, Watched, Frame, SameConn, t
  <2> QED BY <2>1, <2>5, <2>6, <2>7, <2>8 DEF Quiet, Sound
<1> QED BY <1>2, <1>3

LEMMA KqueueDelEventQuiet ==
  ASSUME NEW w, Sound(w), NEW c \in Conns, NEW k \in Kinds
  PROVE  Quiet(w, KqueueDelEvent(w, c, k))
<1> DEFINE d == DropTimer(w, c, k)
           a == [d EXCEPT !.conn[c][k].active = FALSE]
           t == d.kq \ {<<c, k>>}
           b == [a EXCEPT !.kq = t]
<1>1. w \in Worlds /\ Timers(w)
  BY DEF Sound
<1>2. CASE <<c, k>> \notin Act(w)
  <2>1. KqueueDelEvent(w, c, k) = w
    BY <1>1, <1>2, EvIn DEF KqueueDelEvent
  <2> QED BY <2>1 DEF Quiet, Frame, SameConn, SameReq, SameHdl
<1>3. CASE <<c, k>> \in Act(w)
  <2>1. KqueueDelEvent(w, c, k) = b
    BY <1>1, <1>3, EvIn DEF KqueueDelEvent, DropTimer
  <2>2. TimerOff(w, d, <<c, k>>)
    BY <1>1, DropTimerIs
  <2> HIDE DEF d
  <2>3. Quiet(w, d)
    BY <1>1, <2>2, EvIn, TimerOffQuiet
  <2>4. d \in Worlds /\ t \in SUBSET Events
    BY <2>2 DEF TimerOff, Worlds
  <2>5. ActiveIs(d, a, <<c, k>>, FALSE)
    BY <2>4, ActiveSet
  <2> HIDE DEF a, t
  <2>6. a \in Worlds
    BY <2>5 DEF ActiveIs, Same
  <2>7. KqIs(a, b, t)
    BY <2>4, <2>6, SetsIs
  <2> HIDE DEF b
  <2>8. Frame(d, b) /\ SameTimers(d, b) /\ b.tree = d.tree /\ b.kq = t
        /\ Act(b) = Act(d) \ {<<c, k>>} /\ b \in Worlds
    BY <2>5, <2>7 DEF ActiveIs, Same, KqIs, Frame, SameEv, SameAct, SameTimers, SameHdl,
       SameConn, SameReq, SameSets
  <2>9. Sound(d)
    BY <2>3 DEF Quiet
  <2>10. Handlers(b) /\ Links(b)
    BY <2>8, <2>9, FrameSound
  <2>11. Timers(b)
    BY <2>8, <2>9 DEF Sound, Timers, Frame, SameConn, SameHdl, SameTimers
  <2>12. Watched(b)
    BY <2>8, <2>9 DEF Sound, Watched, Frame, SameConn, t
  <2>13. Quiet(d, b)
    BY <2>8, <2>10, <2>11, <2>12 DEF Quiet, Sound
  <2> QED BY <2>1, <2>3, <2>13, QuietTrans
<1> QED BY <1>2, <1>3

-----------------------------------------------------------------------------
(***************************************************************************)
(* Fields of a request that carry no link; the end of the process.         *)
(***************************************************************************)
LEMMA ReqQuiet ==
  ASSUME NEW w, Sound(w), NEW r \in Conns, NEW q \in ReqType,
         q.live = w.req[r].live, q.connection = w.req[r].connection, q.upstream = w.req[r].upstream
  PROVE  Quiet(w, [w EXCEPT !.req[r] = q])
<1> DEFINE v == [w EXCEPT !.req[r] = q]
<1>1. w \in Worlds
  BY DEF Sound
<1>2. ReqIs(w, v, r, q)
  BY <1>1, ReqIsSet
<1> HIDE DEF v
<1>3. v \in Worlds /\ SameEv(w, v) /\ SameConn(w, v) /\ SameSets(w, v)
  BY <1>2 DEF ReqIs
<1>4. SameReq(w, v)
  <2>1. \A x \in Conns : /\ v.req[x].live = w.req[x].live
                        /\ v.req[x].connection = w.req[x].connection
                        /\ v.req[x].upstream = w.req[x].upstream
    BY <1>2 DEF ReqIs
  <2> QED BY <2>1 DEF SameReq, LiveIn, ConnOf, UpOf
<1>5. Frame(w, v)
  BY <1>3, <1>4 DEF Frame, SameEv
<1>6. Handlers(v) /\ Links(v)
  BY <1>5, FrameSound
<1>7. Timers(v) /\ Watched(v)
  BY <1>3 DEF Sound, Timers, Watched, SameEv, SameAct, SameTimers, SameHdl, SameConn, SameSets
<1> QED BY <1>3, <1>5, <1>6, <1>7 DEF Quiet, Sound, v

LEMMA CrashQuiet ==
  ASSUME NEW w, Sound(w), NEW d \in {"no", "crash", "exit"}
  PROVE  Quiet(w, [w EXCEPT !.dead = d])
<1> DEFINE v == [w EXCEPT !.dead = d]
<1>1. w \in Worlds
  BY DEF Sound
<1>2. v \in Worlds /\ v.conn = w.conn /\ v.req = w.req /\ v.tree = w.tree /\ v.kq = w.kq
  BY <1>1, DeadSet DEF Worlds
<1> HIDE DEF v
<1>3. /\ SameConn(w, v) /\ SameReq(w, v) /\ SameEv(w, v)
  BY <1>2 DEF SameConn, SameReq, SameEv, SameAct, SameTimers, SameHdl, Used, Opened, Conned,
     Data, LiveIn, ConnOf, UpOf, Act, TimerSet, Out, Hdl, Ev
<1>4. Frame(w, v)
  BY <1>3 DEF Frame, SameEv
<1>5. Handlers(v) /\ Links(v)
  BY <1>4, FrameSound
<1>6. Timers(v) /\ Watched(v)
  BY <1>2, <1>3 DEF Sound, Timers, Watched, SameEv, SameAct, SameTimers, SameHdl, SameConn
<1> QED BY <1>2, <1>4, <1>5, <1>6 DEF Quiet, Sound, v

LEMMA ResourceQuiet ==
  ASSUME NEW w, Sound(w), NEW r \in Conns, NEW b \in BOOLEAN
  PROVE  Quiet(w, [w EXCEPT !.req[r].resource = b])
<1> DEFINE d == w.req[r]
           q == [d EXCEPT !.resource = b]
<1>1. d \in ReqType /\ w \in Worlds
  BY DEF Sound, Worlds
<1> HIDE DEF d
<1>2. q \in ReqType /\ q.live = d.live /\ q.connection = d.connection /\ q.upstream = d.upstream
  BY <1>1 DEF ReqType
<1> HIDE DEF q
<1>3. Quiet(w, [w EXCEPT !.req[r] = q])
  BY <1>2, ReqQuiet DEF d
<1>4. [w EXCEPT !.req[r] = q] = [w EXCEPT !.req[r].resource = b]
  BY <1>1 DEF q, d, Worlds
<1> QED BY <1>3, <1>4

LEMMA DoneQuiet ==
  ASSUME NEW w, Sound(w), NEW r \in Conns, NEW b \in BOOLEAN
  PROVE  Quiet(w, [w EXCEPT !.req[r].response_done = b])
<1> DEFINE d == w.req[r]
           q == [d EXCEPT !.response_done = b]
<1>1. d \in ReqType /\ w \in Worlds
  BY DEF Sound, Worlds
<1> HIDE DEF d
<1>2. q \in ReqType /\ q.live = d.live /\ q.connection = d.connection /\ q.upstream = d.upstream
  BY <1>1 DEF ReqType
<1> HIDE DEF q
<1>3. Quiet(w, [w EXCEPT !.req[r] = q])
  BY <1>2, ReqQuiet DEF d
<1>4. [w EXCEPT !.req[r] = q] = [w EXCEPT !.req[r].response_done = b]
  BY <1>1 DEF q, d, Worlds
<1> QED BY <1>3, <1>4

LEMMA KeepAliveQuiet ==
  ASSUME NEW w, Sound(w), NEW r \in Conns, NEW b \in BOOLEAN
  PROVE  Quiet(w, [w EXCEPT !.req[r].keep_alive = b])
<1> DEFINE d == w.req[r]
           q == [d EXCEPT !.keep_alive = b]
<1>1. d \in ReqType /\ w \in Worlds
  BY DEF Sound, Worlds
<1> HIDE DEF d
<1>2. q \in ReqType /\ q.live = d.live /\ q.connection = d.connection /\ q.upstream = d.upstream
  BY <1>1 DEF ReqType
<1> HIDE DEF q
<1>3. Quiet(w, [w EXCEPT !.req[r] = q])
  BY <1>2, ReqQuiet DEF d
<1>4. [w EXCEPT !.req[r] = q] = [w EXCEPT !.req[r].keep_alive = b]
  BY <1>1 DEF q, d, Worlds
<1> QED BY <1>3, <1>4

LEMMA TriesQuiet ==
  ASSUME NEW w, Sound(w), NEW r \in Conns, NEW b \in 0 .. Servers
  PROVE  Quiet(w, [w EXCEPT !.req[r].tries = b])
<1> DEFINE d == w.req[r]
           q == [d EXCEPT !.tries = b]
<1>1. d \in ReqType /\ w \in Worlds
  BY DEF Sound, Worlds
<1> HIDE DEF d
<1>2. q \in ReqType /\ q.live = d.live /\ q.connection = d.connection /\ q.upstream = d.upstream
  BY <1>1 DEF ReqType
<1> HIDE DEF q
<1>3. Quiet(w, [w EXCEPT !.req[r] = q])
  BY <1>2, ReqQuiet DEF d
<1>4. [w EXCEPT !.req[r] = q] = [w EXCEPT !.req[r].tries = b]
  BY <1>1 DEF q, d, Worlds
<1> QED BY <1>3, <1>4

LEMMA CurQuiet ==
  ASSUME NEW w, Sound(w), NEW r \in Conns, NEW b \in BOOLEAN
  PROVE  Quiet(w, [w EXCEPT !.req[r].cur = b])
<1> DEFINE d == w.req[r]
           q == [d EXCEPT !.cur = b]
<1>1. d \in ReqType /\ w \in Worlds
  BY DEF Sound, Worlds
<1> HIDE DEF d
<1>2. q \in ReqType /\ q.live = d.live /\ q.connection = d.connection /\ q.upstream = d.upstream
  BY <1>1 DEF ReqType
<1> HIDE DEF q
<1>3. Quiet(w, [w EXCEPT !.req[r] = q])
  BY <1>2, ReqQuiet DEF d
<1>4. [w EXCEPT !.req[r] = q] = [w EXCEPT !.req[r].cur = b]
  BY <1>1 DEF q, d, Worlds
<1> QED BY <1>3, <1>4

LEMMA RbQuiet ==
  ASSUME NEW w, Sound(w), NEW r \in Conns, NEW b \in {"empty", "parsed", "ready", "lost"}
  PROVE  Quiet(w, [w EXCEPT !.req[r].rb = b])
<1> DEFINE d == w.req[r]
           q == [d EXCEPT !.rb = b]
<1>1. d \in ReqType /\ w \in Worlds
  BY DEF Sound, Worlds
<1> HIDE DEF d
<1>2. q \in ReqType /\ q.live = d.live /\ q.connection = d.connection /\ q.upstream = d.upstream
  BY <1>1 DEF ReqType
<1> HIDE DEF q
<1>3. Quiet(w, [w EXCEPT !.req[r] = q])
  BY <1>2, ReqQuiet DEF d
<1>4. [w EXCEPT !.req[r] = q] = [w EXCEPT !.req[r].rb = b]
  BY <1>1 DEF q, d, Worlds
<1> QED BY <1>3, <1>4

LEMMA SbQuiet ==
  ASSUME NEW w, Sound(w), NEW r \in Conns, NEW b \in SUBSET {"head", "page", "data"}
  PROVE  Quiet(w, [w EXCEPT !.req[r].sb = b])
<1> DEFINE d == w.req[r]
           q == [d EXCEPT !.sb = b]
<1>1. d \in ReqType /\ w \in Worlds
  BY DEF Sound, Worlds
<1> HIDE DEF d
<1>2. q \in ReqType /\ q.live = d.live /\ q.connection = d.connection /\ q.upstream = d.upstream
  BY <1>1 DEF ReqType
<1> HIDE DEF q
<1>3. Quiet(w, [w EXCEPT !.req[r] = q])
  BY <1>2, ReqQuiet DEF d
<1>4. [w EXCEPT !.req[r] = q] = [w EXCEPT !.req[r].sb = b]
  BY <1>1 DEF q, d, Worlds
<1> QED BY <1>3, <1>4

-----------------------------------------------------------------------------
(***************************************************************************)
(* http_close_connection.                                                  *)
(***************************************************************************)
Closes(w, v, c) ==
  /\ v \in Worlds /\ SameHdl(w, v)
  /\ Used(v) = Used(w) \ {c} /\ Opened(v) = Opened(w) \ {c} /\ Conned(v) = Conned(w) \ {c}
  /\ Data(v)[c] = Null /\ \A d \in Conns : d # c => Data(v)[d] = Data(w)[d]
  /\ LET gone == {<<c, "rev">>, <<c, "wev">>}
     IN  /\ Act(v) = Act(w) \ gone /\ TimerSet(v) = TimerSet(w) \ gone /\ Out(v) = Out(w) \ gone
         /\ v.tree = w.tree \ gone /\ v.kq = w.kq \ gone
  /\ LiveIn(v) = LiveIn(w)
  /\ \A r \in Conns : ConnOf(v)[r] = IF r = Data(w)[c] /\ ConnOf(w)[r] = c THEN Null
                                     ELSE ConnOf(w)[r]
  /\ \A r \in Conns : UpOf(v)[r] = IF r = Data(w)[c] /\ ConnOf(w)[r] # c THEN Null
                                   ELSE UpOf(w)[r]

LEMMA ReleasedIs ==
  ASSUME NEW v \in Worlds, NEW c \in Conns
  PROVE  LET z == Released(v, c)
             gone == {<<c, "rev">>, <<c, "wev">>}
         IN  /\ z \in Worlds /\ SameHdl(v, z) /\ SameTimers(v, z) /\ SameReq(v, z)
             /\ Used(z) = Used(v) \ {c} /\ Opened(z) = Opened(v) \ {c}
             /\ Conned(z) = Conned(v) \ {c}
             /\ Data(z)[c] = Null /\ \A x \in Conns : x # c => Data(z)[x] = Data(v)[x]
             /\ Act(z) = Act(v) \ gone /\ z.tree = v.tree /\ z.kq = v.kq \ gone
<1> DEFINE t == v.kq \ {<<c, "rev">>, <<c, "wev">>}
           z1 == [v EXCEPT !.kq = t]
           z2 == [z1 EXCEPT !.conn[c].open = FALSE]
           z3 == [z2 EXCEPT !.conn[c].data = Null]
           z4 == [z3 EXCEPT !.conn[c].idle = FALSE]
           z5 == [z4 EXCEPT !.conn[c].connected = FALSE]
           z6 == [z5 EXCEPT !.conn[c]["rev"].active = FALSE]
           z7 == [z6 EXCEPT !.conn[c]["wev"].active = FALSE]
           z8 == [z7 EXCEPT !.conn[c].inuse = FALSE]
<1>1. Released(v, c) = z8
  BY DEF Released
<1>2. t \in SUBSET Events /\ "rev" \in Kinds /\ "wev" \in Kinds
  BY DEF Worlds, Kinds
<1> HIDE DEF t
<1>3. KqIs(v, z1, t)
  BY <1>2, SetsIs
<1> HIDE DEF z1
<1>4. z1 \in Worlds
  BY <1>3 DEF KqIs
<1>5. OpenIs(z1, z2, c, FALSE)
  BY <1>4, OpenSet
<1> HIDE DEF z2
<1>6. z2 \in Worlds
  BY <1>5 DEF OpenIs
<1>7. DataIs(z2, z3, c, Null)
  BY <1>6, DataSet
<1> HIDE DEF z3
<1>8. z3 \in Worlds
  BY <1>7 DEF DataIs
<1>9. IdleIs(z3, z4, c, FALSE)
  BY <1>8, IdleSet
<1> HIDE DEF z4
<1>10. z4 \in Worlds
  BY <1>9 DEF IdleIs
<1>11. ConnedIs(z4, z5, c, FALSE)
  BY <1>10, ConnedSet
<1> HIDE DEF z5
<1>12. z5 \in Worlds
  BY <1>11 DEF ConnedIs
<1>13. ActiveIs(z5, z6, <<c, "rev">>, FALSE)
  BY <1>2, <1>12, ActiveSet
<1> HIDE DEF z6
<1>14. z6 \in Worlds
  BY <1>13 DEF ActiveIs, Same
<1>15. ActiveIs(z6, z7, <<c, "wev">>, FALSE)
  BY <1>2, <1>14, ActiveSet
<1> HIDE DEF z7
<1>16. z7 \in Worlds
  BY <1>15 DEF ActiveIs, Same
<1>17. UsedIs(z7, z8, c, FALSE)
  BY <1>16, UsedSet
<1> HIDE DEF z8
<1>18. z8 \in Worlds
  BY <1>17 DEF UsedIs
<1> USE DEF KqIs, OpenIs, DataIs, IdleIs, ConnedIs, ActiveIs, UsedIs, Same, SameSets, SameEv
<1>21. SameHdl(v, z8) /\ SameTimers(v, z8)
  BY <1>3, <1>5, <1>7, <1>9, <1>11, <1>13, <1>15, <1>17 DEF SameHdl, SameTimers
<1>22. SameReq(v, z8)
  BY <1>3, <1>5, <1>7, <1>9, <1>11, <1>13, <1>15, <1>17 DEF SameReq
<1>23. Used(z8) = Used(v) \ {c} /\ Opened(z8) = Opened(v) \ {c} /\ Conned(z8) = Conned(v) \ {c}
  BY <1>3, <1>5, <1>7, <1>9, <1>11, <1>13, <1>15, <1>17 DEF SameConn
<1>24. Data(z8)[c] = Null /\ \A x \in Conns : x # c => Data(z8)[x] = Data(v)[x]
  BY <1>3, <1>5, <1>7, <1>9, <1>11, <1>13, <1>15, <1>17 DEF SameConn
<1>25. Act(z8) = Act(v) \ {<<c, "rev">>, <<c, "wev">>}
  BY <1>3, <1>5, <1>7, <1>9, <1>11, <1>13, <1>15, <1>17 DEF SameAct
<1>26. z8.tree = v.tree /\ z8.kq = t
  BY <1>3, <1>5, <1>7, <1>9, <1>11, <1>13, <1>15, <1>17
<1> QED BY <1>1, <1>18, <1>21, <1>22, <1>23, <1>24, <1>25, <1>26 DEF t


LEMMA TimerOffTimers ==
  ASSUME NEW w, NEW v, NEW e, Timers(w), TimerOff(w, v, e)
  PROVE  Timers(v)
BY DEF TimerOff, Timers, Frame, SameConn, SameHdl

(* The pointer of the request is cleared, and nothing else.                *)
Unlinks(w, v, c) ==
  /\ v \in Worlds /\ SameEv(w, v) /\ SameConn(w, v) /\ SameSets(w, v)
  /\ v.dead = w.dead
  /\ LiveIn(v) = LiveIn(w)
  /\ \A r \in Conns : ConnOf(v)[r] = IF r = Data(w)[c] /\ ConnOf(w)[r] = c THEN Null
                                     ELSE ConnOf(w)[r]
  /\ \A r \in Conns : UpOf(v)[r] = IF r = Data(w)[c] /\ ConnOf(w)[r] # c THEN Null
                                   ELSE UpOf(w)[r]

LEMMA UnlinkIs ==
  ASSUME NEW w \in Worlds, NEW c \in Conns
  PROVE  Unlinks(w, Unlink(w, c), c)
<1> DEFINE r == w.conn[c].data
           q == w.req[r]
           a == [q EXCEPT !.connection = Null]
           b == [q EXCEPT !.upstream = Null]
           va == [w EXCEPT !.req[r] = a]
           vb == [w EXCEPT !.req[r] = b]
<1>1. r \in Conns \cup {Null} /\ r = Data(w)[c]
  BY DEF Worlds, ConnType, Data
<1>2. \A x \in Conns : ConnOf(w)[x] = w.req[x].connection /\ UpOf(w)[x] = w.req[x].upstream
  BY DEF ConnOf, UpOf
<1>3. CASE r = Null
  <2>1. Unlink(w, c) = w
    BY <1>3 DEF Unlink
  <2>2. Unlinks(w, w, c)
    BY <1>1, <1>3, NullAssumption DEF Unlinks, SameEv, SameConn, SameSets, SameAct, SameTimers,
       SameHdl
  <2> QED BY <2>1, <2>2
<1>4. CASE r \in Conns /\ w.req[r].connection = c
  <2>1. q \in ReqType /\ q = w.req[r]
    BY <1>4 DEF Worlds
  <2>2. Unlink(w, c) = va
    <3>1. Unlink(w, c) = [w EXCEPT !.req[r].connection = Null]
      BY <1>4, NullAssumption DEF Unlink
    <3> QED BY <3>1, <1>4 DEF Worlds
  <2> HIDE DEF q
  <2>3. a \in ReqType /\ a.live = q.live /\ a.connection = Null /\ a.upstream = q.upstream
    BY <2>1 DEF ReqType
  <2> HIDE DEF r, a
  <2>4. ReqIs(w, va, r, a)
    BY <1>4, <2>3, ReqIsSet
  <2>5. va.dead = w.dead
    BY DEF Worlds
  <2> HIDE DEF va
  <2>6. LiveIn(va) = LiveIn(w)
    BY <1>4, <2>1, <2>3, <2>4 DEF ReqIs, LiveIn
  <2>7. Unlinks(w, va, c)
    BY <1>1, <1>2, <1>4, <2>1, <2>3, <2>4, <2>5, <2>6 DEF ReqIs, Unlinks
  <2> QED BY <2>2, <2>7
<1>5. CASE r \in Conns /\ w.req[r].connection # c
  <2>1. q \in ReqType /\ q = w.req[r]
    BY <1>5 DEF Worlds
  <2>2. Unlink(w, c) = vb
    <3>1. Unlink(w, c) = [w EXCEPT !.req[r].upstream = Null]
      BY <1>5, NullAssumption DEF Unlink
    <3> QED BY <3>1, <1>5 DEF Worlds
  <2> HIDE DEF q
  <2>3. b \in ReqType /\ b.live = q.live /\ b.connection = q.connection /\ b.upstream = Null
    BY <2>1 DEF ReqType
  <2> HIDE DEF r, b
  <2>4. ReqIs(w, vb, r, b)
    BY <1>5, <2>3, ReqIsSet
  <2>5. vb.dead = w.dead
    BY DEF Worlds
  <2> HIDE DEF vb
  <2>6. LiveIn(vb) = LiveIn(w)
    BY <1>5, <2>1, <2>3, <2>4 DEF ReqIs, LiveIn
  <2>7. Unlinks(w, vb, c)
    BY <1>1, <1>2, <1>5, <2>1, <2>3, <2>4, <2>5, <2>6 DEF ReqIs, Unlinks
  <2> QED BY <2>2, <2>7
<1> QED BY <1>1, <1>3, <1>4, <1>5

LEMMA CloseIs ==
  ASSUME NEW w \in Worlds, Timers(w), NEW c \in Conns,
         Data(w)[c] # Null \/ c \in Conned(w)
  PROVE  Closes(w, HttpCloseConnection(w, c), c)
<1> DEFINE a == Unlink(w, c)
           b == DropTimer(a, c, "rev")
           v == DropTimer(b, c, "wev")
           y == Released(v, c)
           d == IF w.conn[c].inuse THEN y.dead ELSE "crash"
           z == [y EXCEPT !.dead = d]
<1>1. HttpCloseConnection(w, c) = z
  BY DEF HttpCloseConnection, Data, Conned
<1>2. "rev" \in Kinds /\ "wev" \in Kinds
  BY DEF Kinds
<1>3. Unlinks(w, a, c)
  BY UnlinkIs
<1> HIDE DEF a
<1>4. a \in Worlds /\ Timers(a)
  BY <1>3 DEF Unlinks, Timers, SameEv, SameTimers, SameHdl, SameSets, SameConn
<1>5. TimerOff(a, b, <<c, "rev">>)
  BY <1>2, <1>4, DropTimerIs
<1> HIDE DEF b
<1>6. b \in Worlds /\ Timers(b)
  BY <1>4, <1>5, TimerOffTimers DEF TimerOff
<1>7. TimerOff(b, v, <<c, "wev">>)
  BY <1>2, <1>6, DropTimerIs
<1> HIDE DEF v
<1> DEFINE gone == {<<c, "rev">>, <<c, "wev">>}
<1>8. /\ y \in Worlds /\ SameHdl(v, y) /\ SameTimers(v, y) /\ SameReq(v, y)
      /\ Used(y) = Used(v) \ {c} /\ Opened(y) = Opened(v) \ {c}
      /\ Conned(y) = Conned(v) \ {c}
      /\ Data(y)[c] = Null /\ \A x \in Conns : x # c => Data(y)[x] = Data(v)[x]
      /\ Act(y) = Act(v) \ gone /\ y.tree = v.tree /\ y.kq = v.kq \ gone
  BY <1>7, ReleasedIs DEF TimerOff
<1> HIDE DEF y
<1>9. /\ z \in Worlds /\ SameEv(y, z) /\ SameReq(y, z) /\ SameConn(y, z) /\ SameSets(y, z)
  <2>1. d \in {"no", "crash", "exit"}
    BY <1>8 DEF Worlds
  <2> HIDE DEF d
  <2>2. z \in Worlds /\ z.conn = y.conn /\ z.req = y.req /\ z.tree = y.tree /\ z.kq = y.kq
    BY <1>8, <2>1, DeadSet DEF Worlds
  <2> HIDE DEF z
  <2> QED BY <2>2 DEF SameConn, SameReq, SameEv, SameAct, SameTimers, SameHdl, SameSets, Used,
     Opened, Conned, Data, LiveIn, ConnOf, UpOf, Act, TimerSet, Out, Hdl, Ev
<1> HIDE DEF z
<1>10. SameHdl(w, z)
  BY <1>3, <1>5, <1>7, <1>8, <1>9 DEF Unlinks, TimerOff, Frame, SameEv, SameHdl
<1>11. /\ Used(z) = Used(w) \ {c} /\ Opened(z) = Opened(w) \ {c} /\ Conned(z) = Conned(w) \ {c}
       /\ Data(z)[c] = Null /\ \A x \in Conns : x # c => Data(z)[x] = Data(w)[x]
  BY <1>3, <1>5, <1>7, <1>8, <1>9 DEF Unlinks, TimerOff, Frame, SameConn, SameSets
<1>12. Act(z) = Act(w) \ gone /\ z.kq = w.kq \ gone /\ z.tree = w.tree \ gone
  BY <1>3, <1>5, <1>7, <1>8, <1>9 DEF Unlinks, TimerOff, SameAct, SameEv, SameSets
<1>13. TimerSet(z) = TimerSet(w) \ gone /\ Out(z) = Out(w) \ gone
  BY <1>3, <1>5, <1>7, <1>8, <1>9 DEF Unlinks, TimerOff, SameTimers, SameEv
<1>14. LiveIn(z) = LiveIn(a) /\ ConnOf(z) = ConnOf(a) /\ UpOf(z) = UpOf(a)
  BY <1>5, <1>7, <1>8, <1>9 DEF TimerOff, Frame, SameReq
<1>15. Closes(w, z, c)
  BY <1>3, <1>9, <1>10, <1>11, <1>12, <1>13, <1>14 DEF Closes, Unlinks
<1> QED BY <1>1, <1>15

LEMMA CloseNothing ==
  ASSUME NEW w \in Worlds, NEW c \in Conns, Data(w)[c] = Null, c \notin Conned(w)
  PROVE  HttpCloseConnection(w, c) = w
BY DEF HttpCloseConnection, Data, Conned

(* Timers, registrations and handlers of the others are not touched.       *)
LEMMA ClosesEvents ==
  ASSUME NEW w, NEW v, NEW c \in Conns, Closes(w, v, c),
         Timers(w), Watched(w), Handlers(w)
  PROVE  Timers(v) /\ Watched(v) /\ Handlers(v)
<1>1. Timers(v)
  <2>1. v.tree = TimerSet(v) \ Out(v) /\ Out(v) \subseteq TimerSet(v)
    BY DEF Closes, Timers
  <2>2. ASSUME NEW e \in v.tree PROVE e[1] \in Used(v) /\ Hdl(v)[e] # Null
    <3>1. e \in w.tree /\ e \notin {<<c, "rev">>, <<c, "wev">>} /\ e \in Events
      BY DEF Closes, Timers, TimerSet
    <3>2. e[1] # c
      BY <3>1 DEF Events, Kinds
    <3> QED BY <3>1, <3>2 DEF Closes, Timers, SameHdl
  <2> QED BY <2>1, <2>2 DEF Timers
<1>2. Watched(v)
  <2>1. v.kq = Act(v) /\ Opened(v) \subseteq Used(v) /\ Conned(v) \subseteq Opened(v)
    BY DEF Closes, Watched
  <2>2. ASSUME NEW e \in Act(v) PROVE e[1] \in Opened(v)
    <3>1. e \in Act(w) /\ e \notin {<<c, "rev">>, <<c, "wev">>} /\ e \in Events
      BY DEF Closes, Act
    <3>2. e[1] # c
      BY <3>1 DEF Events, Kinds
    <3> QED BY <3>1, <3>2 DEF Closes, Watched
  <2> QED BY <2>1, <2>2 DEF Watched
<1>3. Handlers(v)
  BY DEF Closes, Handlers, SameHdl
<1> QED BY <1>1, <1>2, <1>3

-----------------------------------------------------------------------------
(***************************************************************************)
(* Where a callback may end: in a sound world that keeps what the others   *)
(* rely on; and, as long as it closes nothing, all that is still needed.   *)
(***************************************************************************)
Safe(w, v) == Sound(v) /\ Keep(w, v)
Tame(w, v) == Sound(v) /\ Keep(w, v) /\ Grow(w, v)

LEMMA SafeTrans ==
  ASSUME NEW u, NEW v, NEW w, Safe(u, v), Safe(v, w)
  PROVE  Safe(u, w)
BY KeepTrans DEF Safe

LEMMA TameTrans ==
  ASSUME NEW u, NEW v, NEW w, Tame(u, v), Tame(v, w)
  PROVE  Tame(u, w)
BY KeepTrans, GrowTrans DEF Tame

LEMMA QuietTame ==
  ASSUME NEW w, NEW v, Quiet(w, v)
  PROVE  Tame(w, v) /\ Safe(w, v)
BY FrameKeeps DEF Quiet, Tame, Safe

LEMMA TameSafe ==
  ASSUME NEW w, NEW v, Tame(w, v)
  PROVE  Safe(w, v)
BY DEF Tame, Safe

LEMMA Stays ==
  ASSUME NEW w, Sound(w)
  PROVE  Quiet(w, w) /\ Tame(w, w) /\ Safe(w, w)
BY QuietTame DEF Quiet, Frame, SameConn, SameReq, SameHdl

(* The request r has its client connection.                                *)
Has(w, r) == r \in Conns /\ Data(w)[r] = r

HasAll(w, r) ==
  /\ r \in Conns /\ r # Null /\ Data(w)[r] = r
  /\ r \in Used(w) /\ r \in Opened(w) /\ r \in LiveIn(w) /\ ConnOf(w)[r] = r
  /\ w.req[r].connection = r /\ w.req[r].upstream = UpOf(w)[r]
  /\ UpOf(w)[r] \in Conns \cup {Null}
  /\ Hdl(w)[<<r, "rev">>] # "http_init_request"
  /\ UpOf(w)[r] # Null => /\ UpOf(w)[r] \in Used(w) /\ UpOf(w)[r] # r
                          /\ Data(w)[UpOf(w)[r]] = r

LEMMA HasFacts ==
  ASSUME NEW w, Sound(w), NEW r, Has(w, r)
  PROVE  HasAll(w, r)
<1>1. r \in Conns /\ Data(w)[r] = r /\ r # Null
  BY NullAssumption DEF Has
<1>2. /\ w.req[r].connection = ConnOf(w)[r] /\ w.req[r].upstream = UpOf(w)[r]
      /\ UpOf(w)[r] \in Conns \cup {Null}
  BY <1>1 DEF Sound, Worlds, ReqType, UpOf, ConnOf
<1>3. /\ r \in Used(w) /\ r \in Opened(w) /\ r \in LiveIn(w) /\ ConnOf(w)[r] = r
      /\ Hdl(w)[<<r, "rev">>] # "http_init_request"
  BY <1>1 DEF Sound, Links
<1>4. CASE UpOf(w)[r] # Null
  <2>1. UpOf(w)[r] # r /\ Data(w)[UpOf(w)[r]] = r
    BY <1>1, <1>4 DEF Sound, Links
  <2>2. UpOf(w)[r] \in Used(w)
    BY <1>1, <1>2, <1>4, <2>1 DEF Sound, Links
  <2> QED BY <1>1, <1>2, <1>3, <2>1, <2>2 DEF HasAll
<1> QED BY <1>1, <1>2, <1>3, <1>4 DEF HasAll

HasData(w, c, r) ==
  /\ Has(w, r) /\ c \in Used(w) /\ r = w.conn[c].data
  /\ c # r => UpOf(w)[r] = c
  /\ Hdl(w)[<<c, "rev">>] # "http_init_request"

LEMMA DataHas ==
  ASSUME NEW w, Sound(w), NEW c \in Conns, Data(w)[c] # Null
  PROVE  HasData(w, c, Data(w)[c])
<1>1. Data(w)[c] = w.conn[c].data /\ Data(w)[c] \in Conns
  BY DEF Sound, Worlds, ConnType, Data
<1>2. /\ Data(w)[Data(w)[c]] = Data(w)[c] /\ c \in Used(w)
      /\ c = Data(w)[c] \/ UpOf(w)[Data(w)[c]] = c
      /\ Hdl(w)[<<c, "rev">>] # "http_init_request"
  BY DEF Sound, Links
<1> QED BY <1>1, <1>2 DEF Has, HasData

LEMMA TameHas ==
  ASSUME NEW w, Sound(w), NEW v, Tame(w, v), NEW r, Has(w, r)
  PROVE  Has(v, r)
BY HasFacts DEF HasAll, Tame, Grow, Has


-----------------------------------------------------------------------------
(***************************************************************************)
(* Closing what belongs to a request.                                      *)
(***************************************************************************)
(* The connection of the backend is closed: its request stays.             *)
LEMMA CloseUpstream ==
  ASSUME NEW w, Sound(w), NEW u \in Conns, Data(w)[u] # Null, Data(w)[u] # u,
         NEW v, v = HttpCloseConnection(w, u)
  PROVE  /\ Safe(w, v) /\ Closes(w, v, u) /\ Has(v, Data(w)[u])
         /\ UpOf(v)[Data(w)[u]] = Null
<1> DEFINE r == Data(w)[u]
<1>1. Has(w, r) /\ UpOf(w)[r] = u /\ Hdl(w)[<<u, "rev">>] # "http_init_request"
  BY DataHas DEF HasData
<1>2. r \in Conns /\ ConnOf(w)[r] = r
  <2>1. HasAll(w, r)
    BY <1>1, HasFacts
  <2> QED BY <2>1 DEF HasAll
<1>3. Closes(w, v, u)
  BY CloseIs DEF Sound
<1>4. Timers(v) /\ Watched(v) /\ Handlers(v) /\ v \in Worlds
  BY <1>3, ClosesEvents DEF Sound, Closes
<1> HIDE DEF r
<1>5. r = Data(w)[u] /\ r # u /\ r # Null
  BY DEF r
<1>6. \A d \in Conns : d # u => Data(v)[d] = Data(w)[d]
  BY <1>3 DEF Closes
<1>7. Data(v)[u] = Null /\ SameHdl(w, v) /\ LiveIn(v) = LiveIn(w)
      /\ Used(v) = Used(w) \ {u} /\ Conned(v) = Conned(w) \ {u} /\ Opened(v) = Opened(w) \ {u}
  BY <1>3 DEF Closes
<1>8. \A x \in Conns : ConnOf(v)[x] = IF x = r /\ ConnOf(w)[x] = u THEN Null ELSE ConnOf(w)[x]
  BY <1>3 DEF Closes, r
<1>9. \A x \in Conns : UpOf(v)[x] = IF x = r /\ ConnOf(w)[x] # u THEN Null ELSE UpOf(w)[x]
  BY <1>3 DEF Closes, r
<1>10. ConnOf(v) = ConnOf(w) /\ UpOf(v)[r] = Null /\ \A x \in Conns : x # r => UpOf(v)[x] = UpOf(w)[x]
  BY <1>2, <1>5, <1>8, <1>9 DEF ConnOf
<1>11. Has(v, r)
  BY <1>1, <1>5, <1>6 DEF Has
<1>12. Links(v)
  <2>1. ASSUME NEW c \in Conns, Data(v)[c] # Null, NEW x, x = Data(v)[c]
        PROVE  /\ c \in Used(v) /\ x \in LiveIn(v) /\ (c = x \/ UpOf(v)[x] = c)
               /\ Data(v)[x] = x /\ ConnOf(v)[x] = x
               /\ c # x /\ c \in Conned(v) => Hdl(v)[<<c, "wev">>] # Null
               /\ Hdl(v)[<<c, "rev">>] # "http_init_request"
    <3>1. c # u /\ x = Data(w)[c] /\ x # Null
      BY <1>6, <1>7, <2>1
    <3>2. /\ c \in Used(w) /\ x \in LiveIn(w) /\ (c = x \/ UpOf(w)[x] = c)
          /\ Data(w)[x] = x /\ ConnOf(w)[x] = x
          /\ c # x /\ c \in Conned(w) => Hdl(w)[<<c, "wev">>] # Null
          /\ Hdl(w)[<<c, "rev">>] # "http_init_request"
      BY <3>1 DEF Sound, Links
    <3>3. x \in Conns /\ x # u
      BY <1>5, <3>2 DEF LiveIn
    <3>4. c = x \/ UpOf(v)[x] = c
      BY <1>1, <1>10, <3>1, <3>2, <3>3
    <3> QED BY <1>6, <1>7, <1>10, <3>1, <3>2, <3>3, <3>4 DEF SameHdl
  <2>2. ASSUME NEW x \in Conns, Data(v)[x] = x
        PROVE  /\ x \in Opened(v)
               /\ UpOf(v)[x] # Null => UpOf(v)[x] # x /\ Data(v)[UpOf(v)[x]] = x
               /\ Hdl(v)[<<x, "rev">>] # "http_recv_upstream"
               /\ Hdl(v)[<<x, "wev">>] \notin {"http_proxy_pass", "process_connection_result_of_upstream"}
    <3>1. x # u /\ Data(w)[x] = x
      BY <1>6, <1>7, <2>2, NullAssumption
    <3>2. x \in Opened(v)
      BY <1>7, <3>1 DEF Sound, Links
    <3>3. ASSUME UpOf(v)[x] # Null PROVE UpOf(v)[x] # x /\ Data(v)[UpOf(v)[x]] = x
      <4>1. x # r /\ UpOf(v)[x] = UpOf(w)[x]
        BY <1>10, <3>3
      <4>2. UpOf(w)[x] # x /\ Data(w)[UpOf(w)[x]] = x /\ UpOf(w)[x] \in Conns
        <5>1. UpOf(w)[x] \in Conns \cup {Null}
          BY DEF Sound, Worlds, ReqType, UpOf
        <5>2. UpOf(w)[x] # x /\ Data(w)[UpOf(w)[x]] = x
          BY <3>1, <3>3, <4>1 DEF Sound, Links
        <5> QED BY <3>3, <4>1, <5>1, <5>2
      <4>3. UpOf(w)[x] # u
        BY <1>5, <4>1, <4>2
      <4> QED BY <1>6, <4>1, <4>2, <4>3
    <3>4. /\ Hdl(v)[<<x, "rev">>] # "http_recv_upstream"
          /\ Hdl(v)[<<x, "wev">>] \notin {"http_proxy_pass", "process_connection_result_of_upstream"}
      BY <1>7, <3>1 DEF Sound, Links, SameHdl
    <3> QED BY <3>2, <3>3, <3>4
  <2> QED BY <2>1, <2>2 DEF Links
<1>13. Keep(w, v)
  <2>1. ASSUME NEW c \in Conns, Hdl(v)[<<c, "rev">>] = "http_init_request"
        PROVE  Hdl(w)[<<c, "rev">>] = "http_init_request" /\ (c \in Used(w) => c \in Used(v))
    BY <1>1, <1>7, <2>1 DEF SameHdl
  <2>2. ASSUME NEW x \in LiveIn(v), Data(v)[x] # x PROVE x \in LiveIn(w) /\ Data(w)[x] # x
    BY <1>5, <1>6, <1>7, <2>2 DEF LiveIn
  <2> QED BY <2>1, <2>2 DEF Keep
<1> QED BY <1>3, <1>4, <1>10, <1>11, <1>12, <1>13 DEF Safe, Sound, r

(* A request is freed with what it has.                                    *)
Ends(w, r) == IF UpOf(w)[r] = Null THEN {r} ELSE {r, UpOf(w)[r]}
Frees(w, v, r, S) ==
  /\ v \in Worlds /\ Timers(v) /\ Watched(v) /\ Handlers(v) /\ SameHdl(w, v)
  /\ \A d \in Conns : Data(v)[d] = IF d \in S THEN Null ELSE Data(w)[d]
  /\ Used(v) = Used(w) \ S /\ Opened(v) = Opened(w) \ S /\ Conned(v) = Conned(w) \ S
  /\ LiveIn(v) = LiveIn(w) \ {r}
  /\ \A x \in Conns : x # r => ConnOf(v)[x] = ConnOf(w)[x] /\ UpOf(v)[x] = UpOf(w)[x]

LEMMA FreesRequest ==
  ASSUME NEW w, Sound(w), NEW r, Has(w, r), NEW v, Frees(w, v, r, Ends(w, r))
  PROVE  Safe(w, v)
<1> DEFINE S == Ends(w, r)
<1> HIDE DEF S
<1>0. /\ v \in Worlds /\ Timers(v) /\ Watched(v) /\ Handlers(v) /\ SameHdl(w, v)
      /\ \A d \in Conns : Data(v)[d] = IF d \in S THEN Null ELSE Data(w)[d]
      /\ Used(v) = Used(w) \ S /\ Opened(v) = Opened(w) \ S /\ Conned(v) = Conned(w) \ S
      /\ LiveIn(v) = LiveIn(w) \ {r}
      /\ \A x \in Conns : x # r => ConnOf(v)[x] = ConnOf(w)[x] /\ UpOf(v)[x] = UpOf(w)[x]
      /\ S = IF UpOf(w)[r] = Null THEN {r} ELSE {r, UpOf(w)[r]}
  BY DEF Frees, S, Ends
<1>1. r \in Conns /\ Data(w)[r] = r /\ r # Null
  BY NullAssumption DEF Has
<1>2. /\ Hdl(w)[<<r, "rev">>] # "http_init_request"
      /\ UpOf(w)[r] # Null => UpOf(w)[r] \in Used(w) /\ UpOf(w)[r] # r /\ Data(w)[UpOf(w)[r]] = r
  BY HasFacts DEF HasAll
<1>3. \A s \in S : s \in Conns /\ Data(w)[s] = r
  BY <1>0, <1>1, <1>2 DEF Used
<1>4. \A d \in Conns : Data(w)[d] = r => d \in S
  <2> SUFFICES ASSUME NEW d \in Conns, Data(w)[d] = r, d # r PROVE d \in S
    BY <1>0, <1>1
  <2>1. UpOf(w)[r] = d
    BY <1>1 DEF Sound, Links
  <2> QED BY <1>0, <2>1, NullAssumption
<1>5. Links(v)
  <2>1. ASSUME NEW c \in Conns, Data(v)[c] # Null, NEW x, x = Data(v)[c]
        PROVE  /\ c \in Used(v) /\ x \in LiveIn(v) /\ (c = x \/ UpOf(v)[x] = c)
               /\ Data(v)[x] = x /\ ConnOf(v)[x] = x
               /\ c # x /\ c \in Conned(v) => Hdl(v)[<<c, "wev">>] # Null
               /\ Hdl(v)[<<c, "rev">>] # "http_init_request"
    <3>1. c \notin S /\ x = Data(w)[c] /\ x # Null /\ x # r
      BY <1>0, <1>4, <2>1
    <3>2. /\ c \in Used(w) /\ x \in LiveIn(w) /\ (c = x \/ UpOf(w)[x] = c)
          /\ Data(w)[x] = x /\ ConnOf(w)[x] = x
          /\ c # x /\ c \in Conned(w) => Hdl(w)[<<c, "wev">>] # Null
          /\ Hdl(w)[<<c, "rev">>] # "http_init_request"
      BY <3>1 DEF Sound, Links
    <3>3. x \in Conns /\ x \notin S
      BY <1>3, <3>1, <3>2 DEF LiveIn
    <3> QED BY <1>0, <3>1, <3>2, <3>3 DEF SameHdl
  <2>2. ASSUME NEW x \in Conns, Data(v)[x] = x
        PROVE  /\ x \in Opened(v)
               /\ UpOf(v)[x] # Null => UpOf(v)[x] # x /\ Data(v)[UpOf(v)[x]] = x
               /\ Hdl(v)[<<x, "rev">>] # "http_recv_upstream"
               /\ Hdl(v)[<<x, "wev">>] \notin {"http_proxy_pass", "process_connection_result_of_upstream"}
    <3>1. x \notin S /\ Data(w)[x] = x /\ x # r
      BY <1>0, <1>1, <1>4, <2>2, NullAssumption
    <3>2. x \in Opened(w)
      BY <3>1 DEF Sound, Links
    <3>3. ASSUME UpOf(v)[x] # Null PROVE UpOf(v)[x] # x /\ Data(v)[UpOf(v)[x]] = x
      <4>1. UpOf(v)[x] = UpOf(w)[x]
        BY <1>0, <3>1
      <4>2. UpOf(w)[x] # x /\ Data(w)[UpOf(w)[x]] = x /\ UpOf(w)[x] \in Conns
        <5>1. UpOf(w)[x] \in Conns \cup {Null}
          BY DEF Sound, Worlds, ReqType, UpOf
        <5>2. UpOf(w)[x] # x /\ Data(w)[UpOf(w)[x]] = x
          BY <3>1, <3>3, <4>1 DEF Sound, Links
        <5> QED BY <3>3, <4>1, <5>1, <5>2
      <4>3. UpOf(w)[x] \notin S
        BY <1>3, <3>1, <4>2
      <4> QED BY <1>0, <4>1, <4>2, <4>3
    <3>4. /\ Hdl(v)[<<x, "rev">>] # "http_recv_upstream"
          /\ Hdl(v)[<<x, "wev">>] \notin {"http_proxy_pass", "process_connection_result_of_upstream"}
      BY <1>0, <3>1 DEF Sound, Links, SameHdl
    <3> QED BY <1>0, <3>1, <3>2, <3>3, <3>4
  <2> QED BY <2>1, <2>2 DEF Links
<1>6. Keep(w, v)
  <2>1. ASSUME NEW c \in Conns, Hdl(v)[<<c, "rev">>] = "http_init_request"
        PROVE  Hdl(w)[<<c, "rev">>] = "http_init_request" /\ (c \in Used(w) => c \in Used(v))
    <3>1. Hdl(w)[<<c, "rev">>] = "http_init_request"
      BY <1>0, <2>1 DEF SameHdl
    <3>2. c \notin S
      <4>1. Data(w)[c] # Null => Hdl(w)[<<c, "rev">>] # "http_init_request"
        BY DEF Sound, Links
      <4> QED BY <1>1, <1>3, <3>1, <4>1
    <3> QED BY <1>0, <3>1, <3>2
  <2>2. ASSUME NEW x \in LiveIn(v), Data(v)[x] # x PROVE x \in LiveIn(w) /\ Data(w)[x] # x
    BY <1>0, <1>3, <2>2 DEF LiveIn
  <2> QED BY <2>1, <2>2 DEF Keep
<1> QED BY <1>0, <1>5, <1>6 DEF Safe, Sound

LEMMA ZeroReqType == ZeroReq \in ReqType
BY ServersAssumption DEF ZeroReq, ReqType

LEMMA HttpCloseRequestSafe ==
  ASSUME NEW w, Sound(w), NEW r, Has(w, r)
  PROVE  Safe(w, HttpCloseRequest(w, r))
<1> DEFINE v == HttpCloseConnection(w, r)
           u == v.req[r].upstream
           x == IF u = Null THEN v ELSE HttpCloseConnection(v, u)
           z == [x EXCEPT !.req[r] = ZeroReq]
           U == UpOf(w)[r]
<1>1. /\ r \in Conns /\ Data(w)[r] = r /\ r # Null /\ ConnOf(w)[r] = r
      /\ w.req[r].connection = r
      /\ UpOf(w)[r] # Null => UpOf(w)[r] \in Conns /\ UpOf(w)[r] # r /\ Data(w)[UpOf(w)[r]] = r
  <2>1. HasAll(w, r)
    BY HasFacts
  <2> QED BY <2>1 DEF HasAll, Used
<1>2. HttpCloseRequest(w, r) = z
  BY <1>1 DEF HttpCloseRequest
<1>3. Closes(w, v, r)
  BY <1>1, CloseIs DEF Sound
<1> HIDE DEF v
<1>4. v \in Worlds /\ Timers(v) /\ Watched(v) /\ Handlers(v)
  BY <1>1, <1>3, ClosesEvents DEF Sound, Closes
<1>5. /\ UpOf(v) = UpOf(w) /\ \A y \in Conns : y # r => ConnOf(v)[y] = ConnOf(w)[y]
      /\ ConnOf(v)[r] = Null
  <2>1. \A y \in Conns : UpOf(v)[y] = UpOf(w)[y]
    BY <1>1, <1>3 DEF Closes
  <2> QED BY <1>1, <1>3, <2>1 DEF Closes, UpOf
<1>6. u = U
  <2>1. u = UpOf(v)[r]
    BY <1>1 DEF UpOf
  <2> QED BY <1>5, <2>1
<1> HIDE DEF u
<1> DEFINE S == IF U = Null THEN {r} ELSE {r, U}
<1>7. /\ x \in Worlds /\ Timers(x) /\ Watched(x) /\ Handlers(x) /\ SameHdl(w, x)
      /\ \A d \in Conns : Data(x)[d] = IF d \in S THEN Null ELSE Data(w)[d]
      /\ Used(x) = Used(w) \ S /\ Opened(x) = Opened(w) \ S /\ Conned(x) = Conned(w) \ S
      /\ LiveIn(x) = LiveIn(w)
      /\ \A y \in Conns : y # r => ConnOf(x)[y] = ConnOf(w)[y] /\ UpOf(x)[y] = UpOf(w)[y]
  <2>1. CASE U = Null
    <3>1. x = v
      BY <1>6, <2>1
    <3> QED BY <1>3, <1>4, <1>5, <2>1, <3>1 DEF Closes
  <2>2. CASE U # Null
    <3>1. x = HttpCloseConnection(v, U) /\ U \in Conns /\ U # r
      BY <1>1, <1>6, <2>2
    <3>2. Data(v)[U] = r
      <4>1. Data(w)[U] = r
        BY <1>1, <2>2
      <4> QED BY <1>3, <3>1, <4>1 DEF Closes
    <3>3. Closes(v, x, U)
      BY <1>1, <1>4, <3>1, <3>2, CloseIs
    <3> HIDE DEF U, x
    <3>4. Timers(x) /\ Watched(x) /\ Handlers(x)
      BY <1>4, <3>1, <3>3, ClosesEvents
    <3>5. S = {r, U}
      BY <2>2
    <3> HIDE DEF S
    <3>6. x \in Worlds /\ SameHdl(w, x) /\ LiveIn(x) = LiveIn(w)
      BY <1>3, <3>3 DEF Closes, SameHdl
    <3>7. Used(x) = Used(w) \ S /\ Opened(x) = Opened(w) \ S /\ Conned(x) = Conned(w) \ S
      BY <1>3, <3>3, <3>5 DEF Closes
    <3>8. \A d \in Conns : Data(x)[d] = IF d \in S THEN Null ELSE Data(w)[d]
      BY <1>3, <3>3, <3>5 DEF Closes
    <3>9. \A y \in Conns : y # r => ConnOf(x)[y] = ConnOf(w)[y] /\ UpOf(x)[y] = UpOf(w)[y]
      BY <1>5, <3>2, <3>3 DEF Closes
    <3> QED BY <3>4, <3>6, <3>7, <3>8, <3>9
  <2> QED BY <2>1, <2>2
<1> HIDE DEF x
<1>8. ReqIs(x, z, r, ZeroReq)
  BY <1>1, <1>7, ZeroReqType, ReqIsSet
<1> HIDE DEF z
<1>9. /\ z \in Worlds /\ Timers(z) /\ Watched(z) /\ Handlers(z) /\ SameHdl(w, z)
  BY <1>7, <1>8 DEF ReqIs, SameEv, SameConn, SameSets, SameAct, SameTimers, SameHdl, Timers, Watched, Handlers
<1>10. /\ \A d \in Conns : Data(z)[d] = IF d \in S THEN Null ELSE Data(w)[d]
       /\ Used(z) = Used(w) \ S /\ Opened(z) = Opened(w) \ S /\ Conned(z) = Conned(w) \ S
  BY <1>7, <1>8 DEF ReqIs, SameConn
<1>11. LiveIn(z) = LiveIn(w) \ {r}
  BY <1>7, <1>8 DEF ReqIs, ZeroReq
<1>12. \A y \in Conns : y # r => ConnOf(z)[y] = ConnOf(w)[y] /\ UpOf(z)[y] = UpOf(w)[y]
  BY <1>7, <1>8 DEF ReqIs
<1>13. Frees(w, z, r, S)
  BY <1>9, <1>10, <1>11, <1>12 DEF Frees
<1>14. Safe(w, z)
  BY <1>13, FreesRequest DEF Ends
<1> QED BY <1>2, <1>14


-----------------------------------------------------------------------------
(***************************************************************************)
(* Handlers, error pages and the end of a response.                        *)
(***************************************************************************)
Handled(w, v, e, h) ==
  /\ Tame(w, v) /\ SameConn(w, v) /\ SameReq(w, v) /\ SameTimers(w, v)
  /\ Hdl(v)[e] = h /\ \A x \in Events : x # e => Hdl(v)[x] = Hdl(w)[x]

(* The handlers that a connection may be given: those of a client, those   *)
(* of a backend.                                                           *)
Fits(w, c, k, h) ==
  /\ Data(w)[c] # Null /\ h # "http_init_request"
  /\ h \in IF k = "rev" THEN ReadHandlers ELSE WriteHandlers
  /\ h = "http_proxy_pass" => Hdl(w)[<<c, "rev">>] # Null
  /\ h \in {"http_recv_upstream", "http_proxy_pass", "process_connection_result_of_upstream"} =>
       Data(w)[c] # c

LEMMA HandleTame ==
  ASSUME NEW w, Sound(w), NEW c \in Conns, NEW k \in Kinds, NEW h, Fits(w, c, k, h)
  PROVE  Handled(w, Handle(w, c, k, h), <<c, k>>, h)
<1> DEFINE v == Handle(w, c, k, h)
           e == <<c, k>>
<1>1. HandlerIs(w, v, e, h)
  BY HandlerSet DEF Handle, Sound, Fits
<1> HIDE DEF v
<1>2. e \in Events /\ h # Null
  BY NullAssumption DEF Events, Fits
<1>3. /\ v \in Worlds /\ SameConn(w, v) /\ SameReq(w, v) /\ SameSets(w, v)
      /\ SameAct(w, v) /\ SameTimers(w, v)
      /\ Hdl(v)[e] = h /\ \A x \in Events : x # e => Hdl(v)[x] = Hdl(w)[x]
  BY <1>1 DEF HandlerIs, Same
<1>4. \A x \in Events : Hdl(w)[x] # Null => Hdl(v)[x] # Null
  BY <1>2, <1>3
<1>5. Timers(v)
  <2>1. w.tree \subseteq Events
    BY DEF Sound, Worlds
  <2> QED BY <1>3, <1>4, <2>1 DEF Sound, Timers, SameTimers, SameConn, SameSets
<1>6. Watched(v)
  BY <1>3 DEF Sound, Watched, SameConn, SameSets, SameAct
<1>7. \A x \in Conns : <<x, "rev">> \in Events /\ <<x, "wev">> \in Events
                        /\ (Hdl(v)[<<x, "rev">>] = "http_init_request" =>
                              Hdl(w)[<<x, "rev">>] = "http_init_request")
  <2>1. \A x \in Conns : <<x, "rev">> \in Events /\ <<x, "wev">> \in Events
    BY DEF Events, Kinds
  <2> QED BY <1>3, <2>1 DEF Fits
<1>8. Handlers(v)
  <2>1. ASSUME NEW x \in Conns, Hdl(v)[<<x, "wev">>] = "http_proxy_pass"
        PROVE  Hdl(v)[<<x, "rev">>] # Null
    <3>1. CASE e = <<x, "wev">>
      <4>1. Hdl(w)[<<x, "rev">>] # Null
        BY <1>3, <2>1, <3>1 DEF Fits
      <4> QED BY <1>4, <1>7, <4>1
    <3>2. CASE e # <<x, "wev">>
      <4>1. Hdl(w)[<<x, "wev">>] = "http_proxy_pass"
        BY <1>3, <1>7, <2>1, <3>2
      <4>2. Hdl(w)[<<x, "rev">>] # Null
        BY <4>1 DEF Sound, Handlers
      <4> QED BY <1>4, <1>7, <4>2
    <3> QED BY <3>1, <3>2
  <2>2. ASSUME NEW x \in Used(v), Hdl(v)[<<x, "rev">>] = "http_init_request"
        PROVE  x \in Opened(v) /\ Hdl(v)[<<x, "wev">>] = Null
    <3>1. x \in Used(w) /\ x \in Conns /\ Opened(v) = Opened(w)
      BY <1>3 DEF SameConn, Used
    <3>2. Hdl(w)[<<x, "rev">>] = "http_init_request"
      BY <1>7, <2>2, <3>1
    <3>3. x # c
      BY <3>2 DEF Fits, Sound, Links
    <3>4. Hdl(v)[<<x, "wev">>] = Hdl(w)[<<x, "wev">>]
      BY <1>3, <1>7, <3>1, <3>3
    <3> QED BY <3>1, <3>2, <3>4 DEF Sound, Handlers
  <2>3. ASSUME NEW x \in Conns
        PROVE  /\ Hdl(v)[<<x, "rev">>] \in ReadHandlers \cup {Null}
               /\ Hdl(v)[<<x, "wev">>] \in WriteHandlers \cup {Null}
    <3>1. /\ Hdl(w)[<<x, "rev">>] \in ReadHandlers \cup {Null}
          /\ Hdl(w)[<<x, "wev">>] \in WriteHandlers \cup {Null}
      BY DEF Sound, Handlers
    <3>2. Hdl(v)[<<x, "rev">>] \in ReadHandlers \cup {Null}
      BY <1>3, <1>7, <3>1 DEF Fits
    <3>3. Hdl(v)[<<x, "wev">>] \in WriteHandlers \cup {Null}
      BY <1>3, <1>7, <3>1 DEF Fits
    <3> QED BY <3>2, <3>3
  <2> QED BY <2>1, <2>2, <2>3 DEF Handlers
<1>9. Links(v)
  <2>1. ASSUME NEW x \in Conns, Data(v)[x] = x
        PROVE  /\ Hdl(v)[<<x, "rev">>] # "http_recv_upstream"
               /\ Hdl(v)[<<x, "wev">>] \notin {"http_proxy_pass", "process_connection_result_of_upstream"}
    <3>1. /\ Hdl(w)[<<x, "rev">>] # "http_recv_upstream"
          /\ Hdl(w)[<<x, "wev">>] \notin {"http_proxy_pass", "process_connection_result_of_upstream"}
      BY <1>3, <2>1 DEF SameConn, Sound, Links
    <3>2. x = c => h \notin {"http_recv_upstream", "http_proxy_pass", "process_connection_result_of_upstream"}
      BY <1>3, <2>1 DEF Fits, SameConn
    <3>3. Hdl(v)[<<x, "rev">>] # "http_recv_upstream"
      BY <1>3, <1>7, <3>1, <3>2
    <3> QED BY <1>3, <1>7, <3>1, <3>2, <3>3
  <2>2. ASSUME NEW x \in Conns, Data(v)[x] # Null, NEW r, r = Data(v)[x]
        PROVE  /\ x \in Used(v) /\ r \in LiveIn(v) /\ (x = r \/ UpOf(v)[r] = x)
               /\ Data(v)[r] = r /\ ConnOf(v)[r] = r
               /\ x # r /\ x \in Conned(v) => Hdl(v)[<<x, "wev">>] # Null
               /\ Hdl(v)[<<x, "rev">>] # "http_init_request"
    <3>1. /\ x \in Used(w) /\ r \in LiveIn(w) /\ (x = r \/ UpOf(w)[r] = x)
          /\ Data(w)[r] = r /\ ConnOf(w)[r] = r
          /\ x # r /\ x \in Conned(w) => Hdl(w)[<<x, "wev">>] # Null
          /\ Hdl(w)[<<x, "rev">>] # "http_init_request"
      BY <1>3, <2>2 DEF SameConn, Sound, Links
    <3> QED BY <1>3, <1>4, <1>7, <3>1 DEF SameConn, SameReq
  <2>3. \A x \in Conns : Data(v)[x] = x =>
           x \in Opened(v) /\ (UpOf(v)[x] # Null => UpOf(v)[x] # x /\ Data(v)[UpOf(v)[x]] = x)
    BY <1>3 DEF SameConn, SameReq, Sound, Links
  <2> QED BY <2>1, <2>2, <2>3 DEF Links
<1>10. Keep(w, v)
  BY <1>3, <1>7 DEF Keep, SameConn, SameReq
<1>11. Grow(w, v)
  BY <1>3, <1>4 DEF Grow, SameConn
<1> QED BY <1>3, <1>5, <1>6, <1>8, <1>9, <1>10, <1>11 DEF Handled, Tame, Sound, v

LEMMA HandledFacts ==
  ASSUME NEW w, NEW v, NEW e \in Events, NEW h, Handled(w, v, e, h)
  PROVE  Tame(w, v) /\ Sound(v) /\ Data(v) = Data(w) /\ Hdl(v)[e] = h
BY DEF Handled, Tame, SameConn

(* construct_err of a request that has its connection.                     *)
LEMMA ConstructErrTame ==
  ASSUME NEW w, Sound(w), NEW r, Has(w, r)
  PROVE  Tame(w, ConstructErr(w, r))
<1> DEFINE a == KqueueAddEvent(w, r, "wev")
           b == KqueueDelEvent(a, r, "rev")
           d == Handle(b, r, "wev", "handle_response")
           x == [d EXCEPT !.req[r].sb = {"page"}]
           y == [x EXCEPT !.req[r].response_done = TRUE]
           z == [y EXCEPT !.req[r].keep_alive = FALSE]
<1>1. HasAll(w, r)
  BY HasFacts
<1>2. r \in Conns /\ r \in Opened(w) /\ w.req[r].connection = r /\ r # Null
  BY <1>1 DEF HasAll
<1>3. ConstructErr(w, r) = z
  BY <1>2 DEF ConstructErr
<1>4. "rev" \in Kinds /\ "wev" \in Kinds
  BY DEF Kinds
<1>5. Quiet(w, a)
  BY <1>2, <1>4, KqueueAddEventQuiet
<1> HIDE DEF a
<1>6. Sound(a)
  BY <1>5 DEF Quiet
<1>7. Quiet(a, b)
  BY <1>2, <1>4, <1>6, KqueueDelEventQuiet
<1> HIDE DEF b
<1>8. Sound(b)
  BY <1>7 DEF Quiet
<1>9. Handled(b, d, <<r, "wev">>, "handle_response")
  <2>1. Data(b)[r] = r
    BY <1>1, <1>5, <1>7 DEF HasAll, Quiet, Frame, SameConn
  <2>2. Fits(b, r, "wev", "handle_response")
    BY <1>2, <2>1 DEF Fits, WriteHandlers
  <2> QED BY <1>2, <1>4, <1>8, <2>2, HandleTame
<1> HIDE DEF d
<1>10. Tame(b, d) /\ Sound(d)
  BY <1>9 DEF Handled, Tame
<1>11. Quiet(d, x)
  BY <1>2, <1>10, SbQuiet
<1> HIDE DEF x
<1>12. Sound(x)
  BY <1>11 DEF Quiet
<1>13. Quiet(x, y)
  BY <1>2, <1>12, DoneQuiet
<1> HIDE DEF y
<1>14. Sound(y)
  BY <1>13 DEF Quiet
<1>15. Quiet(y, z)
  BY <1>2, <1>14, KeepAliveQuiet
<1> HIDE DEF z
<1>16. Tame(w, b)
  BY <1>5, <1>7, QuietTame, TameTrans
<1>17. Tame(d, z)
  BY <1>11, <1>13, <1>15, QuietTame, TameTrans
<1>18. Tame(w, d)
  BY <1>10, <1>16, TameTrans
<1>19. Tame(w, z)
  BY <1>17, <1>18, TameTrans
<1> QED BY <1>3, <1>19

(* http_clear_request: the backend's connection is closed, the request     *)
(* starts anew on its own.                                                 *)
LEMMA HttpClearRequestSafe ==
  ASSUME NEW w, Sound(w), NEW r, Has(w, r)
  PROVE  Safe(w, HttpClearRequest(w, r)) /\ Has(HttpClearRequest(w, r), r)
<1> DEFINE v == IF UpOf(w)[r] = Null THEN w ELSE HttpCloseConnection(w, UpOf(w)[r])
           q == [ZeroReq EXCEPT !.live = TRUE, !.connection = r]
           x == [v EXCEPT !.req[r] = q]
           z == [x EXCEPT !.conn[r].idle = TRUE]
<1>1. HasAll(w, r)
  BY HasFacts
<1>2. r \in Conns /\ w.req[r].connection = r /\ w.req[r].upstream = UpOf(w)[r] /\ r # Null
  BY <1>1 DEF HasAll
<1>3. HttpClearRequest(w, r) = z
  BY <1>2 DEF HttpClearRequest
<1>4. Safe(w, v) /\ Has(v, r) /\ UpOf(v)[r] = Null
  <2>1. CASE UpOf(w)[r] = Null
    BY <2>1, Stays
  <2>2. CASE UpOf(w)[r] # Null
    <3> DEFINE u == UpOf(w)[r]
    <3>1. u \in Conns /\ Data(w)[u] = r /\ u # r
      BY <1>1, <2>2 DEF HasAll
    <3> HIDE DEF u
    <3> DEFINE y == HttpCloseConnection(w, u)
    <3>2. v = y
      BY <2>2 DEF u
    <3> HIDE DEF v
    <3> SUFFICES Safe(w, y) /\ Has(y, r) /\ UpOf(y)[r] = Null
      BY <3>2
    <3>3. y = HttpCloseConnection(w, u)
      OBVIOUS
    <3> HIDE DEF y
    <3>4. Safe(w, y) /\ Has(y, Data(w)[u]) /\ UpOf(y)[Data(w)[u]] = Null
      BY <1>2, <3>1, <3>3, CloseUpstream
    <3> QED BY <3>1, <3>4
  <2> QED BY <2>1, <2>2
<1> HIDE DEF v
<1>5. q \in ReqType /\ q.live = TRUE /\ q.connection = r /\ q.upstream = Null
  <2> USE DEF ReqType
  <2> DEFINE p == ZeroReq
             y == [p EXCEPT !.live = TRUE]
  <2>1. p \in ReqType /\ p.upstream = Null
    BY ZeroReqType DEF ZeroReq
  <2> HIDE DEF p
  <2>2. y \in ReqType /\ y.live = TRUE /\ y.upstream = Null
    BY <2>1
  <2>3. q = [y EXCEPT !.connection = r]
    BY <2>1 DEF p
  <2> HIDE DEF y, q
  <2> QED BY <1>2, <2>2, <2>3
<1> HIDE DEF q
<1>6. Sound(v) /\ HasAll(v, r)
  BY <1>4, HasFacts DEF Safe
<1>7. /\ v.req[r].live = TRUE /\ v.req[r].connection = r /\ v.req[r].upstream = Null
  BY <1>4, <1>6 DEF HasAll, LiveIn, Sound, Worlds, ReqType
<1>8. Quiet(v, x)
  BY <1>2, <1>5, <1>6, <1>7, ReqQuiet
<1> HIDE DEF x
<1>9. Sound(x)
  BY <1>8 DEF Quiet
<1>10. IdleIs(x, z, r, TRUE)
  BY <1>2, <1>9, IdleSet DEF Sound
<1> HIDE DEF z
<1>11. Quiet(x, z)
  <2>1. Frame(x, z) /\ z \in Worlds /\ SameEv(x, z) /\ SameConn(x, z) /\ SameSets(x, z)
    BY <1>10 DEF IdleIs, Frame, SameEv
  <2>2. Handlers(z) /\ Links(z)
    BY <1>9, <2>1, FrameSound
  <2>3. Timers(z) /\ Watched(z)
    BY <1>9, <2>1 DEF Sound, Timers, Watched, SameEv, SameAct, SameTimers, SameHdl, SameConn, SameSets
  <2> QED BY <2>1, <2>2, <2>3 DEF Quiet, Sound
<1>12. Tame(v, z)
  BY <1>8, <1>11, QuietTame, TameTrans
<1>13. Safe(w, z)
  BY <1>4, <1>12, TameSafe, SafeTrans
<1>14. Has(z, r)
  BY <1>4, <1>6, <1>12, TameHas
<1> QED BY <1>3, <1>13, <1>14

LEMMA HttpResponseDoneSafe ==
  ASSUME NEW w, Sound(w), NEW r, Has(w, r)
  PROVE  Safe(w, HttpResponseDone(w, r))
<1>1. CASE ~w.req[r].keep_alive
  <2>1. HttpResponseDone(w, r) = HttpCloseRequest(w, r)
    BY <1>1 DEF HttpResponseDone
  <2> QED BY <2>1, HttpCloseRequestSafe
<1>2. CASE w.req[r].keep_alive
  <2> DEFINE a == HttpClearRequest(w, r)
             b == KqueueDelEvent(a, r, "wev")
             d == KqueueAddEvent(b, r, "rev")
             x == Handle(d, r, "rev", "ngx_http_process_request_line")
             z == EventAddTimer(x, r, "rev")
  <2>1. HasAll(w, r)
    BY HasFacts
  <2>2. r \in Conns /\ w.req[r].connection = r /\ r # Null
    BY <2>1 DEF HasAll
  <2>3. HttpResponseDone(w, r) = z
    BY <1>2, <2>2 DEF HttpResponseDone
  <2>4. "rev" \in Kinds /\ "wev" \in Kinds
    BY DEF Kinds
  <2>5. Safe(w, a) /\ Has(a, r) /\ Sound(a)
    BY HttpClearRequestSafe DEF Safe
  <2> HIDE DEF a
  <2>6. Quiet(a, b)
    BY <2>2, <2>4, <2>5, KqueueDelEventQuiet
  <2> HIDE DEF b
  <2>7. Sound(b) /\ Tame(a, b) /\ Has(b, r)
    BY <2>5, <2>6, QuietTame, TameHas DEF Quiet
  <2>8. HasAll(b, r)
    BY <2>7, HasFacts
  <2>9. Quiet(b, d)
    BY <2>4, <2>7, <2>8, KqueueAddEventQuiet DEF HasAll
  <2> HIDE DEF d
  <2>10. Sound(d) /\ Tame(b, d) /\ Has(d, r)
    BY <2>7, <2>9, QuietTame, TameHas DEF Quiet
  <2>11. Handled(d, x, <<r, "rev">>, "ngx_http_process_request_line")
    <3>1. Fits(d, r, "rev", "ngx_http_process_request_line")
      BY <2>2, <2>10 DEF Fits, Has, ReadHandlers
    <3> QED BY <2>2, <2>4, <2>10, <3>1, HandleTame
  <2> HIDE DEF x
  <2>12. Tame(d, x) /\ Sound(x) /\ Hdl(x)[<<r, "rev">>] = "ngx_http_process_request_line"
    BY <2>11 DEF Handled, Tame
  <2>13. Has(x, r)
    BY <2>10, <2>12, TameHas
  <2>14. HasAll(x, r)
    BY <2>12, <2>13, HasFacts
  <2>15. r \in Used(x) /\ Hdl(x)[<<r, "rev">>] # Null
    BY <2>12, <2>14, NullAssumption DEF HasAll, ReadHandlers
  <2>16. Quiet(x, z)
    BY <2>4, <2>12, <2>15, EventAddTimerQuiet
  <2> HIDE DEF z
  <2>17. Tame(a, d)
    BY <2>7, <2>10, TameTrans
  <2>18. Tame(d, z)
    BY <2>12, <2>16, QuietTame, TameTrans
  <2>19. Tame(a, z)
    BY <2>17, <2>18, TameTrans
  <2>20. Safe(w, z)
    BY <2>5, <2>19, TameSafe, SafeTrans
  <2> QED BY <2>3, <2>20
<1> QED BY <1>1, <1>2


-----------------------------------------------------------------------------
(***************************************************************************)
(* Connecting to a backend.                                                *)
(***************************************************************************)
(* Tame, and no link changes.                                              *)
Level(w, v) == Tame(w, v) /\ SameReq(w, v) /\ Data(v) = Data(w)

LEMMA LevelTrans ==
  ASSUME NEW u, NEW v, NEW w, Level(u, v), Level(v, w)
  PROVE  Level(u, w)
BY TameTrans DEF Level, SameReq

LEMMA QuietLevel ==
  ASSUME NEW w, NEW v, Quiet(w, v)
  PROVE  Level(w, v)
BY QuietTame DEF Level, Quiet, Frame, SameConn

LEMMA HandledLevel ==
  ASSUME NEW w, NEW v, NEW e, NEW h, Handled(w, v, e, h)
  PROVE  Level(w, v)
BY DEF Level, Handled, SameConn

(* The socket of the backend is opened.                                    *)
LEMMA OpenLevel ==
  ASSUME NEW w, Sound(w), NEW u \in Used(w)
  PROVE  LET v == [w EXCEPT !.conn[u].open = TRUE]
         IN  Level(w, v) /\ SameHdl(w, v) /\ u \in Opened(v) /\ v.req = w.req
<1> DEFINE v == [w EXCEPT !.conn[u].open = TRUE]
<1>1. u \in Conns /\ w \in Worlds
  BY DEF Used, Sound
<1>2. OpenIs(w, v, u, TRUE) /\ v.req = w.req
  BY <1>1, OpenSet DEF Worlds
<1> HIDE DEF v
<1>3. /\ v \in Worlds /\ SameAct(w, v) /\ SameTimers(w, v) /\ SameHdl(w, v) /\ SameReq(w, v)
      /\ v.tree = w.tree /\ v.kq = w.kq
      /\ Used(v) = Used(w) /\ Conned(v) = Conned(w) /\ Data(v) = Data(w)
      /\ Opened(v) = Opened(w) \cup {u}
  BY <1>2 DEF OpenIs, SameEv, SameSets
<1>4. Timers(v)
  BY <1>3 DEF Sound, Timers, SameTimers, SameHdl
<1>5. Watched(v)
  BY <1>3 DEF Sound, Watched, SameAct
<1>6. Handlers(v)
  BY <1>3 DEF Sound, Handlers, SameHdl
<1>7. Links(v)
  BY <1>3 DEF Sound, Links, SameHdl, SameReq
<1>8. Keep(w, v) /\ Grow(w, v)
  BY <1>3 DEF Keep, Grow, SameHdl, SameReq
<1>9. Level(w, v)
  BY <1>3, <1>4, <1>5, <1>6, <1>7, <1>8 DEF Level, Tame, Sound
<1>10. Level(w, v) /\ SameHdl(w, v) /\ u \in Opened(v) /\ v.req = w.req
  BY <1>2, <1>3, <1>9
<1> QED BY <1>10 DEF v

(* init_upstream_connection: the three fields change before anything is    *)
(* registered.                                                             *)
LEMMA InitUpstreamConnectionLevel ==
  ASSUME NEW w, Sound(w), NEW u \in Opened(w), Data(w)[u] # Null, Data(w)[u] # u
  PROVE  Level(w, InitUpstreamConnection(w, u))
<1> DEFINE v == [w EXCEPT !.conn[u].connected = TRUE]
           x == Handle(v, u, "wev", "http_proxy_pass")
           y == Handle(x, u, "rev", "http_recv_upstream")
           a == KqueueAddEvent(y, u, "rev")
           z == EventAddTimer(a, u, "wev")
           r == <<u, "rev">>
           s == <<u, "wev">>
<1>1. u \in Conns /\ w \in Worlds /\ u \in Used(w)
  BY DEF Opened, Sound, Watched
<1>2. InitUpstreamConnection(w, u) = z
  BY DEF InitUpstreamConnection
<1>3. "rev" \in Kinds /\ "wev" \in Kinds
  BY DEF Kinds
<1>4. ConnedIs(w, v, u, TRUE)
  BY <1>1, ConnedSet
<1> HIDE DEF v
<1>5. v \in Worlds
  BY <1>4 DEF ConnedIs
<1>6. HandlerIs(v, x, s, "http_proxy_pass")
  BY <1>1, <1>3, <1>5, HandlerSet DEF Handle, WriteHandlers
<1> HIDE DEF x
<1>7. x \in Worlds
  BY <1>6 DEF HandlerIs, Same
<1>8. HandlerIs(x, y, r, "http_recv_upstream")
  BY <1>1, <1>3, <1>7, HandlerSet DEF Handle, ReadHandlers
<1> HIDE DEF y
<1>9. r # s /\ r \in Events /\ s \in Events
  BY <1>1 DEF Events, Kinds
<1>10. /\ y \in Worlds /\ SameAct(w, y) /\ SameTimers(w, y) /\ SameReq(w, y) /\ SameSets(w, y)
       /\ Used(y) = Used(w) /\ Opened(y) = Opened(w) /\ Data(y) = Data(w)
       /\ Conned(y) = Conned(w) \cup {u}
  BY <1>4, <1>6, <1>8 DEF ConnedIs, HandlerIs, Same, SameConn, SameEv, SameAct, SameTimers,
     SameReq, SameSets
<1>11. /\ Hdl(y)[r] = "http_recv_upstream" /\ Hdl(y)[s] = "http_proxy_pass"
       /\ \A e \in Events : e # r /\ e # s => Hdl(y)[e] = Hdl(w)[e]
  BY <1>4, <1>6, <1>8, <1>9 DEF ConnedIs, HandlerIs, SameEv, SameHdl
<1>12. Hdl(y)[r] # Null /\ Hdl(y)[s] # Null
  BY <1>11, NullAssumption DEF ReadHandlers, WriteHandlers
<1>13. \A c \in Conns : <<c, "rev">> \in Events /\ <<c, "wev">> \in Events
                         /\ <<c, "rev">> # s /\ <<c, "wev">> # r
                         /\ (c # u => <<c, "rev">> # r /\ <<c, "wev">> # s)
  BY DEF Events, Kinds
<1> HIDE DEF r, s
<1>14. \A c \in Conns : c # u => /\ Hdl(y)[<<c, "rev">>] = Hdl(w)[<<c, "rev">>]
                                 /\ Hdl(y)[<<c, "wev">>] = Hdl(w)[<<c, "wev">>]
  BY <1>11, <1>13
<1>15. /\ Hdl(y)[<<u, "rev">>] = "http_recv_upstream" /\ Hdl(y)[<<u, "wev">>] = "http_proxy_pass"
       /\ Hdl(y)[<<u, "rev">>] # Null /\ Hdl(y)[<<u, "wev">>] # Null
  BY <1>11, <1>12 DEF r, s
<1>16. Timers(y)
  <2>1. w.tree \subseteq Events
    BY DEF Sound, Worlds
  <2>2. \A e \in Events : Hdl(w)[e] # Null => Hdl(y)[e] # Null
    BY <1>11, <1>12
  <2> QED BY <1>10, <2>1, <2>2 DEF Sound, Timers, SameTimers, SameSets
<1>17. Watched(y)
  BY <1>10 DEF Sound, Watched, SameAct, SameSets
<1>18. Handlers(y)
  <2>1. ASSUME NEW c \in Conns
        PROVE  /\ Hdl(y)[<<c, "rev">>] \in ReadHandlers \cup {Null}
               /\ Hdl(y)[<<c, "wev">>] \in WriteHandlers \cup {Null}
               /\ Hdl(y)[<<c, "wev">>] = "http_proxy_pass" => Hdl(y)[<<c, "rev">>] # Null
    <3>1. CASE c = u
      BY <1>15, <3>1 DEF ReadHandlers, WriteHandlers
    <3>2. CASE c # u
      BY <1>14, <3>2 DEF Sound, Handlers
    <3> QED BY <3>1, <3>2
  <2>2. ASSUME NEW c \in Used(y), Hdl(y)[<<c, "rev">>] = "http_init_request"
        PROVE  c \in Opened(y) /\ Hdl(y)[<<c, "wev">>] = Null
    <3>1. c # u /\ c \in Used(w) /\ c \in Conns
      BY <1>10, <1>15, <2>2 DEF Used
    <3> QED BY <1>10, <1>14, <2>2, <3>1 DEF Sound, Handlers
  <2> QED BY <2>1, <2>2 DEF Handlers
<1>19. Links(y)
  <2>1. ASSUME NEW c \in Conns, Data(y)[c] # Null, NEW q, q = Data(y)[c]
        PROVE  /\ c \in Used(y) /\ q \in LiveIn(y) /\ (c = q \/ UpOf(y)[q] = c)
               /\ Data(y)[q] = q /\ ConnOf(y)[q] = q
               /\ c # q /\ c \in Conned(y) => Hdl(y)[<<c, "wev">>] # Null
               /\ Hdl(y)[<<c, "rev">>] # "http_init_request"
    <3>1. /\ c \in Used(w) /\ q \in LiveIn(w) /\ (c = q \/ UpOf(w)[q] = c)
          /\ Data(w)[q] = q /\ ConnOf(w)[q] = q
          /\ c # q /\ c \in Conned(w) => Hdl(w)[<<c, "wev">>] # Null
          /\ Hdl(w)[<<c, "rev">>] # "http_init_request"
      BY <1>10, <2>1 DEF Sound, Links
    <3> QED BY <1>10, <1>14, <1>15, <3>1 DEF SameReq
  <2>2. ASSUME NEW c \in Conns, Data(y)[c] = c
        PROVE  /\ c \in Opened(y)
               /\ UpOf(y)[c] # Null => UpOf(y)[c] # c /\ Data(y)[UpOf(y)[c]] = c
               /\ Hdl(y)[<<c, "rev">>] # "http_recv_upstream"
               /\ Hdl(y)[<<c, "wev">>] \notin {"http_proxy_pass", "process_connection_result_of_upstream"}
    <3>1. c # u /\ Data(w)[c] = c
      BY <1>10, <2>2
    <3> QED BY <1>10, <1>14, <3>1 DEF SameReq, Sound, Links
  <2> QED BY <2>1, <2>2 DEF Links
<1>20. Keep(w, y)
  BY <1>10, <1>14, <1>15 DEF Keep, SameReq
<1>21. Grow(w, y)
  <2>1. \A e \in Events : Hdl(w)[e] # Null => Hdl(y)[e] # Null
    BY <1>11, <1>12
  <2> QED BY <1>10, <2>1 DEF Grow
<1>22. Level(w, y) /\ Sound(y)
  BY <1>10, <1>16, <1>17, <1>18, <1>19, <1>20, <1>21 DEF Level, Tame, Sound
<1>23. Quiet(y, a)
  BY <1>3, <1>10, <1>22, KqueueAddEventQuiet
<1> HIDE DEF a
<1>24. Sound(a) /\ u \in Used(a) /\ Hdl(a)[<<u, "wev">>] # Null
  BY <1>1, <1>10, <1>15, <1>23 DEF Quiet, Frame, SameConn, SameHdl
<1>25. Quiet(a, z)
  BY <1>3, <1>24, EventAddTimerQuiet
<1> HIDE DEF z
<1>26. Level(y, z)
  BY <1>23, <1>25, QuietTrans, QuietLevel
<1> QED BY <1>2, <1>22, <1>26, LevelTrans

LEMMA TryConnectLevel ==
  ASSUME NEW w, Sound(w), NEW r, Has(w, r), UpOf(w)[r] # Null
  PROVE  Level(w, TryConnectOk(w, r)) /\ Level(w, TryConnectAgain(w, r))
<1> DEFINE u == UpOf(w)[r]
           a == [w EXCEPT !.conn[u].open = TRUE]
           b == [a EXCEPT !.req[r].cur = TRUE]
           c == Handle(b, u, "wev", "process_connection_result_of_upstream")
           d == KqueueAddEvent(c, u, "wev")
           z == EventAddTimer(d, u, "wev")
<1>1. HasAll(w, r)
  BY HasFacts
<1>2. /\ w.req[r].upstream = u /\ u \in Used(w) /\ u \in Conns /\ u # r /\ Data(w)[u] = r
      /\ r \in Conns /\ r # Null
  BY <1>1 DEF HasAll, Used
<1>3. "wev" \in Kinds /\ "rev" \in Kinds
  BY DEF Kinds
<1> HIDE DEF u
<1>4. TryConnectOk(w, r) = InitUpstreamConnection(b, u) /\ TryConnectAgain(w, r) = z
  BY <1>2 DEF TryConnectOk, TryConnectAgain
<1>5. Level(w, a) /\ u \in Opened(a) /\ Sound(a)
  BY <1>2, OpenLevel DEF Level, Tame
<1> HIDE DEF a
<1>6. Quiet(a, b)
  BY <1>2, <1>5, CurQuiet
<1> HIDE DEF b
<1>7. Level(w, b) /\ Sound(b) /\ u \in Opened(b) /\ Data(b)[u] = r
  <2>1. Level(w, b)
    BY <1>5, <1>6, QuietLevel, LevelTrans
  <2> QED BY <1>2, <1>5, <1>6, <2>1 DEF Level, Tame, Quiet, Frame, SameConn
<1>8. Level(b, InitUpstreamConnection(b, u))
  BY <1>2, <1>7, InitUpstreamConnectionLevel
<1>9. Handled(b, c, <<u, "wev">>, "process_connection_result_of_upstream")
  <2>1. Fits(b, u, "wev", "process_connection_result_of_upstream")
    BY <1>2, <1>7 DEF Fits, WriteHandlers
  <2> QED BY <1>2, <1>3, <1>7, <2>1, HandleTame
<1> HIDE DEF c
<1>10. /\ Level(b, c) /\ Sound(c) /\ u \in Opened(c) /\ u \in Used(c)
       /\ Hdl(c)[<<u, "wev">>] # Null
  <2>1. Level(b, c) /\ Sound(c)
    BY <1>9, HandledLevel DEF Level, Tame
  <2>2. Hdl(c)[<<u, "wev">>] # Null
    BY <1>9, NullAssumption DEF Handled, WriteHandlers
  <2>3. u \in Opened(c)
    BY <1>7, <1>9 DEF Handled, SameConn
  <2> QED BY <2>1, <2>2, <2>3 DEF Sound, Watched
<1>11. Quiet(c, d)
  BY <1>3, <1>10, KqueueAddEventQuiet
<1> HIDE DEF d
<1>12. Sound(d) /\ u \in Used(d) /\ Hdl(d)[<<u, "wev">>] # Null
  BY <1>10, <1>11 DEF Quiet, Frame, SameConn, SameHdl
<1>13. Quiet(d, z)
  BY <1>3, <1>12, EventAddTimerQuiet
<1> HIDE DEF z
<1>14. Level(c, z)
  BY <1>11, <1>13, QuietTrans, QuietLevel
<1>15. Level(b, z)
  BY <1>10, <1>14, LevelTrans
<1> QED BY <1>4, <1>7, <1>8, <1>15, LevelTrans

LEMMA DelEventReq ==
  ASSUME NEW w \in Worlds, NEW c, NEW k
  PROVE  KqueueDelEvent(w, c, k).req = w.req
BY DEF KqueueDelEvent, EventDelTimer, Worlds

LEMMA TryConnectErrorsLevel ==
  ASSUME NEW w, Sound(w), NEW r, Has(w, r), UpOf(w)[r] # Null,
         NEW v \in TryConnectErrors(w, r)
  PROVE  Level(w, v) /\ v.req = w.req
<1> DEFINE u == UpOf(w)[r]
           a == [w EXCEPT !.conn[u].open = TRUE]
           b == KqueueDelEvent(a, u, "wev")
<1>1. HasAll(w, r)
  BY HasFacts
<1>2. /\ w.req[r].upstream = u /\ u \in Used(w) /\ u \in Conns
  BY <1>1 DEF HasAll, Used
<1>3. "wev" \in Kinds
  BY DEF Kinds
<1> HIDE DEF u
<1>4. v = w \/ v = b
  BY <1>2 DEF TryConnectErrors
<1>5. Level(w, a) /\ Sound(a) /\ a.req = w.req
  BY <1>2, OpenLevel DEF Level, Tame
<1> HIDE DEF a
<1>6. Quiet(a, b)
  BY <1>2, <1>3, <1>5, KqueueDelEventQuiet
<1>7. b.req = w.req
  BY <1>5, DelEventReq DEF Sound
<1> HIDE DEF b
<1>8. Level(w, b)
  BY <1>5, <1>6, QuietLevel, LevelTrans
<1>9. Level(w, w)
  BY Stays, QuietLevel
<1> QED BY <1>4, <1>7, <1>8, <1>9

(* get_server_by_round: in whichever way its attempts end.                 *)
LEMMA GetServerByRoundTame ==
  ASSUME NEW w, Sound(w), NEW r, Has(w, r), NEW v \in GetServerByRound(w, r)
  PROVE  Tame(w, v)
<1> DEFINE t == w.req[r].tries
           left == Servers - t
           failed(n) == {[x EXCEPT !.req[r].tries = @ + n] :
                           x \in IF n = 0 THEN {w} ELSE TryConnectErrors(w, r)}
           taken == {[x EXCEPT !.req[r].tries = @ + 1] :
                       x \in UNION {failed(n) : n \in 0 .. left - 1}}
<1>1. HasAll(w, r)
  BY HasFacts
<1>2. r \in Conns /\ w.req[r].upstream = UpOf(w)[r]
  BY <1>1 DEF HasAll
<1>3. t \in 0 .. Servers /\ Servers \in Nat
  BY <1>2, ServersAssumption DEF Sound, Worlds, ReqType
<1>4. CASE UpOf(w)[r] = Null
  <2> DEFINE a == [w EXCEPT !.req[r].tries = Servers]
  <2>1. v = Crash(w) \/ v = ConstructErr(a, r)
    BY <1>2, <1>4 DEF GetServerByRound
  <2>2. Tame(w, Crash(w))
    BY CrashQuiet, QuietTame DEF Crash
  <2>3. Quiet(w, a)
    BY <1>2, <1>3, TriesQuiet
  <2> HIDE DEF a
  <2>4. Tame(w, a) /\ Sound(a) /\ Has(a, r)
    BY <2>3, QuietTame, TameHas DEF Quiet
  <2>5. Tame(w, ConstructErr(a, r))
    BY <2>4, ConstructErrTame, TameTrans
  <2> QED BY <2>1, <2>2, <2>5
<1>5. CASE UpOf(w)[r] # Null
  <2>1. \/ \E x \in taken : v = TryConnectOk(x, r) \/ v = TryConnectAgain(x, r)
        \/ \E x \in failed(left) : v = ConstructErr(x, r)
    BY <1>2, <1>5 DEF GetServerByRound
  <2>2. ASSUME NEW n \in 0 .. left, NEW x \in failed(n)
        PROVE  Level(w, x) /\ x.req[r].tries = t + n
    <3>1. PICK y \in IF n = 0 THEN {w} ELSE TryConnectErrors(w, r) :
               x = [y EXCEPT !.req[r].tries = @ + n]
      OBVIOUS
    <3>2. Level(w, y) /\ y.req = w.req
      <4>1. CASE n = 0
        BY <3>1, <4>1, Stays, QuietLevel
      <4>2. CASE n # 0
        BY <1>5, <3>1, <4>2, TryConnectErrorsLevel
      <4> QED BY <4>1, <4>2
    <3>3. Sound(y) /\ y \in Worlds
      BY <3>2 DEF Level, Tame, Sound
    <3> DEFINE m == t + n
    <3>4. m \in 0 .. Servers
      BY <1>3
    <3>5. x = [y EXCEPT !.req[r].tries = m]
      BY <3>1, <3>2
    <3> HIDE DEF m
    <3>6. Quiet(y, x)
      BY <1>2, <3>3, <3>4, <3>5, TriesQuiet
    <3>7. x.req[r].tries = m
      BY <1>2, <3>3, <3>5 DEF Worlds, ReqType
    <3> QED BY <3>2, <3>6, <3>7, QuietLevel, LevelTrans DEF m
  <2>3. ASSUME NEW x \in taken
        PROVE  Level(w, x)
    <3>0. PICK n \in 0 .. left - 1 : \E y \in failed(n) : x = [y EXCEPT !.req[r].tries = @ + 1]
      OBVIOUS
    <3>1. PICK y \in failed(n) : x = [y EXCEPT !.req[r].tries = @ + 1]
      BY <3>0
    <3>2. n \in 0 .. left
      BY <1>3
    <3> HIDE DEF failed
    <3>3. Level(w, y) /\ y.req[r].tries = t + n
      BY <2>2, <3>2
    <3> DEFINE m == t + n + 1
    <3>4. m \in 0 .. Servers
      BY <1>3
    <3>5. x = [y EXCEPT !.req[r].tries = m]
      BY <3>1, <3>3
    <3> HIDE DEF m
    <3>6. Quiet(y, x)
      BY <1>2, <3>3, <3>4, <3>5, TriesQuiet DEF Level, Tame
    <3> QED BY <3>3, <3>6, QuietLevel, LevelTrans
  <2> HIDE DEF taken, failed
  <2>4. ASSUME NEW x, Level(w, x)
        PROVE  /\ Tame(w, TryConnectOk(x, r)) /\ Tame(w, TryConnectAgain(x, r))
               /\ Tame(w, ConstructErr(x, r))
    <3>1. Sound(x) /\ Tame(w, x) /\ Has(x, r) /\ UpOf(x)[r] # Null
      BY <1>5, <2>4, TameHas DEF Level, Tame, SameReq
    <3>2. Tame(x, TryConnectOk(x, r)) /\ Tame(x, TryConnectAgain(x, r))
      BY <3>1, TryConnectLevel DEF Level
    <3>3. Tame(x, ConstructErr(x, r))
      BY <3>1, ConstructErrTame
    <3> QED BY <3>1, <3>2, <3>3, TameTrans
  <2>5. left \in 0 .. left
    BY <1>3
  <2> HIDE DEF left
  <2> QED BY <2>1, <2>2, <2>3, <2>4, <2>5
<1> QED BY <1>4, <1>5


-----------------------------------------------------------------------------
(***************************************************************************)
(* The callbacks.                                                          *)
(***************************************************************************)
LEMMA CrashTame ==
  ASSUME NEW w, Sound(w)
  PROVE  Tame(w, Crash(w)) /\ Safe(w, Crash(w))
BY CrashQuiet, QuietTame DEF Crash

(* What a callback finds when its own tests have passed.                   *)
LEMMA Found ==
  ASSUME NEW w, Sound(w), NEW c \in Conns, w.conn[c].data # Null
  PROVE  HasData(w, c, w.conn[c].data) /\ Data(w)[c] = w.conn[c].data
<1>1. Data(w)[c] = w.conn[c].data
  BY DEF Data
<1> QED BY <1>1, DataHas

LEMMA ProcessConnectionResultSafe ==
  ASSUME NEW w, Sound(w), NEW u \in Conns,
         Hdl(w)[<<u, "wev">>] = "process_connection_result_of_upstream",
         NEW v \in ProcessConnectionResult(w, u)
  PROVE  Safe(w, v)
<1> DEFINE r == w.conn[u].data
           a == [w EXCEPT !.req[r].cur = FALSE]
           fail == KqueueDelEvent(a, u, "wev")
<1>1. CASE ~w.conn[u].open
  <2>1. v = w
    BY <1>1 DEF ProcessConnectionResult
  <2> QED BY <2>1, Stays
<1>2. CASE w.conn[u].open /\ (r = Null \/ ~w.req[r].cur)
  <2>1. v = Crash(w)
    BY <1>2 DEF ProcessConnectionResult
  <2> QED BY <2>1, CrashTame
<1>3. CASE w.conn[u].open /\ r # Null /\ w.req[r].cur
  <2>1. \/ v = ConstructErr(w, r) \/ v = InitUpstreamConnection(w, u)
        \/ v \in GetServerByRound(fail, r)
    BY <1>3 DEF ProcessConnectionResult
  <2>2. HasData(w, u, r) /\ Data(w)[u] = r
    BY <1>3, Found
  <2> HIDE DEF r
  <2>3. Has(w, r) /\ r \in Conns /\ Data(w)[u] = r /\ r # Null /\ u \in Opened(w)
    BY <1>3, <2>2 DEF HasData, Has, Opened
  <2>4. u # r
    BY <2>3 DEF Sound, Links
  <2>5. Tame(w, ConstructErr(w, r))
    BY <2>3, ConstructErrTame
  <2>6. Tame(w, InitUpstreamConnection(w, u))
    BY <2>3, <2>4, InitUpstreamConnectionLevel DEF Level
  <2>7. Quiet(w, a)
    BY <2>3, CurQuiet
  <2> HIDE DEF a
  <2>8. Quiet(a, fail)
    BY <2>7, KqueueDelEventQuiet DEF Quiet, Kinds
  <2> HIDE DEF fail
  <2>9. Tame(w, fail) /\ Sound(fail)
    BY <2>7, <2>8, QuietTrans, QuietTame DEF Quiet
  <2>10. Has(fail, r)
    BY <2>3, <2>9, TameHas
  <2>11. v \in GetServerByRound(fail, r) => Tame(w, v)
    BY <2>9, <2>10, GetServerByRoundTame, TameTrans
  <2> QED BY <2>1, <2>5, <2>6, <2>11, TameSafe
<1> QED BY <1>1, <1>2, <1>3

LEMMA HttpProxyPassSafe ==
  ASSUME NEW w, Sound(w), NEW u \in Conns, Hdl(w)[<<u, "wev">>] = "http_proxy_pass",
         NEW v \in HttpProxyPass(w, u)
  PROVE  Safe(w, v)
<1> DEFINE r == w.conn[u].data
           rearm(x) == IF x.conn[u].rev.timer_set THEN x
                       ELSE EventAddTimer(x, u, "rev")
           kept == IF w.req[r].rb \in {"parsed", "lost"} THEN "lost" ELSE "empty"
           sent == [w EXCEPT !.req[r].rb = kept]
           a == KqueueAddEvent(sent, w.req[r].connection, "rev")
           b == KqueueDelEvent(a, u, "wev")
           closed == HttpCloseConnection(w, u)
<1>1. CASE ~w.conn[u].open
  <2>1. v = w
    BY <1>1 DEF HttpProxyPass
  <2> QED BY <2>1, Stays
<1>2. CASE w.conn[u].open /\ (r = Null \/ w.req[r].connection = Null)
  <2>1. v = Crash(w)
    BY <1>2 DEF HttpProxyPass
  <2> QED BY <2>1, CrashTame
<1>3. CASE w.conn[u].open /\ r # Null /\ w.req[r].connection # Null
  <2>1. \/ v = ConstructErr(closed, r) \/ v = rearm(b) \/ v = rearm(w)
        \/ v = rearm(ConstructErr(w, r))
    BY <1>3 DEF HttpProxyPass, BufferSend
  <2>2. HasData(w, u, r) /\ Data(w)[u] = r
    BY <1>3, Found
  <2> HIDE DEF r
  <2>3. /\ Has(w, r) /\ r \in Conns /\ Data(w)[u] = r /\ r # Null /\ u \in Opened(w)
        /\ u \in Used(w)
    BY <1>3, <2>2 DEF HasData, Has, Opened
  <2>4. u # r /\ Hdl(w)[<<u, "rev">>] # Null
    BY <2>3 DEF Sound, Links, Handlers
  <2>5. w.req[r].connection = r /\ r \in Opened(w)
    <3>1. HasAll(w, r)
      BY <2>3, HasFacts
    <3> QED BY <3>1 DEF HasAll
  <2>6. "rev" \in Kinds /\ "wev" \in Kinds /\ <<u, "rev">> \in Events
    BY DEF Kinds, Events
  <2>7. ASSUME NEW x, Tame(w, x) PROVE Safe(w, rearm(x))
    <3>1. Sound(x) /\ u \in Used(x) /\ Hdl(x)[<<u, "rev">>] # Null
      BY <2>3, <2>4, <2>6, <2>7 DEF Tame, Grow
    <3>2. Tame(x, EventAddTimer(x, u, "rev"))
      BY <2>6, <3>1, EventAddTimerQuiet, QuietTame
    <3>3. Tame(w, EventAddTimer(x, u, "rev"))
      BY <2>7, <3>2, TameTrans
    <3> QED BY <2>7, <3>3, TameSafe
  <2>8. Safe(w, closed) /\ Has(closed, r)
    BY <2>3, <2>4, CloseUpstream
  <2>9. Safe(w, ConstructErr(closed, r))
    BY <2>8, ConstructErrTame, TameSafe, SafeTrans DEF Safe
  <2>10. Quiet(w, sent)
    <3>1. kept \in {"empty", "parsed", "ready", "lost"}
      OBVIOUS
    <3> HIDE DEF kept
    <3> QED BY <2>3, <3>1, RbQuiet
  <2> HIDE DEF sent
  <2>11. Sound(sent) /\ r \in Opened(sent)
    BY <2>5, <2>10 DEF Quiet, Frame, SameConn
  <2>12. Quiet(sent, a)
    BY <2>5, <2>6, <2>11, KqueueAddEventQuiet
  <2> HIDE DEF a
  <2>13. Quiet(a, b)
    BY <2>6, <2>12, KqueueDelEventQuiet DEF Quiet
  <2> HIDE DEF b
  <2>14. Tame(w, b)
    BY <2>10, <2>12, <2>13, QuietTrans, QuietTame
  <2>15. Tame(w, w) /\ Tame(w, ConstructErr(w, r))
    BY <2>3, Stays, ConstructErrTame
  <2> HIDE DEF rearm, closed
  <2> QED BY <2>1, <2>7, <2>9, <2>14, <2>15
<1> QED BY <1>1, <1>2, <1>3

LEMMA HttpRecvUpstreamSafe ==
  ASSUME NEW w, Sound(w), NEW u \in Conns, Hdl(w)[<<u, "rev">>] = "http_recv_upstream",
         NEW v \in HttpRecvUpstream(w, u)
  PROVE  Safe(w, v)
<1> DEFINE r == w.conn[u].data
           c == w.req[r].connection
           p == IF w.conn[c].wev.handler # Null THEN w ELSE Handle(w, c, "wev", "handle_response")
           q == KqueueAddEvent(p, c, "wev")
           sb == q.req[r].sb \cup {"data"}
           s == [q EXCEPT !.req[r].sb = sb]
           a == EventAddTimer(s, u, "rev")
           d == HttpCloseConnection(q, u)
           b == [d EXCEPT !.req[r].response_done = TRUE]
           closed == HttpCloseConnection(w, u)
<1>1. CASE ~w.conn[u].open
  <2>1. v = w
    BY <1>1 DEF HttpRecvUpstream
  <2> QED BY <2>1, Stays
<1>2. CASE w.conn[u].open /\ r = Null
  <2>1. v = Crash(w)
    BY <1>2 DEF HttpRecvUpstream
  <2> QED BY <2>1, CrashTame
<1>3. CASE w.conn[u].open /\ r # Null
  <2>1. \/ v = Crash(w) \/ v = ConstructErr(closed, r)
        \/ v = a \/ v = b \/ v = ConstructErr(q, r)
    BY <1>3 DEF HttpRecvUpstream
  <2>2. HasData(w, u, r) /\ Data(w)[u] = r
    BY <1>3, Found
  <2> HIDE DEF r
  <2>3. /\ Has(w, r) /\ r \in Conns /\ Data(w)[u] = r /\ r # Null /\ u \in Opened(w)
        /\ u \in Used(w)
    BY <1>3, <2>2 DEF HasData, Has, Opened
  <2>4. u # r /\ Hdl(w)[<<u, "rev">>] # Null
    BY <2>3, NullAssumption DEF Sound, Links, ReadHandlers
  <2>5. c = r
    <3>1. HasAll(w, r)
      BY <2>3, HasFacts
    <3> QED BY <3>1 DEF HasAll
  <2>6. "rev" \in Kinds /\ "wev" \in Kinds /\ <<u, "rev">> \in Events /\ <<r, "wev">> \in Events
    BY <2>3 DEF Kinds, Events
  <2> HIDE DEF c
  <2>7. Level(w, p) /\ SameConn(w, p) /\ Hdl(p)[<<u, "rev">>] # Null
    <3>1. CASE p = w
      BY <2>4, <3>1, Stays, QuietLevel DEF Quiet, SameConn
    <3>2. CASE p = Handle(w, r, "wev", "handle_response")
      <4>1. Fits(w, r, "wev", "handle_response")
        BY <2>3 DEF Fits, WriteHandlers, Has
      <4>2. Handled(w, p, <<r, "wev">>, "handle_response")
        BY <2>3, <2>6, <3>2, <4>1, HandleTame
      <4>3. Hdl(p)[<<u, "rev">>] = Hdl(w)[<<u, "rev">>]
        BY <2>6, <4>2 DEF Handled
      <4> QED BY <2>4, <4>2, <4>3, HandledLevel DEF Handled
    <3> QED BY <2>5, <3>1, <3>2
  <2> HIDE DEF p
  <2>8. Sound(p) /\ r \in Opened(p) /\ Has(p, r)
    <3>1. Sound(p) /\ Has(p, r)
      BY <2>3, <2>7, TameHas DEF Level, Tame
    <3>2. HasAll(p, r)
      BY <3>1, HasFacts
    <3> QED BY <3>1, <3>2 DEF HasAll
  <2>9. Quiet(p, q)
    BY <2>5, <2>6, <2>8, KqueueAddEventQuiet
  <2> HIDE DEF q
  <2>10. Tame(w, q) /\ Sound(q) /\ Has(q, r)
    <3>1. Tame(w, q)
      BY <2>7, <2>9, QuietTame, TameTrans DEF Level
    <3> QED BY <2>3, <3>1, TameHas DEF Tame
  <2>11. Data(q)[u] = r /\ u \in Used(q) /\ Hdl(q)[<<u, "rev">>] # Null
    BY <2>3, <2>7, <2>9 DEF Level, SameConn, Quiet, Frame, SameHdl
  <2>12. Safe(w, a)
    <3>1. sb \in SUBSET {"head", "page", "data"}
      BY <2>3, <2>10 DEF Sound, Worlds, ReqType
    <3> HIDE DEF sb
    <3>2. Quiet(q, s)
      BY <2>3, <2>10, <3>1, SbQuiet
    <3> HIDE DEF s
    <3>3. Sound(s) /\ u \in Used(s) /\ Hdl(s)[<<u, "rev">>] # Null
      BY <2>11, <3>2 DEF Quiet, Frame, SameConn, SameHdl
    <3>4. Quiet(s, a)
      BY <2>6, <3>3, EventAddTimerQuiet
    <3> HIDE DEF a
    <3>5. Tame(q, a)
      BY <3>2, <3>4, QuietTrans, QuietTame
    <3> QED BY <2>10, <3>5, TameTrans, TameSafe
  <2>13. Safe(w, b)
    <3>1. Safe(q, d)
      BY <2>3, <2>4, <2>10, <2>11, CloseUpstream
    <3> HIDE DEF d
    <3>2. Quiet(d, b)
      BY <2>3, <3>1, DoneQuiet DEF Safe
    <3> HIDE DEF b
    <3>3. Safe(d, b)
      BY <3>2, QuietTame
    <3> QED BY <2>10, <3>1, <3>3, TameSafe, SafeTrans
  <2>14. Safe(w, ConstructErr(q, r))
    BY <2>10, ConstructErrTame, TameTrans, TameSafe
  <2>15. Safe(w, closed) /\ Has(closed, r)
    BY <2>3, <2>4, CloseUpstream
  <2>16. Safe(w, ConstructErr(closed, r))
    BY <2>15, ConstructErrTame, TameSafe, SafeTrans DEF Safe
  <2> HIDE DEF a, b, closed
  <2> QED BY <2>1, <2>12, <2>13, <2>14, <2>16, CrashTame
<1> QED BY <1>1, <1>2, <1>3

LEMMA HandleResponseFileSafe ==
  ASSUME NEW w, Sound(w), NEW c \in Conns, Hdl(w)[<<c, "wev">>] # Null,
         NEW v \in HandleResponseFile(w, c)
  PROVE  Safe(w, v)
<1> DEFINE r == w.conn[c].data
           a == [w EXCEPT !.req[r].response_done = TRUE]
<1>1. CASE r = Null
  <2>1. v = Crash(w)
    BY <1>1 DEF HandleResponseFile
  <2> QED BY <2>1, CrashTame
<1>2. CASE r # Null
  <2>1. \/ v = ConstructErr(w, r) \/ v = HttpResponseDone(a, r) \/ v = EventAddTimer(w, c, "wev")
        \/ v = w \/ v = HttpCloseRequest(w, r)
    BY <1>2 DEF HandleResponseFile, SendFile
  <2>2. HasData(w, c, r)
    BY <1>2, Found
  <2> HIDE DEF r
  <2>3. Has(w, r) /\ r \in Conns /\ c \in Used(w)
    BY <2>2 DEF HasData, Has
  <2>4. Quiet(w, a)
    BY <2>3, DoneQuiet
  <2> HIDE DEF a
  <2>5. Safe(w, a) /\ Sound(a) /\ Has(a, r)
    BY <2>3, <2>4, QuietTame, TameHas DEF Quiet
  <2>6. Safe(w, HttpResponseDone(a, r))
    BY <2>5, HttpResponseDoneSafe, SafeTrans
  <2>7. Safe(w, ConstructErr(w, r)) /\ Safe(w, HttpCloseRequest(w, r)) /\ Safe(w, w)
    BY <2>3, ConstructErrTame, TameSafe, HttpCloseRequestSafe, Stays
  <2>8. Safe(w, EventAddTimer(w, c, "wev"))
    BY <2>3, EventAddTimerQuiet, QuietTame DEF Kinds
  <2> QED BY <2>1, <2>6, <2>7, <2>8
<1> QED BY <1>1, <1>2

LEMMA ResponseSentSafe ==
  ASSUME NEW w, Sound(w), NEW c \in Conns, Hdl(w)[<<c, "wev">>] # Null,
         w.conn[c].data # Null, NEW v \in ResponseSent(w, c)
  PROVE  Safe(w, v)
<1> DEFINE r == w.conn[c].data
           a == [w EXCEPT !.req[r].response_done = TRUE]
           h == Handle(w, c, "wev", "handle_response_file")
<1>1. \/ v = HttpResponseDone(w, r) \/ v = KqueueDelEvent(w, c, "wev")
      \/ v \in HandleResponseFile(h, c) \/ v = HttpResponseDone(a, r)
  BY DEF ResponseSent
<1>2. HasData(w, c, r) /\ Data(w)[c] = r /\ r # Null
  BY Found
<1> HIDE DEF r
<1>3. Has(w, r) /\ r \in Conns /\ Data(w)[c] # Null
  BY <1>2 DEF HasData, Has
<1>4. "wev" \in Kinds /\ <<c, "wev">> \in Events
  BY DEF Kinds, Events
<1>5. Quiet(w, a)
  BY <1>3, DoneQuiet
<1> HIDE DEF a
<1>6. Safe(w, a) /\ Sound(a) /\ Has(a, r)
  BY <1>3, <1>5, QuietTame, TameHas DEF Quiet
<1>7. Safe(w, HttpResponseDone(a, r)) /\ Safe(w, HttpResponseDone(w, r))
  BY <1>3, <1>6, HttpResponseDoneSafe, SafeTrans
<1>8. Safe(w, KqueueDelEvent(w, c, "wev"))
  BY <1>4, KqueueDelEventQuiet, QuietTame
<1>9. Handled(w, h, <<c, "wev">>, "handle_response_file")
  <2>1. Fits(w, c, "wev", "handle_response_file")
    BY <1>3 DEF Fits, WriteHandlers
  <2> QED BY <1>4, <2>1, HandleTame
<1> HIDE DEF h
<1>10. Safe(w, h) /\ Sound(h) /\ Hdl(h)[<<c, "wev">>] # Null
  BY <1>9, TameSafe, NullAssumption DEF Handled, Tame, WriteHandlers
<1>11. v \in HandleResponseFile(h, c) => Safe(w, v)
  BY <1>10, HandleResponseFileSafe, SafeTrans
<1> QED BY <1>1, <1>7, <1>8, <1>11

LEMMA HandleResponseSafe ==
  ASSUME NEW w, Sound(w), NEW c \in Conns, Hdl(w)[<<c, "wev">>] # Null,
         NEW v \in HandleResponse(w, c)
  PROVE  Safe(w, v)
<1> DEFINE r == w.conn[c].data
           a == [w EXCEPT !.req[r].sb = {}]
<1>1. CASE ~w.conn[c].open
  <2>1. v = w
    BY <1>1 DEF HandleResponse
  <2> QED BY <2>1, Stays
<1>2. CASE w.conn[c].open /\ r = Null
  <2>1. v = Crash(w)
    BY <1>2 DEF HandleResponse
  <2> QED BY <2>1, CrashTame
<1>3. CASE w.conn[c].open /\ r # Null
  <2>1. \/ v = HttpCloseRequest(w, r) \/ v \in ResponseSent(a, c) \/ v = EventAddTimer(w, c, "wev")
    BY <1>3 DEF HandleResponse, BufferSend
  <2>2. HasData(w, c, r) /\ Data(w)[c] = r
    BY <1>3, Found
  <2> HIDE DEF r
  <2>3. Has(w, r) /\ r \in Conns /\ c \in Used(w) /\ Data(w)[c] # Null
    BY <1>3, <2>2 DEF HasData, Has
  <2>4. Quiet(w, a)
    BY <2>3, SbQuiet
  <2> HIDE DEF a
  <2>5. /\ Safe(w, a) /\ Sound(a) /\ Hdl(a)[<<c, "wev">>] # Null /\ a.conn[c].data # Null
    <3>1. Data(a)[c] = a.conn[c].data
      BY DEF Data
    <3> QED BY <2>3, <2>4, <3>1, QuietTame DEF Quiet, Frame, SameConn, SameHdl
  <2>6. v \in ResponseSent(a, c) => Safe(w, v)
    BY <2>5, ResponseSentSafe, SafeTrans
  <2>7. Safe(w, HttpCloseRequest(w, r))
    BY <2>3, HttpCloseRequestSafe
  <2>8. Safe(w, EventAddTimer(w, c, "wev"))
    BY <2>3, EventAddTimerQuiet, QuietTame DEF Kinds
  <2> QED BY <2>1, <2>6, <2>7, <2>8
<1> QED BY <1>1, <1>2, <1>3


-----------------------------------------------------------------------------
(***************************************************************************)
(* Receiving the request.                                                  *)
(***************************************************************************)
LEMMA BodyReceivedSafe ==
  ASSUME NEW w, Sound(w), NEW c \in Opened(w), w.conn[c].data # Null
  PROVE  Safe(w, BodyReceived(w, c))
<1> DEFINE r == w.conn[c].data
           v == KqueueDelEvent(w, c, "rev")
           u == v.req[r].upstream
           x == Handle(v, c, "wev", "handle_response")
           rb == IF v.req[r].rb = "parsed" THEN "ready" ELSE v.req[r].rb
           y == [v EXCEPT !.req[r].rb = rb]
           a == KqueueAddEvent(x, c, "wev")
           b == [a EXCEPT !.req[r].sb = {"head"}]
           d == EventAddTimer(b, c, "wev")
           p == KqueueAddEvent(y, u, "wev")
           q == EventAddTimer(p, u, "wev")
           z == BodyReceived(w, c)
<1>1. \/ z = x \/ z = d \/ z = y
      \/ u # Null /\ v.conn[u].connected /\ z = q
  <2>1. CASE u = Null
    <3> DEFINE z1 == IF v.req[r].response_done THEN x ELSE d
    <3>1. z = IF u = Null THEN z1
              ELSE IF v.conn[u].connected THEN q ELSE y
      BY DEF BodyReceived
    <3> HIDE DEF z, x, d, q, y, v, u
    <3> QED BY <2>1, <3>1
  <2>2. CASE u # Null /\ v.conn[u].connected
    BY <2>2 DEF BodyReceived
  <2>3. CASE u # Null /\ ~v.conn[u].connected
    BY <2>3 DEF BodyReceived
  <2> QED BY <2>1, <2>2, <2>3
<1> HIDE DEF z
<1>2. c \in Conns /\ w.conn[c].open
  BY DEF Opened
<1>3. HasData(w, c, r) /\ Data(w)[c] = r /\ r # Null
  BY <1>2, Found
<1> HIDE DEF r
<1>4. Has(w, r) /\ r \in Conns /\ c \in Used(w)
  BY <1>3 DEF HasData, Has
<1>5. "rev" \in Kinds /\ "wev" \in Kinds /\ <<c, "wev">> \in Events
  BY <1>2 DEF Kinds, Events
<1>6. Quiet(w, v)
  BY <1>2, <1>5, KqueueDelEventQuiet
<1> HIDE DEF v
<1>7. Sound(v) /\ Tame(w, v) /\ Has(v, r) /\ c \in Opened(v) /\ c \in Used(v) /\ Data(v)[c] = r
  BY <1>3, <1>4, <1>6, QuietTame, TameHas DEF Quiet, Frame, SameConn
<1>8. Handled(v, x, <<c, "wev">>, "handle_response")
  <2>1. Fits(v, c, "wev", "handle_response")
    BY <1>3, <1>7 DEF Fits, WriteHandlers
  <2> QED BY <1>2, <1>5, <1>7, <2>1, HandleTame
<1> HIDE DEF x
<1>9. /\ Tame(v, x) /\ Sound(x) /\ c \in Opened(x) /\ c \in Used(x) /\ Hdl(x)[<<c, "wev">>] # Null
  BY <1>7, <1>8, NullAssumption DEF Handled, Tame, SameConn, WriteHandlers
<1>10. Safe(w, x)
  BY <1>7, <1>9, TameTrans, TameSafe
<1>11. Safe(w, d)
  <2>1. Quiet(x, a)
    BY <1>5, <1>9, KqueueAddEventQuiet
  <2> HIDE DEF a
  <2>2. Quiet(a, b)
    BY <1>4, <2>1, SbQuiet DEF Quiet
  <2> HIDE DEF b
  <2>3. Sound(b) /\ c \in Used(b) /\ Hdl(b)[<<c, "wev">>] # Null
    BY <1>9, <2>1, <2>2 DEF Quiet, Frame, SameConn, SameHdl
  <2>4. Quiet(b, d)
    BY <1>5, <2>3, EventAddTimerQuiet
  <2> HIDE DEF d
  <2>5. Tame(x, d)
    BY <2>1, <2>2, <2>4, QuietTrans, QuietTame
  <2> QED BY <1>7, <1>9, <2>5, TameTrans, TameSafe
<1>12. Quiet(v, y)
  <2>1. rb \in {"empty", "parsed", "ready", "lost"}
    BY <1>4, <1>7 DEF Sound, Worlds, ReqType
  <2> HIDE DEF rb
  <2> QED BY <1>4, <1>7, <2>1, RbQuiet
<1> HIDE DEF y
<1>13. Safe(w, y) /\ Sound(y)
  BY <1>7, <1>12, QuietTame, TameTrans, TameSafe DEF Quiet
<1>14. ASSUME u # Null, v.conn[u].connected PROVE Safe(w, q)
  <2>1. HasAll(v, r)
    BY <1>7, HasFacts
  <2>2. u \in Conns /\ Data(v)[u] = r /\ u # r /\ u \in Used(v)
    BY <1>14, <2>1 DEF HasAll, Used
  <2> HIDE DEF u
  <2>3. u \in Conned(v) /\ u \in Opened(v)
    BY <1>7, <1>14, <2>2 DEF Conned, Sound, Watched
  <2>4. Hdl(v)[<<u, "wev">>] # Null
    BY <1>3, <1>7, <2>2, <2>3 DEF Sound, Links
  <2>5. u \in Opened(y)
    BY <1>12, <2>3 DEF Quiet, Frame, SameConn
  <2>6. Quiet(y, p)
    BY <1>5, <1>13, <2>5, KqueueAddEventQuiet
  <2> HIDE DEF p
  <2>7. Sound(p) /\ u \in Used(p) /\ Hdl(p)[<<u, "wev">>] # Null
    BY <1>12, <2>2, <2>4, <2>6 DEF Quiet, Frame, SameConn, SameHdl
  <2>8. Quiet(p, q)
    BY <1>5, <2>7, EventAddTimerQuiet
  <2> HIDE DEF q
  <2>9. Tame(v, q)
    BY <1>12, <2>6, <2>8, QuietTrans, QuietTame
  <2> QED BY <1>7, <2>9, TameTrans, TameSafe
<1> HIDE DEF d, q, u
<1>15. Safe(w, z)
  BY <1>1, <1>10, <1>11, <1>13, <1>14
<1> QED BY <1>15 DEF z

LEMMA RequestHandleBodySafe ==
  ASSUME NEW w, Sound(w), NEW c \in Conns, NEW v \in RequestHandleBody(w, c)
  PROVE  Safe(w, v)
<1> DEFINE r == w.conn[c].data
<1>1. CASE ~w.conn[c].open
  <2>1. v = w
    BY <1>1 DEF RequestHandleBody
  <2> QED BY <2>1, Stays
<1>2. CASE w.conn[c].open /\ r = Null
  <2>1. v = Crash(w)
    BY <1>2 DEF RequestHandleBody
  <2> QED BY <2>1, CrashTame
<1>3. CASE w.conn[c].open /\ r # Null
  <2>1. v = ConstructErr(w, r) \/ v = HttpCloseRequest(w, r) \/ v = BodyReceived(w, c)
    BY <1>3 DEF RequestHandleBody, BufferRecv
  <2>2. HasData(w, c, r)
    BY <1>3, Found
  <2>3. Has(w, r) /\ c \in Opened(w)
    BY <1>3, <2>2 DEF HasData, Opened
  <2>4. Safe(w, BodyReceived(w, c))
    BY <1>3, <2>3, BodyReceivedSafe
  <2> HIDE DEF r
  <2> QED BY <2>1, <2>3, <2>4, ConstructErrTame, TameSafe, HttpCloseRequestSafe
<1> QED BY <1>1, <1>2, <1>3

(* The loop over the header lines.                                         *)
LEMMA ParseHeadersTame ==
  ASSUME NEW w, Sound(w), NEW r, Has(w, r), NEW p \in ParseHeaders(w, r)
  PROVE  Tame(w, p.world) /\ p.rc \in {"OK", "AGAIN", "ERROR"}
<1> DEFINE rb == IF w.req[r].rb = "lost" THEN w.req[r].rb ELSE "parsed"
           v == [w EXCEPT !.req[r].rb = rb]
           heads == {v} \cup HeaderHandleConnection(v, r)
           ends(x) == IF x.req[r].response_done THEN {"OK"} ELSE {"OK", "AGAIN", "ERROR"}
<1>1. CASE w.req[r].response_done
  <2>1. p = [rc |-> "OK", world |-> w]
    BY <1>1 DEF ParseHeaders
  <2> QED BY <2>1, Stays
<1>2. CASE ~w.req[r].response_done
  <2>1. p \in UNION {{[rc |-> e, world |-> x] : e \in ends(x)} : x \in heads}
    BY <1>2 DEF ParseHeaders
  <2>2. PICK x \in heads : p \in {[rc |-> e, world |-> x] : e \in ends(x)}
    BY <2>1
  <2>3. p.world = x /\ p.rc \in {"OK", "AGAIN", "ERROR"}
    BY <2>2
  <2>4. r \in Conns
    BY DEF Has
  <2>5. Quiet(w, v)
    <3>1. rb \in {"empty", "parsed", "ready", "lost"}
      OBVIOUS
    <3> HIDE DEF rb
    <3> QED BY <2>4, <3>1, RbQuiet
  <2>6. x = v \/ x \in HeaderHandleConnection(v, r)
    BY <2>2
  <2> HIDE DEF v
  <2>7. Tame(w, v) /\ Sound(v) /\ Has(v, r)
    BY <2>5, QuietTame, TameHas DEF Quiet
  <2>8. ASSUME x \in HeaderHandleConnection(v, r) PROVE Tame(v, x)
    <3>1. x = ConstructErr(v, r) \/ \E k \in BOOLEAN : x = [v EXCEPT !.req[r].keep_alive = k]
      BY <2>8 DEF HeaderHandleConnection
    <3>2. \A k \in BOOLEAN : Tame(v, [v EXCEPT !.req[r].keep_alive = k])
      BY <2>4, <2>7, KeepAliveQuiet, QuietTame
    <3> QED BY <2>7, <3>1, <3>2, ConstructErrTame
  <2> QED BY <2>3, <2>6, <2>7, <2>8, TameTrans
<1> QED BY <1>1, <1>2

LEMMA HttpParseHeadersSafe ==
  ASSUME NEW w, Sound(w), NEW c \in Conns, Hdl(w)[<<c, "rev">>] # Null,
         NEW v \in HttpParseHeaders(w, c)
  PROVE  Safe(w, v)
<1> DEFINE r == w.conn[c].data
           next(x) == Handle(x, c, "rev", "request_handle_body")
<1>1. CASE w.conn[c].rev.timedout
  <2>1. v = IF r = Null THEN Crash(w) ELSE ConstructErr(w, r)
    BY <1>1 DEF HttpParseHeaders
  <2>2. CASE r = Null
    BY <2>1, <2>2, CrashTame
  <2>3. CASE r # Null
    <3>1. HasData(w, c, r)
      BY <2>3, Found
    <3> HIDE DEF r
    <3> QED BY <2>1, <2>3, <3>1, ConstructErrTame, TameSafe DEF HasData
  <2> QED BY <2>2, <2>3
<1>2. CASE ~w.conn[c].rev.timedout /\ ~w.conn[c].open
  <2>1. v = w
    BY <1>2 DEF HttpParseHeaders
  <2> QED BY <2>1, Stays
<1>3. CASE ~w.conn[c].rev.timedout /\ w.conn[c].open /\ r = Null
  <2>1. v = Crash(w)
    BY <1>3 DEF HttpParseHeaders
  <2> QED BY <2>1, CrashTame
<1>4. CASE ~w.conn[c].rev.timedout /\ w.conn[c].open /\ r # Null
  <2>1. \/ v = HttpCloseRequest(w, r)
        \/ \E p \in ParseHeaders(w, r) :
             \/ p.rc = "OK" /\ v \in RequestHandleBody(next(p.world), c)
             \/ p.rc = "AGAIN" /\ (v = p.world \/ v = EventAddTimer(p.world, c, "rev"))
             \/ p.rc = "ERROR" /\ v = HttpCloseRequest(p.world, r)
    <3> DEFINE after(p) ==
                 CASE p.rc = "OK" -> RequestHandleBody(next(p.world), c)
                   [] p.rc = "AGAIN" -> {IF p.world.conn[c].rev.timer_set THEN p.world
                                         ELSE EventAddTimer(p.world, c, "rev")}
                   [] p.rc = "ERROR" -> {HttpCloseRequest(p.world, r)}
    <3>1. v \in BufferRecv(w, r, UNION {after(p) : p \in ParseHeaders(w, r)})
      BY <1>4 DEF HttpParseHeaders
    <3>2. v = HttpCloseRequest(w, r) \/ \E p \in ParseHeaders(w, r) : v \in after(p)
      <4> HIDE DEF after
      <4> QED BY <3>1 DEF BufferRecv
    <3>3. SUFFICES ASSUME NEW p \in ParseHeaders(w, r), v \in after(p)
          PROVE  \/ p.rc = "OK" /\ v \in RequestHandleBody(next(p.world), c)
                 \/ p.rc = "AGAIN" /\ (v = p.world \/ v = EventAddTimer(p.world, c, "rev"))
                 \/ p.rc = "ERROR" /\ v = HttpCloseRequest(p.world, r)
      BY <3>2
    <3>4. p.rc \in {"OK", "AGAIN", "ERROR"}
      <4>1. HasData(w, c, r)
        BY <1>4, Found
      <4> QED BY <4>1, ParseHeadersTame DEF HasData
    <3> HIDE DEF next, r
    <3>5. CASE p.rc = "OK"
      BY <3>3, <3>5
    <3>6. CASE p.rc = "AGAIN"
      BY <3>3, <3>6
    <3>7. CASE p.rc = "ERROR"
      BY <3>3, <3>7
    <3> QED BY <3>4, <3>5, <3>6, <3>7
  <2>2. HasData(w, c, r) /\ Data(w)[c] = r /\ r # Null
    BY <1>4, Found
  <2> HIDE DEF r
  <2>3. Has(w, r) /\ c \in Used(w) /\ r \in Conns
    BY <2>2 DEF HasData, Has
  <2>4. Safe(w, HttpCloseRequest(w, r))
    BY <2>3, HttpCloseRequestSafe
  <2>5. "rev" \in Kinds /\ <<c, "rev">> \in Events
    BY DEF Kinds, Events
  <2>6. ASSUME NEW x, Tame(w, x)
        PROVE  /\ v \in RequestHandleBody(next(x), c) => Safe(w, v)
               /\ Safe(w, EventAddTimer(x, c, "rev"))
               /\ Safe(w, HttpCloseRequest(x, r))
    <3>1. Sound(x) /\ Has(x, r) /\ c \in Used(x) /\ Data(x)[c] = r /\ Hdl(x)[<<c, "rev">>] # Null
      BY <2>2, <2>3, <2>5, <2>6, TameHas DEF Tame, Grow
    <3>2. Handled(x, next(x), <<c, "rev">>, "request_handle_body")
      <4>1. Fits(x, c, "rev", "request_handle_body")
        BY <2>2, <3>1 DEF Fits, ReadHandlers
      <4> QED BY <2>5, <3>1, <4>1, HandleTame
    <3> HIDE DEF next
    <3>3. Safe(w, next(x)) /\ Sound(next(x))
      BY <2>6, <3>2, TameTrans, TameSafe DEF Handled, Tame
    <3>4. v \in RequestHandleBody(next(x), c) => Safe(w, v)
      BY <3>3, RequestHandleBodySafe, SafeTrans
    <3>5. Safe(w, EventAddTimer(x, c, "rev"))
      <4>1. Tame(x, EventAddTimer(x, c, "rev"))
        BY <2>5, <3>1, EventAddTimerQuiet, QuietTame
      <4> QED BY <2>6, <4>1, TameTrans, TameSafe
    <3>6. Safe(w, HttpCloseRequest(x, r))
      BY <2>6, <3>1, TameSafe, HttpCloseRequestSafe, SafeTrans
    <3> QED BY <3>4, <3>5, <3>6
  <2> HIDE DEF next
  <2>7. ASSUME NEW p \in ParseHeaders(w, r) PROVE Tame(w, p.world)
    BY <2>3, ParseHeadersTame
  <2>8. ASSUME NEW p \in ParseHeaders(w, r),
                \/ p.rc = "OK" /\ v \in RequestHandleBody(next(p.world), c)
                \/ p.rc = "AGAIN" /\ (v = p.world \/ v = EventAddTimer(p.world, c, "rev"))
                \/ p.rc = "ERROR" /\ v = HttpCloseRequest(p.world, r)
        PROVE  Safe(w, v)
    <3>1. Tame(w, p.world)
      BY <2>7
    <3> QED BY <2>6, <2>8, <3>1, TameSafe
  <2> QED BY <2>1, <2>4, <2>8
<1> QED BY <1>1, <1>2, <1>3, <1>4


(* What getIdleConnection makes of an object.                              *)
LEMMA FreshConn ==
  LET z0 == [ZeroConn EXCEPT !.inuse = TRUE]
  IN  /\ z0 \in ConnType /\ z0.inuse = TRUE /\ z0.open = FALSE /\ z0.connected = FALSE
      /\ z0.data = Null
      /\ \A k \in Kinds : /\ z0[k].active = FALSE /\ z0[k].timer_set = FALSE
                          /\ z0[k].timedout = FALSE /\ z0[k].handler = Null
<1> DEFINE z0 == [ZeroConn EXCEPT !.inuse = TRUE]
<1>1. /\ ZeroEvent \in EventType /\ ZeroEvent.active = FALSE /\ ZeroEvent.timer_set = FALSE
      /\ ZeroEvent.timedout = FALSE /\ ZeroEvent.handler = Null
  BY DEF ZeroEvent, EventType
<1>2. /\ ZeroConn \in ConnType /\ ZeroConn.open = FALSE /\ ZeroConn.connected = FALSE
      /\ ZeroConn.data = Null /\ ZeroConn.rev = ZeroEvent /\ ZeroConn.wev = ZeroEvent
  <2> HIDE DEF z0
  <2> QED BY <1>1 DEF ZeroConn, ConnType
<1>3. z0 \in ConnType /\ z0.inuse = TRUE
  BY <1>2 DEF ConnType
<1>4. /\ z0.open = FALSE /\ z0.connected = FALSE /\ z0.data = Null
      /\ z0.rev = ZeroEvent /\ z0.wev = ZeroEvent
  BY <1>2 DEF ConnType
<1>5. \A k \in Kinds : z0[k] = ZeroEvent
  <2> HIDE DEF z0
  <2>1. z0["rev"] = ZeroEvent /\ z0["wev"] = ZeroEvent
    BY <1>4
  <2> QED BY <2>1 DEF Kinds
<1> HIDE DEF z0
<1>6. /\ z0 \in ConnType /\ z0.inuse = TRUE /\ z0.open = FALSE /\ z0.connected = FALSE
      /\ z0.data = Null
      /\ \A k \in Kinds : /\ z0[k].active = FALSE /\ z0[k].timer_set = FALSE
                          /\ z0[k].timedout = FALSE /\ z0[k].handler = Null
  BY <1>1, <1>3, <1>4, <1>5
<1> QED BY <1>6 DEF z0

(* create_upstream_connection: a free object becomes the backend's         *)
(* connection of a request that has none.                                  *)
LEMMA OpenedTame ==
  ASSUME NEW w, Sound(w), NEW r, Has(w, r), UpOf(w)[r] = Null, NEW u \in FreeConns(w)
  PROVE  Tame(w, [GetIdleConnection(w, u) EXCEPT !.conn[u].data = r, !.req[r].upstream = u])
<1> DEFINE z0 == [ZeroConn EXCEPT !.inuse = TRUE]
           a == [w EXCEPT !.conn[u] = z0]
           b == [a EXCEPT !.conn[u].data = r]
           q == b.req[r]
           s == [q EXCEPT !.upstream = u]
           v == [b EXCEPT !.req[r] = s]
<1>1. HasAll(w, r)
  BY HasFacts
<1>2. /\ r \in Conns /\ r # Null /\ Data(w)[r] = r /\ r \in Used(w) /\ r \in LiveIn(w)
      /\ u \in Conns /\ u \notin Used(w) /\ w \in Worlds /\ u # r
  BY <1>1 DEF HasAll, FreeConns, Used, Sound
<1>3. u \notin Opened(w) /\ u \notin Conned(w) /\ Data(w)[u] = Null
  BY <1>2 DEF Sound, Watched, Links
<1>4. /\ z0 \in ConnType /\ z0.inuse = TRUE /\ z0.open = FALSE /\ z0.connected = FALSE
      /\ z0.data = Null
      /\ \A k \in Kinds : /\ z0[k].active = FALSE /\ z0[k].timer_set = FALSE
                          /\ z0[k].timedout = FALSE /\ z0[k].handler = Null
  BY FreshConn
<1> HIDE DEF z0
<1>5. ConnIs(w, a, u, z0)
  BY <1>2, <1>4, ConnIsSet
<1> HIDE DEF a
<1>6. a \in Worlds /\ SameReq(w, a) /\ SameSets(w, a)
  BY <1>5 DEF ConnIs
<1>7. /\ Used(a) = Used(w) \cup {u} /\ Opened(a) = Opened(w) \ {u}
      /\ Conned(a) = Conned(w) \ {u}
      /\ Data(a)[u] = Null /\ \A d \in Conns : d # u => Data(a)[d] = Data(w)[d]
  <2>1. Used(a) = Used(w) \cup {u}
    BY <1>2, <1>4, <1>5 DEF ConnIs, Used
  <2>2. Opened(a) = Opened(w) \ {u}
    BY <1>2, <1>4, <1>5 DEF ConnIs, Opened
  <2>3. Conned(a) = Conned(w) \ {u}
    BY <1>2, <1>4, <1>5 DEF ConnIs, Conned
  <2>4. Data(a)[u] = Null /\ \A d \in Conns : d # u => Data(a)[d] = Data(w)[d]
    BY <1>2, <1>4, <1>5 DEF ConnIs, Data
  <2> QED BY <2>1, <2>2, <2>3, <2>4
<1>8. \A e \in Events : IF e[1] = u THEN Ev(a, e) = z0[e[2]] ELSE Ev(a, e) = Ev(w, e)
  BY <1>5 DEF ConnIs, Ev, Events
<1>9. /\ Act(a) = {e \in Act(w) : e[1] # u} /\ TimerSet(a) = {e \in TimerSet(w) : e[1] # u}
      /\ Out(a) = {e \in Out(w) : e[1] # u}
      /\ \A e \in Events : Hdl(a)[e] = IF e[1] = u THEN Null ELSE Hdl(w)[e]
  <2>1. \A e \in Events : e[2] \in Kinds
    BY DEF Events
  <2>2. Act(a) = {e \in Act(w) : e[1] # u}
    BY <1>4, <1>8, <2>1 DEF Act
  <2>3. TimerSet(a) = {e \in TimerSet(w) : e[1] # u}
    BY <1>4, <1>8, <2>1 DEF TimerSet
  <2>4. Out(a) = {e \in Out(w) : e[1] # u}
    BY <1>4, <1>8, <2>1 DEF Out
  <2>5. \A e \in Events : Hdl(a)[e] = IF e[1] = u THEN Null ELSE Hdl(w)[e]
    BY <1>4, <1>8, <2>1 DEF Hdl
  <2> QED BY <2>2, <2>3, <2>4, <2>5
<1>10. DataIs(a, b, u, r)
  BY <1>2, <1>6, DataSet
<1> HIDE DEF b
<1>11. b \in Worlds /\ q \in ReqType /\ q = b.req[r]
  BY <1>2, <1>10 DEF DataIs, Worlds
<1>12. [GetIdleConnection(w, u) EXCEPT !.conn[u].data = r, !.req[r].upstream = u] = v
  <2>1. GetIdleConnection(w, u) = a
    BY DEF GetIdleConnection, a, z0
  <2>2. [a EXCEPT !.conn[u].data = r, !.req[r].upstream = u] = v
    BY <1>2, <1>6 DEF Worlds, b
  <2> QED BY <2>1, <2>2
<1> HIDE DEF q
<1>13. s \in ReqType /\ s.live = q.live /\ s.connection = q.connection /\ s.upstream = u
  BY <1>2, <1>11 DEF ReqType
<1> HIDE DEF s
<1>14. ReqIs(b, v, r, s)
  BY <1>2, <1>11, <1>13, ReqIsSet
<1> HIDE DEF v
<1>15. /\ v \in Worlds /\ SameEv(a, v) /\ SameSets(w, v)
       /\ Used(v) = Used(w) \cup {u} /\ Opened(v) = Opened(w) /\ Conned(v) = Conned(w)
       /\ Data(v)[u] = r /\ \A d \in Conns : d # u => Data(v)[d] = Data(w)[d]
  <2>1. Opened(a) = Opened(w) /\ Conned(a) = Conned(w)
    BY <1>3, <1>7
  <2> QED BY <1>6, <1>7, <1>10, <1>14, <2>1 DEF DataIs, ReqIs, SameEv, SameConn, SameSets,
     SameAct, SameTimers, SameHdl
<1>16. /\ LiveIn(v) = LiveIn(w) /\ ConnOf(v) = ConnOf(w) /\ UpOf(v)[r] = u
       /\ \A x \in Conns : x # r => UpOf(v)[x] = UpOf(w)[x]
  <2>1. LiveIn(b) = LiveIn(w) /\ ConnOf(b) = ConnOf(w) /\ UpOf(b) = UpOf(w)
    BY <1>6, <1>10 DEF DataIs, SameReq
  <2>2. LiveIn(v) = LiveIn(b)
    BY <1>2, <1>11, <1>13, <1>14, <2>1 DEF ReqIs, LiveIn
  <2>3. \A x \in Conns : ConnOf(v)[x] = ConnOf(b)[x]
    BY <1>2, <1>11, <1>13, <1>14 DEF ReqIs, ConnOf
  <2> QED BY <1>13, <1>14, <2>1, <2>2, <2>3 DEF ReqIs, ConnOf
<1>17. /\ Act(v) = {e \in Act(w) : e[1] # u} /\ TimerSet(v) = {e \in TimerSet(w) : e[1] # u}
       /\ Out(v) = {e \in Out(w) : e[1] # u}
       /\ \A e \in Events : Hdl(v)[e] = IF e[1] = u THEN Null ELSE Hdl(w)[e]
  BY <1>9, <1>15 DEF SameEv, SameAct, SameTimers, SameHdl
<1>18. Timers(v)
  <2>1. \A e \in w.tree : e[1] # u /\ e \in Events
    BY <1>2 DEF Sound, Timers, TimerSet
  <2> QED BY <1>15, <1>17, <2>1 DEF Sound, Timers, SameSets
<1>19. Watched(v)
  <2>1. \A e \in Act(w) : e[1] # u
    BY <1>3 DEF Sound, Watched
  <2> QED BY <1>15, <1>17, <2>1 DEF Sound, Watched, SameSets
<1>20. \A c \in Conns : /\ Hdl(v)[<<c, "rev">>] = IF c = u THEN Null ELSE Hdl(w)[<<c, "rev">>]
                        /\ Hdl(v)[<<c, "wev">>] = IF c = u THEN Null ELSE Hdl(w)[<<c, "wev">>]
  <2>1. \A c \in Conns : <<c, "rev">> \in Events /\ <<c, "wev">> \in Events
    BY DEF Events, Kinds
  <2> QED BY <1>17, <2>1
<1>21. Handlers(v)
  <2>1. ASSUME NEW c \in Conns
        PROVE  /\ Hdl(v)[<<c, "rev">>] \in ReadHandlers \cup {Null}
               /\ Hdl(v)[<<c, "wev">>] \in WriteHandlers \cup {Null}
               /\ Hdl(v)[<<c, "wev">>] = "http_proxy_pass" => Hdl(v)[<<c, "rev">>] # Null
    <3>1. CASE c = u
      BY <1>20, <3>1, NullAssumption DEF WriteHandlers
    <3>2. CASE c # u
      BY <1>20, <3>2 DEF Sound, Handlers
    <3> QED BY <3>1, <3>2
  <2>2. ASSUME NEW c \in Used(v), Hdl(v)[<<c, "rev">>] = "http_init_request"
        PROVE  c \in Opened(v) /\ Hdl(v)[<<c, "wev">>] = Null
    <3>1. c \in Conns
      BY DEF Used
    <3>2. c # u /\ c \in Used(w)
      BY <1>15, <1>20, <2>2, <3>1, NullAssumption DEF ReadHandlers
    <3> QED BY <1>15, <1>20, <2>2, <3>1, <3>2 DEF Sound, Handlers
  <2> QED BY <2>1, <2>2 DEF Handlers
<1>22. Links(v)
  <2>1. ASSUME NEW c \in Conns, Data(v)[c] # Null, NEW x, x = Data(v)[c]
        PROVE  /\ c \in Used(v) /\ x \in LiveIn(v) /\ (c = x \/ UpOf(v)[x] = c)
               /\ Data(v)[x] = x /\ ConnOf(v)[x] = x
               /\ c # x /\ c \in Conned(v) => Hdl(v)[<<c, "wev">>] # Null
               /\ Hdl(v)[<<c, "rev">>] # "http_init_request"
    <3>1. CASE c = u
      <4>1. x = r
        BY <1>15, <2>1, <3>1
      <4>2. ConnOf(v)[r] = r
        BY <1>1, <1>16 DEF HasAll
      <4>3. Hdl(v)[<<c, "rev">>] # "http_init_request"
        BY <1>20, <3>1, NullAssumption DEF ReadHandlers
      <4> QED BY <1>2, <1>3, <1>15, <1>16, <3>1, <4>1, <4>2, <4>3
    <3>2. CASE c # u
      <4>1. x = Data(w)[c] /\ x # Null
        BY <1>15, <2>1, <3>2
      <4>2. /\ c \in Used(w) /\ x \in LiveIn(w) /\ (c = x \/ UpOf(w)[x] = c)
            /\ Data(w)[x] = x /\ ConnOf(w)[x] = x
            /\ c # x /\ c \in Conned(w) => Hdl(w)[<<c, "wev">>] # Null
            /\ Hdl(w)[<<c, "rev">>] # "http_init_request"
        BY <4>1 DEF Sound, Links
      <4>3. x \in Conns /\ x # u
        BY <1>3, <4>1, <4>2 DEF LiveIn
      <4>4. c = x \/ UpOf(v)[x] = c
        <5>1. CASE x = r
          BY <4>2, <5>1, NullAssumption
        <5>2. CASE x # r
          BY <1>16, <4>2, <4>3, <5>2
        <5> QED BY <5>1, <5>2
      <4> QED BY <1>15, <1>16, <1>20, <3>2, <4>2, <4>3, <4>4
    <3> QED BY <3>1, <3>2
  <2>2. ASSUME NEW x \in Conns, Data(v)[x] = x
        PROVE  /\ x \in Opened(v)
               /\ UpOf(v)[x] # Null => UpOf(v)[x] # x /\ Data(v)[UpOf(v)[x]] = x
               /\ Hdl(v)[<<x, "rev">>] # "http_recv_upstream"
               /\ Hdl(v)[<<x, "wev">>] \notin {"http_proxy_pass", "process_connection_result_of_upstream"}
    <3>1. x # u /\ Data(w)[x] = x
      BY <1>2, <1>15, <2>2
    <3>2. /\ x \in Opened(v) /\ Hdl(v)[<<x, "rev">>] # "http_recv_upstream"
          /\ Hdl(v)[<<x, "wev">>] \notin {"http_proxy_pass", "process_connection_result_of_upstream"}
      BY <1>15, <1>20, <3>1 DEF Sound, Links
    <3>3. CASE x = r
      BY <1>2, <1>15, <1>16, <3>2, <3>3
    <3>4. CASE x # r
      <4>1. UpOf(v)[x] = UpOf(w)[x]
        BY <1>16, <3>4
      <4>2. UpOf(w)[x] # Null => UpOf(w)[x] # x /\ Data(w)[UpOf(w)[x]] = x
        BY <3>1 DEF Sound, Links
      <4>3. UpOf(w)[x] \in Conns \cup {Null}
        BY DEF Sound, Worlds, ReqType, UpOf
      <4>4. UpOf(w)[x] # Null => UpOf(w)[x] # u
        BY <1>3, <4>2, NullAssumption
      <4> QED BY <1>15, <3>2, <4>1, <4>2, <4>3, <4>4
    <3> QED BY <3>3, <3>4
  <2> QED BY <2>1, <2>2 DEF Links
<1>23. Keep(w, v)
  <2>1. ASSUME NEW c \in Conns, Hdl(v)[<<c, "rev">>] = "http_init_request"
        PROVE  Hdl(w)[<<c, "rev">>] = "http_init_request" /\ (c \in Used(w) => c \in Used(v))
    BY <1>15, <1>20, <2>1, NullAssumption DEF ReadHandlers
  <2>2. ASSUME NEW x \in LiveIn(v), Data(v)[x] # x PROVE x \in LiveIn(w) /\ Data(w)[x] # x
    BY <1>2, <1>3, <1>15, <1>16, <2>2, NullAssumption DEF LiveIn
  <2> QED BY <2>1, <2>2 DEF Keep
<1>24. Grow(w, v)
  <2>1. \A c \in Used(w) : c \in Conns /\ c # u
    BY <1>2 DEF Used
  <2> QED BY <1>15, <1>17, <2>1 DEF Grow
<1>25. Tame(w, v)
  BY <1>15, <1>18, <1>19, <1>21, <1>22, <1>23, <1>24 DEF Tame, Sound
<1> QED BY <1>12, <1>25

-----------------------------------------------------------------------------
(* request_process_uri of a request that has its connection.               *)
LEMMA RequestProcessUriTame ==
  ASSUME NEW w, Sound(w), NEW r, Has(w, r), NEW v \in RequestProcessUri(w, r)
  PROVE  Tame(w, v)
<1> DEFINE versions(x) == {x, [x EXCEPT !.req[r].keep_alive = TRUE]}
           new(u) == [GetIdleConnection(w, u) EXCEPT !.conn[u].data = r, !.req[r].upstream = u]
           opened == IF FreeConns(w) = {} THEN {w} ELSE {new(u) : u \in FreeConns(w)}
           connect(x) == GetServerByRound(x, r)
           tried == Then(opened, connect)
           file == [w EXCEPT !.req[r].resource = TRUE]
<1>1. HasAll(w, r)
  BY HasFacts
<1>2. r \in Conns /\ w.req[r].upstream = UpOf(w)[r]
  BY <1>1 DEF HasAll
<1>3. ASSUME NEW x, Tame(w, x), NEW y \in versions(x) PROVE Tame(w, y)
  <2> DEFINE z == [x EXCEPT !.req[r].keep_alive = TRUE]
  <2>1. y = x \/ y = z
    OBVIOUS
  <2>2. Quiet(x, z)
    BY <1>2, <1>3, KeepAliveQuiet DEF Tame
  <2> HIDE DEF z
  <2>3. Tame(w, z)
    BY <1>3, <2>2, QuietTame, TameTrans
  <2> QED BY <1>3, <2>1, <2>3
<1>4. \/ v = Crash(w)
      \/ w.req[r].upstream = Null /\ v \in Then(tried, versions)
      \/ v \in versions(file)
      \/ v = ConstructErr(w, r)
  <2> DEFINE step(route) ==
               CASE route = "upstream" ->
                      IF w.req[r].upstream # Null THEN {Crash(w)}
                      ELSE Then(tried, versions)
                 [] route = "file" -> versions(file)
                 [] route = "missing" -> {ConstructErr(w, r)}
  <2>1. v \in UNION {step(route) : route \in Routes}
    BY DEF RequestProcessUri
  <2> HIDE DEF step
  <2>2. PICK route \in Routes : v \in step(route)
    BY <2>1
  <2>3. route \in {"upstream", "file", "missing"}
    BY RoutesAssumption
  <2> HIDE DEF versions, file, tried
  <2>4. CASE route = "upstream"
    BY <2>2, <2>4 DEF step
  <2>5. CASE route = "file"
    BY <2>2, <2>5 DEF step
  <2>6. CASE route = "missing"
    BY <2>2, <2>6 DEF step
  <2> QED BY <2>3, <2>4, <2>5, <2>6
<1>5. Tame(w, Crash(w)) /\ Tame(w, ConstructErr(w, r))
  BY CrashTame, ConstructErrTame
<1>6. v \in versions(file) => Tame(w, v)
  <2>1. Quiet(w, file)
    BY <1>2, ResourceQuiet
  <2> HIDE DEF file, versions
  <2> QED BY <1>3, <2>1, QuietTame
<1>7. ASSUME w.req[r].upstream = Null, v \in Then(tried, versions) PROVE Tame(w, v)
  <2>1. PICK x \in tried : v \in IF x.dead = "no" THEN versions(x) ELSE {x}
    <3> HIDE DEF tried, versions
    <3> QED BY <1>7 DEF Then
  <2>2. PICK y \in opened : x \in IF y.dead = "no" THEN connect(y) ELSE {y}
    <3> HIDE DEF opened, connect
    <3> QED BY <2>1 DEF Then
  <2> HIDE DEF versions, tried
  <2>3. Tame(w, y)
    <3>1. CASE FreeConns(w) = {}
      BY <2>2, <3>1, Stays
    <3>2. CASE FreeConns(w) # {}
      <4> HIDE DEF new
      <4>1. PICK u \in FreeConns(w) : y = new(u)
        BY <2>2, <3>2
      <4>2. UpOf(w)[r] = Null
        BY <1>2, <1>7
      <4> QED BY <4>1, <4>2, OpenedTame DEF new
    <3> QED BY <3>1, <3>2
  <2> HIDE DEF opened
  <2>4. Tame(w, x)
    <3>1. x = y \/ x \in GetServerByRound(y, r)
      BY <2>2
    <3>2. Sound(y) /\ Has(y, r)
      BY <2>3, TameHas DEF Tame
    <3>3. x \in GetServerByRound(y, r) => Tame(y, x)
      BY <3>2, GetServerByRoundTame
    <3> QED BY <2>3, <3>1, <3>3, TameTrans
  <2>5. v = x \/ v \in versions(x)
    BY <2>1
  <2> QED BY <1>3, <2>4, <2>5
<1> HIDE DEF versions, file, tried
<1> QED BY <1>4, <1>5, <1>6, <1>7

LEMMA ProcessRequestLineSafe ==
  ASSUME NEW w, Sound(w), NEW c \in Conns, Hdl(w)[<<c, "rev">>] # Null,
         NEW v \in ProcessRequestLine(w, c)
  PROVE  Safe(w, v)
<1> DEFINE r == w.conn[c].data
           next(x) == Handle(x, c, "rev", "http_parse_headers")
<1>1. CASE w.conn[c].rev.timedout
  <2>1. v = IF r = Null THEN Crash(w) ELSE ConstructErr(w, r)
    BY <1>1 DEF ProcessRequestLine
  <2>2. CASE r = Null
    BY <2>1, <2>2, CrashTame
  <2>3. CASE r # Null
    <3>1. HasData(w, c, r)
      BY <2>3, Found
    <3> HIDE DEF r
    <3> QED BY <2>1, <2>3, <3>1, ConstructErrTame, TameSafe DEF HasData
  <2> QED BY <2>2, <2>3
<1>2. CASE ~w.conn[c].rev.timedout /\ ~w.conn[c].open
  <2>1. v = w
    BY <1>2 DEF ProcessRequestLine
  <2> QED BY <2>1, Stays
<1>3. CASE ~w.conn[c].rev.timedout /\ w.conn[c].open /\ r = Null
  <2>1. v = Crash(w)
    BY <1>3 DEF ProcessRequestLine
  <2> QED BY <2>1, CrashTame
<1>4. CASE ~w.conn[c].rev.timedout /\ w.conn[c].open /\ r # Null
  <2> DEFINE headers(x) == HttpParseHeaders(x, c)
             lines(x) == Then(RequestProcessUri(next(x), r), headers)
  <2>1. \/ v = HttpCloseRequest(w, r)
        \/ \E p \in ParseRequestLine(w, r) :
             \/ p.rc = "OK" /\ v \in lines(p.world)
             \/ p.rc = "AGAIN" /\ v = EventAddTimer(p.world, c, "rev")
             \/ p.rc = "ERROR" /\ v = ConstructErr(p.world, r)
    <3> DEFINE after(p) ==
                 CASE p.rc = "OK" -> lines(p.world)
                   [] p.rc = "AGAIN" -> {EventAddTimer(p.world, c, "rev")}
                   [] p.rc = "ERROR" -> {ConstructErr(p.world, r)}
    <3>1. v \in BufferRecv(w, r, UNION {after(p) : p \in ParseRequestLine(w, r)})
      BY <1>4 DEF ProcessRequestLine
    <3>2. v = HttpCloseRequest(w, r) \/ \E p \in ParseRequestLine(w, r) : v \in after(p)
      <4> HIDE DEF after
      <4> QED BY <3>1 DEF BufferRecv
    <3>3. SUFFICES ASSUME NEW p \in ParseRequestLine(w, r), v \in after(p)
          PROVE  \/ p.rc = "OK" /\ v \in lines(p.world)
                 \/ p.rc = "AGAIN" /\ v = EventAddTimer(p.world, c, "rev")
                 \/ p.rc = "ERROR" /\ v = ConstructErr(p.world, r)
      <4> HIDE DEF after, lines
      <4> QED BY <3>2
    <3>4. p.rc \in {"OK", "AGAIN", "ERROR"}
      BY DEF ParseRequestLine
    <3> HIDE DEF lines, r
    <3>5. CASE p.rc = "OK"
      BY <3>3, <3>5
    <3>6. CASE p.rc = "AGAIN"
      BY <3>3, <3>6
    <3>7. CASE p.rc = "ERROR"
      BY <3>3, <3>7
    <3> QED BY <3>4, <3>5, <3>6, <3>7
  <2>2. HasData(w, c, r) /\ Data(w)[c] = r /\ r # Null
    BY <1>4, Found
  <2> HIDE DEF r, headers
  <2>3. Has(w, r) /\ c \in Used(w) /\ r \in Conns
    BY <2>2 DEF HasData, Has
  <2>4. Safe(w, HttpCloseRequest(w, r))
    BY <2>3, HttpCloseRequestSafe
  <2>5. "rev" \in Kinds /\ <<c, "rev">> \in Events
    BY DEF Kinds, Events
  <2>6. ASSUME NEW x, Tame(w, x)
        PROVE  /\ v \in lines(x) => Safe(w, v)
               /\ Safe(w, EventAddTimer(x, c, "rev"))
               /\ Safe(w, ConstructErr(x, r))
    <3>1. Sound(x) /\ Has(x, r) /\ c \in Used(x) /\ Data(x)[c] = r /\ Hdl(x)[<<c, "rev">>] # Null
      BY <2>2, <2>3, <2>5, <2>6, TameHas DEF Tame, Grow
    <3>2. Handled(x, next(x), <<c, "rev">>, "http_parse_headers")
      <4>1. Fits(x, c, "rev", "http_parse_headers")
        BY <2>2, <3>1 DEF Fits, ReadHandlers
      <4> QED BY <2>5, <3>1, <4>1, HandleTame
    <3> HIDE DEF next
    <3>3. /\ Tame(w, next(x)) /\ Sound(next(x)) /\ Has(next(x), r)
          /\ Hdl(next(x))[<<c, "rev">>] # Null
      BY <2>3, <2>6, <3>2, TameTrans, TameHas, NullAssumption DEF Handled, Tame, ReadHandlers
    <3>4. ASSUME v \in lines(x) PROVE Safe(w, v)
      <4>1. PICK y \in RequestProcessUri(next(x), r) :
              v \in IF y.dead = "no" THEN headers(y) ELSE {y}
        BY <3>4 DEF Then
      <4>2. Tame(next(x), y)
        BY <3>3, RequestProcessUriTame
      <4>3. Tame(w, y)
        BY <3>3, <4>2, TameTrans
      <4>4. Sound(y) /\ Hdl(y)[<<c, "rev">>] # Null
        <5>1. c \in Used(next(x))
          BY <2>3, <3>3 DEF Tame, Grow
        <5> QED BY <2>5, <3>3, <4>2, <5>1 DEF Tame, Grow
      <4>5. v = y \/ v \in HttpParseHeaders(y, c)
        BY <4>1 DEF headers
      <4>6. v \in HttpParseHeaders(y, c) => Safe(y, v)
        BY <4>4, HttpParseHeadersSafe
      <4> QED BY <4>3, <4>5, <4>6, TameSafe, SafeTrans
    <3>5. Safe(w, EventAddTimer(x, c, "rev"))
      <4>1. Tame(x, EventAddTimer(x, c, "rev"))
        BY <2>5, <3>1, EventAddTimerQuiet, QuietTame
      <4> QED BY <2>6, <4>1, TameTrans, TameSafe
    <3>6. Safe(w, ConstructErr(x, r))
      BY <2>6, <3>1, TameTrans, TameSafe, ConstructErrTame
    <3> QED BY <3>4, <3>5, <3>6
  <2> HIDE DEF lines
  <2>7. ASSUME NEW p \in ParseRequestLine(w, r) PROVE Tame(w, p.world)
    <3> DEFINE x == [w EXCEPT !.req[r].rb = "parsed"]
    <3>1. p.world = x \/ p.world = w
      BY DEF ParseRequestLine
    <3>2. Quiet(w, x)
      BY <2>3, RbQuiet
    <3> HIDE DEF x
    <3> QED BY <3>1, <3>2, QuietTame, Stays
  <2>8. ASSUME NEW p \in ParseRequestLine(w, r),
                \/ p.rc = "OK" /\ v \in lines(p.world)
                \/ p.rc = "AGAIN" /\ v = EventAddTimer(p.world, c, "rev")
                \/ p.rc = "ERROR" /\ v = ConstructErr(p.world, r)
        PROVE  Safe(w, v)
    <3>1. Tame(w, p.world)
      BY <2>7
    <3> QED BY <2>6, <2>8, <3>1
  <2> QED BY <2>1, <2>4, <2>8
<1> QED BY <1>1, <1>2, <1>3, <1>4

-----------------------------------------------------------------------------
(***************************************************************************)
(* The first callback of a connection, and the call of any callback.  What *)
(* the call keeps is said of the other connections: the first callback     *)
(* gives its own connection a request, or closes it.                       *)
(***************************************************************************)
KeepOthers(w, v, c) ==
  /\ \A d \in Conns : d # c /\ Hdl(v)[<<d, "rev">>] = "http_init_request" =>
       /\ Hdl(w)[<<d, "rev">>] = "http_init_request"
       /\ d \in Used(w) => d \in Used(v)
  /\ \A r \in LiveIn(v) : Data(v)[r] # r => r \in LiveIn(w) /\ Data(w)[r] # r
Calls(w, v, c) == Sound(v) /\ KeepOthers(w, v, c)

LEMMA SafeCalls ==
  ASSUME NEW w, NEW v, NEW c, Safe(w, v)
  PROVE  Calls(w, v, c)
BY DEF Safe, Keep, Calls, KeepOthers

LEMMA CallsSafe ==
  ASSUME NEW u, NEW v, NEW w, NEW c, Calls(u, v, c), Safe(v, w)
  PROVE  Calls(u, w, c)
BY DEF Safe, Keep, Calls, KeepOthers

(* A client that never sent a line is closed.                              *)
LEMMA CloseWaiting ==
  ASSUME NEW w, Sound(w), NEW c \in Conns, Data(w)[c] = Null
  PROVE  Calls(w, HttpCloseConnection(w, c), c)
<1> DEFINE v == HttpCloseConnection(w, c)
<1>1. w \in Worlds /\ Timers(w) /\ Watched(w) /\ Handlers(w)
  BY DEF Sound
<1>2. CASE c \notin Conned(w)
  <2>1. v = w
    BY <1>1, <1>2, CloseNothing
  <2> HIDE DEF v
  <2>2. Calls(w, v, c)
    BY <2>1, Stays, SafeCalls
  <2> QED BY <2>2 DEF v
<1>3. CASE c \in Conned(w)
  <2>1. Closes(w, v, c)
    BY <1>1, <1>3, CloseIs
  <2> HIDE DEF v
  <2>2. Timers(v) /\ Watched(v) /\ Handlers(v) /\ v \in Worlds
    BY <1>1, <2>1, ClosesEvents DEF Closes
  <2>3. /\ LiveIn(v) = LiveIn(w) /\ \A d \in Conns : Data(v)[d] = Data(w)[d]
        /\ \A d \in Conns : ConnOf(v)[d] = ConnOf(w)[d] /\ UpOf(v)[d] = UpOf(w)[d]
        /\ SameHdl(w, v) /\ Used(v) = Used(w) \ {c} /\ Opened(v) = Opened(w) \ {c}
        /\ Conned(v) \subseteq Conned(w)
    <3>1. \A d \in Conns : d # Null
      BY NullAssumption
    <3> QED BY <2>1, <3>1 DEF Closes
  <2>4. Links(v)
    <3>1. ASSUME NEW d \in Conns, Data(v)[d] # Null, NEW r, r = Data(v)[d]
          PROVE  /\ d \in Used(v) /\ r \in LiveIn(v) /\ (d = r \/ UpOf(v)[r] = d)
                 /\ Data(v)[r] = r /\ ConnOf(v)[r] = r
                 /\ d # r /\ d \in Conned(v) => Hdl(v)[<<d, "wev">>] # Null
                 /\ Hdl(v)[<<d, "rev">>] # "http_init_request"
      <4>1. d # c /\ r = Data(w)[d] /\ r # Null
        BY <2>3, <3>1
      <4>2. /\ d \in Used(w) /\ r \in LiveIn(w) /\ (d = r \/ UpOf(w)[r] = d)
            /\ Data(w)[r] = r /\ ConnOf(w)[r] = r
            /\ d # r /\ d \in Conned(w) => Hdl(w)[<<d, "wev">>] # Null
            /\ Hdl(w)[<<d, "rev">>] # "http_init_request"
        BY <4>1 DEF Sound, Links
      <4>3. r \in Conns
        BY <4>2 DEF LiveIn
      <4> QED BY <2>3, <4>1, <4>2, <4>3 DEF SameHdl
    <3>2. ASSUME NEW r \in Conns, Data(v)[r] = r
          PROVE  /\ r \in Opened(v)
                 /\ UpOf(v)[r] # Null => UpOf(v)[r] # r /\ Data(v)[UpOf(v)[r]] = r
                 /\ Hdl(v)[<<r, "rev">>] # "http_recv_upstream"
                 /\ Hdl(v)[<<r, "wev">>] \notin {"http_proxy_pass",
                                                 "process_connection_result_of_upstream"}
      <4>1. Data(w)[r] = r /\ r # c
        BY <2>3, <3>2, NullAssumption
      <4>2. UpOf(w)[r] \in Conns \cup {Null}
        BY DEF Sound, Worlds, ReqType, UpOf
      <4> QED BY <2>3, <4>1, <4>2 DEF Sound, Links, SameHdl
    <3> QED BY <3>1, <3>2 DEF Links
  <2>5. KeepOthers(w, v, c)
    <3>1. ASSUME NEW d \in Conns, d # c, Hdl(v)[<<d, "rev">>] = "http_init_request"
          PROVE  Hdl(w)[<<d, "rev">>] = "http_init_request" /\ (d \in Used(w) => d \in Used(v))
      BY <2>3, <3>1 DEF SameHdl
    <3>2. ASSUME NEW r \in LiveIn(v), Data(v)[r] # r PROVE r \in LiveIn(w) /\ Data(w)[r] # r
      BY <2>3, <3>2 DEF LiveIn
    <3> QED BY <3>1, <3>2 DEF KeepOthers
  <2>6. Calls(w, v, c)
    BY <2>2, <2>4, <2>5 DEF Calls, Sound
  <2> QED BY <2>6 DEF v
<1> QED BY <1>2, <1>3

(* create_http_request: the client gets its request.                       *)
LEMMA RequestMade ==
  ASSUME NEW w, Sound(w), NEW c \in Used(w), Hdl(w)[<<c, "rev">>] = "http_init_request"
  PROVE  LET v == Handle([w EXCEPT !.conn[c].data = c,
                                   !.req[c] = [ZeroReq EXCEPT !.live = TRUE, !.connection = c]],
                         c, "rev", "ngx_http_process_request_line")
         IN  Calls(w, v, c) /\ Hdl(v)[<<c, "rev">>] # Null
<1> DEFINE q == [ZeroReq EXCEPT !.live = TRUE, !.connection = c]
           a == [w EXCEPT !.conn[c].data = c]
           b == [a EXCEPT !.req[c] = q]
           h == "ngx_http_process_request_line"
           v == Handle(b, c, "rev", h)
           e == <<c, "rev">>
<1>1. /\ w \in Worlds /\ c \in Conns /\ c # Null
      /\ c \in Opened(w) /\ Hdl(w)[<<c, "wev">>] = Null /\ Data(w)[c] = Null
      /\ "rev" \in Kinds /\ e \in Events /\ <<c, "wev">> \in Events
      /\ h \in ReadHandlers /\ h # Null
  BY NullAssumption DEF Sound, Handlers, Links, Used, Kinds, Events, ReadHandlers
<1>2. Handle([w EXCEPT !.conn[c].data = c, !.req[c] = q], c, "rev", h) = v
  <2>1. [w EXCEPT !.conn[c].data = c, !.req[c] = q] = b
    BY <1>1 DEF Worlds
  <2> QED BY <2>1
<1>3. q \in ReqType /\ q.live = TRUE /\ q.connection = c /\ q.upstream = Null
  <2>1. ZeroReq \in ReqType /\ ZeroReq.upstream = Null
    BY ZeroReqType DEF ZeroReq
  <2> QED BY <1>1, <2>1 DEF ReqType
<1> HIDE DEF q
<1>4. DataIs(w, a, c, c)
  BY <1>1, DataSet
<1> HIDE DEF a
<1>5. a \in Worlds
  BY <1>4 DEF DataIs
<1>6. ReqIs(a, b, c, q)
  BY <1>1, <1>3, <1>5, ReqIsSet
<1> HIDE DEF b
<1>7. b \in Worlds
  BY <1>6 DEF ReqIs
<1>8. HandlerIs(b, v, e, h)
  BY <1>1, <1>7, HandlerSet DEF Handle
<1> HIDE DEF v
<1>9. /\ v \in Worlds /\ SameAct(w, v) /\ SameTimers(w, v) /\ SameSets(w, v)
      /\ Used(v) = Used(w) /\ Opened(v) = Opened(w) /\ Conned(v) = Conned(w)
  BY <1>4, <1>6, <1>8 DEF DataIs, ReqIs, HandlerIs, Same, SameConn, SameSets, SameEv,
     SameAct, SameTimers
<1>10. Data(v)[c] = c /\ \A d \in Conns : d # c => Data(v)[d] = Data(w)[d]
  BY <1>4, <1>6, <1>8 DEF DataIs, ReqIs, HandlerIs, Same, SameConn
<1>11. /\ LiveIn(v) = LiveIn(w) \cup {c} /\ ConnOf(v)[c] = c /\ UpOf(v)[c] = Null
       /\ \A d \in Conns : d # c => ConnOf(v)[d] = ConnOf(w)[d] /\ UpOf(v)[d] = UpOf(w)[d]
  BY <1>3, <1>4, <1>6, <1>8 DEF DataIs, ReqIs, HandlerIs, Same, SameReq
<1>12. Hdl(v)[e] = h /\ \A x \in Events : x # e => Hdl(v)[x] = Hdl(w)[x]
  BY <1>1, <1>4, <1>6, <1>8 DEF DataIs, ReqIs, HandlerIs, Same, SameHdl, SameEv
<1>13. \A d \in Conns : /\ d # c => Hdl(v)[<<d, "rev">>] = Hdl(w)[<<d, "rev">>]
                        /\ Hdl(v)[<<d, "wev">>] = Hdl(w)[<<d, "wev">>]
  <2>1. \A d \in Conns : <<d, "rev">> \in Events /\ <<d, "wev">> \in Events
    BY DEF Events, Kinds
  <2> QED BY <1>12, <2>1
<1>14. Timers(v)
  <2>1. ASSUME NEW x \in v.tree PROVE x[1] \in Used(v) /\ Hdl(v)[x] # Null
    <3>1. x \in w.tree /\ x \in Events
      BY <1>1, <1>9 DEF SameSets, Worlds
    <3>2. x[1] \in Used(w) /\ Hdl(w)[x] # Null
      BY <3>1 DEF Sound, Timers
    <3> QED BY <1>1, <1>9, <1>12, <3>1, <3>2
  <2> QED BY <1>9, <2>1 DEF Sound, Timers, SameTimers, SameSets
<1>15. Watched(v)
  BY <1>9 DEF Sound, Watched, SameAct, SameSets
<1>16. Handlers(v)
  <2>1. ASSUME NEW d \in Conns
        PROVE  /\ Hdl(v)[<<d, "rev">>] \in ReadHandlers \cup {Null}
               /\ Hdl(v)[<<d, "wev">>] \in WriteHandlers \cup {Null}
               /\ Hdl(v)[<<d, "wev">>] = "http_proxy_pass" => Hdl(v)[<<d, "rev">>] # Null
    <3>1. CASE d = c
      BY <1>1, <1>12, <1>13, <3>1 DEF Sound, Handlers
    <3>2. CASE d # c
      BY <1>13, <3>2 DEF Sound, Handlers
    <3> QED BY <3>1, <3>2
  <2>2. ASSUME NEW d \in Used(v), Hdl(v)[<<d, "rev">>] = "http_init_request"
        PROVE  d \in Opened(v) /\ Hdl(v)[<<d, "wev">>] = Null
    <3>1. d \in Conns /\ d # c /\ d \in Used(w)
      BY <1>9, <1>12, <2>2 DEF Used
    <3> QED BY <1>9, <1>13, <2>2, <3>1 DEF Sound, Handlers
  <2> QED BY <2>1, <2>2 DEF Handlers
<1>17. Links(v)
  <2>1. ASSUME NEW d \in Conns, Data(v)[d] # Null, NEW r, r = Data(v)[d]
        PROVE  /\ d \in Used(v) /\ r \in LiveIn(v) /\ (d = r \/ UpOf(v)[r] = d)
               /\ Data(v)[r] = r /\ ConnOf(v)[r] = r
               /\ d # r /\ d \in Conned(v) => Hdl(v)[<<d, "wev">>] # Null
               /\ Hdl(v)[<<d, "rev">>] # "http_init_request"
    <3>1. CASE d = c
      BY <1>9, <1>10, <1>11, <1>12, <2>1, <3>1
    <3>2. CASE d # c
      <4>1. r = Data(w)[d] /\ r # Null
        BY <1>10, <2>1, <3>2
      <4>2. /\ d \in Used(w) /\ r \in LiveIn(w) /\ (d = r \/ UpOf(w)[r] = d)
            /\ Data(w)[r] = r /\ ConnOf(w)[r] = r
            /\ d # r /\ d \in Conned(w) => Hdl(w)[<<d, "wev">>] # Null
            /\ Hdl(w)[<<d, "rev">>] # "http_init_request"
        BY <4>1 DEF Sound, Links
      <4>3. r \in Conns /\ r # c
        BY <1>1, <4>2 DEF LiveIn
      <4> QED BY <1>9, <1>10, <1>11, <1>13, <3>2, <4>2, <4>3
    <3> QED BY <3>1, <3>2
  <2>2. ASSUME NEW r \in Conns, Data(v)[r] = r
        PROVE  /\ r \in Opened(v)
               /\ UpOf(v)[r] # Null => UpOf(v)[r] # r /\ Data(v)[UpOf(v)[r]] = r
               /\ Hdl(v)[<<r, "rev">>] # "http_recv_upstream"
               /\ Hdl(v)[<<r, "wev">>] \notin {"http_proxy_pass",
                                               "process_connection_result_of_upstream"}
    <3>1. CASE r = c
      BY <1>1, <1>9, <1>11, <1>12, <1>13, <3>1, NullAssumption DEF WriteHandlers
    <3>2. CASE r # c
      <4>1. /\ Data(w)[r] = r /\ UpOf(v)[r] = UpOf(w)[r]
            /\ UpOf(w)[r] \in Conns \cup {Null}
        BY <1>10, <1>11, <2>2, <3>2 DEF Sound, Worlds, ReqType, UpOf
      <4>2. /\ r \in Opened(w)
            /\ UpOf(w)[r] # Null => UpOf(w)[r] # r /\ Data(w)[UpOf(w)[r]] = r
            /\ Hdl(w)[<<r, "rev">>] # "http_recv_upstream"
            /\ Hdl(w)[<<r, "wev">>] \notin {"http_proxy_pass",
                                            "process_connection_result_of_upstream"}
        BY <4>1 DEF Sound, Links
      <4>3. UpOf(w)[r] # Null => UpOf(w)[r] # c
        BY <1>1, <4>2, NullAssumption
      <4> QED BY <1>9, <1>10, <1>13, <3>2, <4>1, <4>2, <4>3
    <3> QED BY <3>1, <3>2
  <2> QED BY <2>1, <2>2 DEF Links
<1>18. KeepOthers(w, v, c)
  <2>1. ASSUME NEW d \in Conns, d # c, Hdl(v)[<<d, "rev">>] = "http_init_request"
        PROVE  Hdl(w)[<<d, "rev">>] = "http_init_request" /\ (d \in Used(w) => d \in Used(v))
    BY <1>9, <1>13, <2>1
  <2>2. ASSUME NEW r \in LiveIn(v), Data(v)[r] # r PROVE r \in LiveIn(w) /\ Data(w)[r] # r
    BY <1>10, <1>11, <2>2 DEF LiveIn
  <2> QED BY <2>1, <2>2 DEF KeepOthers
<1>19. Calls(w, v, c) /\ Hdl(v)[<<c, "rev">>] # Null
  BY <1>1, <1>9, <1>12, <1>14, <1>15, <1>16, <1>17, <1>18 DEF Calls, Sound
<1> QED BY <1>2, <1>19 DEF q

LEMMA HttpInitRequestCalls ==
  ASSUME NEW w, Sound(w), NEW c \in Used(w), Hdl(w)[<<c, "rev">>] = "http_init_request",
         NEW v \in HttpInitRequest(w, c)
  PROVE  Calls(w, v, c)
<1> DEFINE x == Handle([w EXCEPT !.conn[c].data = c,
                                 !.req[c] = [ZeroReq EXCEPT !.live = TRUE, !.connection = c]],
                       c, "rev", "ngx_http_process_request_line")
<1>1. c \in Conns
  BY DEF Used
<1>2. CASE w.conn[c].rev.timedout
  <2>1. v = HttpCloseConnection(w, c)
    BY <1>2 DEF HttpInitRequest
  <2>2. Data(w)[c] = Null
    BY <1>1 DEF Sound, Links
  <2> QED BY <1>1, <2>1, <2>2, CloseWaiting
<1>3. CASE ~w.conn[c].rev.timedout
  <2>1. v \in ProcessRequestLine(x, c)
    BY <1>3 DEF HttpInitRequest
  <2>2. Calls(w, x, c) /\ Hdl(x)[<<c, "rev">>] # Null
    BY RequestMade
  <2> HIDE DEF x
  <2>3. Safe(x, v)
    BY <1>1, <2>1, <2>2, ProcessRequestLineSafe DEF Calls
  <2> QED BY <2>2, <2>3, CallsSafe
<1> QED BY <1>2, <1>3

(* The call ev->handler(ev) of every other callback.                       *)
LEMMA CallSafe ==
  ASSUME NEW w, Sound(w), NEW c \in Conns, NEW k \in Kinds, Hdl(w)[<<c, k>>] # Null,
         Hdl(w)[<<c, k>>] # "http_init_request", NEW v \in Call(w, c, k)
  PROVE  Safe(w, v)
<1> DEFINE h == Hdl(w)[<<c, k>>]
<1>1. w.conn[c][k].handler = h
  BY DEF Hdl, Ev, Events
<1>2. \/ k = "rev" /\ h \in ReadHandlers
      \/ k = "wev" /\ h \in WriteHandlers
  <2>1. /\ Hdl(w)[<<c, "rev">>] \in ReadHandlers \cup {Null}
        /\ Hdl(w)[<<c, "wev">>] \in WriteHandlers \cup {Null}
    BY DEF Sound, Handlers
  <2>2. k = "rev" \/ k = "wev"
    BY DEF Kinds
  <2> QED BY <2>1, <2>2
<1> HIDE DEF h
<1>3. h # "http_init_request"
  BY DEF h
<1>4. CASE h = "ngx_http_process_request_line"
  <2>1. v \in ProcessRequestLine(w, c) /\ k = "rev"
    BY <1>1, <1>2, <1>4 DEF Call, WriteHandlers
  <2> QED BY <2>1, ProcessRequestLineSafe
<1>5. CASE h = "http_parse_headers"
  <2>1. v \in HttpParseHeaders(w, c) /\ k = "rev"
    BY <1>1, <1>2, <1>5 DEF Call, WriteHandlers
  <2> QED BY <2>1, HttpParseHeadersSafe
<1>6. CASE h = "request_handle_body"
  <2>1. v \in RequestHandleBody(w, c)
    BY <1>1, <1>6 DEF Call
  <2> QED BY <2>1, RequestHandleBodySafe
<1>7. CASE h = "http_recv_upstream"
  <2>1. v \in HttpRecvUpstream(w, c) /\ k = "rev"
    BY <1>1, <1>2, <1>7 DEF Call, WriteHandlers
  <2> QED BY <1>7, <2>1, HttpRecvUpstreamSafe DEF h
<1>8. CASE h = "handle_response"
  <2>1. v \in HandleResponse(w, c) /\ k = "wev"
    BY <1>1, <1>2, <1>8 DEF Call, ReadHandlers
  <2> QED BY <2>1, HandleResponseSafe
<1>9. CASE h = "handle_response_file"
  <2>1. v \in HandleResponseFile(w, c) /\ k = "wev"
    BY <1>1, <1>2, <1>9 DEF Call, ReadHandlers
  <2> QED BY <2>1, HandleResponseFileSafe
<1>10. CASE h = "process_connection_result_of_upstream"
  <2>1. v \in ProcessConnectionResult(w, c) /\ k = "wev"
    BY <1>1, <1>2, <1>10 DEF Call, ReadHandlers
  <2> QED BY <1>10, <2>1, ProcessConnectionResultSafe DEF h
<1>11. CASE h = "http_proxy_pass"
  <2>1. v \in HttpProxyPass(w, c) /\ k = "wev"
    BY <1>1, <1>2, <1>11 DEF Call, ReadHandlers
  <2> QED BY <1>11, <2>1, HttpProxyPassSafe DEF h
<1> QED BY <1>2, <1>3, <1>4, <1>5, <1>6, <1>7, <1>8, <1>9, <1>10, <1>11
     DEF ReadHandlers, WriteHandlers

-----------------------------------------------------------------------------
(***************************************************************************)
(* event_accept and clear_idle_connections, which fold an operation over a *)
(* set of connections.                                                     *)
(***************************************************************************)
(* event_accept and init_connection: the object is like new, open, and     *)
(* waits for its first line.                                               *)
Accepts(w, v, c) ==
  /\ Sound(v) /\ LiveIn(v) = LiveIn(w) /\ Data(v) = Data(w) /\ Used(v) = Used(w) \cup {c}
  /\ \A d \in Conns : d # c => Hdl(v)[<<d, "rev">>] = Hdl(w)[<<d, "rev">>]

LEMMA InitConnectionAccepts ==
  ASSUME NEW w, Sound(w), NEW c \in FreeConns(w)
  PROVE  Accepts(w, InitConnection(w, c), c)
<1> DEFINE z0 == [ZeroConn EXCEPT !.inuse = TRUE]
           a == [w EXCEPT !.conn[c] = z0]
           b == [a EXCEPT !.conn[c].open = TRUE]
           d == [b EXCEPT !.conn[c].connected = TRUE]
           h == "http_init_request"
           v == Handle(d, c, "rev", h)
           e == <<c, "rev">>
           t == EventAddTimer(v, c, "rev")
           z == KqueueAddEvent(t, c, "rev")
<1>1. /\ w \in Worlds /\ c \in Conns /\ c \notin Used(w)
      /\ "rev" \in Kinds /\ e \in Events /\ h \in ReadHandlers /\ h # Null
  BY NullAssumption DEF Sound, FreeConns, Used, Kinds, Events, ReadHandlers
<1>2. c \notin Opened(w) /\ c \notin Conned(w) /\ Data(w)[c] = Null
  BY <1>1 DEF Sound, Watched, Links
<1>3. InitConnection(w, c) = z
  <2>1. GetIdleConnection(w, c) = a
    BY DEF GetIdleConnection
  <2>2. [a EXCEPT !.conn[c].open = TRUE, !.conn[c].connected = TRUE] = d
    BY <1>1 DEF Worlds
  <2> HIDE DEF a, d
  <2> QED BY <2>1, <2>2 DEF InitConnection
<1>4. /\ z0 \in ConnType /\ z0.inuse = TRUE /\ z0.open = FALSE /\ z0.connected = FALSE
      /\ z0.data = Null
      /\ \A k \in Kinds : /\ z0[k].active = FALSE /\ z0[k].timer_set = FALSE
                          /\ z0[k].timedout = FALSE /\ z0[k].handler = Null
  BY FreshConn
<1> HIDE DEF z0
<1>5. ConnIs(w, a, c, z0)
  BY <1>1, <1>4, ConnIsSet
<1> HIDE DEF a
<1>6. a \in Worlds
  BY <1>5 DEF ConnIs
<1>7. OpenIs(a, b, c, TRUE)
  BY <1>1, <1>6, OpenSet
<1> HIDE DEF b
<1>8. b \in Worlds
  BY <1>7 DEF OpenIs
<1>9. ConnedIs(b, d, c, TRUE)
  BY <1>1, <1>8, ConnedSet
<1> HIDE DEF d
<1>10. d \in Worlds
  BY <1>9 DEF ConnedIs
<1>11. HandlerIs(d, v, e, h)
  BY <1>1, <1>10, HandlerSet DEF Handle
<1> HIDE DEF v
<1>12. /\ Used(a) = Used(w) \cup {c} /\ Opened(a) = Opened(w) /\ Conned(a) = Conned(w)
       /\ Data(a) = Data(w)
  <2>1. Used(a) = Used(w) \cup {c}
    BY <1>1, <1>4, <1>5 DEF ConnIs, Used
  <2>2. Opened(a) = Opened(w)
    BY <1>1, <1>2, <1>4, <1>5 DEF ConnIs, Opened
  <2>3. Conned(a) = Conned(w)
    BY <1>1, <1>2, <1>4, <1>5 DEF ConnIs, Conned
  <2>4. Data(a) = Data(w)
    BY <1>1, <1>2, <1>4, <1>5 DEF ConnIs, Data
  <2> QED BY <2>1, <2>2, <2>3, <2>4
<1>13. \A x \in Events : IF x[1] = c THEN Ev(a, x) = z0[x[2]] ELSE Ev(a, x) = Ev(w, x)
  BY <1>5 DEF ConnIs, Ev, Events
<1>14. /\ Act(a) = {x \in Act(w) : x[1] # c} /\ TimerSet(a) = {x \in TimerSet(w) : x[1] # c}
       /\ Out(a) = {x \in Out(w) : x[1] # c}
       /\ \A x \in Events : Hdl(a)[x] = IF x[1] = c THEN Null ELSE Hdl(w)[x]
  <2>1. \A x \in Events : x[2] \in Kinds
    BY DEF Events
  <2>2. Act(a) = {x \in Act(w) : x[1] # c}
    BY <1>4, <1>13, <2>1 DEF Act
  <2>3. TimerSet(a) = {x \in TimerSet(w) : x[1] # c}
    BY <1>4, <1>13, <2>1 DEF TimerSet
  <2>4. Out(a) = {x \in Out(w) : x[1] # c}
    BY <1>4, <1>13, <2>1 DEF Out
  <2>5. \A x \in Events : Hdl(a)[x] = IF x[1] = c THEN Null ELSE Hdl(w)[x]
    BY <1>4, <1>13, <2>1 DEF Hdl
  <2> QED BY <2>2, <2>3, <2>4, <2>5
<1>15. /\ v \in Worlds /\ SameReq(w, v) /\ SameSets(w, v) /\ Data(v) = Data(w)
       /\ Used(v) = Used(w) \cup {c} /\ Opened(v) = Opened(w) \cup {c}
       /\ Conned(v) = Conned(w) \cup {c}
  BY <1>5, <1>7, <1>9, <1>11, <1>12
     DEF ConnIs, OpenIs, ConnedIs, HandlerIs, Same, SameReq, SameSets, SameConn
<1>16. /\ Act(v) = {x \in Act(w) : x[1] # c} /\ TimerSet(v) = {x \in TimerSet(w) : x[1] # c}
       /\ Out(v) = {x \in Out(w) : x[1] # c}
  BY <1>7, <1>9, <1>11, <1>14
     DEF OpenIs, ConnedIs, HandlerIs, Same, SameEv, SameAct, SameTimers
<1>17. \A x \in Events : Hdl(v)[x] = IF x = e THEN h ELSE IF x[1] = c THEN Null ELSE Hdl(w)[x]
  BY <1>1, <1>7, <1>9, <1>11, <1>14 DEF OpenIs, ConnedIs, HandlerIs, Same, SameEv, SameHdl
<1>18. \A x \in Conns : /\ Hdl(v)[<<x, "rev">>] = IF x = c THEN h ELSE Hdl(w)[<<x, "rev">>]
                        /\ Hdl(v)[<<x, "wev">>] = IF x = c THEN Null ELSE Hdl(w)[<<x, "wev">>]
  <2>1. \A x \in Conns : <<x, "rev">> \in Events /\ <<x, "wev">> \in Events
    BY DEF Events, Kinds
  <2> QED BY <1>17, <2>1
<1>19. Timers(v)
  <2>1. \A x \in w.tree : x[1] # c /\ x \in Events
    BY <1>1 DEF Sound, Timers, TimerSet
  <2> QED BY <1>15, <1>16, <1>17, <2>1 DEF Sound, Timers, SameSets
<1>20. Watched(v)
  <2>1. \A x \in Act(w) : x[1] # c
    BY <1>2 DEF Sound, Watched
  <2> QED BY <1>15, <1>16, <2>1 DEF Sound, Watched, SameSets
<1>21. Handlers(v)
  <2>1. ASSUME NEW x \in Conns
        PROVE  /\ Hdl(v)[<<x, "rev">>] \in ReadHandlers \cup {Null}
               /\ Hdl(v)[<<x, "wev">>] \in WriteHandlers \cup {Null}
               /\ Hdl(v)[<<x, "wev">>] = "http_proxy_pass" => Hdl(v)[<<x, "rev">>] # Null
    <3>1. CASE x = c
      BY <1>1, <1>18, <3>1
    <3>2. CASE x # c
      BY <1>18, <3>2 DEF Sound, Handlers
    <3> QED BY <3>1, <3>2
  <2>2. ASSUME NEW x \in Used(v), Hdl(v)[<<x, "rev">>] = "http_init_request"
        PROVE  x \in Opened(v) /\ Hdl(v)[<<x, "wev">>] = Null
    <3>1. x \in Conns
      BY DEF Used
    <3>2. CASE x = c
      BY <1>15, <1>18, <3>1, <3>2
    <3>3. CASE x # c
      BY <1>15, <1>18, <2>2, <3>1, <3>3 DEF Sound, Handlers
    <3> QED BY <3>2, <3>3
  <2> QED BY <2>1, <2>2 DEF Handlers
<1>22. Links(v)
  <2>1. ASSUME NEW x \in Conns, Data(v)[x] # Null, NEW r, r = Data(v)[x]
        PROVE  /\ x \in Used(v) /\ r \in LiveIn(v) /\ (x = r \/ UpOf(v)[r] = x)
               /\ Data(v)[r] = r /\ ConnOf(v)[r] = r
               /\ x # r /\ x \in Conned(v) => Hdl(v)[<<x, "wev">>] # Null
               /\ Hdl(v)[<<x, "rev">>] # "http_init_request"
    <3>1. x # c /\ r = Data(w)[x] /\ r # Null
      BY <1>2, <1>15, <2>1
    <3> QED BY <1>15, <1>18, <3>1 DEF Sound, Links, SameReq
  <2>2. ASSUME NEW r \in Conns, Data(v)[r] = r
        PROVE  /\ r \in Opened(v)
               /\ UpOf(v)[r] # Null => UpOf(v)[r] # r /\ Data(v)[UpOf(v)[r]] = r
               /\ Hdl(v)[<<r, "rev">>] # "http_recv_upstream"
               /\ Hdl(v)[<<r, "wev">>] \notin {"http_proxy_pass",
                                               "process_connection_result_of_upstream"}
    <3>1. r # c /\ Data(w)[r] = r
      BY <1>2, <1>15, <2>2, NullAssumption
    <3> QED BY <1>15, <1>18, <3>1 DEF Sound, Links, SameReq
  <2> QED BY <2>1, <2>2 DEF Links
<1>23. Sound(v) /\ c \in Used(v) /\ c \in Opened(v) /\ Hdl(v)[e] # Null
  BY <1>1, <1>15, <1>17, <1>19, <1>20, <1>21, <1>22 DEF Sound
<1>24. Quiet(v, t)
  BY <1>1, <1>23, EventAddTimerQuiet
<1> HIDE DEF t
<1>25. Sound(t) /\ c \in Opened(t)
  BY <1>23, <1>24 DEF Quiet, Frame, SameConn
<1>26. Quiet(t, z)
  BY <1>1, <1>25, KqueueAddEventQuiet
<1> HIDE DEF z
<1>27. Quiet(v, z)
  BY <1>24, <1>26, QuietTrans
<1>28. Accepts(w, z, c)
  BY <1>15, <1>18, <1>27 DEF Quiet, Frame, SameConn, SameReq, SameHdl, Accepts
<1> QED BY <1>3, <1>28

-----------------------------------------------------------------------------
(***************************************************************************)
(* Folds over a set of connections.  FoldSet takes a recursive function:   *)
(* that there is one, and what holds along it, follows by induction on the *)
(* number of connections.                                                  *)
(***************************************************************************)
LEMMA Induction ==
  ASSUME NEW S, 0 \in S, \A k \in Nat : k \in S => k + 1 \in S
  PROVE  \A k \in Nat : k \in S
<1> SUFFICES ASSUME NEW n \in Nat, n \notin S PROVE FALSE
  OBVIOUS
<1> DEFINE R == OpToRel(<, Nat)
           T == Nat \ S
<1>1. PICK m \in T : \A y \in T : ~ (<<y, m>> \in R)
  <2>1. IsWellFoundedOn(R, Nat)
    BY NatLessThanWellFounded
  <2>2. T \subseteq Nat /\ T # {}
    OBVIOUS
  <2> HIDE DEF R, T
  <2> QED BY <2>1, <2>2, WFMin
<1>2. m \in Nat /\ m # 0 /\ m - 1 \in Nat /\ m - 1 < m
  OBVIOUS
<1>3. <<m - 1, m>> \in R
  BY <1>2 DEF OpToRel
<1>4. m - 1 \in S
  BY <1>1, <1>2, <1>3
<1> QED BY <1>2, <1>4

First(s) == CHOOSE x \in s : TRUE

LEMMA Less ==
  ASSUME NEW S, IsFiniteSet(S), NEW s \in SUBSET S, s # {}
  PROVE  /\ First(s) \in s /\ s \ {First(s)} \in SUBSET S
         /\ Cardinality(s) \in Nat /\ Cardinality(s \ {First(s)}) = Cardinality(s) - 1
<1>1. First(s) \in s
  BY DEF First
<1>2. IsFiniteSet(s)
  BY FS_Subset
<1> QED BY <1>1, <1>2, FS_RemoveElement, FS_CardinalityType

LEMMA FoldInduction ==
  ASSUME NEW S, IsFiniteSet(S), NEW P, {} \in P,
         \A s \in SUBSET S : s # {} /\ s \ {First(s)} \in P => s \in P
  PROVE  S \in P
<1> DEFINE N == {n \in Nat : \A s \in SUBSET S : Cardinality(s) = n => s \in P}
<1>1. 0 \in N
  <2>1. ASSUME NEW s \in SUBSET S, Cardinality(s) = 0 PROVE s \in P
    <3>1. IsFiniteSet(s)
      BY FS_Subset
    <3>2. s = {}
      BY <2>1, <3>1, FS_EmptySet
    <3> QED BY <3>2
  <2> QED BY <2>1
<1>2. ASSUME NEW n \in Nat, n \in N PROVE n + 1 \in N
  <2>1. ASSUME NEW s \in SUBSET S, Cardinality(s) = n + 1 PROVE s \in P
    <3>1. s # {}
      BY <2>1, FS_EmptySet
    <3>2. s \ {First(s)} \in SUBSET S /\ Cardinality(s \ {First(s)}) = n
      BY <2>1, <3>1, Less
    <3> QED BY <1>2, <3>1, <3>2
  <2> QED BY <2>1
<1> HIDE DEF N
<1>3. \A n \in Nat : n \in N
  BY <1>1, <1>2, Induction
<1>4. Cardinality(S) \in Nat
  BY FS_CardinalityType
<1> QED BY <1>3, <1>4 DEF N

(* The two operations that are folded.                                     *)
Applied(b, x, c) == IF b THEN InitConnection(x, c) ELSE HttpCloseConnection(x, c)
Folded(b, w, s, f) == IF s = {} THEN w ELSE Applied(b, f[s \ {First(s)}], First(s))
IsFold(b, w, S, f) == f = [s \in SUBSET S |-> Folded(b, w, s, f)]

LEMMA FoldExists ==
  ASSUME NEW S, IsFiniteSet(S), NEW b, NEW w
  PROVE  \E f : IsFold(b, w, S, f)
<1> DEFINE Upto(n, f) ==
             \A s \in SUBSET S : Cardinality(s) <= n => f[s] = Folded(b, w, s, f)
           N == {n \in Nat : \E f : f = [s \in SUBSET S |-> f[s]] /\ Upto(n, f)}
<1>1. 0 \in N
  <2> DEFINE f == [s \in SUBSET S |-> w]
  <2>1. ASSUME NEW s \in SUBSET S, Cardinality(s) <= 0 PROVE f[s] = Folded(b, w, s, f)
    <3>1. IsFiniteSet(s) /\ Cardinality(s) \in Nat
      BY FS_Subset, FS_CardinalityType
    <3>2. s = {}
      BY <2>1, <3>1, FS_EmptySet
    <3> QED BY <3>2 DEF Folded
  <2>2. f = [s \in SUBSET S |-> f[s]]
    OBVIOUS
  <2> HIDE DEF f
  <2> QED BY <2>1, <2>2
<1>2. ASSUME NEW n \in Nat, n \in N PROVE n + 1 \in N
  <2>1. PICK f : Upto(n, f)
    BY <1>2
  <2> DEFINE g == [s \in SUBSET S |-> Folded(b, w, s, f)]
  <2>2. ASSUME NEW s \in SUBSET S, Cardinality(s) <= n + 1 PROVE g[s] = Folded(b, w, s, g)
    <3>1. CASE s = {}
      BY <3>1 DEF Folded
    <3>2. CASE s # {}
      <4> DEFINE r == s \ {First(s)}
      <4>1. r \in SUBSET S /\ Cardinality(r) <= n
        BY <2>2, <3>2, Less
      <4>2. g[r] = f[r]
        BY <2>1, <4>1
      <4>3. g[s] = Folded(b, w, s, f)
        OBVIOUS
      <4> HIDE DEF g
      <4> QED BY <3>2, <4>2, <4>3 DEF Folded
    <3> QED BY <3>1, <3>2
  <2>3. g = [s \in SUBSET S |-> g[s]]
    OBVIOUS
  <2> HIDE DEF g
  <2>4. Upto(n + 1, g)
    BY <2>2
  <2> HIDE DEF Upto
  <2> QED BY <2>3, <2>4
<1> HIDE DEF N
<1>3. \A n \in Nat : n \in N
  BY <1>1, <1>2, Induction
<1>4. Cardinality(S) \in Nat
  BY FS_CardinalityType
<1>5. PICK f : f = [s \in SUBSET S |-> f[s]] /\ Upto(Cardinality(S), f)
  BY <1>3, <1>4 DEF N
<1>6. ASSUME NEW s \in SUBSET S PROVE f[s] = Folded(b, w, s, f)
  <2>1. Cardinality(s) <= Cardinality(S)
    BY FS_Subset
  <2> QED BY <1>5, <2>1
<1>7. f = [s \in SUBSET S |-> Folded(b, w, s, f)]
  BY <1>5, <1>6
<1> QED BY <1>7 DEF IsFold

LEMMA AcceptFold ==
  ASSUME NEW w, NEW S, IsFiniteSet(S)
  PROVE  \E f : /\ IsFold(TRUE, w, S, f)
                /\ FoldSet(LAMBDA c, x : InitConnection(x, c), w, S) = f[S]
<1> DEFINE F(f) == [s \in SUBSET S |-> IF s = {} THEN w
                                       ELSE InitConnection(f[s \ {First(s)}], First(s))]
           g == CHOOSE f : f = F(f)
<1>1. FoldSet(LAMBDA c, x : InitConnection(x, c), w, S) = g[S]
  BY DEF FoldSet, MapThenFoldSet, First
<1>2. \A f : IsFold(TRUE, w, S, f) <=> f = F(f)
  <2>1. ASSUME NEW f, NEW s
        PROVE  Folded(TRUE, w, s, f) = IF s = {} THEN w
                                       ELSE InitConnection(f[s \ {First(s)}], First(s))
    BY DEF Folded, Applied
  <2> QED BY <2>1 DEF IsFold
<1> HIDE DEF F
<1>3. \E f : f = F(f)
  BY <1>2, FoldExists
<1>4. g = F(g)
  BY <1>3
<1> HIDE DEF g
<1>5. IsFold(TRUE, w, S, g)
  BY <1>2, <1>4
<1> QED BY <1>1, <1>5

LEMMA CloseFold ==
  ASSUME NEW w, NEW S, IsFiniteSet(S)
  PROVE  \E f : /\ IsFold(FALSE, w, S, f)
                /\ FoldSet(LAMBDA c, x : HttpCloseConnection(x, c), w, S) = f[S]
<1> DEFINE F(f) == [s \in SUBSET S |-> IF s = {} THEN w
                                       ELSE HttpCloseConnection(f[s \ {First(s)}], First(s))]
           g == CHOOSE f : f = F(f)
<1>1. FoldSet(LAMBDA c, x : HttpCloseConnection(x, c), w, S) = g[S]
  BY DEF FoldSet, MapThenFoldSet, First
<1>2. \A f : IsFold(FALSE, w, S, f) <=> f = F(f)
  <2>1. ASSUME NEW f, NEW s
        PROVE  Folded(FALSE, w, s, f) = IF s = {} THEN w
                                        ELSE HttpCloseConnection(f[s \ {First(s)}], First(s))
    BY DEF Folded, Applied
  <2> QED BY <2>1 DEF IsFold
<1> HIDE DEF F
<1>3. \E f : f = F(f)
  BY <1>2, FoldExists
<1>4. g = F(g)
  BY <1>3
<1> HIDE DEF g
<1>5. IsFold(FALSE, w, S, g)
  BY <1>2, <1>4
<1> QED BY <1>1, <1>5

Unfolds(b, w, S, f) ==
  /\ f[{}] = w
  /\ \A s \in SUBSET S : s # {} => f[s] = Applied(b, f[s \ {First(s)}], First(s))

LEMMA FoldAt ==
  ASSUME NEW S, NEW b, NEW w, NEW f, IsFold(b, w, S, f)
  PROVE  Unfolds(b, w, S, f)
<1>1. f = [s \in SUBSET S |-> Folded(b, w, s, f)]
  BY DEF IsFold
<1>2. \A s \in SUBSET S : f[s] = Folded(b, w, s, f)
  BY <1>1
<1> QED BY <1>2 DEF Folded, Unfolds

(* event_accept.                                                           *)
AcceptsAll(w, v, S) ==
  /\ Sound(v) /\ LiveIn(v) = LiveIn(w) /\ Data(v) = Data(w) /\ Used(v) = Used(w) \cup S
  /\ \A d \in Conns : d \notin S => Hdl(v)[<<d, "rev">>] = Hdl(w)[<<d, "rev">>]

LEMMA AcceptSound ==
  ASSUME NEW w, Sound(w), NEW S \in SUBSET FreeConns(w)
  PROVE  AcceptsAll(w, FoldSet(LAMBDA c, x : InitConnection(x, c), w, S), S)
<1> DEFINE v == FoldSet(LAMBDA c, x : InitConnection(x, c), w, S)
<1>1. IsFiniteSet(S) /\ S \subseteq Conns
  BY ConnsAssumption, FS_Subset DEF FreeConns
<1>0. PICK f : IsFold(TRUE, w, S, f) /\ v = f[S]
  BY <1>1, AcceptFold
<1> HIDE DEF v
<1>2. v = f[S] /\ Unfolds(TRUE, w, S, f)
  BY <1>0, FoldAt
<1> DEFINE P == {s \in SUBSET S : AcceptsAll(w, f[s], s)}
<1>3. {} \in P
  BY <1>2 DEF Unfolds, AcceptsAll
<1>4. ASSUME NEW s \in SUBSET S, s # {}, s \ {First(s)} \in P PROVE s \in P
  <2> DEFINE c == First(s)
             r == s \ {c}
  <2>1. c \in s /\ c \in S /\ c \in FreeConns(w) /\ c \in Conns
    BY <1>1, <1>4, Less
  <2>2. AcceptsAll(w, f[r], r)
    BY <1>4
  <2>3. f[s] = InitConnection(f[r], c)
    BY <1>2, <1>4 DEF Unfolds, Applied
  <2> HIDE DEF c
  <2>4. c \in FreeConns(f[r]) /\ Sound(f[r])
    <3>1. c \notin Used(w)
      BY <2>1 DEF FreeConns, Used
    <3>2. c \notin Used(f[r])
      BY <2>1, <2>2, <3>1 DEF AcceptsAll
    <3> QED BY <2>1, <2>2, <3>2 DEF AcceptsAll, Used, FreeConns
  <2>5. Accepts(f[r], f[s], c)
    BY <2>3, <2>4, InitConnectionAccepts
  <2>6. s = r \cup {c}
    BY <2>1
  <2>7. AcceptsAll(w, f[s], s)
    <3> HIDE DEF r
    <3> QED BY <2>2, <2>5, <2>6 DEF AcceptsAll, Accepts
  <2> QED BY <2>7
<1> HIDE DEF P
<1>5. S \in P
  BY <1>1, <1>3, <1>4, FoldInduction
<1>6. AcceptsAll(w, v, S)
  BY <1>2, <1>5 DEF P
<1> QED BY <1>6 DEF v

(* clear_idle_connections: no connection has data any more.                *)
Half(x) == x \in Worlds /\ Timers(x) /\ Watched(x) /\ Handlers(x)

LEMMA HalfClose ==
  ASSUME NEW w, Half(w), NEW c \in Conns
  PROVE  Half(HttpCloseConnection(w, c))
<1> DEFINE v == HttpCloseConnection(w, c)
<1>1. CASE Data(w)[c] # Null \/ c \in Conned(w)
  <2>1. Closes(w, v, c)
    BY <1>1, CloseIs DEF Half
  <2> HIDE DEF v
  <2>2. Half(v)
    BY <2>1, ClosesEvents DEF Half, Closes
  <2> QED BY <2>2 DEF v
<1>2. CASE Data(w)[c] = Null /\ c \notin Conned(w)
  BY <1>2, CloseNothing DEF Half
<1> QED BY <1>1, <1>2

LEMMA ClearedData ==
  ASSUME NEW v, Half(v)
  PROVE  Sound([v EXCEPT !.conn = [c \in Conns |-> [@[c] EXCEPT !.data = Null]]])
<1> DEFINE new(c) == [v.conn[c] EXCEPT !.data = Null]
           f == [c \in Conns |-> new(c)]
           z == [v EXCEPT !.conn = f]
<1>1. \A c \in Conns : v.conn[c] \in ConnType
  BY DEF Half, Worlds
<1>2. ASSUME NEW c \in Conns
      PROVE  /\ new(c) \in ConnType /\ new(c).data = Null
             /\ new(c).inuse = v.conn[c].inuse /\ new(c).open = v.conn[c].open
             /\ new(c).connected = v.conn[c].connected
             /\ new(c)["rev"] = v.conn[c]["rev"] /\ new(c)["wev"] = v.conn[c]["wev"]
  BY <1>1 DEF ConnType
<1> HIDE DEF new
<1>3. f \in [Conns -> ConnType]
  BY <1>2
<1> HIDE DEF f
<1>4. /\ z \in Worlds /\ z.conn = f /\ z.req = v.req /\ z.tree = v.tree /\ z.kq = v.kq
  BY <1>3 DEF Half, Worlds
<1> HIDE DEF z
<1>5. \A c \in Conns : /\ z.conn[c].data = Null
                       /\ z.conn[c].inuse = v.conn[c].inuse /\ z.conn[c].open = v.conn[c].open
                       /\ z.conn[c].connected = v.conn[c].connected
                       /\ z.conn[c]["rev"] = v.conn[c]["rev"]
                       /\ z.conn[c]["wev"] = v.conn[c]["wev"]
  BY <1>2, <1>4 DEF f
<1>6. Used(z) = Used(v) /\ Opened(z) = Opened(v) /\ Conned(z) = Conned(v)
  BY <1>5 DEF Used, Opened, Conned
<1>7. \A e \in Events : Ev(z, e) = Ev(v, e)
  BY <1>5 DEF Ev, Events, Kinds
<1>8. Act(z) = Act(v) /\ TimerSet(z) = TimerSet(v) /\ Out(z) = Out(v) /\ Hdl(z) = Hdl(v)
  BY <1>7 DEF Act, TimerSet, Out, Hdl
<1>9. \A c \in Conns : Data(z)[c] = Null
  BY <1>5 DEF Data
<1>10. Timers(z) /\ Watched(z) /\ Handlers(z)
  BY <1>4, <1>6, <1>8 DEF Half, Timers, Watched, Handlers
<1>11. Links(z)
  BY <1>9, NullAssumption DEF Links
<1>12. Sound(z)
  BY <1>4, <1>10, <1>11 DEF Sound
<1> QED BY <1>12 DEF z, f, new

LEMMA ClearSound ==
  ASSUME NEW w, Sound(w)
  PROVE  Sound(ClearIdleConnections(w))
<1> DEFINE S == {c \in Conns : w.conn[c].open /\ w.conn[c].idle}
           v == FoldSet(LAMBDA c, x : HttpCloseConnection(x, c), w, S)
<1>1. IsFiniteSet(S) /\ S \subseteq Conns
  BY ConnsAssumption, FS_Subset
<1>2. ClearIdleConnections(w) = [v EXCEPT !.conn = [c \in Conns |-> [@[c] EXCEPT !.data = Null]]]
  BY DEF ClearIdleConnections
<1> HIDE DEF S
<1>0. PICK f : IsFold(FALSE, w, S, f) /\ v = f[S]
  BY <1>1, CloseFold
<1> HIDE DEF v
<1>3. v = f[S] /\ Unfolds(FALSE, w, S, f)
  BY <1>0, FoldAt
<1> DEFINE P == {s \in SUBSET S : Half(f[s])}
<1>4. {} \in P
  BY <1>3 DEF Unfolds, Half, Sound
<1>5. ASSUME NEW s \in SUBSET S, s # {}, s \ {First(s)} \in P PROVE s \in P
  <2>1. First(s) \in Conns
    BY <1>1, <1>5, Less
  <2>2. f[s] = HttpCloseConnection(f[s \ {First(s)}], First(s))
    BY <1>3, <1>5 DEF Unfolds, Applied
  <2>3. Half(f[s \ {First(s)}])
    BY <1>5
  <2>4. Half(f[s])
    BY <2>1, <2>2, <2>3, HalfClose
  <2> QED BY <2>4
<1> HIDE DEF P
<1>6. S \in P
  BY <1>1, <1>4, <1>5, FoldInduction
<1>7. Half(v)
  BY <1>3, <1>6 DEF P
<1> QED BY <1>2, <1>7, ClearedData

-----------------------------------------------------------------------------
(***************************************************************************)
(* The inductive invariant.  A connection in the batch that waits for its  *)
(* first line is out of the pool: its callback does not look at the fd.    *)
(***************************************************************************)
Waits(w, b) ==
  \A c \in Conns : <<c, "rev">> \in b /\ Hdl(w)[<<c, "rev">>] = "http_init_request" =>
    c \in Used(w)

IInv ==
  /\ Sound(world)
  /\ batch \subseteq Events \cup {Listen}
  /\ exiting \in BOOLEAN
  /\ ~exiting => Linked(world)
  /\ Waits(world, batch)

LEMMA InitSound == Sound(InitWorld) /\ LiveIn(InitWorld) = {}
<1> DEFINE w == InitWorld
<1>1. /\ ZeroEvent \in EventType /\ ZeroEvent.active = FALSE /\ ZeroEvent.timer_set = FALSE
      /\ ZeroEvent.timedout = FALSE /\ ZeroEvent.handler = Null
  BY DEF ZeroEvent, EventType
<1>2. /\ ZeroConn \in ConnType /\ ZeroConn.open = FALSE /\ ZeroConn.connected = FALSE
      /\ ZeroConn.data = Null /\ ZeroConn.inuse = FALSE
      /\ ZeroConn["rev"] = ZeroEvent /\ ZeroConn["wev"] = ZeroEvent
  BY <1>1 DEF ZeroConn, ConnType
<1>3. ZeroReq \in ReqType /\ ZeroReq.live = FALSE
  BY ZeroReqType DEF ZeroReq
<1>4. /\ w \in Worlds /\ w.tree = {} /\ w.kq = {}
      /\ \A c \in Conns : w.conn[c] = ZeroConn /\ w.req[c] = ZeroReq
  BY <1>2, <1>3 DEF InitWorld, Worlds
<1> HIDE DEF w
<1>5. \A e \in Events : Ev(w, e) = ZeroEvent
  BY <1>2, <1>4 DEF Ev, Events, Kinds
<1>6. /\ Act(w) = {} /\ TimerSet(w) = {} /\ Out(w) = {} /\ \A e \in Events : Hdl(w)[e] = Null
  BY <1>1, <1>5 DEF Act, TimerSet, Out, Hdl
<1>7. /\ Used(w) = {} /\ Opened(w) = {} /\ Conned(w) = {}
      /\ \A c \in Conns : Data(w)[c] = Null
  BY <1>2, <1>4 DEF Used, Opened, Conned, Data
<1>8. LiveIn(w) = {}
  BY <1>3, <1>4 DEF LiveIn
<1>9. Timers(w) /\ Watched(w)
  BY <1>4, <1>6, <1>7 DEF Timers, Watched
<1>10. \A c \in Conns : Hdl(w)[<<c, "rev">>] = Null /\ Hdl(w)[<<c, "wev">>] = Null
  BY <1>6 DEF Events, Kinds
<1>11. Handlers(w)
  BY <1>7, <1>10, NullAssumption DEF Handlers, WriteHandlers
<1>12. Links(w)
  BY <1>7, NullAssumption DEF Links
<1>13. Sound(w) /\ LiveIn(w) = {}
  BY <1>4, <1>8, <1>9, <1>11, <1>12 DEF Sound
<1> QED BY <1>13 DEF w

(* A callback called from the loop or for an expired timer.                *)
LEMMA CalledLinked ==
  ASSUME NEW w, NEW v, NEW c, Calls(w, v, c), Linked(w)
  PROVE  Linked(v)
BY DEF Calls, KeepOthers, Linked

LEMMA CallStep ==
  ASSUME NEW w, Sound(w), NEW c \in Conns, NEW k \in Kinds, Hdl(w)[<<c, k>>] # Null,
         NEW b, Waits(w, b),
         Hdl(w)[<<c, k>>] = "http_init_request" => c \in Used(w) /\ <<c, "rev">> \notin b,
         NEW v \in Call(w, c, k)
  PROVE  Calls(w, v, c) /\ Waits(v, b)
<1>1. CASE Hdl(w)[<<c, k>>] = "http_init_request"
  <2>1. k = "rev"
    <3>1. Hdl(w)[<<c, "wev">>] # "http_init_request"
      BY NullAssumption DEF Sound, Handlers, ReadHandlers, WriteHandlers
    <3> QED BY <1>1, <3>1 DEF Kinds
  <2>2. w.conn[c][k].handler = "http_init_request"
    BY <1>1 DEF Hdl, Ev, Events
  <2>3. v \in HttpInitRequest(w, c)
    BY <2>2 DEF Call
  <2>4. Calls(w, v, c)
    BY <1>1, <2>1, <2>3, HttpInitRequestCalls
  <2> QED BY <1>1, <2>4 DEF Calls, KeepOthers, Waits
<1>2. CASE Hdl(w)[<<c, k>>] # "http_init_request"
  <2>1. Safe(w, v)
    BY <1>2, CallSafe
  <2>2. Waits(v, b)
    BY <2>1 DEF Safe, Keep, Waits
  <2> QED BY <2>1, <2>2, SafeCalls
<1> QED BY <1>1, <1>2

LEMMA ExpiredQuiet ==
  ASSUME NEW w, Sound(w), NEW c \in Conns, NEW k \in Kinds, <<c, k>> \in w.tree
  PROVE  Quiet(w, Expired(w, c, k))
<1> DEFINE e == <<c, k>>
           t == w.tree \ {e}
           a == [w EXCEPT !.tree = t]
           v == [a EXCEPT !.conn[c][k].timedout = TRUE]
<1>1. w \in Worlds /\ e \in Events
  BY DEF Sound, Events
<1>2. Expired(w, c, k) = v
  BY <1>1 DEF Expired, Worlds
<1>3. TreeIs(w, a, t)
  BY <1>1, SetsIs DEF Worlds
<1> HIDE DEF a
<1>4. a \in Worlds
  BY <1>3 DEF TreeIs
<1>5. TimedoutIs(a, v, e, TRUE)
  BY <1>4, TimedoutSet
<1> HIDE DEF v
<1>6. /\ v \in Worlds /\ Frame(w, v) /\ Act(v) = Act(w) /\ v.kq = w.kq /\ v.tree = w.tree \ {e}
      /\ TimerSet(v) = TimerSet(w) /\ Out(v) = Out(w) \cup {e}
  BY <1>3, <1>5 DEF TreeIs, TimedoutIs, Same, Frame, SameEv, SameAct, SameTimers, SameHdl,
     SameConn, SameReq, SameSets
<1>7. Handlers(v) /\ Links(v)
  BY <1>6, FrameSound
<1>8. Timers(v)
  BY <1>6 DEF Sound, Timers, Frame, SameConn, SameHdl
<1>9. Watched(v)
  BY <1>6 DEF Sound, Watched, Frame, SameConn
<1>10. Quiet(w, v)
  BY <1>6, <1>7, <1>8, <1>9 DEF Quiet, Sound
<1> QED BY <1>2, <1>10

LEMMA QuietLinked ==
  ASSUME NEW w, NEW v, Quiet(w, v), NEW b
  PROVE  /\ Linked(w) => Linked(v)
         /\ Waits(w, b) => Waits(v, b)
BY DEF Quiet, Frame, SameConn, SameReq, SameHdl, Linked, Waits

(* What kevent reports lies in connections that are out of the pool.       *)
LEMMA ReportedWaits ==
  ASSUME NEW w, Sound(w), NEW b \in SUBSET (w.kq \cup {Listen})
  PROVE  b \subseteq Events \cup {Listen} /\ Waits(w, b)
<1>1. w.kq \subseteq Events
  BY DEF Sound, Worlds
<1>2. \A c \in Conns : <<c, "rev">> \in w.kq => c \in Used(w)
  <2>1. ASSUME NEW c \in Conns, <<c, "rev">> \in w.kq PROVE c \in Used(w)
    <3>1. <<c, "rev">>[1] \in Opened(w)
      BY <2>1 DEF Sound, Watched
    <3> QED BY <3>1 DEF Sound, Watched
  <2> QED BY <2>1
<1>3. \A c \in Conns : <<c, "rev">> # Listen
  BY ConnsAssumption DEF Listen
<1> QED BY <1>1, <1>2, <1>3 DEF Waits

LEMMA InitStep == Init => IInv
BY InitSound DEF Init, IInv, Linked, Waits

LEMMA PollStep ==
  ASSUME IInv, Poll
  PROVE  IInv'
<1> DEFINE w == IF exiting THEN ClearIdleConnections(world) ELSE world
<1>1. Sound(w) /\ (~exiting => Linked(w)) /\ exiting \in BOOLEAN /\ exiting' = exiting
  BY ClearSound DEF IInv, Poll
<1>2. CASE exiting /\ w.tree = {}
  <2> DEFINE x == [w EXCEPT !.dead = "exit"]
  <2>1. world' = x /\ batch' = {}
    BY <1>2 DEF Poll
  <2> HIDE DEF w
  <2>2. Quiet(w, x)
    BY <1>1, CrashQuiet
  <2> HIDE DEF x
  <2> QED BY <1>1, <1>2, <2>1, <2>2 DEF IInv, Quiet, Waits
<1>3. CASE ~(exiting /\ w.tree = {})
  <2>1. world' = w /\ batch' \in SUBSET (w.kq \cup {Listen})
    BY <1>3 DEF Poll
  <2> HIDE DEF w
  <2>2. batch' \subseteq Events \cup {Listen} /\ Waits(w, batch')
    BY <1>1, <2>1, ReportedWaits
  <2> QED BY <1>1, <2>1, <2>2 DEF IInv
<1> QED BY <1>2, <1>3

LEMMA DispatchStep ==
  ASSUME IInv, Dispatch
  PROVE  IInv'
<1>1. PICK e \in batch \ {Listen} :
        /\ batch' = batch \ {e}
        /\ IF world.conn[e[1]][e[2]].handler = Null THEN world' = world
           ELSE world' \in Call(world, e[1], e[2])
  BY DEF Dispatch
<1>2. /\ Sound(world) /\ e \in Events /\ exiting' = exiting /\ exiting \in BOOLEAN
      /\ Waits(world, batch) /\ (~exiting => Linked(world)) /\ batch' \subseteq Events \cup {Listen}
  BY <1>1 DEF IInv, Dispatch
<1>3. PICK c \in Conns, k \in Kinds : e = <<c, k>>
  BY <1>2 DEF Events
<1>4. world.conn[c][k].handler = Hdl(world)[<<c, k>>]
  BY DEF Hdl, Ev, Events
<1>5. Waits(world, batch')
  BY <1>1, <1>2 DEF Waits
<1>6. CASE Hdl(world)[<<c, k>>] = Null
  <2>1. world' = world
    BY <1>1, <1>3, <1>4, <1>6
  <2> QED BY <1>2, <1>5, <2>1 DEF IInv
<1>7. CASE Hdl(world)[<<c, k>>] # Null
  <2>1. world' \in Call(world, c, k)
    BY <1>1, <1>3, <1>4, <1>7
  <2>2. Hdl(world)[<<c, k>>] = "http_init_request" =>
          c \in Used(world) /\ <<c, "rev">> \notin batch'
    <3>1. Hdl(world)[<<c, "wev">>] # "http_init_request"
      BY <1>2, NullAssumption DEF Sound, Handlers, ReadHandlers, WriteHandlers
    <3> QED BY <1>1, <1>2, <1>3, <3>1 DEF Waits, Kinds
  <2>3. Calls(world, world', c) /\ Waits(world', batch')
    BY <1>2, <1>5, <1>7, <2>1, <2>2, CallStep
  <2>4. ~exiting => Linked(world')
    BY <1>2, <2>3, CalledLinked
  <2> QED BY <1>2, <2>3, <2>4 DEF IInv, Calls
<1> QED BY <1>6, <1>7

LEMMA AcceptStep ==
  ASSUME IInv, Accept
  PROVE  IInv'
<1>1. PICK S \in SUBSET FreeConns(world) :
        world' = FoldSet(LAMBDA c, w : InitConnection(w, c), world, S)
  BY DEF Accept
<1>2. /\ Sound(world) /\ exiting' = exiting /\ exiting \in BOOLEAN /\ batch' \subseteq batch
      /\ Waits(world, batch) /\ (~exiting => Linked(world)) /\ batch \subseteq Events \cup {Listen}
  BY DEF IInv, Accept
<1>3. AcceptsAll(world, world', S)
  BY <1>1, <1>2, AcceptSound
<1>4. Sound(world') /\ (~exiting => Linked(world'))
  BY <1>2, <1>3 DEF AcceptsAll, Linked
<1>5. Waits(world', batch')
  BY <1>2, <1>3 DEF AcceptsAll, Waits
<1> QED BY <1>2, <1>4, <1>5 DEF IInv

LEMMA ExpireStep ==
  ASSUME IInv, Expire
  PROVE  IInv'
<1>1. PICK e \in world.tree :
        LET w == Expired(world, e[1], e[2])
        IN  IF w.conn[e[1]][e[2]].handler = Null THEN world' = Crash(w)
            ELSE world' \in Call(w, e[1], e[2])
  BY DEF Expire
<1>2. /\ Sound(world) /\ exiting' = exiting /\ exiting \in BOOLEAN /\ batch' = batch /\ batch = {}
      /\ (~exiting => Linked(world))
  BY DEF IInv, Expire
<1>3. e \in Events
  BY <1>2 DEF Sound, Worlds
<1>4. PICK c \in Conns, k \in Kinds : e = <<c, k>>
  BY <1>3 DEF Events
<1> DEFINE w == Expired(world, c, k)
<1>5. Quiet(world, w)
  BY <1>2, <1>4, ExpiredQuiet
<1>6. IF w.conn[c][k].handler = Null THEN world' = Crash(w) ELSE world' \in Call(w, c, k)
  BY <1>1, <1>4
<1> HIDE DEF w
<1>7. Sound(w) /\ (~exiting => Linked(w)) /\ c \in Used(w) /\ Waits(w, {}) /\ Waits(world', {})
  <2>1. c \in Used(world)
    BY <1>2, <1>4 DEF Sound, Timers
  <2>2. Linked(world) => Linked(w)
    BY <1>5, QuietLinked
  <2> QED BY <1>2, <1>5, <2>1, <2>2 DEF Quiet, Frame, SameConn, Waits
<1>8. w.conn[c][k].handler = Hdl(w)[<<c, k>>]
  BY DEF Hdl, Ev, Events
<1>9. CASE Hdl(w)[<<c, k>>] = Null
  <2>1. world' = Crash(w)
    BY <1>6, <1>8, <1>9
  <2>2. Quiet(w, Crash(w))
    BY <1>7, CrashQuiet DEF Crash
  <2>3. Sound(world') /\ (~exiting => Linked(world'))
    BY <1>7, <2>1, <2>2, QuietLinked DEF Quiet
  <2> QED BY <1>2, <1>7, <2>3 DEF IInv
<1>10. CASE Hdl(w)[<<c, k>>] # Null
  <2>1. world' \in Call(w, c, k)
    BY <1>6, <1>8, <1>10
  <2>2. Calls(w, world', c)
    BY <1>7, <1>10, <2>1, CallStep
  <2>3. ~exiting => Linked(world')
    BY <1>7, <2>2, CalledLinked
  <2> QED BY <1>2, <1>7, <2>2, <2>3 DEF IInv, Calls
<1> QED BY <1>9, <1>10

LEMMA SignalStep ==
  ASSUME IInv, Quit \/ Terminate
  PROVE  IInv'
<1>1. CASE Quit
  BY <1>1, ClearSound DEF IInv, Quit, Waits
<1>2. CASE Terminate
  <2> DEFINE x == [world EXCEPT !.dead = "exit"]
  <2>1. Quiet(world, x) /\ world' = x
    BY <1>2, CrashQuiet DEF IInv, Terminate
  <2> HIDE DEF x
  <2> QED BY <1>2, <2>1, QuietLinked DEF IInv, Terminate, Quiet, Waits
<1> QED BY <1>1, <1>2

THEOREM Invariant == Spec => []IInv
<1>1. Init => IInv
  BY InitStep
<1>2. IInv /\ [Next]_vars => IInv'
  <2> SUFFICES ASSUME IInv, [Next]_vars PROVE IInv'
    OBVIOUS
  <2>1. CASE UNCHANGED vars
    BY <2>1 DEF vars, IInv
  <2>2. CASE Ended
    BY <2>2 DEF Ended, vars, IInv
  <2>3. CASE Quit \/ Terminate
    BY <2>3, SignalStep
  <2> QED BY <2>1, <2>2, <2>3, PollStep, DispatchStep, AcceptStep, ExpireStep DEF Next
<1> QED BY <1>1, <1>2, PTL DEF Spec

-----------------------------------------------------------------------------
(***************************************************************************)
(* The results.                                                            *)
(***************************************************************************)
(* Every event says the truth about itself: a timer is in the tree exactly *)
(* while it is set and has not expired, it lies in a connection that is    *)
(* out of the pool and has a callback, and the kernel watches exactly the  *)
(* active events of open connections; through any order of reports,        *)
(* expiries, closes, reuse, retries and signals (event_add_timer,          *)
(* event_del_timer, event_expire_timers, kqueue_add_event,                 *)
(* kqueue_del_event, http_close_connection).                               *)
THEOREM EventsAreTrue == Spec => []EventsTrue
<1>1. IInv => EventsTrue
  <2> SUFFICES ASSUME IInv PROVE EventsTrue
    OBVIOUS
  <2>1. Timers(world) /\ Watched(world) /\ world \in Worlds
    BY DEF IInv, Sound
  <2>2. ASSUME NEW e \in Events
        PROVE  /\ Ev(world, e) = conn[e[1]][e[2]] /\ e[1] \in Conns
               /\ Ev(world, e).timer_set <=> e \in TimerSet(world)
               /\ Ev(world, e).timedout <=> e \in Out(world)
               /\ Ev(world, e).active <=> e \in Act(world)
               /\ Ev(world, e).handler = Hdl(world)[e]
               /\ conn[e[1]].inuse <=> e[1] \in Used(world)
               /\ conn[e[1]].open <=> e[1] \in Opened(world)
    <3>1. e[1] \in Conns
      BY DEF Events
    <3> QED BY <3>1 DEF Ev, TimerSet, Out, Act, Hdl, Used, Opened, conn
  <2>3. TimersOwned
    <3>1. ASSUME NEW e \in Events
          PROVE  /\ e \in world.tree <=> conn[e[1]][e[2]].timer_set /\ ~conn[e[1]][e[2]].timedout
                 /\ e \in world.tree => conn[e[1]].inuse /\ conn[e[1]][e[2]].handler # Null
      BY <2>1, <2>2 DEF Timers
    <3> QED BY <3>1 DEF TimersOwned
  <2>4. KqueueMatchesActive
    <3>1. ASSUME NEW e \in Events
          PROVE  e \in world.kq <=> conn[e[1]].open /\ conn[e[1]][e[2]].active
      BY <2>1, <2>2 DEF Watched
    <3> QED BY <3>1 DEF KqueueMatchesActive
  <2> QED BY <2>3, <2>4 DEF EventsTrue
<1> QED BY <1>1, Invariant, PTL

(* Every field keeps its type; and until the worker is told to quit, a     *)
(* live request and its connections point at each other, and no connection *)
(* points at a request that was freed, in whatever order the ends are      *)
(* closed, reused and called back (http_init_request,                      *)
(* create_upstream_connection, http_close_connection, http_close_request,  *)
(* http_clear_request).                                                    *)
THEOREM LinksAreSound == Spec => []LinksSound
<1>1. IInv => LinksSound
  <2> SUFFICES ASSUME IInv PROVE LinksSound
    OBVIOUS
  <2>1. Sound(world) /\ world \in Worlds
    BY DEF IInv, Sound
  <2>2. TypeOK
    BY <2>1 DEF IInv, TypeOK, Worlds, ConnType, ReqType
  <2>3. ASSUME NEW r \in Conns
        PROVE  /\ req[r].live <=> r \in LiveIn(world)
               /\ req[r].connection = ConnOf(world)[r] /\ req[r].upstream = UpOf(world)[r]
               /\ conn[r].inuse <=> r \in Used(world)
               /\ conn[r].open <=> r \in Opened(world)
               /\ conn[r].data = Data(world)[r]
    BY DEF req, conn, LiveIn, ConnOf, UpOf, Used, Opened, Data
  <2>4. ASSUME ~exiting, NEW r \in Live
        PROVE  /\ req[r].connection = r /\ conn[r].inuse /\ conn[r].open /\ conn[r].data = r
               /\ req[r].upstream # Null =>
                    conn[req[r].upstream].inuse /\ conn[req[r].upstream].data = r
    <3>1. r \in Conns /\ Data(world)[r] = r
      BY <2>3, <2>4 DEF IInv, Linked, Live
    <3>2. HasAll(world, r)
      BY <2>1, <3>1, HasFacts DEF Has
    <3>3. req[r].upstream \in Conns \cup {Null}
      BY <2>1, <3>1 DEF Worlds, ReqType, req
    <3> QED BY <2>3, <3>1, <3>2, <3>3 DEF HasAll
  <2>5. ASSUME NEW c \in Conns, conn[c].data # Null, NEW r, r = conn[c].data
        PROVE  conn[c].inuse /\ req[r].live /\ (c = r \/ req[r].upstream = c)
    <3>0. r = Data(world)[c] /\ r # Null
      BY <2>3, <2>5
    <3>1. /\ c \in Used(world) /\ r \in LiveIn(world)
          /\ c = r \/ UpOf(world)[r] = c
      BY <2>1, <3>0 DEF Sound, Links
    <3> QED BY <2>3, <3>1 DEF LiveIn
  <2>6. RequestLinks
    BY <2>4, <2>5 DEF RequestLinks
  <2> QED BY <2>2, <2>6 DEF LinksSound
<1> QED BY <1>1, Invariant, PTL

-----------------------------------------------------------------------------
(***************************************************************************)
(* A worker that serves files only.  Its callbacks touch one connection    *)
(* and the request of that connection, and leave the process alive.        *)
(***************************************************************************)
Only(w, v, c) ==
  /\ v \in Worlds /\ v.dead = w.dead
  /\ \A d \in Conns : d # c => v.conn[d] = w.conn[d] /\ v.req[d] = w.req[d]

Plain(x, y) ==
  /\ y.inuse = x.inuse /\ y.open = x.open /\ y.data = x.data
  /\ y.connected = x.connected /\ y.idle = x.idle

(* Only the events of the connection change, to a and b.                   *)
Becomes(w, v, c, a, b) ==
  /\ Only(w, v, c) /\ v.req[c] = w.req[c] /\ Plain(w.conn[c], v.conn[c])
  /\ v.conn[c].rev = a /\ v.conn[c].wev = b

LEMMA OnlyTrans ==
  ASSUME NEW u, NEW v, NEW w, NEW c, Only(u, v, c), Only(v, w, c)
  PROVE  Only(u, w, c)
BY DEF Only

LEMMA BecomesTrans ==
  ASSUME NEW u, NEW v, NEW w, NEW c, NEW a, NEW b, NEW d, NEW e,
         Becomes(u, v, c, a, b), Becomes(v, w, c, d, e)
  PROVE  Becomes(u, w, c, d, e)
BY OnlyTrans DEF Becomes, Plain

(* What the operations make of an event.                                   *)
Mark(h, a, s, o) == [handler |-> h, active |-> a, timer_set |-> s, timedout |-> o]
Untimed(e) == Mark(e.handler, e.active, FALSE, FALSE)
Dropped(e) == IF e.timer_set THEN Untimed(e) ELSE e
Timed(e) == Mark(e.handler, e.active, TRUE, e.timedout /\ ~e.timer_set)
Added(e) == Mark(e.handler, TRUE, e.timer_set, e.timedout)
Deleted(e) == IF e.active THEN LET d == Dropped(e) IN Mark(d.handler, FALSE, d.timer_set, d.timedout)
              ELSE e
Hooked(e, h) == Mark(h, e.active, e.timer_set, e.timedout)
Late(e) == Mark(e.handler, e.active, e.timer_set, TRUE)

(* The operation on event k of c makes f of it.                            *)
Makes(w, v, c, k, f) ==
  Becomes(w, v, c, IF k = "rev" THEN f ELSE w.conn[c].rev,
          IF k = "wev" THEN f ELSE w.conn[c].wev)

LEMMA MarkFields ==
  ASSUME NEW e \in EventType
  PROVE  /\ Timed(e).handler = e.handler /\ Timed(e).active = e.active
         /\ Timed(e).timer_set /\ (Timed(e).timedout <=> e.timedout /\ ~e.timer_set)
         /\ Added(e).handler = e.handler /\ Added(e).active
         /\ Added(e).timer_set = e.timer_set /\ Added(e).timedout = e.timedout
         /\ Late(e).handler = e.handler /\ Late(e).active = e.active
         /\ Late(e).timer_set = e.timer_set /\ Late(e).timedout
BY DEF Timed, Added, Late, Mark, EventType

LEMMA HookedFields ==
  ASSUME NEW e, NEW h
  PROVE  /\ Hooked(e, h).handler = h /\ Hooked(e, h).active = e.active
         /\ Hooked(e, h).timer_set = e.timer_set /\ Hooked(e, h).timedout = e.timedout
BY DEF Hooked, Mark

LEMMA MakesTrans ==
  ASSUME NEW u, NEW v, NEW w, NEW c, NEW k \in Kinds, NEW f, NEW g,
         Makes(u, v, c, k, f), Makes(v, w, c, k, g)
  PROVE  Makes(u, w, c, k, g)
<1>1. CASE k = "rev"
  BY <1>1, BecomesTrans DEF Makes, Becomes
<1>2. CASE k = "wev"
  BY <1>2, BecomesTrans DEF Makes, Becomes
<1> QED BY <1>1, <1>2 DEF Kinds

LEMMA MakesAt ==
  ASSUME NEW w, NEW v, NEW c, NEW k \in Kinds, NEW f, Makes(w, v, c, k, f)
  PROVE  v \in Worlds /\ v.conn[c][k] = f
BY DEF Makes, Becomes, Only, Kinds

LEMMA MakesNothing ==
  ASSUME NEW w \in Worlds, NEW c \in Conns, NEW k \in Kinds
  PROVE  Makes(w, w, c, k, w.conn[c][k])
BY DEF Makes, Becomes, Only, Plain, Kinds

LEMMA EventMakes ==
  ASSUME NEW w \in Worlds, NEW c \in Conns, NEW k \in Kinds, NEW e \in EventType
  PROVE  Makes(w, [w EXCEPT !.conn[c][k] = e], c, k, e)
<1> DEFINE x == w.conn[c]
           y == [x EXCEPT ![k] = e]
           v == [w EXCEPT !.conn[c][k] = e]
<1>1. w.conn \in [Conns -> ConnType] /\ x \in ConnType
  BY DEF Worlds
<1>2. v \in Worlds
  BY EventSet
<1>3. /\ v.conn = [w.conn EXCEPT ![c] = y] /\ v.req = w.req /\ v.dead = w.dead
  BY <1>1 DEF Worlds
<1> HIDE DEF x
<1>4. /\ Plain(x, y)
      /\ y.rev = IF k = "rev" THEN e ELSE x.rev
      /\ y.wev = IF k = "wev" THEN e ELSE x.wev
  BY <1>1 DEF ConnType, Kinds, Plain
<1> HIDE DEF y, v
<1>5. v.conn[c] = y /\ \A d \in Conns : d # c => v.conn[d] = w.conn[d]
  BY <1>1, <1>3
<1>6. Makes(w, v, c, k, e)
  BY <1>2, <1>3, <1>4, <1>5 DEF Makes, Becomes, Only, x
<1> QED BY <1>6 DEF v

LEMMA SetsMake ==
  ASSUME NEW w \in Worlds, NEW c \in Conns, NEW k \in Kinds, NEW t \in SUBSET Events
  PROVE  /\ Makes(w, [w EXCEPT !.tree = t], c, k, w.conn[c][k])
         /\ Makes(w, [w EXCEPT !.kq = t], c, k, w.conn[c][k])
<1> DEFINE a == [w EXCEPT !.tree = t]
           b == [w EXCEPT !.kq = t]
<1>1. /\ a \in Worlds /\ a.conn = w.conn /\ a.req = w.req /\ a.dead = w.dead
      /\ b \in Worlds /\ b.conn = w.conn /\ b.req = w.req /\ b.dead = w.dead
  BY SetsSet DEF Worlds
<1> HIDE DEF a, b
<1>2. Makes(w, a, c, k, w.conn[c][k]) /\ Makes(w, b, c, k, w.conn[c][k])
  BY <1>1 DEF Makes, Becomes, Only, Plain, Kinds
<1> QED BY <1>2 DEF a, b

(* One field of an event is set.                                           *)
LEMMA ActiveMakes ==
  ASSUME NEW w \in Worlds, NEW c \in Conns, NEW k \in Kinds, NEW b \in BOOLEAN
  PROVE  LET d == w.conn[c][k]
         IN  Makes(w, [w EXCEPT !.conn[c][k].active = b], c, k,
                   Mark(d.handler, b, d.timer_set, d.timedout))
<1> DEFINE d == w.conn[c][k]
           m == [d EXCEPT !.active = b]
<1>1. d \in EventType
  BY EvType
<1>2. m \in EventType /\ m = Mark(d.handler, b, d.timer_set, d.timedout)
  BY <1>1 DEF Mark, EventType
<1>3. [w EXCEPT !.conn[c][k].active = b] = [w EXCEPT !.conn[c][k] = m]
  BY DEF Worlds, ConnType, Kinds
<1> QED BY <1>2, <1>3, EventMakes

LEMMA TimerSetMakes ==
  ASSUME NEW w \in Worlds, NEW c \in Conns, NEW k \in Kinds, NEW b \in BOOLEAN
  PROVE  LET d == w.conn[c][k]
         IN  Makes(w, [w EXCEPT !.conn[c][k].timer_set = b], c, k,
                   Mark(d.handler, d.active, b, d.timedout))
<1> DEFINE d == w.conn[c][k]
           m == [d EXCEPT !.timer_set = b]
<1>1. d \in EventType
  BY EvType
<1>2. m \in EventType /\ m = Mark(d.handler, d.active, b, d.timedout)
  BY <1>1 DEF Mark, EventType
<1>3. [w EXCEPT !.conn[c][k].timer_set = b] = [w EXCEPT !.conn[c][k] = m]
  BY DEF Worlds, ConnType, Kinds
<1> QED BY <1>2, <1>3, EventMakes

LEMMA TimedoutMakes ==
  ASSUME NEW w \in Worlds, NEW c \in Conns, NEW k \in Kinds, NEW b \in BOOLEAN
  PROVE  LET d == w.conn[c][k]
         IN  Makes(w, [w EXCEPT !.conn[c][k].timedout = b], c, k,
                   Mark(d.handler, d.active, d.timer_set, b))
<1> DEFINE d == w.conn[c][k]
           m == [d EXCEPT !.timedout = b]
<1>1. d \in EventType
  BY EvType
<1>2. m \in EventType /\ m = Mark(d.handler, d.active, d.timer_set, b)
  BY <1>1 DEF Mark, EventType
<1>3. [w EXCEPT !.conn[c][k].timedout = b] = [w EXCEPT !.conn[c][k] = m]
  BY DEF Worlds, ConnType, Kinds
<1> QED BY <1>2, <1>3, EventMakes

LEMMA HandleMakes ==
  ASSUME NEW w \in Worlds, NEW c \in Conns, NEW k \in Kinds, NEW h \in ReadHandlers \cup WriteHandlers
  PROVE  Makes(w, Handle(w, c, k, h), c, k, Hooked(w.conn[c][k], h))
<1> DEFINE d == w.conn[c][k]
           m == [d EXCEPT !.handler = h]
<1>1. d \in EventType
  BY EvType
<1>2. m \in EventType /\ m = Hooked(d, h)
  BY <1>1 DEF Hooked, Mark, EventType
<1>3. Handle(w, c, k, h) = [w EXCEPT !.conn[c][k] = m]
  BY DEF Handle, Worlds, ConnType, Kinds
<1> QED BY <1>2, <1>3, EventMakes

LEMMA DelTimerMakes ==
  ASSUME NEW w \in Worlds, NEW c \in Conns, NEW k \in Kinds
  PROVE  Makes(w, EventDelTimer(w, c, k), c, k, Untimed(w.conn[c][k]))
<1> DEFINE d == w.conn[c][k]
           t == w.tree \ {<<c, k>>}
           a == [w EXCEPT !.tree = t]
           b == [a EXCEPT !.conn[c][k].timer_set = FALSE]
           z == [b EXCEPT !.conn[c][k].timedout = FALSE]
           m == Mark(d.handler, d.active, FALSE, d.timedout)
<1>1. EventDelTimer(w, c, k) = z
  BY DEF EventDelTimer
<1>2. t \in SUBSET Events
  BY DEF Worlds
<1> HIDE DEF t
<1>3. Makes(w, a, c, k, d)
  BY <1>2, SetsMake
<1> HIDE DEF a
<1>4. a \in Worlds /\ a.conn[c][k] = d
  BY <1>3, MakesAt
<1> HIDE DEF d
<1>5. Makes(a, b, c, k, m)
  BY <1>4, TimerSetMakes
<1> HIDE DEF b
<1>6. b \in Worlds /\ b.conn[c][k] = m
  BY <1>5, MakesAt
<1>7. m.handler = d.handler /\ m.active = d.active /\ m.timer_set = FALSE
  BY DEF Mark
<1> HIDE DEF m
<1>8. Makes(b, z, c, k, Untimed(d))
  BY <1>6, <1>7, TimedoutMakes DEF Untimed
<1> HIDE DEF z
<1>9. Makes(w, b, c, k, m)
  BY <1>3, <1>5, MakesTrans
<1>10. Makes(w, z, c, k, Untimed(d))
  BY <1>8, <1>9, MakesTrans
<1> QED BY <1>1, <1>10 DEF d

LEMMA DropTimerMakes ==
  ASSUME NEW w \in Worlds, NEW c \in Conns, NEW k \in Kinds
  PROVE  Makes(w, DropTimer(w, c, k), c, k, Dropped(w.conn[c][k]))
BY DelTimerMakes, MakesNothing DEF DropTimer, Dropped

LEMMA AddTimerMakes ==
  ASSUME NEW w \in Worlds, NEW c \in Conns, NEW k \in Kinds
  PROVE  Makes(w, EventAddTimer(w, c, k), c, k, Timed(w.conn[c][k]))
<1> DEFINE d == w.conn[c][k]
           a == DropTimer(w, c, k)
           t == a.tree \cup {<<c, k>>}
           b == [a EXCEPT !.tree = t]
           z == [b EXCEPT !.conn[c][k].timer_set = TRUE]
           f == Dropped(d)
<1>1. EventAddTimer(w, c, k) = z
  BY DEF EventAddTimer, DropTimer
<1>2. Makes(w, a, c, k, f)
  BY DropTimerMakes
<1>3. d \in EventType /\ f.handler = d.handler /\ f.active = d.active
      /\ f.timedout = (d.timedout /\ ~d.timer_set)
  BY EvType DEF Dropped, Untimed, Mark, EventType
<1> HIDE DEF a, d, f
<1>4. a \in Worlds /\ a.conn[c][k] = f
  BY <1>2, MakesAt
<1>5. t \in SUBSET Events
  BY <1>4 DEF Worlds, Events
<1> HIDE DEF t
<1>6. Makes(a, b, c, k, f)
  BY <1>4, <1>5, SetsMake
<1> HIDE DEF b
<1>7. b \in Worlds /\ b.conn[c][k] = f
  BY <1>6, MakesAt
<1>8. Mark(f.handler, f.active, TRUE, f.timedout) = Timed(d)
  BY <1>3 DEF Timed
<1>9. Makes(b, z, c, k, Timed(d))
  BY <1>7, <1>8, TimerSetMakes
<1> HIDE DEF z
<1>10. Makes(w, b, c, k, f)
  BY <1>2, <1>6, MakesTrans
<1>11. Makes(w, z, c, k, Timed(d))
  BY <1>9, <1>10, MakesTrans
<1> QED BY <1>1, <1>11 DEF d

LEMMA AddEventMakes ==
  ASSUME NEW w \in Worlds, NEW c \in Conns, NEW k \in Kinds
  PROVE  Makes(w, KqueueAddEvent(w, c, k), c, k, Added(w.conn[c][k]))
<1> DEFINE d == w.conn[c][k]
           s == IF w.conn[c].open THEN w.kq \cup {<<c, k>>} ELSE w.kq
           a == [w EXCEPT !.conn[c][k].active = TRUE]
           b == [a EXCEPT !.kq = s]
<1>1. d \in EventType
  BY EvType
<1>2. CASE d.active
  <2>1. KqueueAddEvent(w, c, k) = w /\ Added(d) = d
    BY <1>1, <1>2 DEF KqueueAddEvent, Added, Mark, EventType
  <2> QED BY <2>1, MakesNothing
<1>3. CASE ~d.active
  <2>1. KqueueAddEvent(w, c, k) = b
    BY <1>3 DEF KqueueAddEvent, Worlds
  <2>2. Makes(w, a, c, k, Added(d))
    BY ActiveMakes DEF Added
  <2> HIDE DEF a, d
  <2>3. a \in Worlds /\ a.conn[c][k] = Added(d)
    BY <2>2, MakesAt
  <2>4. s \in SUBSET Events
    BY DEF Worlds, Events
  <2> HIDE DEF s
  <2>5. Makes(a, b, c, k, Added(d))
    BY <2>3, <2>4, SetsMake
  <2> HIDE DEF b
  <2>6. Makes(w, b, c, k, Added(d))
    BY <2>2, <2>5, MakesTrans
  <2> QED BY <2>1, <2>6 DEF d
<1> QED BY <1>2, <1>3

LEMMA DelEventMakes ==
  ASSUME NEW w \in Worlds, NEW c \in Conns, NEW k \in Kinds
  PROVE  Makes(w, KqueueDelEvent(w, c, k), c, k, Deleted(w.conn[c][k]))
<1> DEFINE d == w.conn[c][k]
           g == DropTimer(w, c, k)
           f == Dropped(d)
           a == [g EXCEPT !.conn[c][k].active = FALSE]
           s == g.kq \ {<<c, k>>}
           b == [a EXCEPT !.kq = s]
<1>1. d \in EventType
  BY EvType
<1>2. CASE ~d.active
  <2>1. KqueueDelEvent(w, c, k) = w /\ Deleted(d) = d
    BY <1>2 DEF KqueueDelEvent, Deleted
  <2> QED BY <2>1, MakesNothing
<1>3. CASE d.active
  <2>1. Makes(w, g, c, k, f)
    BY DropTimerMakes
  <2>2. g \in Worlds /\ g.conn[c][k] = f
    BY <2>1, MakesAt
  <2>3. KqueueDelEvent(w, c, k) = b
    BY <1>3, <2>2 DEF KqueueDelEvent, DropTimer, Worlds
  <2>4. Deleted(d) = Mark(f.handler, FALSE, f.timer_set, f.timedout)
    BY <1>3 DEF Deleted
  <2> HIDE DEF g, d, f
  <2>5. Makes(g, a, c, k, Deleted(d))
    BY <2>2, <2>4, ActiveMakes
  <2> HIDE DEF a
  <2>6. a \in Worlds /\ a.conn[c][k] = Deleted(d)
    BY <2>5, MakesAt
  <2>7. s \in SUBSET Events
    BY <2>2 DEF Worlds
  <2> HIDE DEF s
  <2>8. Makes(a, b, c, k, Deleted(d))
    BY <2>6, <2>7, SetsMake
  <2> HIDE DEF b
  <2>9. Makes(w, a, c, k, Deleted(d))
    BY <2>1, <2>5, MakesTrans
  <2>10. Makes(w, b, c, k, Deleted(d))
    BY <2>8, <2>9, MakesTrans
  <2> QED BY <2>3, <2>10 DEF d
<1> QED BY <1>2, <1>3

LEMMA ExpiredMakes ==
  ASSUME NEW w \in Worlds, NEW c \in Conns, NEW k \in Kinds
  PROVE  Makes(w, Expired(w, c, k), c, k, Late(w.conn[c][k]))
<1> DEFINE d == w.conn[c][k]
           t == w.tree \ {<<c, k>>}
           a == [w EXCEPT !.tree = t]
           b == [a EXCEPT !.conn[c][k].timedout = TRUE]
<1>1. Expired(w, c, k) = b
  BY DEF Expired, Worlds
<1>2. t \in SUBSET Events
  BY DEF Worlds
<1> HIDE DEF t
<1>3. Makes(w, a, c, k, d)
  BY <1>2, SetsMake
<1> HIDE DEF a
<1>4. a \in Worlds /\ a.conn[c][k] = d
  BY <1>3, MakesAt
<1> HIDE DEF d
<1>5. Makes(a, b, c, k, Late(d))
  BY <1>4, TimedoutMakes DEF Late
<1> HIDE DEF b
<1>6. Makes(w, b, c, k, Late(d))
  BY <1>3, <1>5, MakesTrans
<1> QED BY <1>1, <1>6 DEF d

(* Only the request of the connection changes, to q.                       *)
Asks(w, v, c, q) == Only(w, v, c) /\ v.conn[c] = w.conn[c] /\ v.req[c] = q

LEMMA RequestAsks ==
  ASSUME NEW w \in Worlds, NEW c \in Conns, NEW q \in ReqType
  PROVE  Asks(w, [w EXCEPT !.req[c] = q], c, q)
<1> DEFINE v == [w EXCEPT !.req[c] = q]
<1>1. v \in Worlds
  BY ReqSet
<1>2. /\ v.conn = w.conn /\ v.dead = w.dead /\ v.req[c] = q
      /\ \A d \in Conns : d # c => v.req[d] = w.req[d]
  BY DEF Worlds
<1> HIDE DEF v
<1>3. Asks(w, v, c, q)
  BY <1>1, <1>2 DEF Asks, Only
<1> QED BY <1>3 DEF v

(* What the request has in common with the one it replaces.                *)
Kin(p, q) == q.live = p.live /\ q.connection = p.connection /\ q.upstream = p.upstream

Fills == {"empty", "parsed", "ready", "lost"}

LEMMA KeepAliveAsks ==
  ASSUME NEW w \in Worlds, NEW c \in Conns, NEW b \in BOOLEAN, NEW p, p = w.req[c]
  PROVE  \E q \in ReqType :
           /\ Asks(w, [w EXCEPT !.req[c].keep_alive = b], c, q) /\ Kin(p, q)
           /\ q.keep_alive = b /\ q.sb = p.sb
           /\ q.response_done = p.response_done
<1> DEFINE q == [p EXCEPT !.keep_alive = b]
<1>1. p \in ReqType
  BY DEF Worlds
<1>2. [w EXCEPT !.req[c].keep_alive = b] = [w EXCEPT !.req[c] = q]
  BY DEF Worlds
<1>3. /\ q \in ReqType /\ Kin(p, q)
      /\ q.keep_alive = b /\ q.sb = p.sb
      /\ q.response_done = p.response_done
  BY <1>1 DEF ReqType, Kin
<1> HIDE DEF q
<1> QED BY <1>2, <1>3, RequestAsks

LEMMA ResourceAsks ==
  ASSUME NEW w \in Worlds, NEW c \in Conns, NEW b \in BOOLEAN, NEW p, p = w.req[c]
  PROVE  \E q \in ReqType :
           /\ Asks(w, [w EXCEPT !.req[c].resource = b], c, q) /\ Kin(p, q)
           /\ q.keep_alive = p.keep_alive /\ q.sb = p.sb
           /\ q.response_done = p.response_done
<1> DEFINE q == [p EXCEPT !.resource = b]
<1>1. p \in ReqType
  BY DEF Worlds
<1>2. [w EXCEPT !.req[c].resource = b] = [w EXCEPT !.req[c] = q]
  BY DEF Worlds
<1>3. /\ q \in ReqType /\ Kin(p, q)
      /\ q.keep_alive = p.keep_alive /\ q.sb = p.sb
      /\ q.response_done = p.response_done
  BY <1>1 DEF ReqType, Kin
<1> HIDE DEF q
<1> QED BY <1>2, <1>3, RequestAsks

LEMMA DoneAsks ==
  ASSUME NEW w \in Worlds, NEW c \in Conns, NEW b \in BOOLEAN, NEW p, p = w.req[c]
  PROVE  \E q \in ReqType :
           /\ Asks(w, [w EXCEPT !.req[c].response_done = b], c, q) /\ Kin(p, q)
           /\ q.keep_alive = p.keep_alive /\ q.sb = p.sb
           /\ q.response_done = b
<1> DEFINE q == [p EXCEPT !.response_done = b]
<1>1. p \in ReqType
  BY DEF Worlds
<1>2. [w EXCEPT !.req[c].response_done = b] = [w EXCEPT !.req[c] = q]
  BY DEF Worlds
<1>3. /\ q \in ReqType /\ Kin(p, q)
      /\ q.keep_alive = p.keep_alive /\ q.sb = p.sb
      /\ q.response_done = b
  BY <1>1 DEF ReqType, Kin
<1> HIDE DEF q
<1> QED BY <1>2, <1>3, RequestAsks

LEMMA RbAsks ==
  ASSUME NEW w \in Worlds, NEW c \in Conns, NEW b \in Fills, NEW p, p = w.req[c]
  PROVE  \E q \in ReqType :
           /\ Asks(w, [w EXCEPT !.req[c].rb = b], c, q) /\ Kin(p, q)
           /\ q.keep_alive = p.keep_alive /\ q.sb = p.sb
           /\ q.response_done = p.response_done
<1> DEFINE q == [p EXCEPT !.rb = b]
<1>1. p \in ReqType
  BY DEF Worlds
<1>2. [w EXCEPT !.req[c].rb = b] = [w EXCEPT !.req[c] = q]
  BY DEF Worlds
<1>3. /\ q \in ReqType /\ Kin(p, q)
      /\ q.keep_alive = p.keep_alive /\ q.sb = p.sb
      /\ q.response_done = p.response_done
  BY <1>1 DEF ReqType, Kin, Fills
<1> HIDE DEF q
<1> QED BY <1>2, <1>3, RequestAsks

LEMMA SbAsks ==
  ASSUME NEW w \in Worlds, NEW c \in Conns, NEW b \in SUBSET {"head", "page", "data"}, NEW p, p = w.req[c]
  PROVE  \E q \in ReqType :
           /\ Asks(w, [w EXCEPT !.req[c].sb = b], c, q) /\ Kin(p, q)
           /\ q.keep_alive = p.keep_alive /\ q.sb = b
           /\ q.response_done = p.response_done
<1> DEFINE q == [p EXCEPT !.sb = b]
<1>1. p \in ReqType
  BY DEF Worlds
<1>2. [w EXCEPT !.req[c].sb = b] = [w EXCEPT !.req[c] = q]
  BY DEF Worlds
<1>3. /\ q \in ReqType /\ Kin(p, q)
      /\ q.keep_alive = p.keep_alive /\ q.sb = b
      /\ q.response_done = p.response_done
  BY <1>1 DEF ReqType, Kin
<1> HIDE DEF q
<1> QED BY <1>2, <1>3, RequestAsks

(* The state of one connection of a worker that serves files only: an      *)
(* object x and its request q.  It waits for its first line; or it reads a *)
(* request; or it sends a response.                                        *)
Blank(e) == ~e.active /\ ~e.timer_set /\ ~e.timedout

Awaits(x) ==
  /\ x.open /\ x.connected /\ x.data = Null /\ x.rev.handler = "http_init_request"
  /\ x.rev.active /\ x.rev.timer_set /\ Blank(x.wev)

Reads(x, q, c) ==
  /\ x.open /\ x.data = c /\ q.connection = c
  /\ x.rev.handler \in {"ngx_http_process_request_line", "http_parse_headers",
                        "request_handle_body"}
  /\ x.rev.active /\ x.rev.timer_set /\ Blank(x.wev)
  /\ ~q.response_done /\ q.sb = {}

Sends(x, q, c) ==
  /\ x.open /\ x.data = c /\ q.connection = c /\ Blank(x.rev)
  /\ x.wev.handler \in {"handle_response", "handle_response_file"}
  /\ x.wev.active /\ (x.wev.timedout => x.wev.timer_set)
  /\ q.response_done \/ x.wev.timer_set
  /\ "page" \in q.sb => q.response_done /\ ~q.keep_alive

(* A request that has an error page does not keep its connection.          *)
PageEnds(q) == "page" \in q.sb => ~q.keep_alive

(* Between two steps of the loop no timeout is left to be dealt with in a  *)
(* connection that is read from.                                           *)
Served(x, q, c) ==
  /\ q.upstream = Null /\ PageEnds(q)
  /\ x.inuse => \/ Awaits(x) /\ ~x.rev.timedout
                \/ Reads(x, q, c) /\ ~x.rev.timedout
                \/ Sends(x, q, c) /\ (q.response_done \/ ~x.wev.timedout)

(* clear_idle_connections has cut the connection off its request.          *)
Cut(x, q) ==
  /\ q.upstream = Null /\ PageEnds(q)
  /\ x.inuse /\ x.data = Null /\ x.rev.handler # "http_init_request"

(* No event of a batch is stale.                                           *)
Files ==
  /\ ~exiting => world.dead # "crash"
  /\ \A c \in Conns : \/ Served(world.conn[c], world.req[c], c)
                      \/ exiting /\ Cut(world.conn[c], world.req[c])
  /\ batch \subseteq world.kq \cup {Listen}

(* A connection that is out of the pool, in a live process, and what a     *)
(* callback may make of it: one that is served.                            *)
Cell(w, c) ==
  /\ w \in Worlds /\ w.dead = "no" /\ w.conn[c].inuse /\ w.req[c].upstream = Null

Awaiting(w, c) == Cell(w, c) /\ Awaits(w.conn[c]) /\ PageEnds(w.req[c])
Reading(w, c) == Cell(w, c) /\ Reads(w.conn[c], w.req[c], c)
Sending(w, c) == Cell(w, c) /\ Sends(w.conn[c], w.req[c], c)
Punctual(w, c, k) == ~w.conn[c][k].timedout

Serves(w, v, c) == Only(w, v, c) /\ Served(v.conn[c], v.req[c], c)

LEMMA ServesTrans ==
  ASSUME NEW u, NEW v, NEW w, NEW c, Only(u, v, c), Serves(v, w, c)
  PROVE  Serves(u, w, c)
BY OnlyTrans DEF Serves

LEMMA StateServes ==
  ASSUME NEW w, NEW v, NEW c, Only(w, v, c)
  PROVE  /\ Reading(v, c) /\ Punctual(v, c, "rev") => Serves(w, v, c)
         /\ Sending(v, c) /\ (v.req[c].response_done \/ Punctual(v, c, "wev")) => Serves(w, v, c)
BY DEF Reading, Sending, Reads, Sends, PageEnds, Punctual, Cell, Serves, Served

LEMMA ReleasedOnly ==
  ASSUME NEW w \in Worlds, NEW c \in Conns
  PROVE  LET y == Released(w, c)
         IN  /\ y.req = w.req /\ y.dead = w.dead /\ ~y.conn[c].inuse
             /\ \A x \in Conns : x # c => y.conn[x] = w.conn[x]
<1> DEFINE y == Released(w, c)
<1>1. y.req = w.req /\ y.dead = w.dead
  BY DEF Released, Worlds
<1>2. c \notin Used(y)
  BY ReleasedIs
<1>3. ASSUME NEW x \in Conns, x # c PROVE y.conn[x] = w.conn[x]
  <2> DEFINE t == w.kq \ {<<c, "rev">>, <<c, "wev">>}
             z1 == [w EXCEPT !.kq = t]
             z2 == [z1 EXCEPT !.conn[c].open = FALSE]
             z3 == [z2 EXCEPT !.conn[c].data = Null]
             z4 == [z3 EXCEPT !.conn[c].idle = FALSE]
             z5 == [z4 EXCEPT !.conn[c].connected = FALSE]
             z6 == [z5 EXCEPT !.conn[c]["rev"].active = FALSE]
             z7 == [z6 EXCEPT !.conn[c]["wev"].active = FALSE]
             z8 == [z7 EXCEPT !.conn[c].inuse = FALSE]
  <2>1. y = z8
    BY DEF Released
  <2>2. t \in SUBSET Events /\ "rev" \in Kinds /\ "wev" \in Kinds
    BY DEF Worlds, Kinds
  <2> HIDE DEF t, y
  <2>3. z1 \in Worlds /\ z1.conn[x] = w.conn[x]
    BY <2>2, SetsSet DEF Worlds
  <2> HIDE DEF z1
  <2>4. z2 \in Worlds /\ z2.conn[x] = z1.conn[x]
    BY <1>3, <2>3, OpenSet DEF OpenIs, Worlds
  <2> HIDE DEF z2
  <2>5. z3 \in Worlds /\ z3.conn[x] = z2.conn[x]
    BY <1>3, <2>4, DataSet DEF DataIs, Worlds
  <2> HIDE DEF z3
  <2>6. z4 \in Worlds /\ z4.conn[x] = z3.conn[x]
    <3>1. z4.conn[x] = z3.conn[x]
      BY <1>3, <2>5 DEF Worlds
    <3>2. z4 \in Worlds
      BY <2>5, IdleSet DEF IdleIs
    <3> QED BY <3>1, <3>2
  <2> HIDE DEF z4
  <2>7. z5 \in Worlds /\ z5.conn[x] = z4.conn[x]
    BY <1>3, <2>6, ConnedSet DEF ConnedIs, Worlds
  <2> HIDE DEF z5
  <2>8. z6 \in Worlds /\ z6.conn[x] = z5.conn[x]
    <3>1. z6.conn[x] = z5.conn[x]
      BY <1>3, <2>2, <2>7 DEF Worlds
    <3>2. z6 \in Worlds
      BY <2>2, <2>7, ActiveSet DEF ActiveIs, Same
    <3> QED BY <3>1, <3>2
  <2> HIDE DEF z6
  <2>9. z7 \in Worlds /\ z7.conn[x] = z6.conn[x]
    <3>1. z7.conn[x] = z6.conn[x]
      BY <1>3, <2>2, <2>8 DEF Worlds
    <3>2. z7 \in Worlds
      BY <2>2, <2>8, ActiveSet DEF ActiveIs, Same
    <3> QED BY <3>1, <3>2
  <2> HIDE DEF z7
  <2>10. z8.conn[x] = z7.conn[x]
    BY <1>3, <2>9 DEF Worlds
  <2> HIDE DEF z8
  <2> QED BY <2>1, <2>3, <2>4, <2>5, <2>6, <2>7, <2>8, <2>9, <2>10
<1> QED BY <1>1, <1>2, <1>3 DEF Used

(* http_close_connection of the connection of a request, or of one that    *)
(* waits for its first line.                                               *)
LEMMA CloseServes ==
  ASSUME NEW w \in Worlds, NEW c \in Conns, w.conn[c].inuse, w.req[c].upstream = Null,
         \/ w.conn[c].data = c /\ w.req[c].connection = c
         \/ w.conn[c].data = Null /\ w.conn[c].connected
  PROVE  LET v == HttpCloseConnection(w, c)
         IN  /\ Only(w, v, c) /\ ~v.conn[c].inuse /\ v.req[c].upstream = Null
             /\ v.req[c] \in ReqType /\ (PageEnds(w.req[c]) => PageEnds(v.req[c]))
<1> DEFINE a == Unlink(w, c)
           b == DropTimer(a, c, "rev")
           d == DropTimer(b, c, "wev")
           y == Released(d, c)
           z == [y EXCEPT !.dead = y.dead]
<1>1. HttpCloseConnection(w, c) = z
  BY NullAssumption DEF HttpCloseConnection
<1>2. "rev" \in Kinds /\ "wev" \in Kinds
  BY DEF Kinds
<1>3. Only(w, a, c) /\ a.req[c].upstream = Null /\ (PageEnds(w.req[c]) => PageEnds(a.req[c]))
  <2>1. CASE w.conn[c].data = Null
    <3>1. a = w
      BY <2>1 DEF Unlink
    <3> QED BY <3>1 DEF Only
  <2>2. CASE w.conn[c].data = c /\ w.req[c].connection = c
    <3> DEFINE q == [w.req[c] EXCEPT !.connection = Null]
    <3>1. q \in ReqType /\ q.upstream = Null /\ (PageEnds(w.req[c]) => PageEnds(q))
      BY DEF Worlds, ReqType, PageEnds
    <3>2. a = [w EXCEPT !.req[c] = q]
      BY <2>2, NullAssumption DEF Unlink, Worlds
    <3> HIDE DEF q, a
    <3> QED BY <3>1, <3>2, RequestAsks DEF Asks
  <2> QED BY <2>1, <2>2
<1> HIDE DEF a
<1>4. a \in Worlds
  BY <1>3 DEF Only
<1>5. Makes(a, b, c, "rev", Dropped(a.conn[c].rev))
  BY <1>2, <1>4, DropTimerMakes
<1> HIDE DEF b
<1>6. Only(a, b, c) /\ b.req[c] = a.req[c] /\ b \in Worlds
  BY <1>5 DEF Makes, Becomes, Only
<1>7. Makes(b, d, c, "wev", Dropped(b.conn[c].wev))
  BY <1>2, <1>6, DropTimerMakes
<1> HIDE DEF d
<1>8. Only(b, d, c) /\ d.req[c] = b.req[c] /\ d \in Worlds
  BY <1>7 DEF Makes, Becomes, Only
<1>9. y \in Worlds
  BY <1>8, ReleasedIs
<1>10. /\ y.req = d.req /\ y.dead = d.dead /\ ~y.conn[c].inuse
       /\ \A x \in Conns : x # c => y.conn[x] = d.conn[x]
  BY <1>8, ReleasedOnly
<1> HIDE DEF y
<1>11. z \in Worlds /\ z.conn = y.conn /\ z.req = y.req /\ z.dead = y.dead
  BY <1>9 DEF Worlds
<1> HIDE DEF z
<1>12. Only(d, z, c) /\ z.req[c] = d.req[c] /\ ~z.conn[c].inuse
  BY <1>8, <1>10, <1>11 DEF Only
<1>13. Only(w, z, c)
  BY <1>3, <1>6, <1>8, <1>12, OnlyTrans
<1>14. z.req[c] \in ReqType
  BY <1>11, <1>9 DEF Worlds
<1> QED BY <1>1, <1>3, <1>6, <1>8, <1>12, <1>13, <1>14

LEMMA HttpCloseRequestServes ==
  ASSUME NEW w, NEW c \in Conns, Reading(w, c) \/ Sending(w, c)
  PROVE  Serves(w, HttpCloseRequest(w, c), c)
<1> DEFINE v == HttpCloseConnection(w, c)
           z == [v EXCEPT !.req[c] = ZeroReq]
<1>1. /\ w \in Worlds /\ w.conn[c].inuse /\ w.req[c].upstream = Null
      /\ w.conn[c].data = c /\ w.req[c].connection = c
  BY DEF Reading, Sending, Reads, Sends, Cell
<1>2. Only(w, v, c) /\ ~v.conn[c].inuse /\ v.req[c].upstream = Null
  BY <1>1, CloseServes
<1>3. HttpCloseRequest(w, c) = z
  BY <1>1, <1>2, NullAssumption DEF HttpCloseRequest
<1> HIDE DEF v
<1>4. Asks(v, z, c, ZeroReq)
  BY <1>2, ZeroReqType, RequestAsks DEF Only
<1> HIDE DEF z
<1>5. Only(v, z, c) /\ ~z.conn[c].inuse /\ z.req[c].upstream = Null /\ PageEnds(z.req[c])
  BY <1>2, <1>4 DEF Asks, ZeroReq, PageEnds
<1> QED BY <1>2, <1>3, <1>5, OnlyTrans DEF Serves, Served

(* The result of an operation on an event of the connection.               *)
LEMMA CellKept ==
  ASSUME NEW w, NEW v, NEW c, NEW a, NEW b, Cell(w, c), Becomes(w, v, c, a, b)
  PROVE  Cell(v, c) /\ Only(w, v, c)
BY DEF Cell, Becomes, Only, Plain

LEMMA CellAsked ==
  ASSUME NEW w, NEW v, NEW c, NEW q, Cell(w, c), Asks(w, v, c, q), q.upstream = w.req[c].upstream
  PROVE  Cell(v, c) /\ Only(w, v, c)
BY DEF Cell, Asks, Only

LEMMA CellTypes ==
  ASSUME NEW w, NEW c \in Conns, Cell(w, c)
  PROVE  /\ w.conn[c].rev \in EventType /\ w.conn[c].wev \in EventType
         /\ w.conn[c] \in ConnType /\ w.req[c] \in ReqType
         /\ w.conn[c]["rev"] = w.conn[c].rev /\ w.conn[c]["wev"] = w.conn[c].wev
BY DEF Cell, Worlds, ConnType

(* construct_err.                                                          *)
LEMMA ConstructErrServes ==
  ASSUME NEW w, NEW c \in Conns, Reading(w, c) \/ Sending(w, c)
  PROVE  LET v == ConstructErr(w, c)
         IN  Sending(v, c) /\ Only(w, v, c) /\ v.req[c].response_done
<1> DEFINE a == KqueueAddEvent(w, c, "wev")
           b == KqueueDelEvent(a, c, "rev")
           d == Handle(b, c, "wev", "handle_response")
           q == [w.req[c] EXCEPT !.sb = {"page"}, !.response_done = TRUE, !.keep_alive = FALSE]
           z == [d EXCEPT !.req[c] = q]
           x == w.conn[c]
<1>0. Cell(w, c) /\ w.req[c].connection = c /\ x.data = c /\ x.open
      /\ "rev" \in Kinds /\ "wev" \in Kinds /\ "handle_response" \in ReadHandlers \cup WriteHandlers
  BY DEF Reading, Sending, Reads, Sends, Kinds, WriteHandlers
<1>1. w \in Worlds /\ c # Null /\ x.rev \in EventType /\ x.wev \in EventType
      /\ w.req[c] \in ReqType /\ x["rev"] = x.rev /\ x["wev"] = x.wev
  BY <1>0, CellTypes, NullAssumption DEF Cell
<1>2. Makes(w, a, c, "wev", Added(x.wev))
  BY <1>0, <1>1, AddEventMakes
<1> HIDE DEF a
<1>3. Becomes(w, a, c, x.rev, Added(x.wev)) /\ a \in Worlds /\ a.conn[c]["rev"] = x.rev
  BY <1>2 DEF Makes, Becomes, Only
<1>4. Makes(a, b, c, "rev", Deleted(x.rev))
  BY <1>0, <1>3, DelEventMakes
<1> HIDE DEF b
<1>5. Becomes(a, b, c, Deleted(x.rev), Added(x.wev)) /\ b \in Worlds
      /\ b.conn[c]["wev"] = Added(x.wev)
  BY <1>3, <1>4 DEF Makes, Becomes, Only
<1>6. Makes(b, d, c, "wev", Hooked(Added(x.wev), "handle_response"))
  BY <1>0, <1>5, HandleMakes
<1>7. ConstructErr(w, c) = z
  <2>1. d.req[c] = w.req[c] /\ d \in Worlds
    BY <1>3, <1>5, <1>6 DEF Becomes, Makes, Only
  <2>2. ConstructErr(w, c) = [d EXCEPT !.req[c].sb = {"page"}, !.req[c].response_done = TRUE,
                                       !.req[c].keep_alive = FALSE]
    BY <1>0, <1>1 DEF ConstructErr, a, b
  <2> HIDE DEF d
  <2> QED BY <2>1, <2>2 DEF Worlds
<1> HIDE DEF d
<1>8. Becomes(b, d, c, Deleted(x.rev), Hooked(Added(x.wev), "handle_response"))
  BY <1>5, <1>6 DEF Makes, Becomes
<1>9. Becomes(w, d, c, Deleted(x.rev), Hooked(Added(x.wev), "handle_response"))
  BY <1>3, <1>5, <1>8, BecomesTrans
<1>10. q \in ReqType /\ q.connection = c /\ q.upstream = Null /\ "page" \in q.sb
       /\ q.response_done = TRUE /\ q.keep_alive = FALSE
  BY <1>0, <1>1 DEF ReqType, Cell
<1> HIDE DEF q
<1>11. Asks(d, z, c, q)
  BY <1>9, <1>10, RequestAsks DEF Becomes, Only
<1> HIDE DEF z
<1>12. Cell(z, c) /\ Only(w, z, c)
  BY <1>0, <1>9, <1>10, <1>11, CellKept, CellAsked, OnlyTrans DEF Cell
<1>13. z.conn[c].rev = Deleted(x.rev) /\ z.conn[c].wev = Hooked(Added(x.wev), "handle_response")
       /\ z.conn[c].open /\ z.conn[c].data = c /\ z.req[c] = q
  BY <1>0, <1>9, <1>11 DEF Becomes, Asks, Plain
<1>14. Blank(Deleted(x.rev)) /\ (x.wev.timedout => x.wev.timer_set)
  <2>1. CASE Reading(w, c)
    BY <2>1, <1>1 DEF Reading, Reads, Blank, Deleted, Dropped, Untimed, Mark, EventType
  <2>2. CASE Sending(w, c)
    BY <2>2, <1>1 DEF Sending, Sends, Blank, Deleted
  <2> QED BY <2>1, <2>2
<1>15. Sends(z.conn[c], z.req[c], c)
  BY <1>1, <1>10, <1>13, <1>14 DEF Sends, Hooked, Added, Mark, EventType
<1> QED BY <1>7, <1>10, <1>12, <1>13, <1>15 DEF Sending

(* Fields of the request.                                                  *)
LEMMA DoneSends ==
  ASSUME NEW w, NEW c \in Conns, Sending(w, c)
  PROVE  LET v == [w EXCEPT !.req[c].response_done = TRUE]
         IN  Sending(v, c) /\ Only(w, v, c) /\ v.conn[c] = w.conn[c] /\ v.req[c].response_done
<1> DEFINE v == [w EXCEPT !.req[c].response_done = TRUE]
           p == w.req[c]
<1>1. w \in Worlds /\ Cell(w, c) /\ Sends(w.conn[c], p, c)
  BY DEF Sending, Cell
<1>2. PICK q \in ReqType :
        /\ Asks(w, v, c, q) /\ Kin(p, q)
        /\ q.keep_alive = p.keep_alive /\ q.sb = p.sb /\ q.response_done = TRUE
  BY <1>1, DoneAsks
<1> HIDE DEF v
<1>3. Cell(v, c) /\ Only(w, v, c) /\ v.conn[c] = w.conn[c] /\ v.req[c] = q
  BY <1>1, <1>2, CellAsked DEF Kin, Asks
<1>4. Sends(v.conn[c], v.req[c], c)
  BY <1>1, <1>2, <1>3 DEF Sends, Kin
<1>5. Sending(v, c) /\ Only(w, v, c) /\ v.conn[c] = w.conn[c] /\ v.req[c].response_done
  BY <1>2, <1>3, <1>4 DEF Sending
<1> QED BY <1>5 DEF v

LEMMA SentSends ==
  ASSUME NEW w, NEW c \in Conns, Sending(w, c)
  PROVE  LET v == [w EXCEPT !.req[c].sb = {}]
         IN  Sending(v, c) /\ Only(w, v, c) /\ v.conn[c] = w.conn[c]
<1> DEFINE none == {}
           v == [w EXCEPT !.req[c].sb = none]
           p == w.req[c]
<1>0. none \in SUBSET {"head", "page", "data"} /\ none = {}
  OBVIOUS
<1> HIDE DEF none
<1>1. w \in Worlds /\ Cell(w, c) /\ Sends(w.conn[c], p, c)
  BY DEF Sending, Cell
<1>2. PICK q \in ReqType :
        /\ Asks(w, v, c, q) /\ Kin(p, q)
        /\ q.keep_alive = p.keep_alive /\ q.sb = none /\ q.response_done = p.response_done
  BY <1>0, <1>1, SbAsks
<1> HIDE DEF v
<1>3. Cell(v, c) /\ Only(w, v, c) /\ v.conn[c] = w.conn[c] /\ v.req[c] = q
  BY <1>1, <1>2, CellAsked DEF Kin, Asks
<1>4. Sends(v.conn[c], v.req[c], c)
  BY <1>0, <1>1, <1>2, <1>3 DEF Sends, Kin
<1>5. Sending(v, c) /\ Only(w, v, c) /\ v.conn[c] = w.conn[c]
  BY <1>3, <1>4 DEF Sending
<1> QED BY <1>5 DEF v, none

LEMMA FieldReads ==
  ASSUME NEW w, NEW c \in Conns, Reading(w, c), Punctual(w, c, "rev"), NEW v, NEW q,
         Asks(w, v, c, q), Kin(w.req[c], q), q.sb = w.req[c].sb,
         q.response_done = w.req[c].response_done
  PROVE  Reading(v, c) /\ Punctual(v, c, "rev") /\ Only(w, v, c)
<1>1. Cell(w, c) /\ Reads(w.conn[c], w.req[c], c)
  BY DEF Reading
<1>2. Cell(v, c) /\ Only(w, v, c) /\ v.conn[c] = w.conn[c] /\ v.req[c] = q
  BY <1>1, CellAsked DEF Kin, Asks
<1>3. Reads(v.conn[c], v.req[c], c)
  BY <1>1, <1>2 DEF Reads, Kin
<1> QED BY <1>2, <1>3 DEF Reading, Punctual

LEMMA FieldsRead ==
  ASSUME NEW w, NEW c \in Conns, Reading(w, c), Punctual(w, c, "rev"), NEW b \in BOOLEAN,
         NEW f \in Fills,
         NEW v \in {[w EXCEPT !.req[c].keep_alive = b], [w EXCEPT !.req[c].resource = b],
                    [w EXCEPT !.req[c].rb = f]}
  PROVE  Reading(v, c) /\ Punctual(v, c, "rev") /\ Only(w, v, c)
<1>1. w \in Worlds
  BY DEF Reading, Cell
<1>2. \E q \in ReqType : /\ Asks(w, v, c, q) /\ Kin(w.req[c], q) /\ q.sb = w.req[c].sb
                         /\ q.response_done = w.req[c].response_done
  <2>1. CASE v = [w EXCEPT !.req[c].keep_alive = b]
    BY <1>1, <2>1, KeepAliveAsks
  <2>2. CASE v = [w EXCEPT !.req[c].resource = b]
    BY <1>1, <2>2, ResourceAsks
  <2>3. CASE v = [w EXCEPT !.req[c].rb = f]
    BY <1>1, <2>3, RbAsks
  <2> QED BY <2>1, <2>2, <2>3
<1> QED BY <1>2, FieldReads

LEMMA IdleOnly ==
  ASSUME NEW w \in Worlds, NEW c \in Conns, NEW b \in BOOLEAN
  PROVE  LET v == [w EXCEPT !.conn[c].idle = b]
         IN  /\ Only(w, v, c) /\ v.req = w.req
             /\ v.conn[c].inuse = w.conn[c].inuse /\ v.conn[c].open = w.conn[c].open
             /\ v.conn[c].data = w.conn[c].data
             /\ v.conn[c].rev = w.conn[c].rev /\ v.conn[c].wev = w.conn[c].wev
<1> DEFINE v == [w EXCEPT !.conn[c].idle = b]
<1>1. v \in Worlds
  BY IdleSet DEF IdleIs
<1>2. v.req = w.req /\ v.dead = w.dead
  BY DEF Worlds
<1>3. \A d \in Conns : d # c => v.conn[d] = w.conn[d]
  BY DEF Worlds
<1>4. /\ v.conn[c].inuse = w.conn[c].inuse /\ v.conn[c].open = w.conn[c].open
      /\ v.conn[c].data = w.conn[c].data
      /\ v.conn[c].rev = w.conn[c].rev /\ v.conn[c].wev = w.conn[c].wev
  BY DEF Worlds, ConnType
<1> QED BY <1>1, <1>2, <1>3, <1>4 DEF Only

(* http_response_done.                                                     *)
LEMMA ResponseDoneServes ==
  ASSUME NEW w, NEW c \in Conns, Sending(w, c)
  PROVE  Serves(w, HttpResponseDone(w, c), c)
<1> DEFINE x == w.conn[c]
           q == [ZeroReq EXCEPT !.live = TRUE, !.connection = c]
           i == [w EXCEPT !.req[c] = q]
           j == [i EXCEPT !.conn[c].idle = TRUE]
           a == KqueueDelEvent(j, c, "wev")
           b == KqueueAddEvent(a, c, "rev")
           d == Handle(b, c, "rev", "ngx_http_process_request_line")
           z == EventAddTimer(d, c, "rev")
<1>0. /\ Cell(w, c) /\ w.req[c].connection = c /\ w.req[c].upstream = Null /\ x.data = c /\ x.open
      /\ Blank(x.rev) /\ x.wev.active /\ (x.wev.timedout => x.wev.timer_set) /\ x.inuse
  BY DEF Sending, Sends, Cell
<1>1. /\ "rev" \in Kinds /\ "wev" \in Kinds /\ w \in Worlds /\ c # Null
      /\ "ngx_http_process_request_line" \in ReadHandlers \cup WriteHandlers
      /\ x.rev \in EventType /\ x.wev \in EventType
  BY <1>0, CellTypes, NullAssumption DEF Kinds, ReadHandlers, Cell
<1>2. CASE ~w.req[c].keep_alive
  <2>1. HttpResponseDone(w, c) = HttpCloseRequest(w, c)
    BY <1>2 DEF HttpResponseDone
  <2> QED BY <2>1, HttpCloseRequestServes
<1>3. CASE w.req[c].keep_alive
  <2>1. HttpResponseDone(w, c) = z
    <3>1. HttpClearRequest(w, c) = j
      BY <1>0 DEF HttpClearRequest
    <3> QED BY <3>1, <1>0, <1>1, <1>3 DEF HttpResponseDone
  <2>2. /\ q \in ReqType /\ q.connection = c /\ q.upstream = Null /\ q.response_done = FALSE
        /\ q.sb = {}
    BY ZeroReqType DEF ZeroReq, ReqType
  <2> HIDE DEF q
  <2>3. Asks(w, i, c, q)
    BY <1>1, <2>2, RequestAsks
  <2> HIDE DEF i
  <2>4. i \in Worlds /\ Only(w, i, c) /\ i.conn[c] = x /\ i.req[c] = q
    BY <2>3 DEF Asks, Only
  <2>5. /\ Only(i, j, c) /\ j.req[c] = q /\ j.conn[c].inuse /\ j.conn[c].open /\ j.conn[c].data = c
        /\ j.conn[c].rev = x.rev /\ j.conn[c].wev = x.wev
    <3>1. /\ Only(i, j, c) /\ j.req = i.req /\ j.conn[c].inuse = i.conn[c].inuse
          /\ j.conn[c].open = i.conn[c].open /\ j.conn[c].data = i.conn[c].data
          /\ j.conn[c].rev = i.conn[c].rev /\ j.conn[c].wev = i.conn[c].wev
      BY <2>4, IdleOnly
    <3> HIDE DEF j
    <3> QED BY <1>0, <2>4, <3>1
  <2> HIDE DEF j
  <2>6. Only(w, j, c) /\ j \in Worlds /\ Cell(j, c) /\ j.conn[c]["wev"] = x.wev
    <3>1. Only(w, j, c)
      BY <2>4, <2>5, OnlyTrans
    <3>2. Cell(j, c)
      BY <3>1, <1>0, <2>2, <2>5 DEF Only, Cell
    <3> QED BY <3>1, <3>2, <2>5, CellTypes DEF Only
  <2>7. Makes(j, a, c, "wev", Deleted(x.wev))
    BY <1>1, <2>6, DelEventMakes
  <2> HIDE DEF a
  <2>8. Becomes(j, a, c, x.rev, Deleted(x.wev)) /\ a \in Worlds /\ a.conn[c]["rev"] = x.rev
    BY <2>5, <2>7 DEF Makes, Becomes, Only
  <2>9. Makes(a, b, c, "rev", Added(x.rev))
    BY <1>1, <2>8, AddEventMakes
  <2> HIDE DEF b
  <2>10. Becomes(a, b, c, Added(x.rev), Deleted(x.wev)) /\ b \in Worlds
         /\ b.conn[c]["rev"] = Added(x.rev)
    BY <2>8, <2>9 DEF Makes, Becomes, Only
  <2> DEFINE h == Hooked(Added(x.rev), "ngx_http_process_request_line")
  <2>11. Makes(b, d, c, "rev", h)
    BY <1>1, <2>10, HandleMakes
  <2> HIDE DEF d, h
  <2>12. Becomes(b, d, c, h, Deleted(x.wev)) /\ d \in Worlds /\ d.conn[c]["rev"] = h
    BY <2>10, <2>11 DEF Makes, Becomes, Only
  <2>13. Makes(d, z, c, "rev", Timed(h))
    BY <1>1, <2>12, AddTimerMakes
  <2> HIDE DEF z
  <2>14. Becomes(d, z, c, Timed(h), Deleted(x.wev))
    BY <2>12, <2>13 DEF Makes, Becomes
  <2>15. Becomes(j, z, c, Timed(h), Deleted(x.wev))
    BY <2>8, <2>10, <2>12, <2>14, BecomesTrans
  <2>16. Cell(z, c) /\ Only(w, z, c)
    BY <2>6, <2>15, CellKept, OnlyTrans
  <2>17. /\ z.conn[c].rev = Timed(h) /\ z.conn[c].wev = Deleted(x.wev) /\ z.req[c] = q
         /\ z.conn[c].open /\ z.conn[c].data = c
    BY <2>5, <2>15 DEF Becomes, Plain
  <2>18. /\ Timed(h).handler = "ngx_http_process_request_line" /\ Timed(h).active
         /\ Timed(h).timer_set /\ ~Timed(h).timedout
    BY <1>0, <1>1 DEF Timed, h, Hooked, Added, Mark, Blank, EventType
  <2>19. Blank(Deleted(x.wev))
    BY <1>0, <1>1 DEF Blank, Deleted, Dropped, Untimed, Mark, EventType
  <2>20. Reading(z, c) /\ Punctual(z, c, "rev")
    BY <2>2, <2>16, <2>17, <2>18, <2>19, CellTypes DEF Reading, Reads, Punctual
  <2> QED BY <2>1, <2>16, <2>20, StateServes
<1> QED BY <1>2, <1>3

(* event_add_timer on the event that is waited for.                        *)
LEMMA AddTimerServes ==
  ASSUME NEW w, NEW c \in Conns
  PROVE  /\ Reading(w, c) /\ Punctual(w, c, "rev") =>
              LET v == EventAddTimer(w, c, "rev")
              IN  Reading(v, c) /\ Punctual(v, c, "rev") /\ Only(w, v, c)
         /\ Sending(w, c) =>
              LET v == EventAddTimer(w, c, "wev")
              IN  Sending(v, c) /\ Punctual(v, c, "wev") /\ Only(w, v, c) /\ v.req[c] = w.req[c]
<1> DEFINE x == w.conn[c]
<1>0. "rev" \in Kinds /\ "wev" \in Kinds
  BY DEF Kinds
<1>1. ASSUME Reading(w, c), Punctual(w, c, "rev"), NEW v, v = EventAddTimer(w, c, "rev")
      PROVE  Reading(v, c) /\ Punctual(v, c, "rev") /\ Only(w, v, c)
  <2>1. Cell(w, c) /\ w \in Worlds /\ x["rev"] = x.rev /\ x.rev \in EventType
    BY <1>1, CellTypes DEF Reading, Cell
  <2>2. Becomes(w, v, c, Timed(x.rev), x.wev)
    BY <1>0, <1>1, <2>1, AddTimerMakes DEF Makes
  <2>3. Cell(v, c) /\ Only(w, v, c)
    BY <2>1, <2>2, CellKept
  <2>4. Reads(v.conn[c], v.req[c], c)
    <3>1. /\ v.conn[c].open = x.open /\ v.conn[c].data = x.data /\ v.req[c] = w.req[c]
          /\ v.conn[c].rev = Timed(x.rev) /\ v.conn[c].wev = x.wev
      BY <2>2 DEF Becomes, Plain
    <3>2. Timed(x.rev).handler = x.rev.handler /\ Timed(x.rev).active = x.rev.active
          /\ Timed(x.rev).timer_set
      BY <2>1, MarkFields
    <3>3. Reads(x, w.req[c], c)
      BY <1>1 DEF Reading
    <3> HIDE DEF x
    <3> QED BY <3>1, <3>2, <3>3 DEF Reads
  <2>5. ~v.conn[c].rev.timedout
    BY <1>1, <2>1, <2>2, MarkFields DEF Reading, Reads, Punctual, Becomes
  <2> QED BY <2>3, <2>4, <2>5, CellTypes DEF Reading, Punctual
<1>2. ASSUME Sending(w, c), NEW v, v = EventAddTimer(w, c, "wev")
      PROVE  Sending(v, c) /\ Punctual(v, c, "wev") /\ Only(w, v, c) /\ v.req[c] = w.req[c]
  <2>1. Cell(w, c) /\ w \in Worlds /\ x["wev"] = x.wev /\ x.wev \in EventType
    BY <1>2, CellTypes DEF Sending, Cell
  <2>2. Becomes(w, v, c, x.rev, Timed(x.wev))
    BY <1>0, <1>2, <2>1, AddTimerMakes DEF Makes
  <2>3. Cell(v, c) /\ Only(w, v, c)
    BY <2>1, <2>2, CellKept
  <2>4. Sends(v.conn[c], v.req[c], c) /\ v.req[c] = w.req[c]
    <3>1. /\ v.conn[c].open = x.open /\ v.conn[c].data = x.data /\ v.req[c] = w.req[c]
          /\ v.conn[c].wev = Timed(x.wev) /\ v.conn[c].rev = x.rev
      BY <2>2 DEF Becomes, Plain
    <3>2. Timed(x.wev).handler = x.wev.handler /\ Timed(x.wev).active = x.wev.active
          /\ Timed(x.wev).timer_set
      BY <2>1, MarkFields
    <3>3. Sends(x, w.req[c], c)
      BY <1>2 DEF Sending
    <3> HIDE DEF x
    <3> QED BY <3>1, <3>2, <3>3 DEF Sends
  <2>5. ~v.conn[c].wev.timedout
    BY <1>2, <2>1, <2>2, MarkFields DEF Sending, Sends, Becomes
  <2> QED BY <2>3, <2>4, <2>5, CellTypes DEF Sending, Punctual
<1> QED BY <1>1, <1>2

-----------------------------------------------------------------------------
(***************************************************************************)
(* Sending.                                                                *)
(***************************************************************************)
LEMMA FileServes ==
  ASSUME NEW w, NEW c \in Conns, Sending(w, c), NEW v \in HandleResponseFile(w, c)
  PROVE  Serves(w, v, c)
<1>0. /\ w \in Worlds /\ Cell(w, c) /\ w.conn[c].data = c /\ c # Null
      /\ w.conn[c]["wev"] = w.conn[c].wev
  BY CellTypes, NullAssumption DEF Sending, Sends, Cell
<1>1. CASE w.conn[c].wev.timedout
  <2>1. v = ConstructErr(w, c)
    BY <1>0, <1>1 DEF HandleResponseFile
  <2> QED BY <2>1, ConstructErrServes, StateServes
<1>2. CASE ~w.conn[c].wev.timedout
  <2> DEFINE d == [w EXCEPT !.req[c].response_done = TRUE]
  <2>1. \/ v = HttpResponseDone(d, c)
        \/ v = EventAddTimer(w, c, "wev")
        \/ v = w
        \/ v = HttpCloseRequest(w, c)
    BY <1>0, <1>2 DEF HandleResponseFile, SendFile
  <2>2. CASE v = HttpResponseDone(d, c)
    <3>1. Sending(d, c) /\ Only(w, d, c)
      BY DoneSends
    <3> QED BY <2>2, <3>1, ResponseDoneServes, ServesTrans
  <2>3. CASE v = EventAddTimer(w, c, "wev")
    BY <2>3, AddTimerServes, StateServes
  <2>4. CASE v = w
    BY <1>0, <1>2, <2>4, StateServes DEF Only, Punctual
  <2>5. CASE v = HttpCloseRequest(w, c)
    BY <2>5, HttpCloseRequestServes
  <2> QED BY <2>1, <2>2, <2>3, <2>4, <2>5
<1> QED BY <1>1, <1>2

LEMMA SentServes ==
  ASSUME NEW w, NEW c \in Conns, Sending(w, c), Punctual(w, c, "wev"), NEW v \in ResponseSent(w, c)
  PROVE  Serves(w, v, c)
<1> DEFINE d == [w EXCEPT !.req[c].response_done = TRUE]
           h == Handle(w, c, "wev", "handle_response_file")
<1>0. /\ w \in Worlds /\ Cell(w, c) /\ w.conn[c].data = c /\ w.req[c].upstream = Null
      /\ w.conn[c]["wev"] = w.conn[c].wev /\ w.conn[c].wev \in EventType
  BY CellTypes DEF Sending, Sends, Cell
<1>1. \/ v = HttpResponseDone(w, c)
      \/ v \in HandleResponseFile(h, c)
      \/ v = HttpResponseDone(d, c)
  BY <1>0 DEF ResponseSent
<1>2. CASE v = HttpResponseDone(w, c)
  BY <1>2, ResponseDoneServes
<1>3. CASE v \in HandleResponseFile(h, c)
  <2> DEFINE e1 == Hooked(w.conn[c].wev, "handle_response_file")
  <2>1. Makes(w, h, c, "wev", e1)
    BY <1>0, HandleMakes DEF Kinds, WriteHandlers
  <2> HIDE DEF h
  <2>2. Becomes(w, h, c, w.conn[c].rev, e1)
    BY <2>1 DEF Makes
  <2>3. Cell(h, c) /\ Only(w, h, c)
    BY <1>0, <2>2, CellKept
  <2>4. /\ e1.handler = "handle_response_file" /\ e1.active = w.conn[c].wev.active
        /\ e1.timer_set = w.conn[c].wev.timer_set /\ e1.timedout = w.conn[c].wev.timedout
    BY HookedFields
  <2> HIDE DEF e1
  <2>5. Sends(h.conn[c], h.req[c], c)
    BY <2>2, <2>4 DEF Sending, Sends, Becomes, Plain
  <2> QED BY <1>3, <2>3, <2>5, FileServes, ServesTrans DEF Sending
<1>4. CASE v = HttpResponseDone(d, c)
  BY <1>4, DoneSends, ResponseDoneServes, ServesTrans
<1> QED BY <1>1, <1>2, <1>3, <1>4

LEMMA HandleResponseServes ==
  ASSUME NEW w, NEW c \in Conns, Sending(w, c), NEW v \in HandleResponse(w, c)
  PROVE  Serves(w, v, c)
<1>0. /\ w \in Worlds /\ Cell(w, c) /\ w.conn[c].data = c /\ c # Null /\ w.conn[c].open
      /\ w.conn[c]["wev"] = w.conn[c].wev
  BY CellTypes, NullAssumption DEF Sending, Sends, Cell
<1>1. CASE w.conn[c].wev.timedout
  <2>1. v = HttpCloseRequest(w, c)
    BY <1>0, <1>1 DEF HandleResponse
  <2> QED BY <2>1, HttpCloseRequestServes
<1>2. CASE ~w.conn[c].wev.timedout
  <2> DEFINE d == [w EXCEPT !.req[c].sb = {}]
  <2>1. \/ v \in ResponseSent(d, c)
        \/ v = EventAddTimer(w, c, "wev")
        \/ v = HttpCloseRequest(w, c)
    <3>1. PICK res \in {"OK", "AGAIN", "ERROR"} :
            v \in CASE res = "OK" -> ResponseSent([w EXCEPT !.req[c].sb = {}], c)
                    [] res = "AGAIN" -> {EventAddTimer(w, c, "wev")}
                    [] res = "ERROR" -> {HttpCloseRequest(w, c)}
      BY <1>0, <1>2 DEF HandleResponse, BufferSend
    <3> QED BY <3>1
  <2>2. CASE v \in ResponseSent(d, c)
    <3>1. Sending(d, c) /\ Only(w, d, c) /\ d.conn[c] = w.conn[c]
      BY SentSends
    <3> HIDE DEF d
    <3>2. Punctual(d, c, "wev")
      BY <1>0, <1>2, <3>1 DEF Punctual
    <3> QED BY <2>2, <3>1, <3>2, SentServes, ServesTrans
  <2>3. CASE v = EventAddTimer(w, c, "wev")
    BY <2>3, AddTimerServes, StateServes
  <2>4. CASE v = HttpCloseRequest(w, c)
    BY <2>4, HttpCloseRequestServes
  <2> QED BY <2>1, <2>2, <2>3, <2>4
<1> QED BY <1>1, <1>2

-----------------------------------------------------------------------------
(***************************************************************************)
(* Receiving.                                                              *)
(***************************************************************************)
(* A callback has read what has come, or there is an error page already.   *)
Ready(w, c) ==
  \/ Reading(w, c) /\ Punctual(w, c, "rev")
  \/ Sending(w, c) /\ w.req[c].response_done

LEMMA ReadyFacts ==
  ASSUME NEW w, NEW c \in Conns, Ready(w, c)
  PROVE  /\ w \in Worlds /\ Cell(w, c) /\ w.conn[c].data = c /\ c # Null /\ w.conn[c].open
         /\ w.req[c].connection = c /\ w.req[c].upstream = Null
         /\ ~w.conn[c].rev.timedout
         /\ w.conn[c]["rev"] = w.conn[c].rev /\ w.conn[c].rev \in EventType
         /\ w.conn[c]["wev"] = w.conn[c].wev /\ w.conn[c].wev \in EventType
         /\ w.req[c] \in ReqType
BY CellTypes, NullAssumption DEF Ready, Reading, Sending, Reads, Sends, Punctual, Cell, Blank

(* request_handle_body once the body is there.                             *)
LEMMA BodyServes ==
  ASSUME NEW w, NEW c \in Conns, Ready(w, c)
  PROVE  Serves(w, BodyReceived(w, c), c)
<1> DEFINE x == w.conn[c]
           a == KqueueDelEvent(w, c, "rev")
           b == Handle(a, c, "wev", "handle_response")
           d == KqueueAddEvent(b, c, "wev")
           head == {"head"}
           i == [d EXCEPT !.req[c].sb = head]
           z == EventAddTimer(i, c, "wev")
           e1 == Deleted(x.rev)
           e2 == Hooked(x.wev, "handle_response")
           e3 == Added(e2)
<1>0. /\ w \in Worlds /\ Cell(w, c) /\ x.data = c /\ c # Null /\ x.open
      /\ w.req[c].connection = c /\ w.req[c].upstream = Null
      /\ ~x.rev.timedout
      /\ x["rev"] = x.rev /\ x.rev \in EventType
      /\ x["wev"] = x.wev /\ x.wev \in EventType /\ w.req[c] \in ReqType
  BY ReadyFacts
<1>1. /\ "rev" \in Kinds /\ "wev" \in Kinds /\ "handle_response" \in ReadHandlers \cup WriteHandlers
      /\ head \in SUBSET {"head", "page", "data"} /\ "page" \notin head
  BY DEF Kinds, WriteHandlers
<1>2. Makes(w, a, c, "rev", e1)
  BY <1>0, <1>1, DelEventMakes
<1> HIDE DEF a, head
<1>3. Becomes(w, a, c, e1, x.wev) /\ a \in Worlds /\ a.conn[c]["wev"] = x.wev /\ a.req[c] = w.req[c]
  BY <1>0, <1>2 DEF Makes, Becomes, Only
<1>4. Makes(a, b, c, "wev", e2)
  BY <1>1, <1>3, HandleMakes
<1>5. BodyReceived(w, c) = IF w.req[c].response_done THEN b ELSE z
  BY <1>0, <1>3 DEF BodyReceived, a, head
<1> HIDE DEF b, e1
<1>6. Becomes(a, b, c, e1, e2) /\ b \in Worlds /\ b.conn[c]["wev"] = e2 /\ b.req[c] = w.req[c]
  BY <1>3, <1>4 DEF Makes, Becomes, Only
<1>7. Becomes(w, b, c, e1, e2)
  BY <1>3, <1>6, BecomesTrans
<1>8. /\ e2.handler = "handle_response" /\ e2.active = x.wev.active
      /\ e2.timer_set = x.wev.timer_set /\ e2.timedout = x.wev.timedout
  BY HookedFields
<1>9. Blank(e1)
  <2>1. CASE Reading(w, c)
    BY <1>0, <2>1 DEF Reading, Reads, Blank, e1, Deleted, Dropped, Untimed, Mark, EventType
  <2>2. CASE Sending(w, c)
    BY <2>2 DEF Sending, Sends, Blank, e1, Deleted
  <2> QED BY <2>1, <2>2 DEF Ready
<1>10. CASE w.req[c].response_done
  <2>1. Sending(w, c)
    BY <1>10 DEF Ready, Reading, Reads
  <2>2. Cell(b, c) /\ Only(w, b, c)
    BY <1>0, <1>7, CellKept
  <2>3. Sends(b.conn[c], b.req[c], c)
    <3> HIDE DEF e2
    <3> QED BY <1>7, <1>8, <1>9, <2>1 DEF Sending, Sends, Becomes, Plain
  <2>4. Sending(b, c) /\ b.req[c].response_done
    BY <1>6, <1>10, <2>2, <2>3 DEF Sending
  <2> QED BY <1>5, <1>10, <2>2, <2>4, StateServes
<1>11. CASE ~w.req[c].response_done
  <2>1. Reading(w, c)
    BY <1>11 DEF Ready
  <2>2. Makes(b, d, c, "wev", e3)
    BY <1>1, <1>6, AddEventMakes
  <2> HIDE DEF d
  <2>3. Becomes(b, d, c, e1, e3) /\ d \in Worlds /\ d.req[c] = w.req[c]
    BY <1>6, <2>2 DEF Makes, Becomes, Only
  <2>4. Becomes(w, d, c, e1, e3)
    BY <1>7, <2>3, BecomesTrans
  <2>5. PICK q \in ReqType :
          /\ Asks(d, i, c, q) /\ Kin(w.req[c], q)
          /\ q.keep_alive = w.req[c].keep_alive /\ q.sb = head /\ q.response_done = FALSE
    BY <1>0, <1>1, <1>11, <2>3, SbAsks DEF ReqType
  <2> HIDE DEF i
  <2>6. Cell(d, c) /\ Only(w, d, c)
    BY <1>0, <2>4, CellKept
  <2>7. Cell(i, c) /\ Only(w, i, c) /\ i.conn[c] = d.conn[c] /\ i.req[c] = q
    BY <1>0, <2>3, <2>5, <2>6, CellAsked, OnlyTrans DEF Kin, Asks
  <2>8. e3.handler = "handle_response" /\ e3.active /\ e3.timer_set = FALSE /\ e3.timedout = FALSE
    <3>1. x.wev.timer_set = FALSE /\ x.wev.timedout = FALSE
      BY <1>0, <2>1 DEF Reading, Reads, Blank, EventType
    <3> QED BY <1>8, <3>1 DEF e3, Added, Mark
  <2> HIDE DEF e3, e2
  <2>9. /\ i \in Worlds /\ i.conn[c]["wev"] = e3 /\ i.conn[c].wev = e3 /\ i.conn[c].rev = e1
        /\ i.conn[c].open /\ i.conn[c].data = c
    BY <1>0, <2>4, <2>7, CellTypes DEF Cell, Becomes, Plain
  <2>10. Makes(i, z, c, "wev", Timed(e3))
    BY <1>1, <2>9, AddTimerMakes
  <2> HIDE DEF z
  <2>11. Becomes(i, z, c, e1, Timed(e3))
    BY <2>9, <2>10 DEF Makes
  <2>12. Cell(z, c) /\ Only(w, z, c)
    BY <2>7, <2>11, CellKept, OnlyTrans
  <2>13. /\ Timed(e3).handler = "handle_response" /\ Timed(e3).active /\ Timed(e3).timer_set
         /\ Timed(e3).timedout = FALSE
    BY <2>8 DEF Timed, Mark
  <2>14. /\ z.conn[c].rev = e1 /\ z.conn[c].wev = Timed(e3) /\ z.conn[c].open
         /\ z.conn[c].data = c /\ z.req[c] = q
    BY <2>7, <2>9, <2>11 DEF Becomes, Plain
  <2>15. Sending(z, c) /\ Punctual(z, c, "wev")
    BY <1>0, <1>1, <1>9, <2>5, <2>12, <2>13, <2>14, CellTypes DEF Sending, Sends, Punctual, Kin
  <2> QED BY <1>5, <1>11, <2>12, <2>15, StateServes
<1> QED BY <1>10, <1>11

LEMMA HandleBodyServes ==
  ASSUME NEW w, NEW c \in Conns, Ready(w, c) \/ Reading(w, c), NEW v \in RequestHandleBody(w, c)
  PROVE  Serves(w, v, c)
<1>0. w.conn[c].data = c /\ c # Null /\ w.conn[c].open
  BY ReadyFacts, NullAssumption DEF Reading, Reads
<1>1. CASE w.conn[c].rev.timedout
  <2>1. v = ConstructErr(w, c)
    BY <1>0, <1>1 DEF RequestHandleBody
  <2>2. Reading(w, c)
    BY <1>1, ReadyFacts
  <2> QED BY <2>1, <2>2, ConstructErrServes, StateServes
<1>2. CASE ~w.conn[c].rev.timedout
  <2>1. v = HttpCloseRequest(w, c) \/ v = BodyReceived(w, c)
    BY <1>0, <1>2 DEF RequestHandleBody, BufferRecv
  <2>2. Ready(w, c)
    BY <1>2, CellTypes DEF Ready, Punctual, Reading
  <2>3. Reading(w, c) \/ Sending(w, c)
    BY <2>2 DEF Ready
  <2> QED BY <2>1, <2>2, <2>3, HttpCloseRequestServes, BodyServes
<1> QED BY <1>1, <1>2

(* The next callback of the read event.                                    *)
LEMMA HandleReads ==
  ASSUME NEW w, NEW c \in Conns,
         NEW h \in {"ngx_http_process_request_line", "http_parse_headers", "request_handle_body"},
         NEW v, v = Handle(w, c, "rev", h)
  PROVE  /\ Reading(w, c) => Reading(v, c) /\ Only(w, v, c)
         /\ Ready(w, c) => Ready(v, c) /\ Only(w, v, c)
<1> DEFINE x == w.conn[c]
           m == Hooked(x.rev, h)
<1>1. ASSUME Cell(w, c)
      PROVE  Becomes(w, v, c, m, x.wev) /\ Cell(v, c) /\ Only(w, v, c)
  <2>1. w \in Worlds /\ x["rev"] = x.rev
    BY <1>1, CellTypes DEF Cell
  <2>2. Makes(w, v, c, "rev", m)
    BY <2>1, HandleMakes DEF Kinds, ReadHandlers
  <2>3. Becomes(w, v, c, m, x.wev)
    BY <2>2 DEF Makes
  <2> QED BY <1>1, <2>3, CellKept
<1>2. m.handler = h /\ m.active = x.rev.active /\ m.timer_set = x.rev.timer_set
      /\ m.timedout = x.rev.timedout
  BY HookedFields
<1> HIDE DEF m, x
<1>3. ASSUME Reading(w, c)
      PROVE  Reading(v, c) /\ Only(w, v, c) /\ v.conn[c].rev.timedout = w.conn[c].rev.timedout
  <2>1. Cell(w, c) /\ Reads(x, w.req[c], c)
    BY <1>3 DEF Reading, x
  <2>2. /\ v.conn[c].open = x.open /\ v.conn[c].data = x.data /\ v.req[c] = w.req[c]
        /\ v.conn[c].rev = m /\ v.conn[c].wev = x.wev /\ Cell(v, c) /\ Only(w, v, c)
    BY <1>1, <2>1 DEF Becomes, Plain, x
  <2>3. Reads(v.conn[c], v.req[c], c)
    BY <1>2, <2>1, <2>2 DEF Reads
  <2> QED BY <1>2, <2>2, <2>3 DEF Reading, x
<1>4. ASSUME Sending(w, c), w.req[c].response_done
      PROVE  Sending(v, c) /\ Only(w, v, c) /\ v.req[c].response_done
  <2>1. Cell(w, c) /\ Sends(x, w.req[c], c)
    BY <1>4 DEF Sending, x
  <2>2. /\ v.conn[c].open = x.open /\ v.conn[c].data = x.data /\ v.req[c] = w.req[c]
        /\ v.conn[c].rev = m /\ v.conn[c].wev = x.wev /\ Cell(v, c) /\ Only(w, v, c)
    BY <1>1, <2>1 DEF Becomes, Plain, x
  <2>3. Blank(m)
    BY <1>2, <2>1 DEF Sends, Blank
  <2>4. Sends(v.conn[c], v.req[c], c)
    BY <2>1, <2>2, <2>3 DEF Sends
  <2> QED BY <1>4, <2>2, <2>4 DEF Sending
<1>5. ASSUME Ready(w, c) PROVE Ready(v, c) /\ Only(w, v, c)
  <2>1. CASE Reading(w, c) /\ Punctual(w, c, "rev")
    <3>1. Reading(v, c) /\ Only(w, v, c) /\ v.conn[c].rev.timedout = w.conn[c].rev.timedout
      BY <1>3, <2>1
    <3>2. v.conn[c]["rev"] = v.conn[c].rev /\ w.conn[c]["rev"] = w.conn[c].rev
      BY <2>1, <3>1, CellTypes DEF Reading
    <3> QED BY <2>1, <3>1, <3>2 DEF Ready, Punctual
  <2>2. CASE Sending(w, c) /\ w.req[c].response_done
    BY <1>4, <2>2 DEF Ready
  <2> QED BY <1>5, <2>1, <2>2 DEF Ready
<1> QED BY <1>3, <1>5

(* The loop over the header lines.                                         *)
LEMMA ParseHeadersServes ==
  ASSUME NEW w, NEW c \in Conns, Ready(w, c), NEW p \in ParseHeaders(w, c)
  PROVE  /\ Ready(p.world, c) /\ Only(w, p.world, c)
         /\ p.rc \in {"OK", "AGAIN", "ERROR"}
         /\ p.rc # "OK" => Reading(p.world, c) /\ Punctual(p.world, c, "rev")
<1> DEFINE rb == IF w.req[c].rb = "lost" THEN w.req[c].rb ELSE "parsed"
           v == [w EXCEPT !.req[c].rb = rb]
           heads == {v} \cup HeaderHandleConnection(v, c)
           ends(x) == IF x.req[c].response_done THEN {"OK"} ELSE {"OK", "AGAIN", "ERROR"}
<1>1. CASE w.req[c].response_done
  <2>1. p = [rc |-> "OK", world |-> w]
    BY <1>1 DEF ParseHeaders
  <2>2. w \in Worlds
    BY ReadyFacts
  <2> QED BY <2>1, <2>2 DEF Only
<1>2. CASE ~w.req[c].response_done
  <2>1. p \in UNION {{[rc |-> e, world |-> x] : e \in ends(x)} : x \in heads}
    BY <1>2 DEF ParseHeaders
  <2> HIDE DEF heads
  <2>2. PICK x \in heads : p \in {[rc |-> e, world |-> x] : e \in ends(x)}
    BY <2>1
  <2>3. p.world = x /\ p.rc \in {"OK", "AGAIN", "ERROR"} /\ (x.req[c].response_done => p.rc = "OK")
    BY <2>2
  <2>4. Reading(w, c) /\ Punctual(w, c, "rev")
    BY <1>2 DEF Ready
  <2>5. Reading(v, c) /\ Punctual(v, c, "rev") /\ Only(w, v, c)
    <3>1. rb \in Fills
      BY DEF Fills
    <3> HIDE DEF rb
    <3> QED BY <2>4, <3>1, FieldsRead
  <2> HIDE DEF v
  <2>6. x = v \/ x = ConstructErr(v, c) \/ \E k \in BOOLEAN : x = [v EXCEPT !.req[c].keep_alive = k]
    BY <2>2 DEF heads, HeaderHandleConnection
  <2>7. \/ Reading(x, c) /\ Punctual(x, c, "rev") /\ Only(w, x, c)
        \/ Sending(x, c) /\ x.req[c].response_done /\ Only(w, x, c)
    <3>1. CASE x = v
      BY <2>5, <3>1
    <3>2. CASE x = ConstructErr(v, c)
      BY <2>5, <3>2, ConstructErrServes, OnlyTrans
    <3>3. ASSUME NEW k \in BOOLEAN, x = [v EXCEPT !.req[c].keep_alive = k]
          PROVE  Reading(x, c) /\ Punctual(x, c, "rev") /\ Only(w, x, c)
      <4>1. "ready" \in Fills
        BY DEF Fills
      <4>2. Reading(x, c) /\ Punctual(x, c, "rev") /\ Only(v, x, c)
        BY <2>5, <3>3, <4>1, FieldsRead
      <4> QED BY <2>5, <4>2, OnlyTrans
    <3> QED BY <2>6, <3>1, <3>2, <3>3
  <2>8. Ready(x, c) /\ Only(w, x, c)
    BY <2>7 DEF Ready
  <2>9. p.rc # "OK" => Reading(x, c) /\ Punctual(x, c, "rev")
    BY <2>3, <2>7
  <2> QED BY <2>3, <2>8, <2>9
<1> QED BY <1>1, <1>2

LEMMA HttpParseHeadersServes ==
  ASSUME NEW w, NEW c \in Conns, Ready(w, c) \/ Reading(w, c), NEW v \in HttpParseHeaders(w, c)
  PROVE  Serves(w, v, c)
<1> DEFINE next(x) == Handle(x, c, "rev", "request_handle_body")
<1>0. w.conn[c].data = c /\ c # Null /\ w.conn[c].open
  BY ReadyFacts, NullAssumption DEF Reading, Reads
<1>1. CASE w.conn[c].rev.timedout
  <2>1. v = ConstructErr(w, c)
    BY <1>0, <1>1 DEF HttpParseHeaders
  <2>2. Reading(w, c)
    BY <1>1, ReadyFacts
  <2> QED BY <2>1, <2>2, ConstructErrServes, StateServes
<1>2. CASE ~w.conn[c].rev.timedout
  <2>0. Ready(w, c)
    BY <1>2, CellTypes DEF Ready, Punctual, Reading
  <2>1. \/ v = HttpCloseRequest(w, c)
        \/ \E p \in ParseHeaders(w, c) :
             \/ p.rc = "OK" /\ v \in RequestHandleBody(next(p.world), c)
             \/ p.rc = "AGAIN" /\ v = IF p.world.conn[c].rev.timer_set THEN p.world
                                      ELSE EventAddTimer(p.world, c, "rev")
             \/ p.rc = "ERROR" /\ v = HttpCloseRequest(p.world, c)
    <3> DEFINE after(p) ==
                 CASE p.rc = "OK" -> RequestHandleBody(next(p.world), c)
                   [] p.rc = "AGAIN" -> {IF p.world.conn[c].rev.timer_set THEN p.world
                                         ELSE EventAddTimer(p.world, c, "rev")}
                   [] p.rc = "ERROR" -> {HttpCloseRequest(p.world, c)}
    <3>1. v \in BufferRecv(w, c, UNION {after(p) : p \in ParseHeaders(w, c)})
      BY <1>0, <1>2 DEF HttpParseHeaders
    <3>2. v = HttpCloseRequest(w, c) \/ \E p \in ParseHeaders(w, c) : v \in after(p)
      <4> HIDE DEF after
      <4> QED BY <3>1 DEF BufferRecv
    <3>3. SUFFICES ASSUME NEW p \in ParseHeaders(w, c), v \in after(p)
          PROVE  \/ p.rc = "OK" /\ v \in RequestHandleBody(next(p.world), c)
                 \/ p.rc = "AGAIN" /\ v = IF p.world.conn[c].rev.timer_set THEN p.world
                                          ELSE EventAddTimer(p.world, c, "rev")
                 \/ p.rc = "ERROR" /\ v = HttpCloseRequest(p.world, c)
      BY <3>2
    <3>4. p.rc \in {"OK", "AGAIN", "ERROR"}
      BY <2>0, ParseHeadersServes
    <3> HIDE DEF next
    <3>5. CASE p.rc = "OK"
      BY <3>3, <3>5
    <3>6. CASE p.rc = "AGAIN"
      BY <3>3, <3>6
    <3>7. CASE p.rc = "ERROR"
      BY <3>3, <3>7
    <3> QED BY <3>4, <3>5, <3>6, <3>7
  <2>2. CASE v = HttpCloseRequest(w, c)
    BY <2>0, <2>2, HttpCloseRequestServes DEF Ready
  <2>3. ASSUME NEW p \in ParseHeaders(w, c),
               \/ p.rc = "OK" /\ v \in RequestHandleBody(next(p.world), c)
               \/ p.rc = "AGAIN" /\ v = IF p.world.conn[c].rev.timer_set THEN p.world
                                        ELSE EventAddTimer(p.world, c, "rev")
               \/ p.rc = "ERROR" /\ v = HttpCloseRequest(p.world, c)
        PROVE  Serves(w, v, c)
    <3> DEFINE y == p.world
    <3>1. /\ Ready(y, c) /\ Only(w, y, c)
          /\ p.rc # "OK" => Reading(y, c) /\ Punctual(y, c, "rev")
      BY <2>0, ParseHeadersServes
    <3>2. CASE p.rc = "OK" /\ v \in RequestHandleBody(next(y), c)
      <4>1. Ready(next(y), c) /\ Only(y, next(y), c)
        BY <3>1, HandleReads
      <4> HIDE DEF next, y
      <4>2. Serves(next(y), v, c)
        BY <3>2, <4>1, HandleBodyServes
      <4> QED BY <3>1, <4>1, <4>2, ServesTrans, OnlyTrans
    <3>3. CASE p.rc = "AGAIN" /\ v = IF y.conn[c].rev.timer_set THEN y
                                     ELSE EventAddTimer(y, c, "rev")
      <4>1. Reading(y, c) /\ Punctual(y, c, "rev")
        BY <3>1, <3>3
      <4>2. v = y
        BY <3>3, <4>1 DEF Reading, Reads
      <4> QED BY <3>1, <4>1, <4>2, StateServes
    <3>4. CASE p.rc = "ERROR" /\ v = HttpCloseRequest(y, c)
      <4>1. Reading(y, c)
        BY <3>1, <3>4
      <4> HIDE DEF y
      <4> QED BY <3>1, <3>4, <4>1, HttpCloseRequestServes, ServesTrans
    <3> QED BY <2>3, <3>2, <3>3, <3>4
  <2> QED BY <2>1, <2>2, <2>3
<1> QED BY <1>1, <1>2

(* request_process_uri of a worker that serves files only.                 *)
LEMMA RequestProcessUriServes ==
  ASSUME "upstream" \notin Routes, NEW w, NEW c \in Conns, Reading(w, c), Punctual(w, c, "rev"),
         NEW v \in RequestProcessUri(w, c)
  PROVE  Ready(v, c) /\ Only(w, v, c)
<1> DEFINE file == [w EXCEPT !.req[c].resource = TRUE]
           kept == [file EXCEPT !.req[c].keep_alive = TRUE]
           versions(x) == {x, [x EXCEPT !.req[c].keep_alive = TRUE]}
           opened == IF FreeConns(w) = {} THEN {w}
                     ELSE {[GetIdleConnection(w, u) EXCEPT !.conn[u].data = c,
                                                           !.req[c].upstream = u] :
                             u \in FreeConns(w)}
           connect(x) == GetServerByRound(x, c)
           tried == Then(opened, connect)
           proxied == IF w.req[c].upstream # Null THEN {Crash(w)} ELSE Then(tried, versions)
           step(route) == CASE route = "upstream" -> proxied
                            [] route = "file" -> versions(file)
                            [] route = "missing" -> {ConstructErr(w, c)}
<1>1. v \in UNION {step(route) : route \in Routes}
  BY DEF RequestProcessUri
<1> HIDE DEF step
<1>2. PICK route \in Routes : v \in step(route)
  BY <1>1
<1>3. route \in {"file", "missing"}
  BY RoutesAssumption
<1> HIDE DEF proxied
<1>4. v = file \/ v = kept \/ v = ConstructErr(w, c)
  BY <1>2, <1>3 DEF step
<1>5. "ready" \in Fills
  BY DEF Fills
<1>6. Reading(file, c) /\ Punctual(file, c, "rev") /\ Only(w, file, c)
  BY <1>5, FieldsRead
<1> HIDE DEF file
<1>7. Reading(kept, c) /\ Punctual(kept, c, "rev") /\ Only(file, kept, c)
  BY <1>5, <1>6, FieldsRead
<1> HIDE DEF kept
<1> QED BY <1>4, <1>6, <1>7, ConstructErrServes, OnlyTrans DEF Ready

LEMMA ProcessRequestLineServes ==
  ASSUME "upstream" \notin Routes, NEW w, NEW c \in Conns, Reading(w, c),
         NEW v \in ProcessRequestLine(w, c)
  PROVE  Serves(w, v, c)
<1> DEFINE next(x) == Handle(x, c, "rev", "http_parse_headers")
           headers(x) == HttpParseHeaders(x, c)
           lines(x) == Then(RequestProcessUri(next(x), c), headers)
<1>0. /\ w.conn[c].data = c /\ c # Null /\ w.conn[c].open /\ w \in Worlds
      /\ w.conn[c]["rev"] = w.conn[c].rev
  BY CellTypes, NullAssumption DEF Reading, Reads, Cell
<1>1. CASE w.conn[c].rev.timedout
  <2>1. v = ConstructErr(w, c)
    BY <1>0, <1>1 DEF ProcessRequestLine
  <2> QED BY <2>1, ConstructErrServes, StateServes
<1>2. CASE ~w.conn[c].rev.timedout
  <2>0. Punctual(w, c, "rev")
    BY <1>0, <1>2 DEF Punctual
  <2>1. \/ v = HttpCloseRequest(w, c)
        \/ \E p \in ParseRequestLine(w, c) :
             \/ v \in lines(p.world)
             \/ v = EventAddTimer(p.world, c, "rev")
             \/ v = ConstructErr(p.world, c)
    <3> DEFINE after(p) ==
                 CASE p.rc = "OK" -> lines(p.world)
                   [] p.rc = "AGAIN" -> {EventAddTimer(p.world, c, "rev")}
                   [] p.rc = "ERROR" -> {ConstructErr(p.world, c)}
    <3>1. v \in BufferRecv(w, c, UNION {after(p) : p \in ParseRequestLine(w, c)})
      BY <1>0, <1>2 DEF ProcessRequestLine
    <3>2. v = HttpCloseRequest(w, c) \/ \E p \in ParseRequestLine(w, c) : v \in after(p)
      <4> HIDE DEF after
      <4> QED BY <3>1 DEF BufferRecv
    <3>3. SUFFICES ASSUME NEW p \in ParseRequestLine(w, c), v \in after(p)
          PROVE  v \in lines(p.world) \/ v = EventAddTimer(p.world, c, "rev")
                 \/ v = ConstructErr(p.world, c)
      <4> HIDE DEF after, lines
      <4> QED BY <3>2
    <3>4. p.rc \in {"OK", "AGAIN", "ERROR"}
      BY DEF ParseRequestLine
    <3> HIDE DEF lines
    <3>5. CASE p.rc = "OK"
      BY <3>3, <3>5
    <3>6. CASE p.rc = "AGAIN"
      BY <3>3, <3>6
    <3>7. CASE p.rc = "ERROR"
      BY <3>3, <3>7
    <3> QED BY <3>4, <3>5, <3>6, <3>7
  <2>2. CASE v = HttpCloseRequest(w, c)
    BY <2>2, HttpCloseRequestServes
  <2>3. ASSUME NEW p \in ParseRequestLine(w, c),
               \/ v \in lines(p.world)
               \/ v = EventAddTimer(p.world, c, "rev")
               \/ v = ConstructErr(p.world, c)
        PROVE  Serves(w, v, c)
    <3> DEFINE parsed == "parsed"
               y == p.world
               x == [w EXCEPT !.req[c].rb = parsed]
    <3>1. Reading(y, c) /\ Punctual(y, c, "rev") /\ Only(w, y, c)
      <4>1. y = x \/ y = w
        BY DEF ParseRequestLine
      <4>2. parsed \in Fills
        BY DEF Fills
      <4> HIDE DEF parsed
      <4>3. Reading(x, c) /\ Punctual(x, c, "rev") /\ Only(w, x, c)
        BY <2>0, <4>2, FieldsRead
      <4>4. Only(w, w, c)
        BY <1>0 DEF Only
      <4> QED BY <2>0, <4>1, <4>3, <4>4
    <3>2. CASE v \in lines(y)
      <4> HIDE DEF y
      <4> DEFINE n == next(y)
      <4>1. Reading(n, c) /\ Ready(n, c) /\ Only(y, n, c)
        BY <3>1, HandleReads DEF Ready
      <4>2. Punctual(n, c, "rev")
        BY <4>1, ReadyFacts DEF Punctual
      <4> HIDE DEF n, headers
      <4>3. PICK z \in RequestProcessUri(n, c) :
              v \in IF z.dead = "no" THEN headers(z) ELSE {z}
        BY <3>2 DEF Then, n
      <4>4. Ready(z, c) /\ Only(n, z, c)
        BY <4>1, <4>2, RequestProcessUriServes
      <4>5. v \in HttpParseHeaders(z, c)
        BY <4>3, <4>4, ReadyFacts DEF headers, Cell
      <4>6. Serves(z, v, c)
        BY <4>4, <4>5, HttpParseHeadersServes
      <4> QED BY <3>1, <4>1, <4>4, <4>6, ServesTrans, OnlyTrans
    <3>3. CASE v = EventAddTimer(y, c, "rev")
      <4> HIDE DEF y
      <4> QED BY <3>1, <3>3, AddTimerServes, StateServes, OnlyTrans
    <3>4. CASE v = ConstructErr(y, c)
      <4> HIDE DEF y
      <4> QED BY <3>1, <3>4, ConstructErrServes, StateServes, OnlyTrans
    <3> QED BY <2>3, <3>2, <3>3, <3>4
  <2> QED BY <2>1, <2>2, <2>3
<1> QED BY <1>1, <1>2

LEMMA DataOnly ==
  ASSUME NEW w \in Worlds, NEW c \in Conns, NEW r \in Conns \cup {Null}
  PROVE  LET v == [w EXCEPT !.conn[c].data = r]
         IN  /\ Only(w, v, c) /\ v.req = w.req
             /\ v.conn[c].inuse = w.conn[c].inuse /\ v.conn[c].open = w.conn[c].open
             /\ v.conn[c].data = r
             /\ v.conn[c].rev = w.conn[c].rev /\ v.conn[c].wev = w.conn[c].wev
<1> DEFINE v == [w EXCEPT !.conn[c].data = r]
<1>1. v \in Worlds
  BY DataSet DEF DataIs
<1>2. v.req = w.req /\ v.dead = w.dead
  BY DEF Worlds
<1>3. \A d \in Conns : d # c => v.conn[d] = w.conn[d]
  BY DEF Worlds
<1>4. /\ v.conn[c].inuse = w.conn[c].inuse /\ v.conn[c].open = w.conn[c].open
      /\ v.conn[c].data = r
      /\ v.conn[c].rev = w.conn[c].rev /\ v.conn[c].wev = w.conn[c].wev
  BY DEF Worlds, ConnType
<1> QED BY <1>1, <1>2, <1>3, <1>4 DEF Only

(* http_init_request.                                                      *)
LEMMA HttpInitRequestServes ==
  ASSUME "upstream" \notin Routes, NEW w, NEW c \in Conns, Awaiting(w, c),
         NEW v \in HttpInitRequest(w, c)
  PROVE  Serves(w, v, c)
<1> DEFINE x == w.conn[c]
           q == [ZeroReq EXCEPT !.live = TRUE, !.connection = c]
           a == [w EXCEPT !.conn[c].data = c]
           b == [a EXCEPT !.req[c] = q]
           z == Handle(b, c, "rev", "ngx_http_process_request_line")
           m == Hooked(x.rev, "ngx_http_process_request_line")
<1>0. /\ w \in Worlds /\ Cell(w, c) /\ x.inuse /\ w.req[c].upstream = Null /\ PageEnds(w.req[c])
      /\ x.open /\ x.connected /\ x.data = Null /\ x.rev.active /\ x.rev.timer_set /\ Blank(x.wev)
      /\ c # Null /\ x["rev"] = x.rev /\ x.rev \in EventType /\ x.wev \in EventType
      /\ "rev" \in Kinds /\ "ngx_http_process_request_line" \in ReadHandlers \cup WriteHandlers
  BY CellTypes, NullAssumption DEF Awaiting, Awaits, Cell, Kinds, ReadHandlers
<1>1. CASE x.rev.timedout
  <2>1. v = HttpCloseConnection(w, c)
    BY <1>1 DEF HttpInitRequest
  <2> QED BY <1>0, <2>1, CloseServes DEF Serves, Served
<1>2. CASE ~x.rev.timedout
  <2>1. v \in ProcessRequestLine(z, c)
    <3>1. [w EXCEPT !.conn[c].data = c, !.req[c] = q] = b
      BY <1>0 DEF Worlds
    <3> QED BY <1>2, <3>1 DEF HttpInitRequest
  <2>2. /\ q \in ReqType /\ q.connection = c /\ q.upstream = Null /\ ~q.response_done
        /\ q.sb = {}
    BY ZeroReqType DEF ZeroReq, ReqType
  <2> HIDE DEF q
  <2>3. /\ Only(w, a, c) /\ a.conn[c].inuse /\ a.conn[c].open /\ a.conn[c].data = c
        /\ a.conn[c].rev = x.rev /\ a.conn[c].wev = x.wev
    <3>0. c \in Conns \cup {Null}
      OBVIOUS
    <3>1. /\ Only(w, a, c) /\ a.conn[c].inuse = w.conn[c].inuse
          /\ a.conn[c].open = w.conn[c].open /\ a.conn[c].data = c
          /\ a.conn[c].rev = w.conn[c].rev /\ a.conn[c].wev = w.conn[c].wev
      <4> HIDE DEF x
      <4> QED BY <1>0, <3>0, DataOnly
    <3> HIDE DEF a
    <3> QED BY <1>0, <3>1
  <2> HIDE DEF a
  <2>4. Asks(a, b, c, q)
    BY <2>2, <2>3, RequestAsks DEF Only
  <2> HIDE DEF b
  <2>5. /\ Only(w, b, c) /\ b.conn[c] = a.conn[c] /\ b.req[c] = q /\ Cell(b, c)
    <3>1. Only(w, b, c) /\ b.conn[c] = a.conn[c] /\ b.req[c] = q
      BY <2>3, <2>4, OnlyTrans DEF Asks
    <3> QED BY <1>0, <2>2, <2>3, <3>1 DEF Cell, Only
  <2>6. b \in Worlds /\ b.conn[c]["rev"] = x.rev
    BY <2>3, <2>5, CellTypes DEF Cell
  <2>7. Makes(b, z, c, "rev", m)
    BY <1>0, <2>6, HandleMakes
  <2> HIDE DEF z
  <2>8. Becomes(b, z, c, m, x.wev)
    BY <2>3, <2>5, <2>7 DEF Makes
  <2>9. Cell(z, c) /\ Only(w, z, c)
    BY <2>5, <2>8, CellKept, OnlyTrans
  <2>10. /\ z.conn[c].rev = m /\ z.conn[c].wev = x.wev /\ z.req[c] = q
         /\ z.conn[c].open /\ z.conn[c].data = c
    BY <2>3, <2>5, <2>8 DEF Becomes, Plain
  <2>11. m.handler = "ngx_http_process_request_line" /\ m.active = x.rev.active
         /\ m.timer_set = x.rev.timer_set
    BY HookedFields
  <2> HIDE DEF m, x
  <2>12. Reading(z, c)
    BY <1>0, <2>2, <2>9, <2>10, <2>11 DEF Reading, Reads
  <2> QED BY <2>1, <2>9, <2>12, ProcessRequestLineServes, ServesTrans
<1> QED BY <1>1, <1>2

(* The call ev->handler(ev).                                               *)
Due(w, c, k) ==
  \/ k = "rev" /\ (Awaiting(w, c) \/ Reading(w, c))
  \/ k = "wev" /\ Sending(w, c)

LEMMA CallServes ==
  ASSUME "upstream" \notin Routes, NEW w, NEW c \in Conns, NEW k, Due(w, c, k),
         NEW v \in Call(w, c, k)
  PROVE  Serves(w, v, c) /\ w.conn[c][k].handler # Null
<1> DEFINE h == w.conn[c][k].handler
<1>1. CASE k = "rev" /\ Awaiting(w, c)
  <2>1. h = "http_init_request"
    BY <1>1, CellTypes DEF Awaiting, Awaits
  <2>2. v \in HttpInitRequest(w, c)
    BY <2>1 DEF Call
  <2> QED BY <1>1, <2>1, <2>2, HttpInitRequestServes, NullAssumption DEF ReadHandlers
<1>2. CASE k = "rev" /\ Reading(w, c)
  <2>1. h \in {"ngx_http_process_request_line", "http_parse_headers", "request_handle_body"}
    BY <1>2, CellTypes DEF Reading, Reads
  <2>2. h # Null
    BY <2>1, NullAssumption DEF ReadHandlers
  <2>3. CASE h = "ngx_http_process_request_line"
    <3>1. v \in ProcessRequestLine(w, c)
      BY <2>3 DEF Call
    <3> QED BY <1>2, <2>2, <3>1, ProcessRequestLineServes
  <2>4. CASE h = "http_parse_headers"
    <3>1. v \in HttpParseHeaders(w, c)
      BY <2>4 DEF Call
    <3> QED BY <1>2, <2>2, <3>1, HttpParseHeadersServes
  <2>5. CASE h = "request_handle_body"
    <3>1. v \in RequestHandleBody(w, c)
      BY <2>5 DEF Call
    <3> QED BY <1>2, <2>2, <3>1, HandleBodyServes
  <2> QED BY <2>1, <2>3, <2>4, <2>5
<1>3. CASE k = "wev" /\ Sending(w, c)
  <2>1. h \in {"handle_response", "handle_response_file"}
    BY <1>3, CellTypes DEF Sending, Sends
  <2>2. h # Null
    BY <2>1, NullAssumption DEF WriteHandlers
  <2>3. CASE h = "handle_response"
    <3>1. v \in HandleResponse(w, c)
      BY <2>3 DEF Call
    <3> QED BY <1>3, <2>2, <3>1, HandleResponseServes
  <2>4. CASE h = "handle_response_file"
    <3>1. v \in HandleResponseFile(w, c)
      BY <2>4 DEF Call
    <3> QED BY <1>3, <2>2, <3>1, FileServes
  <2> QED BY <2>1, <2>3, <2>4
<1> QED BY <1>1, <1>2, <1>3 DEF Due

-----------------------------------------------------------------------------
(***************************************************************************)
(* event_accept and clear_idle_connections.                                *)
(***************************************************************************)
LEMMA InitConnectionServes ==
  ASSUME NEW w \in Worlds, NEW c \in Conns, w.req[c].upstream = Null, PageEnds(w.req[c])
  PROVE  Serves(w, InitConnection(w, c), c)
<1> DEFINE x == [ZeroConn EXCEPT !.inuse = TRUE, !.open = TRUE, !.connected = TRUE]
           h == "http_init_request"
           n == [w EXCEPT !.conn[c] = x]
           d == Handle(n, c, "rev", h)
           t == EventAddTimer(d, c, "rev")
           z == KqueueAddEvent(t, c, "rev")
           m1 == Hooked(x.rev, h)
           m2 == Timed(m1)
           m3 == Added(m2)
<1>1. /\ x \in ConnType /\ x.inuse /\ x.open /\ x.connected /\ x.data = Null
      /\ x.rev = ZeroEvent /\ x.wev = ZeroEvent
  BY DEF ZeroConn, ConnType, ZeroEvent, EventType
<1>2. InitConnection(w, c) = z
  <2>1. [GetIdleConnection(w, c) EXCEPT !.conn[c].open = TRUE, !.conn[c].connected = TRUE] = n
    BY DEF GetIdleConnection, Worlds, ZeroConn
  <2> HIDE DEF n
  <2> QED BY <2>1 DEF InitConnection
<1>3. h \in ReadHandlers \cup WriteHandlers /\ "rev" \in Kinds
  BY DEF ReadHandlers, Kinds
<1> HIDE DEF x, h
<1>4. n \in Worlds /\ n.conn[c] = x /\ Only(w, n, c) /\ n.req[c] = w.req[c]
  <2>1. n \in Worlds
    BY <1>1, ConnSet
  <2> QED BY <2>1 DEF Only, Worlds
<1>5. n.conn[c]["rev"] = x.rev
  BY <1>1, <1>4 DEF ConnType
<1> HIDE DEF n
<1>6. Makes(n, d, c, "rev", m1)
  BY <1>3, <1>4, <1>5, HandleMakes
<1> HIDE DEF d
<1>7. d \in Worlds /\ d.conn[c]["rev"] = m1
  BY <1>3, <1>6, MakesAt
<1> HIDE DEF m1
<1>8. Makes(d, t, c, "rev", m2)
  BY <1>3, <1>7, AddTimerMakes
<1> HIDE DEF t
<1>9. t \in Worlds /\ t.conn[c]["rev"] = m2
  BY <1>3, <1>8, MakesAt
<1> HIDE DEF m2
<1>10. Makes(t, z, c, "rev", m3)
  BY <1>3, <1>9, AddEventMakes
<1> HIDE DEF z, m3
<1>11. Makes(n, z, c, "rev", m3)
  BY <1>3, <1>6, <1>8, <1>10, MakesTrans
<1>12. /\ Only(w, z, c) /\ z.req[c] = w.req[c] /\ z.conn[c].rev = m3 /\ z.conn[c].wev = ZeroEvent
       /\ z.conn[c].open /\ z.conn[c].connected /\ z.conn[c].data = Null
  BY <1>1, <1>4, <1>11, OnlyTrans DEF Makes, Becomes, Plain
<1>13. m3.handler = h /\ m3.active /\ m3.timer_set /\ ~m3.timedout
  <2>1. m1.handler = h /\ m1.active = FALSE /\ m1.timer_set = FALSE /\ m1.timedout = FALSE
    BY <1>1, HookedFields DEF m1, ZeroEvent
  <2>2. m2.handler = h /\ m2.timer_set /\ ~m2.timedout
    BY <2>1 DEF m2, Timed, Mark
  <2> QED BY <2>2 DEF m3, Added, Mark
<1>14. Blank(ZeroEvent)
  BY DEF Blank, ZeroEvent
<1> QED BY <1>2, <1>12, <1>13, <1>14 DEF Serves, Served, Awaits, h

(* The state of a connection, before and after the worker is told to quit. *)
Settled(w, c, quit) ==
  \/ Served(w.conn[c], w.req[c], c)
  \/ quit /\ Cut(w.conn[c], w.req[c])

Kept(w, v, c) == v.conn[c] = w.conn[c] /\ v.req[c] = w.req[c]

AcceptedAll(w, v, S) ==
  /\ v \in Worlds /\ v.dead = w.dead
  /\ \A d \in Conns : IF d \in S THEN Served(v.conn[d], v.req[d], d) ELSE Kept(w, v, d)

LEMMA AcceptServes ==
  ASSUME NEW w \in Worlds, NEW S \in SUBSET Conns, NEW quit, \A c \in Conns : Settled(w, c, quit)
  PROVE  AcceptedAll(w, FoldSet(LAMBDA c, x : InitConnection(x, c), w, S), S)
<1> DEFINE v == FoldSet(LAMBDA c, x : InitConnection(x, c), w, S)
<1>1. IsFiniteSet(S)
  BY ConnsAssumption, FS_Subset
<1>0. PICK f : IsFold(TRUE, w, S, f) /\ v = f[S]
  BY <1>1, AcceptFold
<1> HIDE DEF v
<1>2. v = f[S] /\ Unfolds(TRUE, w, S, f)
  BY <1>0, FoldAt
<1> DEFINE P == {s \in SUBSET S : AcceptedAll(w, f[s], s)}
<1>3. {} \in P
  BY <1>2 DEF Unfolds, AcceptedAll, Kept
<1>4. ASSUME NEW s \in SUBSET S, s # {}, s \ {First(s)} \in P PROVE s \in P
  <2> DEFINE c == First(s)
             r == s \ {c}
  <2>1. c \in s /\ c \in Conns
    BY <1>1, <1>4, Less
  <2>2. AcceptedAll(w, f[r], r)
    BY <1>4
  <2>3. f[s] = InitConnection(f[r], c)
    BY <1>2, <1>4 DEF Unfolds, Applied
  <2> HIDE DEF c
  <2>4. f[r] \in Worlds /\ f[r].req[c].upstream = Null /\ PageEnds(f[r].req[c])
    BY <2>1, <2>2 DEF AcceptedAll, Kept, Settled, Served, Cut
  <2>5. Serves(f[r], f[s], c)
    BY <2>1, <2>3, <2>4, InitConnectionServes
  <2>6. s = r \cup {c}
    BY <2>1
  <2>7. AcceptedAll(w, f[s], s)
    <3> HIDE DEF r
    <3> QED BY <2>2, <2>5, <2>6 DEF AcceptedAll, Serves, Only, Kept
  <2> QED BY <2>7
<1> HIDE DEF P
<1>5. S \in P
  BY <1>1, <1>3, <1>4, FoldInduction
<1>6. AcceptedAll(w, v, S)
  BY <1>2, <1>5 DEF P
<1> QED BY <1>6 DEF v

(* A connection that is closed, or that http_close_connection leaves.      *)
Closed(v, c) == ~v.conn[c].inuse /\ v.req[c].upstream = Null /\ PageEnds(v.req[c])

ClosedAll(w, v, S) ==
  /\ v \in Worlds /\ v.dead = w.dead
  /\ \A d \in Conns : Kept(w, v, d) \/ (d \in S /\ Closed(v, d))

LEMMA CloseSettled ==
  ASSUME NEW w \in Worlds, NEW c \in Conns, w.conn[c].inuse, Settled(w, c, TRUE)
  PROVE  LET v == HttpCloseConnection(w, c)
         IN  Only(w, v, c) /\ (Kept(w, v, c) \/ Closed(v, c))
<1>1. \/ w.conn[c].data = c /\ w.req[c].connection = c
      \/ w.conn[c].data = Null
  BY DEF Settled, Served, Cut, Awaits, Reads, Sends
<1>2. w.req[c].upstream = Null /\ PageEnds(w.req[c])
  BY DEF Settled, Served, Cut
<1>3. CASE w.conn[c].data = Null /\ ~w.conn[c].connected
  <2>1. HttpCloseConnection(w, c) = w
    BY <1>3 DEF HttpCloseConnection
  <2> QED BY <2>1 DEF Only, Kept
<1>4. CASE ~(w.conn[c].data = Null /\ ~w.conn[c].connected)
  BY <1>1, <1>2, <1>4, CloseServes DEF Closed
<1> QED BY <1>3, <1>4

LEMMA ClearServes ==
  ASSUME NEW w, Sound(w), \A c \in Conns : Settled(w, c, TRUE)
  PROVE  LET v == ClearIdleConnections(w)
         IN  v \in Worlds /\ v.dead = w.dead /\ \A c \in Conns : Settled(v, c, TRUE)
<1> DEFINE S == {c \in Conns : w.conn[c].open /\ w.conn[c].idle}
           v == FoldSet(LAMBDA c, x : HttpCloseConnection(x, c), w, S)
           new(c) == [v.conn[c] EXCEPT !.data = Null]
           f == [c \in Conns |-> new(c)]
           z == [v EXCEPT !.conn = f]
<1>1. IsFiniteSet(S) /\ S \subseteq Conns /\ w \in Worlds
  BY ConnsAssumption, FS_Subset DEF Sound
<1>2. ClearIdleConnections(w) = z
  BY DEF ClearIdleConnections
<1>3. \A c \in S : w.conn[c].inuse
  BY DEF Sound, Watched, Opened, Used
<1> HIDE DEF S, v
<1>4. ClosedAll(w, v, S)
  <2>0. PICK g : IsFold(FALSE, w, S, g) /\ v = g[S]
    BY <1>1, CloseFold DEF v
  <2>1. v = g[S] /\ Unfolds(FALSE, w, S, g)
    BY <2>0, FoldAt
  <2> DEFINE P == {s \in SUBSET S : ClosedAll(w, g[s], s)}
  <2>2. {} \in P
    BY <1>1, <2>1 DEF Unfolds, ClosedAll, Kept
  <2>3. ASSUME NEW s \in SUBSET S, s # {}, s \ {First(s)} \in P PROVE s \in P
    <3> DEFINE c == First(s)
               r == s \ {c}
    <3>1. c \in s /\ c \in Conns /\ c \in S
      BY <1>1, <2>3, Less
    <3>2. ClosedAll(w, g[r], r)
      BY <2>3
    <3>3. g[s] = HttpCloseConnection(g[r], c)
      BY <2>1, <2>3 DEF Unfolds, Applied
    <3> HIDE DEF c
    <3>4. g[r] \in Worlds /\ Kept(w, g[r], c)
      BY <3>1, <3>2 DEF ClosedAll
    <3>5. g[r].conn[c].inuse /\ Settled(g[r], c, TRUE)
      BY <1>3, <3>1, <3>4 DEF Kept, Settled
    <3>6. Only(g[r], g[s], c) /\ (Kept(g[r], g[s], c) \/ Closed(g[s], c))
      BY <3>1, <3>3, <3>4, <3>5, CloseSettled
    <3>7. s = r \cup {c} /\ c \notin r
      BY <3>1
    <3> HIDE DEF r
    <3>8. ASSUME NEW d \in Conns PROVE Kept(w, g[s], d) \/ (d \in s /\ Closed(g[s], d))
      <4>1. CASE d = c
        BY <3>1, <3>4, <3>6, <4>1 DEF Kept
      <4>2. CASE d # c
        <5>1. g[s].conn[d] = g[r].conn[d] /\ g[s].req[d] = g[r].req[d]
          BY <3>6, <4>2 DEF Only
        <5>2. Kept(w, g[r], d) \/ (d \in r /\ Closed(g[r], d))
          BY <3>2 DEF ClosedAll
        <5> QED BY <3>7, <5>1, <5>2 DEF Kept, Closed
      <4> QED BY <4>1, <4>2
    <3>9. ClosedAll(w, g[s], s)
      BY <3>2, <3>6, <3>8 DEF ClosedAll, Only
    <3> QED BY <3>9
  <2> HIDE DEF P
  <2>4. S \in P
    BY <1>1, <2>2, <2>3, FoldInduction
  <2> QED BY <2>1, <2>4 DEF P
<1>5. v \in Worlds /\ v.dead = w.dead /\ \A c \in Conns : v.conn[c] \in ConnType
  BY <1>4 DEF ClosedAll, Worlds
<1>6. ASSUME NEW c \in Conns
      PROVE  /\ new(c) \in ConnType /\ new(c).data = Null
             /\ new(c).inuse = v.conn[c].inuse /\ new(c).open = v.conn[c].open
             /\ new(c).connected = v.conn[c].connected
             /\ new(c).rev = v.conn[c].rev /\ new(c).wev = v.conn[c].wev
  BY <1>5 DEF ConnType
<1> HIDE DEF new
<1>7. f \in [Conns -> ConnType]
  BY <1>6
<1>8. \A c \in Conns : f[c] = new(c)
  OBVIOUS
<1> HIDE DEF f
<1>9. z \in Worlds /\ z.conn = f /\ z.req = v.req /\ z.dead = v.dead
  BY <1>5, <1>7 DEF Worlds
<1> HIDE DEF z
<1>10. ASSUME NEW c \in Conns PROVE Settled(z, c, TRUE)
  <2> DEFINE x == v.conn[c]
             y == z.conn[c]
             q == z.req[c]
  <2>1. /\ y.data = Null /\ y.inuse = x.inuse /\ y.open = x.open /\ y.connected = x.connected
        /\ y.rev = x.rev /\ y.wev = x.wev /\ q = v.req[c]
    BY <1>6, <1>8, <1>9
  <2> HIDE DEF x, y, q
  <2>2. CASE Kept(w, v, c)
    <3>1. x = w.conn[c] /\ q = w.req[c]
      BY <2>1, <2>2 DEF Kept, x
    <3>2. Served(x, q, c) \/ Cut(x, q)
      BY <3>1 DEF Settled
    <3>3. q.upstream = Null /\ PageEnds(q)
      BY <3>2 DEF Served, Cut
    <3>4. CASE x.data # Null
      <4>1. Hdl(w)[<<c, "rev">>] # "http_init_request"
        BY <3>1, <3>4 DEF Sound, Links, Data
      <4>2. x.rev.handler # "http_init_request"
        <5>1. <<c, "rev">> \in Events /\ w.conn[c]["rev"] = w.conn[c].rev
          BY <1>1 DEF Events, Kinds, Worlds, ConnType
        <5> QED BY <3>1, <4>1, <5>1 DEF Hdl, Ev
      <4>3. y.inuse => Cut(y, q)
        BY <2>1, <3>3, <4>2 DEF Cut
      <4>4. ~y.inuse => Served(y, q, c)
        BY <3>3 DEF Served
      <4> QED BY <4>3, <4>4 DEF Settled, y, q
    <3>5. CASE x.data = Null
      <4>1. y.inuse /\ Cut(x, q) => Cut(y, q)
        BY <2>1 DEF Cut
      <4>2. Served(x, q, c) => Served(y, q, c)
        <5>1. c # Null
          BY NullAssumption
        <5> QED BY <2>1, <3>5, <5>1 DEF Served, Awaits, Reads, Sends
      <4>3. ~y.inuse => Served(y, q, c)
        BY <3>3 DEF Served
      <4> QED BY <3>2, <4>1, <4>2, <4>3 DEF Settled, y, q
    <3> QED BY <3>4, <3>5
  <2>3. CASE Closed(v, c)
    <3>1. Served(y, q, c)
      BY <2>1, <2>3 DEF Served, Closed, x
    <3> QED BY <3>1 DEF Settled, y, q
  <2> QED BY <1>4, <2>2, <2>3 DEF ClosedAll
<1>11. z \in Worlds /\ z.dead = w.dead /\ \A c \in Conns : Settled(z, c, TRUE)
  BY <1>5, <1>9, <1>10
<1> QED BY <1>2, <1>11

-----------------------------------------------------------------------------
(***************************************************************************)
(* Every step of the loop.                                                 *)
(***************************************************************************)
LEMMA DueHandler ==
  ASSUME NEW w, NEW c \in Conns, NEW k, Due(w, c, k)
  PROVE  w.conn[c][k].handler # Null
BY CellTypes, NullAssumption
   DEF Due, Awaiting, Awaits, Reading, Reads, Sending, Sends, ReadHandlers, WriteHandlers

(* A callback of a connection that was cut off returns or dies.            *)
LEMMA CutCall ==
  ASSUME NEW w \in Worlds, NEW c \in Conns, NEW k \in Kinds, w.conn[c].data = Null,
         w.conn[c][k].handler \notin {Null, "http_init_request"}, NEW v \in Call(w, c, k)
  PROVE  v = w \/ v = Crash(w)
<1> DEFINE h == w.conn[c][k].handler
<1>1. h \in ReadHandlers \cup WriteHandlers
  BY EvType DEF EventType
<1>2. \/ h = "ngx_http_process_request_line" /\ v \in ProcessRequestLine(w, c)
      \/ h = "http_parse_headers" /\ v \in HttpParseHeaders(w, c)
      \/ h = "request_handle_body" /\ v \in RequestHandleBody(w, c)
      \/ h = "http_recv_upstream" /\ v \in HttpRecvUpstream(w, c)
      \/ h = "handle_response" /\ v \in HandleResponse(w, c)
      \/ h = "handle_response_file" /\ v \in HandleResponseFile(w, c)
      \/ h = "process_connection_result_of_upstream" /\ v \in ProcessConnectionResult(w, c)
      \/ h = "http_proxy_pass" /\ v \in HttpProxyPass(w, c)
  BY <1>1 DEF Call, ReadHandlers, WriteHandlers
<1>3. v \in ProcessRequestLine(w, c) => v = w \/ v = Crash(w)
  BY DEF ProcessRequestLine
<1>4. v \in HttpParseHeaders(w, c) => v = w \/ v = Crash(w)
  BY DEF HttpParseHeaders
<1>5. v \in RequestHandleBody(w, c) => v = w \/ v = Crash(w)
  BY DEF RequestHandleBody
<1>6. v \in HttpRecvUpstream(w, c) => v = w \/ v = Crash(w)
  BY DEF HttpRecvUpstream
<1>7. v \in HandleResponse(w, c) => v = w \/ v = Crash(w)
  BY DEF HandleResponse
<1>8. v \in HandleResponseFile(w, c) => v = w \/ v = Crash(w)
  BY DEF HandleResponseFile
<1>9. v \in ProcessConnectionResult(w, c) => v = w \/ v = Crash(w)
  BY DEF ProcessConnectionResult
<1>10. v \in HttpProxyPass(w, c) => v = w \/ v = Crash(w)
  BY DEF HttpProxyPass
<1> QED BY <1>2, <1>3, <1>4, <1>5, <1>6, <1>7, <1>8, <1>9, <1>10

LEMMA CrashKeeps ==
  ASSUME NEW w \in Worlds
  PROVE  Crash(w).conn = w.conn /\ Crash(w).req = w.req /\ Crash(w).kq = w.kq
BY DEF Crash, Worlds

LEMMA ServesAll ==
  ASSUME NEW w, NEW v, NEW c \in Conns, Serves(w, v, c), NEW quit,
         \A d \in Conns : Settled(w, d, quit)
  PROVE  \A d \in Conns : Settled(v, d, quit)
BY DEF Serves, Only, Settled

LEMMA InitFiles == Init => Files
<1> SUFFICES ASSUME Init PROVE Files
  OBVIOUS
<1>1. world.dead = "no" /\ batch = {}
  BY DEF Init, InitWorld
<1>2. ASSUME NEW c \in Conns PROVE Served(world.conn[c], world.req[c], c)
  <2>1. world.conn[c] = ZeroConn /\ world.req[c] = ZeroReq
    BY DEF Init, InitWorld
  <2>2. ZeroConn.inuse = FALSE /\ ZeroReq.upstream = Null /\ PageEnds(ZeroReq)
    BY DEF ZeroConn, ZeroReq, PageEnds
  <2> QED BY <2>1, <2>2 DEF Served
<1> QED BY <1>1, <1>2 DEF Files

LEMMA PollFiles ==
  ASSUME IInv, Files, Poll
  PROVE  Files'
<1> DEFINE w == IF exiting THEN ClearIdleConnections(world) ELSE world
           x == [w EXCEPT !.dead = "exit"]
<1>0. Sound(world) /\ exiting \in BOOLEAN /\ exiting' = exiting /\ world.dead = "no"
  BY DEF IInv, Poll, Alive
<1>1. \A c \in Conns : Settled(world, c, exiting)
  BY DEF Files, Settled
<1>2. w \in Worlds /\ w.dead = "no" /\ \A c \in Conns : Settled(w, c, exiting)
  <2>1. CASE exiting
    BY <1>0, <1>1, <2>1, ClearServes
  <2>2. CASE ~exiting
    BY <1>0, <1>1, <2>2 DEF Sound
  <2> QED BY <2>1, <2>2
<1> HIDE DEF w
<1>3. x.conn = w.conn /\ x.req = w.req
  BY <1>2 DEF Worlds
<1>4. \/ exiting /\ world' = x /\ batch' = {}
      \/ world' = w /\ batch' \in SUBSET (w.kq \cup {Listen})
  BY DEF Poll, w
<1> HIDE DEF x
<1>5. world'.conn = w.conn /\ world'.req = w.req /\ batch' \subseteq world'.kq \cup {Listen}
      /\ (~exiting => world'.dead = "no")
  BY <1>2, <1>3, <1>4
<1>6. \A c \in Conns : Settled(w, c, exiting)
  BY <1>2
<1> QED BY <1>0, <1>5, <1>6 DEF Files, Settled

(* An event of the batch that is watched before the call is watched after  *)
(* it, unless it is one of the connection that is called.                  *)
LEMMA StillWatched ==
  ASSUME NEW w, Sound(w), NEW v, Sound(v), NEW c, Only(w, v, c),
         NEW e \in w.kq, e[1] # c
  PROVE  e \in v.kq
<1>1. e \in Act(w) /\ e \in Events /\ e[1] \in Conns
  BY DEF Sound, Watched, Act, Events
<1>2. Ev(v, e) = Ev(w, e)
  BY <1>1 DEF Only, Ev
<1> QED BY <1>1, <1>2 DEF Sound, Watched, Act

LEMMA DispatchFiles ==
  ASSUME "upstream" \notin Routes, IInv, IInv', Files, Dispatch
  PROVE  Files'
<1>1. PICK e \in batch \ {Listen} :
        /\ batch' = batch \ {e}
        /\ IF world.conn[e[1]][e[2]].handler = Null THEN world' = world
           ELSE world' \in Call(world, e[1], e[2])
  BY DEF Dispatch
<1>2. /\ Sound(world) /\ Sound(world') /\ world \in Worlds /\ world.dead = "no"
      /\ exiting' = exiting /\ exiting \in BOOLEAN /\ batch \subseteq world.kq \cup {Listen}
      /\ \A d \in Conns : Settled(world, d, exiting)
  BY DEF IInv, Sound, Dispatch, Alive, Files, Settled
<1>3. e \in Act(world) /\ e \in world.kq
  BY <1>1, <1>2 DEF Sound, Watched
<1>4. PICK c \in Conns, k \in Kinds : e = <<c, k>>
  BY <1>3 DEF Act, Events
<1>5. /\ world.conn[c][k].active /\ world.conn[c].inuse
      /\ world.conn[c]["rev"] = world.conn[c].rev /\ world.conn[c]["wev"] = world.conn[c].wev
  <2>1. c \in Used(world)
    BY <1>2, <1>3, <1>4 DEF Sound, Watched
  <2>2. world.conn[c][k].active
    BY <1>3, <1>4 DEF Act, Ev
  <2> QED BY <1>2, <2>1, <2>2 DEF Used, Worlds, ConnType
<1>6. IF world.conn[c][k].handler = Null THEN world' = world ELSE world' \in Call(world, c, k)
  BY <1>1, <1>4
<1>7. CASE Served(world.conn[c], world.req[c], c)
  <2>1. Due(world, c, k)
    BY <1>2, <1>5, <1>7 DEF Due, Kinds, Served, Awaiting, Awaits, Reading, Reads, Sending, Sends,
       Blank, Cell
  <2>2. Serves(world, world', c)
    BY <1>6, <2>1, DueHandler, CallServes
  <2>3. \A d \in Conns : Settled(world', d, exiting)
    BY <1>2, <2>2, ServesAll
  <2>4. ASSUME NEW x \in batch', x # Listen PROVE x \in world'.kq
    <3>1. x \in batch /\ x # e /\ x \in world.kq
      BY <1>1, <1>2, <2>4
    <3>2. PICK d \in Conns, j \in Kinds : x = <<d, j>>
      BY <1>2, <3>1 DEF Worlds, Events
    <3>3. d # c
      <4>1. SUFFICES ASSUME d = c PROVE FALSE
        OBVIOUS
      <4>2. j # k /\ world.conn[c][j].active
        BY <1>2, <1>4, <3>1, <3>2, <4>1 DEF Sound, Watched, Act, Ev
      <4>3. world.conn[c].rev.active /\ world.conn[c].wev.active
        BY <1>5, <4>2 DEF Kinds
      <4> QED BY <1>5, <1>7, <4>3 DEF Served, Awaits, Reads, Sends, Blank
    <3>4. x[1] # c
      BY <3>2, <3>3
    <3> QED BY <1>2, <2>2, <3>1, <3>4, StillWatched DEF Serves
  <2> QED BY <1>2, <2>2, <2>3, <2>4 DEF Files, Settled, Serves, Only
<1>8. CASE exiting /\ Cut(world.conn[c], world.req[c])
  <2>1. world' = world \/ world' = Crash(world)
    <3>1. CASE world.conn[c][k].handler = Null
      BY <1>6, <3>1
    <3>2. CASE world.conn[c][k].handler # Null
      <4>1. world.conn[c][k].handler # "http_init_request"
        <5>1. Hdl(world)[<<c, "wev">>] = world.conn[c]["wev"].handler
          BY DEF Hdl, Ev, Events, Kinds
        <5>2. world.conn[c]["wev"].handler # "http_init_request"
          BY <1>2, <5>1, NullAssumption DEF Sound, Handlers, ReadHandlers, WriteHandlers
        <5> QED BY <1>5, <1>8, <5>2 DEF Cut, Kinds
      <4> QED BY <1>2, <1>6, <1>8, <3>2, <4>1, CutCall DEF Cut
    <3> QED BY <3>1, <3>2
  <2>2. world'.conn = world.conn /\ world'.req = world.req /\ world'.kq = world.kq
    BY <1>2, <2>1, CrashKeeps
  <2> QED BY <1>1, <1>2, <1>8, <2>2 DEF Files, Settled
<1> QED BY <1>2, <1>7, <1>8 DEF Settled

LEMMA AcceptFiles ==
  ASSUME IInv, IInv', Files, Accept
  PROVE  Files'
<1>1. PICK S \in SUBSET FreeConns(world) :
        world' = FoldSet(LAMBDA c, w : InitConnection(w, c), world, S)
  BY DEF Accept
<1>2. /\ Sound(world) /\ Sound(world') /\ world \in Worlds /\ world.dead = "no"
      /\ exiting' = exiting /\ exiting \in BOOLEAN /\ batch \subseteq world.kq \cup {Listen}
      /\ batch' \subseteq batch
      /\ \A d \in Conns : Settled(world, d, exiting)
  BY DEF IInv, Sound, Accept, Alive, Files, Settled
<1>3. S \in SUBSET Conns
  BY DEF FreeConns
<1>4. AcceptedAll(world, world', S)
  BY <1>1, <1>2, <1>3, AcceptServes
<1>5. \A c \in Conns : Settled(world', c, exiting)
  BY <1>2, <1>4 DEF AcceptedAll, Kept, Settled
<1>6. ASSUME NEW x \in batch', x # Listen PROVE x \in world'.kq
  <2>1. x \in world.kq /\ x \in Act(world)
    BY <1>2, <1>6 DEF Sound, Watched
  <2>2. x[1] \in Used(world) /\ x[1] \in Conns /\ x \in Events
    BY <1>2, <2>1 DEF Sound, Watched, Act, Events
  <2>3. x[1] \notin S
    BY <2>2 DEF FreeConns, Used
  <2>4. Ev(world', x) = Ev(world, x)
    BY <1>4, <2>2, <2>3 DEF AcceptedAll, Kept, Ev
  <2> QED BY <1>2, <2>1, <2>2, <2>4 DEF Sound, Watched, Act
<1> QED BY <1>2, <1>4, <1>5, <1>6 DEF Files, Settled, AcceptedAll

LEMMA ExpireFiles ==
  ASSUME "upstream" \notin Routes, IInv, Files, Expire
  PROVE  Files'
<1>1. PICK e \in world.tree :
        LET w == Expired(world, e[1], e[2])
        IN  IF w.conn[e[1]][e[2]].handler = Null THEN world' = Crash(w)
            ELSE world' \in Call(w, e[1], e[2])
  BY DEF Expire
<1>2. /\ Sound(world) /\ world \in Worlds /\ world.dead = "no"
      /\ exiting' = exiting /\ exiting \in BOOLEAN /\ batch' = {}
      /\ \A d \in Conns : Settled(world, d, exiting)
  BY DEF IInv, Sound, Expire, Alive, Files, Settled
<1>3. e \in TimerSet(world) /\ e[1] \in Used(world)
  BY <1>1, <1>2 DEF Sound, Timers
<1>4. PICK c \in Conns, k \in Kinds : e = <<c, k>>
  BY <1>3 DEF TimerSet, Events
<1> DEFINE w == Expired(world, c, k)
           x == world.conn[c]
           y == w.conn[c]
<1>5. IF w.conn[c][k].handler = Null THEN world' = Crash(w) ELSE world' \in Call(w, c, k)
  BY <1>1, <1>4
<1>6. /\ x[k].timer_set /\ x.inuse /\ x["rev"] = x.rev /\ x["wev"] = x.wev
      /\ x.rev \in EventType /\ x.wev \in EventType
  BY <1>2, <1>3, <1>4 DEF Used, TimerSet, Ev, Worlds, ConnType
<1>7. Makes(world, w, c, k, Late(x[k]))
  BY <1>2, ExpiredMakes
<1> HIDE DEF w
<1>8. /\ Only(world, w, c) /\ w \in Worlds /\ w.dead = "no" /\ w.req[c] = world.req[c]
      /\ y.inuse /\ y.open = x.open /\ y.connected = x.connected /\ y.data = x.data
  BY <1>2, <1>6, <1>7 DEF Makes, Becomes, Only, Plain
<1>9. CASE Served(world.conn[c], world.req[c], c)
  <2>1. Due(w, c, k)
    <3>1. CASE k = "rev"
      <4>1. y.rev = Late(x.rev) /\ y.wev = x.wev
        BY <1>6, <1>7, <3>1 DEF Makes, Becomes
      <4>2. /\ y.rev.handler = x.rev.handler /\ y.rev.active = x.rev.active
            /\ y.rev.timer_set = x.rev.timer_set
        BY <1>6, <4>1, MarkFields
      <4>3. Awaits(x) \/ Reads(x, w.req[c], c)
        BY <1>6, <1>8, <1>9, <3>1 DEF Served, Sends, Blank
      <4>4. w.req[c].upstream = Null /\ PageEnds(w.req[c])
        BY <1>8, <1>9 DEF Served
      <4>5. Awaits(y) \/ Reads(y, w.req[c], c)
        <5> HIDE DEF x, y
        <5> QED BY <1>8, <4>1, <4>2, <4>3 DEF Awaits, Reads
      <4> QED BY <1>8, <3>1, <4>4, <4>5 DEF Due, Awaiting, Reading, Cell
    <3>2. CASE k = "wev"
      <4>1. y.wev = Late(x.wev) /\ y.rev = x.rev
        BY <1>6, <1>7, <3>2 DEF Makes, Becomes
      <4>2. /\ y.wev.handler = x.wev.handler /\ y.wev.active = x.wev.active
            /\ y.wev.timer_set = x.wev.timer_set
        BY <1>6, <4>1, MarkFields
      <4>3. Sends(x, w.req[c], c)
        BY <1>6, <1>8, <1>9, <3>2 DEF Served, Awaits, Reads, Blank
      <4>4. w.req[c].upstream = Null
        BY <1>8, <1>9 DEF Served
      <4>5. Sends(y, w.req[c], c)
        <5>1. x.wev.timer_set
          BY <1>6, <3>2
        <5> HIDE DEF x, y
        <5> QED BY <1>8, <4>1, <4>2, <4>3, <5>1 DEF Sends
      <4> QED BY <1>8, <3>2, <4>4, <4>5 DEF Due, Sending, Cell
    <3> QED BY <3>1, <3>2 DEF Kinds
  <2>2. Serves(w, world', c)
    BY <1>5, <2>1, DueHandler, CallServes
  <2>3. Serves(world, world', c)
    BY <1>8, <2>2, ServesTrans
  <2>4. \A d \in Conns : Settled(world', d, exiting)
    BY <1>2, <2>3, ServesAll
  <2> QED BY <1>2, <2>3, <2>4 DEF Files, Settled, Serves, Only
<1>10. CASE exiting /\ Cut(world.conn[c], world.req[c])
  <2>1. y.rev.handler = x.rev.handler
    <3>1. CASE k = "rev"
      BY <1>6, <1>7, <3>1, MarkFields DEF Makes, Becomes
    <3>2. CASE k = "wev"
      BY <1>7, <3>2 DEF Makes, Becomes
    <3> QED BY <3>1, <3>2 DEF Kinds
  <2>2. Cut(y, w.req[c])
    BY <1>8, <1>10, <2>1 DEF Cut
  <2>3. \A d \in Conns : Settled(w, d, exiting)
    BY <1>2, <1>8, <1>10, <2>2 DEF Only, Settled
  <2>4. world' = w \/ world' = Crash(w)
    <3>1. CASE w.conn[c][k].handler = Null
      BY <1>5, <3>1
    <3>2. CASE w.conn[c][k].handler # Null
      <4>1. w.conn[c][k].handler # "http_init_request"
        <5>1. CASE k = "rev"
          BY <1>8, <2>2, <5>1 DEF Cut, Worlds, ConnType
        <5>2. CASE k = "wev"
          <6>1. w.conn[c][k] = Late(x.wev)
            BY <1>6, <1>7, <5>2, MakesAt
          <6>2. Hdl(world)[<<c, "wev">>] = x.wev.handler
            BY <1>6 DEF Hdl, Ev, Events, Kinds
          <6>3. x.wev.handler # "http_init_request"
            BY <1>2, <6>2, NullAssumption DEF Sound, Handlers, ReadHandlers, WriteHandlers
          <6> QED BY <1>6, <6>1, <6>3, MarkFields
        <5> QED BY <5>1, <5>2 DEF Kinds
      <4> QED BY <1>5, <1>8, <2>2, <3>2, <4>1, CutCall DEF Cut
    <3> QED BY <3>1, <3>2
  <2>5. world'.conn = w.conn /\ world'.req = w.req
    BY <1>8, <2>4, CrashKeeps
  <2> QED BY <1>2, <1>10, <2>3, <2>5 DEF Files, Settled
<1> QED BY <1>2, <1>9, <1>10 DEF Settled

LEMMA SignalFiles ==
  ASSUME IInv, Files, Quit \/ Terminate
  PROVE  Files'
<1>1. CASE Quit
  <2>1. Sound(world) /\ \A c \in Conns : Settled(world, c, TRUE)
    BY DEF IInv, Files, Settled
  <2>2. \A c \in Conns : Settled(world', c, TRUE)
    BY <1>1, <2>1, ClearServes DEF Quit
  <2> QED BY <1>1, <2>2 DEF Files, Settled, Quit
<1>2. CASE Terminate
  <2> DEFINE x == [world EXCEPT !.dead = "exit"]
  <2>1. x.conn = world.conn /\ x.req = world.req /\ x.dead = "exit"
    BY DEF IInv, Sound, Worlds
  <2>2. world' = x /\ batch' = {} /\ exiting' = exiting
    BY <1>2 DEF Terminate
  <2> HIDE DEF x
  <2> QED BY <2>1, <2>2 DEF Files
<1> QED BY <1>1, <1>2

LEMMA FilesInvariant ==
  ASSUME "upstream" \notin Routes
  PROVE  Spec => [](IInv /\ Files)
<1>1. Init => IInv /\ Files
  BY InitStep, InitFiles
<1>2. IInv /\ Files /\ IInv' /\ [Next]_vars => Files'
  <2> SUFFICES ASSUME IInv, Files, IInv', [Next]_vars PROVE Files'
    OBVIOUS
  <2>1. CASE UNCHANGED vars
    BY <2>1 DEF vars, Files
  <2>2. CASE Ended
    BY <2>2 DEF Ended, vars, Files
  <2>3. CASE Quit \/ Terminate
    BY <2>3, SignalFiles
  <2> QED BY <2>1, <2>2, <2>3, PollFiles, DispatchFiles, AcceptFiles, ExpireFiles DEF Next
<1> QED BY <1>1, <1>2, Invariant, PTL DEF Spec

-----------------------------------------------------------------------------
(***************************************************************************)
(* The results on a worker that serves files only.                         *)
(***************************************************************************)
(* Until the worker is told to quit, no callback follows a NULL or         *)
(* dangling pointer and no object goes back to the pool twice, whatever    *)
(* the kernel reports, in whatever order, and whatever timers expire in    *)
(* between: no event of a batch is ever stale (http_init_request to        *)
(* handle_response_file, http_close_connection, kqueue_process_events).    *)
THEOREM FilesNoCrash ==
  ASSUME "upstream" \notin Routes
  PROVE  Spec => []NoCrash
<1>1. IInv /\ Files => NoCrash
  BY DEF Files, NoCrash
<1> QED BY <1>1, FilesInvariant, PTL

(* Until the worker is told to quit, a client whose response is not        *)
(* complete has a timer in the tree, and one whose response is complete is *)
(* watched for writing and has a callback (http_init_request to            *)
(* handle_response_file, construct_err, http_response_done).               *)
THEOREM FilesNobodyWaits ==
  ASSUME "upstream" \notin Routes
  PROVE  Spec => []NobodyWaits
<1>1. IInv /\ Files => NobodyWaits
  <2> SUFFICES ASSUME IInv, Files, ~exiting PROVE NobodyWaits
    BY DEF NobodyWaits, UnfinishedHasTimer, DoneHasWriter
  <2>1. /\ Sound(world) /\ Linked(world) /\ world \in Worlds
        /\ \A c \in Conns : Served(world.conn[c], world.req[c], c)
    BY DEF IInv, Files, Sound
  <2>2. ASSUME NEW c \in Conns
        PROVE  /\ conn[c].rev.timer_set /\ ~conn[c].rev.timedout => Guarded(c)
               /\ conn[c].wev.timer_set /\ ~conn[c].wev.timedout => Guarded(c)
               /\ conn[c].wev.active => <<c, "wev">> \in world.kq
    <3>1. /\ conn[c]["rev"] = conn[c].rev /\ conn[c]["wev"] = conn[c].wev
          /\ "rev" \in Kinds /\ "wev" \in Kinds
      BY <2>1 DEF conn, Worlds, ConnType, Kinds
    <3>2. <<c, "rev">> \in Events /\ <<c, "wev">> \in Events
      BY <3>1 DEF Events
    <3>3. Ev(world, <<c, "rev">>) = conn[c].rev /\ Ev(world, <<c, "wev">>) = conn[c].wev
      BY <3>1 DEF Ev, conn
    <3>4. conn[c].rev.timer_set /\ ~conn[c].rev.timedout => <<c, "rev">> \in world.tree
      BY <2>1, <3>2, <3>3 DEF Sound, Timers, TimerSet, Out
    <3>5. conn[c].wev.timer_set /\ ~conn[c].wev.timedout => <<c, "wev">> \in world.tree
      BY <2>1, <3>2, <3>3 DEF Sound, Timers, TimerSet, Out
    <3>6. conn[c].wev.active => <<c, "wev">> \in world.kq
      BY <2>1, <3>2, <3>3 DEF Sound, Watched, Act
    <3> QED BY <3>1, <3>4, <3>5, <3>6 DEF Guarded
  <2>3. ASSUME NEW c \in Clients, NEW r, r = conn[c].data
        PROVE  IF r = Null THEN Guarded(c) ELSE req[r].response_done \/ Guarded(c)
    <3>1. c \in Conns /\ conn[c].inuse /\ c # Null /\ Served(conn[c], req[c], c)
      BY <2>1, NullAssumption DEF Clients, conn, req
    <3>2. CASE Awaits(conn[c]) /\ ~conn[c].rev.timedout
      BY <2>2, <2>3, <3>1, <3>2 DEF Awaits
    <3>3. CASE Reads(conn[c], req[c], c) /\ ~conn[c].rev.timedout
      BY <2>2, <2>3, <3>1, <3>3 DEF Reads
    <3>4. CASE Sends(conn[c], req[c], c) /\ (req[c].response_done \/ ~conn[c].wev.timedout)
      BY <2>2, <2>3, <3>1, <3>4 DEF Sends
    <3> QED BY <3>1, <3>2, <3>3, <3>4 DEF Served
  <2>4. UnfinishedHasTimer
    BY <2>3 DEF UnfinishedHasTimer
  <2>5. ASSUME NEW r \in Live, req[r].response_done
        PROVE  <<r, "wev">> \in world.kq /\ conn[r].wev.handler # Null
    <3>1. r \in Conns /\ r \in LiveIn(world) /\ r # Null
      BY NullAssumption DEF Live, LiveIn, req
    <3>2. conn[r].data = r
      BY <2>1, <3>1 DEF Linked, Data, conn
    <3>3. r \in Used(world)
      BY <2>1, <3>1, <3>2 DEF Sound, Links, Data, conn
    <3>4. conn[r].inuse /\ Served(conn[r], req[r], r)
      BY <2>1, <3>1, <3>3 DEF Used, conn, req
    <3>5. Sends(conn[r], req[r], r)
      BY <2>5, <3>1, <3>2, <3>4 DEF Served, Awaits, Reads
    <3> QED BY <2>2, <3>1, <3>5, NullAssumption DEF Sends, WriteHandlers
  <2> QED BY <2>4, <2>5 DEF NobodyWaits, DoneHasWriter
<1> QED BY <1>1, FilesInvariant, PTL

(* A request that was given an error page never keeps its connection       *)
(* alive, also while the worker quits: nothing between construct_err and   *)
(* the end of the response turns keep_alive on again                       *)
(* (construct_err, header_handle_connection, request_process_uri).         *)
THEOREM FilesPageEnds ==
  ASSUME "upstream" \notin Routes
  PROVE  Spec => []PageEndsConnection
<1>1. IInv /\ Files => PageEndsConnection
  BY DEF Files, Served, Cut, PageEnds, PageEndsConnection, Live, req
<1> QED BY <1>1, FilesInvariant, PTL
=============================================================================
