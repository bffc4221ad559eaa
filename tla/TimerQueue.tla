----------------------------- MODULE TimerQueue -----------------------------
(***************************************************************************)
(* The timers of a worker: event/timer_event.c, and the turn of the event  *)
(* loop that moves the cached clock and expires timers                     *)
(* (process_events_and_timer and time_update of worker/worker.c, the head  *)
(* of kqueue_process_events).  The red-black tree is what it implements,   *)
(* OrderedNodes; the nodes are those of the events.                        *)
(*                                                                         *)
(* Keys are unsigned numbers of 32 bits that wrap every 49.7 days, here    *)
(* numbers modulo M.  The tree compares them as unsigned numbers, the test *)
(* for expiry as signed differences.  current_msec is 0 until the first    *)
(* SIGALRM moves it to the time since 1970, whatever that is modulo M.     *)
(* The variable `left' is not in the program: it is the true time that is  *)
(* left until the moment a timer was last asked for.                       *)
(***************************************************************************)
EXTENDS OrderedNodes, Integers

CONSTANTS
  M,                \* 2^32
  TIMER_LAZY_DELAY,
  Timeouts,         \* upstream_timeout, post_accept_timeout, ...
  Steps,            \* how far the clock moves between two updates
  None              \* no time known

ASSUME WidthAssumption == M \in Nat /\ M % 2 = 0 /\ Keys = 0 .. M - 1
ASSUME LazyAssumption == TIMER_LAZY_DELAY \in 1 .. M \div 4
ASSUME TimeoutsAssumption == \* minutes at most, far from half a turn
  Timeouts \subseteq TIMER_LAZY_DELAY .. M \div 2 - TIMER_LAZY_DELAY
ASSUME StepsAssumption == Steps \subseteq 1 .. M \div 4

VARIABLES
  key,       \* timer.key of each event, also when it is not in the tree
  timer_set,
  timedout,
  now,       \* current_msec
  started,   \* time_update has run
  alarm,     \* p_event_timer_alarm
  delta,     \* this turn has moved the clock
  pc,        \* "wait" in kevent, in the "events" it reports, in "expire",
             \* or in the "handler" of an expired timer
  left

event == <<queue, key, timer_set, timedout>>
loop == <<now, started, alarm, delta>>
vars == <<event, loop, pc, left>>

(* An unsigned number of 32 bits read as a signed one; p_abs of it, whose  *)
(* -x is x for the smallest number.                                        *)
Signed(x) == LET u == x % M IN IF u >= M \div 2 THEN u - M ELSE u
PAbs(x) == IF Signed(x) < 0 /\ Signed(x) # -(M \div 2) THEN -Signed(x) ELSE Signed(x)

Late == -(M \div 2) \* bound: a timer is at most this late, or later still

Init ==
  /\ OrderInit
  /\ key = [e \in Nodes |-> 0]
  /\ timer_set = [e \in Nodes |-> FALSE] /\ timedout = [e \in Nodes |-> FALSE]
  /\ now = 0 /\ started = FALSE /\ alarm = FALSE /\ delta = FALSE
  /\ pc = "wait"
  /\ left = [e \in Nodes |-> None]

-----------------------------------------------------------------------------
(* What a handler may do: the events that kevent reports and the timers    *)
(* that expire both have one.                                              *)
InHandler == pc \in {"events", "handler"}

(* Mutant: timer_set is not reset.                                         *)
DelTimer_KeepsSet(e) ==
  /\ InHandler /\ timer_set[e]
  /\ queue' = Removed(queue, e)
  /\ key' = [key EXCEPT ![e] = 0]
  /\ timedout' = [timedout EXCEPT ![e] = FALSE]
  /\ left' = [left EXCEPT ![e] = None]
  /\ UNCHANGED <<timer_set, loop, pc>>

(* event_del_timer: callers test timer_set.  The node may have left the    *)
(* tree already, and then has key 0.                                       *)
DelTimer(e) ==
  /\ InHandler /\ timer_set[e]
  /\ queue' = Removed(queue, e)
  /\ key' = [key EXCEPT ![e] = 0]
  /\ timer_set' = [timer_set EXCEPT ![e] = FALSE]
  /\ timedout' = [timedout EXCEPT ![e] = FALSE]
  /\ left' = [left EXCEPT ![e] = None]
  /\ UNCHANGED <<loop, pc>>

(* Mutant: the early return does not ask how far apart the keys are.       *)
TooClose_Always(e, k) == timer_set[e]

(* The new key is so close to the old one that nothing is done.            *)
TooClose(e, k) == timer_set[e] /\ PAbs(k - key[e]) < TIMER_LAZY_DELAY

(* event_add_timer.  Nothing is known of a timer that was set before the   *)
(* clock, or whose old and new key are 2^31 apart: p_abs overflows.        *)
AddTimer(e) ==
  /\ InHandler
  /\ \E timer \in Timeouts :
       LET k == (now + timer) % M
           overflow == timer_set[e] /\ PAbs(k - key[e]) < 0
       IN  /\ left' = [left EXCEPT ![e] =
                         IF started /\ ~overflow THEN timer ELSE None]
           /\ \/ TooClose(e, k) /\ UNCHANGED event
              \/ /\ ~TooClose(e, k)
                 /\ queue' = Inserted(Removed(queue, e), e, k)
                 /\ key' = [key EXCEPT ![e] = k]
                 /\ timer_set' = [timer_set EXCEPT ![e] = TRUE]
                 /\ timedout' = [timedout EXCEPT ![e] = @ /\ ~timer_set[e]]
  /\ UNCHANGED <<loop, pc>>

(* The events of kevent have been handled: timers expire only if the clock *)
(* has moved.                                                              *)
EndEvents ==
  /\ pc = "events"
  /\ pc' = IF delta THEN "expire" ELSE "wait"
  /\ UNCHANGED <<event, loop, left>>

(* Mutant: the key is compared with the clock as an unsigned number.       *)
IsExpired_Unsigned(k) == k < now

(* Mutant: without the cast an unsigned difference is never negative.      *)
IsExpired_NoCast(k) == (k - now) % M < 0

(* is_expired.                                                             *)
IsExpired(k) == Signed(k - now) < 0

SmallestExpired == queue # <<>> /\ IsExpired(Head(queue).key)

(* event_expire_timers: the node with the smallest key, if it has expired, *)
(* leaves the tree, and its handler is called.                             *)
Expire ==
  /\ pc = "expire" /\ SmallestExpired
  /\ LET e == Head(queue).node
     IN  /\ queue' = Removed(queue, e)
         /\ key' = [key EXCEPT ![e] = 0]
         /\ timedout' = [timedout EXCEPT ![e] = TRUE]
         /\ left' = [left EXCEPT ![e] = None]
  /\ pc' = "handler"
  /\ UNCHANGED <<timer_set, loop>>

(* The handler of an expired timer returns, and the loop goes on.          *)
EndHandler ==
  /\ pc = "handler" /\ pc' = "expire"
  /\ UNCHANGED <<event, loop, left>>

(* Mutant: one timer is handled per turn.                                  *)
EndExpire_AfterOne ==
  /\ pc = "expire"
  /\ pc' = "wait"
  /\ UNCHANGED <<event, loop, left>>

(* The smallest key has not expired, or there is none.                     *)
EndExpire ==
  /\ pc = "expire" /\ ~SmallestExpired
  /\ pc' = "wait"
  /\ UNCHANGED <<event, loop, left>>

-----------------------------------------------------------------------------
(* time_update after d units of time; the first one sets the clock.        *)
TimeUpdate(d) ==
  /\ IF started THEN now' = (now + d) % M ELSE now' \in Keys
  /\ started' = TRUE
  /\ delta' = (now' # now)
  /\ left' = [e \in Nodes |->
       IF left[e] = None THEN None
       ELSE IF left[e] - d < Late THEN Late ELSE left[e] - d]

(* timer_signal_handler outside kevent, or inside it before it reports     *)
(* events.                                                                 *)
SigAlrm == ~alarm /\ alarm' = TRUE
           /\ UNCHANGED <<event, now, started, delta, pc, left>>

(* kevent is interrupted by SIGALRM and returns no events.                 *)
Interrupted ==
  /\ pc = "wait"
  /\ \E d \in Steps : TimeUpdate(d)
  /\ alarm' = FALSE
  /\ pc' = IF delta' THEN "expire" ELSE "wait"
  /\ UNCHANGED event

(* kevent returns events and SIGALRM has come at some time since the last  *)
(* interrupted wait: the flag stays up, and the clock may not have moved.  *)
EventsLate(D) ==
  /\ pc = "wait" /\ alarm
  /\ \E d \in D : TimeUpdate(d)
  /\ pc' = "events"
  /\ UNCHANGED <<event, alarm>>

(* kevent returns events, and the clock stays as it is.                    *)
EventsSoon ==
  /\ pc = "wait" /\ ~alarm
  /\ pc' = "events" /\ delta' = FALSE
  /\ UNCHANGED <<event, now, started, alarm, left>>

Handler == \E e \in Nodes : DelTimer(e) \/ AddTimer(e)

Next == Handler \/ EndEvents \/ Expire \/ EndHandler \/ EndExpire \/ SigAlrm
        \/ Interrupted \/ EventsLate(Steps \cup {0}) \/ EventsSoon

(* Handlers return, SIGALRM comes every timer_resolution milliseconds, and *)
(* of all the waits that end after it some end at a later time.            *)
Fairness ==
  /\ WF_vars(EndEvents) /\ WF_vars(Expire) /\ WF_vars(EndHandler)
  /\ WF_vars(EndExpire) /\ WF_vars(SigAlrm) /\ WF_vars(Interrupted)
  /\ SF_vars(EventsLate(Steps))

Spec == Init /\ [][Next]_vars /\ Fairness

-----------------------------------------------------------------------------
Pending == Members(queue)

(* Types of the timers' variables.                                         *)
TypeOK ==
  /\ key \in [Nodes -> Keys] /\ now \in Keys
  /\ timer_set \in [Nodes -> BOOLEAN] /\ timedout \in [Nodes -> BOOLEAN]
  /\ started \in BOOLEAN /\ alarm \in BOOLEAN /\ delta \in BOOLEAN
  /\ pc \in {"wait", "events", "expire", "handler"}
  /\ left \in [Nodes -> {None} \cup Late .. M]

(* A timer is in the tree exactly as long as it is set and has not         *)
(* expired, with the key the event has; out of the tree the key is 0, on   *)
(* which the early return of event_add_timer relies (timer_event.c:60-64). *)
SetMeansPending ==
  /\ TypeOK
  /\ \A e \in Nodes :
       /\ e \in Pending <=> timer_set[e] /\ ~timedout[e]
       /\ e \notin Pending => key[e] = 0
       /\ \A j \in DOMAIN queue : queue[j].node = e => queue[j].key = key[e]

(* A timer that was asked for is in the tree, and its key is within        *)
(* TIMER_LAZY_DELAY of what was asked for, whatever the event did before:  *)
(* an expired event keeps timer_set, and event_add_timer then compares     *)
(* with key 0.  Only where the new key lies that close to 0 itself, once   *)
(* every 49.7 days, the timer is not armed.                                *)
AskedIsArmed ==
  \A e \in Nodes : left[e] # None =>
    LET asked == (now + left[e]) % M
    IN  \/ left[e] = Late
        \/ e \in Pending /\ PAbs(asked - key[e]) < TIMER_LAZY_DELAY
        \/ e \notin Pending /\ PAbs(asked) < TIMER_LAZY_DELAY

(* No event times out early (by TIMER_LAZY_DELAY or more) across a wrap of *)
(* the clock, once the clock has been set (timer_event.c:125).             *)
NeverEarly ==
  [][pc' = "handler" /\ pc = "expire" =>
       \A e \in Pending : e \notin Members(queue') /\ left[e] # None =>
         left[e] < TIMER_LAZY_DELAY]_vars

(* A timer so late, by half a turn of the clock, that its key may look     *)
(* like one of the future again.                                           *)
Lapped(e) == left[e] < Late + TIMER_LAZY_DELAY

(* A timer that was due TIMER_LAZY_DELAY ago and is still in the tree.     *)
Overdue(e) == e \in Pending /\ left[e] # None
              /\ ~Lapped(e) /\ left[e] <= -TIMER_LAZY_DELAY

(* When event_expire_timers is done, a timer that is due is still in the   *)
(* tree only behind one with a smaller key that is due later, was set      *)
(* before the clock, or has itself been hidden for half a turn: the key in *)
(* front has wrapped.                                                      *)
OverdueIsHidden ==
  pc = "wait" /\ delta => \A e \in Nodes : Overdue(e) =>
    \E f \in Pending :
      key[f] < key[e] /\ (left[f] = None \/ Lapped(f) \/ left[f] > left[e])

(* When no timer is added any more every timer leaves the tree, also       *)
(* across a wrap: a worker that is told to quit waits for exactly that     *)
(* (worker.c:76).                                                          *)
Drained ==
  <>[][\A e \in Nodes : ~AddTimer(e)]_vars => <>[](queue = <<>>)
=============================================================================
