--------------------------- MODULE UpstreamRound ---------------------------
(***************************************************************************)
(* Smooth weighted round-robin over the backends of one domain:            *)
(* module/upstream_server_module.c, with upstream_process_init of          *)
(* module/module.c and the callers in http/http.c.                         *)
(*                                                                         *)
(* The server records and the bitmap `tried' are shared by all requests of *)
(* the worker.  A request runs the loop of get_server_by_round without     *)
(* interruption, but connects, is refused and ends at any later time, with *)
(* the selections of other requests in between.  Time is cached per turn   *)
(* of the event loop, so it passes only outside the selection loop.        *)
(***************************************************************************)
EXTENDS Integers, FiniteSets, FiniteSetsExt

CONSTANTS
  nelts,     \* the number of servers; a bit of the bitmap for each of them
  Weight,    \* the configured weight of each server
  max_fails, \* 1 in round mode
  Requests,  \* the requests that are in progress at a time
  Outcomes,  \* the results of try_connect: "OK", "AGAIN", "ERROR"
  None       \* NULL

Servers == 0 .. nelts - 1

ASSUME NeltsAssumption == nelts \in Nat \ {0}
ASSUME WeightAssumption == Weight \in [Servers -> Nat \ {0}]
ASSUME MaxFailsAssumption == max_fails \in Nat \ {0}
ASSUME OutcomesAssumption == Outcomes \subseteq {"OK", "AGAIN", "ERROR"}

VARIABLES
  current_weight, effective_weight, fails,
  failed, \* the servers whose state is UPSTREAM_CONN_FAIL
  recent, \* the servers within fail_timeout of last_failed
  tried,  \* the bitmap
  req,    \* upstream_tries, cur_upstream and progress of each request
  chooser \* the request that is in the loop of get_server_by_round

vars == <<current_weight, effective_weight, fails, failed, recent, tried, req,
          chooser>>
weights == <<current_weight, effective_weight>>

NewRequest == [tries |-> 0, cur |-> None, phase |-> "new"]

(* upstream_process_init sets neither state nor last_failed.               *)
Init ==
  /\ current_weight = [s \in Servers |-> 0]
  /\ effective_weight = Weight
  /\ fails = [s \in Servers |-> 0]
  /\ failed \in SUBSET Servers
  /\ recent \in SUBSET Servers
  /\ tried = {}
  /\ req = [r \in Requests |-> NewRequest]
  /\ chooser = None

-----------------------------------------------------------------------------
(* free_server_after_round_select(us), for a server whose state is failed  *)
(* or not.                                                                 *)
Free(us, isFailed) ==
  IF isFailed
  THEN /\ fails' = [fails EXCEPT ![us] = @ + 1]
       /\ recent' = recent \cup {us}
       /\ effective_weight' =
            [effective_weight EXCEPT ![us] = Max({0, @ - Weight[us] \div max_fails})]
  ELSE /\ fails' = [fails EXCEPT ![us] = IF us \in recent THEN @ ELSE 0]
       /\ UNCHANGED <<recent, effective_weight>>

(* init_before_round: f is the array of failure counts it starts from.     *)
InitBeforeRound(f, rec) ==
  /\ tried' = {}
  /\ failed' = {}
  /\ fails' = [s \in Servers |-> IF f[s] >= max_fails /\ s \notin rec THEN 0
                                 ELSE f[s]]

-----------------------------------------------------------------------------
(* get_server_by_round_once.                                               *)

IsServerDown(s) == fails[s] >= max_fails /\ s \in recent
Eligible == {s \in Servers \ tried : ~IsServerDown(s)}
Raised(s) == current_weight[s] + effective_weight[s]

(* The first server of the largest raised weight.                          *)
Best == Min({s \in Eligible : \A t \in Eligible : Raised(t) <= Raised(s)})

Total == MapThenSumSet(LAMBDA s : effective_weight[s], Eligible)

(* Mutant: the total is taken after effective_weight has recovered.        *)
NewCurrentWeight_LateTotal ==
  [s \in Servers |->
     IF s \notin Eligible THEN current_weight[s]
     ELSE Raised(s) - (IF s = Best
                       THEN MapThenSumSet(LAMBDA t : Min({effective_weight[t] + 1,
                                                          Weight[t]}), Eligible)
                       ELSE 0)]

NewCurrentWeight ==
  [s \in Servers |->
     IF s \notin Eligible THEN current_weight[s]
     ELSE Raised(s) - (IF s = Best THEN Total ELSE 0)]

NewEffectiveWeight ==
  [s \in Servers |-> IF s \in Eligible /\ effective_weight[s] < Weight[s]
                     THEN effective_weight[s] + 1 ELSE effective_weight[s]]

(* The bit that is set is the one the loop over the servers ended with.    *)
NewTried == tried \cup {nelts - 1}

-----------------------------------------------------------------------------
(* try_connect_upstream is called for a new request.                       *)
Begin(r) ==
  /\ chooser = None /\ req[r].phase = "new"
  /\ InitBeforeRound(fails, recent)
  /\ chooser' = r
  /\ UNCHANGED <<weights, recent, req>>

(* A turn of the loop in which every server is down or marked as tried.    *)
TryNone ==
  /\ chooser # None /\ req[chooser].tries < nelts /\ Eligible = {}
  /\ req' = [req EXCEPT ![chooser].tries = @ + 1]
  /\ UNCHANGED <<weights, fails, failed, recent, tried, chooser>>

(* A turn in which a server is chosen and connects or is in progress.      *)
TryGood ==
  /\ chooser # None /\ req[chooser].tries < nelts /\ Eligible # {}
  /\ \E res \in Outcomes \ {"ERROR"} :
       req' = [req EXCEPT ![chooser] =
                 [tries |-> @.tries + 1, cur |-> Best,
                  phase |-> IF res = "OK" THEN "connected" ELSE "connecting"]]
  /\ current_weight' = NewCurrentWeight
  /\ effective_weight' = NewEffectiveWeight
  /\ tried' = NewTried
  /\ chooser' = None
  /\ UNCHANGED <<fails, failed, recent>>

(* A turn in which the chosen server refuses at once: it is freed as       *)
(* failed, and the loop goes on.                                           *)
TryBad ==
  /\ chooser # None /\ req[chooser].tries < nelts /\ Eligible # {}
  /\ "ERROR" \in Outcomes
  /\ req' = [req EXCEPT ![chooser].tries = @ + 1]
  /\ current_weight' = NewCurrentWeight
  /\ tried' = NewTried
  /\ failed' = failed \cup {Best}
  /\ fails' = [fails EXCEPT ![Best] = @ + 1]
  /\ recent' = recent \cup {Best}
  /\ effective_weight' = [NewEffectiveWeight EXCEPT
                            ![Best] = Max({0, @ - Weight[Best] \div max_fails})]
  /\ UNCHANGED chooser

(* The attempts are used up: 502.                                          *)
GiveUp ==
  /\ chooser # None /\ req[chooser].tries >= nelts
  /\ req' = [req EXCEPT ![chooser].phase = "502"]
  /\ chooser' = None
  /\ UNCHANGED <<weights, fails, failed, recent, tried>>

-----------------------------------------------------------------------------
(* process_connection_result_of_upstream: the connect has succeeded.       *)
Connected(r) ==
  /\ chooser = None /\ req[r].phase = "connecting"
  /\ req' = [req EXCEPT ![r].phase = "connected"]
  /\ UNCHANGED <<weights, fails, failed, recent, tried, chooser>>

(* Mutant: the retry counts from the beginning.                            *)
Refused_StartsOver(r) ==
  LET us == req[r].cur
  IN  /\ chooser = None /\ req[r].phase = "connecting" /\ "ERROR" \in Outcomes
      /\ req' = [req EXCEPT ![r].cur = None, ![r].phase = "new", ![r].tries = 0]
      /\ recent' = recent \cup {us}
      /\ effective_weight' =
           [effective_weight EXCEPT ![us] = Max({0, @ - Weight[us] \div max_fails})]
      /\ InitBeforeRound([fails EXCEPT ![us] = @ + 1], recent \cup {us})
      /\ chooser' = r
      /\ UNCHANGED current_weight

(* The connect has failed: the server is freed as failed and the loop is   *)
(* entered again.                                                          *)
Refused(r) ==
  LET us == req[r].cur
  IN  /\ chooser = None /\ req[r].phase = "connecting" /\ "ERROR" \in Outcomes
      /\ req' = [req EXCEPT ![r].cur = None, ![r].phase = "new"]
      /\ recent' = recent \cup {us}
      /\ effective_weight' =
           [effective_weight EXCEPT ![us] = Max({0, @ - Weight[us] \div max_fails})]
      /\ InitBeforeRound([fails EXCEPT ![us] = @ + 1], recent \cup {us})
      /\ chooser' = r
      /\ UNCHANGED current_weight

(* http_close_request frees the server of the request, if it has one.      *)
Close(r) ==
  /\ chooser = None /\ req[r].phase # "new"
  /\ req' = [req EXCEPT ![r] = NewRequest]
  /\ IF req[r].cur = None THEN UNCHANGED <<fails, recent, effective_weight>>
     ELSE Free(req[r].cur, req[r].cur \in failed)
  /\ UNCHANGED <<current_weight, failed, tried, chooser>>

(* http_clear_request zeroes cur_upstream before it looks at it, so a      *)
(* request on a kept connection never frees its server.                    *)
Clear(r) ==
  /\ chooser = None /\ req[r].phase \in {"connected", "502"}
  /\ req' = [req EXCEPT ![r] = NewRequest]
  /\ UNCHANGED <<weights, fails, failed, recent, tried, chooser>>

(* fail_timeout of a server runs out.                                      *)
TimePasses ==
  /\ chooser = None
  /\ \E s \in recent : recent' = recent \ {s}
  /\ UNCHANGED <<weights, fails, failed, tried, req, chooser>>

Next == \/ TryNone \/ TryGood \/ TryBad \/ GiveUp \/ TimePasses
        \/ \E r \in Requests : \/ Begin(r) \/ Connected(r) \/ Refused(r)
                               \/ Close(r) \/ Clear(r)

(* The loop runs without interruption, and a connect in progress has a     *)
(* result or a timeout, after which the request is closed.  Strong         *)
(* fairness, because the turns of another request's loop, which are one    *)
(* callback in the code, disable the result again and again.               *)
Loop == TryNone \/ TryGood \/ TryBad \/ GiveUp
Result(r) == Connected(r) \/ Refused(r) \/ Close(r)

Spec == /\ Init /\ [][Next]_vars
        /\ WF_vars(Loop) /\ \A r \in Requests : SF_vars(Result(r))

-----------------------------------------------------------------------------
(* Types of the shared records and of the requests.                        *)
TypeOK ==
  /\ current_weight \in [Servers -> Int] /\ effective_weight \in [Servers -> Int]
  /\ fails \in [Servers -> Nat]
  /\ failed \subseteq Servers /\ recent \subseteq Servers /\ tried \subseteq Servers
  /\ req \in [Requests -> [tries : 0 .. nelts, cur : Servers \cup {None},
                           phase : {"new", "connecting", "connected", "502"}]]
  /\ chooser \in Requests \cup {None}

(* Selection only moves weight between servers: what the candidates gain   *)
(* is what the chosen one pays, also while failures change effective       *)
(* weights between two selections (upstream_server_module.c:192-216).      *)
Balanced == MapThenSumSet(LAMBDA s : current_weight[s], Servers) = 0

(* A server that fails loses weight and gets it back step by step, and     *)
(* never more than it was given (upstream_server_module.c:195-198,         *)
(* 236-244).                                                               *)
EffectiveInRange == \A s \in Servers : effective_weight[s] \in 0 .. Weight[s]

MaxWeight == Max({Weight[s] : s \in Servers})

(* Smoothness: through failures, recoveries and skipped servers, in any    *)
(* order, the credit of a server never exceeds the largest weight once for *)
(* each of the other servers, in either direction: none is starved or      *)
(* favoured for long.  While nothing fails current_weight is k * weight -  *)
(* total * chosen after k selections; for servers of one weight, and for   *)
(* two servers, the bound is below the total, so each share is exact give  *)
(* or take less than one selection (upstream_server_module.c:191-216).     *)
CreditBounded ==
  LET most == (nelts - 1) * MaxWeight
  IN  \A s \in Servers : current_weight[s] \in -most .. most

(* The round-robin is smooth: selections only move weight between servers  *)
(* and bound each server's credit, and failures and recoveries keep the    *)
(* weights in range, while requests fail, recover and end in between       *)
(* (get_server_by_round_once, free_server_after_round_select).             *)
SmoothShares == TypeOK /\ EffectiveInRange /\ Balanced /\ CreditBounded

(* A request that looks for a server comes to an end: it is connected,     *)
(* answered with 502 or closed, although refused connects lead back into   *)
(* the loop and other requests select in between                           *)
(* (process_connection_result_of_upstream, get_server_by_round).           *)
Answered ==
  \A r \in Requests : chooser = r ~> chooser # r /\ req[r].phase # "connecting"
=============================================================================
