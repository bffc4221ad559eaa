------------------------------- MODULE Master -------------------------------
(***************************************************************************)
(* The master process and its workers: worker/master.c,                    *)
(* signal_worker_processes of worker/worker.c and the signal handler of    *)
(* main.c.                                                                 *)
(*                                                                         *)
(* The master creates the workers, sleeps in sigsuspend and, when a signal *)
(* wakes it, reaps and respawns workers or shuts them down.  The signal    *)
(* handler runs in the master whenever a signal arrives, between any two   *)
(* of the steps below, because the master never blocks signals.  A worker  *)
(* is its process state only; what it does is the business of module       *)
(* Worker.  No worker exits with status 2, so the `respawn' mark, which    *)
(* that status clears, stays set and is left out.                          *)
(***************************************************************************)
EXTENDS Naturals, FiniteSets, FiniteSetsExt

CONSTANTS
  Workers,     \* worker_num
  MaxCrashes,  \* bound: how many workers crash
  Requests,    \* the signals an operator may send: "SIGINT", "SIGQUIT"
  FirstDelay,  \* the first delay given to the workers (50 milliseconds)
  ForkMayFail  \* fork() may return -1

ASSUME WorkersAssumption == Workers \in Nat \ {0}
ASSUME MaxCrashesAssumption == MaxCrashes \in Nat
ASSUME RequestsAssumption == Requests \subseteq {"SIGINT", "SIGQUIT"}
ASSUME FirstDelayAssumption == FirstDelay \in Nat \ {0}
ASSUME SwitchAssumption == ForkMayFail \in BOOLEAN

Slots == 1 .. Workers
NoPid == 0
Pids == 1 .. Workers + MaxCrashes + 1 \* one to spare

VARIABLES
  mpc,      \* where the master is
  i,        \* the slot that a loop of the master is at
  child,    \* the pid that fork() has just returned; NoPid once it is stored
  found,    \* the local `live' of reap_children
  live,     \* the local `live' of master_cycle_process
  delay,    \* the milliseconds given to the workers so far
  armed,    \* the interval timer is running
  flag,     \* p_reap, p_quit, p_terminate and p_sigalarm
  pending,  \* signals sent to the master and not handled yet
  workers,  \* server_cfg.workers
  proc,     \* each worker process: its state and its process_status
  crashes,  \* how many workers have crashed
  lost,     \* history: a signal came after the test of its flag in this turn
  early     \* history: workers collected before their slot was complete

vars == <<mpc, i, child, found, live, delay, armed, flag, pending, workers,
          proc, crashes, lost, early>>
loop == <<i, child, found, live>> \* the locals of the master's loops
history == <<lost, early>>        \* no action reads them

(* Process states.  A worker whose SIGSEGV handler returns runs into the   *)
(* same instruction for ever: it is stuck.                                 *)
Running == {"run", "draining", "terminating", "stuck"}
States == {"unborn", "zombie", "gone"} \cup Running

RunningProcs == {p \in Pids : proc[p].st \in Running}
Unborn == Min({p \in Pids : proc[p].st = "unborn"})
ShuttingDown == flag.quit \/ flag.terminate

(* The master leaves through master_process_exit ("exited"), or, once a    *)
(* failed fork has made a worker of it, as a worker does ("ended").        *)
Turned == mpc \in {"worker", "drain", "ended"}
Over == mpc \in {"exited", "ended"}

Init ==
  /\ mpc = "create" /\ i = 1 /\ child = NoPid /\ found = FALSE
  /\ live = TRUE /\ delay = 0 /\ armed = FALSE
  /\ flag = [reap |-> FALSE, quit |-> FALSE, terminate |-> FALSE,
             sigalarm |-> FALSE]
  /\ pending = {}
  /\ workers = [k \in Slots |-> [pid |-> NoPid, exited |-> FALSE,
                                 exiting |-> FALSE]]
  /\ proc = [p \in Pids |-> [st |-> "unborn", status |-> "WORKER"]]
  /\ crashes = 0
  /\ lost = FALSE
  /\ early = {}

-----------------------------------------------------------------------------
(* The signal handler of the master.                                       *)

(* process_get_status: waitpid collects every zombie, and the slot that    *)
(* holds its pid is marked; a pid in no slot is forgotten.                 *)
ProcessGetStatus ==
  LET dead == {p \in Pids : proc[p].st = "zombie"}
  IN  /\ proc' = [p \in Pids |-> IF p \in dead THEN [proc[p] EXCEPT !.st = "gone"]
                                 ELSE proc[p]]
      /\ workers' = [k \in Slots |-> IF workers[k].pid \in dead
                                     THEN [workers[k] EXCEPT !.exited = TRUE]
                                     ELSE workers[k]]

(* Mutant: SIGCHLD collects the status but does not set p_reap.            *)
SignalHandler_NoReap ==
  /\ pending # {}
  /\ pending' = {}
  /\ flag' = [flag EXCEPT !.terminate = @ \/ "SIGINT" \in pending,
                          !.quit = @ \/ "SIGQUIT" \in pending,
                          !.sigalarm = @ \/ "SIGALRM" \in pending]
  /\ IF "SIGCHLD" \in pending THEN ProcessGetStatus
     ELSE UNCHANGED <<proc, workers>>
  /\ UNCHANGED <<delay, armed, crashes, loop>>

(* singal_handler, for all the signals that are pending.                   *)
SignalHandler ==
  /\ pending # {}
  /\ pending' = {}
  /\ flag' = [flag EXCEPT !.terminate = @ \/ "SIGINT" \in pending,
                          !.quit = @ \/ "SIGQUIT" \in pending,
                          !.reap = @ \/ "SIGCHLD" \in pending,
                          !.sigalarm = @ \/ "SIGALRM" \in pending]
  /\ IF "SIGCHLD" \in pending THEN ProcessGetStatus
     ELSE UNCHANGED <<proc, workers>>
  /\ UNCHANGED <<delay, armed, crashes, loop>>

(* The master has tested the flag of signal s for the last time before     *)
(* sigsuspend, or goes there without a test, as after the start.           *)
Passed(s) ==
  CASE s = "SIGCHLD" -> mpc # "check"
    [] s = "SIGALRM" -> mpc = "ready"
    [] OTHER -> mpc \in {"create", "push", "top", "ready"}

(* A signal is handled outside sigsuspend: nothing wakes up.  A child that *)
(* is collected before its slot is complete leaves no mark in it: its pid  *)
(* is not there yet, or the mark is reset after it.                        *)
Interrupt ==
  /\ mpc # "suspend" /\ ~Over
  /\ SignalHandler
  /\ lost' = (lost \/ \E s \in pending : Passed(s))
  /\ early' = IF /\ mpc \in {"push", "set_pid", "set_exited"} /\ child # NoPid
                 /\ "SIGCHLD" \in pending /\ proc[child].st = "zombie"
              THEN early \cup {child} ELSE early
  /\ UNCHANGED mpc

(* sigsuspend returns after the handlers have run.                         *)
Wake == /\ mpc = "suspend" /\ mpc' = "check"
        /\ SignalHandler
        /\ lost' = FALSE /\ UNCHANGED early

-----------------------------------------------------------------------------
(* fork() makes a process that has the flags of its parent.                *)
Fork(status) ==
  /\ child' = Unborn
  /\ proc' = [proc EXCEPT ![Unborn] =
                [st |-> IF flag.terminate THEN "terminating"
                        ELSE IF flag.quit THEN "draining" ELSE "run",
                 status |-> status]]

(* create_worker_process, one turn of its loop: fork, then the push.  A    *)
(* slot for which fork() failed holds no process.                          *)
CreateFork ==
  /\ mpc = "create" /\ mpc' = "push"
  /\ \/ Fork("WORKER")
     \/ ForkMayFail /\ child' = NoPid /\ UNCHANGED proc
  /\ UNCHANGED <<i, found, live, delay, armed, flag, pending, workers, crashes,
                history>>

CreatePush ==
  /\ mpc = "push"
  /\ workers' = [workers EXCEPT ![i] = [pid |-> child, exited |-> FALSE,
                                        exiting |-> FALSE]]
  /\ i' = i + 1
  /\ mpc' = IF i = Workers THEN "top" ELSE "create"
  /\ child' = NoPid
  /\ UNCHANGED <<found, live, delay, armed, flag, pending, proc, crashes,
                history>>

(* The top of master_cycle_process.  Past one second the exact length of   *)
(* the delay no longer matters.                                            *)
Top ==
  LET longer == flag.sigalarm /\ delay # 0
  IN  /\ mpc = "top" /\ mpc' = "ready"
      /\ delay' = IF longer /\ delay < 1000 THEN 2 * delay ELSE delay
      /\ flag' = [flag EXCEPT !.sigalarm = @ /\ ~longer]
      /\ armed' = (armed \/ delay # 0)
      /\ UNCHANGED <<loop, pending, workers, proc, crashes, history>>

(* The call of sigsuspend.                                                 *)
Suspend ==
  /\ mpc = "ready" /\ mpc' = "suspend"
  /\ UNCHANGED <<loop, delay, armed, flag, pending, workers, proc, crashes, history>>

(* After sigsuspend: reap_children is called when p_reap is set.           *)
Check ==
  /\ mpc = "check"
  /\ mpc' = IF flag.reap THEN "scan" ELSE "act"
  /\ flag' = [flag EXCEPT !.reap = FALSE]
  /\ i' = 1
  /\ found' = FALSE
  /\ UNCHANGED <<child, live, delay, armed, pending, workers, proc, crashes, history>>

(* Mutant: a slot whose process has exited still counts as live.           *)
Scan_CountsExited ==
  /\ mpc = "scan"
  /\ LET w == workers[i]
         respawn == w.pid > 0 /\ w.exited /\ ~w.exiting /\ ~ShuttingDown
     IN  IF i > Workers
         THEN mpc' = "act" /\ live' = found /\ UNCHANGED <<i, found>>
         ELSE IF respawn THEN mpc' = "fork" /\ UNCHANGED <<i, found, live>>
         ELSE /\ mpc' = "scan" /\ i' = i + 1 /\ live' = live
              /\ found' = (found \/ w.pid > 0)
  /\ UNCHANGED <<child, delay, armed, flag, pending, workers, proc, crashes, history>>

(* reap_children at slot i: the test, or the end of the loop.              *)
Scan ==
  /\ mpc = "scan"
  /\ LET w == workers[i]
         respawn == w.pid > 0 /\ w.exited /\ ~w.exiting /\ ~ShuttingDown
     IN  IF i > Workers
         THEN mpc' = "act" /\ live' = found /\ UNCHANGED <<i, found>>
         ELSE IF respawn THEN mpc' = "fork" /\ UNCHANGED <<i, found, live>>
         ELSE /\ mpc' = "scan" /\ i' = i + 1 /\ live' = live
              /\ found' = (found \/ (w.pid > 0 /\ ~w.exited))
  /\ UNCHANGED <<child, delay, armed, flag, pending, workers, proc, crashes, history>>

(* spawn_process.  The child keeps process_status = MASTER.  When fork()   *)
(* fails the master itself enters worker_cycle_process, since only a       *)
(* positive pid returns (WorkerLoop, below).                               *)
SpawnProcess ==
  /\ mpc = "fork"
  /\ \/ mpc' = "set_pid" /\ Fork("MASTER")
     \/ ForkMayFail /\ mpc' = "worker" /\ UNCHANGED <<child, proc>>
  /\ UNCHANGED <<i, found, live, delay, armed, flag, pending, workers, crashes,
                history>>

(* The two assignments that follow in reap_children.                       *)
SetPid ==
  /\ mpc = "set_pid" /\ mpc' = "set_exited"
  /\ workers' = [workers EXCEPT ![i].pid = child]
  /\ early' = early \ {workers[i].pid}
  /\ UNCHANGED <<loop, delay, armed, flag, pending, proc, crashes, lost>>

(* Mutant: the mark of the old process is not reset.                       *)
SetExited_KeepsMark ==
  /\ mpc = "set_exited" /\ mpc' = "scan"
  /\ workers' = [workers EXCEPT ![i].exiting = FALSE]
  /\ found' = TRUE /\ i' = i + 1 /\ child' = NoPid
  /\ UNCHANGED <<live, delay, armed, flag, pending, proc, crashes, history>>

SetExited ==
  /\ mpc = "set_exited" /\ mpc' = "scan"
  /\ workers' = [workers EXCEPT ![i].exited = FALSE, ![i].exiting = FALSE]
  /\ found' = TRUE /\ i' = i + 1 /\ child' = NoPid
  /\ UNCHANGED <<live, delay, armed, flag, pending, proc, crashes, history>>

-----------------------------------------------------------------------------
(* What a signal does to a process that exists.                            *)
Effect(st, signo) ==
  CASE st \notin Running -> st
    [] st \in Running /\ signo = "SIGKILL" -> "zombie"
    [] st \in {"run", "draining"} /\ signo = "SIGINT" -> "terminating"
    [] st = "run" /\ signo = "SIGQUIT" -> "draining"
    [] OTHER -> st

(* signal_worker_processes on the table ws and the processes ps.           *)
Targets(ws, signo) ==
  {k \in Slots : ws[k].pid > 0 /\ ~(ws[k].exiting /\ signo = "SIGQUIT")}
Killed(ws, ps, signo) ==
  [p \in Pids |-> IF \E k \in Targets(ws, signo) : ws[k].pid = p
                  THEN [ps[p] EXCEPT !.st = Effect(@, signo)] ELSE ps[p]]
Missing(ws, ps, signo) == {k \in Targets(ws, signo) : ps[ws[k].pid].st = "gone"}
Marked(ws, ps, signo) ==
  [k \in Slots |->
     IF k \in Missing(ws, ps, signo)
     THEN [ws[k] EXCEPT !.exited = TRUE, !.exiting = FALSE]
     ELSE IF k \in Targets(ws, signo) THEN [ws[k] EXCEPT !.exiting = TRUE]
     ELSE ws[k]]

Signal(signo) ==
  /\ proc' = Killed(workers, proc, signo)
  /\ workers' = Marked(workers, proc, signo)
  /\ flag' = [flag EXCEPT !.reap = @ \/ Missing(workers, proc, signo) # {}]
  /\ pending' = IF proc' # proc /\ signo = "SIGKILL" THEN pending \cup {"SIGCHLD"}
                ELSE pending

(* SIGKILL to every worker, then SIGINT, which finds no process to act on. *)
KillAll == Signal("SIGKILL")

(* The rest of a turn of master_cycle_process.                             *)
(* Mutant: the master leaves without waiting for its workers.              *)
MasterExit_IgnoresLive ==
  /\ mpc = "act" /\ ShuttingDown
  /\ mpc' = "exited"
  /\ UNCHANGED <<loop, delay, armed, flag, pending, workers, proc, crashes, history>>

MasterExit ==
  /\ mpc = "act" /\ ~live /\ ShuttingDown
  /\ mpc' = "exited"
  /\ UNCHANGED <<loop, delay, armed, flag, pending, workers, proc, crashes, history>>

(* Mutant: the workers are never killed.                                   *)
Terminate_NoKill ==
  /\ mpc = "act" /\ live /\ flag.terminate
  /\ mpc' = "top"
  /\ delay' = IF delay = 0 THEN FirstDelay ELSE delay
  /\ Signal("SIGINT")
  /\ UNCHANGED <<loop, armed, crashes, history>>

Terminate ==
  /\ mpc = "act" /\ live /\ flag.terminate
  /\ mpc' = "top"
  /\ delay' = IF delay = 0 THEN FirstDelay ELSE delay
  /\ IF delay >= 1000 THEN KillAll ELSE Signal("SIGINT")
  /\ UNCHANGED <<loop, armed, crashes, history>>

Quit ==
  /\ mpc = "act" /\ live /\ flag.quit /\ ~flag.terminate
  /\ mpc' = "top"
  /\ Signal("SIGQUIT")
  /\ UNCHANGED <<loop, delay, armed, crashes, history>>

Again ==
  /\ mpc = "act" /\ ~ShuttingDown
  /\ mpc' = "top"
  /\ UNCHANGED <<loop, delay, armed, flag, pending, workers, proc, crashes, history>>

(* The master in worker_cycle_process, after a failed fork.  It still has  *)
(* the handler of a master, so its flags are its own.  It exits on SIGINT, *)
(* also while workers run; on SIGQUIT it leaves once it has no timer left. *)
WorkerLoop ==
  /\ \/ /\ mpc \in {"worker", "drain"} /\ flag.terminate
        /\ mpc' = "ended" /\ UNCHANGED flag
     \/ /\ mpc = "worker" /\ flag.quit /\ ~flag.terminate
        /\ mpc' = "drain" /\ flag' = [flag EXCEPT !.quit = FALSE]
  /\ UNCHANGED <<loop, delay, armed, pending, workers, proc, crashes, history>>

WorkerLoopDrained ==
  /\ mpc = "drain" /\ mpc' = "ended"
  /\ UNCHANGED <<loop, delay, armed, flag, pending, workers, proc, crashes, history>>

MasterStep == \/ CreateFork \/ CreatePush \/ Top \/ Suspend \/ Check \/ Scan
              \/ SpawnProcess \/ SetPid \/ SetExited
              \/ MasterExit \/ Terminate \/ Quit \/ Again \/ WorkerLoop

-----------------------------------------------------------------------------
(* The operator, the clock and the workers.                                *)
Operator ==
  \E s \in Requests :
    /\ ~Over /\ s \notin pending
    /\ s = "SIGINT" => ~flag.terminate
    /\ s = "SIGQUIT" => ~flag.quit
    /\ pending' = pending \cup {s}
    /\ UNCHANGED <<mpc, loop, delay, armed, flag, workers, proc, crashes, history>>

Alarm == /\ armed /\ armed' = FALSE
         /\ pending' = pending \cup {"SIGALRM"}
         /\ UNCHANGED <<mpc, loop, delay, flag, workers, proc, crashes, history>>

Die(p) == /\ proc' = [proc EXCEPT ![p].st = "zombie"]
          /\ pending' = pending \cup {"SIGCHLD"}

(* A worker told to terminate leaves its loop.                             *)
WorkerExits(p) == /\ proc[p].st = "terminating" /\ Die(p)
                  /\ UNCHANGED <<mpc, loop, delay, armed, flag, workers, crashes,
                                  history>>

(* A worker told to quit has no timer left.                                *)
WorkerDrained(p) == /\ proc[p].st = "draining" /\ Die(p)
                    /\ UNCHANGED <<mpc, loop, delay, armed, flag, workers, crashes,
                                  history>>

(* A worker follows a bad pointer: the handler of SIGSEGV exits if         *)
(* process_status is WORKER and returns otherwise.                         *)
WorkerCrashes(p) ==
  /\ proc[p].st \in Running \ {"stuck"} /\ crashes < MaxCrashes
  /\ crashes' = crashes + 1
  /\ IF proc[p].status = "WORKER" THEN Die(p)
     ELSE proc' = [proc EXCEPT ![p].st = "stuck"] /\ pending' = pending
  /\ UNCHANGED <<mpc, loop, delay, armed, flag, workers, history>>

(* A worker calls abort(), which no handler catches.                       *)
WorkerAborts(p) ==
  /\ proc[p].st \in Running \ {"stuck"} /\ crashes < MaxCrashes
  /\ crashes' = crashes + 1
  /\ Die(p)
  /\ UNCHANGED <<mpc, loop, delay, armed, flag, workers, history>>

(* What becomes of workers that have lost their master is left out.        *)
WorkerStep == /\ mpc # "ended"
              /\ \E p \in Pids : \/ WorkerExits(p) \/ WorkerDrained(p)
                                 \/ WorkerCrashes(p) \/ WorkerAborts(p)

(* The master has ended.                                                   *)
Ended == Over /\ UNCHANGED vars

Next == \/ MasterStep \/ WorkerLoopDrained \/ Interrupt \/ Wake
        \/ Operator \/ Alarm \/ WorkerStep \/ Ended

(* The master runs, signals are delivered, the interval timer fires, and a *)
(* worker that has seen SIGINT reaches the end of its loop.  Nothing       *)
(* obliges a draining worker to finish.                                    *)
Fairness == /\ WF_vars(MasterStep) /\ WF_vars(Wake) /\ WF_vars(Interrupt)
            /\ WF_vars(Alarm)
            /\ \A p \in Pids : WF_vars(mpc # "ended" /\ WorkerExits(p))

Spec == Init /\ [][Next]_vars /\ Fairness

-----------------------------------------------------------------------------
(* Types of the variables.                                                 *)
StateOK ==
  /\ mpc \in {"create", "push", "top", "ready", "suspend", "check", "scan", "fork",
              "set_pid", "set_exited", "act", "exited", "worker", "drain", "ended"}
  /\ i \in 1 .. Workers + 1 /\ child \in Pids \cup {NoPid}
  /\ found \in BOOLEAN /\ live \in BOOLEAN /\ armed \in BOOLEAN
  /\ delay \in Nat
  /\ flag \in [reap : BOOLEAN, quit : BOOLEAN, terminate : BOOLEAN,
               sigalarm : BOOLEAN]
  /\ pending \subseteq {"SIGINT", "SIGQUIT", "SIGCHLD", "SIGALRM"}
  /\ workers \in [Slots -> [pid : Pids \cup {NoPid}, exited : BOOLEAN,
                            exiting : BOOLEAN]]
  /\ proc \in [Pids -> [st : States, status : {"WORKER", "MASTER"}]]
  /\ crashes \in 0 .. MaxCrashes

HistoryOK == lost \in BOOLEAN /\ early \subseteq Pids

TypeOK == StateOK /\ HistoryOK

(* The master outlives its workers: master_process_exit is reached only    *)
(* when no worker process runs any more, whatever signals arrive while     *)
(* reap_children and the shutdown run (master.c:191-196).  It says nothing *)
(* of a master that a failed fork has sent into worker_cycle_process: that *)
(* one exits on SIGINT with workers running (WorkerLoop).                  *)
MasterLast == mpc = "exited" => RunningProcs = {}

(* Respawning never makes more workers than configured, also when signals  *)
(* interrupt reap_children and when a shutdown begins under it.            *)
AtMostWorkers == Cardinality(RunningProcs) <= Workers

(* A slot marked `exited' holds the pid of a process that is gone, so that *)
(* neither a respawn nor the exit of the master forgets a running worker   *)
(* (process_get_status, signal_worker_processes); between the two          *)
(* assignments of reap_children the mark is the old process's.             *)
ExitedIsGone ==
  \A k \in Slots : workers[k].exited /\ ~(mpc = "set_exited" /\ k = i) =>
    proc[workers[k].pid].st = "gone"

(* The table of workers is true to the processes: never more of them than  *)
(* configured, and marked only when gone, with the signal handler between  *)
(* any two steps of reap_children and spawn_process.                       *)
WorkersTrue == TypeOK /\ AtMostWorkers /\ ExitedIsGone

(* A signal was handled between the test of its flag and sigsuspend        *)
(* (master.c:180), and the master sleeps with neither another signal on    *)
(* its way nor a timer running.                                            *)
Overslept == mpc = "suspend" /\ lost /\ pending = {} /\ ~armed

(* No fork has succeeded: there is no worker whose end could wake the      *)
(* master, and `live' is never computed again.                             *)
Unstaffed == \A k \in Slots : workers[k].pid = NoPid

(* A slot holds a worker that was collected before the slot was complete:  *)
(* it counts as live until kill() fails with ESRCH.                        *)
Unmarked == \E k \in Slots : workers[k].pid \in early

(* Slot k holds a process in one of the states sts.                        *)
SlotIn(k, sts) == \E p \in Pids : workers[k].pid = p /\ proc[p].st \in sts

(* After SIGINT the master ends, also when a worker is stuck: "if they     *)
(* have not left after more than a second, force them" (master.c:198-200), *)
(* and also as a worker after a failed fork; only a signal lost before     *)
(* sigsuspend, and a server without any worker, which is never woken, keep *)
(* it from doing so.                                                       *)
TerminateEnds == flag.terminate ~> Over \/ Overslept \/ Unstaffed

(* After SIGQUIT the master ends once its workers have drained             *)
(* (master.c:191-196), unless a signal was lost, a failed fork has made a  *)
(* worker of it, or one worker was never marked: it is found gone by the   *)
(* signal that should end it (worker.c:41-45), and p_reap is then raised   *)
(* just before sigsuspend.  A respawn that SIGQUIT interrupts may still    *)
(* make a worker, which then has to drain as well.                         *)
QuitEnds ==
  (flag.quit /\ RunningProcs = {})
    ~> Over \/ RunningProcs # {} \/ Overslept \/ Turned \/ Unstaffed \/ Unmarked

(* A worker that has died is replaced by one that runs, unless the server  *)
(* shuts down: "if one has died, decide by its state whether it must be    *)
(* restarted" (master.c:31-35), however often workers die while others are *)
(* respawned.  A lost SIGCHLD, a failed fork, and a death before its slot  *)
(* was complete are the exceptions.                                        *)
DeadReplaced ==
  \A k \in Slots :
    SlotIn(k, {"zombie", "gone"})
      ~> \/ SlotIn(k, Running) \/ ShuttingDown \/ Overslept \/ Turned
         \/ workers[k].pid \in early
=============================================================================
