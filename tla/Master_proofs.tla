---------------------------- MODULE Master_proofs ----------------------------
(***************************************************************************)
(* Proofs about Master, for every number of workers and of crashes: the    *)
(* master leaves last, there are never more workers than configured, and   *)
(* a slot marked `exited' holds the pid of a process that is gone.         *)
(***************************************************************************)
EXTENDS Master, FiniteSetTheorems, WellFoundedInduction, TLAPS

(* The processes that were ever forked, and those of them that have ended. *)
Born == {p \in Pids : proc[p].st # "unborn"}
Dead == {p \in Pids : proc[p].st \in {"zombie", "gone"}}

(* The process a slot stands for: from fork() to the assignment of its pid *)
(* a new process is known to the master by `child' only.                   *)
Holder(k) == IF mpc \in {"push", "set_pid"} /\ k = i THEN child
             ELSE workers[k].pid

(* reap_children does not count this slot as live.                         *)
Empty(k) == workers[k].pid = NoPid \/ workers[k].exited

-----------------------------------------------------------------------------
(* The inductive invariant.                                                *)

(* Every running process is known to the master, by a slot of its own.     *)
Housed == \A p \in RunningProcs : \E k \in Slots : Holder(k) = p

(* A marked slot holds a pid, of a process that is gone.                   *)
MarkedGone ==
  \A k \in Slots : workers[k].exited =>
    /\ workers[k].pid \in Pids
    /\ (mpc = "set_exited" /\ k = i) \/ proc[workers[k].pid].st = "gone"

(* What the loops of the master know of the slot they are at.              *)
AtSlot ==
  /\ mpc \in {"create", "push", "fork", "set_pid", "set_exited"} => i \in Slots
  /\ mpc \in {"create", "push"} =>
       live /\ \A k \in Slots : k >= i => workers[k].pid = NoPid
  /\ mpc \in {"fork", "set_pid"} => workers[i].exited
  /\ mpc = "set_pid" => child \in Pids

(* What a false `live' says, while reap_children computes it and after.    *)
LiveKnown ==
  /\ mpc \in {"top", "ready", "suspend", "check", "act", "exited"} /\ ~live =>
       \A k \in Slots : Empty(k)
  /\ mpc \in {"scan", "fork", "set_pid", "set_exited"} /\ ~found =>
       \A k \in Slots : k < i => Empty(k)
  /\ mpc = "exited" => ~live

(* The master that a failed fork has made a worker has seen a signal, and  *)
(* has cleared p_quit.                                                     *)
Leaving == mpc \in {"drain", "ended"}

(* A worker leaves its loop only after a signal to the master.             *)
Told ==
  \A p \in Pids : /\ proc[p].st = "terminating" => flag.terminate
                  /\ proc[p].st = "draining" => ShuttingDown \/ Leaving

(* Until a shutdown begins, a worker dies only of a crash.                 *)
Counted == ~ShuttingDown /\ ~Leaving => Cardinality(Dead) <= crashes

(* fork() finds a pid.                                                     *)
Spare ==
  /\ mpc = "create" => Cardinality(Born) < i
  /\ mpc = "push" => Cardinality(Born) <= i
  /\ mpc = "fork" => Cardinality(Born) < Workers + MaxCrashes

IInv == /\ StateOK /\ Housed /\ MarkedGone /\ AtSlot /\ LiveKnown
        /\ Told /\ Counted /\ Spare

-----------------------------------------------------------------------------
(* The least element that Min chooses exists.                              *)
LEMMA MinIsMember ==
  ASSUME NEW S \in SUBSET Nat, S # {}
  PROVE  Min(S) \in S
<1> DEFINE R == OpToRel(<, Nat)
<1>1. PICK x \in S : \A y \in S : ~ (<<y, x>> \in R)
  <2>1. IsWellFoundedOn(R, Nat)
    BY NatLessThanWellFounded
  <2> HIDE DEF R
  <2> QED BY <2>1, WFMin
<1>2. \A y \in S : x =< y
  <2>1. ASSUME NEW y \in S, y < x PROVE FALSE
    <3>1. <<y, x>> \in R
      BY <2>1 DEF OpToRel
    <3> QED BY <3>1, <1>1
  <2> QED BY <2>1
<1> QED BY <1>1, <1>2 DEF Min

(* Raising or clearing a flag.                                             *)
FlagType == [reap : BOOLEAN, quit : BOOLEAN, terminate : BOOLEAN,
             sigalarm : BOOLEAN]

LEMMA FlagFacts ==
  ASSUME NEW f \in FlagType, NEW b \in BOOLEAN
  PROVE  LET r == [f EXCEPT !.reap = b]
             s == [f EXCEPT !.sigalarm = b]
         IN  /\ r \in FlagType /\ r.terminate = f.terminate /\ r.quit = f.quit
             /\ s \in FlagType /\ s.terminate = f.terminate /\ s.quit = f.quit
BY DEF FlagType

LEMMA FlagsFacts ==
  ASSUME NEW f \in FlagType, NEW b \in BOOLEAN, NEW c \in BOOLEAN,
         NEW d \in BOOLEAN, NEW e \in BOOLEAN
  PROVE  LET t == [f EXCEPT !.terminate = b, !.quit = c, !.reap = d,
                            !.sigalarm = e]
         IN  t \in FlagType /\ (b => t.terminate) /\ (c => t.quit)
BY DEF FlagType

(* Writing the two marks of a slot.                                        *)
Slot == [pid : Pids \cup {NoPid}, exited : BOOLEAN, exiting : BOOLEAN]

LEMMA MarkFacts ==
  ASSUME NEW w \in Slot, NEW a \in BOOLEAN, NEW b \in BOOLEAN
  PROVE  LET r == [w EXCEPT !.exited = a, !.exiting = b]
             s == [w EXCEPT !.exited = a]
             t == [w EXCEPT !.exiting = b]
         IN  /\ r \in Slot /\ r.pid = w.pid /\ r.exited = a
             /\ s \in Slot /\ s.pid = w.pid /\ s.exited = a
             /\ t \in Slot /\ t.pid = w.pid /\ t.exited = w.exited
BY DEF Slot

(* Sets of pids and of slots are finite.                                   *)
LEMMA PidSets ==
  ASSUME NEW S \in SUBSET Pids
  PROVE  IsFiniteSet(S) /\ Cardinality(S) \in Nat
<1>1. IsFiniteSet(Pids)
  BY FS_Interval, WorkersAssumption, MaxCrashesAssumption DEF Pids
<1> QED BY <1>1, FS_Subset, FS_CardinalityType

LEMMA SlotSets ==
  /\ IsFiniteSet(Slots) /\ Cardinality(Slots) = Workers
  /\ \A k \in Slots : /\ IsFiniteSet(Slots \ {k})
                      /\ Cardinality(Slots \ {k}) = Workers - 1
<1>1. IsFiniteSet(Slots) /\ Cardinality(Slots) = Workers
  BY FS_Interval, WorkersAssumption DEF Slots
<1> QED BY <1>1, FS_RemoveElement

(* As many running processes as slots that stand for them, at most.        *)
LEMMA HousedBound ==
  ASSUME NEW T \in SUBSET Slots, IsFiniteSet(T),
         \A p \in RunningProcs : \E k \in T : Holder(k) = p
  PROVE  Cardinality(RunningProcs) <= Cardinality(T)
<1> DEFINE f == [p \in RunningProcs |-> CHOOSE k \in T : Holder(k) = p]
<1>1. ASSUME NEW p \in RunningProcs PROVE f[p] \in T /\ Holder(f[p]) = p
  BY <1>1
<1>2. f \in Injection(RunningProcs, T)
  <2>1. f \in [RunningProcs -> T]
    BY <1>1
  <2>2. \A p, q \in RunningProcs : f[p] = f[q] => p = q
    BY <1>1
  <2> HIDE DEF f
  <2> QED BY <2>1, <2>2, Zenon DEF Injection, IsInjective
<1> QED BY <1>2, FS_Injection

(* A fork while a pid is free: the child is a new process, and one more    *)
(* pid is taken.                                                           *)
LEMMA ForkFacts ==
  ASSUME StateOK, NEW status \in {"WORKER", "MASTER"}, Fork(status),
         Cardinality(Born) < Workers + MaxCrashes + 1
  PROVE  /\ child' \in Pids /\ proc[child'].st = "unborn"
         /\ proc' \in [Pids -> [st : States, status : {"WORKER", "MASTER"}]]
         /\ proc'[child'].st \in {"run", "draining", "terminating"}
         /\ proc'[child'].st = "terminating" => flag.terminate
         /\ proc'[child'].st = "draining" => flag.quit
         /\ \A p \in Pids : p # child' => proc'[p] = proc[p]
         /\ Cardinality(Born') = Cardinality(Born) + 1
         /\ Dead' = Dead
<1> DEFINE U == {p \in Pids : proc[p].st = "unborn"}
<1>1. U # {}
  <2>1. SUFFICES ASSUME U = {} PROVE FALSE
    OBVIOUS
  <2>2. Born = Pids
    BY <2>1 DEF Born
  <2>3. Cardinality(Pids) = Workers + MaxCrashes + 1
    BY FS_Interval, WorkersAssumption, MaxCrashesAssumption DEF Pids
  <2> QED BY <2>2, <2>3, WorkersAssumption, MaxCrashesAssumption
<1>2. Unborn \in U
  <2>1. U \in SUBSET Nat
    BY WorkersAssumption, MaxCrashesAssumption DEF Pids
  <2>2. Unborn = Min(U)
    BY DEF Unborn
  <2> HIDE DEF U
  <2> QED BY <1>1, <2>1, <2>2, MinIsMember
<1>3. child' = Unborn /\ child' \in Pids /\ proc[child'].st = "unborn"
  BY <1>2 DEF Fork
<1> DEFINE new == [st |-> IF flag.terminate THEN "terminating"
                          ELSE IF flag.quit THEN "draining" ELSE "run",
                   status |-> status]
<1>4. proc' = [proc EXCEPT ![child'] = new]
  BY <1>3 DEF Fork
<1>5. /\ new \in [st : States, status : {"WORKER", "MASTER"}]
      /\ new.st \in {"run", "draining", "terminating"}
      /\ new.st = "terminating" => flag.terminate
      /\ new.st = "draining" => flag.quit
  BY DEF States, Running
<1> HIDE DEF new
<1>6. /\ proc' \in [Pids -> [st : States, status : {"WORKER", "MASTER"}]]
      /\ proc'[child'] = new
      /\ \A p \in Pids : p # child' => proc'[p] = proc[p]
  BY <1>3, <1>4, <1>5 DEF StateOK
<1>7. Born' = Born \cup {child'} /\ child' \notin Born
  BY <1>3, <1>5, <1>6 DEF Born
<1>8. Cardinality(Born') = Cardinality(Born) + 1
  <2>1. IsFiniteSet(Born)
    BY PidSets DEF Born
  <2> QED BY <2>1, <1>7, FS_AddElement
<1>9. Dead' = Dead
  BY <1>3, <1>5, <1>6 DEF Dead
<1> QED BY <1>3, <1>5, <1>6, <1>8, <1>9

-----------------------------------------------------------------------------
(* One lemma per action of the master: it preserves the invariant.         *)

(* create_worker_process forks: the new process is held by `child'.        *)
LEMMA CreateForkKeeps == IInv /\ CreateFork => IInv'
<1> SUFFICES ASSUME IInv, CreateFork PROVE IInv'
  OBVIOUS
<1> USE DEF IInv
<1>1. /\ mpc = "create" /\ mpc' = "push" /\ i \in Slots
      /\ UNCHANGED <<i, found, live, delay, armed, flag, pending, workers, crashes>>
  BY DEF CreateFork, AtSlot
<1>2. \A k \in Slots : workers[k].pid # NoPid => k # i
  BY <1>1 DEF AtSlot, Slots
<1>3. MarkedGone /\ \A k \in Slots : workers[k].exited => proc[workers[k].pid].st = "gone"
  BY <1>1 DEF MarkedGone
<1>4. CASE Fork("WORKER")
  <2>1. Cardinality(Born) < i /\ i <= Workers
    BY <1>1 DEF Spare, Slots
  <2>2. Cardinality(Born) < Workers + MaxCrashes + 1
    <3>1. Cardinality(Born) \in Nat /\ i \in Nat
      BY <1>1, PidSets DEF Born, Slots
    <3> QED BY <2>1, <3>1, WorkersAssumption, MaxCrashesAssumption
  <2>3. /\ child' \in Pids /\ proc[child'].st = "unborn"
        /\ proc' \in [Pids -> [st : States, status : {"WORKER", "MASTER"}]]
        /\ proc'[child'].st \in {"run", "draining", "terminating"}
        /\ proc'[child'].st = "terminating" => flag.terminate
        /\ proc'[child'].st = "draining" => flag.quit
        /\ \A p \in Pids : p # child' => proc'[p] = proc[p]
        /\ Cardinality(Born') = Cardinality(Born) + 1
        /\ Dead' = Dead
    BY <1>4, <2>2, ForkFacts
  <2>4. StateOK'
    BY <1>1, <2>3 DEF StateOK
  <2>5. Housed'
    <3>1. SUFFICES ASSUME NEW p \in RunningProcs' PROVE \E k \in Slots : Holder(k)' = p
      BY DEF Housed
    <3>2. CASE p = child'
      BY <1>1, <3>2 DEF Holder
    <3>3. CASE p # child'
      <4>1. p \in RunningProcs /\ p # NoPid
        BY <2>3, <3>1, <3>3 DEF RunningProcs, Pids, NoPid
      <4>2. PICK k \in Slots : workers[k].pid = p
        BY <4>1, <1>1 DEF Housed, Holder
      <4>3. k # i
        BY <4>1, <4>2, <1>2
      <4> QED BY <1>1, <4>2, <4>3 DEF Holder
    <3> QED BY <3>2, <3>3
  <2>6. MarkedGone'
    BY <1>1, <1>3, <2>3 DEF MarkedGone
  <2>7. AtSlot' /\ LiveKnown'
    BY <1>1 DEF AtSlot, LiveKnown
  <2>8. Told'
    BY <1>1, <2>3 DEF Told, ShuttingDown, Leaving
  <2>9. Counted'
    BY <1>1, <2>3 DEF Counted, ShuttingDown, Leaving
  <2>10. Spare'
    <3>1. Cardinality(Born) \in Nat /\ i \in Nat
      BY <1>1, PidSets DEF Born, Slots
    <3> QED BY <1>1, <2>1, <2>3, <3>1 DEF Spare
  <2> QED BY <2>4, <2>5, <2>6, <2>7, <2>8, <2>9, <2>10
<1>5. CASE child' = NoPid /\ UNCHANGED proc
  <2>1. StateOK'
    BY <1>1, <1>5 DEF StateOK
  <2>2. Housed'
    <3>1. SUFFICES ASSUME NEW p \in RunningProcs PROVE \E k \in Slots : Holder(k)' = p
      BY <1>5 DEF Housed, RunningProcs
    <3>2. PICK k \in Slots : workers[k].pid = p
      BY <3>1, <1>1 DEF Housed, Holder
    <3>3. p # NoPid
      BY <3>1 DEF RunningProcs, Pids, NoPid
    <3> QED BY <1>1, <1>2, <3>2, <3>3 DEF Holder
  <2>3. MarkedGone'
    BY <1>1, <1>3, <1>5 DEF MarkedGone
  <2>4. AtSlot' /\ LiveKnown'
    BY <1>1 DEF AtSlot, LiveKnown
  <2>5. Told' /\ Counted'
    BY <1>1, <1>5 DEF Told, Counted, ShuttingDown, Leaving, Dead
  <2>6. Spare'
    <3>1. Cardinality(Born) \in Nat /\ i \in Nat
      BY <1>1, PidSets DEF Born, Slots
    <3> QED BY <1>1, <1>5, <3>1 DEF Spare, Born
  <2> QED BY <2>1, <2>2, <2>3, <2>4, <2>5, <2>6
<1> QED BY <1>4, <1>5 DEF CreateFork

(* create_worker_process enters the child in its slot.                     *)
LEMMA CreatePushKeeps == IInv /\ CreatePush => IInv'
<1> SUFFICES ASSUME IInv, CreatePush PROVE IInv'
  OBVIOUS
<1> USE DEF IInv
<1> DEFINE entry == [pid |-> child, exited |-> FALSE, exiting |-> FALSE]
<1>1. /\ mpc = "push" /\ mpc' \in {"top", "create"} /\ i' = i + 1 /\ i \in Slots
      /\ mpc' = "create" => i # Workers
      /\ workers' = [workers EXCEPT ![i] = entry]
      /\ child' = NoPid
      /\ UNCHANGED <<found, live, delay, armed, flag, pending, proc, crashes>>
  BY DEF CreatePush, AtSlot
<1>2. entry \in [pid : Pids \cup {NoPid}, exited : BOOLEAN, exiting : BOOLEAN]
  BY DEF StateOK
<1>3. /\ workers' \in [Slots -> [pid : Pids \cup {NoPid}, exited : BOOLEAN,
                                 exiting : BOOLEAN]]
      /\ workers'[i].pid = child /\ ~workers'[i].exited
      /\ \A k \in Slots : k # i => workers'[k] = workers[k]
  BY <1>1, <1>2 DEF StateOK
<1> HIDE DEF entry
<1>4. StateOK'
  BY <1>1, <1>3, WorkersAssumption DEF StateOK, Slots
<1>5. Housed'
  <2>1. SUFFICES ASSUME NEW p \in RunningProcs PROVE \E k \in Slots : Holder(k)' = p
    BY <1>1 DEF Housed, RunningProcs
  <2>2. PICK k \in Slots : Holder(k) = p
    BY DEF Housed
  <2> QED BY <1>1, <1>3, <2>2 DEF Holder
<1>6. MarkedGone'
  BY <1>1, <1>3 DEF MarkedGone
<1>7. AtSlot' /\ LiveKnown'
  BY <1>1, <1>3, WorkersAssumption DEF AtSlot, LiveKnown, Slots
<1>8. Told' /\ Counted'
  BY <1>1 DEF Told, Counted, ShuttingDown, Leaving, Dead
<1>9. Spare'
  <2>1. Cardinality(Born) \in Nat /\ i \in Nat /\ Born' = Born
    BY <1>1, PidSets DEF Born, Slots
  <2> QED BY <1>1, <2>1 DEF Spare
<1> QED BY <1>4, <1>5, <1>6, <1>7, <1>8, <1>9

(* The steps that change no process and no slot: what they must keep is    *)
(* what the master knows of `live' and of the slot it is at.               *)
LEMMA TablesAlone ==
  ASSUME IInv, UNCHANGED <<proc, workers, crashes, child>>,
         flag'.terminate = flag.terminate, flag'.quit = flag.quit,
         mpc \notin {"push", "set_pid", "set_exited", "drain", "ended"},
         mpc' \notin {"push", "set_pid", "create"}
  PROVE  /\ Housed' /\ MarkedGone' /\ Told' /\ Counted'
         /\ \A k \in Slots : Empty(k)' <=> Empty(k)
         /\ Born' = Born
<1>1. Housed'
  BY DEF IInv, Housed, Holder, RunningProcs
<1>2. MarkedGone'
  BY DEF IInv, MarkedGone
<1>3. Told' /\ Counted'
  BY DEF IInv, Told, Counted, ShuttingDown, Leaving, Dead
<1>4. (\A k \in Slots : Empty(k)' <=> Empty(k)) /\ Born' = Born
  BY DEF Empty, Born
<1> QED BY <1>1, <1>2, <1>3, <1>4

(* The loop of master_cycle_process, where it touches no worker.           *)
LEMMA CycleKeeps == IInv /\ (Top \/ Suspend \/ Check \/ MasterExit \/ Again) => IInv'
<1> SUFFICES ASSUME IInv, Top \/ Suspend \/ Check \/ MasterExit \/ Again PROVE IInv'
  OBVIOUS
<1> USE DEF IInv
<1>1. /\ mpc \in {"top", "ready", "check", "act"}
      /\ mpc' \in {"ready", "suspend", "scan", "act", "exited", "top"}
      /\ mpc' = "scan" => i' = 1
      /\ mpc' # "scan" => live' = live
      /\ mpc' = "exited" => ~live
      /\ flag'.terminate = flag.terminate /\ flag'.quit = flag.quit
      /\ UNCHANGED <<proc, workers, crashes, child, pending>>
  BY DEF Top, Suspend, Check, MasterExit, Again, loop, StateOK
<1>2. StateOK'
  <2>1. CASE Top
    <3> DEFINE kept == flag.sigalarm /\ ~(flag.sigalarm /\ delay # 0)
    <3>1. flag' = [flag EXCEPT !.sigalarm = kept] /\ kept \in BOOLEAN
      BY <2>1, Zenon DEF Top
    <3> HIDE DEF kept
    <3>2. flag' \in FlagType
      BY <3>1, FlagFacts DEF StateOK, FlagType
    <3>3. armed' \in BOOLEAN
      BY <2>1 DEF Top
    <3>4. delay' \in Nat
      BY <2>1 DEF Top, StateOK
    <3>5. mpc' = "ready" /\ UNCHANGED <<loop, pending, workers, proc, crashes>>
      BY <2>1 DEF Top
    <3> QED BY <3>2, <3>3, <3>4, <3>5 DEF StateOK, FlagType, loop
  <2>2. CASE Check
    <3>1. flag' \in FlagType
      <4>1. flag' = [flag EXCEPT !.reap = FALSE] /\ FALSE \in BOOLEAN
        BY <2>2 DEF Check
      <4>2. flag \in FlagType
        BY DEF StateOK, FlagType
      <4> QED BY ONLY <4>1, <4>2, FlagFacts, Zenon
    <3>2. /\ mpc' \in {"scan", "act"} /\ i' = 1 /\ found' \in BOOLEAN
          /\ UNCHANGED <<child, live, delay, armed, pending, workers, proc, crashes>>
      BY <2>2 DEF Check
    <3>3. i' \in 1 .. Workers + 1
      BY <3>2, WorkersAssumption
    <3> QED BY <3>1, <3>2, <3>3 DEF StateOK, FlagType
  <2>3. CASE Suspend \/ MasterExit \/ Again
    <3>1. /\ mpc' \in {"suspend", "exited", "top"}
          /\ UNCHANGED <<loop, delay, armed, flag, pending, workers, proc, crashes>>
      BY <2>3 DEF Suspend, MasterExit, Again
    <3> QED BY <3>1 DEF StateOK, loop
  <2> QED BY <2>1, <2>2, <2>3
<1>3. Housed' /\ MarkedGone' /\ Told' /\ Counted'
  BY <1>1, TablesAlone
<1>4. AtSlot' /\ Spare'
  BY <1>1 DEF AtSlot, Spare
<1>5. LiveKnown'
  BY <1>1, WorkersAssumption DEF LiveKnown, Empty, Slots
<1> QED BY <1>2, <1>3, <1>4, <1>5

(* reap_children tests a slot, or ends.  A respawn begins only while the   *)
(* server is up and the slot's process is gone, so that a pid is free.     *)
LEMMA ScanKeeps == IInv /\ Scan => IInv'
<1> SUFFICES ASSUME IInv, Scan PROVE IInv'
  OBVIOUS
<1> DEFINE w == workers[i]
           respawn == w.pid > 0 /\ w.exited /\ ~w.exiting /\ ~ShuttingDown
<1>1. StateOK /\ mpc = "scan"
      /\ UNCHANGED <<child, delay, armed, flag, pending, workers, proc, crashes>>
  BY DEF IInv, Scan
<1>2. i \in 1 .. Workers + 1 /\ (i <= Workers => i \in Slots)
  BY <1>1, WorkersAssumption DEF StateOK, Slots
<1>3. ASSUME mpc' \in {"act", "fork", "scan"}
      PROVE  Housed' /\ MarkedGone' /\ Told' /\ Counted'
    BY <1>1, <1>3, TablesAlone DEF IInv
<1>4. CASE i > Workers
  <2>1. mpc' = "act" /\ live' = found /\ UNCHANGED <<i, found>>
    BY <1>4 DEF Scan
  <2>2. StateOK'
    BY <1>1, <2>1 DEF StateOK
  <2>3. AtSlot' /\ Spare'
    BY <2>1 DEF AtSlot, Spare
  <2>4. LiveKnown'
    <3>1. ~found => \A k \in Slots : k < i => Empty(k)
      BY <1>1 DEF IInv, LiveKnown
    <3>2. \A k \in Slots : k < i /\ (Empty(k)' <=> Empty(k))
      BY <1>1, <1>2, <1>4, WorkersAssumption DEF Slots, Empty
    <3> QED BY <2>1, <3>1, <3>2 DEF LiveKnown
  <2> QED BY <1>3, <2>1, <2>2, <2>3, <2>4 DEF IInv
<1>5. CASE ~(i > Workers) /\ respawn
  <2>1. mpc' = "fork" /\ UNCHANGED <<i, found, live>>
    BY <1>5 DEF Scan
  <2>2. StateOK'
    BY <1>1, <2>1 DEF StateOK
  <2>3. i \in Slots /\ workers[i].exited
    <3>1. i <= Workers
      BY <1>2, <1>5, WorkersAssumption
    <3> QED BY <1>2, <1>5, <3>1
  <2>4. AtSlot'
    BY <1>1, <2>1, <2>3 DEF AtSlot
  <2>5. LiveKnown'
    BY <1>1, <2>1 DEF IInv, LiveKnown, Empty
  <2>6. Cardinality(Born) < Workers + MaxCrashes
    <3>1. \A p \in RunningProcs : \E k \in Slots \ {i} : Holder(k) = p
      <4>1. SUFFICES ASSUME NEW p \in RunningProcs
                     PROVE  \E k \in Slots \ {i} : Holder(k) = p
        OBVIOUS
      <4>2. PICK k \in Slots : Holder(k) = p
        BY DEF IInv, Housed
      <4>3. workers[k].pid = p
        BY <1>1, <4>2 DEF Holder
      <4>4. proc[workers[i].pid].st = "gone"
        BY <1>1, <2>3 DEF IInv, MarkedGone
      <4>5. k # i
        BY <4>3, <4>4 DEF RunningProcs, Running
      <4> QED BY <4>2, <4>5
    <3>2. Cardinality(RunningProcs) <= Workers - 1
      BY <2>3, <3>1, HousedBound, SlotSets
    <3>3. Cardinality(Dead) <= crashes /\ crashes \in 0 .. MaxCrashes
      BY <1>1, <1>5 DEF IInv, Counted, Leaving, StateOK
    <3>4. Born = RunningProcs \cup Dead
      BY <1>1 DEF StateOK, Born, RunningProcs, Dead, States, Running
    <3>5. /\ IsFiniteSet(RunningProcs) /\ IsFiniteSet(Dead)
          /\ Cardinality(RunningProcs) \in Nat /\ Cardinality(Dead) \in Nat
          /\ Cardinality(RunningProcs \cap Dead) \in Nat
      BY PidSets DEF RunningProcs, Dead
    <3>6. Cardinality(Born) <= Cardinality(RunningProcs) + Cardinality(Dead)
      <4>1. Cardinality(RunningProcs \cup Dead) =
              Cardinality(RunningProcs) + Cardinality(Dead)
                - Cardinality(RunningProcs \cap Dead)
        BY <3>5, FS_Union
      <4> QED BY <3>4, <3>5, <4>1
    <3>7. Cardinality(Born) \in Nat
      BY PidSets DEF Born
    <3> QED BY <3>2, <3>3, <3>5, <3>6, <3>7, WorkersAssumption, MaxCrashesAssumption
  <2>7. Spare'
    BY <1>1, <2>1, <2>6 DEF Spare, Born
  <2> QED BY <1>3, <2>1, <2>2, <2>4, <2>5, <2>7 DEF IInv
<1>6. CASE ~(i > Workers) /\ ~respawn
  <2>1. /\ mpc' = "scan" /\ i' = i + 1 /\ live' = live
        /\ found' = (found \/ (w.pid > 0 /\ ~w.exited))
    BY <1>6 DEF Scan
  <2>2. StateOK'
    <3>1. found' \in BOOLEAN
      BY <2>1
    <3>2. i' \in 1 .. Workers + 1
      BY <1>2, <1>6, <2>1, WorkersAssumption DEF Slots
    <3>3. mpc' = "scan" /\ live' = live
      BY <2>1
    <3> QED BY <1>1, <3>1, <3>2, <3>3 DEF StateOK
  <2>3. AtSlot' /\ Spare'
    BY <2>1 DEF AtSlot, Spare
  <2>4. LiveKnown'
    <3>1. SUFFICES ASSUME ~found', NEW k \in Slots, k < i' PROVE Empty(k)'
      BY <2>1 DEF LiveKnown
    <3>2. ~found /\ ~(w.pid > 0 /\ ~w.exited)
      BY <2>1, <3>1
    <3>3. k < i => Empty(k)
      BY <1>1, <3>2 DEF IInv, LiveKnown
    <3>4. k = i => Empty(k)
      BY <1>1, <3>2 DEF StateOK, Empty, Pids, NoPid
    <3>5. k < i \/ k = i
      BY <1>2, <2>1, <3>1 DEF Slots
    <3> QED BY <1>1, <3>3, <3>4, <3>5 DEF Empty
  <2> QED BY <1>3, <2>1, <2>2, <2>3, <2>4 DEF IInv
<1> QED BY <1>4, <1>5, <1>6

(* spawn_process: the child takes the place of a process that is gone.     *)
LEMMA SpawnProcessKeeps == IInv /\ SpawnProcess => IInv'
<1> SUFFICES ASSUME IInv, SpawnProcess PROVE IInv'
  OBVIOUS
<1>1. StateOK /\ mpc = "fork" /\ i \in Slots /\ workers[i].exited
      /\ UNCHANGED <<i, found, live, delay, armed, flag, pending, workers, crashes>>
  BY DEF IInv, AtSlot, SpawnProcess
<1>2. \A k \in Slots : workers[k].exited =>
        workers[k].pid \in Pids /\ proc[workers[k].pid].st = "gone"
  BY <1>1 DEF IInv, MarkedGone
<1>3. LiveKnown'
  BY <1>1 DEF SpawnProcess, IInv, LiveKnown, Empty
<1>4. CASE mpc' = "set_pid" /\ Fork("MASTER")
  <2>1. Cardinality(Born) < Workers + MaxCrashes + 1
    <3>1. Cardinality(Born) < Workers + MaxCrashes
      BY <1>1 DEF IInv, Spare
    <3>2. Cardinality(Born) \in Nat
      BY PidSets DEF Born
    <3> QED BY <3>1, <3>2, WorkersAssumption, MaxCrashesAssumption
  <2>2. /\ child' \in Pids /\ proc[child'].st = "unborn"
        /\ proc' \in [Pids -> [st : States, status : {"WORKER", "MASTER"}]]
        /\ proc'[child'].st \in {"run", "draining", "terminating"}
        /\ proc'[child'].st = "terminating" => flag.terminate
        /\ proc'[child'].st = "draining" => flag.quit
        /\ \A p \in Pids : p # child' => proc'[p] = proc[p]
        /\ Dead' = Dead
    BY <1>1, <1>4, <2>1, ForkFacts
  <2>3. StateOK'
    BY <1>1, <1>4, <2>2 DEF StateOK
  <2>4. Housed'
    <3>1. SUFFICES ASSUME NEW p \in RunningProcs' PROVE \E k \in Slots : Holder(k)' = p
      BY DEF Housed
    <3>2. CASE p = child'
      BY <1>1, <1>4, <3>2 DEF Holder
    <3>3. CASE p # child'
      <4>1. p \in RunningProcs
        BY <2>2, <3>1, <3>3 DEF RunningProcs
      <4>2. PICK k \in Slots : workers[k].pid = p
        BY <1>1, <4>1 DEF IInv, Housed, Holder
      <4>3. k # i
        BY <1>1, <1>2, <4>1, <4>2 DEF RunningProcs, Running
      <4> QED BY <1>1, <4>2, <4>3 DEF Holder
    <3> QED BY <3>2, <3>3
  <2>5. MarkedGone'
    BY <1>1, <1>2, <2>2 DEF MarkedGone
  <2>6. AtSlot'
    BY <1>1, <1>4, <2>2 DEF AtSlot
  <2>7. Told'
    BY <1>1, <2>2 DEF IInv, Told, ShuttingDown, Leaving
  <2>8. Counted'
    BY <1>1, <2>2 DEF IInv, Counted, ShuttingDown, Leaving
  <2>9. Spare'
    BY <1>4 DEF Spare
  <2> QED BY <1>3, <2>3, <2>4, <2>5, <2>6, <2>7, <2>8, <2>9 DEF IInv
<1>5. CASE mpc' = "worker" /\ UNCHANGED <<child, proc>>
  <2>1. StateOK'
    BY <1>1, <1>5 DEF StateOK
  <2>2. Housed' /\ MarkedGone' /\ Told' /\ Counted'
    BY <1>1, <1>5, TablesAlone
  <2>3. AtSlot' /\ Spare'
    BY <1>5 DEF AtSlot, Spare
  <2> QED BY <1>3, <2>1, <2>2, <2>3 DEF IInv
<1> QED BY <1>4, <1>5 DEF SpawnProcess

(* The pid of the child is written; the mark is still the old process's.   *)
LEMMA SetPidKeeps == IInv /\ SetPid => IInv'
<1> SUFFICES ASSUME IInv, SetPid PROVE IInv'
  OBVIOUS
<1>1. StateOK /\ mpc = "set_pid" /\ mpc' = "set_exited" /\ i \in Slots
      /\ child \in Pids /\ workers' = [workers EXCEPT ![i].pid = child]
      /\ UNCHANGED <<i, child, found, live, delay, armed, flag, pending, proc, crashes>>
  BY DEF IInv, AtSlot, SetPid, loop
<1>2. /\ workers' \in [Slots -> [pid : Pids \cup {NoPid}, exited : BOOLEAN,
                                 exiting : BOOLEAN]]
      /\ workers'[i].pid = child /\ workers'[i].exited = workers[i].exited
      /\ \A k \in Slots : k # i => workers'[k] = workers[k]
  BY <1>1 DEF StateOK
<1>3. StateOK'
  BY <1>1, <1>2 DEF StateOK
<1>4. Housed'
  <2>1. SUFFICES ASSUME NEW p \in RunningProcs PROVE \E k \in Slots : Holder(k)' = p
    BY <1>1 DEF Housed, RunningProcs
  <2>2. PICK k \in Slots : Holder(k) = p
    BY DEF IInv, Housed
  <2> QED BY <1>1, <1>2, <2>2 DEF Holder
<1>5. MarkedGone'
  BY <1>1, <1>2 DEF IInv, MarkedGone
<1>6. AtSlot' /\ Spare'
  BY <1>1 DEF AtSlot, Spare
<1>7. LiveKnown'
  BY <1>1, <1>2 DEF IInv, LiveKnown, Empty, Slots
<1>8. Told' /\ Counted'
  BY <1>1 DEF IInv, Told, Counted, ShuttingDown, Leaving, Dead
<1> QED BY <1>3, <1>4, <1>5, <1>6, <1>7, <1>8 DEF IInv

(* The mark is cleared.                                                    *)
LEMMA SetExitedKeeps == IInv /\ SetExited => IInv'
<1> SUFFICES ASSUME IInv, SetExited PROVE IInv'
  OBVIOUS
<1>1. StateOK /\ mpc = "set_exited" /\ mpc' = "scan" /\ i \in Slots
      /\ found' /\ i' = i + 1 /\ child' = NoPid
      /\ UNCHANGED <<live, delay, armed, flag, pending, proc, crashes>>
  BY DEF IInv, AtSlot, SetExited
<1>2. /\ workers' \in [Slots -> [pid : Pids \cup {NoPid}, exited : BOOLEAN,
                                 exiting : BOOLEAN]]
      /\ workers'[i].pid = workers[i].pid /\ ~workers'[i].exited
      /\ \A k \in Slots : k # i => workers'[k] = workers[k]
  <2>1. workers \in [Slots -> Slot]
    BY <1>1 DEF StateOK, Slot
  <2> DEFINE w == [workers[i] EXCEPT !.exited = FALSE, !.exiting = FALSE]
  <2>2. workers' = [workers EXCEPT ![i] = w]
    BY <1>1, <2>1, Zenon DEF SetExited
  <2>3. w \in Slot /\ w.pid = workers[i].pid /\ w.exited = FALSE
    <3>1. workers[i] \in Slot /\ FALSE \in BOOLEAN
      BY <1>1, <2>1
    <3> QED BY ONLY <3>1, MarkFacts, Zenon
  <2> HIDE DEF w
  <2>4. /\ workers' \in [Slots -> Slot] /\ workers'[i] = w
        /\ \A k \in Slots : k # i => workers'[k] = workers[k]
    BY <1>1, <2>1, <2>2, <2>3
  <2> QED BY <2>3, <2>4 DEF Slot
<1>3. StateOK'
  <2>1. found' \in BOOLEAN
    BY DEF SetExited
  <2> QED BY <1>1, <1>2, <2>1, WorkersAssumption DEF StateOK, Slots
<1>4. Housed'
  <2>1. SUFFICES ASSUME NEW p \in RunningProcs PROVE \E k \in Slots : Holder(k)' = p
    BY <1>1 DEF Housed, RunningProcs
  <2>2. PICK k \in Slots : Holder(k) = p
    BY DEF IInv, Housed
  <2> QED BY <1>1, <1>2, <2>2 DEF Holder
<1>5. MarkedGone'
  BY <1>1, <1>2 DEF IInv, MarkedGone
<1>6. AtSlot' /\ Spare'
  BY <1>1 DEF AtSlot, Spare
<1>7. LiveKnown'
  BY <1>1 DEF LiveKnown
<1>8. Told' /\ Counted'
  BY <1>1 DEF IInv, Told, Counted, ShuttingDown, Leaving, Dead
<1> QED BY <1>3, <1>4, <1>5, <1>6, <1>7, <1>8 DEF IInv

-----------------------------------------------------------------------------
(* What signals and workers may do between two steps of the master: flags  *)
(* rise, processes age, and a slot is marked when its process is gone.     *)
Disturbs ==
  /\ UNCHANGED <<i, found, live, child>>
  /\ (flag.terminate => flag'.terminate) /\ (flag.quit => flag'.quit)
  /\ \A p \in Pids : /\ proc'[p].st = "unborn" <=> proc[p].st = "unborn"
                     /\ proc[p].st = "gone" => proc'[p].st = "gone"
                     /\ proc'[p].st \in Running => proc[p].st \in Running
  /\ \A k \in Slots :
       /\ workers'[k].pid = workers[k].pid
       /\ workers[k].exited => workers'[k].exited
       /\ workers'[k].exited /\ ~workers[k].exited =>
            workers[k].pid \in Pids /\ proc'[workers[k].pid].st = "gone"
  /\ \/ mpc' = mpc
     \/ mpc = "suspend" /\ mpc' = "check"
     \/ mpc = "act" /\ live /\ mpc' = "top"

LEMMA Disturbed ==
  IInv /\ Disturbs => Housed' /\ MarkedGone' /\ AtSlot' /\ LiveKnown' /\ Spare'
<1> SUFFICES ASSUME IInv, Disturbs
             PROVE  Housed' /\ MarkedGone' /\ AtSlot' /\ LiveKnown' /\ Spare'
  OBVIOUS
<1>1. Housed'
  <2>1. SUFFICES ASSUME NEW p \in RunningProcs' PROVE \E k \in Slots : Holder(k)' = p
    BY DEF Housed
  <2>2. p \in RunningProcs
    BY <2>1 DEF Disturbs, RunningProcs
  <2>3. PICK k \in Slots : Holder(k) = p
    BY <2>2 DEF IInv, Housed
  <2>4. Holder(k)' = Holder(k)
    BY DEF Disturbs, Holder
  <2> QED BY <2>3, <2>4
<1>2. MarkedGone'
  <2>1. SUFFICES ASSUME NEW k \in Slots, workers'[k].exited
                 PROVE  /\ workers'[k].pid \in Pids
                        /\ (mpc' = "set_exited" /\ k = i')
                             \/ proc'[workers'[k].pid].st = "gone"
    BY DEF MarkedGone
  <2>2. workers'[k].pid = workers[k].pid /\ i' = i
    BY DEF Disturbs
  <2>3. CASE ~workers[k].exited
    BY <2>1, <2>2, <2>3 DEF Disturbs
  <2>4. CASE workers[k].exited
    <3>1. /\ workers[k].pid \in Pids
          /\ (mpc = "set_exited" /\ k = i) \/ proc[workers[k].pid].st = "gone"
      BY <2>4 DEF IInv, MarkedGone
    <3>2. mpc = "set_exited" => mpc' = "set_exited"
      BY DEF Disturbs
    <3>3. proc[workers[k].pid].st = "gone" => proc'[workers[k].pid].st = "gone"
      BY <3>1 DEF Disturbs
    <3> QED BY <2>2, <3>1, <3>2, <3>3
  <2> QED BY <2>3, <2>4
<1>3. AtSlot'
  BY DEF IInv, AtSlot, Disturbs
<1>4. LiveKnown'
  <2>1. \A k \in Slots : Empty(k) => Empty(k)'
    BY DEF Disturbs, Empty
  <2> QED BY <2>1 DEF IInv, LiveKnown, Disturbs
<1>5. Spare'
  <2>1. Born' = Born
    BY DEF Disturbs, Born
  <2> QED BY <2>1 DEF IInv, Spare, Disturbs
<1> QED BY <1>1, <1>2, <1>3, <1>4, <1>5

(* A new state of a process.                                               *)
Process == [st : States, status : {"WORKER", "MASTER"}]

LEMMA ProcessFacts ==
  ASSUME NEW r \in Process, NEW s \in States
  PROVE  [r EXCEPT !.st = s] \in Process /\ [r EXCEPT !.st = s].st = s
BY DEF Process

(* The signal handler: the flags that it may raise, and what waitpid       *)
(* collects.                                                               *)
LEMMA HandlerFacts ==
  ASSUME StateOK, SignalHandler
  PROVE  /\ flag' \in FlagType
         /\ (flag.terminate => flag'.terminate) /\ (flag.quit => flag'.quit)
         /\ proc' \in [Pids -> Process] /\ workers' \in [Slots -> Slot]
         /\ \A p \in Pids : \/ proc'[p].st = proc[p].st
                            \/ proc[p].st = "zombie" /\ proc'[p].st = "gone"
         /\ \A k \in Slots :
              /\ workers'[k].pid = workers[k].pid
              /\ workers[k].exited => workers'[k].exited
              /\ workers'[k].exited /\ ~workers[k].exited =>
                   workers[k].pid \in Pids /\ proc'[workers[k].pid].st = "gone"
         /\ pending' = {} /\ UNCHANGED <<i, child, found, live, delay, armed, crashes>>
<1>1. flag \in FlagType /\ workers \in [Slots -> Slot] /\ proc \in [Pids -> Process]
  BY DEF StateOK, FlagType, Slot, Process
<1>2. /\ flag' \in FlagType
      /\ (flag.terminate => flag'.terminate) /\ (flag.quit => flag'.quit)
  <2> DEFINE b == flag.terminate \/ "SIGINT" \in pending
             c == flag.quit \/ "SIGQUIT" \in pending
             d == flag.reap \/ "SIGCHLD" \in pending
             e == flag.sigalarm \/ "SIGALRM" \in pending
             t == [flag EXCEPT !.terminate = b, !.quit = c, !.reap = d, !.sigalarm = e]
  <2>1. flag' = t
    BY Zenon DEF SignalHandler
  <2>2. /\ b \in BOOLEAN /\ c \in BOOLEAN /\ d \in BOOLEAN /\ e \in BOOLEAN
        /\ (flag.terminate => b) /\ (flag.quit => c)
    OBVIOUS
  <2>3. flag \in FlagType
    BY <1>1
  <2> HIDE DEF b, c, d, e
  <2>4. t \in FlagType /\ (b => t.terminate) /\ (c => t.quit)
    <3>1. t \in FlagType
      BY ONLY <2>2, <2>3, FlagsFacts, Zenon
    <3>2. b => t.terminate
      BY ONLY <2>2, <2>3, FlagsFacts, Zenon
    <3>3. c => t.quit
      BY ONLY <2>2, <2>3, FlagsFacts, Zenon
    <3> QED BY ONLY <3>1, <3>2, <3>3
  <2> HIDE DEF t
  <2> QED BY <2>1, <2>2, <2>4
<1>3. pending' = {} /\ UNCHANGED <<i, child, found, live, delay, armed, crashes>>
  BY DEF SignalHandler, loop
<1>4. CASE ProcessGetStatus
  <2> DEFINE dead == {p \in Pids : proc[p].st = "zombie"}
  <2>1. /\ proc' \in [Pids -> Process]
        /\ \A p \in Pids : IF p \in dead THEN proc'[p].st = "gone"
                           ELSE proc'[p].st = proc[p].st
    <3>1. proc' = [p \in Pids |-> IF p \in dead THEN [proc[p] EXCEPT !.st = "gone"]
                                  ELSE proc[p]]
      BY <1>4 DEF ProcessGetStatus
    <3>2. \A p \in Pids : /\ [proc[p] EXCEPT !.st = "gone"] \in Process
                          /\ [proc[p] EXCEPT !.st = "gone"].st = "gone"
      BY <1>1, ProcessFacts DEF States
    <3> QED BY <1>1, <3>1, <3>2
  <2>2. /\ workers' \in [Slots -> Slot]
        /\ \A k \in Slots :
             /\ workers'[k].pid = workers[k].pid
             /\ workers'[k].exited = (workers[k].exited \/ workers[k].pid \in dead)
    <3>1. workers' = [k \in Slots |-> IF workers[k].pid \in dead
                                      THEN [workers[k] EXCEPT !.exited = TRUE]
                                      ELSE workers[k]]
      BY <1>4, Zenon DEF ProcessGetStatus
    <3>2. \A k \in Slots : /\ [workers[k] EXCEPT !.exited = TRUE] \in Slot
                           /\ [workers[k] EXCEPT !.exited = TRUE].pid = workers[k].pid
                           /\ [workers[k] EXCEPT !.exited = TRUE].exited = TRUE
      <4>1. TRUE \in BOOLEAN /\ \A k \in Slots : workers[k] \in Slot
        BY <1>1
      <4> QED BY ONLY <4>1, MarkFacts, Zenon
    <3>3. \A k \in Slots : workers[k] \in Slot /\ workers[k].exited \in BOOLEAN
      BY <1>1 DEF Slot
    <3> DEFINE m(k) == [workers[k] EXCEPT !.exited = TRUE]
    <3>4. workers' = [k \in Slots |-> IF workers[k].pid \in dead THEN m(k) ELSE workers[k]]
      BY ONLY <3>1, Zenon
    <3>5. \A k \in Slots : m(k) \in Slot /\ m(k).pid = workers[k].pid /\ m(k).exited = TRUE
      BY ONLY <3>2, Zenon
    <3> HIDE DEF m, dead
    <3> QED BY ONLY <3>3, <3>4, <3>5
  <2>3. \A p \in Pids : \/ proc'[p].st = proc[p].st
                        \/ proc[p].st = "zombie" /\ proc'[p].st = "gone"
    BY <2>1
  <2>4. \A k \in Slots : workers'[k].exited /\ ~workers[k].exited =>
          workers[k].pid \in Pids /\ proc'[workers[k].pid].st = "gone"
    BY <2>1, <2>2
  <2> HIDE DEF dead
  <2> QED BY <1>2, <1>3, <2>1, <2>2, <2>3, <2>4
<1>5. CASE UNCHANGED <<proc, workers>>
  BY <1>1, <1>2, <1>3, <1>5
<1> QED BY <1>4, <1>5 DEF SignalHandler

(* Interrupt and Wake: a signal arrives anywhere.                          *)
LEMMA HandlerKeeps == IInv /\ (Interrupt \/ Wake) => IInv'
<1> SUFFICES ASSUME IInv, Interrupt \/ Wake PROVE IInv'
  OBVIOUS
<1>1. StateOK /\ SignalHandler
      /\ (mpc' = mpc \/ (mpc = "suspend" /\ mpc' = "check"))
  BY DEF IInv, Interrupt, Wake
<1>2. /\ flag' \in FlagType
      /\ (flag.terminate => flag'.terminate) /\ (flag.quit => flag'.quit)
      /\ proc' \in [Pids -> Process] /\ workers' \in [Slots -> Slot]
      /\ \A p \in Pids : \/ proc'[p].st = proc[p].st
                         \/ proc[p].st = "zombie" /\ proc'[p].st = "gone"
      /\ \A k \in Slots :
           /\ workers'[k].pid = workers[k].pid
           /\ workers[k].exited => workers'[k].exited
           /\ workers'[k].exited /\ ~workers[k].exited =>
                workers[k].pid \in Pids /\ proc'[workers[k].pid].st = "gone"
      /\ pending' = {} /\ UNCHANGED <<i, child, found, live, delay, armed, crashes>>
  BY <1>1, HandlerFacts
<1>3. Disturbs
  BY <1>1, <1>2 DEF Disturbs, Running
<1>4. StateOK'
  BY <1>1, <1>2 DEF StateOK, FlagType, Process, Slot
<1>5. Told'
  BY <1>1, <1>2 DEF IInv, Told, ShuttingDown, Leaving
<1>6. Counted'
  <2>1. Dead' = Dead
    BY <1>2 DEF Dead
  <2> QED BY <1>1, <1>2, <2>1 DEF IInv, Counted, ShuttingDown, Leaving
<1> QED BY <1>3, <1>4, <1>5, <1>6, Disturbed DEF IInv

(* The operator and the interval timer only send signals.                  *)
LEMMA SendersKeep == IInv /\ (Operator \/ Alarm) => IInv'
<1> SUFFICES ASSUME IInv, Operator \/ Alarm PROVE IInv'
  OBVIOUS
<1>1. /\ UNCHANGED <<mpc, i, child, found, live, delay, flag, workers, proc, crashes>>
      /\ armed' \in BOOLEAN
      /\ pending' \subseteq {"SIGINT", "SIGQUIT", "SIGCHLD", "SIGALRM"}
  <2>1. CASE Operator
    <3>1. PICK r \in Requests :
            /\ pending' = pending \cup {r}
            /\ UNCHANGED <<mpc, loop, delay, armed, flag, workers, proc, crashes>>
      BY <2>1 DEF Operator
    <3>2. pending' \subseteq {"SIGINT", "SIGQUIT", "SIGCHLD", "SIGALRM"}
      BY <3>1, RequestsAssumption DEF IInv, StateOK
    <3> QED BY <3>1, <3>2 DEF loop, IInv, StateOK
  <2>2. CASE Alarm
    <3>1. armed' \in BOOLEAN
      BY <2>2 DEF Alarm
    <3>2. pending' \subseteq {"SIGINT", "SIGQUIT", "SIGCHLD", "SIGALRM"}
      BY <2>2 DEF Alarm, IInv, StateOK
    <3>3. UNCHANGED <<mpc, i, child, found, live, delay, flag, workers, proc, crashes>>
      BY <2>2 DEF Alarm, loop
    <3> QED BY <3>1, <3>2, <3>3
  <2> QED BY <2>1, <2>2
<1>2. Disturbs
  BY <1>1 DEF Disturbs
<1>3. StateOK'
  BY <1>1 DEF IInv, StateOK
<1>4. Told' /\ Counted'
  BY <1>1 DEF IInv, Told, Counted, ShuttingDown, Leaving, Dead
<1> QED BY <1>2, <1>3, <1>4, Disturbed DEF IInv

(* A worker ends or gets stuck; before a shutdown only a crash does that.  *)
LEMMA WorkerKeeps == IInv /\ WorkerStep => IInv'
<1> SUFFICES ASSUME IInv, NEW p \in Pids,
                    \/ WorkerExits(p) \/ WorkerDrained(p)
                    \/ WorkerCrashes(p) \/ WorkerAborts(p)
             PROVE  IInv'
  BY DEF WorkerStep
<1>1. StateOK /\ proc \in [Pids -> Process]
  BY DEF IInv, StateOK, Process
<1>2. /\ UNCHANGED <<mpc, i, child, found, live, delay, armed, flag, workers>>
      /\ proc[p].st \in Running
      /\ \E s \in {"zombie", "stuck"} : proc' = [proc EXCEPT ![p].st = s]
      /\ pending' = pending \cup {"SIGCHLD"} \/ pending' = pending
      /\ \/ (ShuttingDown \/ Leaving) /\ crashes' = crashes
         \/ crashes < MaxCrashes /\ crashes' = crashes + 1
  <2>1. CASE WorkerExits(p)
    BY <2>1 DEF WorkerExits, Die, loop, Running, IInv, Told, ShuttingDown, Leaving
  <2>2. CASE WorkerDrained(p)
    BY <2>2 DEF WorkerDrained, Die, loop, Running, IInv, Told
  <2>3. CASE WorkerCrashes(p)
    BY <2>3 DEF WorkerCrashes, Die, loop
  <2>4. CASE WorkerAborts(p)
    BY <2>4 DEF WorkerAborts, Die, loop
  <2> QED BY <2>1, <2>2, <2>3, <2>4
<1>3. PICK s \in {"zombie", "stuck"} : proc' = [proc EXCEPT ![p].st = s]
  BY <1>2
<1>4. /\ proc' \in [Pids -> Process]
      /\ proc'[p].st = s
      /\ \A q \in Pids : q # p => proc'[q] = proc[q]
  BY <1>1, <1>3 DEF Process, States, Running
<1>5. Disturbs
  BY <1>2, <1>4 DEF Disturbs, Running
<1>6. StateOK'
  <2>1. crashes' \in 0 .. MaxCrashes
    BY <1>1, <1>2, MaxCrashesAssumption DEF StateOK
  <2> QED BY <1>1, <1>2, <1>4, <2>1 DEF StateOK, Process
<1>7. Told'
  BY <1>2, <1>4 DEF IInv, Told, ShuttingDown, Leaving
<1>8. Counted'
  <2>1. SUFFICES ASSUME ~ShuttingDown, ~Leaving PROVE Cardinality(Dead') <= crashes'
    BY <1>2 DEF Counted, ShuttingDown, Leaving
  <2>2. Cardinality(Dead) <= crashes /\ crashes' = crashes + 1
    BY <1>2, <2>1 DEF IInv, Counted
  <2>3. Dead' \subseteq Dead \cup {p}
    BY <1>4 DEF Dead
  <2>4. IsFiniteSet(Dead) /\ Cardinality(Dead) \in Nat
    BY PidSets DEF Dead
  <2>5. /\ IsFiniteSet(Dead \cup {p})
        /\ Cardinality(Dead \cup {p}) <= Cardinality(Dead) + 1
    <3>1. /\ IsFiniteSet(Dead \cup {p})
          /\ Cardinality(Dead \cup {p}) \in {Cardinality(Dead), Cardinality(Dead) + 1}
      BY <2>4, FS_AddElement
    <3> QED BY <2>4, <3>1
  <2>6. Cardinality(Dead \cup {p}) \in Nat /\ Cardinality(Dead') \in Nat
        /\ Cardinality(Dead') <= Cardinality(Dead \cup {p})
    BY <2>3, <2>5, FS_Subset, FS_CardinalityType
  <2> QED BY <1>1, <2>2, <2>4, <2>5, <2>6 DEF StateOK
<1> QED BY <1>5, <1>6, <1>7, <1>8, Disturbed DEF IInv

(* What a signal makes of a process.                                       *)
LEMMA EffectFacts ==
  ASSUME NEW st \in States, NEW signo \in {"SIGKILL", "SIGINT", "SIGQUIT"}
  PROVE  /\ Effect(st, signo) \in States
         /\ st \notin Running => Effect(st, signo) = st
         /\ Effect(st, signo) = "unborn" <=> st = "unborn"
         /\ Effect(st, signo) = "terminating" /\ st # "terminating" => signo = "SIGINT"
         /\ Effect(st, signo) = "draining" /\ st # "draining" => signo = "SIGQUIT"
<1>1. CASE st \notin Running
  BY <1>1 DEF Effect, Running, States
<1>2. CASE st \in Running /\ signo = "SIGKILL"
  BY <1>2 DEF Effect, Running, States
<1>3. CASE st \in Running /\ signo = "SIGINT"
  BY <1>3 DEF Effect, Running, States
<1>4. CASE st \in Running /\ signo = "SIGQUIT"
  BY <1>4 DEF Effect, Running, States
<1> QED BY <1>1, <1>2, <1>3, <1>4

(* signal_worker_processes during a shutdown.                              *)
LEMMA SignalFacts ==
  ASSUME IInv, NEW signo \in {"SIGKILL", "SIGINT", "SIGQUIT"}, Signal(signo),
         signo = "SIGINT" => flag.terminate, signo = "SIGQUIT" => flag.quit,
         ShuttingDown, mpc = "act", live, mpc' = "top",
         UNCHANGED <<i, found, live, child, armed, crashes>>,
         delay' \in Nat
  PROVE  IInv'
<1>1. /\ flag \in FlagType /\ workers \in [Slots -> Slot] /\ proc \in [Pids -> Process]
      /\ \A p \in Pids : proc[p].st \in States
  BY DEF IInv, StateOK, FlagType, Slot, Process
<1>2. /\ flag' \in FlagType
      /\ (flag.terminate => flag'.terminate) /\ (flag.quit => flag'.quit)
  <2> DEFINE b == flag.reap \/ Missing(workers, proc, signo) # {}
             r == [flag EXCEPT !.reap = b]
  <2>1. flag' = r
    BY DEF Signal
  <2>2. b \in BOOLEAN /\ flag \in FlagType
    BY <1>1
  <2> HIDE DEF b
  <2>3. r \in FlagType
    BY ONLY <2>2, FlagFacts, Zenon
  <2>4. (flag.terminate => r.terminate) /\ (flag.quit => r.quit)
    BY ONLY <2>2, FlagFacts, Zenon
  <2> HIDE DEF r
  <2> QED BY <2>1, <2>3, <2>4
<1>3. /\ proc' \in [Pids -> Process]
      /\ \A p \in Pids : proc'[p].st \in {proc[p].st, Effect(proc[p].st, signo)}
  <2>1. \A p \in Pids :
          /\ [proc[p] EXCEPT !.st = Effect(proc[p].st, signo)] \in Process
          /\ [proc[p] EXCEPT !.st = Effect(proc[p].st, signo)].st =
               Effect(proc[p].st, signo)
    BY <1>1, EffectFacts, ProcessFacts
  <2>2. proc' = [p \in Pids |->
                   IF \E k \in Targets(workers, signo) : workers[k].pid = p
                   THEN [proc[p] EXCEPT !.st = Effect(proc[p].st, signo)]
                   ELSE proc[p]]
    BY DEF Signal, Killed
  <2> QED BY <1>1, <2>1, <2>2
<1>4. /\ workers' \in [Slots -> Slot]
      /\ \A k \in Slots :
           /\ workers'[k].pid = workers[k].pid
           /\ k \in Missing(workers, proc, signo) \/ workers'[k].exited = workers[k].exited
           /\ k \in Missing(workers, proc, signo) => workers'[k].exited
  <2> DEFINE missed(k) == [workers[k] EXCEPT !.exited = TRUE, !.exiting = FALSE]
             told(k) == [workers[k] EXCEPT !.exiting = TRUE]
  <2>1. workers' = [k \in Slots |->
                      IF k \in Missing(workers, proc, signo) THEN missed(k)
                      ELSE IF k \in Targets(workers, signo) THEN told(k)
                      ELSE workers[k]]
    <3>1. workers' = Marked(workers, proc, signo)
      BY DEF Signal
    <3>2. Marked(workers, proc, signo) =
            [k \in Slots |->
               IF k \in Missing(workers, proc, signo)
               THEN [workers[k] EXCEPT !.exited = TRUE, !.exiting = FALSE]
               ELSE IF k \in Targets(workers, signo)
                    THEN [workers[k] EXCEPT !.exiting = TRUE]
                    ELSE workers[k]]
      BY DEF Marked
    <3> QED BY ONLY <3>1, <3>2, Zenon
  <2>2. TRUE \in BOOLEAN /\ FALSE \in BOOLEAN /\ \A k \in Slots : workers[k] \in Slot
    BY <1>1
  <2>3. \A k \in Slots :
          missed(k) \in Slot /\ missed(k).pid = workers[k].pid /\ missed(k).exited = TRUE
    BY ONLY <2>2, MarkFacts, Zenon
  <2>4. \A k \in Slots : /\ told(k) \in Slot /\ told(k).pid = workers[k].pid
                         /\ told(k).exited = workers[k].exited
    BY ONLY <2>2, MarkFacts, Zenon
  <2> HIDE DEF missed, told
  <2> QED BY ONLY <2>1, <2>2, <2>3, <2>4
<1>5. \A k \in Missing(workers, proc, signo) :
        workers[k].pid \in Pids /\ proc[workers[k].pid].st = "gone"
  <2>1. SUFFICES ASSUME NEW k \in Missing(workers, proc, signo)
                 PROVE  workers[k].pid \in Pids /\ proc[workers[k].pid].st = "gone"
    OBVIOUS
  <2>2. k \in Slots /\ workers[k].pid > 0 /\ proc[workers[k].pid].st = "gone"
    BY <2>1 DEF Missing, Targets
  <2>3. workers[k].pid \in Pids \cup {NoPid}
    BY <1>1, <2>2 DEF Slot
  <2> QED BY <2>2, <2>3 DEF NoPid
<1>6. \A p \in Pids :
        /\ proc'[p].st = "unborn" <=> proc[p].st = "unborn"
        /\ proc[p].st = "gone" => proc'[p].st = "gone"
        /\ proc'[p].st \in Running => proc[p].st \in Running
        /\ proc'[p].st = "terminating" => flag.terminate
        /\ proc'[p].st = "draining" => ShuttingDown
  <2>1. SUFFICES ASSUME NEW p \in Pids
                 PROVE  /\ proc'[p].st = "unborn" <=> proc[p].st = "unborn"
                        /\ proc[p].st = "gone" => proc'[p].st = "gone"
                        /\ proc'[p].st \in Running => proc[p].st \in Running
                        /\ proc'[p].st = "terminating" => flag.terminate
                        /\ proc'[p].st = "draining" => ShuttingDown
    OBVIOUS
  <2>2. CASE proc'[p].st = proc[p].st
    BY <2>2 DEF IInv, Told
  <2>3. CASE proc'[p].st = Effect(proc[p].st, signo)
    <3> DEFINE st == proc[p].st
               nx == Effect(proc[p].st, signo)
    <3>1. /\ st \notin Running => nx = st
          /\ nx = "unborn" <=> st = "unborn"
          /\ nx = "terminating" /\ st # "terminating" => signo = "SIGINT"
          /\ nx = "draining" /\ st # "draining" => signo = "SIGQUIT"
      BY <1>1, EffectFacts
    <3>2. /\ st = "terminating" => flag.terminate
          /\ st = "draining" => ShuttingDown
      BY DEF IInv, Told
    <3> QED BY <2>3, <3>1, <3>2 DEF Running
  <2> QED BY <1>3, <2>2, <2>3
<1>7. Disturbs
  <2>1. \A k \in Slots :
          /\ workers'[k].pid = workers[k].pid
          /\ workers[k].exited => workers'[k].exited
          /\ workers'[k].exited /\ ~workers[k].exited =>
               workers[k].pid \in Pids /\ proc'[workers[k].pid].st = "gone"
    BY <1>4, <1>5, <1>6
  <2> QED BY <1>2, <1>6, <2>1 DEF Disturbs
<1>8. StateOK'
  <2>1. pending' \subseteq {"SIGINT", "SIGQUIT", "SIGCHLD", "SIGALRM"}
    BY DEF Signal, IInv, StateOK
  <2>2. child \in Pids \cup {NoPid} /\ i \in 1 .. Workers + 1 /\ found \in BOOLEAN
        /\ live \in BOOLEAN /\ armed \in BOOLEAN /\ crashes \in 0 .. MaxCrashes
    BY DEF IInv, StateOK
  <2> QED BY <1>2, <1>3, <1>4, <2>1, <2>2 DEF StateOK, FlagType, Process, Slot
<1>9. Told' /\ Counted'
  BY <1>2, <1>6 DEF Told, Counted, ShuttingDown, Leaving
<1> QED BY <1>7, <1>8, <1>9, Disturbed DEF IInv

LEMMA ShutdownKeeps == IInv /\ (Terminate \/ Quit) => IInv'
<1> SUFFICES ASSUME IInv, Terminate \/ Quit PROVE IInv'
  OBVIOUS
<1>1. CASE Terminate
  <2>1. PICK signo \in {"SIGKILL", "SIGINT"} : Signal(signo)
    BY <1>1 DEF Terminate, KillAll
  <2>2. /\ mpc = "act" /\ live /\ flag.terminate /\ mpc' = "top"
        /\ UNCHANGED <<i, found, live, child, armed, crashes>>
        /\ delay' \in Nat
    BY <1>1, FirstDelayAssumption DEF Terminate, loop, IInv, StateOK
  <2> QED BY <2>1, <2>2, SignalFacts DEF ShuttingDown
<1>2. CASE Quit
  <2>1. /\ Signal("SIGQUIT") /\ mpc = "act" /\ live /\ flag.quit /\ mpc' = "top"
        /\ UNCHANGED <<i, found, live, child, armed, crashes>>
        /\ delay' \in Nat
    BY <1>2 DEF Quit, loop, IInv, StateOK
  <2> QED BY <2>1, SignalFacts DEF ShuttingDown
<1> QED BY <1>1, <1>2

-----------------------------------------------------------------------------
LEMMA InitHolds == Init => IInv
<1> SUFFICES ASSUME Init PROVE IInv
  OBVIOUS
<1>1. StateOK
  <2>1. /\ workers \in [Slots -> [pid : Pids \cup {NoPid}, exited : BOOLEAN,
                                  exiting : BOOLEAN]]
        /\ flag \in [reap : BOOLEAN, quit : BOOLEAN, terminate : BOOLEAN,
                     sigalarm : BOOLEAN]
    BY DEF Init
  <2>2. proc \in [Pids -> [st : States, status : {"WORKER", "MASTER"}]]
    BY DEF Init, States
  <2>3. i \in 1 .. Workers + 1 /\ crashes \in 0 .. MaxCrashes
    BY WorkersAssumption, MaxCrashesAssumption DEF Init
  <2>4. found \in BOOLEAN /\ live \in BOOLEAN /\ armed \in BOOLEAN
    BY DEF Init
  <2>5. mpc = "create" /\ child = NoPid /\ delay = 0 /\ pending = {}
    BY DEF Init
  <2> QED BY <2>1, <2>2, <2>3, <2>4, <2>5 DEF StateOK
<1>2. \A p \in Pids : proc[p].st = "unborn"
  BY DEF Init
<1>3. \A k \in Slots : workers[k].pid = NoPid /\ ~workers[k].exited
  BY DEF Init
<1>4. Housed
  BY <1>2 DEF Housed, RunningProcs, Running
<1>5. MarkedGone
  BY <1>3 DEF MarkedGone
<1>6. AtSlot /\ LiveKnown
  BY <1>3, WorkersAssumption DEF Init, AtSlot, LiveKnown, Slots
<1>7. Told
  BY <1>2 DEF Told
<1>8. Dead = {} /\ Born = {}
  BY <1>2 DEF Dead, Born
<1>9. Counted /\ Spare
  BY <1>8, FS_EmptySet DEF Init, Counted, Spare
<1> QED BY <1>1, <1>4, <1>5, <1>6, <1>7, <1>9 DEF IInv

(* After a failed fork the master runs the loop of a worker.               *)
LEMMA WorkerLoopKeeps == IInv /\ (WorkerLoop \/ WorkerLoopDrained) => IInv'
<1> SUFFICES ASSUME IInv, WorkerLoop \/ WorkerLoopDrained PROVE IInv'
  OBVIOUS
<1>1. /\ mpc \in {"worker", "drain"} /\ mpc' \in {"drain", "ended"}
      /\ flag' = flag \/ flag' = [flag EXCEPT !.quit = FALSE]
      /\ UNCHANGED <<i, child, found, live, delay, armed, pending, workers, proc, crashes>>
  BY DEF WorkerLoop, WorkerLoopDrained, loop
<1>2. flag' \in FlagType /\ flag'.terminate = flag.terminate
  BY <1>1 DEF IInv, StateOK, FlagType
<1>3. StateOK'
  BY <1>1, <1>2 DEF IInv, StateOK, FlagType
<1>4. Housed' /\ MarkedGone'
  BY <1>1 DEF IInv, Housed, MarkedGone, Holder, RunningProcs
<1>5. AtSlot' /\ LiveKnown' /\ Spare'
  BY <1>1 DEF AtSlot, LiveKnown, Spare
<1>6. Told' /\ Counted'
  BY <1>1, <1>2 DEF IInv, Told, Counted, Leaving
<1> QED BY <1>3, <1>4, <1>5, <1>6 DEF IInv

LEMMA StutterKeeps == IInv /\ UNCHANGED vars => IInv'
<1> SUFFICES ASSUME IInv, UNCHANGED vars PROVE IInv'
  OBVIOUS
<1>1. UNCHANGED <<mpc, i, child, found, live, delay, armed, flag, pending, workers,
                  proc, crashes>>
  BY DEF vars
<1>2. Disturbs
  BY <1>1 DEF Disturbs
<1>3. StateOK' /\ Told' /\ Counted'
  BY <1>1 DEF IInv, StateOK, Told, Counted, ShuttingDown, Leaving, Dead
<1> QED BY <1>2, <1>3, Disturbed DEF IInv

(* The invariant holds in every reachable state.                           *)
THEOREM Invariant == Spec => []IInv
<1>1. IInv /\ [Next]_vars => IInv'
  <2> SUFFICES ASSUME IInv, [Next]_vars PROVE IInv'
    OBVIOUS
  <2>1. CASE MasterStep
    BY <2>1, CreateForkKeeps, CreatePushKeeps, CycleKeeps, ScanKeeps,
       SpawnProcessKeeps, SetPidKeeps, SetExitedKeeps, ShutdownKeeps,
       WorkerLoopKeeps DEF MasterStep
  <2>2. CASE Interrupt \/ Wake
    BY <2>2, HandlerKeeps
  <2>3. CASE Operator \/ Alarm
    BY <2>3, SendersKeep
  <2>4. CASE WorkerStep
    BY <2>4, WorkerKeeps
  <2>5. CASE WorkerLoopDrained
    BY <2>5, WorkerLoopKeeps
  <2>6. CASE Ended \/ UNCHANGED vars
    BY <2>6, StutterKeeps DEF Ended
  <2> QED BY <2>1, <2>2, <2>3, <2>4, <2>5, <2>6 DEF Next
<1> QED BY InitHolds, <1>1, PTL DEF Spec

(* The master leaves only after its last worker: a false `live' says that  *)
(* every slot is empty, every running process is held by a slot, and a     *)
(* marked slot's process is gone (master.c:191-196).                       *)
THEOREM MasterLeavesLast == Spec => []MasterLast
<1>1. IInv => MasterLast
  <2> SUFFICES ASSUME IInv, mpc = "exited", NEW p \in RunningProcs PROVE FALSE
    BY DEF MasterLast
  <2>1. PICK k \in Slots : workers[k].pid = p
    BY DEF IInv, Housed, Holder
  <2>2. p # NoPid /\ proc[p].st \in Running
    BY DEF RunningProcs, Pids, NoPid
  <2>3. workers[k].exited => proc[p].st = "gone"
    BY <2>1 DEF IInv, MarkedGone
  <2>4. ~Empty(k)
    BY <2>1, <2>2, <2>3 DEF Empty, Running
  <2> QED BY <2>4 DEF IInv, LiveKnown
<1> QED BY <1>1, Invariant, PTL

(* The history variables keep their types.                                 *)
LEMMA HistoryKept == IInv /\ HistoryOK /\ [Next]_vars => HistoryOK'
<1> SUFFICES ASSUME IInv, HistoryOK, [Next]_vars PROVE HistoryOK'
  OBVIOUS
<1>1. child \in Pids \cup {NoPid}
  BY DEF IInv, StateOK
<1>2. CASE Interrupt
  <2>1. lost' \in BOOLEAN
    BY <1>2 DEF Interrupt
  <2>2. (early' = early \cup {child} /\ child # NoPid) \/ early' = early
    BY <1>2 DEF Interrupt
  <2> QED BY <1>1, <2>1, <2>2 DEF HistoryOK
<1>3. CASE Wake
  BY <1>3 DEF Wake, HistoryOK
<1>4. CASE SetPid
  BY <1>4 DEF SetPid, HistoryOK
<1>5. CASE MasterStep /\ ~SetPid
  BY <1>5 DEF MasterStep, CreateFork, CreatePush, Top, Suspend, Check, Scan,
              SpawnProcess, SetExited, MasterExit, Terminate, Quit, Again,
              WorkerLoop, history, HistoryOK
<1>6. CASE WorkerLoopDrained \/ Operator \/ Alarm \/ WorkerStep
  BY <1>6 DEF WorkerLoopDrained, Operator, Alarm, WorkerStep, WorkerExits,
              WorkerDrained, WorkerCrashes, WorkerAborts, history, HistoryOK
<1>7. CASE Ended \/ UNCHANGED vars
  BY <1>7 DEF Ended, vars, HistoryOK
<1> QED BY <1>2, <1>3, <1>4, <1>5, <1>6, <1>7 DEF Next

(* The table of workers is true to the processes, for every number of      *)
(* workers and crashes, with the signal handler between any two steps of   *)
(* reap_children and spawn_process (master.c, process_get_status).         *)
THEOREM WorkersAreTrue == Spec => []WorkersTrue
<1>1. Init => HistoryOK
  BY DEF Init, HistoryOK
<1>2. Spec => []HistoryOK
  BY <1>1, Invariant, HistoryKept, PTL DEF Spec
<1>3. IInv /\ HistoryOK => WorkersTrue
  <2> SUFFICES ASSUME IInv, HistoryOK PROVE WorkersTrue
    OBVIOUS
  <2>1. AtMostWorkers
    <3>1. \A p \in RunningProcs : \E k \in Slots : Holder(k) = p
      BY DEF IInv, Housed
    <3> QED BY <3>1, HousedBound, SlotSets DEF AtMostWorkers
  <2>2. ExitedIsGone
    BY DEF IInv, MarkedGone, ExitedIsGone
  <2> QED BY <2>1, <2>2 DEF IInv, TypeOK, WorkersTrue
<1> QED BY <1>2, <1>3, Invariant, PTL
=============================================================================
