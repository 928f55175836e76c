--------------------------- MODULE ShardingProofs ---------------------------
(***************************************************************************)
(* What the sharded runtime of ShardedExecutor guarantees for any number   *)
(* of shards and clients and whatever is configured and called: no thread  *)
(* is left behind by a failed start or a shutdown, and no task is dropped  *)
(* unfinished on a shard that the shutdown does not report.  And what the  *)
(* sharded TCP server of ShardedTcp adds for any number of shards and      *)
(* peers: a shard's count of connections is the number of its permits.     *)
(***************************************************************************)
EXTENDS ShardedExecutor, ShardedTcp, TLAPS, FiniteSetTheorems

\* A leaf is first-order reasoning, Zenon's, unless it cites another prover.
USE Zenon

Owners == {"configured", "starting", "awaiting", "up", "rollback", "failed", "waiting", "joining",
           "stopped"}

Threads == {"none", "starting", "running", "closing", "finished", "dead"}

TaskStates == {"none", "queued", "waiting", "canceling", "aborted", "done", "lost"}

TypeOK ==
    /\ owner \in Owners
    /\ next \in Nat
    /\ thread \in [Shards -> Threads]
    /\ spawners \subseteq Shards
    /\ joins \subseteq Shards
    /\ stopping \subseteq Shards
    /\ task \in [Clients -> [Shards -> TaskStates]]
    /\ polling \in [Shards -> Clients \cup {None}]

\* The shards before n have a spawner or a thread to join, and no other has.
Before(n) == {s \in Shards : s < n}

\* The runtime owns the spawners and the threads of the shards it has started, one after the
\* other; a rollback or a shutdown has every thread there is among those it joins.
StartInv ==
    /\ owner = "configured" => next = 0 /\ spawners = {} /\ joins = {}
    /\ owner \in {"configured", "starting"} =>
         /\ spawners = Before(next) /\ joins = Before(next)
         /\ \A s \in Shards : s >= next => thread[s] = "none"
    /\ owner \in {"starting", "awaiting"} => next \in Shards
    /\ owner = "awaiting" =>
         /\ spawners = Before(next + 1) /\ joins = Before(next)
         /\ \A s \in Shards : s > next => thread[s] = "none"
    /\ owner = "up" => spawners = Shards
    /\ owner \in {"up", "waiting", "joining"} => joins = Shards
    /\ owner = "rollback" => \A s \in Shards : thread[s] # "none" => s \in joins
    /\ owner \in {"failed", "stopped"} => \A s \in Shards : thread[s] = "none" \/ Finished(s)

\* A shard is asked to stop only by a shutdown that reports it.
StopInv ==
    /\ owner \notin {"joining", "stopped"} => stopping = {} /\ forced = {}
    /\ stopping \subseteq forced

\* An executor that leaves its loop was asked to stop, or nothing is left and nothing can come:
\* no spawner of it exists, and no task of it has a future.
Emptied(s) == s \notin spawners /\ held = {} /\ \A c \in Clients : task[c][s] \notin Alive

DrainInv ==
    /\ \A s \in Shards : polling[s] # None => thread[s] = "running"
    /\ \A s \in Shards : thread[s] = "closing" => s \in stopping \/ Emptied(s)

Inv == TypeOK /\ StartInv /\ StopInv /\ DrainInv /\ LossIsReported

-----------------------------------------------------------------------------
(* Clients *)

\* A step of a client gives futures only to executors it has a spawner of, takes a submitter
\* only of a runtime that is up, and drops no future with its executor.
LEMMA ClientKeeps ==
    ASSUME Inv, UNCHANGED <<ownerVars, thread, stopping, polling>>,
           held' \subseteq held \/ owner = "up",
           task' \in [Clients -> [Shards -> TaskStates]],
           \A c \in Clients, s \in Shards :
             /\ task'[c][s] \in Alive => task[c][s] \in Alive \/ s \in spawners \/ held # {}
             /\ task'[c][s] = "lost" => task[c][s] = "lost"
    PROVE  Inv'
<1>0. /\ UNCHANGED <<owner, next, spawners, joins, forced, thread, stopping, polling>>
  BY DEF ownerVars
<1>1. TypeOK'
  BY <1>0 DEF Inv, TypeOK
<1>2. StartInv'
  BY <1>0 DEF Inv, StartInv, Finished
<1>3. StopInv'
  BY <1>0 DEF Inv, StopInv
<1>4. DrainInv'
  <2>1. \A s \in Shards : Emptied(s) => Emptied(s)'
    BY <1>0 DEF Inv, Emptied, StartInv
  <2>2. QED
    BY <1>0, <2>1 DEF Inv, DrainInv
<1>5. LossIsReported'
  BY <1>0 DEF Inv, LossIsReported
<1>6. QED
  BY <1>1, <1>2, <1>3, <1>4, <1>5 DEF Inv

\* JoinHandle::abort takes futures away and gives none.
LEMMA AbortTakes ==
    ASSUME TypeOK, NEW c \in Clients, NEW S, Abort(c, S)
    PROVE  /\ task' \in [Clients -> [Shards -> TaskStates]]
           /\ \A d \in Clients, s \in Shards :
                /\ task'[d][s] \in Alive => task[d][s] \in Alive
                /\ task'[d][s] = "lost" => task[d][s] = "lost"
<1> DEFINE new == [s \in Shards |->
                     IF ~(s \in S /\ task[c][s] \in {"queued", "waiting"}) THEN task[c][s]
                     ELSE IF polling[s] = c THEN "canceling" ELSE "aborted"]
<1>1. task' = [task EXCEPT ![c] = new]
  BY DEF Abort
<1>2. task \in [Clients -> [Shards -> TaskStates]]
  BY DEF TypeOK
<1>3. new \in [Shards -> TaskStates]
  BY <1>2, SMT DEF TaskStates
<1>4. \A s \in Shards :
        /\ new[s] \in Alive => task[c][s] \in Alive
        /\ new[s] = "lost" => task[c][s] = "lost"
  BY <1>2, SMT DEF Alive, TaskStates
<1> HIDE DEF new
<1>5. /\ task' \in [Clients -> [Shards -> TaskStates]]
      /\ task'[c] = new
      /\ \A d \in Clients : d # c => task'[d] = task[d]
  BY <1>1, <1>2, <1>3, SMT
<1>6. QED
  BY <1>4, <1>5

\* A submission queues a task where the client has a spawner.
LEMMA SubmitKeeps ==
    ASSUME Inv, NEW c \in Clients, NEW after, SubmitNext(c, after)
    PROVE  Inv'
<1>1. /\ at[c] \in Shards /\ (at[c] \in spawners \/ held # {})
      /\ task' = [task EXCEPT ![c][at[c]] = "queued"]
      /\ UNCHANGED <<ownerVars, thread, stopping, polling, held>>
  BY DEF SubmitNext, Accepts, localVars
<1>2. task \in [Clients -> [Shards -> TaskStates]]
  BY DEF Inv, TypeOK
<1>3. /\ task' \in [Clients -> [Shards -> TaskStates]]
      /\ task'[c][at[c]] = "queued"
      /\ \A d \in Clients, s \in Shards : task'[d][s] = task[d][s] \/ (d = c /\ s = at[c])
  BY <1>1, <1>2, SMT DEF TaskStates
<1>4. QED
  BY <1>1, <1>3, ClientKeeps

LEMMA ClientStepKeeps ==
    ASSUME Inv, NEW c \in Clients, ClientStep(c)
    PROVE  Inv'
<1> USE DEF localVars, clientVars, taskVars
<1>0. TypeOK /\ task \in [Clients -> [Shards -> TaskStates]]
  BY DEF Inv, TypeOK
<1>1. CASE TakeSubmitter(c)
  BY <1>0, <1>1, ClientKeeps DEF TakeSubmitter
<1>2. CASE UseRuntime(c)
  BY <1>0, <1>2, ClientKeeps DEF UseRuntime
<1>3. CASE \E after : SubmitNext(c, after)
  BY <1>3, SubmitKeeps
<1>4. CASE SubmitFails(c)
  <2>1. CASE UNCHANGED taskVars
    BY <1>0, <1>4, <2>1, ClientKeeps DEF SubmitFails
  <2>2. CASE Abort(c, Shards)
    BY <1>0, <1>4, <2>2, AbortTakes, ClientKeeps DEF SubmitFails
  <2>3. QED
    BY <1>4, <2>1, <2>2 DEF SubmitFails
<1>5. CASE StopWorkers(c)
  <2> DEFINE new == [s \in Shards |-> IF task[c][s] = "waiting" THEN "queued" ELSE task[c][s]]
  <2>1. task' = [task EXCEPT ![c] = new]
    BY <1>0, <1>5, SMT DEF StopWorkers
  <2>2. new \in [Shards -> TaskStates]
    BY <1>0, SMT DEF TaskStates
  <2>3. \A s \in Shards :
          /\ new[s] \in Alive => task[c][s] \in Alive
          /\ new[s] = "lost" => task[c][s] = "lost"
    BY <1>0, SMT DEF Alive, TaskStates
  <2> HIDE DEF new
  <2>4. /\ task' \in [Clients -> [Shards -> TaskStates]]
        /\ task'[c] = new
        /\ \A d \in Clients : d # c => task'[d] = task[d]
    BY <1>0, <2>1, <2>2, SMT
  <2>5. \A d \in Clients, s \in Shards :
          /\ task'[d][s] \in Alive => task[d][s] \in Alive
          /\ task'[d][s] = "lost" => task[d][s] = "lost"
    BY <2>3, <2>4
  <2>6. QED
    BY <1>5, <2>4, <2>5, ClientKeeps DEF StopWorkers
<1>6. CASE DropWorkers(c)
  BY <1>0, <1>6, AbortTakes, ClientKeeps DEF DropWorkers
<1>7. CASE JoinOutput(c)
  BY <1>0, <1>7, ClientKeeps DEF JoinOutput
<1>8. CASE JoinError(c)
  BY <1>0, <1>8, AbortTakes, ClientKeeps DEF JoinError
<1>9. CASE JoinTimeout(c)
  BY <1>0, <1>9, AbortTakes, ClientKeeps DEF JoinTimeout
<1>10. CASE DropSubmitter(c)
  BY <1>0, <1>10, ClientKeeps DEF DropSubmitter
<1>11. QED
  BY <1>1, <1>2, <1>3, <1>4, <1>5, <1>6, <1>7, <1>8, <1>9, <1>10
  DEF ClientStep, SpawnOnAll, SubmitToAll, SpawnOn, SubmitTo, Detached, SpawnWithHandleOnAll,
      SubmitWithHandleToAll, MapAll, SubmitterMapAll, HandleOnEveryShard, SpawnWithHandleOn,
      SubmitWithHandleTo, HandleOnShard, WithAll, LocalMapAll, WithOn, LocalOperation,
      SpawnWorkers, SpawnStoppableWorkers

-----------------------------------------------------------------------------
(* Shard threads *)

\* What a step of shard s's thread does not touch.
LEMMA ThreadKeepsStart ==
    ASSUME Inv, NEW s \in Shards, NEW to \in Threads \ {"none"}, thread[s] \notin {"none", "finished", "dead"},
           thread' = [thread EXCEPT ![s] = to],
           UNCHANGED <<owner, next, spawners, joins, stopping, forced>>
    PROVE  StartInv' /\ StopInv' /\ thread' \in [Shards -> Threads]
<1>1. /\ thread' \in [Shards -> Threads]
      /\ thread'[s] = to /\ to # "none"
      /\ \A r \in Shards : r # s => thread'[r] = thread[r]
  BY SMT DEF Inv, TypeOK
<1>2. StopInv'
  BY DEF Inv, StopInv
<1>3. owner \notin {"failed", "stopped"}
  BY DEF Inv, StartInv, Finished
<1>4. StartInv'
  BY <1>1, <1>3 DEF Inv, StartInv, Before
<1>5. QED
  BY <1>1, <1>2, <1>4

LEMMA ThreadStepKeeps ==
    ASSUME Inv, NEW s \in Shards, ThreadStep(s)
    PROVE  Inv'
<1> USE DEF ownerVars, clientVars, taskVars, localVars
<1>0. /\ task \in [Clients -> [Shards -> TaskStates]] /\ thread \in [Shards -> Threads]
      /\ polling \in [Shards -> Clients \cup {None}]
      /\ \A r \in Shards : polling[r] # None => thread[r] = "running"
      /\ \A r \in Shards : thread[r] = "closing" => r \in stopping \/ Emptied(r)
      /\ TypeOK /\ StartInv /\ StopInv /\ LossIsReported
  BY DEF Inv, TypeOK, DrainInv
<1>1. ASSUME NEW to \in Threads \ {"none", "closing"}, thread[s] = "starting",
             thread' = [thread EXCEPT ![s] = to],
             UNCHANGED <<owner, next, spawners, joins, stopping, forced, held, task, polling>>
      PROVE  Inv'
  <2>1. StartInv' /\ StopInv' /\ thread' \in [Shards -> Threads]
    BY <1>1, ThreadKeepsStart
  <2>2. /\ thread'[s] = to
        /\ \A r \in Shards : r # s => thread'[r] = thread[r]
    BY <1>0, <1>1, SMT
  <2>3. TypeOK' /\ LossIsReported'
    BY <1>0, <1>1, <2>1 DEF TypeOK, LossIsReported
  <2>4. DrainInv'
    BY <1>0, <1>1, <2>2 DEF DrainInv, Emptied
  <2>5. QED
    BY <2>1, <2>3, <2>4 DEF Inv
<1>2. CASE Report(s)
  <2>1. "running" \in Threads \ {"none", "closing"}
    BY DEF Threads
  <2>2. QED
    BY <1>1, <1>2, <2>1 DEF Report
<1>3. CASE DieUnreported(s)
  <2>1. "dead" \in Threads \ {"none", "closing"}
    BY DEF Threads
  <2>2. QED
    BY <1>1, <1>3, <2>1 DEF DieUnreported
<1>4. CASE LeaveRun(s)
  <2>0. "closing" \in Threads \ {"none"} /\ thread[s] \notin {"none", "finished", "dead"}
    BY <1>4 DEF LeaveRun, Threads
  <2>1. StartInv' /\ StopInv' /\ thread' \in [Shards -> Threads]
    BY <1>4, <2>0, ThreadKeepsStart DEF LeaveRun
  <2>2. /\ thread'[s] = "closing"
        /\ \A r \in Shards : r # s => thread'[r] = thread[r]
    BY <1>0, <1>4, SMT DEF LeaveRun
  <2>3. TypeOK' /\ LossIsReported'
    BY <1>0, <1>4, <2>1 DEF TypeOK, LossIsReported, LeaveRun
  <2>4. s \in stopping \/ Emptied(s)
    BY <1>4 DEF LeaveRun, IsDrained, NoSpawner, Emptied
  <2>5. DrainInv'
    BY <1>0, <1>4, <2>2, <2>4 DEF DrainInv, Emptied, LeaveRun
  <2>6. QED
    BY <2>1, <2>3, <2>5 DEF Inv
<1>5. CASE CloseExecutor(s)
  <2>0. "finished" \in Threads \ {"none"} /\ thread[s] \notin {"none", "finished", "dead"}
    BY <1>5 DEF CloseExecutor, Threads
  <2>1. StartInv' /\ StopInv' /\ thread' \in [Shards -> Threads]
    BY <1>5, <2>0, ThreadKeepsStart DEF CloseExecutor
  <2>2. /\ thread'[s] = "finished"
        /\ \A r \in Shards : r # s => thread'[r] = thread[r]
    BY <1>0, <1>5, SMT DEF CloseExecutor
  <2>3. /\ task' \in [Clients -> [Shards -> TaskStates]]
        /\ \A c \in Clients, r \in Shards :
             /\ r # s => task'[c][r] = task[c][r]
             /\ task[c][s] \in Alive => task'[c][s] = "lost"
             /\ task[c][s] \notin Alive => task'[c][s] = task[c][s]
    BY <1>0, <1>5, SMT DEF CloseExecutor, TaskStates
  <2>u. UNCHANGED <<owner, next, spawners, joins, forced, stopping, held, polling>>
    BY <1>5 DEF CloseExecutor
  <2>4. TypeOK'
    BY <1>0, <2>1, <2>3, <2>u DEF TypeOK
  <2>5. s \in stopping \/ Emptied(s)
    BY <1>0, <1>5 DEF CloseExecutor
  <2>6. LossIsReported'
    BY <1>0, <2>3, <2>5, <2>u, SMT DEF LossIsReported, Emptied, StopInv
  <2>7. polling[s] = None
    BY <1>0, <1>5 DEF CloseExecutor
  <2>8. DrainInv'
    BY <1>0, <2>2, <2>3, <2>7, <2>u, ZenonT(30) DEF DrainInv, Emptied
  <2>9. QED
    BY <2>1, <2>4, <2>6, <2>8 DEF Inv
<1>6. ASSUME NEW c \in Clients, BeginPoll(c, s)
      PROVE  Inv'
  <2>1. /\ polling' \in [Shards -> Clients \cup {None}]
        /\ \A r \in Shards : r # s => polling'[r] = polling[r]
    BY <1>0, <1>6, SMT DEF BeginPoll
  <2>2. UNCHANGED <<owner, next, spawners, joins, forced, thread, stopping, held, task>>
        /\ thread[s] = "running"
    BY <1>6 DEF BeginPoll
  <2>3. TypeOK' /\ StopInv' /\ LossIsReported'
    BY <1>0, <2>1, <2>2 DEF TypeOK, StopInv, LossIsReported
  <2>4. StartInv'
    BY <1>0, <2>2 DEF StartInv, Finished
  <2>5. DrainInv'
    BY <1>0, <2>1, <2>2 DEF DrainInv, Emptied
  <2>6. QED
    BY <2>3, <2>4, <2>5 DEF Inv
<1>7. ASSUME NEW c \in Clients, EndPoll(c, s)
      PROVE  Inv'
  <2>0. polling[s] # None /\ thread[s] = "running"
    BY <1>0, <1>7, ShardedAssumption DEF EndPoll
  <2>1. /\ polling' \in [Shards -> Clients \cup {None}] /\ polling'[s] = None
        /\ \A r \in Shards : r # s => polling'[r] = polling[r]
    BY <1>0, <1>7, SMT DEF EndPoll
  <2>2. UNCHANGED <<owner, next, spawners, joins, forced, thread, stopping, held>>
    BY <1>7 DEF EndPoll
  <2>3. PICK to \in {"done", "aborted", "waiting"} : task' = [task EXCEPT ![c][s] = to]
    <3>1. PICK r : task' = [task EXCEPT ![c][s] =
                              CASE r # "pending" -> "done"
                                [] r = "pending" /\ @ = "canceling" -> "aborted"
                                [] OTHER -> "waiting"]
      BY <1>7 DEF EndPoll
    <3>2. CASE r # "pending"
      BY <3>1, <3>2
    <3>3. CASE r = "pending" /\ task[c][s] = "canceling"
      BY <3>1, <3>3, SMT
    <3>4. CASE r = "pending" /\ task[c][s] # "canceling"
      BY <3>1, <3>4, SMT
    <3>5. QED
      BY <3>2, <3>3, <3>4
  <2>4. /\ task' \in [Clients -> [Shards -> TaskStates]]
        /\ task'[c][s] = to
        /\ \A d \in Clients, r \in Shards : task'[d][r] = task[d][r] \/ (d = c /\ r = s)
    BY <1>0, <2>3, SMT DEF TaskStates
  <2>5. TypeOK' /\ StopInv'
    BY <1>0, <2>1, <2>2, <2>4 DEF TypeOK, StopInv
  <2>6. StartInv'
    BY <1>0, <2>2 DEF StartInv, Finished
  <2>7. DrainInv'
    BY <1>0, <2>0, <2>1, <2>2, <2>4 DEF DrainInv, Emptied
  <2>8. LossIsReported'
    BY <1>0, <2>2, <2>4 DEF LossIsReported
  <2>9. QED
    BY <2>5, <2>6, <2>7, <2>8 DEF Inv
<1>8. QED
  BY <1>2, <1>3, <1>4, <1>5, <1>6, <1>7 DEF ThreadStep

-----------------------------------------------------------------------------
(* The owner *)

\* A step of the owner disturbs no executor: it takes spawners, or gives the one of the shard
\* that it starts, and asks to stop only shards that it reports.
LEMMA OwnerKeeps ==
    ASSUME Inv, UNCHANGED <<held, task, polling>>, TypeOK', StopInv',
           forced \subseteq forced', stopping \subseteq stopping',
           \A s \in Shards : thread'[s] = thread[s] \/ (thread[s] = "none" /\ thread'[s] = "starting"),
           \A s \in Shards : s \in spawners' => s \in spawners \/ thread'[s] # "closing"
    PROVE  DrainInv' /\ LossIsReported'
<1>1. LossIsReported'
  BY DEF Inv, LossIsReported
<1>2. \A s \in Shards : polling'[s] # None => thread'[s] = "running"
  BY DEF Inv, DrainInv
<1>3. \A s \in Shards : thread'[s] = "closing" => s \in stopping' \/ Emptied(s)'
  BY DEF Inv, DrainInv, Emptied
<1>4. QED
  BY <1>1, <1>2, <1>3 DEF DrainInv

LEMMA OwnerStepKeeps ==
    ASSUME Inv, OwnerStep
    PROVE  Inv'
<1> USE DEF clientVars, taskVars, localVars
<1>0. /\ owner \in Owners /\ next \in Nat /\ thread \in [Shards -> Threads]
      /\ spawners \subseteq Shards /\ joins \subseteq Shards
      /\ TypeOK /\ StartInv /\ StopInv
  BY DEF Inv, TypeOK
<1>n. ShardCount \in Nat /\ \A s \in Shards : s \in Int
  BY ShardedAssumption, SMT DEF Shards
<1>1. ASSUME UNCHANGED <<thread, stopping, forced, held, task, polling>>, owner' \in Owners,
             next' \in Nat, joins' \subseteq Shards, spawners' \subseteq Shards,
             owner' \in {"joining", "stopped"} \/ owner \notin {"joining", "stopped"},
             \A s \in Shards : s \in spawners' => s \in spawners \/ thread[s] # "closing",
             StartInv'
      PROVE  Inv'
  <2>1. TypeOK' /\ StopInv'
    BY <1>0, <1>1 DEF TypeOK, StopInv
  <2>2. DrainInv' /\ LossIsReported'
    BY <1>1, <2>1, OwnerKeeps
  <2>3. QED
    BY <1>1, <2>1, <2>2 DEF Inv
<1>2. CASE Configure
  <2>1. owner' \in {"starting", "failed"} /\ (owner' = "starting" => ShardCount > 0)
    BY <1>2, SMT DEF Configure, ConfigValid
  <2>2. UNCHANGED <<next, thread, spawners, joins, stopping, forced, held, task, polling>>
    BY <1>2 DEF Configure
  <2>3. StartInv'
    BY <1>0, <1>2, <1>n, <2>1, <2>2, SMT DEF Configure, StartInv, Shards, Finished
  <2>4. QED
    BY <1>0, <1>1, <1>2, <2>1, <2>2, <2>3 DEF Owners, Configure
<1>3. CASE SpawnThread
  <2>1. /\ owner' = "awaiting" /\ spawners' = spawners \cup {next} /\ owner = "starting"
        /\ UNCHANGED <<next, joins, stopping, forced, held, task, polling>>
        /\ next \in Shards /\ thread[next] = "none"
    BY <1>0, <1>3, <1>n, SMT DEF SpawnThread, StartInv
  <2>2. /\ thread' \in [Shards -> Threads] /\ thread'[next] = "starting"
        /\ \A s \in Shards : s # next => thread'[s] = thread[s]
    BY <1>0, <1>3, <2>1, SMT DEF SpawnThread, Threads
  <2>3. TypeOK' /\ StopInv'
    BY <1>0, <2>1, <2>2 DEF TypeOK, StopInv, Owners
  <2>4. StartInv'
    <3>1. spawners = Before(next) /\ joins = Before(next)
          /\ \A s \in Shards : s >= next => thread[s] = "none"
      BY <1>0, <2>1 DEF StartInv
    <3>2. Before(next) \cup {next} = Before(next + 1)
      <4>1. \A s \in Shards : s < next + 1 <=> s < next \/ s = next
        BY <1>0, <1>n, SMT
      <4>2. QED
        BY <2>1, <4>1 DEF Before
    <3>3. \A s \in Shards : s > next => s >= next /\ s # next
      BY <1>0, <1>n, SMT
    <3>4. QED
      BY <2>1, <2>2, <3>1, <3>2, <3>3 DEF StartInv, Before
  <2>5. DrainInv' /\ LossIsReported'
    BY <2>1, <2>2, <2>3, OwnerKeeps
  <2>6. QED
    BY <2>3, <2>4, <2>5 DEF Inv
<1>4. CASE SpawnThreadFails
  <2>1. /\ owner' = "rollback" /\ spawners' = {} /\ owner = "starting"
        /\ UNCHANGED <<next, thread, joins, stopping, forced, held, task, polling>>
    BY <1>4 DEF SpawnThreadFails, CleanupStartedShards
  <2>2. \A s \in Shards : s >= next \/ s \in Before(next)
    BY <1>0, <1>n, SMT DEF Before
  <2>3. StartInv'
    BY <1>0, <2>1, <2>2 DEF StartInv
  <2>4. QED
    BY <1>0, <1>1, <2>1, <2>3 DEF Owners
<1>5. CASE KeepShard
  <2>1. /\ owner' = IF next + 1 = ShardCount THEN "up" ELSE "starting"
        /\ joins' = joins \cup {next} /\ next' = next + 1 /\ owner = "awaiting"
        /\ UNCHANGED <<thread, spawners, stopping, forced, held, task, polling>>
    BY <1>5 DEF KeepShard
  <2>2. /\ next \in Shards /\ spawners = Before(next + 1) /\ joins = Before(next)
        /\ \A s \in Shards : s > next => thread[s] = "none"
    BY <1>0, <2>1 DEF StartInv
  <2>3. /\ next + 1 \in Nat /\ joins' = Before(next + 1) /\ joins' \subseteq Shards
        /\ next + 1 = ShardCount => Before(next + 1) = Shards
        /\ next + 1 # ShardCount => next + 1 \in Shards
        /\ \A s \in Shards : s >= next + 1 => s > next
    BY <1>0, <1>n, <2>1, <2>2, SMT DEF Before, Shards
  <2>4. CASE next + 1 = ShardCount
    <3>1. owner' = "up"
      BY <2>1, <2>4
    <3>2. StartInv'
      BY <2>1, <2>2, <2>3, <2>4, <3>1 DEF StartInv
    <3>3. QED
      BY <1>0, <1>1, <2>1, <2>3, <3>1, <3>2 DEF Owners
  <2>5. CASE next + 1 # ShardCount
    <3>1. owner' = "starting"
      BY <2>1, <2>5
    <3>2. StartInv'
      BY <2>1, <2>2, <2>3, <2>5, <3>1 DEF StartInv, Before
    <3>3. QED
      BY <1>0, <1>1, <2>1, <2>3, <3>1, <3>2 DEF Owners
  <2>6. QED
    BY <2>4, <2>5
<1>6. ASSUME owner = "awaiting", owner' = "rollback", spawners' \subseteq spawners, joins' = joins \cup {next},
             UNCHANGED <<next, thread, stopping, forced, held, task, polling>>
      PROVE  Inv'
  <2>1. next \in Shards /\ \A s \in Shards : s > next \/ s \in Before(next) \cup {next}
    BY <1>0, <1>6, <1>n, SMT DEF Before, StartInv
  <2>2. StartInv'
    BY <1>0, <1>6, <2>1 DEF StartInv
  <2>3. QED
    BY <1>0, <1>1, <1>6, <2>1, <2>2 DEF Owners
<1>7. CASE RejectShard
  <2>1. /\ owner = "awaiting" /\ owner' = "rollback" /\ spawners' = {} /\ joins' = joins \cup {next}
        /\ UNCHANGED <<next, thread, stopping, forced, held, task, polling>>
    BY <1>7 DEF RejectShard, CleanupStartedShards
  <2>2. QED
    BY <1>6, <2>1
<1>8. CASE NoStatus
  <2>1. {next} \subseteq spawners
    BY <1>0, <1>8, <1>n, SMT DEF StartInv, Before, NoStatus
  <2>2. /\ owner = "awaiting" /\ owner' = "rollback" /\ spawners' = {next} /\ joins' = joins \cup {next}
        /\ UNCHANGED <<next, thread, stopping, forced, held, task, polling>>
    BY <1>8 DEF NoStatus, CleanupStartedShards
  <2>3. QED
    BY <1>6, <2>1, <2>2
<1>9. CASE RolledBack
  <2>1. /\ owner' = "failed" /\ spawners' = {} /\ joins' = {} /\ owner = "rollback"
        /\ UNCHANGED <<next, thread, stopping, forced, held, task, polling>>
        /\ \A s \in joins : Finished(s)
    BY <1>9 DEF RolledBack
  <2>2. StartInv'
    BY <1>0, <2>1 DEF StartInv, Finished
  <2>3. QED
    BY <1>0, <1>1, <2>1, <2>2 DEF Owners
<1>10. CASE Shutdown \/ ShutdownTimeout
  <2>1. /\ owner' \in {"joining", "waiting"} /\ spawners' = {} /\ owner = "up"
        /\ UNCHANGED <<next, thread, joins, stopping, forced, held, task, polling>>
    BY <1>10 DEF Shutdown, ShutdownTimeout
  <2>2. StartInv'
    BY <1>0, <2>1 DEF StartInv
  <2>3. QED
    BY <1>0, <1>1, <2>1, <2>2 DEF Owners
<1>11. CASE StopUnfinished
  <2>1. /\ owner = "waiting" /\ owner' = "joining" /\ stopping = {} /\ forced = {}
        /\ stopping' = stopping \cup Unfinished /\ forced' = Unfinished
        /\ UNCHANGED <<next, thread, spawners, joins, held, task, polling>>
    BY <1>0, <1>11 DEF StopUnfinished, StopInv
  <2>2. Unfinished \subseteq Shards
    BY <1>0 DEF Unfinished
  <2>3. TypeOK' /\ StopInv'
    BY <1>0, <2>1, <2>2 DEF TypeOK, StopInv, Owners
  <2>4. StartInv'
    BY <1>0, <2>1 DEF StartInv
  <2>5. DrainInv' /\ LossIsReported'
    BY <2>1, <2>3, OwnerKeeps
  <2>6. QED
    BY <2>3, <2>4, <2>5 DEF Inv
<1>12. CASE JoinAll
  <2>1. /\ owner = "joining" /\ owner' = "stopped" /\ joins' = {} /\ joins = Shards
        /\ UNCHANGED <<next, thread, spawners, stopping, forced, held, task, polling>>
        /\ \A s \in joins : Finished(s)
    BY <1>0, <1>12 DEF JoinAll, Unfinished, StartInv
  <2>2. StartInv'
    BY <1>0, <2>1 DEF StartInv, Finished
  <2>3. QED
    BY <1>0, <1>1, <2>1, <2>2 DEF Owners
<1>13. QED
  BY <1>2, <1>3, <1>4, <1>5, <1>7, <1>8, <1>9, <1>10, <1>11, <1>12 DEF OwnerStep, StartStep

-----------------------------------------------------------------------------
LEMMA InitInv == Init => Inv
<1> SUFFICES ASSUME Init PROVE Inv
  OBVIOUS
<1>1. TypeOK
  BY SMT DEF Init, TypeOK, Owners, Threads, TaskStates
<1>2. Before(0) = {}
  BY ShardedAssumption, SMT DEF Before, Shards
<1>3. StartInv
  BY <1>2, SMT DEF Init, StartInv
<1>4. StopInv /\ DrainInv
  BY SMT DEF Init, StopInv, DrainInv
<1>5. LossIsReported
  BY SMT DEF Init, LossIsReported
<1>6. QED
  BY <1>1, <1>3, <1>4, <1>5 DEF Inv

LEMMA NextInv == Inv /\ [Next]_vars => Inv'
<1> SUFFICES ASSUME Inv, [Next]_vars PROVE Inv'
  OBVIOUS
<1>1. CASE Next
  BY <1>1, OwnerStepKeeps, ThreadStepKeeps, ClientStepKeeps DEF Next
<1>2. CASE UNCHANGED vars
  BY <1>2, ClientKeeps DEF vars, ownerVars, clientVars, taskVars, localVars, Inv, TypeOK
<1>3. QED
  BY <1>1, <1>2

\* Whichever shard fails to start and however, and however the runtime is shut down, when
\* start_with_config has returned its error, or stop, shutdown or shutdown_timeout has returned,
\* every shard thread that was ever spawned has ended: those the rollback or the shutdown joins
\* are all there are.
THEOREM NoThreadIsLeft == Spec => []NoThreadLeft
<1>1. Inv => NoThreadLeft
  BY DEF Inv, StartInv, NoThreadLeft
<1>2. QED
  BY InitInv, NextInv, <1>1, PTL DEF Spec

\* An executor closes with unfinished tasks only after shutdown_timeout has asked it to stop and
\* listed it in forced_shards: an executor that leaves its loop by itself has no spawner left in
\* the runtime, in any client's submitter or in any future on any shard, so nothing can reach it
\* between its last look at its queue and its drop.
THEOREM EveryLossIsReported == Spec => []LossIsReported
<1>1. Inv => LossIsReported
  BY DEF Inv
<1>2. QED
  BY InitInv, NextInv, <1>1, PTL DEF Spec

-----------------------------------------------------------------------------
(* Connection counts *)

\* Shard s's loop has accepted a connection and not passed it on.
Busy(s) == loop[s] \in {"loading", "swapping", "permitted"}

PeerStates == {"away", "waiting", "accepted", "rejected", "handled", "unhandled", "served", "reset"}

\* A connection is in one listener's queue or with one accept loop; with SO_REUSEPORT on its own
\* shard.
TakenInv ==
    /\ DOMAIN loop = Shard /\ DOMAIN taken = Shard /\ queue \in [Shard -> SUBSET Peers]
    /\ peer \in [Peers -> PeerStates]
    /\ \A s \in Shard : \A p \in queue[s] :
         /\ peer[p] = "waiting" /\ (setup.reusePort => HashAddr[p] = s)
         /\ \A r \in Shard : p \in queue[r] => r = s
    /\ \A s \in Shard : Busy(s) =>
         /\ taken[s] \in Peers /\ peer[taken[s]] = "accepted"
         /\ setup.reusePort => HashAddr[taken[s]] = s
         /\ \A r \in Shard : Busy(r) /\ taken[r] = taken[s] => r = s

\* The loop that start submits next has not run yet.
LoopStartInv ==
    /\ making \in Nat
    /\ starter \in {"called", "making"} => \A s \in Shard : loop[s] = "none"
    /\ starter = "submitting" => \A s \in Shard : s >= making => loop[s] = "none"

\* Peer p's handler runs, or is about to.
Permitted(p) == peer[p] = "handled" \/ \E r \in Shard : loop[r] = "permitted" /\ taken[r] = p
PermitSet(s) == {p \in Peers : HashAddr[p] = s /\ Permitted(p)}

\* A loop that exchanges a count has loaded one below the limit.
PermitInv ==
    /\ setup.limit \in Nat /\ count \in [Shard -> Nat] /\ seen \in [Shard -> Nat]
    /\ \A s \in Shard : loop[s] = "swapping" => seen[s] < setup.limit
    /\ \A s \in Shard : count[s] = Cardinality(PermitSet(s)) /\ count[s] <= setup.limit

LEMMA PermitsFinite ==
    ASSUME NEW s
    PROVE  IsFiniteSet(PermitSet(s)) /\ Cardinality(PermitSet(s)) \in Nat
<1>1. PermitSet(s) \subseteq Peers
  BY DEF PermitSet
<1>2. IsFiniteSet(Peers)
  BY TcpAssumption
<1>3. QED
  BY <1>1, <1>2, FS_Subset, FS_CardinalityType

\* With SO_REUSEPORT too, a connection's permit is of the shard its address hashes to.
LEMMA TargetIs ==
    ASSUME TakenInv, NEW s \in Shard, Busy(s)
    PROVE  Target(s, taken[s]) = HashAddr[taken[s]] /\ HashAddr[taken[s]] \in Shard
BY TcpAssumption DEF TakenInv, Target

LEMMA PermitsAre ==
    ASSUME TakenInv, NEW s \in Shard
    PROVE  Permits(s) = PermitSet(s)
<1>1. \A r \in Shard : loop[r] = "permitted" =>
        taken[r] \in Peers /\ Target(r, taken[r]) = HashAddr[taken[r]]
  BY TargetIs DEF TakenInv, Busy
<1>2. \A p : p \in PermitSet(s) <=>
        \/ p \in Handled(s)
        \/ \E r \in Shard : loop[r] = "permitted" /\ taken[r] = p /\ Target(r, taken[r]) = s
  BY <1>1 DEF PermitSet, Permitted, Handled
<1>3. QED
  BY <1>2 DEF Permits

LEMMA PermitsSame ==
    ASSUME PermitInv, UNCHANGED <<setup, count, seen>>,
           \A s \in Shard : loop'[s] = "swapping" => loop[s] = "swapping",
           \A p \in Peers : Permitted(p)' <=> Permitted(p)
    PROVE  PermitInv'
<1>1. \A s : PermitSet(s)' = PermitSet(s)
  BY DEF PermitSet
<1>2. QED
  BY <1>1 DEF PermitInv

LEMMA PermitTaken ==
    ASSUME PermitInv, NEW q \in Peers, ~Permitted(q), Permitted(q)',
           \A p \in Peers \ {q} : Permitted(p)' <=> Permitted(p),
           count' = [count EXCEPT ![HashAddr[q]] = @ + 1], count[HashAddr[q]] < setup.limit,
           \A s \in Shard : loop'[s] = "swapping" => loop[s] = "swapping", UNCHANGED <<setup, seen>>
    PROVE  PermitInv'
<1>1. HashAddr[q] \in Shard
  BY TcpAssumption
<1>2. PermitSet(HashAddr[q])' = PermitSet(HashAddr[q]) \cup {q} /\ q \notin PermitSet(HashAddr[q])
  BY DEF PermitSet
<1>3. Cardinality(PermitSet(HashAddr[q])') = Cardinality(PermitSet(HashAddr[q])) + 1
  BY <1>2, PermitsFinite, FS_AddElement
<1>4. \A s \in Shard \ {HashAddr[q]} : PermitSet(s)' = PermitSet(s)
  BY DEF PermitSet
<1>5. /\ count' \in [Shard -> Nat] /\ count'[HashAddr[q]] = count[HashAddr[q]] + 1
      /\ \A s \in Shard \ {HashAddr[q]} : count'[s] = count[s]
  BY <1>1, SMT DEF PermitInv
<1>6. count'[HashAddr[q]] <= setup.limit
  BY <1>1, <1>5, SMT DEF PermitInv
<1>7. \A s \in Shard : count'[s] = Cardinality(PermitSet(s)') /\ count'[s] <= setup.limit
  BY <1>1, <1>3, <1>4, <1>5, <1>6, ZenonT(30) DEF PermitInv
<1>8. QED
  BY <1>5, <1>7 DEF PermitInv

LEMMA PermitBack ==
    ASSUME PermitInv, NEW q \in Peers, Permitted(q), ~Permitted(q)',
           \A p \in Peers \ {q} : Permitted(p)' <=> Permitted(p),
           DropPermit(HashAddr[q]),
           \A s \in Shard : loop'[s] = "swapping" => loop[s] = "swapping", UNCHANGED <<setup, seen>>
    PROVE  PermitInv'
<1>1. HashAddr[q] \in Shard
  BY TcpAssumption
<1>2. PermitSet(HashAddr[q])' = PermitSet(HashAddr[q]) \ {q} /\ q \in PermitSet(HashAddr[q])
  BY DEF PermitSet
<1>3. Cardinality(PermitSet(HashAddr[q])') = Cardinality(PermitSet(HashAddr[q])) - 1
      /\ Cardinality(PermitSet(HashAddr[q])') \in Nat
  BY <1>2, PermitsFinite, FS_RemoveElement, FS_CardinalityType
<1>4. \A s \in Shard \ {HashAddr[q]} : PermitSet(s)' = PermitSet(s)
  BY DEF PermitSet
<1>5. count' = [count EXCEPT ![HashAddr[q]] = Cardinality(PermitSet(HashAddr[q])')]
  BY <1>1, <1>3 DEF PermitInv, DropPermit
<1>6. /\ count' \in [Shard -> Nat] /\ count'[HashAddr[q]] = Cardinality(PermitSet(HashAddr[q])')
      /\ \A s \in Shard \ {HashAddr[q]} : count'[s] = count[s]
  BY <1>1, <1>3, <1>5, SMTT(30) DEF PermitInv
<1>7. count'[HashAddr[q]] <= setup.limit
  BY <1>1, <1>3, <1>6, SMT DEF PermitInv
<1>8. \A s \in Shard : count'[s] = Cardinality(PermitSet(s)') /\ count'[s] <= setup.limit
  BY <1>1, <1>4, <1>6, <1>7, ZenonT(30) DEF PermitInv
<1>9. QED
  BY <1>6, <1>8 DEF PermitInv

LEMMA TcpSame ==
    ASSUME TakenInv, PermitInv, UNCHANGED <<setup, loopVars, connVars>>
    PROVE  TakenInv' /\ PermitInv'
<1>1. /\ UNCHANGED <<setup, loop, taken, seen, queue, count, peer>>
      /\ \A s : Busy(s)' <=> Busy(s)
  BY DEF loopVars, connVars, Busy
<1>2. \A p \in Peers : Permitted(p)' <=> Permitted(p)
  BY <1>1 DEF Permitted
<1>3. \A s \in Shard : \A p \in queue'[s] :
        /\ peer'[p] = "waiting" /\ (setup'.reusePort => HashAddr[p] = s)
        /\ \A r \in Shard : p \in queue'[r] => r = s
  BY <1>1, SMT DEF TakenInv
<1>4. \A s \in Shard : Busy(s)' =>
        /\ taken'[s] \in Peers /\ peer'[taken'[s]] = "accepted"
        /\ setup'.reusePort => HashAddr[taken'[s]] = s
        /\ \A r \in Shard : Busy(r)' /\ taken'[r] = taken'[s] => r = s
  BY <1>1 DEF TakenInv
<1>5. TakenInv'
  BY <1>1, <1>3, <1>4 DEF TakenInv
<1>6. QED
  BY <1>1, <1>2, <1>5, PermitsSame

\* Shard s's loop goes on with the connection it has.
LEMMA LoopGoesOn ==
    ASSUME TakenInv, NEW s \in Shard, Busy(s), NEW place \in {"loading", "swapping", "permitted"},
           loop' = [loop EXCEPT ![s] = place], UNCHANGED <<setup, taken, queue, peer>>
    PROVE  /\ TakenInv'
           /\ loop'[s] = place /\ \A r \in Shard \ {s} : loop'[r] = loop[r]
<1>1. DOMAIN loop' = Shard /\ loop'[s] = place /\ \A r \in Shard \ {s} : loop'[r] = loop[r]
  BY SMT DEF TakenInv
<1>2. \A r \in Shard : Busy(r)' <=> Busy(r)
  BY <1>1 DEF Busy
<1>3. QED
  BY <1>1, <1>2, SMTT(30) DEF TakenInv

\* It is done with it, or with accepting.
LEMMA LoopLetsGo ==
    ASSUME TakenInv, NEW s \in Shard, UNCHANGED setup,
           DOMAIN loop' = Shard, ~Busy(s)', \A r \in Shard \ {s} : loop'[r] = loop[r],
           DOMAIN taken' = Shard, \A r \in Shard \ {s} : taken'[r] = taken[r],
           queue' \in [Shard -> SUBSET Peers], \A r \in Shard : queue'[r] \subseteq queue[r],
           peer' \in [Peers -> PeerStates],
           \A p \in Peers : \/ peer'[p] = peer[p]
                            \/ peer[p] # "waiting" /\ \A r \in Shard \ {s} : Busy(r) => taken[r] # p
                            \/ p \in queue[s] /\ queue'[s] = {}
    PROVE  TakenInv'
<1>1. \A r \in Shard : Busy(r)' <=> Busy(r) /\ r # s
  BY DEF Busy
<1>2. ASSUME NEW r \in Shard, NEW p \in queue'[r]
      PROVE  peer'[p] = "waiting" /\ (setup.reusePort => HashAddr[p] = r)
             /\ \A q \in Shard : p \in queue'[q] => q = r
  <2>1. p \in queue[r] /\ p \in Peers /\ peer[p] = "waiting"
    BY <1>2 DEF TakenInv
  <2>2. ~(p \in queue[s] /\ queue'[s] = {})
    BY <1>2, <2>1 DEF TakenInv
  <2>3. peer'[p] = peer[p]
    BY <2>1, <2>2
  <2>4. QED
    BY <2>1, <2>3, SMT DEF TakenInv
<1>3. ASSUME NEW r \in Shard, Busy(r)'
      PROVE  /\ taken'[r] \in Peers /\ peer'[taken'[r]] = "accepted"
             /\ setup.reusePort => HashAddr[taken'[r]] = r
             /\ \A q \in Shard : Busy(q)' /\ taken'[q] = taken'[r] => q = r
  <2>1. Busy(r) /\ r # s /\ taken'[r] = taken[r] /\ taken[r] \in Peers /\ peer[taken[r]] = "accepted"
    BY <1>1, <1>3 DEF TakenInv
  <2>2. taken[r] \notin queue[s]
    BY <2>1 DEF TakenInv
  <2>3. peer'[taken[r]] = "accepted"
    BY <2>1, <2>2
  <2>4. QED
    BY <1>1, <2>1, <2>3, SMT DEF TakenInv
<1>4. QED
  BY <1>2, <1>3 DEF TakenInv

LEMMA AcceptPeerKeeps ==
    ASSUME TakenInv, PermitInv, NEW s \in Shard, AcceptPeer(s)
    PROVE  TakenInv' /\ PermitInv'
<1>1. PICK p \in queue[s] : /\ queue' = [queue EXCEPT ![s] = @ \ {p}]
                            /\ taken' = [taken EXCEPT ![s] = p]
                            /\ peer' = [peer EXCEPT ![p] = "accepted"]
  BY DEF AcceptPeer
<1>2. /\ loop[s] = "accepting" /\ loop' = [loop EXCEPT ![s] = "loading"] /\ UNCHANGED <<setup, seen, count>>
  BY DEF AcceptPeer, startVars
<1>3. p \in Peers /\ peer[p] = "waiting"
  BY DEF TakenInv
<1>4. /\ queue' \in [Shard -> SUBSET Peers] /\ queue'[s] = queue[s] \ {p}
      /\ \A r \in Shard \ {s} : queue'[r] = queue[r]
  BY <1>1, SMTT(30) DEF TakenInv
<1>5. /\ DOMAIN loop' = Shard /\ loop'[s] = "loading" /\ \A r \in Shard \ {s} : loop'[r] = loop[r]
      /\ DOMAIN taken' = Shard /\ taken'[s] = p /\ \A r \in Shard \ {s} : taken'[r] = taken[r]
  BY <1>1, <1>2, SMTT(30) DEF TakenInv
<1>6. /\ peer' \in [Peers -> PeerStates] /\ peer'[p] = "accepted"
      /\ \A q \in Peers \ {p} : peer'[q] = peer[q]
  BY <1>1, <1>3, SMT DEF TakenInv, PeerStates
<1>7. \A r \in Shard : Busy(r)' <=> Busy(r) \/ r = s
  BY <1>5 DEF Busy
<1>8. \A r \in Shard \ {s} : Busy(r) => taken[r] # p
  BY <1>3 DEF TakenInv
<1>9. ASSUME NEW r \in Shard, NEW q \in queue'[r]
      PROVE  peer'[q] = "waiting" /\ (setup.reusePort => HashAddr[q] = r)
             /\ \A x \in Shard : q \in queue'[x] => x = r
  <2>1. q \in queue[r] /\ q # p /\ q \in Peers
    BY <1>4, <1>9, SMT DEF TakenInv
  <2>2. \A x \in Shard : q \in queue'[x] => q \in queue[x]
    BY <1>4
  <2>3. QED
    BY <1>6, <2>1, <2>2, SMTT(30) DEF TakenInv
<1>10. ASSUME NEW r \in Shard, Busy(r)'
      PROVE  /\ taken'[r] \in Peers /\ peer'[taken'[r]] = "accepted"
             /\ setup.reusePort => HashAddr[taken'[r]] = r
             /\ \A x \in Shard : Busy(x)' /\ taken'[x] = taken'[r] => x = r
  <2>1. CASE r = s
    BY <1>3, <1>5, <1>6, <1>7, <1>8, <2>1, SMTT(30) DEF TakenInv
  <2>2. CASE r # s
    <3>1. Busy(r) /\ taken'[r] = taken[r] /\ taken[r] # p
      BY <1>5, <1>7, <1>8, <1>10, <2>2, ZenonT(30)
    <3>2. QED
      BY <1>5, <1>6, <1>7, <3>1, SMTT(30) DEF TakenInv
  <2>3. QED
    BY <2>1, <2>2
<1>11. TakenInv'
  BY <1>2, <1>4, <1>5, <1>6, <1>9, <1>10, SMTT(30) DEF TakenInv
<1>12. \A q \in Peers : Permitted(q)' <=> Permitted(q)
  BY <1>2, <1>3, <1>5, <1>6 DEF Permitted
<1>13. \A r \in Shard : loop'[r] = "swapping" => loop[r] = "swapping"
  BY <1>5
<1>14. QED
  BY <1>2, <1>11, <1>12, <1>13, PermitsSame

\* The connection a loop has is with no other loop.
LEMMA OnlyLoop ==
    ASSUME TakenInv, NEW s \in Shard, Busy(s)
    PROVE  /\ taken[s] \in Peers /\ peer[taken[s]] = "accepted"
           /\ \A r \in Shard \ {s} : Busy(r) => taken[r] # taken[s]
BY DEF TakenInv

LEMMA LoadCountKeeps ==
    ASSUME TakenInv, PermitInv, NEW s \in Shard, LoadCount(s)
    PROVE  TakenInv' /\ PermitInv'
<1>1. Busy(s) /\ loop[s] = "loading" /\ UNCHANGED <<setup, queue, count>>
  BY DEF LoadCount, Busy, startVars
<1>0. PICK q \in Peers : q = taken[s]
  BY <1>1, OnlyLoop
<1>2. /\ Target(s, taken[s]) = HashAddr[q] /\ HashAddr[q] \in Shard /\ peer[q] = "accepted"
      /\ \A r \in Shard \ {s} : Busy(r) => taken[r] # q
  BY <1>0, <1>1, TargetIs, OnlyLoop
<1>3. CASE count[HashAddr[q]] >= setup.limit
  <2>1. /\ loop' = [loop EXCEPT ![s] = "accepting"] /\ taken' = [taken EXCEPT ![s] = NoOne]
        /\ peer' = [peer EXCEPT ![q] = "rejected"] /\ seen' = seen
    BY <1>0, <1>2, <1>3 DEF LoadCount
  <2>2. /\ DOMAIN loop' = Shard /\ loop'[s] = "accepting" /\ \A r \in Shard \ {s} : loop'[r] = loop[r]
        /\ DOMAIN taken' = Shard /\ \A r \in Shard \ {s} : taken'[r] = taken[r]
    BY <2>1, SMT DEF TakenInv
  <2>3. /\ peer' \in [Peers -> PeerStates] /\ peer'[q] = "rejected"
        /\ \A p \in Peers \ {q} : peer'[p] = peer[p]
    BY <1>2, <2>1, SMT DEF TakenInv, PeerStates
  <2>4. ~Busy(s)'
    BY <2>2 DEF Busy
  <2>5. queue' \in [Shard -> SUBSET Peers] /\ \A r \in Shard : queue'[r] \subseteq queue[r]
    BY <1>1 DEF TakenInv
  <2>6. TakenInv'
    <3>1. \A p \in Peers : \/ peer'[p] = peer[p]
                           \/ peer[p] # "waiting" /\ \A r \in Shard \ {s} : Busy(r) => taken[r] # p
      BY <1>2, <2>3
    <3>2. QED
      BY <1>1, <2>2, <2>3, <2>4, <2>5, <3>1, LoopLetsGo
  <2>7. \A p \in Peers : Permitted(p)' <=> Permitted(p)
    BY <1>0, <1>1, <1>2, <2>2, <2>3 DEF Permitted
  <2>8. \A r \in Shard : loop'[r] = "swapping" => loop[r] = "swapping"
    BY <2>2
  <2>9. QED
    BY <1>1, <2>1, <2>6, <2>7, <2>8, PermitsSame
<1>4. CASE ~(count[HashAddr[q]] >= setup.limit)
  <2>1. /\ loop' = [loop EXCEPT ![s] = "swapping"] /\ seen' = [seen EXCEPT ![s] = count[HashAddr[q]]]
        /\ UNCHANGED <<taken, peer>>
    BY <1>0, <1>2, <1>4 DEF LoadCount
  <2>2. /\ TakenInv' /\ loop'[s] = "swapping" /\ \A r \in Shard \ {s} : loop'[r] = loop[r]
    BY <1>1, <2>1, LoopGoesOn
  <2>3. /\ seen' \in [Shard -> Nat] /\ seen'[s] < setup.limit /\ \A r \in Shard \ {s} : seen'[r] = seen[r]
    BY <1>2, <1>4, <2>1, SMT DEF PermitInv
  <2>4. \A p \in Peers : Permitted(p)' <=> Permitted(p)
    BY <1>1, <2>1, <2>2 DEF Permitted
  <2>5. \A r : PermitSet(r)' = PermitSet(r)
    BY <2>4 DEF PermitSet
  <2>6. \A r \in Shard : loop'[r] = "swapping" => seen'[r] < setup.limit
    BY <2>2, <2>3 DEF PermitInv
  <2>7. QED
    BY <1>1, <2>2, <2>3, <2>5, <2>6 DEF PermitInv
<1>5. QED
  BY <1>3, <1>4

LEMMA SwapCountKeeps ==
    ASSUME TakenInv, PermitInv, NEW s \in Shard, SwapCount(s)
    PROVE  TakenInv' /\ PermitInv'
<1>1. Busy(s) /\ loop[s] = "swapping" /\ UNCHANGED <<setup, taken, seen, queue, peer>>
  BY DEF SwapCount, Busy, startVars
<1>0. PICK q \in Peers : q = taken[s]
  BY <1>1, OnlyLoop
<1>2. /\ Target(s, taken[s]) = HashAddr[q] /\ HashAddr[q] \in Shard /\ peer[q] = "accepted"
      /\ \A r \in Shard \ {s} : Busy(r) => taken[r] # q
  BY <1>0, <1>1, TargetIs, OnlyLoop
<1>3. CASE count[HashAddr[q]] = seen[s]
  <2>1. loop' = [loop EXCEPT ![s] = "permitted"] /\ count' = [count EXCEPT ![HashAddr[q]] = @ + 1]
    BY <1>2, <1>3 DEF SwapCount
  <2>2. /\ TakenInv' /\ loop'[s] = "permitted" /\ \A r \in Shard \ {s} : loop'[r] = loop[r]
    BY <1>1, <2>1, LoopGoesOn
  <2>3. ~Permitted(q) /\ Permitted(q)' /\ \A p \in Peers \ {q} : Permitted(p)' <=> Permitted(p)
    BY <1>0, <1>1, <1>2, <2>2 DEF Permitted, Busy
  <2>4. count[HashAddr[q]] < setup.limit
    BY <1>1, <1>3 DEF PermitInv
  <2>5. \A r \in Shard : loop'[r] = "swapping" => loop[r] = "swapping"
    BY <2>2
  <2>6. QED
    BY <1>1, <1>2, <2>1, <2>2, <2>3, <2>4, <2>5, PermitTaken
<1>4. CASE count[HashAddr[q]] # seen[s]
  <2>1. loop' = [loop EXCEPT ![s] = "loading"] /\ UNCHANGED count
    BY <1>2, <1>4 DEF SwapCount
  <2>2. /\ TakenInv' /\ loop'[s] = "loading" /\ \A r \in Shard \ {s} : loop'[r] = loop[r]
    BY <1>1, <2>1, LoopGoesOn
  <2>3. \A p \in Peers : Permitted(p)' <=> Permitted(p)
    BY <1>1, <2>2 DEF Permitted
  <2>4. \A r \in Shard : loop'[r] = "swapping" => loop[r] = "swapping"
    BY <2>2
  <2>5. QED
    BY <1>1, <2>1, <2>2, <2>3, <2>4, PermitsSame
<1>5. QED
  BY <1>3, <1>4

\* The accepted connection gets a handler, or the shard refuses it and the permit is back.
LEMMA SubmitHandlerKeeps ==
    ASSUME TakenInv, PermitInv, NEW s \in Shard, SubmitHandler(s)
    PROVE  TakenInv' /\ PermitInv'
<1>1. Busy(s) /\ loop[s] = "permitted" /\ UNCHANGED <<setup, seen, queue>>
  BY DEF SubmitHandler, Busy, startVars
<1>2. PICK q \in Peers : q = taken[s]
  BY <1>1, OnlyLoop
<1>3. /\ Target(s, taken[s]) = HashAddr[q] /\ HashAddr[q] \in Shard /\ peer[q] = "accepted"
      /\ \A r \in Shard \ {s} : Busy(r) => taken[r] # q
  BY <1>1, <1>2, TargetIs, OnlyLoop
<1>4. PICK place \in {"unhandled", "handled"} :
        /\ peer' = [peer EXCEPT ![q] = place]
        /\ IF place = "unhandled" THEN DropPermit(HashAddr[q]) ELSE UNCHANGED count
  BY <1>2, <1>3 DEF SubmitHandler
<1>5. /\ DOMAIN loop' = Shard /\ loop'[s] = "accepting" /\ \A r \in Shard \ {s} : loop'[r] = loop[r]
      /\ DOMAIN taken' = Shard /\ \A r \in Shard \ {s} : taken'[r] = taken[r]
  BY SMTT(30) DEF SubmitHandler, TakenInv
<1>6. /\ peer' \in [Peers -> PeerStates] /\ peer'[q] = place /\ \A p \in Peers \ {q} : peer'[p] = peer[p]
  BY <1>4, SMT DEF TakenInv, PeerStates
<1>7. ~Busy(s)' /\ \A r \in Shard : loop'[r] = "swapping" => loop[r] = "swapping"
  BY <1>5 DEF Busy
<1>8. queue' \in [Shard -> SUBSET Peers] /\ \A r \in Shard : queue'[r] \subseteq queue[r]
  BY <1>1 DEF TakenInv
<1>9. \A p \in Peers : peer'[p] = peer[p]
                       \/ (peer[p] # "waiting" /\ \A r \in Shard \ {s} : Busy(r) => taken[r] # p)
  BY <1>3, <1>6
<1>10. TakenInv'
  BY <1>1, <1>5, <1>6, <1>7, <1>8, <1>9, LoopLetsGo
<1>11. Permitted(q) /\ (Permitted(q)' <=> place = "handled")
  BY <1>1, <1>2, <1>3, <1>5, <1>6, ZenonT(30) DEF Permitted, Busy
<1>12. \A p \in Peers \ {q} : Permitted(p)' <=> Permitted(p)
  BY <1>1, <1>2, <1>5, <1>6 DEF Permitted
<1>13. CASE place = "handled"
  BY <1>1, <1>4, <1>7, <1>10, <1>11, <1>12, <1>13, PermitsSame
<1>14. CASE place = "unhandled"
  BY <1>1, <1>4, <1>7, <1>10, <1>11, <1>12, <1>14, PermitBack
<1>15. QED
  BY <1>13, <1>14

\* An accept loop ends: its listener's connections are reset, and the one it had, if any.
LEMMA LoopEnds ==
    ASSUME TakenInv, NEW s \in Shard, NEW S \in SUBSET Peers, EndLoop(s, queue[s] \cup S),
           \A p \in S : peer[p] # "waiting" /\ \A r \in Shard \ {s} : Busy(r) => taken[r] # p,
           DOMAIN taken' = Shard, \A r \in Shard \ {s} : taken'[r] = taken[r]
    PROVE  /\ TakenInv' /\ UNCHANGED setup
           /\ loop'[s] = "ended" /\ \A r \in Shard \ {s} : loop'[r] = loop[r]
           /\ \A p \in Peers : IF p \in queue[s] \cup S THEN peer'[p] = "reset" ELSE peer'[p] = peer[p]
<1>1. /\ loop' = [loop EXCEPT ![s] = "ended"] /\ queue' = [queue EXCEPT ![s] = {}] /\ UNCHANGED setup
      /\ peer' = [p \in Peers |-> IF p \in queue[s] \cup S THEN "reset" ELSE peer[p]]
  BY DEF EndLoop
<1>2. DOMAIN loop' = Shard /\ loop'[s] = "ended" /\ \A r \in Shard \ {s} : loop'[r] = loop[r]
  BY <1>1, SMTT(30) DEF TakenInv
<1>3. /\ peer' \in [Peers -> PeerStates]
      /\ \A p \in Peers : IF p \in queue[s] \cup S THEN peer'[p] = "reset" ELSE peer'[p] = peer[p]
  BY <1>1, SMTT(30) DEF TakenInv, PeerStates
<1>4. queue' \in [Shard -> SUBSET Peers] /\ queue'[s] = {} /\ \A r \in Shard : queue'[r] \subseteq queue[r]
  BY <1>1, SMT DEF TakenInv
<1>5. ~Busy(s)'
  BY <1>2 DEF Busy
<1>6. \A p \in Peers : \/ peer'[p] = peer[p]
                       \/ peer[p] # "waiting" /\ \A r \in Shard \ {s} : Busy(r) => taken[r] # p
                       \/ p \in queue[s] /\ queue'[s] = {}
  BY <1>3, <1>4
<1>7. TakenInv'
  BY <1>1, <1>2, <1>3, <1>4, <1>5, <1>6, LoopLetsGo
<1>8. QED
  BY <1>1, <1>2, <1>3, <1>7

LEMMA LoopEndKeeps ==
    ASSUME TakenInv, PermitInv, NEW s \in Shard, LoopStops(s) \/ LoopFails(s)
    PROVE  TakenInv' /\ PermitInv'
<1>1. loop[s] = "accepting" /\ EndLoop(s, queue[s]) /\ UNCHANGED <<taken, seen, count>>
  BY DEF LoopStops, LoopFails
<1>2. PICK S \in SUBSET Peers : S = {}
  OBVIOUS
<1>3. /\ TakenInv' /\ UNCHANGED setup /\ loop'[s] = "ended" /\ \A r \in Shard \ {s} : loop'[r] = loop[r]
      /\ \A p \in Peers : IF p \in queue[s] \cup S THEN peer'[p] = "reset" ELSE peer'[p] = peer[p]
  <2>1. DOMAIN taken' = Shard /\ \A r \in Shard \ {s} : taken'[r] = taken[r]
    BY <1>1 DEF TakenInv
  <2>2. \A p \in S : peer[p] # "waiting" /\ \A r \in Shard \ {s} : Busy(r) => taken[r] # p
    BY <1>2
  <2>3. queue[s] = queue[s] \cup S
    BY <1>2
  <2>4. EndLoop(s, queue[s] \cup S)
    BY ONLY <1>1, <2>3
  <2>5. QED
    BY <2>1, <2>2, <2>4, LoopEnds, ZenonT(30)
<1>4. \A p \in queue[s] : peer[p] = "waiting"
  BY DEF TakenInv
<1>5. \A p \in Peers : Permitted(p)' <=> Permitted(p)
  BY <1>1, <1>2, <1>3, <1>4 DEF Permitted
<1>6. \A r \in Shard : loop'[r] = "swapping" => loop[r] = "swapping"
  BY <1>3
<1>7. QED
  BY <1>1, <1>3, <1>5, <1>6, PermitsSame

LEMMA PanicKeeps ==
    ASSUME TakenInv, PermitInv, NEW s \in Shard, MakeHandlerPanics(s)
    PROVE  TakenInv' /\ PermitInv'
<1>1. Busy(s) /\ loop[s] = "permitted" /\ seen' = seen
  BY DEF MakeHandlerPanics, Busy
<1>2. PICK q \in Peers : q = taken[s]
  BY <1>1, OnlyLoop
<1>3. /\ Target(s, taken[s]) = HashAddr[q] /\ peer[q] = "accepted"
      /\ \A r \in Shard \ {s} : Busy(r) => taken[r] # q
  BY <1>1, <1>2, TargetIs, OnlyLoop
<1>4. DropPermit(HashAddr[q]) /\ EndLoop(s, queue[s] \cup {q})
  BY <1>2, <1>3 DEF MakeHandlerPanics
<1>5. DOMAIN taken' = Shard /\ \A r \in Shard \ {s} : taken'[r] = taken[r]
  BY SMT DEF MakeHandlerPanics, TakenInv
<1>6. /\ TakenInv' /\ UNCHANGED setup /\ loop'[s] = "ended" /\ \A r \in Shard \ {s} : loop'[r] = loop[r]
      /\ \A p \in Peers : IF p \in queue[s] \cup {q} THEN peer'[p] = "reset" ELSE peer'[p] = peer[p]
  <2>1. {q} \in SUBSET Peers /\ \A p \in {q} : peer[p] # "waiting"
                                 /\ \A r \in Shard \ {s} : Busy(r) => taken[r] # p
    BY <1>3
  <2>2. QED
    BY <1>4, <1>5, <2>1, LoopEnds, ZenonT(30)
<1>7. \A p \in queue[s] : peer[p] = "waiting"
  BY DEF TakenInv
<1>8. Permitted(q) /\ ~Permitted(q)' /\ \A p \in Peers \ {q} : Permitted(p)' <=> Permitted(p)
  <2>1. Permitted(q)
    BY <1>1, <1>2 DEF Permitted
  <2>2. ~Permitted(q)'
    BY <1>3, <1>5, <1>6 DEF Permitted, Busy
  <2>3. \A p \in Peers \ {q} : peer'[p] = "handled" <=> peer[p] = "handled"
    BY <1>6, <1>7
  <2>4. \A p \in Peers \ {q}, r \in Shard : (loop'[r] = "permitted" /\ taken'[r] = p)
                                          <=> (loop[r] = "permitted" /\ taken[r] = p)
    BY <1>2, <1>5, <1>6
  <2>5. QED
    BY <2>1, <2>2, <2>3, <2>4 DEF Permitted
<1>9. \A r \in Shard : loop'[r] = "swapping" => loop[r] = "swapping"
  BY <1>6
<1>10. QED
  BY <1>1, <1>4, <1>6, <1>8, <1>9, PermitBack

LEMMA HandlerGoesKeeps ==
    ASSUME TakenInv, PermitInv, NEW q \in Peers, HandlerGoes(q)
    PROVE  TakenInv' /\ PermitInv'
<1>1. /\ peer[q] = "handled" /\ DropPermit(HashAddr[q]) /\ peer' = [peer EXCEPT ![q] = "served"]
      /\ UNCHANGED <<setup, loop, taken, seen, queue>>
  BY DEF HandlerGoes, startVars, loopVars
<1>2. /\ peer' \in [Peers -> PeerStates] /\ peer'[q] = "served" /\ \A p \in Peers \ {q} : peer'[p] = peer[p]
  BY <1>1, SMT DEF TakenInv, PeerStates
<1>3. \A s \in Shard : q \notin queue[s] /\ (Busy(s) => taken[s] # q)
  BY <1>1 DEF TakenInv
<1>4. \A s : Busy(s)' <=> Busy(s)
  BY <1>1 DEF Busy
<1>5. \A s \in Shard : queue[s] \subseteq Peers
  BY DEF TakenInv
<1>6. TakenInv'
  BY <1>1, <1>2, <1>3, <1>4, <1>5, SMTT(30) DEF TakenInv
<1>7. Permitted(q) /\ ~Permitted(q)' /\ \A p \in Peers \ {q} : Permitted(p)' <=> Permitted(p)
  BY <1>1, <1>2, <1>3 DEF Permitted, Busy
<1>8. QED
  BY <1>1, <1>6, <1>7, PermitBack

LEMMA ConnectPeerKeeps ==
    ASSUME TakenInv, PermitInv, NEW q \in Peers, ConnectPeer(q)
    PROVE  TakenInv' /\ PermitInv'
<1>1. /\ peer[q] = "away" /\ peer' = [peer EXCEPT ![q] = "waiting"]
      /\ UNCHANGED <<setup, loop, taken, seen, count>>
  BY DEF ConnectPeer, startVars, loopVars
<1>2. PICK s \in Shard : (setup.reusePort => s = HashAddr[q]) /\ queue' = [queue EXCEPT ![s] = @ \cup {q}]
  BY DEF ConnectPeer
<1>3. /\ peer' \in [Peers -> PeerStates] /\ peer'[q] = "waiting" /\ \A p \in Peers \ {q} : peer'[p] = peer[p]
  BY <1>1, SMTT(30) DEF TakenInv, PeerStates
<1>4. /\ queue' \in [Shard -> SUBSET Peers] /\ queue'[s] = queue[s] \cup {q}
      /\ \A r \in Shard \ {s} : queue'[r] = queue[r]
  BY <1>2, SMT DEF TakenInv
<1>5. \A r \in Shard : q \notin queue[r] /\ (Busy(r) => taken[r] # q) /\ queue[r] \subseteq Peers
  BY <1>1 DEF TakenInv
<1>6. \A r : Busy(r)' <=> Busy(r)
  BY <1>1 DEF Busy
<1>7. ASSUME NEW r \in Shard, NEW p \in queue'[r]
      PROVE  peer'[p] = "waiting" /\ (setup.reusePort => HashAddr[p] = r)
             /\ \A x \in Shard : p \in queue'[x] => x = r
  <2>1. CASE p = q
    <3>1. \A x \in Shard : q \in queue'[x] => x = s
      BY <1>4, <1>5
    <3>2. QED
      BY <1>2, <1>3, <1>7, <2>1, <3>1
  <2>2. CASE p # q
    <3>1. \A x \in Shard : p \in queue'[x] => p \in queue[x]
      BY <1>4, <2>2
    <3>2. p \in queue[r] /\ p \in Peers \ {q}
      BY <1>5, <1>7, <2>2, <3>1
    <3>3. peer'[p] = peer[p]
      BY <1>3, <3>2
    <3>4. QED
      BY <3>1, <3>2, <3>3, SMT DEF TakenInv
  <2>3. QED
    BY <2>1, <2>2
<1>8. ASSUME NEW r \in Shard, Busy(r)
      PROVE  peer'[taken[r]] = "accepted"
  BY <1>3, <1>5, <1>8 DEF TakenInv
<1>9. TakenInv'
  BY <1>1, <1>3, <1>4, <1>6, <1>7, <1>8, SMTT(30) DEF TakenInv
<1>10. \A p \in Peers : Permitted(p)' <=> Permitted(p)
  BY <1>1, <1>3 DEF Permitted
<1>11. QED
  BY <1>1, <1>9, <1>10, PermitsSame

\* A shard that closes drops its handlers, and their permits with them.
LEMMA CloseShardKeeps ==
    ASSUME TakenInv, PermitInv, NEW s \in Shard, CloseShard(s)
    PROVE  TakenInv' /\ PermitInv'
<1>1. /\ loop[s] \in {"none", "accepting", "ended"}
      /\ count' = [count EXCEPT ![s] = @ - Cardinality(Handled(s))]
      /\ peer' = [p \in Peers |-> IF p \in Handled(s) \cup queue[s] THEN "reset" ELSE peer[p]]
      /\ queue' = [queue EXCEPT ![s] = {}]
      /\ loop' = [loop EXCEPT ![s] = IF @ = "none" THEN "none" ELSE "ended"]
      /\ UNCHANGED <<setup, taken, seen>>
  BY DEF CloseShard
<1>2. DOMAIN loop' = Shard /\ loop'[s] \in {"none", "ended"} /\ \A r \in Shard \ {s} : loop'[r] = loop[r]
  BY <1>1, SMTT(30) DEF TakenInv
<1>3. /\ peer' \in [Peers -> PeerStates]
      /\ \A p \in Peers : IF p \in Handled(s) \cup queue[s] THEN peer'[p] = "reset" ELSE peer'[p] = peer[p]
  BY <1>1, SMTT(30) DEF TakenInv, PeerStates
<1>4. queue' \in [Shard -> SUBSET Peers] /\ queue'[s] = {} /\ \A r \in Shard : queue'[r] \subseteq queue[r]
  BY <1>1, SMT DEF TakenInv
<1>5. ~Busy(s)' /\ DOMAIN taken' = Shard /\ \A r \in Shard : loop'[r] = "swapping" => loop[r] = "swapping"
  BY <1>1, <1>2 DEF Busy, TakenInv
<1>6. \A p \in Handled(s) : p \in Peers /\ peer[p] = "handled" /\ \A r \in Shard : Busy(r) => taken[r] # p
  BY DEF Handled, TakenInv
<1>7. \A p \in queue[s] : peer[p] = "waiting"
  BY DEF TakenInv
<1>8. \A p \in Peers : \/ peer'[p] = peer[p]
                       \/ peer[p] # "waiting" /\ \A r \in Shard \ {s} : Busy(r) => taken[r] # p
                       \/ p \in queue[s] /\ queue'[s] = {}
  BY <1>3, <1>4, <1>6
<1>9. TakenInv'
  BY <1>1, <1>2, <1>3, <1>4, <1>5, <1>8, LoopLetsGo
<1>10. \A p \in Peers : Permitted(p)' <=> Permitted(p) /\ p \notin Handled(s)
  <2>1. \A r \in Shard : (loop'[r] = "permitted" <=> loop[r] = "permitted") /\ taken'[r] = taken[r]
    BY <1>1, <1>2
  <2>2. \A p \in Peers : peer'[p] = "handled" <=> peer[p] = "handled" /\ p \notin Handled(s)
    BY <1>3, <1>7
  <2>3. \A r \in Shard : loop[r] = "permitted" => taken[r] \notin Handled(s)
    BY <1>6 DEF Busy
  <2>4. QED
    BY <2>1, <2>2, <2>3, ZenonT(30) DEF Permitted
<1>11. PermitSet(s)' = PermitSet(s) \ Handled(s) /\ Handled(s) \subseteq PermitSet(s)
  BY <1>10 DEF PermitSet, Handled, Permitted
<1>12. \A r \in Shard \ {s} : PermitSet(r)' = PermitSet(r)
  BY <1>10 DEF PermitSet, Handled
<1>13. /\ Cardinality(PermitSet(s)') = Cardinality(PermitSet(s)) - Cardinality(Handled(s))
       /\ Cardinality(PermitSet(s)') \in Nat
  <2>1. PermitSet(s) \cap Handled(s) = Handled(s)
    BY <1>11
  <2>2. IsFiniteSet(Handled(s))
    BY <1>11, PermitsFinite, FS_Subset
  <2>3. QED
    BY <1>11, <2>1, <2>2, PermitsFinite, FS_Difference, FS_CardinalityType
<1>14. count' = [count EXCEPT ![s] = Cardinality(PermitSet(s)')]
  BY <1>1, <1>13 DEF PermitInv
<1>15. /\ count' \in [Shard -> Nat] /\ count'[s] = Cardinality(PermitSet(s)')
       /\ \A r \in Shard \ {s} : count'[r] = count[r]
  BY <1>13, <1>14, SMTT(30) DEF PermitInv
<1>16. count'[s] <= setup.limit
  <2>1. Cardinality(Handled(s)) \in Nat
    BY <1>11, PermitsFinite, FS_Subset, FS_CardinalityType
  <2>2. QED
    BY <1>13, <1>15, <2>1, SMTT(30) DEF PermitInv
<1>17. \A r \in Shard : count'[r] = Cardinality(PermitSet(r)') /\ count'[r] <= setup.limit
  BY <1>12, <1>15, <1>16 DEF PermitInv
<1>18. QED
  BY <1>1, <1>5, <1>9, <1>15, <1>17 DEF PermitInv

LEMMA LoopStepStarts ==
    ASSUME LoopStartInv, NEW s \in Shard, LoopStep(s) \/ LoopFails(s) \/ CloseShard(s), DOMAIN loop = Shard
    PROVE  LoopStartInv'
<1>1. UNCHANGED <<starter, making>>
  BY DEF LoopStep, AcceptPeer, LoopStops, LoadCount, SwapCount, SubmitHandler, MakeHandlerPanics, LoopFails,
         CloseShard, EndLoop, startVars
<1>2. \A r \in Shard : loop[r] = "none" => loop'[r] = "none"
  <2>1. CASE AcceptPeer(s) \/ LoopStops(s) \/ LoopFails(s) \/ MakeHandlerPanics(s) \/ SubmitHandler(s)
    BY <2>1, SMTT(30) DEF AcceptPeer, LoopStops, LoopFails, MakeHandlerPanics, EndLoop, SubmitHandler
  <2>2. CASE LoadCount(s) \/ SwapCount(s) \/ CloseShard(s)
    BY <2>2, SMT DEF LoadCount, SwapCount, CloseShard
  <2>3. QED
    BY <2>1, <2>2 DEF LoopStep
<1>3. QED
  BY <1>1, <1>2 DEF LoopStartInv

LEMMA StarterStepKeeps ==
    ASSUME LoopStartInv, TakenInv, PermitInv, StarterStep
    PROVE  LoopStartInv' /\ TakenInv' /\ PermitInv'
<1>1. ASSUME UNCHANGED <<setup, loopVars, connVars, making>>,
             starter' \in {starter, "failed"} \/ (starter = "called" /\ starter' = "making")
      PROVE  LoopStartInv' /\ TakenInv' /\ PermitInv'
  <2>1. LoopStartInv'
    BY <1>1 DEF LoopStartInv, loopVars
  <2>2. QED
    BY <1>1, <2>1, TcpSame
<1>2. CASE Start \/ SocketStep \/ SocketStepFails \/ SubmitLoopFails
  BY <1>1, <1>2 DEF Start, SocketStep, SocketStepFails, SubmitLoopFails, FailStart
<1>3. CASE KeepListener
  <2>1. /\ starter = "making" /\ UNCHANGED <<setup, loopVars, connVars>>
        /\ \/ making' = making + 1 /\ starter' = starter
           \/ making' = 0 /\ starter' = "submitting"
    BY <1>3 DEF KeepListener
  <2>2. making' \in Nat
    BY <2>1, SMT DEF LoopStartInv
  <2>3. LoopStartInv'
    BY <2>1, <2>2 DEF LoopStartInv, loopVars
  <2>4. QED
    BY <2>1, <2>3, TcpSame
<1>4. CASE SubmitLoop
  <2>1. /\ starter = "submitting" /\ loop' = [loop EXCEPT ![making] = "accepting"]
        /\ UNCHANGED <<setup, taken, seen, queue, count, peer>>
        /\ \/ making' = making + 1 /\ starter' = starter
           \/ making' = making /\ starter' = "started"
    BY <1>4 DEF SubmitLoop, connVars
  <2>2. DOMAIN loop' = Shard /\ \A s \in Shard : loop'[s] = IF s = making THEN "accepting" ELSE loop[s]
    BY <2>1, SMT DEF TakenInv
  <2>3. making \in Shard => loop[making] = "none"
    BY <2>1, SMT DEF LoopStartInv
  <2>4. LoopStartInv'
    <3>1. making' \in Nat /\ \A s \in Shard : s >= making' /\ starter' = "submitting" =>
                                                s >= making /\ s # making
      BY <2>1, SMT DEF LoopStartInv, Shard
    <3>2. starter' \notin {"called", "making"}
      BY <2>1
    <3>3. QED
      BY <2>1, <2>2, <3>1, <3>2 DEF LoopStartInv
  <2>5. \A s \in Shard : /\ Busy(s)' <=> Busy(s)
                         /\ loop'[s] = "permitted" <=> loop[s] = "permitted"
                         /\ loop'[s] = "swapping" => loop[s] = "swapping"
    BY <2>2, <2>3 DEF Busy
  <2>6. TakenInv'
    BY <2>1, <2>2, <2>5, SMT DEF TakenInv
  <2>7. \A p \in Peers : Permitted(p)' <=> Permitted(p)
    BY <2>1, <2>5 DEF Permitted
  <2>8. QED
    BY <2>1, <2>4, <2>5, <2>6, <2>7, PermitsSame
<1>5. QED
  BY <1>2, <1>3, <1>4 DEF StarterStep

\* For any number of shards and connections, any hash and any limit, a shard's connection count is
\* the number of permits that are out, and within the limit (ConnectionPermit,
\* run_handler_with_permit).
THEOREM CountsAlwaysExact == TcpSpec => []CountsExact
<1> DEFINE TcpInv == LoopStartInv /\ TakenInv /\ PermitInv
<1>1. TcpInit("called", Setups) => TcpInv
  <2> SUFFICES ASSUME TcpInit("called", Setups) PROVE TcpInv
    OBVIOUS
  <2>1. /\ setup \in Setups /\ making = 0 /\ loop = [s \in Shard |-> "none"] /\ taken = [s \in Shard |-> NoOne]
        /\ seen = [s \in Shard |-> 0] /\ queue = [s \in Shard |-> {}] /\ count = [s \in Shard |-> 0]
        /\ peer = [p \in Peers |-> "away"]
    BY DEF TcpInit
  <2>2. /\ making \in Nat /\ setup.limit \in Nat /\ 0 <= setup.limit /\ queue \in [Shard -> SUBSET Peers]
        /\ count \in [Shard -> Nat] /\ seen \in [Shard -> Nat] /\ peer \in [Peers -> PeerStates]
    BY <2>1, TcpAssumption, SMT DEF PeerStates
  <2>3. LoopStartInv
    BY <2>1, <2>2 DEF LoopStartInv
  <2>4. TakenInv
    BY <2>1, <2>2 DEF TakenInv, Busy
  <2>5. \A s \in Shard : PermitSet(s) = {}
    BY <2>1 DEF PermitSet, Permitted
  <2>6. \A s \in Shard : count[s] = Cardinality(PermitSet(s)) /\ count[s] <= setup.limit
    BY <2>1, <2>2, <2>5, FS_EmptySet
  <2>7. QED
    BY <2>1, <2>2, <2>3, <2>4, <2>6 DEF PermitInv
<1>2. TcpInv /\ [TcpNext]_tcpVars => TcpInv'
  <2> SUFFICES ASSUME LoopStartInv, TakenInv, PermitInv, [TcpNext]_tcpVars PROVE LoopStartInv' /\ TakenInv' /\ PermitInv'
    OBVIOUS
  <2>1. ASSUME UNCHANGED <<setup, starter, making, loopVars, connVars>>
        PROVE  LoopStartInv' /\ TakenInv' /\ PermitInv'
    BY <2>1, TcpSame DEF LoopStartInv, loopVars
  <2>2. CASE UNCHANGED tcpVars \/ StopServer
    BY <2>1, <2>2 DEF tcpVars, startVars, StopServer
  <2>3. ASSUME NEW s \in Shard, LoopStep(s) \/ LoopFails(s) \/ CloseShard(s)
        PROVE  LoopStartInv' /\ TakenInv' /\ PermitInv'
    <3>1. LoopStartInv'
      BY <2>3, LoopStepStarts DEF TakenInv
    <3>2. TakenInv' /\ PermitInv'
      BY <2>3, AcceptPeerKeeps, LoadCountKeeps, SwapCountKeeps, SubmitHandlerKeeps, PanicKeeps, LoopEndKeeps,
         CloseShardKeeps
      DEF LoopStep
    <3>3. QED
      BY <3>1, <3>2
  <2>4. ASSUME NEW p \in Peers, HandlerGoes(p) \/ ConnectPeer(p)
        PROVE  LoopStartInv' /\ TakenInv' /\ PermitInv'
    <3>1. UNCHANGED <<starter, making, loop>>
      BY <2>4 DEF HandlerGoes, ConnectPeer, startVars, loopVars
    <3>2. QED
      BY <2>4, <3>1, HandlerGoesKeeps, ConnectPeerKeeps DEF LoopStartInv
  <2>5. QED
    BY <2>2, <2>3, <2>4, StarterStepKeeps DEF TcpNext
<1>3. TcpInv => CountsExact
  BY PermitsAre DEF PermitInv, CountsExact
<1> HIDE DEF TcpInv
<1>4. QED
  BY <1>1, <1>2, <1>3, PTL DEF TcpSpec

=============================================================================
