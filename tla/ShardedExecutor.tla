-------------------------- MODULE ShardedExecutor --------------------------
(***************************************************************************)
(* The shard-per-thread runtime (sharded_executor.rs, its join.rs, and     *)
(* shard_local.rs on top of it): a thread starts the shards one after the  *)
(* other and rolls back when one fails; clients submit one task per shard, *)
(* wait for all of them, and give up on errors and deadlines; shard-local  *)
(* values are reached only inside such tasks; and the owner shuts the      *)
(* runtime down, patiently or with a deadline.                             *)
(*                                                                         *)
(* What happens inside one executor is TaskExecutor; here a poll is two    *)
(* steps, so that aborts, stops and other shards fall between them.        *)
(***************************************************************************)
EXTENDS Placement

CONSTANTS
    ShardCount,
    Clients,      \* the calls made to the runtime
    Owned,        \* those of them made by the thread that owns the runtime
    Scenarios,    \* what the runtime is configured with, and what each client does
    None

Shards == 0 .. ShardCount - 1

\* What a client calls: an operation on shard-local values, futures, workers that it joins, stops
\* and joins, or just drops, or tasks without a handle; on every shard, or on one that need not
\* exist; a timed call has a deadline; its scheduling group is of this runtime or of another.
Modes == [kind : {"local", "futures", "workers", "stopped", "dropped", "detached"},
          timed : BOOLEAN,
          group : {"none", "own", "foreign"}, on : (0 .. ShardCount) \X (0 .. ShardCount)]

ASSUME ShardedAssumption ==
    /\ ShardCount \in Nat
    /\ Owned \subseteq Clients
    /\ None \notin Clients
    /\ \A x \in Scenarios : x.mode \in [Clients -> Modes]

VARIABLES
    config,       \* ShardedExecutorConfig
    mode,         \* what each client does
    owner,        \* where the owning thread is
    next,         \* the shard being started
    thread,       \* per shard: none, starting, running, closing, finished or dead
    placed,       \* per shard: the ShardStartStatus it sent, or None
    spawners,     \* the shards whose spawner the runtime still owns
    joins,        \* the shards whose thread it has still to join
    stopping,     \* the shards whose executor was asked to stop
    forced,       \* ShardedShutdownOutcome::forced_shards
    client,       \* where each client is
    at,           \* the shard it is submitting to or joining
    held,         \* clients that hold a ShardedSubmitter
    told,         \* clients whose stop token is set
    task,         \* per client and shard: the task
    result,       \* per client and shard: JoinState::result
    polling,      \* per shard: the client whose task is being polled
    borrowed      \* per shard: the client whose guard holds ShardLocalCell::borrowed

\* The first and the last shard of a call, and the shard after s.
First(c) == mode[c].on[1]
Last(c) == mode[c].on[2]
Following(c) == IF at[c] = Last(c) THEN First(c) ELSE at[c] + 1

ownerVars == <<owner, next, placed, spawners, joins, forced>>
clientVars == <<client, at, held, told>>
taskVars == <<task, result>>
localVars == <<polling, borrowed>>
vars == <<config, mode, ownerVars, thread, stopping, clientVars, taskVars, localVars>>

-----------------------------------------------------------------------------
Init ==
    /\ \E x \in Scenarios : config = x.config /\ mode = x.mode
    /\ owner = "configured"
    /\ next = 0
    /\ thread = [s \in Shards |-> "none"]
    /\ placed = [s \in Shards |-> None]
    /\ spawners = {}
    /\ joins = {}
    /\ stopping = {}
    /\ forced = {}
    /\ client = [c \in Clients |-> "idle"]
    /\ at = [c \in Clients |-> First(c)]
    /\ held = {}
    /\ told = {}
    /\ task = [c \in Clients |-> [s \in Shards |-> "none"]]
    /\ result = [c \in Clients |-> [s \in Shards |-> "none"]]
    /\ polling = [s \in Shards |-> None]
    /\ borrowed = [s \in Shards |-> None]

-----------------------------------------------------------------------------
(* Starting *)

\* ShardedExecutorConfig::validate and validate_cpu_placement_against
ConfigValid ==
    /\ ShardCount > 0
    /\ CoversShards(config.cpu, ShardCount)
    /\ MemoryValid(config.memory)
    /\ WithinProcess(config.cpu, ShardCount)

Configure ==
    /\ owner = "configured"
    /\ owner' = IF ConfigValid THEN "starting" ELSE "failed"
    /\ UNCHANGED <<config, mode, next, thread, placed, spawners, joins, stopping, forced,
                   clientVars, taskVars, localVars>>

\* An executor, its spawner and its thread; from here the owner waits for the thread's status.
SpawnThread ==
    /\ owner = "starting"
    /\ next < ShardCount
    /\ thread' = [thread EXCEPT ![next] = "starting"]
    /\ spawners' = spawners \cup {next}
    /\ owner' = "awaiting"
    /\ UNCHANGED <<config, mode, next, placed, joins, stopping, forced, clientVars, taskVars,
                   localVars>>

\* cleanup_started_shards: every spawner the runtime has stored is dropped before the threads
\* are joined.  kept is the spawner of the shard being started, still a local variable.
CleanupStartedShards(kept) ==
    /\ spawners' = kept
    /\ owner' = "rollback"

\* thread::Builder::spawn fails.
SpawnThreadFails ==
    /\ owner = "starting"
    /\ next < ShardCount
    /\ CleanupStartedShards({})
    /\ UNCHANGED <<config, mode, next, thread, placed, joins, stopping, forced, clientVars,
                   taskVars, localVars>>

\* The thread places itself, sets its thread-locals, reports and enters Executor::run.
Report(s) ==
    /\ thread[s] = "starting"
    /\ \E cpuAccepted, memoryAccepted \in BOOLEAN :
         LET cpu == ApplyCpu(CpuForShard(config.cpu, s), cpuAccepted) IN
         placed' = [placed EXCEPT ![s] =
                      [cpu |-> cpu, memory |-> ApplyMemory(config.memory, cpu, memoryAccepted)]]
    /\ thread' = [thread EXCEPT ![s] = "running"]
    /\ UNCHANGED <<config, mode, owner, next, spawners, joins, stopping, forced, clientVars,
                   taskVars, localVars>>

\* The thread panics before it can report: its end of the status channel is dropped.
DieUnreported(s) ==
    /\ thread[s] = "starting"
    /\ thread' = [thread EXCEPT ![s] = "dead"]
    /\ UNCHANGED <<config, mode, ownerVars, stopping, clientVars, taskVars, localVars>>

\* The CPU that is required was asked for and not given.
CpuRefused(s) ==
    /\ config.requireCpu
    /\ CpuForShard(config.cpu, s) # NoCpu
    /\ ~IsApplied(placed[s].cpu)

\* The memory policy that is required was asked for and not applied.
MemoryRefused(s) ==
    /\ config.requireMemory
    /\ config.memory # DefaultMemory
    /\ ~IsApplied(placed[s].memory)

\* The status arrived and the placement is as required: the shard is kept.
KeepShard ==
    /\ owner = "awaiting"
    /\ placed[next] # None
    /\ ~CpuRefused(next)
    /\ ~MemoryRefused(next)
    /\ joins' = joins \cup {next}
    /\ next' = next + 1
    /\ owner' = IF next + 1 = ShardCount THEN "up" ELSE "starting"
    /\ UNCHANGED <<config, mode, thread, placed, spawners, stopping, forced, clientVars,
                   taskVars, localVars>>

\* fault: the refused shard's thread is not among those that are joined.
RejectShardUnjoined ==
    /\ owner = "awaiting"
    /\ placed[next] # None
    /\ CpuRefused(next) \/ MemoryRefused(next)
    /\ CleanupStartedShards({})
    /\ UNCHANGED <<config, mode, next, thread, placed, joins, stopping, forced, clientVars,
                   taskVars, localVars>>

\* Required placement was refused: this shard's spawner is dropped too, then all are joined.
RejectShard ==
    /\ owner = "awaiting"
    /\ placed[next] # None
    /\ CpuRefused(next) \/ MemoryRefused(next)
    /\ joins' = joins \cup {next}
    /\ CleanupStartedShards({})
    /\ UNCHANGED <<config, mode, next, thread, placed, stopping, forced, clientVars, taskVars,
                   localVars>>

\* The status channel closed unused.
NoStatus ==
    /\ owner = "awaiting"
    /\ thread[next] = "dead"
    /\ joins' = joins \cup {next}
    /\ CleanupStartedShards({next})
    /\ UNCHANGED <<config, mode, next, thread, placed, stopping, forced, clientVars, taskVars,
                   localVars>>

\* thread::JoinHandle::is_finished
Finished(s) == thread[s] \in {"finished", "dead"}

\* join_all at the end of a rollback; start_with_config returns its error.
RolledBack ==
    /\ owner = "rollback"
    /\ \A s \in joins : Finished(s)
    /\ joins' = {}
    /\ spawners' = {}
    /\ owner' = "failed"
    /\ UNCHANGED <<config, mode, next, thread, placed, stopping, forced, clientVars, taskVars,
                   localVars>>

-----------------------------------------------------------------------------
(* Shard threads *)

\* A task that still has its future: ready or waiting, or aborted while it is being polled.
Alive == {"queued", "waiting", "canceling"}

\* A worker's future owns a ShardLocal, and with it a submitter for every shard.
Carries(c) == mode[c].kind \in {"workers", "stopped", "dropped"}

\* The workers that are given a stop token.
Stoppable(c) == mode[c].kind \in {"stopped", "dropped"}

\* The spawner count of shard s: the owner's, the clients' submitters, and the submitters that
\* live in futures on any shard.
NoSpawner(s) ==
    /\ s \notin spawners
    /\ held = {}
    /\ \A c \in Clients : Carries(c) => \A r \in Shards : task[c][r] \notin Alive

IsDrained(s) == NoSpawner(s) /\ \A c \in Clients : task[c][s] \notin Alive

\* Executor::run returns, and the thread-locals are cleared.
LeaveRun(s) ==
    /\ thread[s] = "running"
    /\ polling[s] = None
    /\ IsDrained(s) \/ s \in stopping
    /\ thread' = [thread EXCEPT ![s] = "closing"]
    /\ UNCHANGED <<config, mode, ownerVars, stopping, clientVars, taskVars, localVars>>

\* The executor is dropped: Scheduler::close drops the futures it still has, without a result
\* for their handles, and the thread ends.
CloseExecutor(s) ==
    /\ thread[s] = "closing"
    /\ thread' = [thread EXCEPT ![s] = "finished"]
    /\ task' = [c \in Clients |-> [task[c] EXCEPT ![s] = IF @ \in Alive THEN "lost" ELSE @]]
    /\ UNCHANGED <<config, mode, ownerVars, stopping, clientVars, result, localVars>>

\* ShardLocalCell::with_mut up to its closure: a borrowed cell fails the assertion, otherwise
\* the flag is set and the guard made.
EnterCell(c, s) ==
    IF mode[c].kind = "local" /\ borrowed[s] = None
    THEN borrowed' = [borrowed EXCEPT ![s] = c]
    ELSE UNCHANGED borrowed

\* A ready task is polled; the operation of a local task runs in with_mut.
BeginPoll(c, s) ==
    /\ thread[s] = "running"
    /\ polling[s] = None
    /\ task[c][s] = "queued"
    /\ polling' = [polling EXCEPT ![s] = c]
    /\ EnterCell(c, s)
    /\ UNCHANGED <<config, mode, ownerVars, thread, stopping, clientVars, taskVars>>

\* How a poll may end.  A local operation is synchronous, and panics as well when the cell was
\* borrowed; a worker may wait for its stop token; a future that is waited for with a deadline
\* may wait for anything.
Outcomes(c, s) ==
    CASE mode[c].kind = "local" -> IF borrowed[s] = c THEN {"ok", "panic"} ELSE {"refused"}
      [] Stoppable(c) /\ c \notin told -> {"ok", "panic", "pending"}
      [] mode[c].kind \in {"futures", "workers"} /\ mode[c].timed -> {"ok", "panic", "pending"}
      [] OTHER -> {"ok", "panic"}

\* BorrowGuard::drop, on return and on unwinding alike.
DropBorrowGuard(c, s, r) == borrowed' = [borrowed EXCEPT ![s] = IF @ = c THEN None ELSE @]

\* complete_join keeps the first result, and a task without a handle has none to keep.
CompleteJoin(c, s, r) ==
    result' = [result EXCEPT ![c][s] =
                 IF @ = "none" /\ mode[c].kind # "detached" /\ r # "pending" THEN r ELSE @]

\* Task::poll after the future returned: finish_ready, finish_panicked or finish_pending.
EndPoll(c, s) ==
    /\ polling[s] = c
    /\ polling' = [polling EXCEPT ![s] = None]
    /\ \E r \in Outcomes(c, s) :
         /\ DropBorrowGuard(c, s, r)
         /\ CompleteJoin(c, s, r)
         /\ task' = [task EXCEPT ![c][s] =
                       CASE r # "pending" -> "done"
                         [] r = "pending" /\ @ = "canceling" -> "aborted"
                         [] OTHER -> "waiting"]
    /\ UNCHANGED <<config, mode, ownerVars, thread, stopping, clientVars>>

-----------------------------------------------------------------------------
(* Clients *)

Go(c, place) == client' = [client EXCEPT ![c] = place]

\* JoinHandle::abort on every handle in S: a task that is not being polled loses its future at
\* once, and its join result is Canceled either way.
Abort(c, S) ==
    LET Hit(s) == s \in S /\ task[c][s] \in {"queued", "waiting"} IN
    /\ task' = [task EXCEPT ![c] = [s \in Shards |->
                  IF ~Hit(s) THEN task[c][s]
                  ELSE IF polling[s] = c THEN "canceling" ELSE "aborted"]]
    /\ result' = [result EXCEPT ![c] = [s \in Shards |->
                    IF Hit(s) /\ result[c][s] = "none" THEN "canceled" ELSE result[c][s]]]

\* ShardedExecutor::submitter clones the spawner of every shard.
TakeSubmitter(c) ==
    /\ client[c] = "idle"
    /\ c \notin Owned
    /\ owner = "up"
    /\ held' = held \cup {c}
    /\ Go(c, "submitting")
    /\ UNCHANGED <<config, mode, ownerVars, thread, stopping, at, told, taskVars, localVars>>

\* The owner calls its own runtime.
UseRuntime(c) ==
    /\ client[c] = "idle"
    /\ c \in Owned
    /\ owner = "up"
    /\ Go(c, "submitting")
    /\ UNCHANGED <<config, mode, ownerVars, thread, stopping, at, held, told, taskVars, localVars>>

\* group_for: a group belongs to the runtime that made it.
GroupMatches(c) == mode[c].group # "foreign"

\* spawner_for and Spawner::spawn: the shard exists, the runtime or the submitter has its
\* spawner, and the executor is not closed.
Accepts(c, s) ==
    /\ s \in Shards
    /\ IF c \in Owned THEN s \in spawners ELSE c \in held
    /\ GroupMatches(c)
    /\ thread[s] \in {"running", "closing"}

OnAll(c) == First(c) # Last(c)

\* A call submits to the next of its shards, and goes on to after behind the last one.
SubmitNext(c, after) ==
    /\ client[c] = "submitting"
    /\ Accepts(c, at[c])
    /\ task' = [task EXCEPT ![c][at[c]] = "queued"]
    /\ at' = [at EXCEPT ![c] = Following(c)]
    /\ IF at[c] = Last(c) THEN Go(c, after) ELSE UNCHANGED client
    /\ UNCHANGED <<config, mode, ownerVars, thread, stopping, held, told, result, localVars>>

\* Tasks without a handle: spawn_on_all, submit_to_all, spawn_on and submit_to, with their
\* named and grouped variants.
Detached(c) == mode[c].kind = "detached" /\ SubmitNext(c, "done")
SpawnOnAll(c) == c \in Owned /\ OnAll(c) /\ Detached(c)
SubmitToAll(c) == c \notin Owned /\ OnAll(c) /\ Detached(c)
SpawnOn(c) == c \in Owned /\ ~OnAll(c) /\ Detached(c)
SubmitTo(c) == c \notin Owned /\ ~OnAll(c) /\ Detached(c)

\* A handle per shard, as spawn_with_handle_on_all_shards collects them: to be joined with a
\* deadline, or by map_all and map_reduce_all, which have none.
HandleOnEveryShard(c) == OnAll(c) /\ mode[c].kind = "futures" /\ SubmitNext(c, "joining")
SpawnWithHandleOnAll(c) == c \in Owned /\ mode[c].timed /\ HandleOnEveryShard(c)
SubmitWithHandleToAll(c) == c \notin Owned /\ mode[c].timed /\ HandleOnEveryShard(c)
MapAll(c) == c \in Owned /\ ~mode[c].timed /\ HandleOnEveryShard(c)
SubmitterMapAll(c) == c \notin Owned /\ ~mode[c].timed /\ HandleOnEveryShard(c)

\* One handle: spawn_with_handle_on and submit_with_handle_to.
HandleOnShard(c) == ~OnAll(c) /\ mode[c].kind = "futures" /\ SubmitNext(c, "joining")
SpawnWithHandleOn(c) == c \in Owned /\ HandleOnShard(c)
SubmitWithHandleTo(c) == c \notin Owned /\ HandleOnShard(c)

\* Shard-local operations: with_all, joined with a deadline; map_all and map_reduce_all; with_on.
LocalOperation(c) == mode[c].kind = "local" /\ SubmitNext(c, "joining")
WithAll(c) == OnAll(c) /\ mode[c].timed /\ LocalOperation(c)
LocalMapAll(c) == OnAll(c) /\ ~mode[c].timed /\ LocalOperation(c)
WithOn(c) == ~OnAll(c) /\ LocalOperation(c)

\* spawn_named_workers and spawn_named_stoppable_workers: each future gets a clone of the
\* ShardLocal, and of the stop token.
SpawnWorkers(c) == mode[c].kind = "workers" /\ SubmitNext(c, "joining")
SpawnStoppableWorkers(c) == Stoppable(c) /\ SubmitNext(c, "working")

\* A submission fails: the handles collected so far are dropped, which aborts their tasks;
\* tasks without a handle stay.
SubmitFails(c) ==
    /\ client[c] = "submitting"
    /\ ~Accepts(c, at[c])
    /\ IF mode[c].kind = "detached" THEN UNCHANGED taskVars ELSE Abort(c, Shards)
    /\ Go(c, "done")
    /\ UNCHANGED <<config, mode, ownerVars, thread, stopping, at, held, told, localVars>>

\* StoppableShardLocalWorkers::stop wakes the workers that wait on the token.
StopWorkers(c) ==
    /\ client[c] = "working"
    /\ mode[c].kind = "stopped"
    /\ told' = told \cup {c}
    /\ task' = [task EXCEPT ![c] = [s \in Shards |-> IF @[s] = "waiting" THEN "queued" ELSE @[s]]]
    /\ Go(c, "joining")
    /\ UNCHANGED <<config, mode, ownerVars, thread, stopping, at, held, result, localVars>>

\* Dropped instead: stop, abort_all.
DropWorkers(c) ==
    /\ client[c] = "working"
    /\ mode[c].kind = "dropped"
    /\ told' = told \cup {c}
    /\ Abort(c, Shards)
    /\ Go(c, "done")
    /\ UNCHANGED <<config, mode, ownerVars, thread, stopping, at, held, localVars>>

\* One handle of join_all_shards or join_all_shards_timeout yields an output.
JoinOutput(c) ==
    /\ client[c] = "joining"
    /\ result[c][at[c]] = "ok"
    /\ at' = [at EXCEPT ![c] = Following(c)]
    /\ IF at[c] = Last(c) THEN Go(c, "done") ELSE UNCHANGED client
    /\ UNCHANGED <<config, mode, ownerVars, thread, stopping, held, told, taskVars, localVars>>

\* fault: the handles behind the failed one are forgotten without being dropped.
OnlyThis(s) == {s}

\* The handles that are dropped when the join of shard s ends early.
Remaining(s) == s .. ShardCount - 1

\* Or an error, with which the join returns; the remaining handles are aborted or dropped.
JoinError(c) ==
    /\ client[c] = "joining"
    /\ result[c][at[c]] \notin {"none", "ok"}
    /\ Abort(c, Remaining(at[c]))
    /\ Go(c, "done")
    /\ UNCHANGED <<config, mode, ownerVars, thread, stopping, at, held, told, localVars>>

\* The deadline of join_all_shards_timeout passes, before a handle is popped or while it is
\* awaited.
JoinTimeout(c) ==
    /\ client[c] = "joining"
    /\ mode[c].timed
    /\ Abort(c, Remaining(at[c]))
    /\ Go(c, "done")
    /\ UNCHANGED <<config, mode, ownerVars, thread, stopping, at, held, told, localVars>>

\* A client may drop its submitter as soon as it has submitted.
DropSubmitter(c) ==
    /\ c \in held
    /\ client[c] # "submitting"
    /\ held' = held \ {c}
    /\ UNCHANGED <<config, mode, ownerVars, thread, stopping, client, at, told, taskVars, localVars>>

-----------------------------------------------------------------------------
(* Shutting down *)

\* The thread that owns the runtime is not inside one of its own calls.
OwnerFree == \A c \in Owned : client[c] \in {"idle", "done"}

\* stop, shutdown and Drop: the owner's spawners go, then every thread is joined.
Shutdown ==
    /\ owner = "up"
    /\ OwnerFree
    /\ spawners' = {}
    /\ owner' = "joining"
    /\ UNCHANGED <<config, mode, next, thread, placed, joins, stopping, forced, clientVars,
                   taskVars, localVars>>

\* shutdown_timeout and stop_timeout: the owner's spawners go, and the owner looks every
\* millisecond whether the threads have finished.
ShutdownTimeout ==
    /\ owner = "up"
    /\ OwnerFree
    /\ spawners' = {}
    /\ owner' = "waiting"
    /\ UNCHANGED <<config, mode, next, thread, placed, joins, stopping, forced, clientVars,
                   taskVars, localVars>>

Unfinished == {s \in joins : ~Finished(s)}

\* fault: a shard that already drains for lack of spawners is stopped without being listed.
StopUnlisted ==
    /\ owner = "waiting"
    /\ stopping' = stopping \cup Unfinished
    /\ forced' = {s \in Unfinished : ~NoSpawner(s)}
    /\ owner' = "joining"
    /\ UNCHANGED <<config, mode, next, thread, placed, spawners, joins, clientVars, taskVars,
                   localVars>>

\* All have, or the deadline has passed: ExecutorObserver::request_stop to each that has not.
StopUnfinished ==
    /\ owner = "waiting"
    /\ stopping' = stopping \cup Unfinished
    /\ forced' = Unfinished
    /\ owner' = "joining"
    /\ UNCHANGED <<config, mode, next, thread, placed, spawners, joins, clientVars, taskVars,
                   localVars>>

\* join_all
JoinAll ==
    /\ owner = "joining"
    /\ Unfinished = {}
    /\ joins' = {}
    /\ owner' = "stopped"
    /\ UNCHANGED <<config, mode, next, thread, placed, spawners, stopping, forced, clientVars,
                   taskVars, localVars>>

-----------------------------------------------------------------------------
StartStep ==
    \/ Configure
    \/ SpawnThread
    \/ SpawnThreadFails
    \/ KeepShard
    \/ RejectShard
    \/ NoStatus
    \/ RolledBack

OwnerStep ==
    \/ StartStep
    \/ Shutdown
    \/ ShutdownTimeout
    \/ StopUnfinished
    \/ JoinAll

ThreadStep(s) ==
    \/ Report(s)
    \/ DieUnreported(s)
    \/ LeaveRun(s)
    \/ CloseExecutor(s)
    \/ \E c \in Clients : BeginPoll(c, s) \/ EndPoll(c, s)

ClientStep(c) ==
    \/ TakeSubmitter(c)
    \/ UseRuntime(c)
    \/ SpawnOnAll(c)
    \/ SubmitToAll(c)
    \/ SpawnOn(c)
    \/ SubmitTo(c)
    \/ SpawnWithHandleOnAll(c)
    \/ SubmitWithHandleToAll(c)
    \/ MapAll(c)
    \/ SubmitterMapAll(c)
    \/ SpawnWithHandleOn(c)
    \/ SubmitWithHandleTo(c)
    \/ WithAll(c)
    \/ LocalMapAll(c)
    \/ WithOn(c)
    \/ SpawnWorkers(c)
    \/ SpawnStoppableWorkers(c)
    \/ SubmitFails(c)
    \/ StopWorkers(c)
    \/ DropWorkers(c)
    \/ JoinOutput(c)
    \/ JoinError(c)
    \/ JoinTimeout(c)
    \/ DropSubmitter(c)

Next ==
    \/ OwnerStep
    \/ \E s \in Shards : ThreadStep(s)
    \/ \E c \in Clients : ClientStep(c)

Spec == Init /\ [][Next]_vars

\* The operating system runs the owner's thread and the shards' threads, and clients carry on
\* with what they began; nobody has to begin a call or a shutdown.
Fairness ==
    /\ WF_vars(StartStep)
    /\ WF_vars(StopUnfinished \/ JoinAll)
    /\ \A s \in Shards : WF_vars(ThreadStep(s))
    /\ \A c \in Clients : WF_vars(client[c] # "idle" /\ ClientStep(c))

FairSpec == Spec /\ Fairness

-----------------------------------------------------------------------------
(* Properties *)

\* Neither a failed start nor a finished shutdown leaves a shard thread behind, whichever
\* shard failed and however (start_with_config, cleanup_started_shards, shutdown,
\* shutdown_timeout).
NoThreadLeft ==
    owner \in {"failed", "stopped"} =>
      \A s \in Shards : thread[s] = "none" \/ Finished(s)

\* Work is thrown away only where shutdown_timeout says so: a task that was dropped unfinished
\* with its executor was on a shard that is reported as forced.
LossIsReported ==
    \A c \in Clients, s \in Shards : task[c][s] = "lost" => s \in forced

\* Shutdown returns.  Without a deadline because every client and every worker ends and gives
\* up its submitter; with one, whatever futures still wait on.
ShutdownReturns == owner \in {"joining", "waiting"} ~> owner = "stopped"

=============================================================================
