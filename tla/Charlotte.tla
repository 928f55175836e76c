----------------------------- MODULE Charlotte -----------------------------
(***************************************************************************)
(* The CharlotteOS backend (sitas-charlotte/src/lib.rs): shard threads and *)
(* their join handles, and the completion queues that reactors and parkers *)
(* sleep on.  The kernel is external: a wake posted to a queue is kept     *)
(* until one waiter of that queue takes it, and a wait may also end at its *)
(* deadline.                                                               *)
(***************************************************************************)
EXTENDS Naturals, Sequences

CONSTANT MaxShards   \* bound on the shards

VARIABLES
    shard_count,     \* the shards are 0 .. shard_count - 1
    rings,           \* the config page: how many shards have a ring of their own
    posted,          \* per queue: a CQ_WAKE nobody has taken
    ring,            \* per queue: cookies of the completions posted
    entries,         \* SHARD_ENTRIES: <<tid, the shard whose closure it is>>
    thread,          \* per shard thread: where it is
    runs,            \* per shard thread: the shard whose closure it runs
    result,          \* per shard: the result slot is filled
    handle           \* per shard: its CharlotteJoinHandle

layout == <<shard_count, rings>>
queueVars == <<posted, ring>>
threadVars == <<entries, thread, runs, result, handle>>

ShardIds == 0 .. shard_count - 1
Queue == 0 .. shard_count

\* Before the shards are started, or with their threads in their closures
CharlotteInit(running) ==
    /\ posted = [q \in Queue |-> FALSE]
    /\ ring = [q \in Queue |-> <<>>]
    /\ entries = <<>>
    /\ thread = [s \in ShardIds |-> IF running THEN "running" ELSE "none"]
    /\ runs = [s \in ShardIds |-> IF running THEN s ELSE shard_count]
    /\ result = [s \in ShardIds |-> FALSE]
    /\ handle = [s \in ShardIds |-> IF running THEN "observed" ELSE "none"]

\* shard_reactor: the queue of a shard is its own, or the process-wide queue 0 when the loader
\* has mapped no ring for it.
QueueOf(s) == IF s < rings THEN s + 1 ELSE 0

\* CharlotteParker sleeps on queue 0.
ParkQueue == 0

-----------------------------------------------------------------------------
(* Shard threads *)

\* spawn_shard: SPAWN_THREAD; the thread may run at once
SysSpawn(s) ==
    /\ thread[s] = "none"
    /\ thread' = [thread EXCEPT ![s] = "started"]
    /\ UNCHANGED <<layout, queueVars, entries, runs, result, handle>>

\* its closure is staged under its tid
StageEntry(s) ==
    /\ thread[s] # "none"
    /\ handle[s] = "none"
    /\ entries' = Append(entries, <<s, s>>)
    /\ handle' = [handle EXCEPT ![s] = "staged"]
    /\ UNCHANGED <<layout, queueVars, thread, runs, result>>

\* and its exit is observed; for a thread that is gone already there is no capability.
ObserveExit(s) ==
    /\ handle[s] = "staged"
    /\ handle' = [handle EXCEPT ![s] = IF thread[s] = "exited" THEN "invalid" ELSE "observed"]
    /\ UNCHANGED <<layout, queueVars, entries, thread, runs, result>>

\* fault: a thread takes the first closure there is.
OwnEntryFirst(t) == {i \in DOMAIN entries : i = 1 /\ t = t}

\* The entry staged under the thread's own id.
OwnEntry(t) == {i \in DOMAIN entries : entries[i][1] = t}

\* shard_entry_trampoline looks until its closure is there, and runs it.
EnterClosure(t) ==
    /\ thread[t] = "started"
    /\ \E i \in OwnEntry(t) :
         /\ runs' = [runs EXCEPT ![t] = entries[i][2]]
         /\ entries' = SubSeq(entries, 1, i - 1) \o SubSeq(entries, i + 1, Len(entries))
    /\ thread' = [thread EXCEPT ![t] = "running"]
    /\ UNCHANGED <<layout, queueVars, result, handle>>

\* The closure has returned: the result is stored
StoreResult(t) ==
    /\ thread[t] = "running"
    /\ result' = [result EXCEPT ![runs[t]] = TRUE]
    /\ thread' = [thread EXCEPT ![t] = "returned"]
    /\ UNCHANGED <<layout, queueVars, entries, runs, handle>>

\* before THREAD_EXIT.
ThreadExit(t) ==
    /\ thread[t] = "returned"
    /\ thread' = [thread EXCEPT ![t] = "exited"]
    /\ UNCHANGED <<layout, queueVars, entries, runs, result, handle>>

\* join: COMPLETION_WAIT returns when the thread is gone, or at once without a capability; then
\* the slot is read.
Join(s) ==
    /\ handle[s] \in {"observed", "invalid"}
    /\ handle[s] = "observed" => thread[s] = "exited"
    /\ handle' = [handle EXCEPT ![s] = IF result[s] THEN "value" ELSE "error"]
    /\ UNCHANGED <<layout, queueVars, entries, thread, runs, result>>

-----------------------------------------------------------------------------
(* Queues *)

\* CharlWaker::wake, CharlotteParker::unpark
CqWake(q) == posted' = [posted EXCEPT ![q] = TRUE]

\* CQ_WAIT_TIMEOUT returns with the wake, or at its deadline.
CqWakeTaken(q) == posted' = [posted EXCEPT ![q] = FALSE]

\* A join handle gives the value of its own shard's closure, whichever thread is scheduled
\* first, and even if the thread is gone before its exit could be observed.
JoinsOwnShard == \A s \in ShardIds : handle[s] # "error"
=============================================================================
