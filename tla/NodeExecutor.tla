---------------------------- MODULE NodeExecutor ----------------------------
(***************************************************************************)
(* The no_std shard executor (shard_executor.rs) on a Charlotte reactor:   *)
(* ready tasks polled within a budget, one blocking wait when there are    *)
(* none, and tasks woken by wakers from any thread or by drained           *)
(* completions.                                                            *)
(***************************************************************************)
EXTENDS Charlotte

CONSTANTS
    Tasks,           \* the tasks of a shard
    PollBudget       \* poll_budget

VARIABLES
    ready,           \* per shard: ReadyQueue::queue
    queued,          \* per shard: ReadyQueue::queued
    live,            \* per shard: live
    at,              \* per shard: where its run loop is
    task,            \* per shard: the task being polled
    polled,
    readable,        \* per shard: handles of the event at hand
    interests        \* per shard: IoInterests, a set of <<handle, task>>

loopVars == <<at, task, polled, readable>>
executorVars == <<ready, queued, live, loopVars, interests>>

\* ShardExecutor::new and spawn, for each task of the closure
ExecutorInit(tasks) ==
    /\ ready = [s \in ShardIds |-> tasks]
    /\ queued = [s \in ShardIds |-> [t \in Tasks |-> \E i \in DOMAIN tasks : tasks[i] = t]]
    /\ live = [s \in ShardIds |-> Len(tasks)]
    /\ at = [s \in ShardIds |-> "run"]
    /\ task = [s \in ShardIds |-> CHOOSE t \in Tasks : TRUE]
    /\ polled = [s \in ShardIds |-> 0]
    /\ readable = [s \in ShardIds |-> <<>>]
    /\ interests = [s \in ShardIds |-> {}]

Running(s) == s \in ShardIds /\ \E t \in ShardIds : thread[t] = "running" /\ runs[t] = s

\* ExecutorShared::mark_ready, under its lock: a task is queued once.
Enqueue(s, t) ==
    /\ ready' = IF queued[s][t] THEN ready ELSE [ready EXCEPT ![s] = Append(@, t)]
    /\ queued' = [queued EXCEPT ![s][t] = TRUE]

\* take_ready
TakeReady(s) ==
    /\ Running(s)
    /\ at[s] = "run"
    /\ polled[s] < PollBudget
    /\ ready[s] # <<>>
    /\ task' = [task EXCEPT ![s] = Head(ready[s])]
    /\ ready' = [ready EXCEPT ![s] = Tail(@)]
    /\ queued' = [queued EXCEPT ![s][Head(ready[s])] = FALSE]
    /\ at' = [at EXCEPT ![s] = "poll"]
    /\ UNCHANGED <<layout, queueVars, threadVars, live, polled, readable, interests>>

\* poll_task returns: Ready or Pending
EndPoll(s, done) ==
    /\ at' = [at EXCEPT ![s] = "run"]
    /\ polled' = [polled EXCEPT ![s] = @ + 1]
    /\ live' = [live EXCEPT ![s] = @ - (IF done THEN 1 ELSE 0)]
    /\ UNCHANGED <<task, readable>>

\* The budget is used or the queue empty: run ends without tasks, goes round with ready ones,
\* and otherwise waits.
StopPolling(s) ==
    /\ Running(s)
    /\ at[s] = "run"
    /\ polled[s] = PollBudget \/ ready[s] = <<>>
    /\ at' = [at EXCEPT ![s] = IF live[s] = 0 THEN "done"
                               ELSE IF ready[s] # <<>> THEN "run" ELSE "wait"]
    /\ polled' = [polled EXCEPT ![s] = 0]
    /\ UNCHANGED <<layout, queueVars, threadVars, ready, queued, live, task, readable, interests>>

\* CharlotteReactor::wait drains its ring
DrainRing(s) ==
    /\ s \in ShardIds
    /\ at[s] \in {"wait", "woken"}
    /\ ring[QueueOf(s)] # <<>>
    /\ readable' = [readable EXCEPT ![s] = ring[QueueOf(s)]]
    /\ ring' = [ring EXCEPT ![QueueOf(s)] = <<>>]
    /\ at' = [at EXCEPT ![s] = "deliver"]
    /\ UNCHANGED <<layout, posted, threadVars, ready, queued, live, task, polled, interests>>

\* or, the ring empty, blocks
Block(s) ==
    /\ s \in ShardIds
    /\ at[s] = "wait"
    /\ ring[QueueOf(s)] = <<>>
    /\ at' = [at EXCEPT ![s] = "blocked"]
    /\ UNCHANGED <<layout, queueVars, threadVars, ready, queued, live, task, polled, readable, interests>>

\* until a completion or a wake comes
Unblock(s) ==
    /\ s \in ShardIds
    /\ at[s] = "blocked"
    /\ posted[QueueOf(s)] \/ ring[QueueOf(s)] # <<>>
    /\ CqWakeTaken(QueueOf(s))
    /\ at' = [at EXCEPT ![s] = "woken"]
    /\ UNCHANGED <<layout, ring, threadVars, ready, queued, live, task, polled, readable, interests>>

\* or idle_wait has elapsed
IdleWaitElapses(s) ==
    /\ s \in ShardIds
    /\ at[s] = "blocked"
    /\ at' = [at EXCEPT ![s] = "woken"]
    /\ UNCHANGED <<layout, queueVars, threadVars, ready, queued, live, task, polled, readable, interests>>

\* and nothing is to be drained.
WaitReturns(s) ==
    /\ s \in ShardIds
    /\ at[s] = "woken"
    /\ ring[QueueOf(s)] = <<>>
    /\ at' = [at EXCEPT ![s] = "run"]
    /\ UNCHANGED <<layout, queueVars, threadVars, ready, queued, live, task, polled, readable, interests>>

\* wake_readable, for each handle of the event: the interest goes, its task is woken.
DeliverReadable(s) ==
    /\ s \in ShardIds
    /\ at[s] = "deliver"
    /\ readable[s] # <<>>
    /\ LET found == {i \in interests[s] : i[1] = Head(readable[s])} IN
       /\ interests' = [interests EXCEPT ![s] = @ \ found]
       /\ IF found = {}
            THEN UNCHANGED <<ready, queued, posted>>
            ELSE \E i \in found : Enqueue(s, i[2]) /\ CqWake(QueueOf(s))
    /\ readable' = [readable EXCEPT ![s] = Tail(@)]
    /\ at' = [at EXCEPT ![s] = IF Len(readable[s]) = 1 THEN "run" ELSE "deliver"]
    /\ UNCHANGED <<layout, ring, threadVars, live, task, polled>>

LoopStep(s) ==
    \/ TakeReady(s)
    \/ StopPolling(s)
    \/ DrainRing(s)
    \/ Block(s)
    \/ Unblock(s)
    \/ WaitReturns(s)
    \/ DeliverReadable(s)
=============================================================================
