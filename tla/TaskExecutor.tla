---------------------------- MODULE TaskExecutor ----------------------------
(***************************************************************************)
(* The cooperative executor of one shard: the per-task state machine       *)
(* (executor/task.rs, task_state.rs), the scheduler's task set             *)
(* (executor/task_set.rs, scheduler.rs), the run loop with its blocking    *)
(* reactor wait (executor.rs, driver.rs) and join handles (join.rs).       *)
(*                                                                         *)
(* One thread runs the executor; the threads of Threads hold spawners,     *)
(* wakers and join handles and call into it concurrently.  Every action    *)
(* is one critical section of a task mutex or of the scheduler mutex, or   *)
(* one atomic access, so that whatever can happen between two of them in   *)
(* the code can happen between two steps here.                             *)
(***************************************************************************)
EXTENDS Naturals, Sequences, FiniteSets

CONSTANTS
    Tasks,        \* the tasks that may be spawned
    Joinable,     \* those spawned with a JoinHandle; the others are detached
    Threads,      \* threads other than the one that runs the executor
    NoTask,       \* stands for no task
    Body,         \* what runs on the executor thread inside a poll or a dispatch
    Groups,       \* scheduling groups
    GroupOf,      \* scheduling group of each task
    Budget        \* READY_POLL_BUDGET

ASSUME ConstantsAssumption ==
    /\ IsFiniteSet(Tasks)
    /\ IsFiniteSet(Threads)
    /\ Joinable \subseteq Tasks
    /\ NoTask \notin Tasks
    /\ Body \notin Threads
    /\ GroupOf \in [Tasks -> Groups]
    /\ Budget \in Nat \ {0}

Procs == Threads \cup {Body}

VARIABLES
    \* TaskState, one per task
    future,            \* the future is stored in the task
    queued, polling, cancel_requested, completed,
    \* SchedulerTaskSet and Scheduler
    queue,             \* per group, the ready queue
    listed,            \* `tasks`: every accepted task
    accepting, spawner_count, task_count, stopping,
    \* reactor
    wake_pending,      \* unread bytes in the wake pipe
    \* run loop
    rpc, cur, polled,
    \* the call each process is inside of, and its task
    pc, arg,
    \* capabilities held outside
    holds,             \* threads that hold a Spawner
    handle,            \* "unspawned", "spawning", "open" or "gone"
    waker,             \* a Waker of the task has been handed to its future
    \* JoinState
    join_result, join_waker,
    \* history
    wake_due,          \* woken since the last poll began
    outcome            \* what awaiting the handle returned

taskVars == <<future, queued, polling, cancel_requested, completed>>
schedVars == <<queue, listed, accepting, spawner_count, task_count, stopping>>
loopVars == <<rpc, cur, polled>>
callVars == <<pc, arg>>
joinVars == <<join_result, join_waker, outcome>>
vars == <<taskVars, schedVars, wake_pending, loopVars, callVars, holds, handle,
          waker, joinVars, wake_due>>

Init ==
    /\ future = [t \in Tasks |-> FALSE]
    /\ queued = [t \in Tasks |-> FALSE]
    /\ polling = [t \in Tasks |-> FALSE]
    /\ cancel_requested = [t \in Tasks |-> FALSE]
    /\ completed = [t \in Tasks |-> FALSE]
    /\ queue = [g \in Groups |-> <<>>]
    /\ listed = {}
    /\ accepting = TRUE
    /\ spawner_count = 1
    /\ task_count = 0
    /\ stopping = FALSE
    /\ wake_pending = FALSE
    /\ rpc = "next"
    /\ cur = NoTask
    /\ polled = 0
    /\ pc = [p \in Procs |-> "idle"]
    /\ arg = [p \in Procs |-> NoTask]
    /\ \E p \in Threads : holds = {p}
    /\ handle = [t \in Tasks |-> "unspawned"]
    /\ waker = [t \in Tasks |-> FALSE]
    /\ join_result = [t \in Tasks |-> "none"]
    /\ join_waker = [t \in Tasks |-> FALSE]
    /\ wake_due = [t \in Tasks |-> FALSE]
    /\ outcome = [t \in Tasks |-> "none"]

-----------------------------------------------------------------------------
(* SchedulerTaskSet.  A definition marked "fault" is the one that follows it with a     *)
(* mistake in it; Next uses none of them.                                              *)

has_ready_tasks == \E g \in Groups : queue[g] # <<>>

\* is_drained, of a ready-queue state, a spawner count and a task count
Drained(ready, spawners, tasks) == ~ready /\ spawners = 0 /\ tasks = 0

is_drained == Drained(has_ready_tasks, spawner_count, task_count)

saturating_dec(n) == IF n = 0 THEN 0 ELSE n - 1

push_back(t) == queue' = [queue EXCEPT ![GroupOf[t]] = Append(@, t)]

\* fault: the awaiter's waker is not taken
complete_join_unwoken(t, result) ==
    /\ UNCHANGED join_waker
    /\ IF t \in Joinable /\ join_result[t] = "none"
         THEN join_result' = [join_result EXCEPT ![t] = result]
         ELSE UNCHANGED join_result

\* JoinState: complete_join keeps the first result and wakes the awaiter
complete_join(t, result) ==
    IF t \in Joinable /\ join_result[t] = "none"
      THEN /\ join_result' = [join_result EXCEPT ![t] = result]
           /\ join_waker' = [join_waker EXCEPT ![t] = FALSE]
      ELSE UNCHANGED <<join_result, join_waker>>

-----------------------------------------------------------------------------
(* Calls made by other threads, or by the code a poll runs *)

\* a thread may start a call at any time, Body only inside a poll
MayCall(p) == pc[p] = "idle" /\ (p = Body => rpc = "poll")

\* expired timers and ready descriptors wake tasks from the run loop as well
MayWake(p) == pc[p] = "idle" /\ (p = Body => rpc \in {"poll", "timers", "events"})

Goto(p, label) == pc' = [pc EXCEPT ![p] = label]

Call(p, label, t) ==
    /\ Goto(p, label)
    /\ arg' = [arg EXCEPT ![p] = t]

Return(p) == Call(p, "idle", NoTask)

\* Spawner::spawn*: build the task and mark_queued it (Scheduler::schedule)
Spawn(p, t) ==
    /\ p \in holds
    /\ MayCall(p)
    /\ handle[t] = "unspawned"
    /\ handle' = [handle EXCEPT ![t] = "spawning"]
    /\ future' = [future EXCEPT ![t] = TRUE]
    /\ queued' = [queued EXCEPT ![t] = TRUE]
    /\ Call(p, "schedule_new", t)
    /\ UNCHANGED <<polling, cancel_requested, completed, schedVars, wake_pending,
                   loopVars, holds, waker, joinVars, wake_due>>

\* SchedulerTaskSet::schedule_new; a refused task is dropped by its spawner
ScheduleNew(p) ==
    LET t == arg[p] IN
    /\ pc[p] = "schedule_new"
    /\ \/ /\ accepting
          /\ task_count' = task_count + 1
          /\ listed' = listed \cup {t}
          /\ push_back(t)
          /\ Goto(p, "wake_spawned")
          /\ UNCHANGED <<arg, future, queued, handle>>
       \/ /\ ~accepting
          /\ queued' = [queued EXCEPT ![t] = FALSE]
          /\ future' = [future EXCEPT ![t] = FALSE]
          /\ handle' = [handle EXCEPT ![t] = "gone"]
          /\ Return(p)
          /\ UNCHANGED <<task_count, listed, queue>>
    /\ UNCHANGED <<polling, cancel_requested, completed, accepting, spawner_count,
                   stopping, wake_pending, loopVars, holds, waker, joinVars,
                   wake_due>>

\* wake_reactor at the end of Scheduler::schedule; the caller gets its handle
WakeSpawned(p) ==
    /\ pc[p] = "wake_spawned"
    /\ wake_pending' = TRUE
    /\ handle' = [handle EXCEPT ![arg[p]] = IF arg[p] \in Joinable THEN "open" ELSE "gone"]
    /\ Return(p)
    /\ UNCHANGED <<taskVars, schedVars, loopVars, holds, waker, joinVars, wake_due>>

\* fault: mark_queued takes a task that is being polled for a finished one
mark_queued_stored(t) == ~queued[t] /\ future[t]

\* TaskState::mark_queued: whether a wake is to queue the task
mark_queued(t) == ~queued[t] /\ (future[t] \/ polling[t])

\* Wake for Task: mark_queued under the task mutex
Wake(p, t) ==
    /\ MayWake(p)
    /\ waker[t]
    /\ wake_due' = [wake_due EXCEPT ![t] = TRUE]
    /\ IF mark_queued(t)
         THEN /\ queued' = [queued EXCEPT ![t] = TRUE]
              /\ Call(p, "schedule_existing", t)
         ELSE UNCHANGED <<queued, callVars>>
    /\ UNCHANGED <<future, polling, cancel_requested, completed, schedVars,
                   wake_pending, loopVars, holds, handle, waker, joinVars>>

\* SchedulerTaskSet::schedule_existing
ScheduleExisting(p) ==
    LET t == arg[p] IN
    /\ pc[p] = "schedule_existing"
    /\ \/ /\ accepting
          /\ push_back(t)
          /\ Goto(p, "wake_reactor")
          /\ UNCHANGED <<arg, queued>>
       \/ /\ ~accepting
          /\ queued' = [queued EXCEPT ![t] = FALSE]
          /\ Return(p)
          /\ UNCHANGED queue
    /\ UNCHANGED <<future, polling, cancel_requested, completed, listed, accepting,
                   spawner_count, task_count, stopping, wake_pending, loopVars,
                   holds, handle, waker, joinVars, wake_due>>

\* Scheduler::wake_reactor as the last step of a call
WakeReactor(p) ==
    /\ pc[p] = "wake_reactor"
    /\ wake_pending' = TRUE
    /\ Return(p)
    /\ UNCHANGED <<taskVars, schedVars, loopVars, holds, handle, waker, joinVars,
                   wake_due>>

\* Spawner::clone handed to another thread
CloneSpawner(p, q) ==
    /\ p \in holds
    /\ q \notin holds
    /\ MayCall(p)
    /\ holds' = holds \cup {q}
    /\ spawner_count' = spawner_count + 1
    /\ UNCHANGED <<taskVars, queue, listed, accepting, task_count, stopping, wake_pending,
                   loopVars, callVars, handle, waker, joinVars, wake_due>>

\* fault: the last spawner goes without a wake
DropSpawnerUnwoken(p) ==
    /\ p \in holds
    /\ MayCall(p)
    /\ holds' = holds \ {p}
    /\ spawner_count' = saturating_dec(spawner_count)
    /\ UNCHANGED <<taskVars, queue, listed, accepting, task_count, stopping, wake_pending,
                   loopVars, callVars, handle, waker, joinVars, wake_due>>

\* Drop for Spawner: remove_spawner, and wake_reactor when it was the last
DropSpawner(p) ==
    /\ p \in holds
    /\ MayCall(p)
    /\ holds' = holds \ {p}
    /\ spawner_count' = saturating_dec(spawner_count)
    /\ IF spawner_count' = 0 THEN Goto(p, "wake_reactor") ELSE UNCHANGED pc
    /\ UNCHANGED <<taskVars, queue, listed, accepting, task_count, stopping, wake_pending,
                   loopVars, arg, handle, waker, joinVars, wake_due>>

\* fault: request_stop does not wake the reactor
RequestStopUnwoken(p) ==
    /\ p \in Threads
    /\ MayCall(p)
    /\ stopping' = TRUE
    /\ UNCHANGED <<taskVars, queue, listed, accepting, spawner_count, task_count,
                   wake_pending, loopVars, callVars, holds, handle, waker, joinVars,
                   wake_due>>

\* Scheduler::request_stop: the store, then wake_reactor
RequestStop(p) ==
    /\ p \in Threads
    /\ MayCall(p)
    /\ stopping' = TRUE
    /\ Goto(p, "wake_reactor")
    /\ UNCHANGED <<taskVars, queue, listed, accepting, spawner_count, task_count,
                   wake_pending, loopVars, arg, holds, handle, waker, joinVars, wake_due>>

-----------------------------------------------------------------------------
(* Join handles *)

\* JoinHandle::abort, and Drop for JoinHandle, which aborts: TaskState::cancel
\* under the task mutex; `h` is what becomes of the handle
Cancel(p, t, h) ==
    /\ MayCall(p)
    /\ handle[t] = "open"
    /\ handle' = [handle EXCEPT ![t] = h]
    /\ \/ /\ ~future[t] /\ ~polling[t]
          /\ UNCHANGED <<taskVars, callVars>>
       \/ /\ polling[t]
          /\ cancel_requested' = [cancel_requested EXCEPT ![t] = TRUE]
          /\ Call(p, "abort_wake", t)
          /\ UNCHANGED <<future, queued, polling, completed>>
       \/ /\ future[t] /\ ~polling[t]
          /\ cancel_requested' = [cancel_requested EXCEPT ![t] = TRUE]
          /\ future' = [future EXCEPT ![t] = FALSE]
          /\ queued' = [queued EXCEPT ![t] = FALSE]
          /\ completed' = [completed EXCEPT ![t] = TRUE]
          /\ Call(p, "finish_task", t)
          /\ UNCHANGED polling
    /\ UNCHANGED <<schedVars, wake_pending, loopVars, holds, waker, joinVars, wake_due>>

\* a handle is owned: nobody else uses it while a call on it is under way
HandleFree(t) ==
    \A p \in Procs : pc[p] \in {"finish_task", "abort_wake", "abort_join"} => arg[p] # t

Abort(p, t) == HandleFree(t) /\ Cancel(p, t, "open")

DropHandle(p, t) == HandleFree(t) /\ Cancel(p, t, "gone")

\* Scheduler::finish_task after a cancel that dropped the future
FinishTask(p) ==
    /\ pc[p] = "finish_task"
    /\ task_count' = saturating_dec(task_count)
    /\ wake_pending' = (wake_pending \/ Drained(has_ready_tasks, spawner_count, task_count'))
    /\ Goto(p, "abort_wake")
    /\ UNCHANGED <<taskVars, queue, listed, accepting, spawner_count, stopping, loopVars,
                   arg, holds, handle, waker, joinVars, wake_due>>

\* the unconditional wake_reactor of Task::cancel
AbortWake(p) ==
    /\ pc[p] = "abort_wake"
    /\ wake_pending' = TRUE
    /\ Goto(p, "abort_join")
    /\ UNCHANGED <<taskVars, schedVars, loopVars, arg, holds, handle, waker, joinVars,
                   wake_due>>

\* complete_join(Canceled); abort returns true
AbortJoin(p) ==
    /\ pc[p] = "abort_join"
    /\ complete_join(arg[p], "canceled")
    /\ Return(p)
    /\ UNCHANGED <<taskVars, schedVars, wake_pending, loopVars, holds, handle, waker,
                   outcome, wake_due>>

\* Future for JoinHandle: take the result, or leave a waker
Await(t) ==
    /\ handle[t] = "open"
    /\ HandleFree(t)
    /\ outcome[t] = "none"
    /\ IF join_result[t] # "none"
         THEN /\ outcome' = [outcome EXCEPT ![t] = join_result[t]]
              /\ join_result' = [join_result EXCEPT ![t] = "none"]
              /\ UNCHANGED join_waker
         ELSE /\ join_waker' = [join_waker EXCEPT ![t] = TRUE]
              /\ UNCHANGED <<outcome, join_result>>
    /\ UNCHANGED <<taskVars, schedVars, wake_pending, loopVars, callVars, holds, handle,
                   waker, wake_due>>

-----------------------------------------------------------------------------
(* The run loop *)

\* poll_ready_tasks: next_task pops the front of some group's queue; which
\* group is the business of the virtual runtimes (module GroupScheduling)
NextTask ==
    /\ rpc = "next"
    /\ polled < Budget
    /\ \E g \in Groups :
          /\ queue[g] # <<>>
          /\ cur' = Head(queue[g])
          /\ queue' = [queue EXCEPT ![g] = Tail(@)]
    /\ polled' = polled + 1
    /\ rpc' = "take"
    /\ UNCHANGED <<taskVars, listed, accepting, spawner_count, task_count, stopping,
                   wake_pending, callVars, holds, handle, waker, joinVars, wake_due>>

\* the budget is spent or nothing is ready: on to wake_expired_timers
BatchDone ==
    /\ rpc = "next"
    /\ polled = Budget \/ ~has_ready_tasks
    /\ polled' = 0
    /\ rpc' = "timers"
    /\ UNCHANGED <<taskVars, schedVars, wake_pending, cur, callVars, holds, handle, waker,
                   joinVars, wake_due>>

\* Task::poll: take_future_for_poll under the task mutex
TakeFuture ==
    /\ rpc = "take"
    /\ queued' = [queued EXCEPT ![cur] = FALSE]
    /\ IF future[cur]
         THEN /\ future' = [future EXCEPT ![cur] = FALSE]
              /\ polling' = [polling EXCEPT ![cur] = TRUE]
              /\ waker' = [waker EXCEPT ![cur] = TRUE]
              /\ wake_due' = [wake_due EXCEPT ![cur] = FALSE]
              /\ rpc' = "poll"
              /\ UNCHANGED cur
         ELSE /\ rpc' = "next"
              /\ cur' = NoTask
              /\ UNCHANGED <<future, polling, waker, wake_due>>
    /\ UNCHANGED <<cancel_requested, completed, schedVars, wake_pending, polled,
                   callVars, holds, handle, joinVars>>

\* the future returns Ready; a joinable one stores its result on the way out
PollReady ==
    /\ rpc = "poll"
    /\ pc[Body] = "idle"
    /\ complete_join(cur, "ok")
    /\ rpc' = "finish_ready"
    /\ UNCHANGED <<taskVars, schedVars, wake_pending, cur, polled, callVars, holds, handle,
                   waker, outcome, wake_due>>

\* finish_ready under the task mutex
FinishReady ==
    /\ rpc = "finish_ready"
    /\ polling' = [polling EXCEPT ![cur] = FALSE]
    /\ completed' = [completed EXCEPT ![cur] = TRUE]
    /\ rpc' = "finish_task"
    /\ UNCHANGED <<future, queued, cancel_requested, schedVars, wake_pending, cur, polled,
                   callVars, holds, handle, waker, joinVars, wake_due>>

\* the future returns Pending: finish_pending puts it back, or drops it when
\* the task was cancelled meanwhile
PollPending ==
    /\ rpc = "poll"
    /\ pc[Body] = "idle"
    /\ polling' = [polling EXCEPT ![cur] = FALSE]
    /\ IF cancel_requested[cur]
         THEN /\ completed' = [completed EXCEPT ![cur] = TRUE]
              /\ rpc' = "finish_cancelled"
              /\ UNCHANGED <<cur, future>>
         ELSE /\ future' = [future EXCEPT ![cur] = TRUE]
              /\ rpc' = "next"
              /\ cur' = NoTask
              /\ UNCHANGED completed
    /\ UNCHANGED <<queued, cancel_requested, schedVars, wake_pending, polled, callVars,
                   holds, handle, waker, joinVars, wake_due>>

\* the future panics: finish_panicked under the task mutex
PollPanic ==
    /\ rpc = "poll"
    /\ pc[Body] = "idle"
    /\ polling' = [polling EXCEPT ![cur] = FALSE]
    /\ completed' = [completed EXCEPT ![cur] = TRUE]
    /\ rpc' = "panic_handler"
    /\ UNCHANGED <<future, queued, cancel_requested, schedVars, wake_pending, cur, polled,
                   callVars, holds, handle, waker, joinVars, wake_due>>

\* the panic handler of spawn_with_handle
PanicHandler ==
    /\ rpc = "panic_handler"
    /\ complete_join(cur, "panic")
    /\ rpc' = "finish_task"
    /\ UNCHANGED <<taskVars, schedVars, wake_pending, cur, polled, callVars, holds, handle,
                   waker, outcome, wake_due>>

\* fault: a task cancelled during its poll is not counted as finished
FinishPolledUncounted ==
    /\ rpc \in {"finish_task", "finish_cancelled"}
    /\ task_count' = IF rpc = "finish_task" THEN saturating_dec(task_count) ELSE task_count
    /\ wake_pending' = TRUE
    /\ rpc' = "next"
    /\ cur' = NoTask
    /\ UNCHANGED <<taskVars, queue, listed, accepting, spawner_count, stopping, polled,
                   callVars, holds, handle, waker, joinVars, wake_due>>

\* Scheduler::finish_task at the end of Task::poll; a cancelled task also
\* wakes the reactor unconditionally
FinishPolled ==
    /\ rpc \in {"finish_task", "finish_cancelled"}
    /\ task_count' = saturating_dec(task_count)
    /\ wake_pending' = \/ wake_pending
                       \/ rpc = "finish_cancelled"
                       \/ Drained(has_ready_tasks, spawner_count, task_count')
    /\ rpc' = "next"
    /\ cur' = NoTask
    /\ UNCHANGED <<taskVars, queue, listed, accepting, spawner_count, stopping, polled,
                   callVars, holds, handle, waker, joinVars, wake_due>>

\* wake_expired_timers and dispatch_available are done (Body woke what they wake)
TimersDone ==
    /\ rpc = "timers"
    /\ pc[Body] = "idle"
    /\ rpc' = "check"
    /\ UNCHANGED <<taskVars, schedVars, wake_pending, cur, polled, callVars, holds, handle,
                   waker, joinVars, wake_due>>

\* Executor::run: leave the loop when drained or stopping (stopping is never reset, so
\* reading it after is_drained or with it makes no difference)
CheckExit ==
    /\ rpc = "check"
    /\ rpc' = IF is_drained \/ stopping THEN "exit" ELSE "ready"
    /\ UNCHANGED <<taskVars, schedVars, wake_pending, cur, polled, callVars, holds, handle,
                   waker, joinVars, wake_due>>

\* ... go round again while tasks are ready, else block in the reactor
CheckReady ==
    /\ rpc = "ready"
    /\ rpc' = IF has_ready_tasks THEN "next" ELSE "wait"
    /\ UNCHANGED <<taskVars, schedVars, wake_pending, cur, polled, callVars, holds, handle,
                   waker, joinVars, wake_due>>

\* the reactor wait returns because the wake pipe has bytes, and drains them
WaitWoken ==
    /\ rpc = "wait"
    /\ wake_pending
    /\ wake_pending' = FALSE
    /\ rpc' = "events"
    /\ UNCHANGED <<taskVars, schedVars, cur, polled, callVars, holds, handle, waker,
                   joinVars, wake_due>>

\* the reactor wait returns for a descriptor or a timer deadline
WaitEvent ==
    /\ rpc = "wait"
    /\ ~wake_pending
    /\ rpc' = "events"
    /\ UNCHANGED <<taskVars, schedVars, wake_pending, cur, polled, callVars, holds, handle,
                   waker, joinVars, wake_due>>

\* apply_event and wake_expired_timers are done
EventsDone ==
    /\ rpc = "events"
    /\ pc[Body] = "idle"
    /\ rpc' = "next"
    /\ UNCHANGED <<taskVars, schedVars, wake_pending, cur, polled, callVars, holds, handle,
                   waker, joinVars, wake_due>>

-----------------------------------------------------------------------------
(* Drop for Executor *)

\* Scheduler::close, the part under the scheduler mutex; `listed` keeps the
\* tasks whose futures are still to be dropped
Close ==
    /\ rpc = "exit"
    /\ accepting' = FALSE
    /\ task_count' = 0
    /\ queue' = [g \in Groups |-> <<>>]
    /\ rpc' = "closing"
    /\ UNCHANGED <<taskVars, listed, spawner_count, stopping, wake_pending, cur, polled,
                   callVars, holds, handle, waker, joinVars, wake_due>>

\* Task::drop_future of one task; nothing is being polled any more
DropFuture(t) ==
    /\ rpc = "closing"
    /\ t \in listed
    /\ listed' = listed \ {t}
    /\ cancel_requested' = [cancel_requested EXCEPT ![t] = TRUE]
    /\ future' = [future EXCEPT ![t] = FALSE]
    /\ queued' = [queued EXCEPT ![t] = FALSE]
    /\ completed' = [completed EXCEPT ![t] = TRUE]
    /\ UNCHANGED <<polling, queue, accepting, spawner_count, task_count, stopping,
                   wake_pending, loopVars, callVars, holds, handle, waker, joinVars,
                   wake_due>>

\* the wake_reactor that ends Scheduler::close
Closed ==
    /\ rpc = "closing"
    /\ listed = {}
    /\ wake_pending' = TRUE
    /\ rpc' = "closed"
    /\ UNCHANGED <<taskVars, schedVars, cur, polled, callVars, holds, handle, waker,
                   joinVars, wake_due>>

-----------------------------------------------------------------------------
\* the steps that finish a call already begun
CallStep(p) ==
    \/ ScheduleNew(p)
    \/ WakeSpawned(p)
    \/ ScheduleExisting(p)
    \/ WakeReactor(p)
    \/ FinishTask(p)
    \/ AbortWake(p)
    \/ AbortJoin(p)

\* the steps the executor thread takes by itself
RunStep ==
    \/ NextTask
    \/ BatchDone
    \/ TakeFuture
    \/ FinishReady
    \/ PanicHandler
    \/ FinishPolled
    \/ TimersDone
    \/ CheckExit
    \/ CheckReady
    \/ WaitWoken
    \/ EventsDone
    \/ Close
    \/ \E t \in Tasks : DropFuture(t)
    \/ Closed

\* a poll returns
PollReturn == PollReady \/ PollPending \/ PollPanic

Next ==
    \/ \E p \in Threads, t \in Tasks : Spawn(p, t)
    \/ \E p \in Procs, t \in Tasks : Wake(p, t)
    \/ \E p \in Threads, q \in Threads : CloneSpawner(p, q)
    \/ \E p \in Threads : DropSpawner(p)
    \/ \E p \in Threads : RequestStop(p)
    \/ \E p \in Procs, t \in Tasks : Abort(p, t)
    \/ \E p \in Procs, t \in Tasks : DropHandle(p, t)
    \/ \E t \in Tasks : Await(t)
    \/ \E p \in Procs : CallStep(p)
    \/ RunStep
    \/ PollReturn
    \/ WaitEvent

Spec == Init /\ [][Next]_vars

-----------------------------------------------------------------------------
(* Properties *)

RunLabels == {"next", "take", "poll", "finish_ready", "panic_handler", "finish_task",
              "finish_cancelled", "timers", "check", "ready", "wait", "events", "exit",
              "closing", "closed"}

CallLabels == {"idle", "schedule_new", "wake_spawned", "schedule_existing",
               "wake_reactor", "finish_task", "abort_wake", "abort_join"}

Results == {"none", "ok", "canceled", "panic"}

\* Every variable keeps the shape of the field it stands for.
TypeOK ==
    /\ future \in [Tasks -> BOOLEAN]
    /\ queued \in [Tasks -> BOOLEAN]
    /\ polling \in [Tasks -> BOOLEAN]
    /\ cancel_requested \in [Tasks -> BOOLEAN]
    /\ completed \in [Tasks -> BOOLEAN]
    /\ queue \in [Groups -> Seq(Tasks)]
    /\ listed \in SUBSET Tasks
    /\ accepting \in BOOLEAN
    /\ spawner_count \in Nat
    /\ task_count \in Nat
    /\ stopping \in BOOLEAN
    /\ wake_pending \in BOOLEAN
    /\ rpc \in RunLabels
    /\ cur \in Tasks \cup {NoTask}
    /\ polled \in 0 .. Budget
    /\ pc \in [Procs -> CallLabels]
    /\ arg \in [Procs -> Tasks \cup {NoTask}]
    /\ holds \in SUBSET Threads
    /\ handle \in [Tasks -> {"unspawned", "spawning", "open", "gone"}]
    /\ waker \in [Tasks -> BOOLEAN]
    /\ join_result \in [Tasks -> Results]
    /\ join_waker \in [Tasks -> BOOLEAN]
    /\ wake_due \in [Tasks -> BOOLEAN]
    /\ outcome \in [Tasks -> Results]

InQueue(t) == \E i \in 1 .. Len(queue[GroupOf[t]]) : queue[GroupOf[t]][i] = t

\* p has marked t queued and is about to push it
Pushing(p, t) == pc[p] \in {"schedule_new", "schedule_existing"} /\ arg[p] = t

\* t has been popped and not yet taken for its poll
Popped(t) == rpc = "take" /\ cur = t

\* t is at no two positions of its group's queue
OnePosition(t) ==
    \A i, j \in 1 .. Len(queue[GroupOf[t]]) :
      queue[GroupOf[t]][i] = t /\ queue[GroupOf[t]][j] = t => i = j

\* Repeated wakeups coalesce: a task never has two ready-queue entries, counting
\* those still being pushed and the one just popped (mark_queued and take_future_for_poll
\* hold the task mutex, the pushes and pops the scheduler mutex).
UniqueEntry ==
    \A t \in Tasks :
      /\ OnePosition(t)
      /\ \A p, q \in Procs : Pushing(p, t) /\ Pushing(q, t) => p = q
      /\ InQueue(t) => ~Popped(t) /\ \A p \in Procs : ~Pushing(p, t)
      /\ Popped(t) => \A p \in Procs : ~Pushing(p, t)

\* t has a ready entry, or is getting one, or is about to be polled for one
Entry(t) == InQueue(t) \/ Popped(t) \/ \E p \in Procs : Pushing(p, t)

\* No wakeup is lost: a pending task that was woken since its last poll began,
\* even while that poll was running, has a ready entry or is getting one.
WakeNotLost ==
    \A t \in Tasks :
      wake_due[t] /\ future[t] /\ accepting => Entry(t)

\* some process is about to write the wake pipe
Waking == \E p \in Procs : pc[p] \in {"wake_reactor", "wake_spawned", "abort_wake"}

\* The run loop never sleeps through its work: when it blocks in the reactor while
\* tasks are ready, while everything has drained or after a stop request, a wake is in
\* the pipe or some thread is about to write one (schedule, remove_spawner, finish_task,
\* cancel, request_stop).
NoSleepThroughWork ==
    rpc = "wait" /\ (has_ready_tasks \/ is_drained \/ stopping) =>
      wake_pending \/ Waking

\* t was accepted and its finish_task has not been called
Unfinished(t) ==
    /\ t \in listed
    /\ \/ future[t]
       \/ polling[t]
       \/ \E p \in Procs : pc[p] = "finish_task" /\ arg[p] = t
       \/ rpc \in {"panic_handler", "finish_task", "finish_cancelled"} /\ cur = t

\* task_count counts the accepted tasks that have not finished: finish_task is called
\* exactly once per task on the ready, cancelled, panicked and aborted paths, whatever
\* the races between them, so the saturating subtraction never saturates.
TaskCountExact == accepting => task_count = Cardinality({t \in Tasks : Unfinished(t)})

\* t is done and the call that stores its join result is still under way
Completing(t) ==
    \/ \E p \in Procs : pc[p] \in {"finish_task", "abort_wake", "abort_join"} /\ arg[p] = t
    \/ rpc = "panic_handler" /\ cur = t

\* No awaiter is stranded while the executor lives: an awaiter is registered only while
\* no result is stored, and a finished task has no awaiter registered once the call that
\* finished it is over.
JoinNotLost ==
    \A t \in Tasks :
      join_waker[t] /\ accepting =>
        /\ join_result[t] = "none"
        /\ completed[t] => Completing(t)

\* The thread that runs the executor keeps running, a call that was begun is carried
\* through, and a poll (tasks are cooperative) or a dispatch makes finitely many calls
\* and returns.
Fairness ==
    /\ WF_vars(RunStep)
    /\ SF_vars(PollReturn)
    /\ SF_vars(TimersDone)
    /\ SF_vars(EventsDone)
    /\ \A p \in Procs : WF_vars(CallStep(p))

\* A wakeup of a pending task leads to its next poll, or to its end.
WokenIsPolled == \A t \in Tasks : wake_due[t] /\ future[t] ~> ~future[t]

\* With the last spawner dropped and the last task finished the run loop ends.
DrainEnds == (spawner_count = 0 /\ task_count = 0) ~> rpc = "closed"

\* join.rs, JoinError: "Error returned by a [`JoinHandle`] when a spawned task did not
\* produce a value."  After the executor was dropped no task will produce one, so no
\* awaiter may still be waiting for it.
ClosedAnswersJoins == rpc = "closed" => \A t \in Tasks : ~join_waker[t]

=============================================================================
