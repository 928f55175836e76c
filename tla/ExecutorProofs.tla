--------------------------- MODULE ExecutorProofs --------------------------
(***************************************************************************)
(* The executor of a shard, for any tasks, threads, groups and budget: no  *)
(* wakeup is lost, whoever awaits a task gets its result, and the tasks    *)
(* are counted exactly.                                                    *)
(***************************************************************************)
EXTENDS TaskExecutor, TLAPS

\* A leaf is first-order reasoning, Zenon's, unless it cites another prover.
USE Zenon

-----------------------------------------------------------------------------
(* The invariants, in parts *)

\* Every ready-queue entry is in the queue of its task's group.
QueueGroups ==
    \A g \in Groups : \A i \in 1 .. Len(queue[g]) : GroupOf[queue[g][i]] = g

\* A call that is about a task has one.
CallTask ==
    \A p \in Procs : pc[p] \notin {"idle", "wake_reactor"} => arg[p] \in Tasks

\* From the pop to the end of finish_task the run loop has a current task.
CurrentTask ==
    rpc \in {"take", "poll", "finish_ready", "panic_handler", "finish_task",
             "finish_cancelled"} => cur \in Tasks

\* A task is polling exactly while the run loop is in its poll, and its future is then
\* out of the task.
PollingTask ==
    \A t \in Tasks :
      /\ polling[t] <=> rpc \in {"poll", "finish_ready"} /\ cur = t
      /\ polling[t] => ~future[t]

\* The queued flag of a live task says whether it has a ready entry.
QueuedFlag ==
    \A t \in Tasks :
      future[t] \/ polling[t] =>
        /\ Entry(t) => queued[t]
        /\ queued[t] /\ accepting => Entry(t)

\* Before it is spawned a task has left no trace.
Fresh ==
    \A t \in Tasks :
      handle[t] = "unspawned" => ~future[t] /\ ~polling[t] /\ ~Entry(t)

\* A wakeup during a poll or while pending leaves the queued flag set.
WakeQueued ==
    \A t \in Tasks :
      wake_due[t] /\ (future[t] \/ polling[t]) /\ accepting => queued[t]

\* NoSleepThroughWork, already from the moment the exit check has passed.
AwakeInv ==
    \/ rpc = "wait" /\ has_ready_tasks
    \/ rpc \in {"ready", "wait"} /\ (is_drained \/ stopping)
    => wake_pending \/ Waking

EntryInv ==
    /\ QueueGroups
    /\ PollingTask
    /\ UniqueEntry
    /\ QueuedFlag
    /\ Fresh
    /\ WakeQueued

\* What the state's shape rests on.
TypeInv == TypeOK /\ CallTask /\ CurrentTask

\* The empty queue is a sequence over any set.
LEMMA EmptyQueue == \A S : <<>> \in Seq(S)
BY SMT

\* push_back keeps every ready queue a sequence of tasks.
LEMMA PushType ==
    ASSUME NEW q \in [Groups -> Seq(Tasks)], NEW t \in Tasks
    PROVE  [q EXCEPT ![GroupOf[t]] = Append(@, t)] \in [Groups -> Seq(Tasks)]
<1>1. GroupOf[t] \in Groups
  BY ConstantsAssumption
<1>2. Append(q[GroupOf[t]], t) \in Seq(Tasks)
  BY <1>1, SMT
<1> QED
  BY <1>1, <1>2

\* A new executor satisfies the type invariant.
LEMMA TypeInit == Init => TypeInv
<1> SUFFICES ASSUME Init PROVE TypeInv
  OBVIOUS
<1> USE ConstantsAssumption DEF Init, RunLabels, CallLabels, Results
<1>1. outcome \in [Tasks -> Results]
  BY DEF Results
<1>2. polled \in 0 .. Budget
  BY SMT
<1>3. queue \in [Groups -> Seq(Tasks)]
  BY EmptyQueue
<1>4. TypeOK
  BY <1>1, <1>2, <1>3 DEF TypeOK
<1> QED
  BY <1>4 DEF TypeInv, CallTask, CurrentTask

\* Every operation and every run-loop step keeps the type invariant.
LEMMA TypeStep == TypeInv /\ [Next]_vars => TypeInv'
<1> SUFFICES ASSUME TypeInv, [Next]_vars PROVE TypeInv'
  OBVIOUS
<1> USE ConstantsAssumption DEF TypeInv, TypeOK, CallTask, CurrentTask, RunLabels, CallLabels,
        Results, Procs
<1>1. ASSUME NEW p \in Threads, NEW t \in Tasks, Spawn(p, t) PROVE TypeInv'
  BY <1>1, SMT DEF Spawn, Call, Goto, taskVars, schedVars, loopVars, callVars, joinVars
<1>2. ASSUME NEW p \in Procs, NEW t \in Tasks, Wake(p, t) PROVE TypeInv'
  <2>1. CASE mark_queued(t)
    <3>1. /\ pc' = [pc EXCEPT ![p] = "schedule_existing"]
          /\ arg' = [arg EXCEPT ![p] = t]
      BY <1>2, <2>1 DEF Wake, mark_queued, Call, Goto
    <3>2. pc' \in [Procs -> CallLabels] /\ arg' \in [Procs -> Tasks \cup {NoTask}]
      BY <3>1
    <3>3. CallTask'
      BY <3>1
    <3>4. queued' \in [Tasks -> BOOLEAN] /\ wake_due' \in [Tasks -> BOOLEAN]
      BY <1>2, <2>1, ZenonT(40) DEF Wake, mark_queued
    <3>5. CurrentTask'
      BY <1>2 DEF Wake, mark_queued, loopVars
    <3>6. TypeOK'
      BY <1>2, <3>2, <3>4, SMT DEF Wake, mark_queued, taskVars, schedVars, loopVars, callVars, joinVars
    <3> QED
      BY <3>3, <3>5, <3>6
  <2>2. CASE ~mark_queued(t)
    BY <1>2, <2>2, SMT DEF Wake, mark_queued, Call, Goto, taskVars, schedVars, loopVars, callVars, joinVars
  <2> QED
    BY <2>1, <2>2
<1>3. ASSUME NEW p \in Threads, NEW q \in Threads, CloneSpawner(p, q) PROVE TypeInv'
  BY <1>3, SMT DEF CloneSpawner, taskVars, schedVars, loopVars, callVars, joinVars
<1>4. ASSUME NEW p \in Threads, DropSpawner(p) PROVE TypeInv'
  <2>1. spawner_count' \in Nat
    BY <1>4, SMT DEF DropSpawner, saturating_dec
  <2>2. pc' \in [Procs -> CallLabels] /\ CallTask'
    BY <1>4 DEF DropSpawner, Goto
  <2> QED
    BY <1>4, <2>1, <2>2, SMT DEF DropSpawner, taskVars, schedVars, loopVars, callVars, joinVars
<1>5. ASSUME NEW p \in Threads, RequestStop(p) PROVE TypeInv'
  BY <1>5, SMT DEF RequestStop, Goto, taskVars, schedVars, loopVars, callVars, joinVars
<1>6. ASSUME NEW p \in Procs, NEW t \in Tasks, NEW h \in {"open", "gone"},
             Cancel(p, t, h)
      PROVE  TypeInv'
  <2> USE DEF taskVars, schedVars, loopVars, callVars, joinVars
  <2>1. CASE ~future[t] /\ ~polling[t] /\ UNCHANGED <<taskVars, callVars>>
    BY <1>6, <2>1, SMT DEF Cancel
  <2>2. CASE /\ cancel_requested' = [cancel_requested EXCEPT ![t] = TRUE]
             /\ Call(p, "abort_wake", t)
             /\ UNCHANGED <<future, queued, polling, completed>>
    <3>1. pc' \in [Procs -> CallLabels] /\ arg' \in [Procs -> Tasks \cup {NoTask}]
      BY <2>2 DEF Call, Goto
    <3>2. CallTask'
      BY <2>2 DEF Call, Goto
    <3> QED
      BY <1>6, <2>2, <3>1, <3>2, SMT DEF Cancel
  <2>3. CASE /\ cancel_requested' = [cancel_requested EXCEPT ![t] = TRUE]
             /\ future' = [future EXCEPT ![t] = FALSE]
             /\ queued' = [queued EXCEPT ![t] = FALSE]
             /\ completed' = [completed EXCEPT ![t] = TRUE]
             /\ Call(p, "finish_task", t)
             /\ UNCHANGED polling
    <3>1. pc' \in [Procs -> CallLabels] /\ arg' \in [Procs -> Tasks \cup {NoTask}]
      BY <2>3 DEF Call, Goto
    <3>2. CallTask'
      BY <2>3 DEF Call, Goto
    <3> QED
      BY <1>6, <2>3, <3>1, <3>2, SMT DEF Cancel
  <2> QED
    BY <1>6, <2>1, <2>2, <2>3 DEF Cancel
<1>7. ASSUME NEW t \in Tasks, Await(t) PROVE TypeInv'
  <2>3. outcome' \in [Tasks -> Results]
    BY <1>7 DEF Await
  <2>4. join_result' \in [Tasks -> Results] /\ join_waker' \in [Tasks -> BOOLEAN]
    BY <1>7 DEF Await
  <2> QED
    BY <1>7, <2>3, <2>4, SMT DEF Await, taskVars, schedVars, loopVars, callVars, joinVars
<1>8. ASSUME NEW p \in Procs, ScheduleNew(p) PROVE TypeInv'
  <2>1. arg[p] \in Tasks
    BY <1>8 DEF ScheduleNew
  <2>2. \/ pc' = [pc EXCEPT ![p] = "wake_spawned"] /\ arg' = arg
        \/ pc' = [pc EXCEPT ![p] = "idle"] /\ arg' = [arg EXCEPT ![p] = NoTask]
    BY <1>8 DEF ScheduleNew, Return, Call, Goto
  <2>3. pc' \in [Procs -> CallLabels] /\ arg' \in [Procs -> Tasks \cup {NoTask}]
    BY <2>2, ZenonT(40)
  <2>4. CallTask'
    BY <2>1, <2>2, ZenonT(40)
  <2>5. queue' = queue \/ queue' = [queue EXCEPT ![GroupOf[arg[p]]] = Append(@, arg[p])]
    BY <1>8 DEF ScheduleNew, push_back
  <2>6. queue' \in [Groups -> Seq(Tasks)]
    <3>1. queue \in [Groups -> Seq(Tasks)]
      OBVIOUS
    <3>2. [queue EXCEPT ![GroupOf[arg[p]]] = Append(@, arg[p])] \in [Groups -> Seq(Tasks)]
      BY ONLY <2>1, <3>1, PushType, SMT
    <3> QED
      BY ONLY <2>5, <3>1, <3>2, ZenonT(40)
  <2>7. task_count' \in Nat /\ listed' \in SUBSET Tasks
    BY <1>8, <2>1, SMT DEF ScheduleNew
  <2>8. /\ future' \in [Tasks -> BOOLEAN]
        /\ queued' \in [Tasks -> BOOLEAN]
        /\ handle' \in [Tasks -> {"unspawned", "spawning", "open", "gone"}]
    BY <1>8 DEF ScheduleNew
  <2>9. TypeOK'
    BY <1>8, <2>3, <2>6, <2>7, <2>8, SMT DEF ScheduleNew, loopVars, joinVars
  <2>10. CurrentTask'
    BY <1>8 DEF ScheduleNew, loopVars
  <2> QED
    BY <2>4, <2>9, <2>10
<1>9. ASSUME NEW p \in Procs, WakeSpawned(p) PROVE TypeInv'
  BY <1>9, ZenonT(40)
     DEF WakeSpawned, Call, Goto, Return, taskVars, schedVars, loopVars, callVars, joinVars
<1>10. ASSUME NEW p \in Procs, ScheduleExisting(p) PROVE TypeInv'
  <2>1. arg[p] \in Tasks
    BY <1>10 DEF ScheduleExisting
  <2>2. \/ pc' = [pc EXCEPT ![p] = "wake_reactor"] /\ arg' = arg
        \/ pc' = [pc EXCEPT ![p] = "idle"] /\ arg' = [arg EXCEPT ![p] = NoTask]
    BY <1>10 DEF ScheduleExisting, Return, Call, Goto
  <2>3. pc' \in [Procs -> CallLabels] /\ arg' \in [Procs -> Tasks \cup {NoTask}]
    BY <2>2, ZenonT(40)
  <2>4. CallTask'
    BY <2>1, <2>2, SMT
  <2>5. queue' = queue \/ queue' = [queue EXCEPT ![GroupOf[arg[p]]] = Append(@, arg[p])]
    BY <1>10 DEF ScheduleExisting, push_back
  <2>6. queue' \in [Groups -> Seq(Tasks)]
    <3>1. queue \in [Groups -> Seq(Tasks)]
      OBVIOUS
    <3>2. [queue EXCEPT ![GroupOf[arg[p]]] = Append(@, arg[p])] \in [Groups -> Seq(Tasks)]
      BY ONLY <2>1, <3>1, PushType, SMT
    <3> QED
      BY ONLY <2>5, <3>1, <3>2, ZenonT(40)
  <2>7. queued' \in [Tasks -> BOOLEAN]
    BY <1>10 DEF ScheduleExisting
  <2>8. TypeOK'
    BY <1>10, <2>3, <2>6, <2>7, SMT DEF ScheduleExisting, loopVars, joinVars
  <2>9. CurrentTask'
    BY <1>10 DEF ScheduleExisting, loopVars
  <2> QED
    BY <2>4, <2>8, <2>9
<1>11. ASSUME NEW p \in Procs, WakeReactor(p) PROVE TypeInv'
  BY <1>11, SMT DEF WakeReactor, Call, Goto, Return, taskVars, schedVars, loopVars, callVars,
     joinVars
<1>12. ASSUME NEW p \in Procs, FinishTask(p) PROVE TypeInv'
  BY <1>12, SMT DEF FinishTask, Call, Goto, Return, taskVars, schedVars, loopVars, callVars,
     joinVars, saturating_dec, Drained, has_ready_tasks
<1>13. ASSUME NEW p \in Procs, AbortWake(p) PROVE TypeInv'
  BY <1>13, SMT DEF AbortWake, Call, Goto, Return, taskVars, schedVars, loopVars, callVars, joinVars
<1>14. ASSUME NEW p \in Procs, AbortJoin(p) PROVE TypeInv'
  BY <1>14, ZenonT(40) DEF AbortJoin, Call, Goto, Return, taskVars, schedVars, loopVars, callVars,
     joinVars, complete_join
<1>15. ASSUME NEW t \in Tasks, DropFuture(t) PROVE TypeInv'
  BY <1>15 DEF DropFuture, taskVars, schedVars, loopVars, callVars, joinVars
<1>16. CASE NextTask
  BY <1>16, SMT DEF NextTask, taskVars, schedVars, loopVars, callVars, joinVars
<1>17. CASE BatchDone
  BY <1>17, SMT DEF BatchDone, taskVars, schedVars, loopVars, callVars, joinVars
<1>18. CASE TakeFuture
  <2>1. /\ future' \in [Tasks -> BOOLEAN]
        /\ queued' \in [Tasks -> BOOLEAN]
        /\ polling' \in [Tasks -> BOOLEAN]
        /\ waker' \in [Tasks -> BOOLEAN]
        /\ wake_due' \in [Tasks -> BOOLEAN]
    <3>1. CASE future[cur]
      <4>1. /\ future' = [future EXCEPT ![cur] = FALSE]
            /\ queued' = [queued EXCEPT ![cur] = FALSE]
            /\ polling' = [polling EXCEPT ![cur] = TRUE]
            /\ waker' = [waker EXCEPT ![cur] = TRUE]
            /\ wake_due' = [wake_due EXCEPT ![cur] = FALSE]
        BY <1>18, <3>1 DEF TakeFuture
      <4> QED
        BY <4>1
    <3>2. CASE ~future[cur]
      BY <1>18, <3>2 DEF TakeFuture
    <3> QED
      BY <3>1, <3>2
  <2>2. rpc' \in RunLabels /\ cur' \in Tasks \cup {NoTask} /\ CurrentTask'
    BY <1>18 DEF TakeFuture
  <2>3. CallTask'
    BY <1>18 DEF TakeFuture, callVars
  <2>4. TypeOK'
    BY <1>18, <2>1, <2>2 DEF TakeFuture, schedVars, callVars, joinVars
  <2> QED
    BY <2>2, <2>3, <2>4
<1>19. CASE FinishReady
  BY <1>19 DEF FinishReady, taskVars, schedVars, loopVars, callVars, joinVars
<1>20. CASE PanicHandler
  BY <1>20, ZenonT(40)
     DEF PanicHandler, taskVars, schedVars, loopVars, callVars, joinVars, complete_join
<1>21. CASE FinishPolled
  BY <1>21, SMT DEF FinishPolled, taskVars, schedVars, loopVars, callVars, joinVars,
     saturating_dec, Drained, has_ready_tasks
<1>22. CASE TimersDone
  BY <1>22 DEF TimersDone, taskVars, schedVars, loopVars, callVars, joinVars
<1>23. CASE CheckExit
  BY <1>23 DEF CheckExit, taskVars, schedVars, loopVars, callVars, joinVars
<1>24. CASE CheckReady
  BY <1>24 DEF CheckReady, taskVars, schedVars, loopVars, callVars, joinVars
<1>25. CASE WaitWoken
  BY <1>25 DEF WaitWoken, taskVars, schedVars, loopVars, callVars, joinVars
<1>26. CASE EventsDone
  BY <1>26 DEF EventsDone, taskVars, schedVars, loopVars, callVars, joinVars
<1>27. CASE Close
  <2>1. queue' \in [Groups -> Seq(Tasks)]
    BY <1>27, EmptyQueue DEF Close
  <2> QED
    BY <1>27, <2>1 DEF Close, taskVars, schedVars, loopVars, callVars, joinVars
<1>28. CASE Closed
  BY <1>28 DEF Closed, taskVars, schedVars, loopVars, callVars, joinVars
<1>29. CASE PollReady
  BY <1>29, ZenonT(40)
     DEF PollReady, taskVars, schedVars, loopVars, callVars, joinVars, complete_join
<1>30. CASE PollPending
  BY <1>30, ZenonT(40) DEF PollPending, taskVars, schedVars, loopVars, callVars, joinVars
<1>31. CASE PollPanic
  BY <1>31 DEF PollPanic, taskVars, schedVars, loopVars, callVars, joinVars
<1>32. CASE WaitEvent
  BY <1>32 DEF WaitEvent, taskVars, schedVars, loopVars, callVars, joinVars
<1>33. CASE UNCHANGED vars
  BY <1>33, SMT DEF vars, taskVars, schedVars, loopVars, callVars, joinVars
<1> QED
  BY <1>1, <1>2, <1>3, <1>4, <1>5, <1>6, <1>7, <1>8, <1>9, <1>10, <1>11, <1>12, <1>13, <1>14,
     <1>15, <1>16, <1>17, <1>18, <1>19, <1>20, <1>21, <1>22,
     <1>23, <1>24, <1>25, <1>26, <1>27, <1>28, <1>29, <1>30, <1>31, <1>32, <1>33, ZenonT(30)
  DEF Next, CallStep, RunStep, PollReturn, Abort, DropHandle

\* A new executor's run loop is not asleep.
LEMMA AwakeInit == Init => AwakeInv
BY DEF Init, AwakeInv

\* Whoever makes work for a blocked run loop is on the way to wake it.
LEMMA AwakeStep == TypeInv /\ AwakeInv /\ [Next]_vars => AwakeInv'
<1> SUFFICES ASSUME TypeInv, AwakeInv, [Next]_vars PROVE AwakeInv'
  OBVIOUS
<1> USE ConstantsAssumption DEF AwakeInv, Waking, is_drained, has_ready_tasks, Drained
<1>1. ASSUME NEW p \in Threads, NEW t \in Tasks, Spawn(p, t) PROVE AwakeInv'
  BY <1>1 DEF TypeInv, TypeOK, Spawn, MayCall, Call, Goto, schedVars, loopVars
<1>2. ASSUME NEW p \in Procs, NEW t \in Tasks, Wake(p, t) PROVE AwakeInv'
  BY <1>2 DEF TypeInv, TypeOK, Wake, mark_queued, MayWake, Call, Goto, schedVars, loopVars, callVars
<1>3. ASSUME NEW p \in Threads, NEW q \in Threads, CloneSpawner(p, q) PROVE AwakeInv'
  BY <1>3, SMT DEF TypeInv, TypeOK, CloneSpawner, loopVars, callVars
<1>4. ASSUME NEW p \in Threads, DropSpawner(p) PROVE AwakeInv'
  BY <1>4, SMT DEF TypeInv, TypeOK, DropSpawner, Goto, Procs, loopVars
<1>5. ASSUME NEW p \in Threads, RequestStop(p) PROVE AwakeInv'
  BY <1>5 DEF TypeInv, TypeOK, RequestStop, Goto, Procs, loopVars
<1>6. ASSUME NEW p \in Procs, NEW t \in Tasks, NEW h \in {"open", "gone"},
             Cancel(p, t, h)
      PROVE  AwakeInv'
  BY <1>6, SMT DEF TypeInv, TypeOK, Cancel, MayCall, Call, Goto, schedVars, loopVars, callVars
<1>7. ASSUME NEW t \in Tasks, Await(t) PROVE AwakeInv'
  BY <1>7 DEF TypeInv, TypeOK, Await, schedVars, loopVars, callVars
<1>8. ASSUME NEW p \in Procs, ScheduleNew(p) PROVE AwakeInv'
  BY <1>8, SMT DEF TypeInv, TypeOK, ScheduleNew, Goto, Return, Call, loopVars
<1>9. ASSUME NEW p \in Procs, ScheduleExisting(p) PROVE AwakeInv'
  BY <1>9, SMT DEF TypeInv, TypeOK, ScheduleExisting, Goto, Return, Call, loopVars
<1>10. ASSUME NEW p \in Procs, WakeSpawned(p) PROVE AwakeInv'
  BY <1>10 DEF TypeInv, TypeOK, WakeSpawned
<1>11. ASSUME NEW p \in Procs, WakeReactor(p) PROVE AwakeInv'
  BY <1>11 DEF TypeInv, TypeOK, WakeReactor
<1>12. ASSUME NEW p \in Procs, AbortWake(p) PROVE AwakeInv'
  BY <1>12 DEF TypeInv, TypeOK, AbortWake
<1>13. ASSUME NEW p \in Procs, FinishTask(p) PROVE AwakeInv'
  BY <1>13 DEF TypeInv, TypeOK, FinishTask, Goto, loopVars
<1>14. ASSUME NEW p \in Procs, AbortJoin(p) PROVE AwakeInv'
  BY <1>14 DEF TypeInv, TypeOK, AbortJoin, Return, Call, Goto, schedVars, loopVars
<1>15. ASSUME NEW t \in Tasks, DropFuture(t) PROVE AwakeInv'
  BY <1>15 DEF TypeInv, TypeOK, DropFuture, loopVars
<1>16. CASE CheckExit
  BY <1>16 DEF TypeInv, TypeOK, CheckExit, schedVars, callVars
<1>17. CASE CheckReady
  BY <1>17 DEF TypeInv, TypeOK, CheckReady, schedVars, callVars
<1>18. CASE NextTask
  BY <1>18 DEF TypeInv, TypeOK, NextTask
<1>19. CASE BatchDone
  BY <1>19 DEF TypeInv, TypeOK, BatchDone
<1>20. CASE TakeFuture
  BY <1>20 DEF TypeInv, TypeOK, TakeFuture
<1>21. CASE FinishReady
  BY <1>21 DEF TypeInv, TypeOK, FinishReady
<1>22. CASE PanicHandler
  BY <1>22 DEF TypeInv, TypeOK, PanicHandler
<1>23. CASE FinishPolled
  BY <1>23 DEF TypeInv, TypeOK, FinishPolled
<1>24. CASE TimersDone
  BY <1>24 DEF TypeInv, TypeOK, TimersDone
<1>25. CASE WaitWoken
  BY <1>25 DEF TypeInv, TypeOK, WaitWoken
<1>26. CASE EventsDone
  BY <1>26 DEF TypeInv, TypeOK, EventsDone
<1>27. CASE Close
  BY <1>27 DEF TypeInv, TypeOK, Close
<1>28. CASE Closed
  BY <1>28 DEF TypeInv, TypeOK, Closed
<1>29. CASE PollReady
  BY <1>29 DEF TypeInv, TypeOK, PollReady
<1>30. CASE PollPending
  BY <1>30 DEF TypeInv, TypeOK, PollPending
<1>31. CASE PollPanic
  BY <1>31 DEF TypeInv, TypeOK, PollPanic
<1>32. CASE WaitEvent
  BY <1>32 DEF TypeInv, TypeOK, WaitEvent
<1>33. CASE UNCHANGED vars
  BY <1>33 DEF TypeInv, TypeOK, vars, schedVars, loopVars, callVars
<1> QED
  BY <1>1, <1>2, <1>3, <1>4, <1>5, <1>6, <1>7, <1>8, <1>9, <1>10, <1>11, <1>12, <1>13, <1>14,
     <1>15, <1>16, <1>17, <1>18, <1>19, <1>20, <1>21, <1>22,
     <1>23, <1>24, <1>25, <1>26, <1>27, <1>28, <1>29, <1>30, <1>31, <1>32, <1>33, ZenonT(30)
  DEF Next, CallStep, RunStep, PollReturn, Abort, DropHandle

(* What the queue operations do to the entries *)

\* Pushing a task adds exactly its entry, a unique one if it had none (push_back).
LEMMA PushEntries ==
    ASSUME queue \in [Groups -> Seq(Tasks)], QueueGroups, NEW u \in Tasks, push_back(u)
    PROVE  /\ QueueGroups'
           /\ \A t \in Tasks :
                /\ InQueue(t)' <=> InQueue(t) \/ t = u
                /\ OnePosition(t) /\ (t = u => ~InQueue(t)) => OnePosition(t)'
<1> USE ConstantsAssumption
<1> DEFINE h == GroupOf[u]
<1>1. h \in Groups /\ GroupOf[u] = h
  OBVIOUS
<1>2. /\ \A g \in Groups : g # h => queue'[g] = queue[g]
      /\ queue'[h] = Append(queue[h], u)
  BY <1>1 DEF push_back
<1>3. /\ Len(queue'[h]) = Len(queue[h]) + 1
      /\ \A i \in 1 .. Len(queue[h]) : queue'[h][i] = queue[h][i]
      /\ queue'[h][Len(queue[h]) + 1] = u
      /\ Len(queue[h]) \in Nat
  BY <1>1, <1>2, SMT
<1>range. 1 .. Len(queue'[h]) = (1 .. Len(queue[h])) \cup {Len(queue[h]) + 1}
  BY <1>3, SMT
<1> HIDE DEF h
<1>4. QueueGroups'
  <2> SUFFICES ASSUME NEW g \in Groups, NEW i \in 1 .. Len(queue'[g])
               PROVE  GroupOf[queue'[g][i]] = g
    BY DEF QueueGroups
  <2>1. CASE g # h
    BY <1>2, <2>1 DEF QueueGroups
  <2>2. CASE g = h /\ i \in 1 .. Len(queue[h])
    <3>1. queue'[h][i] = queue[h][i]
      BY <1>3, <2>2
    <3>2. GroupOf[queue[h][i]] = h
      BY <1>1, <2>2 DEF QueueGroups
    <3>3. QED
      BY <2>2, <3>1, <3>2
  <2>3. CASE g = h /\ i = Len(queue[h]) + 1
    BY <1>1, <1>3, <2>3
  <2> QED
    BY <1>3, <2>1, <2>2, <2>3, SMT
<1>5. ASSUME NEW t \in Tasks PROVE InQueue(t)' <=> InQueue(t) \/ t = u
  <2>1. CASE GroupOf[t] # h
    BY <1>1, <1>2, <2>1 DEF InQueue
  <2>2. CASE GroupOf[t] = h
    <3>1. InQueue(t) <=> \E i \in 1 .. Len(queue[h]) : queue[h][i] = t
      BY <2>2 DEF InQueue
    <3>2. InQueue(t)' <=> \E i \in 1 .. Len(queue'[h]) : queue'[h][i] = t
      BY <2>2 DEF InQueue
    <3> QED
      BY <1>3, <1>range, <3>1, <3>2
  <2> QED
    BY <2>1, <2>2
<1>6. ASSUME NEW t \in Tasks, OnePosition(t), t = u => ~InQueue(t) PROVE OnePosition(t)'
  <2>1. CASE GroupOf[t] # h
    BY <1>2, <1>6, <2>1 DEF OnePosition
  <2>2. CASE GroupOf[t] = h
    <3> SUFFICES ASSUME NEW i \in 1 .. Len(queue'[h]), NEW j \in 1 .. Len(queue'[h]),
                        queue'[h][i] = t, queue'[h][j] = t
                 PROVE  i = j
      BY <2>2 DEF OnePosition
    <3>1. CASE i \in 1 .. Len(queue[h]) /\ j \in 1 .. Len(queue[h])
      BY <1>3, <1>6, <2>2, <3>1 DEF OnePosition
    <3>2. CASE i = Len(queue[h]) + 1 /\ j \in 1 .. Len(queue[h])
      BY <1>3, <1>6, <2>2, <3>2 DEF InQueue
    <3>3. CASE j = Len(queue[h]) + 1 /\ i \in 1 .. Len(queue[h])
      BY <1>3, <1>6, <2>2, <3>3 DEF InQueue
    <3> QED
      BY <1>range, <3>1, <3>2, <3>3
  <2> QED
    BY <2>1, <2>2
<1> QED
  BY <1>4, <1>5, <1>6

\* Popping a queue's head removes exactly the entry of the popped task (next_task).
LEMMA PopEntries ==
    ASSUME queue \in [Groups -> Seq(Tasks)], QueueGroups,
           NEW g \in Groups, queue[g] # <<>>, queue' = [queue EXCEPT ![g] = Tail(@)],
           \A t \in Tasks : OnePosition(t)
    PROVE  /\ QueueGroups'
           /\ Head(queue[g]) \in Tasks
           /\ InQueue(Head(queue[g]))
           /\ \A t \in Tasks :
                /\ InQueue(t)' <=> InQueue(t) /\ t # Head(queue[g])
                /\ OnePosition(t)'
<1> USE ConstantsAssumption
<1>1. /\ \A f \in Groups : f # g => queue'[f] = queue[f]
      /\ queue'[g] = Tail(queue[g])
  OBVIOUS
<1>2. /\ Len(queue[g]) \in Nat \ {0}
      /\ Head(queue[g]) = queue[g][1]
      /\ Len(queue'[g]) = Len(queue[g]) - 1
      /\ \A i \in 1 .. (Len(queue[g]) - 1) : queue'[g][i] = queue[g][i + 1]
      /\ queue[g][1] \in Tasks
  BY <1>1, SMT
<1>3. GroupOf[queue[g][1]] = g
  BY <1>2, SMT DEF QueueGroups
<1>4. QueueGroups'
  <2> SUFFICES ASSUME NEW f \in Groups, NEW i \in 1 .. Len(queue'[f])
               PROVE  GroupOf[queue'[f][i]] = f
    BY DEF QueueGroups
  <2>1. CASE f # g
    BY <1>1, <2>1 DEF QueueGroups
  <2>2. CASE f = g
    <3>1. i + 1 \in 1 .. Len(queue[g]) /\ queue'[g][i] = queue[g][i + 1]
      BY <1>2, <2>2, SMT
    <3> QED
      BY <2>2, <3>1 DEF QueueGroups
  <2> QED
    BY <2>1, <2>2
<1>5. InQueue(Head(queue[g]))
  BY <1>2, <1>3, SMT DEF InQueue
<1>6. ASSUME NEW t \in Tasks PROVE InQueue(t)' <=> InQueue(t) /\ t # Head(queue[g])
  <2>1. CASE GroupOf[t] # g
    <3>1. queue'[GroupOf[t]] = queue[GroupOf[t]] /\ t # queue[g][1]
      BY <1>1, <1>3, <2>1
    <3> QED
      BY <1>2, <3>1 DEF InQueue
  <2>2. CASE GroupOf[t] = g
    <3>0. /\ InQueue(t) <=> \E i \in 1 .. Len(queue[g]) : queue[g][i] = t
          /\ InQueue(t)' <=> \E i \in 1 .. Len(queue'[g]) : queue'[g][i] = t
      BY <2>2 DEF InQueue
    <3>1. InQueue(t)' => InQueue(t)
      BY <1>2, <3>0, SMT
    <3>2. InQueue(t)' => t # queue[g][1]
      <4> SUFFICES ASSUME NEW i \in 1 .. Len(queue'[g]), queue'[g][i] = t,
                          t = queue[g][1]
                   PROVE  FALSE
        BY <3>0
      <4>1. i + 1 \in 1 .. Len(queue[g]) /\ queue[g][i + 1] = t /\ 1 \in 1 .. Len(queue[g])
        BY <1>2, SMT
      <4> QED
        BY <2>2, <4>1, SMT DEF OnePosition
    <3>3. ASSUME InQueue(t), t # queue[g][1] PROVE InQueue(t)'
      <4>1. PICK i \in 1 .. Len(queue[g]) : queue[g][i] = t
        BY <2>2, <3>3 DEF InQueue
      <4>2. i - 1 \in 1 .. Len(queue'[g]) /\ queue'[g][i - 1] = t
        BY <1>2, <3>3, <4>1, SMT
      <4> QED
        BY <2>2, <4>2 DEF InQueue
    <3> QED
      BY <1>2, <3>1, <3>2, <3>3
  <2> QED
    BY <2>1, <2>2
<1>7. ASSUME NEW t \in Tasks PROVE OnePosition(t)'
  <2>1. CASE GroupOf[t] # g
    BY <1>1, <2>1, SMT DEF OnePosition
  <2>2. CASE GroupOf[t] = g
    <3> SUFFICES ASSUME NEW i \in 1 .. Len(queue'[g]), NEW j \in 1 .. Len(queue'[g]),
                        queue'[g][i] = t, queue'[g][j] = t
                 PROVE  i = j
      BY <2>2, SMT DEF OnePosition
    <3>1. /\ i + 1 \in 1 .. Len(queue[g]) /\ queue[g][i + 1] = t
          /\ j + 1 \in 1 .. Len(queue[g]) /\ queue[g][j + 1] = t
      BY <1>2, SMT
    <3>2. i + 1 = j + 1
      BY <2>2, <3>1 DEF OnePosition
    <3> QED
      BY <1>2, <3>2, SMT
  <2> QED
    BY <2>1, <2>2
<1> QED
  BY <1>2, <1>4, <1>5, <1>6, <1>7

\* Unchanged queues have unchanged entries.
LEMMA SameEntries ==
    ASSUME QueueGroups, queue' = queue
    PROVE  /\ QueueGroups'
           /\ \A t \in Tasks :
                /\ InQueue(t)' <=> InQueue(t)
                /\ OnePosition(t)' <=> OnePosition(t)
BY DEF QueueGroups, InQueue, OnePosition

\* A new executor has no entries.
LEMMA EntryInit == Init => EntryInv
<1> SUFFICES ASSUME Init PROVE EntryInv
  OBVIOUS
<1> USE ConstantsAssumption DEF Init
<1>1. \A t \in Tasks : ~InQueue(t) /\ OnePosition(t)
  BY SMT DEF InQueue, OnePosition
<1>2. \A t \in Tasks : ~Popped(t) /\ \A p \in Procs : ~Pushing(p, t)
  BY DEF Popped, Pushing
<1>3. QueueGroups
  BY SMT DEF QueueGroups
<1> QED
  BY <1>1, <1>2, <1>3 DEF EntryInv, PollingTask, UniqueEntry, QueuedFlag, Fresh, WakeQueued,
     Entry

\* Steps that leave queues and entries alone, whatever they do to the flags.
LEMMA SameUnique ==
    ASSUME EntryInv, queue' = queue,
           \A t \in Tasks : Popped(t)' <=> Popped(t),
           \A q \in Procs, t \in Tasks : Pushing(q, t)' <=> Pushing(q, t)
    PROVE  QueueGroups' /\ UniqueEntry' /\ \A t \in Tasks : Entry(t)' <=> Entry(t)
<1>1. QueueGroups' /\ \A t \in Tasks : /\ InQueue(t)' <=> InQueue(t)
                                       /\ OnePosition(t)' <=> OnePosition(t)
  BY SameEntries DEF EntryInv
<1>2. \A t \in Tasks : Entry(t)' <=> Entry(t)
  BY <1>1 DEF Entry, Procs
<1>3. UniqueEntry'
  BY <1>1 DEF EntryInv, UniqueEntry, Procs
<1> QED
  BY <1>1, <1>2, <1>3

\* A process that has just marked a task queued is the only one to push it.
LEMMA NewPusher ==
    ASSUME EntryInv, queue' = queue, NEW p \in Procs, NEW t \in Tasks,
           \A u \in Tasks : Popped(u)' <=> Popped(u),
           \A r \in Procs, u \in Tasks : Pushing(r, u)' <=> Pushing(r, u) \/ (r = p /\ u = t),
           ~Entry(t)
    PROVE  QueueGroups' /\ UniqueEntry' /\ \A u \in Tasks : Entry(u)' <=> Entry(u) \/ u = t
<1>1. QueueGroups' /\ \A u \in Tasks : /\ InQueue(u)' <=> InQueue(u)
                                       /\ OnePosition(u)' <=> OnePosition(u)
  BY SameEntries DEF EntryInv
<1>2. ~InQueue(t) /\ ~Popped(t) /\ \A r \in Procs : ~Pushing(r, t)
  BY DEF Entry
<1>3. \A u \in Tasks : Entry(u)' <=> Entry(u) \/ u = t
  BY <1>1 DEF Entry
<1>4. UniqueEntry'
  <2> SUFFICES ASSUME NEW u \in Tasks
               PROVE  /\ OnePosition(u)'
                      /\ \A a, b \in Procs : Pushing(a, u)' /\ Pushing(b, u)' => a = b
                      /\ InQueue(u)' => ~Popped(u)' /\ \A a \in Procs : ~Pushing(a, u)'
                      /\ Popped(u)' => \A a \in Procs : ~Pushing(a, u)'
    BY DEF UniqueEntry
  <2>1. CASE u = t
    BY <1>1, <1>2, <2>1 DEF EntryInv, UniqueEntry
  <2>2. CASE u # t
    BY <1>1, <2>2 DEF EntryInv, UniqueEntry
  <2> QED
    BY <2>1, <2>2
<1> QED
  BY <1>1, <1>3, <1>4

\* Steps that leave queues, entries and task flags alone.
LEMMA QuietStep ==
    ASSUME EntryInv, UNCHANGED <<queue, future, queued, polling, wake_due, accepting>>,
           \A t \in Tasks : Popped(t)' <=> Popped(t),
           \A q \in Procs, t \in Tasks : Pushing(q, t)' <=> Pushing(q, t),
           \A t \in Tasks : handle'[t] = "unspawned" => handle[t] = "unspawned",
           PollingTask'
    PROVE  EntryInv'
<1>1. QueueGroups' /\ UniqueEntry' /\ \A t \in Tasks : Entry(t)' <=> Entry(t)
  BY SameUnique
<1>2. QueuedFlag' /\ Fresh' /\ WakeQueued'
  BY <1>1 DEF EntryInv, QueuedFlag, Fresh, WakeQueued
<1> QED
  BY <1>1, <1>2 DEF EntryInv

\* Run-loop steps that touch neither queues nor tasks.
LEMMA QuietLoop ==
    ASSUME EntryInv,
           UNCHANGED <<queue, future, queued, polling, wake_due, accepting, pc, arg, handle>>,
           \/ /\ rpc \notin {"take", "poll", "finish_ready"}
              /\ rpc' \notin {"take", "poll", "finish_ready"}
           \/ rpc = "poll" /\ rpc' = "finish_ready" /\ cur' = cur
           \/ rpc' = rpc /\ cur' = cur
    PROVE  EntryInv'
<1>1. \A u \in Tasks : Popped(u)' <=> Popped(u)
  BY DEF Popped
<1>2. \A r \in Procs, u \in Tasks : Pushing(r, u)' <=> Pushing(r, u)
  BY DEF Pushing
<1>3. PollingTask'
  BY DEF EntryInv, PollingTask
<1> QED
  BY <1>1, <1>2, <1>3, QuietStep

\* Steps of a call that push nothing and touch no task.
LEMMA QuietCall ==
    ASSUME EntryInv, NEW p \in Procs,
           UNCHANGED <<queue, future, queued, polling, wake_due, accepting, rpc, cur>>,
           \A r \in Procs : r # p => pc'[r] = pc[r] /\ arg'[r] = arg[r],
           pc[p] \notin {"schedule_new", "schedule_existing"},
           pc'[p] \notin {"schedule_new", "schedule_existing"},
           \A u \in Tasks : handle'[u] = "unspawned" => handle[u] = "unspawned"
    PROVE  EntryInv'
<1>1. \A u \in Tasks : Popped(u)' <=> Popped(u)
  BY DEF Popped
<1>2. \A r \in Procs, u \in Tasks : Pushing(r, u)' <=> Pushing(r, u)
  BY DEF Pushing
<1>3. PollingTask'
  BY DEF EntryInv, PollingTask
<1> QED
  BY <1>1, <1>2, <1>3, QuietStep

\* The entries after spawn.
LEMMA EntrySpawn ==
    ASSUME TypeInv, EntryInv, NEW p \in Threads, NEW t \in Tasks, Spawn(p, t)
    PROVE  EntryInv'
<1> USE ConstantsAssumption
<1>inv. TypeOK /\ CallTask /\ CurrentTask /\ EntryInv
  BY DEF TypeInv
<1>1. /\ queue' = queue /\ polling' = polling /\ rpc' = rpc /\ cur' = cur
      /\ wake_due' = wake_due /\ accepting' = accepting
      /\ p \in Procs /\ handle[t] = "unspawned" /\ pc[p] = "idle"
  BY DEF Spawn, MayCall, schedVars, loopVars, Procs
<1>2. /\ handle' = [handle EXCEPT ![t] = "spawning"]
      /\ future' = [future EXCEPT ![t] = TRUE]
      /\ queued' = [queued EXCEPT ![t] = TRUE]
      /\ pc' = [pc EXCEPT ![p] = "schedule_new"]
      /\ arg' = [arg EXCEPT ![p] = t]
  BY DEF Spawn, Call, Goto
<1>3. \A u \in Tasks : Popped(u)' <=> Popped(u)
  BY <1>1 DEF Popped
<1>4. \A r \in Procs, u \in Tasks : Pushing(r, u)' <=> Pushing(r, u) \/ (r = p /\ u = t)
  BY <1>inv, <1>1, <1>2 DEF TypeOK, Pushing
<1>5. ~future[t] /\ ~polling[t] /\ ~Entry(t)
  BY <1>inv, <1>1 DEF EntryInv, Fresh
<1>7. QueueGroups' /\ UniqueEntry' /\ \A u \in Tasks : Entry(u)' <=> Entry(u) \/ u = t
  BY <1>inv, <1>1, <1>3, <1>4, <1>5, NewPusher
<1>9. /\ future'[t] /\ queued'[t] /\ handle'[t] # "unspawned"
      /\ \A u \in Tasks : u # t => /\ queued'[u] = queued[u]
                                   /\ future'[u] = future[u]
                                   /\ handle'[u] = handle[u]
  BY <1>inv, <1>2 DEF TypeOK
<1>10. PollingTask'
  BY <1>inv, <1>1, <1>5, <1>9 DEF EntryInv, PollingTask
<1>11. QueuedFlag' /\ Fresh' /\ WakeQueued'
  BY <1>inv, <1>1, <1>7, <1>9 DEF EntryInv, QueuedFlag, Fresh, WakeQueued
<1> QED
  BY <1>7, <1>10, <1>11 DEF EntryInv

\* The entries after a wake.
LEMMA EntryWake ==
    ASSUME TypeInv, EntryInv, NEW p \in Procs, NEW t \in Tasks, Wake(p, t)
    PROVE  EntryInv'
<1> USE ConstantsAssumption
<1>inv. TypeOK /\ CallTask /\ CurrentTask /\ EntryInv
  BY DEF TypeInv
<1>1. CASE ~mark_queued(t)
  <2>1. \A u \in Tasks : Popped(u)' <=> Popped(u)
    BY <1>1 DEF Wake, mark_queued, loopVars, Popped
  <2>2. \A r \in Procs, u \in Tasks : Pushing(r, u)' <=> Pushing(r, u)
    BY <1>1 DEF Wake, mark_queued, callVars, Pushing
  <2>3. queue' = queue /\ PollingTask'
    BY <1>inv DEF Wake, mark_queued, schedVars, loopVars, EntryInv, PollingTask
  <2>4. QueueGroups' /\ UniqueEntry' /\ \A u \in Tasks : Entry(u)' <=> Entry(u)
    BY <1>inv, <2>1, <2>2, <2>3, SameUnique
  <2>5. QueuedFlag' /\ Fresh'
    BY <1>inv, <1>1, <2>4 DEF Wake, mark_queued, schedVars, EntryInv, QueuedFlag, Fresh
  <2>6. WakeQueued'
    BY <1>inv, <1>1 DEF Wake, mark_queued, schedVars, TypeOK, EntryInv, WakeQueued
  <2> QED
    BY <2>3, <2>4, <2>5, <2>6 DEF EntryInv
<1>2. CASE mark_queued(t)
  <2>1. ~Entry(t) /\ handle[t] # "unspawned"
    BY <1>inv, <1>2 DEF mark_queued, EntryInv, QueuedFlag, Fresh
  <2>2. \A u \in Tasks : Popped(u)' <=> Popped(u)
    BY DEF Wake, mark_queued, loopVars, Popped
  <2>3. \A u \in Tasks : ~Pushing(p, u)
    BY DEF Wake, mark_queued, MayWake, Pushing
  <2>4. \A r \in Procs, u \in Tasks :
          Pushing(r, u)' <=> (Pushing(r, u) /\ r # p) \/ (r = p /\ u = t)
    BY <1>inv, <1>2, SMT DEF Wake, mark_queued, Call, Goto, TypeOK, Pushing
  <2>5. queue' = queue
    BY DEF Wake, schedVars
  <2>6. PollingTask'
    BY <1>inv DEF Wake, mark_queued, schedVars, loopVars, EntryInv, PollingTask
  <2>7. QueueGroups' /\ UniqueEntry' /\ \A u \in Tasks : Entry(u)' <=> Entry(u) \/ u = t
    <3>1. \A r \in Procs, u \in Tasks :
            Pushing(r, u)' <=> Pushing(r, u) \/ (r = p /\ u = t)
      BY <2>3, <2>4
    <3> QED
      BY <1>inv, <2>1, <2>2, <2>5, <3>1, NewPusher
  <2>8. queued' = [queued EXCEPT ![t] = TRUE]
    BY <1>2 DEF Wake, mark_queued
  <2>9. QueuedFlag' /\ Fresh'
    BY <1>inv, <2>1, <2>7, <2>8
       DEF Wake, mark_queued, schedVars, TypeOK, EntryInv, QueuedFlag, Fresh
  <2>10. WakeQueued'
    BY <1>inv, <2>8 DEF Wake, mark_queued, schedVars, TypeOK, EntryInv, WakeQueued
  <2> QED
    BY <2>6, <2>7, <2>9, <2>10 DEF EntryInv
<1> QED
  BY <1>1, <1>2

\* The entries after abort and a dropped handle.
LEMMA EntryCancel ==
    ASSUME TypeInv, EntryInv, NEW p \in Procs, NEW t \in Tasks, NEW h \in {"open", "gone"}, Cancel(p, t, h)
    PROVE  EntryInv'
<1> USE ConstantsAssumption
<1>inv. TypeOK /\ CallTask /\ CurrentTask /\ EntryInv
  BY DEF TypeInv
<1>1. \A u \in Tasks : Popped(u)' <=> Popped(u)
  BY DEF Cancel, loopVars, Popped
<1>2. \A r \in Procs, u \in Tasks : Pushing(r, u)' <=> Pushing(r, u)
  BY <1>inv, SMT DEF Cancel, MayCall, Call, Goto, callVars, TypeOK, Pushing
<1>4. UNCHANGED <<queue, accepting, polling, rpc, cur, wake_due>>
  BY DEF Cancel, schedVars, loopVars, taskVars
<1>5. \A u \in Tasks : /\ future'[u] => future[u]
                       /\ future'[u] \/ polling[u] => queued'[u] = queued[u]
                       /\ handle'[u] = "unspawned" => handle[u] = "unspawned"
  <2>1. handle' = [handle EXCEPT ![t] = h]
    BY DEF Cancel
  <2>2. \A u \in Tasks : handle'[u] = "unspawned" => handle[u] = "unspawned"
    BY <1>inv, <2>1 DEF TypeOK
  <2>3. \/ future' = future /\ queued' = queued
        \/ /\ future' = [future EXCEPT ![t] = FALSE]
           /\ queued' = [queued EXCEPT ![t] = FALSE]
           /\ ~polling[t]
    BY DEF Cancel, taskVars
  <2>4. \A u \in Tasks : /\ future'[u] => future[u]
                         /\ future'[u] \/ polling[u] => queued'[u] = queued[u]
    BY <1>inv, <2>3 DEF TypeOK
  <2> QED
    BY <2>2, <2>4
<1>6. PollingTask'
  BY <1>inv, <1>4, <1>5 DEF EntryInv, PollingTask
<1>7. QueueGroups' /\ UniqueEntry' /\ \A u \in Tasks : Entry(u)' <=> Entry(u)
  BY <1>inv, <1>1, <1>2, <1>4, SameUnique
<1>8. QueuedFlag' /\ Fresh' /\ WakeQueued'
  BY <1>inv, <1>4, <1>5, <1>7 DEF EntryInv, QueuedFlag, Fresh, WakeQueued
<1> QED
  BY <1>6, <1>7, <1>8 DEF EntryInv

\* The entries after schedule_new.
LEMMA EntryScheduleNew ==
    ASSUME TypeInv, EntryInv, NEW p \in Procs, ScheduleNew(p)
    PROVE  EntryInv'
<1> USE ConstantsAssumption
<1>inv. TypeOK /\ CallTask /\ CurrentTask /\ EntryInv
  BY DEF TypeInv
<1>same. queue' = queue => /\ QueueGroups'
                          /\ \A u \in Tasks : /\ InQueue(u)' <=> InQueue(u)
                                              /\ OnePosition(u)' <=> OnePosition(u)
  BY SameEntries DEF EntryInv
<1>0. PICK t \in Tasks : t = arg[p]
  BY <1>inv DEF ScheduleNew, CallTask
<1>1. t \in Tasks /\ Pushing(p, t)
  BY <1>0 DEF ScheduleNew, Pushing
<1>2. \A u \in Tasks : Popped(u)' <=> Popped(u)
  BY DEF ScheduleNew, loopVars, Popped
<1>3. \A r \in Procs, u \in Tasks : Pushing(r, u)' <=> Pushing(r, u) /\ r # p
  BY <1>inv, SMT DEF ScheduleNew, Goto, Return, Call, TypeOK, Pushing
<1>4. ~InQueue(t) /\ ~Popped(t) /\ \A r \in Procs : r # p => ~Pushing(r, t)
  BY <1>inv, <1>1 DEF EntryInv, UniqueEntry, Procs
<1>5. \A u \in Tasks : u # t => ~Pushing(p, u)
  BY <1>0 DEF Pushing
<1>6. UNCHANGED <<accepting, polling, rpc, cur, wake_due>>
  BY DEF ScheduleNew, loopVars
<1>7. CASE accepting
  <2>1. push_back(t) /\ UNCHANGED <<future, queued, handle>>
    BY <1>0, <1>7 DEF ScheduleNew
  <2>2. /\ QueueGroups'
        /\ \A u \in Tasks : /\ InQueue(u)' <=> InQueue(u) \/ u = t
                            /\ OnePosition(u) /\ (u = t => ~InQueue(u)) => OnePosition(u)'
    BY <1>inv, <1>1, <2>1, PushEntries DEF TypeOK, EntryInv
  <2>3. \A u \in Tasks : Entry(u)' <=> Entry(u)
    BY <1>1, <1>2, <1>3, <1>5, <2>2 DEF Entry, Procs
  <2>4. UniqueEntry'
    BY <1>inv, <1>1, <1>2, <1>3, <1>4, <2>2, SMT DEF EntryInv, UniqueEntry, Procs
  <2>5. PollingTask' /\ QueuedFlag' /\ Fresh' /\ WakeQueued'
    BY <1>inv, <1>6, <2>1, <2>3 DEF EntryInv, PollingTask, QueuedFlag, Fresh, WakeQueued
  <2> QED
    BY <2>2, <2>4, <2>5 DEF EntryInv
<1>8. CASE ~accepting
  <2>1. /\ queue' = queue
        /\ queued' = [queued EXCEPT ![t] = FALSE]
        /\ future' = [future EXCEPT ![t] = FALSE]
        /\ handle' = [handle EXCEPT ![t] = "gone"]
    BY <1>0, <1>8 DEF ScheduleNew
  <2>2. /\ ~Entry(t)'
        /\ \A u \in Tasks : u # t => (Entry(u)' <=> Entry(u))
    BY <1>same, <1>1, <1>2, <1>3, <1>4, <1>5, <2>1 DEF Entry
  <2>3. QueueGroups' /\ UniqueEntry'
    BY <1>inv, <1>same, <1>2, <1>3, <2>1 DEF EntryInv, UniqueEntry, Procs
  <2>4. PollingTask'
    BY <1>inv, <1>1, <1>6, <2>1 DEF TypeOK, EntryInv, PollingTask
  <2>5. QueuedFlag' /\ WakeQueued'
    <3>1. ~accepting'
      BY <1>6, <1>8
    <3>2. \A u \in Tasks : u # t => /\ queued'[u] = queued[u]
                                   /\ future'[u] = future[u]
                                   /\ polling'[u] = polling[u]
      BY <1>inv, <1>6, <2>1 DEF TypeOK
    <3> QED
      BY <1>inv, <2>2, <3>1, <3>2 DEF EntryInv, QueuedFlag, WakeQueued
  <2>6. Fresh'
    <3>1. handle[t] # "unspawned"
      BY <1>inv, <1>1 DEF EntryInv, Fresh, Entry
    <3>2. handle'[t] # "unspawned"
      BY <1>inv, <1>1, <2>1, <3>1 DEF TypeOK
    <3>3. \A u \in Tasks : u # t => /\ handle'[u] = handle[u]
                                   /\ future'[u] = future[u]
                                   /\ polling'[u] = polling[u]
      BY <1>inv, <1>6, <2>1 DEF TypeOK
    <3> QED
      BY <1>inv, <2>2, <3>2, <3>3 DEF EntryInv, Fresh
  <2> QED
    BY <2>3, <2>4, <2>5, <2>6 DEF EntryInv
<1> QED
  BY <1>7, <1>8

\* The entries after schedule_existing.
LEMMA EntryScheduleExisting ==
    ASSUME TypeInv, EntryInv, NEW p \in Procs, ScheduleExisting(p)
    PROVE  EntryInv'
<1> USE ConstantsAssumption
<1>inv. TypeOK /\ CallTask /\ CurrentTask /\ EntryInv
  BY DEF TypeInv
<1>same. queue' = queue => /\ QueueGroups'
                          /\ \A u \in Tasks : /\ InQueue(u)' <=> InQueue(u)
                                              /\ OnePosition(u)' <=> OnePosition(u)
  BY SameEntries DEF EntryInv
<1>0. PICK t \in Tasks : t = arg[p]
  BY <1>inv DEF ScheduleExisting, CallTask
<1>1. t \in Tasks /\ Pushing(p, t)
  BY <1>0 DEF ScheduleExisting, Pushing
<1>2. \A u \in Tasks : Popped(u)' <=> Popped(u)
  BY DEF ScheduleExisting, loopVars, Popped
<1>3. \A r \in Procs, u \in Tasks : Pushing(r, u)' <=> Pushing(r, u) /\ r # p
  BY <1>inv, SMT DEF ScheduleExisting, Goto, Return, Call, TypeOK, Pushing
<1>4. ~InQueue(t) /\ ~Popped(t) /\ \A r \in Procs : r # p => ~Pushing(r, t)
  BY <1>inv, <1>1 DEF EntryInv, UniqueEntry, Procs
<1>5. \A u \in Tasks : u # t => ~Pushing(p, u)
  BY <1>0 DEF Pushing
<1>6. UNCHANGED <<accepting, polling, rpc, cur, wake_due>>
  BY DEF ScheduleExisting, loopVars
<1>7. CASE accepting
  <2>1. push_back(t) /\ UNCHANGED <<future, queued, handle>>
    BY <1>0, <1>7 DEF ScheduleExisting
  <2>2. /\ QueueGroups'
        /\ \A u \in Tasks : /\ InQueue(u)' <=> InQueue(u) \/ u = t
                            /\ OnePosition(u) /\ (u = t => ~InQueue(u)) => OnePosition(u)'
    BY <1>inv, <1>1, <2>1, PushEntries DEF TypeOK, EntryInv
  <2>3. \A u \in Tasks : Entry(u)' <=> Entry(u)
    BY <1>1, <1>2, <1>3, <1>5, <2>2 DEF Entry, Procs
  <2>4. UniqueEntry'
    BY <1>inv, <1>1, <1>2, <1>3, <1>4, <2>2, SMT DEF EntryInv, UniqueEntry, Procs
  <2>5. PollingTask' /\ QueuedFlag' /\ Fresh' /\ WakeQueued'
    BY <1>inv, <1>6, <2>1, <2>3 DEF EntryInv, PollingTask, QueuedFlag, Fresh, WakeQueued
  <2> QED
    BY <2>2, <2>4, <2>5 DEF EntryInv
<1>8. CASE ~accepting
  <2>1. /\ queue' = queue
        /\ queued' = [queued EXCEPT ![t] = FALSE]
        /\ UNCHANGED <<future, handle>>
    BY <1>0, <1>8 DEF ScheduleExisting
  <2>2. /\ ~Entry(t)'
        /\ \A u \in Tasks : u # t => (Entry(u)' <=> Entry(u))
    BY <1>same, <1>1, <1>2, <1>3, <1>4, <1>5, <2>1 DEF Entry
  <2>3. QueueGroups' /\ UniqueEntry'
    BY <1>inv, <1>same, <1>2, <1>3, <2>1 DEF EntryInv, UniqueEntry, Procs
  <2>4. PollingTask'
    BY <1>inv, <1>1, <1>6, <2>1 DEF TypeOK, EntryInv, PollingTask
  <2>5. QueuedFlag' /\ WakeQueued'
    <3>1. ~accepting'
      BY <1>6, <1>8
    <3>2. \A u \in Tasks : u # t => /\ queued'[u] = queued[u]
                                   /\ future'[u] = future[u]
                                   /\ polling'[u] = polling[u]
      BY <1>inv, <1>6, <2>1 DEF TypeOK
    <3> QED
      BY <1>inv, <2>2, <3>1, <3>2 DEF EntryInv, QueuedFlag, WakeQueued
  <2>6. Fresh'
    <3>1. handle[t] # "unspawned"
      BY <1>inv, <1>1 DEF EntryInv, Fresh, Entry
    <3>2. handle'[t] # "unspawned"
      BY <1>inv, <1>1, <2>1, <3>1 DEF TypeOK
    <3>3. \A u \in Tasks : u # t => /\ handle'[u] = handle[u]
                                   /\ future'[u] = future[u]
                                   /\ polling'[u] = polling[u]
      BY <1>inv, <1>6, <2>1 DEF TypeOK
    <3> QED
      BY <1>inv, <2>2, <3>2, <3>3 DEF EntryInv, Fresh
  <2> QED
    BY <2>3, <2>4, <2>5, <2>6 DEF EntryInv
<1> QED
  BY <1>7, <1>8

\* The entries after drop_future.
LEMMA EntryDropFuture ==
    ASSUME TypeInv, EntryInv, NEW t \in Tasks, DropFuture(t)
    PROVE  EntryInv'
<1> USE ConstantsAssumption
<1>inv. TypeOK /\ CallTask /\ CurrentTask /\ EntryInv
  BY DEF TypeInv
<1>1. queue' = queue /\ \A u \in Tasks : Popped(u)' <=> Popped(u)
  BY DEF DropFuture, schedVars, loopVars, Popped
<1>2. \A r \in Procs, u \in Tasks : Pushing(r, u)' <=> Pushing(r, u)
  BY DEF DropFuture, callVars, Pushing
<1>3. QueueGroups' /\ UniqueEntry' /\ \A u \in Tasks : Entry(u)' <=> Entry(u)
  BY <1>inv, <1>1, <1>2, SameUnique
<1>4. /\ UNCHANGED <<accepting, polling, rpc, cur, wake_due, handle>>
      /\ rpc = "closing"
      /\ \A u \in Tasks : u # t => future'[u] = future[u] /\ queued'[u] = queued[u]
      /\ ~future'[t]
  BY <1>inv DEF DropFuture, loopVars, TypeOK
<1>5. \A u \in Tasks : ~polling[u]
  BY <1>inv, <1>4 DEF EntryInv, PollingTask
<1>6. PollingTask'
  BY <1>inv, <1>4, <1>5 DEF EntryInv, PollingTask
<1>7. QueuedFlag' /\ Fresh' /\ WakeQueued'
  BY <1>inv, <1>3, <1>4, <1>5 DEF EntryInv, QueuedFlag, Fresh, WakeQueued
<1> QED
  BY <1>3, <1>6, <1>7 DEF EntryInv

\* The entries after next_task.
LEMMA EntryNextTask ==
    ASSUME TypeInv, EntryInv, NextTask
    PROVE  EntryInv'
<1> USE ConstantsAssumption
<1>inv. TypeOK /\ CallTask /\ CurrentTask /\ EntryInv
  BY DEF TypeInv
<1>1. PICK g \in Groups : /\ queue[g] # <<>>
                          /\ cur' = Head(queue[g])
                          /\ queue' = [queue EXCEPT ![g] = Tail(@)]
  BY DEF NextTask
<1>2. /\ QueueGroups'
      /\ cur' \in Tasks
      /\ InQueue(cur')
      /\ \A u \in Tasks : /\ InQueue(u)' <=> InQueue(u) /\ u # cur'
                          /\ OnePosition(u)'
  BY <1>inv, <1>1, PopEntries DEF TypeOK, EntryInv, UniqueEntry
<1>3. \A u \in Tasks : ~Popped(u) /\ (Popped(u)' <=> u = cur')
  BY DEF NextTask, Popped
<1>4. \A r \in Procs, u \in Tasks : Pushing(r, u)' <=> Pushing(r, u)
  BY DEF NextTask, callVars, Pushing
<1>5. \A u \in Tasks : Entry(u)' <=> Entry(u)
  BY <1>2, <1>3, <1>4 DEF Entry, Procs
<1>6. UniqueEntry'
  BY <1>inv, <1>2, <1>3, <1>4 DEF EntryInv, UniqueEntry, Procs
<1>7. PollingTask'
  BY <1>inv DEF NextTask, taskVars, EntryInv, PollingTask
<1>8. QueuedFlag' /\ Fresh' /\ WakeQueued'
  BY <1>inv, <1>5 DEF NextTask, taskVars, EntryInv, QueuedFlag, Fresh, WakeQueued
<1> QED
  BY <1>2, <1>6, <1>7, <1>8 DEF EntryInv

\* The entries after take_future_for_poll.
LEMMA EntryTakeFuture ==
    ASSUME TypeInv, EntryInv, TakeFuture
    PROVE  EntryInv'
<1> USE ConstantsAssumption
<1>inv. TypeOK /\ CallTask /\ CurrentTask /\ EntryInv
  BY DEF TypeInv
<1>same. queue' = queue => /\ QueueGroups'
                          /\ \A u \in Tasks : /\ InQueue(u)' <=> InQueue(u)
                                              /\ OnePosition(u)' <=> OnePosition(u)
  BY SameEntries DEF EntryInv
<1>0. PICK c \in Tasks : c = cur
  BY <1>inv DEF TakeFuture, CurrentTask
<1>1. /\ queue' = queue /\ pc' = pc /\ arg' = arg /\ handle' = handle
      /\ accepting' = accepting /\ queued' = [queued EXCEPT ![c] = FALSE]
      /\ rpc = "take" /\ Popped(c)
  BY <1>0 DEF TakeFuture, schedVars, callVars, Popped
<1>2. \A u \in Tasks : ~Popped(u)'
  BY DEF TakeFuture, Popped
<1>3. \A r \in Procs, u \in Tasks : Pushing(r, u)' <=> Pushing(r, u)
  BY <1>1 DEF Pushing
<1>4. \A u \in Tasks : u # c => ~Popped(u)
  BY <1>0 DEF Popped
<1>5. ~InQueue(c) /\ \A r \in Procs : ~Pushing(r, c)
  BY <1>inv, <1>1 DEF EntryInv, UniqueEntry
<1>6. ~Entry(c)' /\ \A u \in Tasks : u # c => (Entry(u)' <=> Entry(u))
  BY <1>same, <1>1, <1>2, <1>3, <1>4, <1>5 DEF Entry
<1>7. QueueGroups' /\ UniqueEntry'
  BY <1>inv, <1>same, <1>1, <1>2, <1>3 DEF EntryInv, UniqueEntry
<1>8. \A u \in Tasks : ~polling[u]
  BY <1>inv, <1>1 DEF EntryInv, PollingTask
<1>9. /\ ~queued'[c]
      /\ \A u \in Tasks : u # c => queued'[u] = queued[u]
  BY <1>inv, <1>1 DEF TypeOK
<1>10. /\ \A u \in Tasks : u # c => /\ future'[u] = future[u]
                                    /\ wake_due'[u] = wake_due[u]
                                    /\ polling'[u] = polling[u]
       /\ ~future'[c]
       /\ polling'[c] => ~wake_due'[c]
       /\ \/ rpc' = "poll" /\ cur' = c /\ polling'[c]
          \/ rpc' = "next" /\ polling' = polling
  <2>1. CASE future[c]
    <3>1. /\ future' = [future EXCEPT ![c] = FALSE]
          /\ polling' = [polling EXCEPT ![c] = TRUE]
          /\ wake_due' = [wake_due EXCEPT ![c] = FALSE]
          /\ rpc' = "poll" /\ cur' = c
      BY <1>0, <2>1 DEF TakeFuture
    <3> QED
      BY <1>inv, <3>1 DEF TypeOK
  <2>2. CASE ~future[c]
    BY <1>inv, <1>0, <1>8, <2>2 DEF TakeFuture, TypeOK
  <2> QED
    BY <2>1, <2>2
<1>11. PollingTask'
  BY <1>8, <1>10 DEF PollingTask
<1>12. handle[c] # "unspawned"
  BY <1>inv, <1>1 DEF EntryInv, Fresh, Entry
<1>13. QueuedFlag' /\ Fresh' /\ WakeQueued'
  BY <1>inv, <1>1, <1>6, <1>8, <1>9, <1>10, <1>12
     DEF EntryInv, QueuedFlag, Fresh, WakeQueued
<1> QED
  BY <1>7, <1>11, <1>13 DEF EntryInv

\* The entries after finish_ready.
LEMMA EntryFinishReady ==
    ASSUME TypeInv, EntryInv, FinishReady
    PROVE  EntryInv'
<1> USE ConstantsAssumption
<1>inv. TypeOK /\ CallTask /\ CurrentTask /\ EntryInv
  BY DEF TypeInv
<1>1. queue' = queue /\ \A u \in Tasks : Popped(u)' <=> Popped(u)
  BY DEF FinishReady, schedVars, loopVars, Popped
<1>2. \A r \in Procs, u \in Tasks : Pushing(r, u)' <=> Pushing(r, u)
  BY DEF FinishReady, callVars, Pushing
<1>3. QueueGroups' /\ UniqueEntry' /\ \A u \in Tasks : Entry(u)' <=> Entry(u)
  BY <1>inv, <1>1, <1>2, SameUnique
<1>4. PICK c \in Tasks : c = cur
  BY <1>inv DEF FinishReady, CurrentTask
<1>5. /\ UNCHANGED <<future, queued, accepting, wake_due, handle>>
      /\ rpc = "finish_ready" /\ rpc' \notin {"poll", "finish_ready"}
      /\ \A u \in Tasks : u # c => polling'[u] = polling[u]
      /\ ~polling'[c]
  BY <1>inv, <1>4 DEF FinishReady, schedVars, TypeOK
<1>6. PollingTask'
  BY <1>inv, <1>4, <1>5 DEF EntryInv, PollingTask
<1>7. QueuedFlag' /\ Fresh' /\ WakeQueued'
  BY <1>inv, <1>3, <1>5 DEF EntryInv, QueuedFlag, Fresh, WakeQueued
<1> QED
  BY <1>3, <1>6, <1>7 DEF EntryInv

\* The entries after finish_pending.
LEMMA EntryPollPending ==
    ASSUME TypeInv, EntryInv, PollPending
    PROVE  EntryInv'
<1> USE ConstantsAssumption
<1>inv. TypeOK /\ CallTask /\ CurrentTask /\ EntryInv
  BY DEF TypeInv
<1>1. queue' = queue /\ \A u \in Tasks : Popped(u)' <=> Popped(u)
  BY DEF PollPending, schedVars, loopVars, Popped
<1>2. \A r \in Procs, u \in Tasks : Pushing(r, u)' <=> Pushing(r, u)
  BY DEF PollPending, callVars, Pushing
<1>3. QueueGroups' /\ UniqueEntry' /\ \A u \in Tasks : Entry(u)' <=> Entry(u)
  BY <1>inv, <1>1, <1>2, SameUnique
<1>4. PICK c \in Tasks : c = cur
  BY <1>inv DEF PollPending, CurrentTask
<1>5. /\ UNCHANGED <<queued, accepting, wake_due, handle>>
      /\ rpc = "poll" /\ rpc' \notin {"poll", "finish_ready"}
      /\ \A u \in Tasks : u # c => polling'[u] = polling[u] /\ future'[u] = future[u]
      /\ ~polling'[c]
  BY <1>inv, <1>4 DEF PollPending, schedVars, TypeOK
<1>6. polling[c] /\ handle[c] # "unspawned" /\ \A u \in Tasks : u # c => ~polling[u]
  BY <1>inv, <1>4, <1>5 DEF EntryInv, PollingTask, Fresh
<1>7. PollingTask'
  BY <1>5, <1>6 DEF PollingTask
<1>8. QueuedFlag' /\ Fresh' /\ WakeQueued'
  BY <1>inv, <1>3, <1>5, <1>6 DEF EntryInv, QueuedFlag, Fresh, WakeQueued
<1> QED
  BY <1>3, <1>7, <1>8 DEF EntryInv

\* The entries after finish_panicked.
LEMMA EntryPollPanic ==
    ASSUME TypeInv, EntryInv, PollPanic
    PROVE  EntryInv'
<1> USE ConstantsAssumption
<1>inv. TypeOK /\ CallTask /\ CurrentTask /\ EntryInv
  BY DEF TypeInv
<1>1. queue' = queue /\ \A u \in Tasks : Popped(u)' <=> Popped(u)
  BY DEF PollPanic, schedVars, loopVars, Popped
<1>2. \A r \in Procs, u \in Tasks : Pushing(r, u)' <=> Pushing(r, u)
  BY DEF PollPanic, callVars, Pushing
<1>3. QueueGroups' /\ UniqueEntry' /\ \A u \in Tasks : Entry(u)' <=> Entry(u)
  BY <1>inv, <1>1, <1>2, SameUnique
<1>4. PICK c \in Tasks : c = cur
  BY <1>inv DEF PollPanic, CurrentTask
<1>5. /\ UNCHANGED <<future, queued, accepting, wake_due, handle>>
      /\ rpc = "poll" /\ rpc' \notin {"poll", "finish_ready"}
      /\ \A u \in Tasks : u # c => polling'[u] = polling[u]
      /\ ~polling'[c]
  BY <1>inv, <1>4 DEF PollPanic, schedVars, TypeOK
<1>6. PollingTask'
  BY <1>inv, <1>4, <1>5 DEF EntryInv, PollingTask
<1>7. QueuedFlag' /\ Fresh' /\ WakeQueued'
  BY <1>inv, <1>3, <1>5 DEF EntryInv, QueuedFlag, Fresh, WakeQueued
<1> QED
  BY <1>3, <1>6, <1>7 DEF EntryInv

\* The entries after Scheduler::close.
LEMMA EntryClose ==
    ASSUME TypeInv, EntryInv, Close
    PROVE  EntryInv'
<1> USE ConstantsAssumption
<1>inv. TypeOK /\ CallTask /\ CurrentTask /\ EntryInv
  BY DEF TypeInv
<1>1. \A g \in Groups : queue'[g] = <<>>
  BY DEF Close
<1>2. QueueGroups' /\ \A u \in Tasks : ~InQueue(u)' /\ OnePosition(u)'
  BY <1>1, SMT DEF QueueGroups, InQueue, OnePosition
<1>3. \A u \in Tasks : ~Popped(u)'
  BY DEF Close, Popped
<1>4. \A r \in Procs, u \in Tasks : Pushing(r, u)' <=> Pushing(r, u)
  BY DEF Close, callVars, Pushing
<1>5. \A u \in Tasks : Entry(u)' => Entry(u)
  BY <1>2, <1>3, <1>4 DEF Entry, Procs
<1>6. UniqueEntry'
  BY <1>inv, <1>2, <1>3, <1>4 DEF EntryInv, UniqueEntry, Procs
<1>7. PollingTask'
  BY <1>inv DEF Close, taskVars, EntryInv, PollingTask
<1>8. QueuedFlag' /\ Fresh' /\ WakeQueued'
  BY <1>inv, <1>5 DEF Close, taskVars, EntryInv, QueuedFlag, Fresh, WakeQueued
<1> QED
  BY <1>2, <1>6, <1>7, <1>8 DEF EntryInv

\* Every operation and every run-loop step keeps entries unique and in step with the
\* queued flags.
LEMMA EntryStep == TypeInv /\ EntryInv /\ [Next]_vars => EntryInv'
<1> SUFFICES ASSUME TypeInv, EntryInv, [Next]_vars PROVE EntryInv'
  OBVIOUS
<1>1. ASSUME NEW p \in Threads, NEW t \in Tasks, Spawn(p, t) PROVE EntryInv'
  BY <1>1, EntrySpawn
<1>2. ASSUME NEW p \in Procs, NEW t \in Tasks, Wake(p, t) PROVE EntryInv'
  BY <1>2, EntryWake
<1>3. ASSUME NEW p \in Threads, NEW q \in Threads, CloneSpawner(p, q) PROVE EntryInv'
  BY <1>3, QuietLoop DEF CloneSpawner, taskVars, loopVars, callVars
<1>4. ASSUME NEW p \in Threads, DropSpawner(p) PROVE EntryInv'
  <2>1. /\ p \in Procs
        /\ UNCHANGED <<queue, future, queued, polling, wake_due, accepting, rpc, cur>>
    BY <1>4 DEF DropSpawner, taskVars, schedVars, loopVars, Procs
  <2>2. /\ \A r \in Procs : r # p => pc'[r] = pc[r] /\ arg'[r] = arg[r]
        /\ pc[p] \notin {"schedule_new", "schedule_existing"}
        /\ pc'[p] \notin {"schedule_new", "schedule_existing"}
        /\ \A u \in Tasks : handle'[u] = "unspawned" => handle[u] = "unspawned"
    BY <1>4, <2>1 DEF TypeInv, TypeOK, DropSpawner, MayCall, Goto
  <2> QED
    BY <2>1, <2>2, QuietCall
<1>5. ASSUME NEW p \in Threads, RequestStop(p) PROVE EntryInv'
  <2>1. /\ p \in Procs
        /\ UNCHANGED <<queue, future, queued, polling, wake_due, accepting, rpc, cur>>
    BY <1>5 DEF RequestStop, taskVars, schedVars, loopVars, Procs
  <2>2. /\ \A r \in Procs : r # p => pc'[r] = pc[r] /\ arg'[r] = arg[r]
        /\ pc[p] \notin {"schedule_new", "schedule_existing"}
        /\ pc'[p] \notin {"schedule_new", "schedule_existing"}
        /\ \A u \in Tasks : handle'[u] = "unspawned" => handle[u] = "unspawned"
    BY <1>5, <2>1 DEF TypeInv, TypeOK, RequestStop, MayCall, Goto
  <2> QED
    BY <2>1, <2>2, QuietCall
<1>6. ASSUME NEW p \in Procs, NEW t \in Tasks, NEW h \in {"open", "gone"}, Cancel(p, t, h) PROVE EntryInv'
  BY <1>6, EntryCancel
<1>7. ASSUME NEW t \in Tasks, Await(t) PROVE EntryInv'
  <2>1. UNCHANGED <<taskVars, schedVars, loopVars, callVars, handle, wake_due>>
    BY <1>7 DEF Await
  <2> QED
    BY <2>1, QuietLoop DEF taskVars, schedVars, loopVars, callVars
<1>8. ASSUME NEW p \in Procs, ScheduleNew(p) PROVE EntryInv'
  BY <1>8, EntryScheduleNew
<1>9. ASSUME NEW p \in Procs, ScheduleExisting(p) PROVE EntryInv'
  BY <1>9, EntryScheduleExisting
<1>10. ASSUME NEW p \in Procs, WakeSpawned(p) PROVE EntryInv'
  <2>1. /\ p \in Procs
        /\ UNCHANGED <<queue, future, queued, polling, wake_due, accepting, rpc, cur>>
    BY <1>10 DEF WakeSpawned, taskVars, schedVars, loopVars, Procs
  <2>2. /\ \A r \in Procs : r # p => pc'[r] = pc[r] /\ arg'[r] = arg[r]
        /\ pc[p] \notin {"schedule_new", "schedule_existing"}
        /\ pc'[p] \notin {"schedule_new", "schedule_existing"}
        /\ \A u \in Tasks : handle'[u] = "unspawned" => handle[u] = "unspawned"
    BY <1>10, <2>1 DEF TypeInv, TypeOK, WakeSpawned, Return, Call, Goto
  <2> QED
    BY <2>1, <2>2, QuietCall
<1>11. ASSUME NEW p \in Procs, WakeReactor(p) PROVE EntryInv'
  <2>1. /\ p \in Procs
        /\ UNCHANGED <<queue, future, queued, polling, wake_due, accepting, rpc, cur>>
    BY <1>11 DEF WakeReactor, taskVars, schedVars, loopVars, Procs
  <2>2. /\ \A r \in Procs : r # p => pc'[r] = pc[r] /\ arg'[r] = arg[r]
        /\ pc[p] \notin {"schedule_new", "schedule_existing"}
        /\ pc'[p] \notin {"schedule_new", "schedule_existing"}
        /\ \A u \in Tasks : handle'[u] = "unspawned" => handle[u] = "unspawned"
    BY <1>11, <2>1 DEF TypeInv, TypeOK, WakeReactor, Return, Call, Goto
  <2> QED
    BY <2>1, <2>2, QuietCall
<1>12. ASSUME NEW p \in Procs, FinishTask(p) PROVE EntryInv'
  <2>1. /\ p \in Procs
        /\ UNCHANGED <<queue, future, queued, polling, wake_due, accepting, rpc, cur>>
    BY <1>12 DEF FinishTask, taskVars, schedVars, loopVars, Procs
  <2>2. /\ \A r \in Procs : r # p => pc'[r] = pc[r] /\ arg'[r] = arg[r]
        /\ pc[p] \notin {"schedule_new", "schedule_existing"}
        /\ pc'[p] \notin {"schedule_new", "schedule_existing"}
        /\ \A u \in Tasks : handle'[u] = "unspawned" => handle[u] = "unspawned"
    BY <1>12, <2>1 DEF TypeInv, TypeOK, FinishTask, Goto
  <2> QED
    BY <2>1, <2>2, QuietCall
<1>13. ASSUME NEW p \in Procs, AbortWake(p) PROVE EntryInv'
  <2>1. /\ p \in Procs
        /\ UNCHANGED <<queue, future, queued, polling, wake_due, accepting, rpc, cur>>
    BY <1>13 DEF AbortWake, taskVars, schedVars, loopVars, Procs
  <2>2. /\ \A r \in Procs : r # p => pc'[r] = pc[r] /\ arg'[r] = arg[r]
        /\ pc[p] \notin {"schedule_new", "schedule_existing"}
        /\ pc'[p] \notin {"schedule_new", "schedule_existing"}
        /\ \A u \in Tasks : handle'[u] = "unspawned" => handle[u] = "unspawned"
    BY <1>13, <2>1 DEF TypeInv, TypeOK, AbortWake, Goto
  <2> QED
    BY <2>1, <2>2, QuietCall
<1>14. ASSUME NEW p \in Procs, AbortJoin(p) PROVE EntryInv'
  <2>1. /\ p \in Procs
        /\ UNCHANGED <<queue, future, queued, polling, wake_due, accepting, rpc, cur>>
    BY <1>14 DEF AbortJoin, taskVars, schedVars, loopVars, Procs
  <2>2. /\ \A r \in Procs : r # p => pc'[r] = pc[r] /\ arg'[r] = arg[r]
        /\ pc[p] \notin {"schedule_new", "schedule_existing"}
        /\ pc'[p] \notin {"schedule_new", "schedule_existing"}
        /\ \A u \in Tasks : handle'[u] = "unspawned" => handle[u] = "unspawned"
    BY <1>14, <2>1 DEF TypeInv, TypeOK, AbortJoin, Return, Call, Goto
  <2> QED
    BY <2>1, <2>2, QuietCall
<1>15. ASSUME NEW t \in Tasks, DropFuture(t) PROVE EntryInv'
  BY <1>15, EntryDropFuture
<1>16. CASE NextTask
  BY <1>16, EntryNextTask
<1>17. CASE TakeFuture
  BY <1>17, EntryTakeFuture
<1>18. CASE FinishReady
  BY <1>18, EntryFinishReady
<1>19. CASE PollPending
  BY <1>19, EntryPollPending
<1>20. CASE PollPanic
  BY <1>20, EntryPollPanic
<1>21. CASE Close
  BY <1>21, EntryClose
<1>22. CASE BatchDone
  BY <1>22, QuietLoop DEF BatchDone, taskVars, schedVars, callVars
<1>23. CASE PanicHandler
  BY <1>23, QuietLoop DEF PanicHandler, taskVars, schedVars, callVars
<1>24. CASE FinishPolled
  BY <1>24, QuietLoop DEF FinishPolled, taskVars, schedVars, callVars
<1>25. CASE TimersDone
  BY <1>25, QuietLoop DEF TimersDone, taskVars, schedVars, callVars
<1>26. CASE CheckExit
  BY <1>26, QuietLoop DEF CheckExit, taskVars, schedVars, callVars
<1>27. CASE CheckReady
  BY <1>27, QuietLoop DEF CheckReady, taskVars, schedVars, callVars
<1>28. CASE WaitWoken
  BY <1>28, QuietLoop DEF WaitWoken, taskVars, schedVars, callVars
<1>29. CASE EventsDone
  BY <1>29, QuietLoop DEF EventsDone, taskVars, schedVars, callVars
<1>30. CASE Closed
  BY <1>30, QuietLoop DEF Closed, taskVars, schedVars, callVars
<1>31. CASE PollReady
  BY <1>31, QuietLoop DEF PollReady, taskVars, schedVars, callVars
<1>32. CASE WaitEvent
  BY <1>32, QuietLoop DEF WaitEvent, taskVars, schedVars, callVars
<1>33. CASE UNCHANGED vars
  BY <1>33, QuietLoop DEF vars, taskVars, schedVars, loopVars, callVars
<1> QED
  BY <1>1, <1>2, <1>3, <1>4, <1>5, <1>6, <1>7, <1>8, <1>9, <1>10, <1>11, <1>12, <1>13, <1>14,
     <1>15, <1>16, <1>17, <1>18, <1>19, <1>20, <1>21, <1>22,
     <1>23, <1>24, <1>25, <1>26, <1>27, <1>28, <1>29, <1>30, <1>31, <1>32, <1>33
  DEF Next, CallStep, RunStep, PollReturn, Abort, DropHandle

-----------------------------------------------------------------------------
\* The executor's state keeps its types in every reachable state: the task flags, the
\* queues, and the program points of threads and run loop.
THEOREM TypeCorrect == Spec => []TypeOK
<1>1. Init => TypeInv
  BY TypeInit
<1>2. TypeInv /\ [Next]_vars => TypeInv'
  BY TypeStep
<1>3. TypeInv => TypeOK
  BY DEF TypeInv
<1> QED
  BY <1>1, <1>2, <1>3, PTL DEF Spec

\* Types and queue entries together, the invariant the theorems below rest on.
LEMMA EntriesAlways == Spec => [](TypeInv /\ EntryInv)
<1>1. Init => TypeInv /\ EntryInv
  BY TypeInit, EntryInit
<1>2. TypeInv /\ EntryInv /\ [Next]_vars => TypeInv' /\ EntryInv'
  BY TypeStep, EntryStep
<1> QED
  BY <1>1, <1>2, PTL DEF Spec

\* However many threads wake a task, and however often, it has at most one ready entry
\* (Task::mark_queued, SchedulerTaskSet::schedule_existing and next_task).
THEOREM WakeupsCoalesce == Spec => []UniqueEntry
<1>1. EntryInv => UniqueEntry
  BY DEF EntryInv
<1> QED
  BY <1>1, EntriesAlways, PTL

\* No wakeup of a pending task is lost, even one that arrives while the task is being
\* polled (Task::wake against TaskState::finish_pending).
THEOREM NoLostWakeup == Spec => []WakeNotLost
<1>1. EntryInv => WakeNotLost
  BY DEF EntryInv, QueuedFlag, WakeQueued, WakeNotLost
<1> QED
  BY <1>1, EntriesAlways, PTL

\* The run loop never blocks in the reactor over ready tasks, a drained executor or a
\* stop request without a wake on its way (Executor::run_until, Scheduler::wake_reactor).
THEOREM NoLostReactorWake == Spec => []NoSleepThroughWork
<1>1. Init => TypeInv /\ AwakeInv
  BY TypeInit, AwakeInit
<1>2. TypeInv /\ AwakeInv /\ [Next]_vars => TypeInv' /\ AwakeInv'
  BY TypeStep, AwakeStep
<1>3. AwakeInv => NoSleepThroughWork
  BY DEF AwakeInv, NoSleepThroughWork
<1> QED
  BY <1>1, <1>2, <1>3, PTL DEF Spec

-----------------------------------------------------------------------------
(* Join handles *)

\* Once the executor is being dropped it accepts nothing.
CloseInv == accepting => rpc # "closing"

\* t has its result, or nothing will give it one after the call that is under way.
Ended(t) == completed[t] \/ cancel_requested[t] \/ (rpc = "finish_ready" /\ cur = t)

\* Only a joinable task is awaited, and only until it has a result; a task that ended has a
\* result or is getting it, unless its awaiter has it already.
JoinInv ==
    \A t \in Tasks :
      /\ handle[t] = "open" => t \in Joinable
      /\ join_waker[t] => t \in Joinable /\ join_result[t] = "none" /\ outcome[t] = "none"
      /\ (/\ accepting /\ t \in Joinable /\ Ended(t)
          /\ join_result[t] = "none" /\ outcome[t] = "none") => Completing(t)

CompletingCalls == {"finish_task", "abort_wake", "abort_join"}

\* A call of p that completes no join, or goes on completing one, leaves the others alone.
LEMMA CompletingKept ==
    ASSUME NEW p \in Procs, UNCHANGED <<rpc, cur>>,
           \A r \in Procs : r # p => pc'[r] = pc[r] /\ arg'[r] = arg[r],
           pc[p] \notin CompletingCalls \/ (pc'[p] \in CompletingCalls /\ arg'[p] = arg[p])
    PROVE  \A t \in Tasks : Completing(t) => Completing(t)'
BY DEF Completing, CompletingCalls

\* A step that stores and takes no result keeps the invariant if it ends no task, or is
\* about to complete its join.
LEMMA JoinQuiet ==
    ASSUME JoinInv, UNCHANGED <<join_result, join_waker, outcome>>, accepting' => accepting,
           \A t \in Tasks : handle'[t] = "open" => t \in Joinable,
           \A t \in Tasks : Completing(t) => Completing(t)',
           \A t \in Tasks : accepting' /\ Ended(t)' => Ended(t) \/ Completing(t)'
    PROVE  JoinInv'
BY DEF JoinInv

\* complete_join stores the first result and takes the waker.
LEMMA JoinStored ==
    ASSUME TypeOK, JoinInv, NEW t \in Tasks, NEW r \in {"ok", "canceled", "panic"}, complete_join(t, r),
           UNCHANGED <<outcome, handle, accepting>>,
           \A u \in Tasks \ {t} : (Completing(u) => Completing(u)') /\ (Ended(u)' => Ended(u))
    PROVE  JoinInv'
<1>1. CASE t \in Joinable /\ join_result[t] = "none"
  <2>1. /\ join_result'[t] = r /\ ~join_waker'[t]
        /\ \A u \in Tasks \ {t} : join_result'[u] = join_result[u] /\ join_waker'[u] = join_waker[u]
    BY <1>1 DEF complete_join, TypeOK
  <2>2. QED
    BY <2>1 DEF JoinInv
<1>2. CASE ~(t \in Joinable /\ join_result[t] = "none")
  <2>1. UNCHANGED <<join_result, join_waker>>
    BY <1>2 DEF complete_join
  <2>2. QED
    BY <1>2, <2>1 DEF JoinInv
<1>3. QED
  BY <1>1, <1>2

\* A step of a call that ends no task and completes no join.
LEMMA JoinCall ==
    ASSUME JoinInv, NEW p \in Procs, UNCHANGED <<rpc, cur, joinVars, completed, cancel_requested>>,
           accepting' => accepting, \A t \in Tasks : handle'[t] = "open" => t \in Joinable,
           \A r \in Procs : r # p => pc'[r] = pc[r] /\ arg'[r] = arg[r],
           pc[p] \notin CompletingCalls \/ (pc'[p] \in CompletingCalls /\ arg'[p] = arg[p])
    PROVE  JoinInv'
<1>1. \A t \in Tasks : Completing(t) => Completing(t)'
  BY CompletingKept
<1>2. \A t \in Tasks : Ended(t)' <=> Ended(t)
  BY DEF Ended
<1>3. QED
  BY <1>1, <1>2, JoinQuiet DEF joinVars

\* A step of the run loop that ends no task and completes no join.
LEMMA JoinLoop ==
    ASSUME JoinInv, UNCHANGED <<callVars, joinVars, handle, completed, cancel_requested>>,
           accepting' => accepting, rpc # "panic_handler", rpc' # "finish_ready"
    PROVE  JoinInv'
<1>1. \A t \in Tasks : Completing(t) => Completing(t)'
  BY DEF Completing, callVars
<1>2. \A t \in Tasks : Ended(t)' => Ended(t)
  BY DEF Ended
<1>3. \A t \in Tasks : handle'[t] = "open" => t \in Joinable
  BY DEF JoinInv
<1>4. QED
  BY <1>1, <1>2, <1>3, JoinQuiet DEF joinVars

\* Aborting or dropping a handle ends its task, or asks the poll under way to end it, and
\* goes on to complete its join (Task::cancel).
LEMMA JoinCancel ==
    ASSUME TypeInv, JoinInv, NEW p \in Procs, NEW t \in Tasks, NEW h \in {"open", "gone"},
           Cancel(p, t, h)
    PROVE  JoinInv'
<1>1. /\ UNCHANGED <<rpc, cur, accepting, joinVars>> /\ pc[p] = "idle" /\ handle[t] = "open"
      /\ handle' = [handle EXCEPT ![t] = h]
  BY DEF Cancel, MayCall, schedVars, loopVars
<1>2. \A u \in Tasks : handle'[u] = "open" => u \in Joinable
  BY <1>1 DEF JoinInv, TypeInv, TypeOK
<1>3. CASE UNCHANGED <<taskVars, callVars>>
  BY <1>1, <1>2, <1>3, JoinCall DEF taskVars, callVars, CompletingCalls
<1>4. CASE /\ Call(p, "abort_wake", t) \/ Call(p, "finish_task", t)
           /\ cancel_requested' = [cancel_requested EXCEPT ![t] = TRUE]
           /\ completed' = completed \/ completed' = [completed EXCEPT ![t] = TRUE]
  <2>1. /\ pc'[p] \in CompletingCalls /\ arg'[p] = t
        /\ \A r \in Procs : r # p => pc'[r] = pc[r] /\ arg'[r] = arg[r]
    BY <1>4 DEF Call, Goto, CompletingCalls, TypeInv, TypeOK
  <2>2. \A u \in Tasks : Completing(u) => Completing(u)'
    BY <1>1, <2>1, CompletingKept DEF CompletingCalls
  <2>3. Completing(t)'
    BY <2>1 DEF Completing, CompletingCalls
  <2>4. \A u \in Tasks \ {t} : Ended(u)' => Ended(u)
    BY <1>1, <1>4 DEF Ended, TypeInv, TypeOK
  <2>5. QED
    BY <1>1, <1>2, <2>2, <2>3, <2>4, JoinQuiet DEF joinVars
<1>5. QED
  BY <1>3, <1>4 DEF Cancel

\* Awaiting a handle takes the result or leaves a waker (Future for JoinHandle).
LEMMA JoinAwait ==
    ASSUME TypeInv, JoinInv, NEW t \in Tasks, Await(t)
    PROVE  JoinInv'
<1>1. /\ UNCHANGED <<rpc, cur, pc, arg, handle, accepting, completed, cancel_requested>>
      /\ handle[t] = "open" /\ outcome[t] = "none"
  BY DEF Await, taskVars, schedVars, loopVars, callVars
<1>2. \A u \in Tasks : (Completing(u)' <=> Completing(u)) /\ (Ended(u)' <=> Ended(u))
  BY <1>1 DEF Completing, Ended
<1>3. CASE join_result[t] # "none"
  <2>1. /\ UNCHANGED join_waker /\ outcome'[t] # "none"
        /\ \A u \in Tasks \ {t} : outcome'[u] = outcome[u] /\ join_result'[u] = join_result[u]
    BY <1>3 DEF Await, TypeInv, TypeOK
  <2>2. QED
    BY <1>1, <1>2, <1>3, <2>1 DEF JoinInv
<1>4. CASE join_result[t] = "none"
  <2>1. /\ UNCHANGED <<outcome, join_result>>
        /\ \A u \in Tasks \ {t} : join_waker'[u] = join_waker[u]
    BY <1>4 DEF Await, TypeInv, TypeOK
  <2>2. QED
    BY <1>1, <1>2, <1>4, <2>1 DEF JoinInv
<1>5. QED
  BY <1>3, <1>4

\* An abort is over when it has completed the join.
LEMMA JoinAbort ==
    ASSUME TypeInv, JoinInv, NEW p \in Procs, AbortJoin(p)
    PROVE  JoinInv'
<1>1. arg[p] \in Tasks /\ pc[p] = "abort_join"
  BY DEF AbortJoin, TypeInv, CallTask
<1>2. /\ UNCHANGED <<rpc, cur, outcome, handle, accepting, completed, cancel_requested>>
      /\ complete_join(arg[p], "canceled")
      /\ \A r \in Procs : r # p => pc'[r] = pc[r] /\ arg'[r] = arg[r]
  BY DEF AbortJoin, Return, Call, Goto, taskVars, schedVars, loopVars, TypeInv, TypeOK
<1>3. \A u \in Tasks \ {arg[p]} : (Completing(u) => Completing(u)') /\ (Ended(u)' => Ended(u))
  BY <1>1, <1>2 DEF Completing, Ended
<1>4. QED
  BY <1>1, <1>2, <1>3, JoinStored DEF TypeInv

\* The poll of a joinable task that is ready, or panics, completes its join on the way out.
LEMMA JoinPolled ==
    ASSUME TypeInv, JoinInv, PollReady \/ PanicHandler
    PROVE  JoinInv'
<1>1. /\ cur \in Tasks /\ rpc \in {"poll", "panic_handler"} /\ rpc' \in {"finish_ready", "finish_task"}
      /\ UNCHANGED <<cur, pc, arg, outcome, handle, accepting, completed, cancel_requested>>
      /\ complete_join(cur, "ok") \/ complete_join(cur, "panic")
  BY DEF PollReady, PanicHandler, taskVars, schedVars, callVars, TypeInv, CurrentTask
<1>2. \A u \in Tasks \ {cur} : (Completing(u) => Completing(u)') /\ (Ended(u)' => Ended(u))
  BY <1>1 DEF Completing, Ended
<1>3. QED
  BY <1>1, <1>2, JoinStored DEF TypeInv

\* A poll that is over has ended its task only where the join is completed, or is being.
LEMMA JoinFinish ==
    ASSUME TypeInv, JoinInv, FinishReady \/ PollPending \/ PollPanic
    PROVE  JoinInv'
<1>1. /\ cur \in Tasks /\ rpc \in {"finish_ready", "poll"} /\ rpc' # "finish_ready"
      /\ UNCHANGED <<pc, arg, joinVars, handle, accepting, cancel_requested>>
      /\ \/ UNCHANGED completed
         \/ completed' = [completed EXCEPT ![cur] = TRUE]
      /\ \/ completed' = completed
         \/ rpc = "finish_ready"
         \/ cancel_requested[cur]
         \/ rpc' = "panic_handler" /\ cur' = cur
  BY DEF FinishReady, PollPending, PollPanic, schedVars, callVars, TypeInv, CurrentTask
<1>2. \A u \in Tasks : Completing(u) => Completing(u)'
  BY <1>1 DEF Completing
<1>3. \A u \in Tasks : Ended(u)' => Ended(u) \/ Completing(u)'
  <2>1. \A u \in Tasks \ {cur} : completed'[u] = completed[u]
    BY <1>1 DEF TypeInv, TypeOK
  <2>2. Ended(cur) \/ Completing(cur)' \/ completed' = completed
    BY <1>1 DEF Ended, Completing
  <2>3. QED
    BY <1>1, <2>1, <2>2 DEF Ended
<1>4. \A u \in Tasks : handle'[u] = "open" => u \in Joinable
  BY <1>1 DEF JoinInv
<1>5. QED
  BY <1>1, <1>2, <1>3, <1>4, JoinQuiet DEF joinVars

\* What the drop of the executor does to tasks is nothing awaiters may rely on.
LEMMA JoinDrop ==
    ASSUME JoinInv, CloseInv, NEW t \in Tasks, DropFuture(t)
    PROVE  JoinInv'
<1>1. /\ ~accepting' /\ UNCHANGED <<handle, join_result, join_waker, outcome>>
      /\ UNCHANGED <<rpc, cur, pc, arg>>
  BY DEF DropFuture, CloseInv, loopVars, callVars, joinVars
<1>2. QED
  BY <1>1 DEF JoinInv

\* Being dropped follows the end of the run loop.
LEMMA CloseStep == CloseInv /\ [Next]_vars => CloseInv'
<1> SUFFICES ASSUME CloseInv, [Next]_vars PROVE CloseInv'
  OBVIOUS
<1>1. accepting' => accepting
  BY DEF Next, Spawn, Wake, CloneSpawner, DropSpawner, RequestStop, Abort, DropHandle, Cancel, Await,
         CallStep, ScheduleNew, WakeSpawned, ScheduleExisting, WakeReactor, FinishTask, AbortWake,
         AbortJoin, RunStep, PollReturn, vars, schedVars, NextTask, BatchDone, TakeFuture, FinishReady,
         PanicHandler, FinishPolled, TimersDone, CheckExit, CheckReady, WaitWoken, EventsDone,
         Close, DropFuture, Closed, PollReady, PollPending, PollPanic, WaitEvent
<1>2. rpc' = "closing" => rpc = "closing" \/ Close
  BY DEF Next, Spawn, Wake, CloneSpawner, DropSpawner, RequestStop, Abort, DropHandle, Cancel, Await,
         CallStep, ScheduleNew, WakeSpawned, ScheduleExisting, WakeReactor, FinishTask, AbortWake,
         AbortJoin, RunStep, PollReturn, vars, loopVars, NextTask, BatchDone, TakeFuture, FinishReady,
         PanicHandler, FinishPolled, TimersDone, CheckExit, CheckReady, WaitWoken, EventsDone,
         DropFuture, Closed, PollReady, PollPending, PollPanic, WaitEvent
<1>3. QED
  BY <1>1, <1>2 DEF CloseInv, Close

\* Every operation and every run-loop step keeps the join states in step with the tasks.
LEMMA JoinStep == TypeInv /\ CloseInv /\ JoinInv /\ [Next]_vars => JoinInv'
<1> SUFFICES ASSUME TypeInv, CloseInv, JoinInv, [Next]_vars PROVE JoinInv'
  OBVIOUS
<1>h. \A t \in Tasks : handle[t] = "open" => t \in Joinable
  BY DEF JoinInv
<1>1. ASSUME NEW p \in Threads, NEW t \in Tasks, Spawn(p, t) PROVE JoinInv'
  <2>1. /\ p \in Procs /\ pc[p] \notin CompletingCalls
        /\ UNCHANGED <<rpc, cur, joinVars, completed, cancel_requested, accepting>>
    BY <1>1 DEF Spawn, MayCall, schedVars, loopVars, CompletingCalls, Procs
  <2>2. /\ \A r \in Procs : r # p => pc'[r] = pc[r] /\ arg'[r] = arg[r]
        /\ \A u \in Tasks : handle'[u] = "open" => u \in Joinable
    BY <1>h, <1>1 DEF TypeInv, TypeOK, Spawn, Call, Goto
  <2> QED
    BY <2>1, <2>2, JoinCall
<1>2. ASSUME NEW p \in Procs, NEW t \in Tasks, Wake(p, t) PROVE JoinInv'
  <2>1. /\ pc[p] \notin CompletingCalls
        /\ UNCHANGED <<rpc, cur, joinVars, completed, cancel_requested, accepting, handle>>
    BY <1>2 DEF Wake, MayWake, schedVars, loopVars, CompletingCalls
  <2>2. \A r \in Procs : r # p => pc'[r] = pc[r] /\ arg'[r] = arg[r]
    BY <1>2 DEF TypeInv, TypeOK, Wake, Call, Goto, callVars
  <2> QED
    BY <1>h, <2>1, <2>2, JoinCall
<1>3. ASSUME NEW p \in Threads, NEW q \in Threads, CloneSpawner(p, q) PROVE JoinInv'
  BY <1>h, <1>3, JoinCall DEF CloneSpawner, MayCall, taskVars, loopVars, callVars, CompletingCalls, Procs
<1>4. ASSUME NEW p \in Threads, DropSpawner(p) PROVE JoinInv'
  <2>1. /\ p \in Procs /\ pc[p] \notin CompletingCalls
        /\ UNCHANGED <<rpc, cur, joinVars, completed, cancel_requested, accepting, handle>>
    BY <1>4 DEF DropSpawner, MayCall, taskVars, loopVars, CompletingCalls, Procs
  <2>2. \A r \in Procs : r # p => pc'[r] = pc[r] /\ arg'[r] = arg[r]
    BY <1>4 DEF TypeInv, TypeOK, DropSpawner, Goto
  <2> QED
    BY <1>h, <2>1, <2>2, JoinCall
<1>5. ASSUME NEW p \in Threads, RequestStop(p) PROVE JoinInv'
  <2>1. /\ p \in Procs /\ pc[p] \notin CompletingCalls
        /\ UNCHANGED <<rpc, cur, joinVars, completed, cancel_requested, accepting, handle>>
    BY <1>5 DEF RequestStop, MayCall, taskVars, loopVars, CompletingCalls, Procs
  <2>2. \A r \in Procs : r # p => pc'[r] = pc[r] /\ arg'[r] = arg[r]
    BY <1>5 DEF TypeInv, TypeOK, RequestStop, Goto
  <2> QED
    BY <1>h, <2>1, <2>2, JoinCall
<1>6. ASSUME NEW p \in Procs, NEW t \in Tasks, NEW h \in {"open", "gone"}, Cancel(p, t, h) PROVE JoinInv'
  BY <1>6, JoinCancel
<1>7. ASSUME NEW t \in Tasks, Await(t) PROVE JoinInv'
  BY <1>7, JoinAwait
<1>8. ASSUME NEW p \in Procs, ScheduleNew(p) \/ ScheduleExisting(p) \/ WakeSpawned(p) \/ WakeReactor(p)
      PROVE  JoinInv'
  <2>1. /\ pc[p] \notin CompletingCalls
        /\ UNCHANGED <<rpc, cur, joinVars, completed, cancel_requested, accepting>>
    BY <1>8 DEF ScheduleNew, ScheduleExisting, WakeSpawned, WakeReactor, taskVars, schedVars, loopVars,
       CompletingCalls
  <2>2. \A r \in Procs : r # p => pc'[r] = pc[r] /\ arg'[r] = arg[r]
    BY <1>8 DEF TypeInv, TypeOK, ScheduleNew, ScheduleExisting, WakeSpawned, WakeReactor, Return,
       Call, Goto
  <2>3. \A u \in Tasks : handle'[u] = "open" => u \in Joinable
    <3>1. CASE ScheduleNew(p) \/ WakeSpawned(p)
      <4>1. arg[p] \in Tasks
        BY <3>1 DEF ScheduleNew, WakeSpawned, TypeInv, CallTask
      <4>2. QED
        BY <1>h, <3>1, <4>1 DEF ScheduleNew, WakeSpawned, TypeInv, TypeOK
    <3>2. CASE ScheduleExisting(p) \/ WakeReactor(p)
      BY <1>h, <3>2 DEF ScheduleExisting, WakeReactor
    <3>3. QED
      BY <1>8, <3>1, <3>2
  <2> QED
    BY <2>1, <2>2, <2>3, JoinCall
<1>9. ASSUME NEW p \in Procs, FinishTask(p) \/ AbortWake(p) PROVE JoinInv'
  <2>1. /\ pc'[p] \in CompletingCalls /\ arg'[p] = arg[p]
        /\ UNCHANGED <<rpc, cur, joinVars, completed, cancel_requested, accepting, handle>>
    BY <1>9 DEF FinishTask, AbortWake, Goto, taskVars, schedVars, loopVars, CompletingCalls,
       TypeInv, TypeOK
  <2>2. \A r \in Procs : r # p => pc'[r] = pc[r] /\ arg'[r] = arg[r]
    BY <1>9 DEF TypeInv, TypeOK, FinishTask, AbortWake, Goto
  <2> QED
    BY <1>h, <2>1, <2>2, JoinCall
<1>10. ASSUME NEW p \in Procs, AbortJoin(p) PROVE JoinInv'
  BY <1>10, JoinAbort
<1>11. ASSUME NEW t \in Tasks, DropFuture(t) PROVE JoinInv'
  BY <1>11, JoinDrop
<1>12. CASE NextTask \/ BatchDone \/ TakeFuture \/ FinishPolled
  <2>1. /\ UNCHANGED <<callVars, joinVars, handle, completed, cancel_requested, accepting>>
        /\ rpc # "panic_handler" /\ rpc' # "finish_ready"
    BY <1>12 DEF NextTask, BatchDone, TakeFuture, FinishPolled, taskVars, schedVars
  <2> QED
    BY <2>1, JoinLoop
<1>13. CASE TimersDone \/ CheckExit \/ CheckReady
  BY <1>13, JoinLoop, SMT DEF TimersDone, CheckExit, CheckReady, taskVars, schedVars
<1>14. CASE WaitWoken \/ EventsDone \/ WaitEvent \/ Close \/ Closed
  BY <1>14, JoinLoop, SMT DEF WaitWoken, EventsDone, WaitEvent, Close, Closed, taskVars, schedVars
<1>15. CASE PollReady \/ PanicHandler
  BY <1>15, JoinPolled
<1>16. CASE FinishReady \/ PollPending \/ PollPanic
  BY <1>16, JoinFinish
<1>17. CASE UNCHANGED vars
  <2>1. \A t \in Tasks : (Completing(t)' <=> Completing(t)) /\ (Ended(t)' <=> Ended(t))
    BY <1>17 DEF vars, taskVars, loopVars, callVars, Completing, Ended
  <2> QED
    BY <1>h, <1>17, <2>1, JoinQuiet DEF vars, schedVars, joinVars
<1> QED
  BY <1>1, <1>2, <1>3, <1>4, <1>5, <1>6, <1>7, <1>8, <1>9, <1>10, <1>11, <1>12, <1>13, <1>14,
     <1>15, <1>16, <1>17
  DEF Next, CallStep, RunStep, PollReturn, Abort, DropHandle

\* No awaiter of a join handle is stranded while the executor lives: as long as it waits there is
\* no result, and the call that ended its task is on the way to complete the join
\* (JoinState::complete against Future for JoinHandle, Task::cancel and the end of Task::poll).
THEOREM NoLostJoin == Spec => []JoinNotLost
<1>1. Init => TypeInv /\ CloseInv /\ JoinInv
  <2>1. Init => CloseInv /\ JoinInv
    BY DEF Init, CloseInv, JoinInv, Ended
  <2> QED
    BY <2>1, TypeInit
<1>2. TypeInv /\ CloseInv /\ JoinInv /\ [Next]_vars => TypeInv' /\ CloseInv' /\ JoinInv'
  BY TypeStep, CloseStep, JoinStep
<1>3. JoinInv => JoinNotLost
  BY DEF JoinInv, JoinNotLost, Ended
<1> QED
  BY <1>1, <1>2, <1>3, PTL DEF Spec

-----------------------------------------------------------------------------
(* The task count *)

\* The run loop, or the call of p, is about to count t as finished.
Ending(t) == rpc \in {"panic_handler", "finish_task", "finish_cancelled"} /\ cur = t
Ends(p, t) == pc[p] = "finish_task" /\ arg[p] = t

\* What only an accepted task can be
Held(t) ==
    \/ InQueue(t) \/ waker[t] \/ handle[t] = "open" \/ cur = t
    \/ \E p \in Procs : pc[p] \notin {"idle", "wake_reactor", "schedule_new"} /\ arg[p] = t

ListedInv ==
    \A t \in Tasks : (Held(t) => t \in listed) /\ (t \in listed => handle[t] # "unspawned")

\* A task that is being scheduled for the first time
SpawnInv ==
    \A p \in Procs : pc[p] = "schedule_new" =>
      arg[p] \notin listed /\ future[arg[p]] /\ handle[arg[p]] = "spawning"

\* One and only one call is about to count a task as finished, and it has no future any more.
EndInv ==
    \A t \in Tasks :
      /\ Ending(t) => ~future[t]
      /\ \A p \in Procs : Ends(p, t) => /\ ~future[t] /\ ~polling[t] /\ ~Ending(t)
                                        /\ \A q \in Procs : Ends(q, t) => q = p

UnfinishedTasks == {t \in Tasks : Unfinished(t)}

\* What makes every task end once.  The count of tasks is exact because it changes with the
\* unfinished tasks, one by one.
TaskInv == accepting => ListedInv /\ SpawnInv /\ EndInv

Counted ==
    accepting' =>
      /\ accepting /\ TaskInv'
      /\ \/ task_count' = task_count /\ UnfinishedTasks' = UnfinishedTasks
         \/ /\ task_count' = saturating_dec(task_count)
            /\ \E t \in UnfinishedTasks : UnfinishedTasks' = UnfinishedTasks \ {t}
         \/ /\ task_count' = task_count + 1
            /\ \E t \in Tasks \ UnfinishedTasks : UnfinishedTasks' = UnfinishedTasks \cup {t}

\* What is unfinished, in terms of who is about to end it.
LEMMA UnfinishedMeans ==
    ASSUME NEW u \in Tasks
    PROVE  /\ Unfinished(u) <=>
                u \in listed /\ (future[u] \/ polling[u] \/ Ending(u) \/ \E r \in Procs : Ends(r, u))
           /\ Unfinished(u)' <=>
                u \in listed' /\ (future'[u] \/ polling'[u] \/ Ending(u)' \/ \E r \in Procs : Ends(r, u)')
BY DEF Unfinished, Ending, Ends

\* The same tasks are unfinished.
LEMMA CountSame ==
    ASSUME accepting' => accepting,
           accepting' => ListedInv' /\ SpawnInv' /\ EndInv',
           accepting' => task_count' = task_count /\ \A t \in Tasks : Unfinished(t)' <=> Unfinished(t)
    PROVE  Counted
<1>1. ASSUME accepting' PROVE UnfinishedTasks' = UnfinishedTasks
  BY <1>1 DEF UnfinishedTasks
<1>2. QED
  BY <1>1 DEF Counted, TaskInv

\* finish_task: one task is not unfinished any more.
LEMMA CountDown ==
    ASSUME accepting' => accepting, NEW t \in Tasks,
           accepting' => ListedInv' /\ SpawnInv' /\ EndInv',
           task_count' = saturating_dec(task_count),
           accepting' => Unfinished(t) /\ ~Unfinished(t)',
           accepting' => \A u \in Tasks \ {t} : Unfinished(u)' <=> Unfinished(u)
    PROVE  Counted
<1>1. ASSUME accepting' PROVE UnfinishedTasks' = UnfinishedTasks \ {t} /\ t \in UnfinishedTasks
  BY <1>1 DEF UnfinishedTasks
<1>2. QED
  BY <1>1 DEF Counted, TaskInv

\* schedule_new: one task more is unfinished.
LEMMA CountUp ==
    ASSUME accepting' => accepting, NEW t \in Tasks,
           accepting' => ListedInv' /\ SpawnInv' /\ EndInv',
           accepting' => task_count' = task_count + 1,
           accepting' => ~Unfinished(t) /\ Unfinished(t)',
           accepting' => \A u \in Tasks \ {t} : Unfinished(u)' <=> Unfinished(u)
    PROVE  Counted
<1>1. ASSUME accepting' PROVE UnfinishedTasks' = UnfinishedTasks \cup {t} /\ t \notin UnfinishedTasks
  BY <1>1 DEF UnfinishedTasks
<1>2. QED
  BY <1>1 DEF Counted, TaskInv

\* A step of a call that neither schedules a new task nor finishes one.
LEMMA CountCall ==
    ASSUME TypeInv, TaskInv, NEW p \in Procs,
           UNCHANGED <<future, polling, rpc, cur, listed, task_count, queue, waker, accepting>>,
           \A r \in Procs : r # p => pc'[r] = pc[r] /\ arg'[r] = arg[r],
           pc[p] \notin {"schedule_new", "finish_task"}, pc'[p] \notin {"schedule_new", "finish_task"},
           accepting => pc'[p] \in {"idle", "wake_reactor"} \/ arg'[p] \in listed,
           accepting => \A t \in Tasks : \/ handle'[t] = handle[t]
                                         \/ t \in listed /\ handle'[t] # "unspawned"
    PROVE  Counted
<1> SUFFICES ASSUME accepting PROVE Counted
  BY DEF Counted
<1>1. /\ \A t \in Tasks : Ending(t)' <=> Ending(t)
      /\ \A r \in Procs, t \in Tasks : Ends(r, t)' <=> Ends(r, t)
  BY DEF Ending, Ends
<1>2. \A t \in Tasks : Unfinished(t)' <=> Unfinished(t)
  BY <1>1 DEF Unfinished, Ending, Ends
<1>3. ListedInv'
  <2>1. \A t \in Tasks : InQueue(t)' <=> InQueue(t)
    BY DEF InQueue
  <2>2. \A t \in Tasks : Held(t)' => Held(t) \/ t \in listed
    BY <2>1 DEF Held
  <2>3. QED
    BY <2>2 DEF TaskInv, ListedInv
<1>4. SpawnInv'
  <2> SUFFICES ASSUME NEW q \in Procs, pc'[q] = "schedule_new"
               PROVE  arg'[q] \notin listed /\ future[arg'[q]] /\ handle'[arg'[q]] = "spawning"
    BY DEF SpawnInv
  <2>1. /\ arg'[q] = arg[q] /\ arg[q] \notin listed /\ future[arg[q]]
        /\ handle[arg[q]] = "spawning" /\ arg[q] \in Tasks
    BY DEF TaskInv, SpawnInv, TypeInv, CallTask
  <2>2. QED
    BY <2>1
<1>5. EndInv'
  BY <1>1 DEF TaskInv, EndInv
<1>6. QED
  BY <1>2, <1>3, <1>4, <1>5, CountSame

\* A step of the run loop that takes no task, ends none and finishes none.
LEMMA CountLoop ==
    ASSUME TaskInv, UNCHANGED <<future, polling, listed, task_count, queue, waker, accepting>>,
           UNCHANGED <<pc, arg, handle>>, cur' \in {cur, NoTask},
           \A t \in Tasks : Ending(t)' <=> Ending(t)
    PROVE  Counted
<1> SUFFICES ASSUME accepting PROVE Counted
  BY DEF Counted
<1>1. \A r \in Procs, t \in Tasks : Ends(r, t)' <=> Ends(r, t)
  BY DEF Ends
<1>2. \A t \in Tasks : Unfinished(t)' <=> Unfinished(t)
  BY <1>1 DEF Unfinished, Ending, Ends
<1>3. ListedInv'
  <2>1. \A t \in Tasks : InQueue(t)' <=> InQueue(t)
    BY DEF InQueue
  <2>2. \A t \in Tasks : Held(t)' => Held(t)
    BY <2>1, ConstantsAssumption DEF Held
  <2>3. QED
    BY <2>2 DEF TaskInv, ListedInv
<1>4. SpawnInv'
  BY DEF TaskInv, SpawnInv
<1>5. EndInv'
  BY <1>1 DEF TaskInv, EndInv
<1>6. QED
  BY <1>2, <1>3, <1>4, <1>5, CountSame

\* A new task is not counted before it is scheduled.
LEMMA CountSpawn ==
    ASSUME TypeInv, TaskInv, NEW p \in Threads, NEW t \in Tasks, Spawn(p, t)
    PROVE  Counted
<1> SUFFICES ASSUME accepting PROVE Counted
  BY DEF Counted, Spawn, schedVars
<1>1. /\ p \in Procs /\ pc[p] = "idle" /\ handle[t] = "unspawned"
      /\ UNCHANGED <<polling, rpc, cur, listed, task_count, queue, waker, accepting>>
      /\ future'[t] /\ handle'[t] = "spawning" /\ pc'[p] = "schedule_new" /\ arg'[p] = t
      /\ \A r \in Procs : r # p => pc'[r] = pc[r] /\ arg'[r] = arg[r]
      /\ \A u \in Tasks : u # t => future'[u] = future[u] /\ handle'[u] = handle[u]
  BY DEF Spawn, MayCall, Call, Goto, schedVars, loopVars, Procs, TypeInv, TypeOK
<1>2. t \notin listed /\ ~Held(t) /\ ListedInv /\ SpawnInv /\ EndInv
  BY <1>1 DEF TaskInv, ListedInv
<1>3. /\ \A u \in Tasks : Ending(u)' <=> Ending(u)
      /\ \A r \in Procs, u \in Tasks : Ends(r, u)' <=> Ends(r, u)
      /\ ~Ending(t) /\ \A r \in Procs : ~Ends(r, t)
  BY <1>1, <1>2 DEF Ending, Ends, Held
<1>4. ASSUME NEW u \in Tasks PROVE Unfinished(u)' <=> Unfinished(u)
  <2>1. CASE u = t
    BY <1>1, <1>2, <2>1, UnfinishedMeans
  <2>2. CASE u # t
    BY <1>1, <1>3, <2>2, UnfinishedMeans
  <2>3. QED
    BY <2>1, <2>2
<1>5. ListedInv'
  <2>1. \A u \in Tasks : InQueue(u)' <=> InQueue(u)
    BY <1>1 DEF InQueue
  <2>2. \A u \in Tasks : Held(u)' => Held(u)
    BY <1>1, <2>1 DEF Held
  <2>3. QED
    BY <1>1, <1>2, <2>2 DEF ListedInv
<1>6. SpawnInv'
  <2>1. \A q \in Procs : q # p /\ pc[q] = "schedule_new" => arg[q] \in Tasks /\ arg[q] # t
    BY <1>1, <1>2 DEF SpawnInv, TypeInv, CallTask
  <2>2. ASSUME NEW q \in Procs, pc'[q] = "schedule_new"
        PROVE  arg'[q] \notin listed /\ future'[arg'[q]] /\ handle'[arg'[q]] = "spawning"
    <3>1. CASE q = p
      BY <1>1, <1>2, <3>1
    <3>2. CASE q # p
      BY <1>1, <1>2, <2>1, <2>2, <3>2, ZenonT(30) DEF SpawnInv
    <3>3. QED
      BY <3>1, <3>2
  <2>3. QED
    BY <1>1, <2>2 DEF SpawnInv
<1>7. EndInv'
  <2>1. ASSUME NEW u \in Tasks
        PROVE  /\ Ending(u)' => ~future'[u]
               /\ \A r \in Procs : Ends(r, u)' => /\ ~future'[u] /\ ~polling'[u] /\ ~Ending(u)'
                                                 /\ \A q \in Procs : Ends(q, u)' => q = r
    <3>1. CASE u = t
      BY <1>3, <3>1
    <3>2. CASE u # t
      BY <1>1, <1>2, <1>3, <3>2 DEF EndInv
    <3>3. QED
      BY <3>1, <3>2
  <2>2. QED
    BY <2>1 DEF EndInv
<1>8. QED
  BY <1>1, <1>4, <1>5, <1>6, <1>7, CountSame

\* schedule_new counts the task it accepts.
LEMMA CountScheduleNew ==
    ASSUME TypeInv, EntryInv, TaskInv, NEW p \in Procs, ScheduleNew(p)
    PROVE  Counted
<1> SUFFICES ASSUME accepting PROVE Counted
  BY DEF Counted, ScheduleNew
<1>1. PICK t \in Tasks : t = arg[p] /\ pc[p] = "schedule_new"
  BY DEF ScheduleNew, TypeInv, CallTask
<1>2. ListedInv /\ SpawnInv /\ EndInv /\ t \notin listed /\ future[t] /\ handle[t] = "spawning"
  BY <1>1 DEF TaskInv, SpawnInv
<1>3. /\ UNCHANGED <<future, polling, rpc, cur, waker, accepting, arg, handle>>
      /\ task_count' = task_count + 1 /\ listed' = listed \cup {t} /\ push_back(t)
      /\ pc'[p] = "wake_spawned" /\ \A r \in Procs : r # p => pc'[r] = pc[r]
  BY <1>1 DEF ScheduleNew, Goto, loopVars, TypeInv, TypeOK
<1>4. \A q \in Procs : q # p /\ pc[q] = "schedule_new" => arg[q] # t
  BY <1>1 DEF EntryInv, UniqueEntry, Pushing
<1>5. \A u \in Tasks : InQueue(u)' <=> InQueue(u) \/ u = t
  BY <1>1, <1>3, PushEntries DEF EntryInv, TypeInv, TypeOK
<1>6. /\ \A u \in Tasks : Ending(u)' <=> Ending(u)
      /\ \A r \in Procs, u \in Tasks : Ends(r, u)' <=> Ends(r, u)
  BY <1>1, <1>3 DEF Ending, Ends
<1>7. /\ ~Unfinished(t) /\ Unfinished(t)'
      /\ \A u \in Tasks \ {t} : Unfinished(u)' <=> Unfinished(u)
  <2>1. ~Unfinished(t) /\ Unfinished(t)'
    BY <1>2, <1>3, UnfinishedMeans
  <2>2. ASSUME NEW u \in Tasks \ {t} PROVE Unfinished(u)' <=> Unfinished(u)
    BY <1>3, <1>6, UnfinishedMeans
  <2>3. QED
    BY <2>1, <2>2
<1>8. ListedInv'
  <2>1. \A u \in Tasks : Held(u)' => Held(u) \/ u = t
    BY <1>1, <1>3, <1>5 DEF Held
  <2>2. QED
    BY <1>2, <1>3, <2>1 DEF ListedInv
<1>9. SpawnInv'
  BY <1>2, <1>3, <1>4 DEF SpawnInv
<1>10. EndInv'
  BY <1>2, <1>3, <1>6 DEF EndInv
<1>11. QED
  BY <1>1, <1>3, <1>7, <1>8, <1>9, <1>10, CountUp

\* A wake queues a task that was accepted before.
LEMMA CountScheduleExisting ==
    ASSUME TypeInv, EntryInv, TaskInv, NEW p \in Procs, ScheduleExisting(p)
    PROVE  Counted
<1> SUFFICES ASSUME accepting PROVE Counted
  BY DEF Counted, ScheduleExisting
<1>1. PICK t \in Tasks : t = arg[p] /\ pc[p] = "schedule_existing"
  BY DEF ScheduleExisting, TypeInv, CallTask
<1>2. ListedInv /\ SpawnInv /\ EndInv /\ t \in listed
  BY <1>1 DEF TaskInv, ListedInv, Held
<1>3. /\ UNCHANGED <<future, polling, rpc, cur, waker, accepting, arg, handle, task_count, listed>>
      /\ push_back(t) /\ pc'[p] = "wake_reactor" /\ \A r \in Procs : r # p => pc'[r] = pc[r]
  BY <1>1 DEF ScheduleExisting, Goto, loopVars, TypeInv, TypeOK
<1>4. \A u \in Tasks : InQueue(u)' <=> InQueue(u) \/ u = t
  BY <1>1, <1>3, PushEntries DEF EntryInv, TypeInv, TypeOK
<1>5. /\ \A u \in Tasks : Ending(u)' <=> Ending(u)
      /\ \A r \in Procs, u \in Tasks : Ends(r, u)' <=> Ends(r, u)
  BY <1>1, <1>3 DEF Ending, Ends
<1>6. \A u \in Tasks : Unfinished(u)' <=> Unfinished(u)
  BY <1>3, <1>5 DEF Unfinished, Ending, Ends
<1>7. ListedInv'
  <2>1. \A u \in Tasks : Held(u)' => Held(u) \/ u = t
    BY <1>1, <1>3, <1>4 DEF Held
  <2>2. QED
    BY <1>2, <1>3, <2>1 DEF ListedInv
<1>8. SpawnInv' /\ EndInv'
  BY <1>2, <1>3, <1>5 DEF SpawnInv, EndInv
<1>9. QED
  BY <1>3, <1>6, <1>7, <1>8, CountSame

\* A cancel that drops the future is the one to finish the task.
LEMMA CountCancel ==
    ASSUME TypeInv, TaskInv, NEW p \in Procs, NEW t \in Tasks, NEW h \in {"open", "gone"},
           Cancel(p, t, h)
    PROVE  Counted
<1> SUFFICES ASSUME accepting PROVE Counted
  BY DEF Counted, Cancel, schedVars
<1>1. /\ pc[p] = "idle" /\ handle[t] = "open" /\ handle'[t] # "unspawned"
      /\ UNCHANGED <<rpc, cur, listed, task_count, queue, waker, accepting>>
      /\ \A u \in Tasks : u # t => handle'[u] = handle[u]
  BY DEF Cancel, MayCall, schedVars, loopVars, TypeInv, TypeOK
<1>2. t \in listed /\ ListedInv /\ SpawnInv /\ EndInv
  BY <1>1 DEF TaskInv, ListedInv, Held
<1>3. CASE UNCHANGED <<taskVars, callVars>>
  BY <1>1, <1>2, <1>3, CountCall DEF taskVars, callVars
<1>4. CASE Call(p, "abort_wake", t) /\ UNCHANGED <<future, polling>>
  <2>1. /\ pc'[p] = "abort_wake" /\ arg'[p] = t
        /\ \A r \in Procs : r # p => pc'[r] = pc[r] /\ arg'[r] = arg[r]
    BY <1>4 DEF Call, Goto, TypeInv, TypeOK
  <2>2. QED
    BY <1>1, <1>2, <1>4, <2>1, CountCall
<1>5. CASE /\ future[t] /\ ~polling[t] /\ future' = [future EXCEPT ![t] = FALSE] /\ UNCHANGED polling
           /\ Call(p, "finish_task", t)
  <2>1. /\ pc'[p] = "finish_task" /\ arg'[p] = t /\ ~future'[t]
        /\ \A r \in Procs : r # p => pc'[r] = pc[r] /\ arg'[r] = arg[r]
        /\ \A u \in Tasks : u # t => future'[u] = future[u]
    BY <1>5 DEF Call, Goto, TypeInv, TypeOK
  <2>2. /\ \A u \in Tasks : Ending(u)' <=> Ending(u)
        /\ \A r \in Procs, u \in Tasks : Ends(r, u)' <=> Ends(r, u) \/ (r = p /\ u = t)
    BY <1>1, <2>1 DEF Ending, Ends
  <2>3. ASSUME NEW u \in Tasks PROVE Unfinished(u)' <=> Unfinished(u)
    <3>1. CASE u = t
      BY <1>1, <1>2, <1>5, <2>2, <3>1, UnfinishedMeans
    <3>2. CASE u # t
      BY <1>1, <1>5, <2>1, <2>2, <3>2, UnfinishedMeans
    <3>3. QED
      BY <3>1, <3>2
  <2>4. ListedInv'
    <3>1. \A u \in Tasks : InQueue(u)' <=> InQueue(u)
      BY <1>1 DEF InQueue
    <3>2. \A u \in Tasks : Held(u)' => Held(u) \/ u = t
      BY <1>1, <2>1, <3>1 DEF Held
    <3>3. QED
      BY <1>1, <1>2, <3>2 DEF ListedInv
  <2>5. SpawnInv'
    <3>1. \A q \in Procs : pc[q] = "schedule_new" => arg[q] \in Tasks /\ arg[q] # t
      BY <1>2 DEF SpawnInv, TypeInv, CallTask
    <3>2. ASSUME NEW q \in Procs, pc'[q] = "schedule_new"
          PROVE  arg'[q] \notin listed' /\ future'[arg'[q]] /\ handle'[arg'[q]] = "spawning"
      <4>1. q # p /\ pc[q] = "schedule_new" /\ arg'[q] = arg[q]
        BY <2>1, <3>2
      <4>2. /\ arg[q] \in Tasks /\ arg[q] # t /\ arg[q] \notin listed
            /\ future[arg[q]] /\ handle[arg[q]] = "spawning"
        BY <1>2, <3>1, <4>1 DEF SpawnInv
      <4>3. listed' = listed /\ future'[arg[q]] = future[arg[q]] /\ handle'[arg[q]] = handle[arg[q]]
        BY <1>1, <2>1, <4>2
      <4>4. QED
        BY <4>1, <4>2, <4>3
    <3>3. QED
      BY <3>2 DEF SpawnInv
  <2>6. EndInv'
    <3>1. ~Ending(t) /\ \A r \in Procs : ~Ends(r, t)
      BY <1>2, <1>5 DEF EndInv
    <3>2. ASSUME NEW u \in Tasks
          PROVE  /\ Ending(u)' => ~future'[u]
                 /\ \A r \in Procs : Ends(r, u)' => /\ ~future'[u] /\ ~polling'[u] /\ ~Ending(u)'
                                                   /\ \A q \in Procs : Ends(q, u)' => q = r
      <4>1. CASE u = t
        <5>1. ~future'[t] /\ ~polling'[t] /\ ~Ending(t)'
          BY <1>5, <2>1, <2>2, <3>1
        <5>2. \A r \in Procs : Ends(r, t)' => r = p
          BY <2>2, <3>1
        <5>3. QED
          BY <4>1, <5>1, <5>2
      <4>2. CASE u # t
        <5>1. /\ Ending(u)' <=> Ending(u)
              /\ future'[u] = future[u] /\ polling'[u] = polling[u]
              /\ \A r \in Procs : Ends(r, u)' <=> Ends(r, u)
          BY <1>5, <2>1, <2>2, <4>2
        <5>2. QED
          BY <1>2, <5>1 DEF EndInv
      <4>3. QED
        BY <4>1, <4>2
    <3>3. QED
      BY <3>2 DEF EndInv
  <2>7. QED
    BY <1>1, <2>3, <2>4, <2>5, <2>6, CountSame
<1>6. QED
  BY <1>3, <1>4, <1>5 DEF Cancel

\* finish_task at the end of a cancel
LEMMA CountFinishTask ==
    ASSUME TypeInv, TaskInv, NEW p \in Procs, FinishTask(p)
    PROVE  Counted
<1> SUFFICES ASSUME accepting PROVE Counted
  BY DEF Counted, FinishTask
<1>1. PICK t \in Tasks : t = arg[p] /\ pc[p] = "finish_task"
  BY DEF FinishTask, TypeInv, CallTask
<1>2. /\ UNCHANGED <<future, polling, rpc, cur, listed, queue, waker, accepting, arg, handle>>
      /\ task_count' = saturating_dec(task_count)
      /\ pc'[p] = "abort_wake" /\ \A r \in Procs : r # p => pc'[r] = pc[r]
  BY DEF FinishTask, Goto, taskVars, loopVars, TypeInv, TypeOK
<1>3. ListedInv /\ SpawnInv /\ EndInv /\ t \in listed
  BY <1>1 DEF TaskInv, ListedInv, Held
<1>4. /\ \A u \in Tasks : Ending(u)' <=> Ending(u)
      /\ \A r \in Procs, u \in Tasks : Ends(r, u)' <=> Ends(r, u) /\ r # p
      /\ \A u \in Tasks \ {t} : ~Ends(p, u)
  BY <1>1, <1>2 DEF Ending, Ends
<1>5. ~future[t] /\ ~polling[t] /\ ~Ending(t) /\ Ends(p, t) /\ \A r \in Procs : Ends(r, t) => r = p
  BY <1>1, <1>3 DEF EndInv, Ends
<1>6. /\ Unfinished(t) /\ ~Unfinished(t)'
      /\ \A u \in Tasks \ {t} : Unfinished(u)' <=> Unfinished(u)
  <2>1. \A u \in Tasks : Unfinished(u) <=>
          u \in listed /\ (future[u] \/ polling[u] \/ Ending(u) \/ \E r \in Procs : Ends(r, u))
    BY DEF Unfinished, Ending, Ends
  <2>2. \A u \in Tasks : Unfinished(u)' <=>
          u \in listed' /\ (future'[u] \/ polling'[u] \/ Ending(u)' \/ \E r \in Procs : Ends(r, u)')
    BY DEF Unfinished, Ending, Ends
  <2>3. QED
    BY <1>2, <1>3, <1>4, <1>5, <2>1, <2>2
<1>7. ListedInv'
  <2>1. \A u \in Tasks : InQueue(u)' <=> InQueue(u)
    BY <1>2 DEF InQueue
  <2>2. \A u \in Tasks : Held(u)' => Held(u)
    BY <1>1, <1>2, <2>1 DEF Held
  <2>3. QED
    BY <1>2, <1>3, <2>2 DEF ListedInv
<1>8. SpawnInv' /\ EndInv'
  BY <1>2, <1>3, <1>4 DEF SpawnInv, EndInv
<1>9. QED
  BY <1>2, <1>6, <1>7, <1>8, CountDown

\* next_task takes a task that has been accepted.
LEMMA CountNextTask ==
    ASSUME TypeInv, EntryInv, TaskInv, NextTask
    PROVE  Counted
<1> SUFFICES ASSUME accepting PROVE Counted
  BY DEF Counted, NextTask
<1>1. PICK g \in Groups : /\ queue[g] # <<>>
                          /\ cur' = Head(queue[g])
                          /\ queue' = [queue EXCEPT ![g] = Tail(@)]
  BY DEF NextTask
<1>2. InQueue(cur') /\ cur' \in Tasks /\ \A u \in Tasks : InQueue(u)' => InQueue(u)
  BY <1>1, PopEntries DEF TypeInv, TypeOK, EntryInv, UniqueEntry
<1>3. /\ UNCHANGED <<future, polling, listed, task_count, waker, accepting, pc, arg, handle>>
      /\ rpc = "next" /\ rpc' = "take"
  BY DEF NextTask, taskVars, callVars
<1>4. ListedInv /\ SpawnInv /\ EndInv /\ cur' \in listed
  BY <1>2 DEF TaskInv, ListedInv, Held
<1>5. /\ \A u \in Tasks : Ending(u)' <=> Ending(u)
      /\ \A r \in Procs, u \in Tasks : Ends(r, u)' <=> Ends(r, u)
  BY <1>3 DEF Ending, Ends
<1>6. \A u \in Tasks : Unfinished(u)' <=> Unfinished(u)
  BY <1>3, <1>5 DEF Unfinished, Ending, Ends
<1>7. ListedInv'
  <2>1. \A u \in Tasks : Held(u)' => Held(u) \/ u = cur'
    BY <1>2, <1>3 DEF Held
  <2>2. QED
    BY <1>3, <1>4, <2>1 DEF ListedInv
<1>8. SpawnInv' /\ EndInv'
  BY <1>3, <1>4, <1>5 DEF SpawnInv, EndInv
<1>9. QED
  BY <1>3, <1>6, <1>7, <1>8, CountSame

\* A step that takes the future of the current task, puts it back or drops it.
LEMMA CountTurn ==
    ASSUME TypeInv, TaskInv, NEW c \in Tasks, c = cur,
           UNCHANGED <<listed, task_count, queue, accepting, pc, arg, handle>>,
           cur' \in {c, NoTask},
           \A u \in Tasks \ {c} : /\ future'[u] = future[u] /\ polling'[u] = polling[u]
                                  /\ waker'[u] = waker[u],
           rpc \notin {"panic_handler", "finish_task", "finish_cancelled"},
           future[c] \/ polling[c], future'[c] \/ polling'[c] \/ Ending(c)',
           Ending(c)' => ~future'[c]
    PROVE  Counted
<1> SUFFICES ASSUME accepting PROVE Counted
  BY DEF Counted
<1>1. ListedInv /\ SpawnInv /\ EndInv /\ c \in listed
  BY DEF TaskInv, ListedInv, Held
<1>2. /\ \A u \in Tasks \ {c} : ~Ending(u) /\ ~Ending(u)'
      /\ \A r \in Procs, u \in Tasks : Ends(r, u)' <=> Ends(r, u)
      /\ \A r \in Procs : ~Ends(r, c)
  BY <1>1, ConstantsAssumption, ZenonT(30) DEF Ending, Ends, EndInv
<1>3. \A u \in Tasks : Unfinished(u)' <=> Unfinished(u)
  BY <1>1, <1>2 DEF Unfinished, Ending, Ends
<1>4. ListedInv'
  <2>1. \A u \in Tasks : InQueue(u)' <=> InQueue(u)
    BY DEF InQueue
  <2>2. \A u \in Tasks \ {c} : Held(u)' => Held(u)
    BY <2>1, ConstantsAssumption, ZenonT(30) DEF Held
  <2>3. QED
    BY <1>1, <2>2 DEF ListedInv
<1>5. SpawnInv'
  BY <1>1 DEF SpawnInv, TypeInv, CallTask
<1>6. EndInv'
  BY <1>1, <1>2 DEF EndInv
<1>7. QED
  BY <1>3, <1>4, <1>5, <1>6, CountSame

\* take_future_for_poll
LEMMA CountTakeFuture ==
    ASSUME TypeInv, EntryInv, TaskInv, TakeFuture
    PROVE  Counted
<1>1. PICK c \in Tasks : c = cur /\ rpc = "take"
  BY DEF TakeFuture, TypeInv, CurrentTask
<1>2. UNCHANGED <<listed, task_count, queue, accepting, pc, arg, handle>>
  BY DEF TakeFuture, schedVars, callVars
<1>3. CASE future[c]
  <2>1. /\ future' = [future EXCEPT ![c] = FALSE] /\ polling' = [polling EXCEPT ![c] = TRUE]
        /\ waker' = [waker EXCEPT ![c] = TRUE] /\ cur' = c /\ rpc' = "poll"
    BY <1>1, <1>3 DEF TakeFuture
  <2>2. /\ \A u \in Tasks \ {c} : /\ future'[u] = future[u] /\ polling'[u] = polling[u]
                                  /\ waker'[u] = waker[u]
        /\ polling'[c] /\ ~future'[c]
    BY <2>1 DEF TypeInv, TypeOK
  <2>3. QED
    BY <1>1, <1>2, <1>3, <2>1, <2>2, CountTurn
<1>4. CASE ~future[c]
  <2>1. UNCHANGED <<future, polling, waker>> /\ cur' = NoTask /\ rpc' = "next"
    BY <1>1, <1>4 DEF TakeFuture
  <2>2. \A u \in Tasks : Ending(u)' <=> Ending(u)
    BY <1>1, <2>1 DEF Ending
  <2>3. QED
    BY <1>2, <2>1, <2>2, CountLoop
<1>5. QED
  BY <1>3, <1>4

\* A poll is over: finish_ready, finish_pending or finish_panicked
LEMMA CountPolled ==
    ASSUME TypeInv, EntryInv, TaskInv, FinishReady \/ PollPending \/ PollPanic
    PROVE  Counted
<1>1. PICK c \in Tasks : c = cur /\ rpc \in {"poll", "finish_ready"}
  BY DEF FinishReady, PollPending, PollPanic, TypeInv, CurrentTask
<1>2. polling[c] /\ ~future[c]
  BY <1>1 DEF EntryInv, PollingTask
<1>3. UNCHANGED <<listed, task_count, queue, accepting, pc, arg, handle, waker>>
  BY DEF FinishReady, PollPending, PollPanic, schedVars, callVars
<1>4. \A u \in Tasks \ {c} : polling'[u] = polling[u] /\ future'[u] = future[u]
  BY <1>1 DEF FinishReady, PollPending, PollPanic, TypeInv, TypeOK
<1>5. /\ cur' \in {c, NoTask}
      /\ \/ future'[c] /\ cur' = NoTask
         \/ ~future'[c] /\ Ending(c)'
  BY <1>1, <1>2, SMT DEF FinishReady, PollPending, PollPanic, Ending, TypeInv, TypeOK
<1>6. QED
  BY <1>1, <1>2, <1>3, <1>4, <1>5, CountTurn, ConstantsAssumption DEF Ending

\* finish_task at the end of a poll
LEMMA CountFinishPolled ==
    ASSUME TypeInv, EntryInv, TaskInv, FinishPolled
    PROVE  Counted
<1> SUFFICES ASSUME accepting PROVE Counted
  BY DEF Counted, FinishPolled
<1>1. PICK c \in Tasks : c = cur /\ rpc \in {"finish_task", "finish_cancelled"}
  BY DEF FinishPolled, TypeInv, CurrentTask
<1>2. /\ UNCHANGED <<future, polling, listed, queue, waker, accepting, pc, arg, handle>>
      /\ task_count' = saturating_dec(task_count) /\ rpc' = "next" /\ cur' = NoTask
  BY DEF FinishPolled, taskVars, callVars
<1>3. ListedInv /\ SpawnInv /\ EndInv /\ c \in listed /\ ~polling[c] /\ Ending(c)
  BY <1>1 DEF TaskInv, ListedInv, Held, Ending, EntryInv, PollingTask
<1>4. /\ \A u \in Tasks \ {c} : ~Ending(u)
      /\ \A u \in Tasks : ~Ending(u)'
      /\ \A r \in Procs, u \in Tasks : Ends(r, u)' <=> Ends(r, u)
      /\ ~future[c] /\ \A r \in Procs : ~Ends(r, c)
  BY <1>1, <1>2, <1>3 DEF Ending, Ends, EndInv
<1>5. /\ Unfinished(c) /\ ~Unfinished(c)'
      /\ \A u \in Tasks \ {c} : Unfinished(u)' <=> Unfinished(u)
  BY <1>1, <1>2, <1>3, <1>4 DEF Unfinished, Ending, Ends
<1>6. ListedInv'
  <2>1. \A u \in Tasks : InQueue(u)' <=> InQueue(u)
    BY <1>2 DEF InQueue
  <2>2. \A u \in Tasks : Held(u)' => Held(u)
    BY <1>2, <2>1, ConstantsAssumption DEF Held
  <2>3. QED
    BY <1>2, <1>3, <2>2 DEF ListedInv
<1>7. SpawnInv' /\ EndInv'
  BY <1>2, <1>3, <1>4 DEF SpawnInv, EndInv
<1>8. QED
  BY <1>2, <1>5, <1>6, <1>7, CountDown

LEMMA CountStep == TypeInv /\ EntryInv /\ CloseInv /\ TaskInv /\ [Next]_vars => Counted
<1> SUFFICES ASSUME TypeInv, EntryInv, CloseInv, TaskInv, [Next]_vars
             PROVE  Counted
  OBVIOUS
<1>1. ASSUME NEW p \in Threads, NEW t \in Tasks, Spawn(p, t)
      PROVE  Counted
  BY <1>1, CountSpawn
<1>2. ASSUME NEW p \in Procs, NEW t \in Tasks, Wake(p, t)
      PROVE  Counted
  <2>1. /\ pc[p] = "idle" /\ waker[t]
        /\ UNCHANGED <<future, polling, rpc, cur, listed, task_count, queue, waker, accepting, handle>>
        /\ \A r \in Procs : r # p => pc'[r] = pc[r] /\ arg'[r] = arg[r]
        /\ \/ pc'[p] = "schedule_existing" /\ arg'[p] = t
           \/ pc'[p] = "idle"
    BY <1>2 DEF Wake, MayWake, Call, Goto, schedVars, loopVars, callVars, TypeInv, TypeOK
  <2>2. accepting => t \in listed
    BY <2>1 DEF TaskInv, ListedInv, Held
  <2>3. QED
    BY <2>1, <2>2, CountCall
<1>3. ASSUME NEW p \in Threads, NEW q \in Threads, CloneSpawner(p, q)
      PROVE  Counted
  BY <1>3, CountLoop DEF CloneSpawner, taskVars, loopVars, callVars, Ending
<1>4. ASSUME NEW p \in Threads, DropSpawner(p) \/ RequestStop(p)
      PROVE  Counted
  <2>1. /\ p \in Procs /\ pc[p] = "idle" /\ pc'[p] \in {"idle", "wake_reactor"}
        /\ UNCHANGED <<future, polling, rpc, cur, listed, task_count, queue, waker, accepting, handle>>
        /\ \A r \in Procs : r # p => pc'[r] = pc[r] /\ arg'[r] = arg[r]
    BY <1>4 DEF DropSpawner, RequestStop, MayCall, Goto, taskVars, loopVars, callVars, Procs,
                TypeInv, TypeOK
  <2>2. QED
    BY <2>1, CountCall
<1>5. ASSUME NEW p \in Procs, NEW t \in Tasks, Abort(p, t) \/ DropHandle(p, t)
      PROVE  Counted
  BY <1>5, CountCancel DEF Abort, DropHandle
<1>6. ASSUME NEW t \in Tasks, Await(t)
      PROVE  Counted
  BY <1>6, CountLoop DEF Await, taskVars, schedVars, loopVars, callVars, Ending
<1>7. ASSUME NEW p \in Procs, ScheduleNew(p)
      PROVE  Counted
  BY <1>7, CountScheduleNew
<1>8. ASSUME NEW p \in Procs, ScheduleExisting(p)
      PROVE  Counted
  BY <1>8, CountScheduleExisting
<1>9. ASSUME NEW p \in Procs, FinishTask(p)
      PROVE  Counted
  BY <1>9, CountFinishTask
<1>10. ASSUME NEW p \in Procs, WakeSpawned(p) \/ WakeReactor(p) \/ AbortWake(p) \/ AbortJoin(p)
       PROVE  Counted
  <2>1. /\ UNCHANGED <<future, polling, rpc, cur, listed, task_count, queue, waker, accepting>>
        /\ \A r \in Procs : r # p => pc'[r] = pc[r] /\ arg'[r] = arg[r]
    BY <1>10 DEF WakeSpawned, WakeReactor, AbortWake, AbortJoin, Return, Call, Goto, taskVars,
                 schedVars, loopVars, TypeInv, TypeOK
  <2>2. /\ pc[p] \in {"wake_spawned", "wake_reactor", "abort_wake", "abort_join"}
        /\ \/ pc'[p] = "idle"
           \/ pc[p] = "abort_wake" /\ pc'[p] = "abort_join" /\ arg'[p] = arg[p]
    BY <1>10 DEF WakeSpawned, WakeReactor, AbortWake, AbortJoin, Return, Call, Goto, TypeInv, TypeOK
  <2>3. \A t \in Tasks : \/ handle'[t] = handle[t]
                         \/ pc[p] = "wake_spawned" /\ arg[p] = t /\ handle'[t] # "unspawned"
    BY <1>10 DEF WakeSpawned, WakeReactor, AbortWake, AbortJoin, TypeInv, TypeOK
  <2>4. accepting /\ pc[p] \in {"wake_spawned", "abort_wake"} => arg[p] \in Tasks \cap listed
    BY DEF TaskInv, ListedInv, Held, TypeInv, CallTask
  <2>5. QED
    BY <2>1, <2>2, <2>3, <2>4, CountCall
<1>11. CASE NextTask
  BY <1>11, CountNextTask
<1>12. CASE TakeFuture
  BY <1>12, CountTakeFuture
<1>13. CASE FinishReady \/ PollPending \/ PollPanic
  BY <1>13, CountPolled
<1>14. CASE FinishPolled
  BY <1>14, CountFinishPolled
<1>15. CASE BatchDone \/ PollReady \/ PanicHandler
  BY <1>15, CountLoop DEF BatchDone, PollReady, PanicHandler, taskVars, schedVars, callVars, Ending
<1>16. CASE TimersDone \/ CheckExit \/ CheckReady
  BY <1>16, CountLoop DEF TimersDone, CheckExit, CheckReady, taskVars, schedVars, callVars, Ending
<1>17. CASE WaitWoken \/ EventsDone \/ WaitEvent \/ Closed
  BY <1>17, CountLoop DEF WaitWoken, EventsDone, WaitEvent, Closed, taskVars, schedVars, callVars,
                          Ending
<1>18. CASE Close
  BY <1>18 DEF Close, Counted
<1>19. ASSUME NEW t \in Tasks, DropFuture(t)
       PROVE  Counted
  BY <1>19 DEF DropFuture, CloseInv, Counted
<1>20. CASE UNCHANGED vars
  BY <1>20, CountLoop DEF vars, taskVars, schedVars, loopVars, callVars, Ending
<1> QED
  BY <1>1, <1>2, <1>3, <1>4, <1>5, <1>6, <1>7, <1>8, <1>9, <1>10, <1>11, <1>12, <1>13, <1>14,
     <1>15, <1>16, <1>17, <1>18, <1>19, <1>20
  DEF Next, CallStep, RunStep, PollReturn

-----------------------------------------------------------------------------
(* The count against the number of unfinished tasks *)

INSTANCE FiniteSetTheorems

CountInv == TaskInv /\ (accepting => task_count = Cardinality(UnfinishedTasks))

LEMMA UnfinishedFinite == IsFiniteSet(UnfinishedTasks) /\ Cardinality(UnfinishedTasks) \in Nat
<1>1. UnfinishedTasks \in SUBSET Tasks
  BY DEF UnfinishedTasks
<1>2. IsFiniteSet(UnfinishedTasks)
  BY <1>1, FS_Subset, ConstantsAssumption
<1>3. QED
  BY <1>2, FS_CardinalityType

\* The count is as exact after a step as before it: the saturating subtraction never saturates.
LEMMA CountKept == CountInv /\ Counted => CountInv'
<1> SUFFICES ASSUME CountInv, Counted, accepting' PROVE CountInv'
  BY DEF CountInv, Counted, TaskInv
<1>1. /\ TaskInv' /\ task_count = Cardinality(UnfinishedTasks) /\ task_count \in Nat
  BY UnfinishedFinite DEF CountInv, Counted
<1>2. CASE task_count' = task_count /\ UnfinishedTasks' = UnfinishedTasks
  BY <1>1, <1>2 DEF CountInv
<1>3. ASSUME NEW t \in UnfinishedTasks, UnfinishedTasks' = UnfinishedTasks \ {t},
             task_count' = saturating_dec(task_count)
      PROVE  CountInv'
  <2>1. Cardinality(UnfinishedTasks \ {t}) = Cardinality(UnfinishedTasks) - 1
    BY <1>3, UnfinishedFinite, FS_RemoveElement
  <2>2. task_count # 0
    BY <1>1, <1>3, UnfinishedFinite, FS_EmptySet
  <2>3. QED
    BY <1>1, <1>3, <2>1, <2>2 DEF CountInv, saturating_dec
<1>4. ASSUME NEW t \in Tasks \ UnfinishedTasks, UnfinishedTasks' = UnfinishedTasks \cup {t},
             task_count' = task_count + 1
      PROVE  CountInv'
  <2>1. Cardinality(UnfinishedTasks \cup {t}) = Cardinality(UnfinishedTasks) + 1
    BY <1>4, UnfinishedFinite, FS_AddElement
  <2>2. QED
    BY <1>1, <1>4, <2>1 DEF CountInv
<1>5. QED
  BY <1>2, <1>3, <1>4 DEF Counted

\* Nothing has been spawned when the executor is made.
LEMMA CountInit == Init => CountInv
<1> SUFFICES ASSUME Init PROVE CountInv
  OBVIOUS
<1>1. listed = {} /\ task_count = 0 /\ \A p \in Procs : pc[p] = "idle"
  BY DEF Init
<1>2. \A t \in Tasks : ~InQueue(t)
  BY ConstantsAssumption, SMT DEF Init, InQueue
<1>3. ListedInv
  BY <1>1, <1>2, ConstantsAssumption DEF Init, ListedInv, Held
<1>4. SpawnInv /\ EndInv
  BY <1>1 DEF Init, SpawnInv, EndInv, Ending, Ends
<1>5. UnfinishedTasks = {}
  BY <1>1 DEF UnfinishedTasks, Unfinished
<1>6. QED
  BY <1>1, <1>3, <1>4, <1>5, FS_EmptySet DEF CountInv, TaskInv

-----------------------------------------------------------------------------
\* The count of tasks is the number of tasks that were accepted and have not finished, for any
\* number of tasks, threads and groups: each of the ways a task can end (Ready, Pending after an
\* abort, a panic, an abort or a dropped handle outside the poll) counts it exactly once, so the
\* run loop neither leaves tasks behind nor waits for ones that are over (Scheduler::finish_task,
\* SchedulerTaskSet::schedule_new).
THEOREM CountAlwaysExact == Spec => []TaskCountExact
<1>1. Init => CloseInv /\ CountInv
  BY CountInit DEF Init, CloseInv
<1>2. TypeInv /\ EntryInv /\ CloseInv /\ CountInv /\ [Next]_vars => CloseInv' /\ CountInv'
  BY CloseStep, CountStep, CountKept DEF CountInv
<1>3. CountInv => TaskCountExact
  BY DEF CountInv, TaskCountExact, UnfinishedTasks
<1> QED
  BY <1>1, <1>2, <1>3, EntriesAlways, PTL DEF Spec
=============================================================================
