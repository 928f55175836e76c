------------------------ MODULE ReactorAndGroupProofs ------------------------
(***************************************************************************)
(* What the reactor guarantees for any finite set of tasks, any backend,   *)
(* any wake pipe and any number of descriptors: the executor does not      *)
(* sleep through a wake, and while it sleeps the kernel watches every      *)
(* descriptor that a future waits for.  And what the choice of the next    *)
(* task guarantees, for any number of tasks, scheduling groups and polls:  *)
(* no group starves.                                                       *)
(***************************************************************************)
EXTENDS Reactor, SchedulingGroups, TLAPS, FiniteSetTheorems, WellFoundedInduction

\* A leaf is first-order reasoning, Zenon's, unless it cites another prover.
USE Zenon

\* Every step of the model: with tasks that yield for ever, and with a wait that may fail.
AnyNext == BusyNext \/ WaitFails

-----------------------------------------------------------------------------
(* Inductive invariants *)

\* No task is polled outside the executor's polling phase.  From the moment the ready queue was
\* found empty, whatever is put there leaves a byte in the pipe.
WakeInv ==
    /\ pipe \in Nat /\ timers \subseteq Tasks
    /\ \A i \in reads \cup writes : i.task \in Tasks
    /\ cur # None => exec = "poll"
    /\ exec # "poll" /\ (\E t \in queued : ~Done(t)) => pipe > 0

\* The wait is for the descriptors of the interests there are; on poll() the kernel is given
\* those, on the files that are open now.
WaitInv ==
    /\ exec \in {"reconcile", "wait"} => wait.read = FdsOf(reads) /\ wait.write = FdsOf(writes)
    /\ exec = "wait" /\ backend = "poll" => \A i \in Wanted : Filters(i) \subseteq watched
    /\ exec = "panicked" => backend # "poll"

States == {"connect", "connecting", "accept", "read", "copy", "write", "readable", "writable", "close",
           "sleep", "asleep", "yield", "done", "failed"}

\* An interest is of a task that waits, for its own descriptor, and not found ready yet.
InterestInv ==
    /\ pc \in [Tasks -> States]
    /\ sock \in [Tasks -> (Fds \ {0}) \cup {None}]
    /\ \A t \in Sleepers : pc[t] \in {"sleep", "asleep", "done"}
    /\ \A i \in reads : pc[i.task] = "readable" /\ i.fd = Fd(i.task) /\ i.task \notin readyReads
    /\ \A i \in writes :
         pc[i.task] \in {"writable", "connecting"} /\ i.fd = Fd(i.task) /\ i.task \notin readyWrites

\* The descriptors that are open: the listener and the tasks' streams.
Opened == {0} \cup {sock[t] : t \in Tasks}

\* No number is used twice, and no two tasks share one.  What the registry has for an open
\* descriptor is what the kernel watches there.
RegistryInv ==
    /\ used \subseteq Fds /\ 0 \in used /\ DOMAIN file = Fds
    /\ \A t \in Tasks : sock[t] # None => sock[t] \in used
    /\ \A t, u \in Tasks : sock[t] = sock[u] /\ sock[t] # None => t = u
    /\ \A r \in registry : /\ r.fd \in used /\ (r.read \/ r.write)
                           /\ r.fd \in Opened => Filters(r) \subseteq watched
    /\ exec = "wait" => \A i \in Wanted : Filters(i) \subseteq watched
    /\ exec # "panicked"

PollInv == WakeInv /\ WaitInv
Inv == WakeInv /\ WaitInv /\ InterestInv /\ RegistryInv

-----------------------------------------------------------------------------
(* Wakes *)

LEMMA HoldsNat ==
    ASSUME NEW n \in Nat
    PROVE  Holds(n) \in Nat /\ (n > 0 => Holds(n) > 0)
BY ReactorAssumption, SMT DEF Holds

LEMMA WakesNat ==
    ASSUME pipe \in Nat, NEW n \in Nat, Wakes(n)
    PROVE  pipe' \in Nat /\ (n > 0 \/ pipe > 0 => pipe' > 0)
<1>1. pipe + n \in Nat /\ (n > 0 \/ pipe > 0 => pipe + n > 0)
  BY SMT
<1>2. QED
  BY <1>1, HoldsNat DEF Wakes

LEMMA TimerWakesNat ==
    ASSUME NEW t PROVE TimerWakes(t) \in Nat /\ 1 + TimerWakes(t) \in Nat
BY SMT DEF TimerWakes

LEMMA TasksCounted ==
    ASSUME NEW S, S \subseteq Tasks PROVE Cardinality(S) \in Nat
BY ReactorAssumption, FS_Subset, FS_CardinalityType

LEMMA NoneIsNoTask == None \notin Tasks
BY ReactorAssumption DEF None

\* The steps of a task are taken while the executor polls.
LEMMA InPoll ==
    ASSUME WakeInv, NEW t \in Tasks, Step(t) \/ Yield(t) \/ Cancel(t)
    PROVE  exec = "poll" /\ UNCHANGED <<exec, wait, backend>>
<1>1. cur = t => exec = "poll"
  BY NoneIsNoTask DEF WakeInv
<1>2. ASSUME Poll(t) \/ Cancel(t) PROVE exec = "poll" /\ UNCHANGED <<exec, wait, backend>>
  BY <1>2 DEF Poll, Cancel, thread, kernel
<1>3. ASSUME ConnectStart(t) \/ NoMoreFds(t) \/ Accept(t) \/ Read(t) \/ ReadEnd(t) \/ Write(t) \/ Close(t)
      PROVE  cur = t /\ UNCHANGED <<exec, wait, backend>>
  BY <1>3 DEF ConnectStart, NoMoreFds, Accept, Read, ReadEnd, Write, Close, thread, kernel
<1>4. ASSUME WouldBlock(t) \/ ReadableReady(t) \/ WritableReady(t) \/ ReadablePending(t)
             \/ WritablePending(t)
      PROVE  cur = t /\ UNCHANGED <<exec, wait, backend>>
  BY <1>4 DEF WouldBlock, ReadableReady, WritableReady, ReadablePending, WritablePending, thread,
              kernel
<1>5. ASSUME TimedOut(t) \/ SleepPending(t) \/ SleepReady(t) \/ Yield(t)
      PROVE  cur = t /\ UNCHANGED <<exec, wait, backend>>
  BY <1>5 DEF TimedOut, SleepPending, SleepReady, Yield, thread, kernel
<1>6. QED
  BY <1>1, <1>2, <1>3, <1>4, <1>5 DEF Step

\* A task registers timers and interests of its own, and wakes the reactor a few times.
LEMMA TaskStepWakes ==
    ASSUME WakeInv, NEW t \in Tasks, Step(t) \/ Yield(t) \/ Cancel(t)
    PROVE  WakeInv'
<1>0. exec' = "poll"
  BY InPoll
<1>1. ASSUME pipe' \in Nat, timers' \subseteq Tasks, \A i \in (reads \cup writes)' : i.task \in Tasks
      PROVE  WakeInv'
  BY <1>0, <1>1 DEF WakeInv
<1>2. /\ pipe \in Nat /\ timers \subseteq Tasks
      /\ \A i \in reads \cup writes : i.task \in Tasks
  BY DEF WakeInv
<1>3. 0 \in Nat /\ 1 \in Nat
  BY SMT
<1>4. CASE Poll(t) \/ ConnectStart(t) \/ Accept(t) \/ Read(t) \/ ReadEnd(t) \/ Write(t) \/ Close(t)
  <2>1. UNCHANGED <<pipe, timers, reads, writes>>
    BY <1>4 DEF Poll, ConnectStart, Accept, Read, ReadEnd, Write, Close, interests
  <2>2. QED
    BY <1>1, <1>2, <2>1
<1>5. CASE WouldBlock(t) \/ ReadableReady(t) \/ WritableReady(t)
  <2>1. UNCHANGED <<pipe, timers, reads, writes>>
    BY <1>5 DEF WouldBlock, ReadableReady, WritableReady, interests
  <2>2. QED
    BY <1>1, <1>2, <2>1
<1>6. CASE NoMoreFds(t) \/ SleepReady(t)
  <2>1. UNCHANGED <<pipe, reads, writes>> /\ timers' = timers \ {t}
    BY <1>6 DEF NoMoreFds, SleepReady, RemoveTimer, interests
  <2>2. QED
    BY <1>1, <1>2, <2>1
<1>7. CASE ReadablePending(t)
  <2>1. /\ reads' = Register(reads, t) /\ writes' = writes
        /\ Wakes(1 + TimerWakes(t)) /\ timers' \subseteq timers \cup {t}
    BY <1>7 DEF ReadablePending, RegisterTimer
  <2>2. pipe' \in Nat
    BY <1>2, <2>1, WakesNat, TimerWakesNat
  <2>3. \A i \in reads' : i.task \in Tasks
    BY <1>2, <2>1, SMT DEF Register
  <2>4. QED
    BY <1>1, <1>2, <2>1, <2>2, <2>3
<1>8. CASE WritablePending(t)
  <2>1. /\ writes' = Register(writes, t) /\ reads' = reads
        /\ Wakes(1 + TimerWakes(t)) /\ timers' \subseteq timers \cup {t}
    BY <1>8 DEF WritablePending, RegisterTimer
  <2>2. pipe' \in Nat
    BY <1>2, <2>1, WakesNat, TimerWakesNat
  <2>3. \A i \in writes' : i.task \in Tasks
    BY <1>2, <2>1, SMT DEF Register
  <2>4. QED
    BY <1>1, <1>2, <2>1, <2>2, <2>3
<1>9. CASE TimedOut(t) \/ Cancel(t)
  <2>1. /\ reads' = Remove(reads, t) /\ writes' = Remove(writes, t) /\ timers' = timers \ {t}
        /\ Wakes(1) \/ UNCHANGED pipe
    BY <1>9 DEF TimedOut, Cancel, ForgetRead, ForgetWrite, RemoveTimer
  <2>2. pipe' \in Nat
    BY <1>2, <1>3, <2>1, WakesNat
  <2>3. QED
    BY <1>1, <1>2, <2>1, <2>2 DEF Remove
<1>10. CASE SleepPending(t)
  <2>1. /\ UNCHANGED <<reads, writes>> /\ Wakes(TimerWakes(t)) /\ timers' \subseteq timers \cup {t}
    BY <1>10 DEF SleepPending, RegisterTimer, interests
  <2>2. pipe' \in Nat
    BY <1>2, <2>1, WakesNat, TimerWakesNat
  <2>3. QED
    BY <1>1, <1>2, <2>1, <2>2
<1>11. CASE Yield(t)
  <2>1. UNCHANGED <<timers, reads, writes>> /\ Wakes(1)
    BY <1>11 DEF Yield, interests
  <2>2. pipe' \in Nat
    BY <1>2, <1>3, <2>1, WakesNat
  <2>3. QED
    BY <1>1, <1>2, <2>1, <2>2
<1>12. QED
  BY <1>4, <1>5, <1>6, <1>7, <1>8, <1>9, <1>10, <1>11 DEF Step

\* The executor's own steps: the pipe is emptied only when it goes back to poll.
LEMMA ExecutorWakes ==
    ASSUME WakeInv,
           ExpireTimers \/ BudgetUsed \/ Prepare \/ BeginWait \/ BeginPoll \/ EndWait \/ WaitFails
    PROVE  WakeInv'
<1>1. /\ pipe \in Nat /\ timers \subseteq Tasks
      /\ \A i \in reads \cup writes : i.task \in Tasks
      /\ cur # None => exec = "poll"
      /\ exec # "poll" /\ (\E t \in queued : ~Done(t)) => pipe > 0
  BY DEF WakeInv
<1>2. Expired \subseteq Tasks /\ Cardinality(Expired) \in Nat
  BY <1>1, TasksCounted DEF Expired
<1>3. CASE ExpireTimers
  <2>1. /\ exec = "poll" /\ cur = None /\ UNCHANGED <<reads, writes, pc, cur>>
        /\ timers' \subseteq timers /\ queued' = Expired /\ Wakes(Cardinality(Expired))
        /\ exec' # "poll" => Expired = {}
    BY <1>3 DEF ExpireTimers, interests, tasks
  <2>2. pipe' \in Nat
    BY <1>1, <1>2, <2>1, WakesNat
  <2>3. QED
    BY <1>1, <2>1, <2>2 DEF WakeInv
<1>4. CASE BudgetUsed
  <2>1. /\ exec = "poll" /\ exec' = "poll" /\ UNCHANGED <<reads, writes, cur>>
        /\ timers' \subseteq timers /\ Wakes(Cardinality(Expired))
    BY <1>4 DEF BudgetUsed, interests, thread
  <2>2. pipe' \in Nat
    BY <1>1, <1>2, <2>1, WakesNat
  <2>3. QED
    BY <1>1, <2>1, <2>2 DEF WakeInv
<1>5. CASE Prepare \/ BeginWait \/ BeginPoll \/ WaitFails
  <2>1. /\ exec # "poll" /\ UNCHANGED <<pipe, timers, reads, writes, pc, queued, cur>>
    BY <1>5 DEF Prepare, BeginWait, BeginPoll, WaitFails, interests, tasks
  <2>2. QED
    BY <1>1, <2>1 DEF WakeInv, Done
<1>6. CASE EndWait
  <2>1. /\ exec' = "poll" /\ timers' \subseteq timers /\ reads' \subseteq reads /\ writes' \subseteq writes
        /\ pipe' = Holds(Drained + Cardinality((WokenReads \cup WokenWrites \cup Expired) \ queued))
    BY <1>6 DEF EndWait
  <2>2. WokenReads \subseteq Tasks /\ WokenWrites \subseteq Tasks
    BY <1>1 DEF WokenReads, WokenWrites
  <2>3. Cardinality((WokenReads \cup WokenWrites \cup Expired) \ queued) \in Nat
    BY <1>2, <2>2, TasksCounted
  <2>4. Drained + Cardinality((WokenReads \cup WokenWrites \cup Expired) \ queued) \in Nat
    BY <2>3, SMT DEF Drained
  <2>5. pipe' \in Nat
    BY <2>1, <2>4, HoldsNat
  <2>6. QED
    BY <1>1, <2>1, <2>5 DEF WakeInv
<1>7. QED
  BY <1>3, <1>4, <1>5, <1>6

\* Peers, the clock and other threads: who queues a task wakes the reactor.
EnvironmentStep ==
    \/ \E f \in Files, what \in {"data", "eof"} : Arrives(f, what)
    \/ \E f \in Files : HasRoom(f)
    \/ Tick
    \/ \E t \in Tasks : WokenElsewhere(t)

LEMMA EnvironmentWakes ==
    ASSUME WakeInv, EnvironmentStep
    PROVE  WakeInv'
<1>1. CASE \E t \in Tasks : WokenElsewhere(t)
  <2>1. Wakes(1) /\ UNCHANGED <<timers, reads, writes, cur, exec>>
    BY <1>1 DEF WokenElsewhere, interests, thread
  <2>2. 1 \in Nat /\ 1 > 0
    BY SMT
  <2>3. pipe' \in Nat /\ pipe' > 0
    BY <2>1, <2>2, WakesNat DEF WakeInv
  <2>4. QED
    BY <2>1, <2>3 DEF WakeInv
<1>2. CASE ~\E t \in Tasks : WokenElsewhere(t)
  <2>1. UNCHANGED <<pipe, timers, reads, writes, cur, exec, queued, pc>>
    BY <1>2 DEF EnvironmentStep, Arrives, HasRoom, Tick, interests, thread, tasks
  <2>2. QED
    BY <2>1 DEF WakeInv, Done
<1>3. QED
  BY <1>1, <1>2

LEMMA EnvironmentKeeps ==
    ASSUME EnvironmentStep
    PROVE  UNCHANGED <<backend, file, used, watched, registry, interests, tasks, cur, thread>>
BY DEF EnvironmentStep, Arrives, HasRoom, Tick, WokenElsewhere, interests, tasks, thread, kernel

\* The steps there are.
LEMMA AnyStep ==
    ASSUME AnyNext
    PROVE  \/ \E t \in Tasks : Step(t) \/ Yield(t) \/ Cancel(t)
           \/ ExpireTimers \/ BudgetUsed \/ Prepare \/ BeginWait \/ BeginPoll \/ EndWait \/ WaitFails
           \/ EnvironmentStep
BY DEF AnyNext, BusyNext, Next, Executor, Environment, EnvironmentStep, Tasks

-----------------------------------------------------------------------------
(* What the wait is given *)

\* The interests and the files are as they were when the wait was prepared.
LEMMA WaitKept ==
    ASSUME WaitInv, UNCHANGED <<backend, file, watched, reads, writes, exec, wait>>
    PROVE  WaitInv'
<1>1. FdsOf(reads') = FdsOf(reads) /\ FdsOf(writes') = FdsOf(writes)
  BY DEF FdsOf
<1>2. Wanted' = Wanted /\ \A i : Filters(i)' = Filters(i)
  BY DEF Wanted, Filters
<1>3. QED
  BY <1>1, <1>2 DEF WaitInv

LEMMA WaitInvKept ==
    ASSUME WakeInv, WaitInv, AnyNext
    PROVE  WaitInv'
<1>1. CASE exec' \in {"poll", "prepare"}
  BY <1>1 DEF WaitInv
<1>2. CASE \E t \in Tasks : Step(t) \/ Yield(t) \/ Cancel(t)
  BY <1>1, <1>2, InPoll
<1>3. CASE ExpireTimers \/ BudgetUsed \/ EndWait
  BY <1>1, <1>3 DEF ExpireTimers, BudgetUsed, EndWait, thread
<1>4. CASE Prepare
  <2>1. /\ wait'.read = FdsOf(reads) /\ wait'.write = FdsOf(writes) /\ exec' = "reconcile"
        /\ UNCHANGED <<reads, writes>>
    BY <1>4 DEF Prepare, interests
  <2>2. QED
    BY <2>1 DEF WaitInv, FdsOf
<1>5. CASE BeginWait
  <2>1. /\ exec = "reconcile" /\ exec' = "wait" /\ backend' = backend /\ backend # "poll"
        /\ UNCHANGED <<wait, reads, writes>>
    BY <1>5 DEF BeginWait, interests, kernel
  <2>2. QED
    BY <2>1 DEF WaitInv, FdsOf
<1>6. CASE BeginPoll
  <2>1. /\ exec = "reconcile" /\ exec' = "wait" /\ UNCHANGED <<file, wait, reads, writes>>
        /\ watched' = UNION {Filters(i) : i \in Wanted}
    BY <1>6 DEF BeginPoll, interests, kernel
  <2>2. Wanted' = Wanted /\ \A i : Filters(i)' = Filters(i)
    BY <2>1 DEF Wanted, Filters
  <2>3. \A i \in Wanted : Filters(i) \subseteq watched'
    BY <2>1
  <2>4. QED
    BY <2>1, <2>2, <2>3 DEF WaitInv, FdsOf
<1>7. CASE WaitFails
  <2>1. exec' = "panicked" /\ backend' = "epoll"
    BY <1>7 DEF WaitFails, EpollRefuses, kernel
  <2>2. QED
    BY <2>1 DEF WaitInv
<1>8. CASE EnvironmentStep
  BY <1>8, EnvironmentKeeps, WaitKept DEF interests, thread
<1>9. QED
  BY <1>2, <1>3, <1>4, <1>5, <1>6, <1>7, <1>8, AnyStep

LEMMA PollInvInductive ==
    /\ Init => PollInv
    /\ PollInv /\ [AnyNext]_vars => PollInv'
<1>1. ASSUME Init PROVE PollInv
  <2>1. /\ pipe = 0 /\ timers = {} /\ reads = {} /\ writes = {} /\ cur = None /\ exec = "poll"
    BY <1>1 DEF Init, InitReactor, InitTimers, InitInterests
  <2>2. 0 \in Nat
    BY SMT
  <2>3. QED
    BY <2>1, <2>2 DEF PollInv, WakeInv, WaitInv
<1>2. ASSUME PollInv, AnyNext PROVE PollInv'
  BY <1>2, AnyStep, TaskStepWakes, ExecutorWakes, EnvironmentWakes, WaitInvKept DEF PollInv
<1>3. ASSUME PollInv, UNCHANGED vars PROVE PollInv'
  BY <1>3, WaitKept DEF PollInv, vars, WakeInv, Done
<1>4. QED
  BY <1>1, <1>2, <1>3

\* Every step of the model, with the wait that may fail and tasks that yield for ever.
AnySpec == Init /\ [][AnyNext]_vars

\* While the executor is in the reactor's wait with a task in its ready queue, there is a byte in
\* the wake pipe, whatever was drained before: a thread that wakes a task after the queue was
\* found empty writes to the pipe after the last drain, and a full pipe holds a byte already.
THEOREM NeverSleepsThroughWake == AnySpec => []NoSleepThroughWake
<1>1. PollInv => NoSleepThroughWake
  BY DEF PollInv, WakeInv, NoSleepThroughWake
<1>2. QED
  BY PollInvInductive, <1>1, PTL DEF AnySpec

-----------------------------------------------------------------------------
(* Interests *)

\* A step of task t leaves the interests of other tasks as they are; t's own it gives up before
\* it goes on.
LEMMA InterestsKept ==
    ASSUME WakeInv, InterestInv, NEW t \in Tasks,
           pc' \in [Tasks -> States], sock' \in [Tasks -> (Fds \ {0}) \cup {None}],
           t \notin Sleepers \/ pc'[t] \in {"sleep", "asleep", "done"},
           \A u \in Tasks \ {t} : /\ pc'[u] = pc[u] /\ sock'[u] = sock[u]
                                  /\ u \in readyReads' => u \in readyReads
                                  /\ u \in readyWrites' => u \in readyWrites,
           \A i \in reads' : \/ i \in reads /\ i.task # t
                             \/ /\ i.task = t /\ pc'[t] = "readable" /\ i.fd = Fd(t)'
                                /\ t \notin readyReads',
           \A i \in writes' : \/ i \in writes /\ i.task # t
                              \/ /\ i.task = t /\ pc'[t] \in {"writable", "connecting"}
                                 /\ i.fd = Fd(t)' /\ t \notin readyWrites'
    PROVE  InterestInv'
<1>1. \A u \in Tasks \ {t} : Fd(u)' = Fd(u)
  BY DEF Fd
<1>2. \A i \in reads \cup writes : i.task \in Tasks
  BY DEF WakeInv
<1>3. Sleepers \subseteq Tasks
  BY DEF Tasks
<1>4. \A u \in Sleepers : pc'[u] \in {"sleep", "asleep", "done"}
  BY <1>3 DEF InterestInv
<1>5. \A i \in reads' : pc'[i.task] = "readable" /\ i.fd = Fd(i.task)' /\ i.task \notin readyReads'
  <2> SUFFICES ASSUME NEW i \in reads'
               PROVE  pc'[i.task] = "readable" /\ i.fd = Fd(i.task)' /\ i.task \notin readyReads'
    OBVIOUS
  <2>1. CASE i \in reads /\ i.task # t
    <3>1. i.task \in Tasks \ {t}
      BY <1>2, <2>1
    <3>2. QED
      BY <1>1, <2>1, <3>1, ZenonT(30) DEF InterestInv
  <2>2. CASE i.task = t
    BY <2>2, SMT
  <2>3. QED
    BY <2>1, <2>2
<1>6. \A i \in writes' : pc'[i.task] \in {"writable", "connecting"} /\ i.fd = Fd(i.task)'
                         /\ i.task \notin readyWrites'
  <2> SUFFICES ASSUME NEW i \in writes'
               PROVE  pc'[i.task] \in {"writable", "connecting"} /\ i.fd = Fd(i.task)' /\ i.task \notin readyWrites'
    OBVIOUS
  <2>1. CASE i \in writes /\ i.task # t
    <3>1. i.task \in Tasks \ {t}
      BY <1>2, <2>1
    <3>2. QED
      BY <1>1, <2>1, <3>1 DEF InterestInv
  <2>2. CASE i.task = t
    BY <2>2, SMT
  <2>3. QED
    BY <2>1, <2>2
<1>7. QED
  BY <1>4, <1>5, <1>6 DEF InterestInv

LEMMA StateSet ==
    ASSUME InterestInv, NEW t \in Tasks, NEW to \in States, pc' = [pc EXCEPT ![t] = to]
    PROVE  pc' \in [Tasks -> States] /\ pc'[t] = to /\ \A u \in Tasks \ {t} : pc'[u] = pc[u]
BY SMT DEF InterestInv

\* A task that is not waiting for a descriptor has no interest, and may change its state.
LEMMA InterestsOfOthers ==
    ASSUME WakeInv, InterestInv, NEW t \in Tasks, NEW to \in States, pc' = [pc EXCEPT ![t] = to],
           UNCHANGED interests, sock' \in [Tasks -> (Fds \ {0}) \cup {None}],
           \A u \in Tasks \ {t} : sock'[u] = sock[u],
           pc[t] \notin {"readable", "writable", "connecting"},
           t \notin Sleepers \/ to \in {"sleep", "asleep", "done"}
    PROVE  InterestInv'
<1>1. /\ pc' \in [Tasks -> States] /\ pc'[t] = to /\ \A u \in Tasks \ {t} : pc'[u] = pc[u]
  BY StateSet
<1>2. \A i \in reads \cup writes : i.task # t
  BY ZenonT(30) DEF InterestInv
<1>3. UNCHANGED <<reads, writes, readyReads, readyWrites>>
  BY DEF interests
<1>4. QED
  BY <1>1, <1>2, <1>3, InterestsKept

LEMMA InterestsSame ==
    ASSUME InterestInv, UNCHANGED <<interests, tasks>>
    PROVE  InterestInv'
BY DEF InterestInv, interests, tasks, Fd

\* A number given to a new socket is not the listener's.
LEMMA SmallestIsMember ==
    ASSUME NEW S, S \subseteq Nat, S # {}
    PROVE  Min(S) \in S
<1>1. IsWellFoundedOn({p \in Nat \X Nat : p[1] < p[2]}, Nat)
  BY NatLessThanWellFounded, SMT DEF OpToRel
<1> DEFINE R == {p \in Nat \X Nat : p[1] < p[2]}
<1>2. \A x, y \in Nat : x < y => <<x, y>> \in R
  BY SMT
<1>3. IsWellFoundedOn(R, Nat)
  BY <1>1
<1> HIDE DEF R
<1>4. \E x \in S : \A y \in S : ~(<<y, x>> \in R)
  BY ONLY <1>3, S \subseteq Nat, S # {}, WFMin, Zenon
<1>5. PICK x \in S : \A y \in S : ~(<<y, x>> \in R)
  BY <1>4
<1>6. \A y \in S : ~(y < x)
  BY <1>2, <1>5
<1>7. \A y \in S : x <= y
  BY <1>6, SMT
<1>8. QED
  BY <1>7 DEF Min

LEMMA FreshFd ==
    ASSUME ~Reuse, FreeFd # None
    PROVE  FreeFd \in Fds \ used
<1>1. FreeFd = IF Fds \ used = {} THEN None ELSE Min(Fds \ used)
  BY DEF FreeFd
<1>2. Fds \ used # {} /\ Fds \ used \subseteq Nat
  BY <1>1, ReactorAssumption
<1>3. QED
  BY <1>1, <1>2, SmallestIsMember

LEMMA SockOpened ==
    ASSUME ~Reuse, InterestInv, RegistryInv, NEW t \in Tasks, Opens(t)
    PROVE  /\ FreeFd \in Fds \ used /\ FreeFd # 0
           /\ sock' \in [Tasks -> (Fds \ {0}) \cup {None}] /\ sock'[t] = FreeFd
           /\ \A u \in Tasks \ {t} : sock'[u] = sock[u]
<1>1. FreeFd \in Fds \ used /\ FreeFd # 0
  BY FreshFd DEF Opens, RegistryInv
<1>2. sock' = [sock EXCEPT ![t] = FreeFd]
  BY DEF Opens
<1>3. QED
  BY <1>1, <1>2, SMT DEF InterestInv

LEMMA SockClosed ==
    ASSUME InterestInv, NEW t \in Tasks, Closes(t)
    PROVE  /\ sock' \in [Tasks -> (Fds \ {0}) \cup {None}] /\ sock'[t] = None
           /\ \A u \in Tasks \ {t} : sock'[u] = sock[u]
BY SMT DEF InterestInv, Closes

LEMMA TaskStepInterests ==
    ASSUME ~Reuse, WakeInv, InterestInv, RegistryInv, NEW t \in Tasks, Step(t) \/ Yield(t) \/ Cancel(t)
    PROVE  InterestInv'
<1>0. /\ pc \in [Tasks -> States] /\ sock \in [Tasks -> (Fds \ {0}) \cup {None}]
      /\ t \in Sleepers => pc[t] \in {"sleep", "asleep", "done"}
      /\ \A i \in reads : pc[i.task] = "readable" /\ i.fd = Fd(i.task) /\ i.task \notin readyReads
      /\ \A i \in writes :
           pc[i.task] \in {"writable", "connecting"} /\ i.fd = Fd(i.task) /\ i.task \notin readyWrites
  BY DEF InterestInv
<1>s. {"connect", "connecting", "accept", "read", "copy", "write", "readable", "writable", "close",
       "asleep", "done", "failed"} \subseteq States
  BY DEF States
<1>1. ASSUME NEW to \in States, pc' = [pc EXCEPT ![t] = to], UNCHANGED <<interests, sock>>,
             pc[t] \notin {"readable", "writable", "connecting", "sleep", "asleep", "done"}
      PROVE  InterestInv'
  BY <1>0, <1>1, InterestsOfOthers
<1>2. CASE Poll(t) \/ Yield(t)
  BY <1>2, InterestsSame DEF Poll, Yield
<1>3. CASE ConnectStart(t)
  BY <1>0, <1>3, <1>s, SockOpened, InterestsOfOthers DEF ConnectStart
<1>4. CASE Accept(t)
  BY <1>0, <1>4, <1>s, SockOpened, InterestsOfOthers DEF Accept
<1>5. CASE NoMoreFds(t)
  BY <1>1, <1>5, <1>s DEF NoMoreFds
<1>6. CASE Read(t)
  <2>1. PICK to \in {"close", "write"} : pc' = [pc EXCEPT ![t] = to]
    BY <1>6 DEF Read
  <2>2. QED
    BY <1>1, <1>6, <1>s, <2>1 DEF Read
<1>7. CASE ReadEnd(t)
  BY <1>1, <1>7, <1>s DEF ReadEnd
<1>8. CASE Write(t)
  <2>1. PICK to \in {"read", "copy"} : pc' = [pc EXCEPT ![t] = to]
    BY <1>8 DEF Write
  <2>2. QED
    BY <1>1, <1>8, <1>s, <2>1 DEF Write
<1>9. CASE WouldBlock(t)
  <2>1. PICK to \in {"readable", "writable"} : pc' = [pc EXCEPT ![t] = to]
    BY <1>9 DEF WouldBlock
  <2>2. QED
    BY <1>1, <1>9, <1>s, <2>1 DEF WouldBlock
<1>10. CASE Close(t)
  <2>1. PICK to \in {"connect", "accept"} : pc' = [pc EXCEPT ![t] = to]
    BY <1>10 DEF Close
  <2>2. QED
    BY <1>0, <1>10, <1>s, <2>1, SockClosed, InterestsOfOthers DEF Close
<1>11. CASE ReadableReady(t)
  <2>1. /\ t \in readyReads /\ pc[t] = "readable" /\ UNCHANGED <<reads, writes, sock, readyWrites>>
        /\ readyReads' = readyReads \ {t} /\ pc' = [pc EXCEPT ![t] = AfterReadable(t)]
    BY <1>11 DEF ReadableReady
  <2>2. pc' \in [Tasks -> States] /\ \A u \in Tasks \ {t} : pc'[u] = pc[u]
    BY <1>s, <2>1, StateSet DEF AfterReadable
  <2>3. t \notin Sleepers /\ \A i \in reads \cup writes : i.task # t
    BY <1>0, <2>1
  <2>4. QED
    BY <1>0, <2>1, <2>2, <2>3, InterestsKept
<1>12. CASE WritableReady(t)
  <2>1. /\ t \in readyWrites /\ pc[t] \in {"writable", "connecting"}
        /\ UNCHANGED <<reads, writes, sock, readyReads>> /\ readyWrites' = readyWrites \ {t}
    BY <1>12 DEF WritableReady
  <2>2. PICK to \in {"write", "close"} : pc' = [pc EXCEPT ![t] = to]
    BY <1>12 DEF WritableReady
  <2>3. pc' \in [Tasks -> States] /\ \A u \in Tasks \ {t} : pc'[u] = pc[u]
    BY <1>s, <2>2, StateSet
  <2>4. t \notin Sleepers /\ \A i \in reads \cup writes : i.task # t
    BY <1>0, <2>1
  <2>5. QED
    BY <1>0, <2>1, <2>3, <2>4, InterestsKept
<1>13. CASE ReadablePending(t)
  <2>1. /\ t \notin readyReads /\ pc[t] = "readable" /\ reads' = Register(reads, t)
        /\ UNCHANGED <<writes, readyReads, readyWrites, pc, sock>>
    BY <1>13 DEF ReadablePending, tasks
  <2>2. \A i \in reads' : (i \in reads /\ i.task # t) \/ (i.task = t /\ i.fd = Fd(t))
    BY <2>1, SMT DEF Register
  <2>3. Fd(t)' = Fd(t)
    BY <2>1 DEF Fd
  <2>4. t \notin Sleepers /\ \A i \in writes : i.task # t
    BY <1>0, <2>1
  <2>5. QED
    BY <1>0, <2>1, <2>2, <2>3, <2>4, InterestsKept
<1>14. CASE WritablePending(t)
  <2>1. /\ t \notin readyWrites /\ pc[t] \in {"writable", "connecting"} /\ writes' = Register(writes, t)
        /\ UNCHANGED <<reads, readyReads, readyWrites, pc, sock>>
    BY <1>14 DEF WritablePending, tasks
  <2>2. \A i \in writes' : (i \in writes /\ i.task # t) \/ (i.task = t /\ i.fd = Fd(t))
    BY <2>1, SMT DEF Register
  <2>3. Fd(t)' = Fd(t)
    BY <2>1 DEF Fd
  <2>4. t \notin Sleepers /\ \A i \in reads : i.task # t
    BY <1>0, <2>1
  <2>5. QED
    BY <1>0, <2>1, <2>2, <2>3, <2>4, InterestsKept
<1>15. CASE TimedOut(t) \/ Cancel(t)
  <2>1. /\ pc[t] \in {"readable", "writable", "connecting"} /\ pc' = [pc EXCEPT ![t] = "failed"]
        /\ reads' = Remove(reads, t) /\ writes' = Remove(writes, t) /\ Closes(t)
        /\ readyReads' = readyReads \ {t} /\ readyWrites' = readyWrites \ {t}
    BY <1>15 DEF TimedOut, Cancel, ForgetRead, ForgetWrite
  <2>2. pc' \in [Tasks -> States] /\ \A u \in Tasks \ {t} : pc'[u] = pc[u]
    BY <1>s, <2>1, StateSet
  <2>3. /\ \A i \in reads' : i \in reads /\ i.task # t
        /\ \A i \in writes' : i \in writes /\ i.task # t
    BY <2>1 DEF Remove
  <2>4. t \notin Sleepers
    BY <1>0, <2>1
  <2>5. QED
    BY <2>1, <2>2, <2>3, <2>4, SockClosed, InterestsKept
<1>16. CASE SleepPending(t) \/ SleepReady(t)
  <2>1. PICK to \in {"asleep", "done"} : pc' = [pc EXCEPT ![t] = to]
    BY <1>16 DEF SleepPending, SleepReady
  <2>2. t \in Sleepers /\ UNCHANGED <<interests, sock>>
    BY <1>16 DEF SleepPending, SleepReady
  <2>3. QED
    BY <1>0, <1>s, <2>1, <2>2, InterestsOfOthers
<1>17. QED
  BY <1>2, <1>3, <1>4, <1>5, <1>6, <1>7, <1>8, <1>9, <1>10, <1>11, <1>12, <1>13, <1>14, <1>15,
     <1>16 DEF Step

\* wake_ready takes the interests it finds ready out of the set.
LEMMA ExecutorInterests ==
    ASSUME WakeInv, InterestInv,
           ExpireTimers \/ BudgetUsed \/ Prepare \/ BeginWait \/ BeginPoll \/ EndWait \/ WaitFails
    PROVE  InterestInv'
<1>1. CASE ExpireTimers \/ BudgetUsed \/ Prepare \/ BeginWait \/ BeginPoll \/ WaitFails
  BY <1>1, InterestsSame DEF ExpireTimers, BudgetUsed, Prepare, BeginWait, BeginPoll, WaitFails
<1>2. CASE EndWait
  <2>1. /\ reads' = {i \in reads : i.task \notin WokenReads}
        /\ readyReads' = readyReads \cup WokenReads
        /\ writes' = {i \in writes : i.task \notin WokenWrites}
        /\ readyWrites' = readyWrites \cup WokenWrites
        /\ UNCHANGED <<pc, sock>>
    BY <1>2 DEF EndWait, Marked, tasks
  <2>2. QED
    BY <2>1 DEF InterestInv, Fd
<1>3. QED
  BY <1>1, <1>2

-----------------------------------------------------------------------------
(* The registry *)

\* What a registration asks for is told by its number, the file there and its uses.
LEMMA FilterOf ==
    ASSUME NEW i, NEW w \in Filters(i)
    PROVE  /\ w.fd = i.fd /\ w.file = file[i.fd]
           /\ IF w.filter = "read" THEN i.read ELSE i.write
           /\ \A r : r.fd = i.fd /\ (IF w.filter = "read" THEN r.read ELSE r.write) => w \in Filters(r)
<1>1. PICK f \in {"read", "write"} : /\ IF f = "read" THEN i.read ELSE i.write
                                     /\ w = [fd |-> i.fd, file |-> file[i.fd], filter |-> f]
  BY DEF Filters
<1>2. w.fd = i.fd /\ w.file = file[i.fd] /\ w.filter = f
  BY <1>1
<1>3. ASSUME NEW r, r.fd = i.fd, IF f = "read" THEN r.read ELSE r.write
      PROVE  w \in Filters(r)
  BY <1>1, <1>3 DEF Filters
<1>4. QED
  BY <1>1, <1>2, <1>3

LEMMA FilterThere ==
    ASSUME NEW r, r.read \/ r.write
    PROVE  \E w \in Filters(r) : w.fd = r.fd /\ w.file = file[r.fd]
<1>1. CASE r.read
  <2>1. [fd |-> r.fd, file |-> file[r.fd], filter |-> "read"] \in Filters(r)
    BY <1>1 DEF Filters
  <2>2. QED
    BY <2>1
<1>2. CASE r.write
  <2>1. [fd |-> r.fd, file |-> file[r.fd], filter |-> "write"] \in Filters(r)
    BY <1>2 DEF Filters
  <2>2. QED
    BY <2>1
<1>3. QED
  BY <1>1, <1>2

\* The wait asks for descriptors that are open, each once.
LEMMA WantedOpen ==
    ASSUME WakeInv, WaitInv, InterestInv, RegistryInv, exec = "reconcile"
    PROVE  /\ \A i \in Wanted : i.fd \in used /\ i.fd \in Opened /\ (i.read \/ i.write)
           /\ \A i, j \in Wanted : i.fd = j.fd => i = j
<1>1. \A t \in Tasks : Fd(t) \in used /\ Fd(t) \in Opened
  BY DEF Fd, RegistryInv, Opened
<1>2. wait.read = FdsOf(reads) /\ wait.write = FdsOf(writes)
  BY DEF WaitInv
<1>3. \A n \in wait.read \cup wait.write : n \in used /\ n \in Opened
  <2>1. \A i \in reads \cup writes : i.task \in Tasks /\ i.fd = Fd(i.task)
    BY DEF WakeInv, InterestInv
  <2>2. \A i \in reads \cup writes : i.fd \in used /\ i.fd \in Opened
    BY <1>1, <2>1
  <2>3. QED
    BY <1>2, <2>2 DEF FdsOf
<1>4. \A i \in Wanted : /\ i.fd \in wait.read \cup wait.write
                        /\ i = [fd |-> i.fd, read |-> i.fd \in wait.read, write |-> i.fd \in wait.write]
                        /\ i.read = (i.fd \in wait.read) /\ i.write = (i.fd \in wait.write)
  BY SMT DEF Wanted
<1>5. QED
  BY <1>3, <1>4

\* reconcile_epoll_interests and reconcile_kqueue_interests leave the kernel watching all that is
\* wanted, and all that the registry then has for it.
LEMMA ReconcileWatches ==
    ASSUME RegistryInv, ReconcileEpoll \/ ReconcileKqueue,
           \A i \in Wanted : i.fd \in used /\ i.fd \in Opened /\ (i.read \/ i.write),
           \A i, j \in Wanted : i.fd = j.fd => i = j
    PROVE  /\ \A i \in Wanted : Filters(i) \subseteq watched'
           /\ \A r \in registry' : r.fd \in used /\ (r.read \/ r.write) /\ Filters(r) \subseteq watched'
<1>0. Changed \subseteq Wanted
  BY DEF Changed
<1>1. ASSUME NEW w \in watched, NEW i \in Wanted, w.fd = i.fd PROVE w \in Unwatched
  BY <1>1 DEF Unwatched, Stale
<1>2. ASSUME NEW r \in registry, NEW i \in Wanted, i.fd = r.fd, \A j \in Changed : j.fd # r.fd
      PROVE  Filters(r) \subseteq watched'
  <2> SUFFICES ASSUME NEW w \in Filters(r) PROVE w \in watched'
    OBVIOUS
  <2>1. r.fd \in Opened
    BY <1>2
  <2>2. w \in watched /\ w.fd = r.fd
    BY <2>1, FilterOf DEF RegistryInv
  <2>3. w \in Unwatched
    BY <1>1, <1>2, <2>2
  <2>4. \A j \in Changed : w \notin FiltersDeleted(j)
    BY <1>2, <2>2 DEF FiltersDeleted
  <2>5. CASE ReconcileEpoll
    BY <1>2, <2>2, <2>3, <2>5 DEF ReconcileEpoll
  <2>6. CASE ReconcileKqueue
    BY <2>3, <2>4, <2>6 DEF ReconcileKqueue
  <2>7. QED
    BY <2>5, <2>6
<1>3. ASSUME NEW i \in Changed PROVE Filters(i) \subseteq watched'
  <2> SUFFICES ASSUME NEW w \in Filters(i) PROVE w \in watched'
    OBVIOUS
  <2>1. CASE ReconcileEpoll
    BY <2>1 DEF ReconcileEpoll
  <2>2. CASE ReconcileKqueue /\ w \in FiltersAdded(i)
    BY <2>2 DEF ReconcileKqueue
  <2>3. CASE ReconcileKqueue /\ w \notin FiltersAdded(i)
    <3>1. PICK r \in registry : r.fd = i.fd /\ (IF w.filter = "read" THEN r.read ELSE r.write)
      BY <2>3 DEF FiltersAdded, Known
    <3>2. w \in Filters(r) /\ w.fd = i.fd
      BY <3>1, FilterOf
    <3>3. w \in watched
      BY <1>0, <3>1, <3>2 DEF RegistryInv
    <3>4. w \in Unwatched
      BY <1>0, <1>1, <3>2, <3>3
    <3>5. ASSUME NEW j \in Changed PROVE w \notin FiltersDeleted(j)
      <4>1. CASE w.fd # j.fd
        BY <4>1 DEF FiltersDeleted
      <4>2. CASE w.fd = j.fd
        <5>1. j = i
          BY <1>0, <3>2, <4>2
        <5>2. QED
          BY <5>1 DEF FiltersDeleted
      <4>3. QED
        BY <4>1, <4>2
    <3>6. QED
      BY <2>3, <3>4, <3>5 DEF ReconcileKqueue
  <2>4. QED
    BY <2>1, <2>2, <2>3
<1>4. ASSUME NEW i \in Wanted PROVE Filters(i) \subseteq watched'
  <2>1. CASE i \in Changed
    BY <1>3, <2>1
  <2>2. CASE i \notin Changed
    <3>1. i \in registry /\ \A j \in Changed : j.fd # i.fd
      BY <1>0, <2>2 DEF Changed
    <3>2. QED
      BY <1>2, <3>1
  <2>3. QED
    BY <2>1, <2>2
<1>5. ASSUME NEW r \in registry'
      PROVE  r.fd \in used /\ (r.read \/ r.write) /\ Filters(r) \subseteq watched'
  <2>1. CASE r \in Changed
    BY <1>0, <1>3, <2>1
  <2>2. CASE r \notin Changed
    <3>1. r \in registry \ Stale /\ \A i \in Changed : r.fd # i.fd
      BY <2>2 DEF ReconcileEpoll, ReconcileKqueue, RegistryUpdated
    <3>2. PICK i \in Wanted : i.fd = r.fd
      BY <3>1 DEF Stale
    <3>3. QED
      BY <1>2, <3>1, <3>2 DEF RegistryInv
  <2>3. QED
    BY <2>1, <2>2
<1>6. QED
  BY <1>4, <1>5

\* epoll_ctl has what it is asked to modify.
LEMMA NothingRefused ==
    ASSUME RegistryInv, \A i \in Wanted : i.fd \in Opened
    PROVE  ~EpollRefuses
<1> SUFFICES ASSUME NEW i \in Changed, NEW r \in Known(i) PROVE Kept(i) # {}
  BY DEF EpollRefuses
<1>1. r \in registry /\ r.fd = i.fd /\ i.fd \in Opened
  BY DEF Known, Changed
<1>2. PICK w \in Filters(r) : w.fd = r.fd /\ w.file = file[r.fd]
  BY <1>1, FilterThere DEF RegistryInv
<1>3. w \in Kept(i)
  BY <1>1, <1>2 DEF RegistryInv, Kept
<1>4. QED
  BY <1>3

LEMMA FiltersSame ==
    ASSUME NEW r, file'[r.fd] = file[r.fd]
    PROVE  Filters(r)' = Filters(r)
BY DEF Filters

LEMMA RegistryKept ==
    ASSUME RegistryInv, UNCHANGED <<file, used, watched, registry, sock>>,
           exec' \notin {"wait", "panicked"} \/ UNCHANGED <<exec, wait>>
    PROVE  RegistryInv'
<1>1. Opened' = Opened /\ \A i : Filters(i)' = Filters(i)
  BY DEF Opened, Filters
<1>2. UNCHANGED wait => Wanted' = Wanted
  BY DEF Wanted
<1>3. QED
  BY <1>1, <1>2 DEF RegistryInv

\* A new socket's number was never registered.
LEMMA RegistryOpens ==
    ASSUME ~Reuse, InterestInv, RegistryInv, NEW t \in Tasks, Opens(t),
           UNCHANGED <<watched, registry>>, exec' = "poll"
    PROVE  RegistryInv'
<1>1. /\ FreeFd \in Fds \ used /\ sock'[t] = FreeFd /\ \A u \in Tasks \ {t} : sock'[u] = sock[u]
  BY SockOpened
<1>2. /\ file' = [file EXCEPT ![FreeFd] = FreeFile] /\ used' = used \cup {FreeFd}
  BY DEF Opens
<1>3. DOMAIN file' = Fds /\ \A n \in used : file'[n] = file[n]
  BY <1>1, <1>2, SMT DEF RegistryInv
<1>4. \A n \in used : n \in Opened' => n \in Opened
  BY <1>1 DEF Opened
<1>5. \A r \in registry : /\ r.fd \in used' /\ (r.read \/ r.write)
                          /\ r.fd \in Opened' => Filters(r)' \subseteq watched
  <2> SUFFICES ASSUME NEW r \in registry
               PROVE  /\ r.fd \in used' /\ (r.read \/ r.write)
                      /\ r.fd \in Opened' => Filters(r)' \subseteq watched
    OBVIOUS
  <2>1. r.fd \in used /\ (r.read \/ r.write) /\ (r.fd \in Opened => Filters(r) \subseteq watched)
    BY DEF RegistryInv
  <2>2. Filters(r)' = Filters(r)
    BY <1>3, <2>1, FiltersSame
  <2>3. QED
    BY <1>2, <1>4, <2>1, <2>2
<1>6. used' \subseteq Fds /\ 0 \in used' /\ \A u \in Tasks : sock'[u] # None => sock'[u] \in used'
  BY <1>1, <1>2 DEF RegistryInv
<1>7. \A u, v \in Tasks : sock'[u] = sock'[v] /\ sock'[u] # None => u = v
  BY <1>1 DEF RegistryInv
<1>8. QED
  BY <1>3, <1>5, <1>6, <1>7 DEF RegistryInv

\* A stream that is dropped takes its own registrations along and no other's.
LEMMA RegistryCloses ==
    ASSUME InterestInv, RegistryInv, NEW t \in Tasks, Closes(t), UNCHANGED <<used, registry>>,
           exec' = "poll"
    PROVE  RegistryInv'
<1>1. CASE sock[t] = None
  BY <1>1, RegistryKept DEF Closes
<1>2. CASE sock[t] # None
  <2>1. /\ file' = [file EXCEPT ![sock[t]] = None] /\ watched' = {w \in watched : w.fd # sock[t]}
    BY <1>2 DEF Closes
  <2>2. sock'[t] = None /\ \A u \in Tasks \ {t} : sock'[u] = sock[u]
    BY SockClosed
  <2>3. DOMAIN file' = Fds /\ \A n \in Fds \ {sock[t]} : file'[n] = file[n]
    BY <2>1, SMT DEF RegistryInv
  <2>4. None \notin Fds /\ sock[t] # 0
    BY <1>2, ReactorAssumption, SMT DEF InterestInv, None
  <2>5. ASSUME NEW n \in used, n \in Opened' PROVE n \in Opened /\ n # sock[t]
    <3>1. CASE n = 0
      BY <2>4, <3>1 DEF Opened
    <3>2. CASE n # 0
      <4>1. PICK u \in Tasks : n = sock'[u]
        BY <2>5, <3>2 DEF Opened
      <4>2. n # None
        BY <2>4 DEF RegistryInv
      <4>3. u # t /\ n = sock[u]
        BY <2>2, <4>1, <4>2
      <4>4. QED
        BY <1>2, <4>3 DEF Opened, RegistryInv
    <3>3. QED
      BY <3>1, <3>2
  <2>6. ASSUME NEW r \in registry, r.fd \in Opened' PROVE Filters(r)' \subseteq watched'
    <3>1. r.fd \in Opened /\ r.fd # sock[t] /\ r.fd \in Fds
      BY <2>5, <2>6 DEF RegistryInv
    <3>2. Filters(r)' = Filters(r) /\ Filters(r) \subseteq watched
      BY <2>3, <3>1, FiltersSame DEF RegistryInv
    <3>3. \A w \in Filters(r) : w.fd # sock[t]
      BY <3>1, FilterOf
    <3>4. QED
      BY <2>1, <3>2, <3>3
  <2>7. QED
    BY <2>2, <2>3, <2>6 DEF RegistryInv
<1>3. QED
  BY <1>1, <1>2

LEMMA TaskStepRegistry ==
    ASSUME ~Reuse, WakeInv, InterestInv, RegistryInv, NEW t \in Tasks, Step(t) \/ Yield(t) \/ Cancel(t)
    PROVE  RegistryInv'
<1>0. exec' = "poll"
  BY InPoll
<1>1. CASE ConnectStart(t) \/ Accept(t)
  BY <1>0, <1>1, RegistryOpens DEF ConnectStart, Accept
<1>2. CASE Close(t) \/ TimedOut(t) \/ Cancel(t)
  BY <1>0, <1>2, RegistryCloses DEF Close, TimedOut, Cancel
<1>3. CASE Poll(t) \/ NoMoreFds(t) \/ Read(t) \/ ReadEnd(t) \/ Write(t) \/ WouldBlock(t)
  BY <1>0, <1>3, RegistryKept DEF Poll, NoMoreFds, Read, ReadEnd, Write, WouldBlock, kernel, tasks
<1>4. CASE ReadableReady(t) \/ WritableReady(t) \/ ReadablePending(t) \/ WritablePending(t)
  BY <1>0, <1>4, RegistryKept
  DEF ReadableReady, WritableReady, ReadablePending, WritablePending, kernel, tasks
<1>5. CASE SleepPending(t) \/ SleepReady(t) \/ Yield(t)
  BY <1>0, <1>5, RegistryKept DEF SleepPending, SleepReady, Yield, kernel, tasks
<1>6. QED
  BY <1>1, <1>2, <1>3, <1>4, <1>5 DEF Step

LEMMA ExecutorRegistry ==
    ASSUME WakeInv, WaitInv, InterestInv, RegistryInv,
           ExpireTimers \/ BudgetUsed \/ Prepare \/ BeginWait \/ BeginPoll \/ EndWait \/ WaitFails
    PROVE  RegistryInv'
<1>1. CASE ExpireTimers \/ BudgetUsed \/ Prepare \/ EndWait
  <2>1. exec' \in {"poll", "prepare", "reconcile"}
    BY <1>1 DEF ExpireTimers, BudgetUsed, Prepare, EndWait, thread
  <2>2. QED
    BY <1>1, <2>1, RegistryKept DEF ExpireTimers, BudgetUsed, Prepare, EndWait, kernel, tasks
<1>2. ASSUME exec = "reconcile", exec' = "wait", UNCHANGED <<file, used, sock, wait>>,
             \A i \in Wanted : Filters(i) \subseteq watched',
             \A r \in registry' : r.fd \in used /\ (r.read \/ r.write) /\ Filters(r) \subseteq watched'
      PROVE  RegistryInv'
  <2>1. Opened' = Opened /\ Wanted' = Wanted /\ \A i : Filters(i)' = Filters(i)
    BY <1>2 DEF Opened, Wanted, Filters
  <2>2. QED
    BY <1>2, <2>1 DEF RegistryInv
<1>3. CASE BeginWait
  <2>1. /\ exec = "reconcile" /\ exec' = "wait" /\ UNCHANGED <<file, used, sock, wait>>
        /\ ReconcileEpoll \/ ReconcileKqueue
    BY <1>3 DEF BeginWait, kernel, tasks
  <2>2. QED
    BY <1>2, <2>1, WantedOpen, ReconcileWatches
<1>4. CASE BeginPoll
  <2>1. /\ exec = "reconcile" /\ exec' = "wait" /\ UNCHANGED <<file, used, sock, wait>>
        /\ watched' = UNION {Filters(i) : i \in Wanted} /\ registry' = Wanted
    BY <1>4 DEF BeginPoll, kernel, tasks
  <2>2. \A i \in Wanted : Filters(i) \subseteq watched'
    BY <2>1
  <2>3. QED
    BY <1>2, <2>1, <2>2, WantedOpen
<1>5. CASE WaitFails
  BY <1>5, WantedOpen, NothingRefused DEF WaitFails
<1>6. QED
  BY <1>1, <1>3, <1>4, <1>5

LEMMA InvInductive ==
    ASSUME ~Reuse
    PROVE  (Init => Inv) /\ (Inv /\ [AnyNext]_vars => Inv')
<1>1. ASSUME Init PROVE Inv
  <2>1. WakeInv /\ WaitInv
    BY <1>1, PollInvInductive DEF PollInv
  <2>2. /\ reads = {} /\ writes = {} /\ registry = {} /\ exec = "poll" /\ used = {0}
        /\ sock = [t \in Tasks |-> None] /\ DOMAIN file = Fds
    BY <1>1 DEF Init, InitReactor, InitInterests
  <2>3. pc = [t \in Tasks |-> CASE t \notin queued -> "done" [] t \in Clients -> "connect"
                               [] t \in Servers -> "accept" [] t \in Sleepers -> "sleep"
                               [] OTHER -> "yield"]
    BY <1>1 DEF Init
  <2>4. pc \in [Tasks -> States] /\ \A t \in Sleepers : pc[t] \in {"sleep", "done"}
    BY <2>3, ReactorAssumption, SMT DEF States, Tasks
  <2>5. InterestInv
    BY <2>2, <2>4 DEF InterestInv
  <2>6. 0 \in Fds
    BY ReactorAssumption
  <2>7. RegistryInv
    BY <2>2, <2>6 DEF RegistryInv
  <2>8. QED
    BY <2>1, <2>5, <2>7 DEF Inv
<1>2. ASSUME Inv, AnyNext PROVE Inv'
  <2>1. WakeInv' /\ WaitInv'
    BY <1>2, PollInvInductive DEF Inv, PollInv
  <2>2. InterestInv'
    BY <1>2, AnyStep, TaskStepInterests, ExecutorInterests, EnvironmentKeeps, InterestsSame DEF Inv
  <2>3. EnvironmentStep => RegistryInv'
    BY <1>2, EnvironmentKeeps, RegistryKept DEF Inv, tasks, thread
  <2>4. RegistryInv'
    BY <1>2, <2>3, AnyStep, TaskStepRegistry, ExecutorRegistry DEF Inv
  <2>5. QED
    BY <2>1, <2>2, <2>4 DEF Inv
<1>3. ASSUME Inv, UNCHANGED vars PROVE Inv'
  <2>1. WakeInv' /\ WaitInv'
    BY <1>3, PollInvInductive DEF Inv, PollInv
  <2>2. UNCHANGED <<interests, tasks, file, used, watched, registry, sock, exec, wait>>
    BY <1>3 DEF vars, interests, tasks
  <2>3. QED
    BY <1>3, <2>1, <2>2, InterestsSame, RegistryKept DEF Inv
<1>4. QED
  BY <1>1, <1>2, <1>3

LEMMA WantedWatched ==
    ASSUME WaitInv, exec = "wait" => \A i \in Wanted : Filters(i) \subseteq watched, exec # "panicked"
    PROVE  InterestWatched
<1>1. ASSUME exec = "wait", NEW i \in reads
      PROVE  [fd |-> i.fd, file |-> file[i.fd], filter |-> "read"] \in watched
  <2>1. i.fd \in wait.read
    BY <1>1 DEF WaitInv, FdsOf
  <2> DEFINE w == [fd |-> i.fd, read |-> i.fd \in wait.read, write |-> i.fd \in wait.write]
  <2>2. w \in Wanted /\ w.fd = i.fd /\ w.read
    BY <2>1 DEF Wanted
  <2> HIDE DEF w
  <2>3. [fd |-> i.fd, file |-> file[i.fd], filter |-> "read"] \in Filters(w)
    BY <2>2 DEF Filters
  <2>4. QED
    BY <1>1, <2>2, <2>3
<1>2. ASSUME exec = "wait", NEW i \in writes
      PROVE  [fd |-> i.fd, file |-> file[i.fd], filter |-> "write"] \in watched
  <2>1. i.fd \in wait.write
    BY <1>2 DEF WaitInv, FdsOf
  <2> DEFINE w == [fd |-> i.fd, read |-> i.fd \in wait.read, write |-> i.fd \in wait.write]
  <2>2. w \in Wanted /\ w.fd = i.fd /\ w.write
    BY <2>1 DEF Wanted
  <2> HIDE DEF w
  <2>3. [fd |-> i.fd, file |-> file[i.fd], filter |-> "write"] \in Filters(w)
    BY <2>2 DEF Filters
  <2>4. QED
    BY <1>2, <2>2, <2>3
<1>3. QED
  BY <1>1, <1>2 DEF InterestWatched

\* On every backend, as long as no descriptor number is used twice: while the executor sleeps, the
\* kernel watches each descriptor a future waits for, on the file that is open there, and
\* epoll_ctl refuses nothing.  The registry is trusted where it says that nothing has changed, and
\* it may be: what it has for a descriptor that is open, the kernel has.
THEOREM EveryInterestWatched ==
    ASSUME ~Reuse
    PROVE  AnySpec => []InterestWatched
<1>1. Inv => InterestWatched
  BY WantedWatched DEF Inv, RegistryInv
<1>2. QED
  BY InvInductive, <1>1, PTL DEF AnySpec

\* With poll(), which is given every descriptor with each call, this does not depend on numbers:
\* they may be closed and used again between two waits.
THEOREM EveryInterestPolled == AnySpec => [](backend = "poll" => InterestWatched)
<1>1. PollInv => (backend = "poll" => InterestWatched)
  BY WantedWatched DEF PollInv, WaitInv
<1>2. QED
  BY PollInvInductive, <1>1, PTL DEF AnySpec

-----------------------------------------------------------------------------
(* The scheduling groups.  Weighted selection starves no group.  BoundedWait is not     *)
(* inductive: it needs to be known that every counted poll was charged, except perhaps   *)
(* the one under way.                                                                    *)

\* the group of the task being polled has one poll that is not charged yet
Uncharged(h) == IF turn # NoJob /\ home[turn] = h THEN 1 ELSE 0

\* a counted poll of h raised its runtime, or is the one under way
Charged ==
    \A g, h \in GroupIds :
      g # h => served[g][h] + mark[g][h] <= virtual_runtime[h] + Uncharged(h)

\* where a task is known to be
Placed ==
    /\ \A g \in GroupIds : \A i \in 1 .. Len(ready_queue[g]) : home[ready_queue[g][i]] = g
    /\ \A j \in asleep : home[j] # -1
    /\ turn # NoJob => home[turn] # -1
    /\ charging => turn # NoJob
    /\ \A j \in Jobs : home[j] < group_count
    /\ \A g \in GroupIds : g >= group_count => virtual_runtime[g] = 0

GroupInv == GroupTypeOK /\ Placed /\ Charged /\ BoundedWait

(* The bound stated without subtraction. *)
Bound(g, h) == served[g][h] <= 1 \/ served[g][h] + mark[g][h] <= virtual_runtime[g] + 1

(* The two forms of the bound are the same for natural numbers. *)
LEMMA BoundArithmetic ==
    ASSUME NEW s \in Nat, NEW m \in Nat, NEW v \in Nat
    PROVE  (s <= 1 \/ s + m <= v + 1) <=> s <= 1 + (IF v < m THEN 0 ELSE v - m)
BY SMT

(* BoundedWait says Bound of every group that waits, before a step and after it. *)
LEMMA BoundSame ==
    /\ GroupTypeOK => (BoundedWait <=> \A g, h \in GroupIds : g # h /\ IsReady(g) => Bound(g, h))
    /\ GroupTypeOK' => (BoundedWait' <=> \A g, h \in GroupIds : g # h /\ IsReady(g)' => Bound(g, h)')
<1>1. ASSUME GroupTypeOK, NEW g \in GroupIds, NEW h \in GroupIds
      PROVE  Bound(g, h) <=>
               served[g][h] <= 1 + (IF virtual_runtime[g] < mark[g][h] THEN 0
                                    ELSE virtual_runtime[g] - mark[g][h])
    <2>1. served[g][h] \in Nat /\ mark[g][h] \in Nat /\ virtual_runtime[g] \in Nat
        BY <1>1, SMT DEF GroupTypeOK
    <2> QED
        BY <2>1, BoundArithmetic DEF Bound
<1>2. ASSUME GroupTypeOK', NEW g \in GroupIds, NEW h \in GroupIds
      PROVE  Bound(g, h)' <=>
               served'[g][h] <= 1 + (IF virtual_runtime'[g] < mark'[g][h] THEN 0
                                     ELSE virtual_runtime'[g] - mark'[g][h])
    <2>1. served'[g][h] \in Nat /\ mark'[g][h] \in Nat /\ virtual_runtime'[g] \in Nat
        BY <1>2, SMT DEF GroupTypeOK
    <2> QED
        BY <2>1, BoundArithmetic DEF Bound
<1>3. GroupTypeOK => (BoundedWait <=> \A g, h \in GroupIds : g # h /\ IsReady(g) => Bound(g, h))
    BY <1>1 DEF BoundedWait
<1>4. GroupTypeOK' => (BoundedWait' <=> \A g, h \in GroupIds : g # h /\ IsReady(g)' => Bound(g, h)')
    BY <1>2 DEF BoundedWait
<1> QED
    BY <1>3, <1>4

(* A fresh executor satisfies the invariant: nothing waits and nothing is counted. *)
LEMMA GroupInitInv == GroupInit => GroupInv
<1> SUFFICES ASSUME GroupInit PROVE GroupInv
    OBVIOUS
<1>1. 1 \in 1 .. MaxGroups /\ <<>> \in Seq(Jobs) /\ 0 \in Nat /\ DefaultShares \in ShareCounts
    BY GroupAssumption, SMT
<1>2. GroupTypeOK
    <2>1. mark \in [GroupIds -> [GroupIds -> Nat]] /\ served \in [GroupIds -> [GroupIds -> Nat]]
        BY <1>1 DEF GroupInit
    <2> QED
        BY <1>1, <2>1 DEF GroupInit, GroupTypeOK
<1>3. Placed
    BY SMT DEF GroupInit, Placed
<1>4. Charged
    BY SMT DEF GroupInit, Charged, Uncharged
<1>5. BoundedWait
    BY DEF GroupInit, BoundedWait, IsReady
<1> QED
    BY <1>2, <1>3, <1>4, <1>5 DEF GroupInv

(* Queueing a task of a group keeps types and places, and either leaves the counts alone, *)
(* in a queue that was not empty, or starts the group's counts at nothing.                *)
LEMMA PushFacts ==
    ASSUME GroupTypeOK, Placed, NEW j \in Jobs, NEW g \in GroupIds, push(j, g)
    PROVE  /\ ready_queue' \in [GroupIds -> Seq(Jobs)]
           /\ mark' \in [GroupIds -> [GroupIds -> Nat]]
           /\ served' \in [GroupIds -> [GroupIds -> Nat]]
           /\ \A x \in GroupIds : \A i \in 1 .. Len(ready_queue'[x]) :
                \/ i \in 1 .. Len(ready_queue[x]) /\ ready_queue'[x][i] = ready_queue[x][i]
                \/ x = g /\ ready_queue'[x][i] = j
           /\ \A x \in GroupIds \ {g} :
                ready_queue'[x] = ready_queue[x] /\ mark'[x] = mark[x] /\ served'[x] = served[x]
           /\ \/ IsReady(g) /\ mark' = mark /\ served' = served
              \/ mark'[g] = virtual_runtime /\ served'[g] = [h \in GroupIds |-> 0]
<1>1. /\ ready_queue \in [GroupIds -> Seq(Jobs)] /\ virtual_runtime \in [GroupIds -> Nat]
      /\ mark \in [GroupIds -> [GroupIds -> Nat]] /\ served \in [GroupIds -> [GroupIds -> Nat]]
    BY DEF GroupTypeOK
<1>2. ready_queue' = [ready_queue EXCEPT ![g] = Append(@, j)]
    BY DEF push
<1>3. \/ IsReady(g) /\ mark' = mark /\ served' = served
      \/ /\ mark' = [mark EXCEPT ![g] = virtual_runtime]
         /\ served' = [served EXCEPT ![g] = [h \in GroupIds |-> 0]]
    BY DEF push, Afresh
<1>4. ready_queue[g] \in Seq(Jobs) /\ Append(ready_queue[g], j) \in Seq(Jobs)
    BY <1>1, SMT
<1>5. ready_queue' \in [GroupIds -> Seq(Jobs)]
    BY <1>1, <1>2, <1>4
<1>6. /\ mark' \in [GroupIds -> [GroupIds -> Nat]]
      /\ served' \in [GroupIds -> [GroupIds -> Nat]]
    <2> DEFINE Counts == [GroupIds -> Nat]
    <2>1. virtual_runtime \in Counts /\ [h \in GroupIds |-> 0] \in Counts
        BY <1>1
    <2>2. mark \in [GroupIds -> Counts] /\ served \in [GroupIds -> Counts]
        BY <1>1
    <2> HIDE DEF Counts
    <2>3. mark' \in [GroupIds -> Counts] /\ served' \in [GroupIds -> Counts]
        BY <1>3, <2>1, <2>2
    <2> QED
        BY <2>3 DEF Counts
<1>7. ASSUME NEW x \in GroupIds, NEW i \in 1 .. Len(ready_queue'[x])
      PROVE  \/ i \in 1 .. Len(ready_queue[x]) /\ ready_queue'[x][i] = ready_queue[x][i]
             \/ x = g /\ ready_queue'[x][i] = j
    <2>1. CASE x = g
        <3>1. ready_queue'[x] = Append(ready_queue[g], j)
            BY <1>1, <1>2, <2>1
        <3> QED
            BY <1>4, <2>1, <3>1, SMT
    <2>2. CASE x # g
        BY <1>1, <1>2, <2>2
    <2> QED
        BY <2>1, <2>2
<1>8. \A x \in GroupIds \ {g} :
         ready_queue'[x] = ready_queue[x] /\ mark'[x] = mark[x] /\ served'[x] = served[x]
    BY <1>1, <1>2, <1>3
<1>9. \/ IsReady(g) /\ mark' = mark /\ served' = served
      \/ mark'[g] = virtual_runtime /\ served'[g] = [h \in GroupIds |-> 0]
    BY <1>1, <1>3
<1> QED
    BY <1>5, <1>6, <1>7, <1>8, <1>9

(* Queueing a task in its group leaves every queued task in the queue of its group. *)
LEMMA PushPlaced ==
    ASSUME GroupTypeOK, Placed, NEW j \in Jobs, NEW g \in GroupIds, push(j, g), home'[j] = g,
           \A y \in Jobs : home[y] # -1 => home'[y] = home[y]
    PROVE  \A x \in GroupIds : \A i \in 1 .. Len(ready_queue'[x]) : home'[ready_queue'[x][i]] = x
<1> SUFFICES ASSUME NEW x \in GroupIds, NEW i \in 1 .. Len(ready_queue'[x])
             PROVE  home'[ready_queue'[x][i]] = x
    OBVIOUS
<1>1. \/ i \in 1 .. Len(ready_queue[x]) /\ ready_queue'[x][i] = ready_queue[x][i]
      \/ x = g /\ ready_queue'[x][i] = j
    BY PushFacts, SMT
<1>2. CASE i \in 1 .. Len(ready_queue[x]) /\ ready_queue'[x][i] = ready_queue[x][i]
    <2>1. home[ready_queue[x][i]] = x
        BY <1>2 DEF Placed
    <2>2. x # -1
        BY SMT DEF GroupIds
    <2>3. ready_queue[x][i] \in Jobs
        <3>1. ready_queue[x] \in Seq(Jobs)
            BY DEF GroupTypeOK
        <3> QED
            BY <1>2, <3>1, SMT
    <2> QED
        BY <1>2, <2>1, <2>2, <2>3
<1> QED
    BY <1>1, <1>2

(* Queueing a task keeps the counts charged and the waits bounded. *)
LEMMA PushKeeps ==
    ASSUME GroupInv, GroupTypeOK', NEW j \in Jobs, NEW g \in GroupIds, push(j, g),
           virtual_runtime' = virtual_runtime,
           \A h \in GroupIds : Uncharged(h)' = Uncharged(h)
    PROVE  Charged' /\ BoundedWait'
<1>1. GroupTypeOK /\ Placed /\ Charged /\ BoundedWait
    BY DEF GroupInv
<1>2. /\ \A x \in GroupIds \ {g} :
           ready_queue'[x] = ready_queue[x] /\ mark'[x] = mark[x] /\ served'[x] = served[x]
      /\ \/ IsReady(g) /\ mark' = mark /\ served' = served
         \/ mark'[g] = virtual_runtime /\ served'[g] = [h \in GroupIds |-> 0]
    BY <1>1, PushFacts
<1>3. ASSUME NEW x \in GroupIds, NEW h \in GroupIds
      PROVE  \/ served'[x][h] = served[x][h] /\ mark'[x][h] = mark[x][h] /\ (IsReady(x)' => IsReady(x))
             \/ served'[x][h] = 0 /\ mark'[x][h] = virtual_runtime[h]
    BY <1>2, SMT DEF IsReady
<1>4. \A h \in GroupIds : Uncharged(h) \in Nat
    BY DEF Uncharged
<1>5. Charged'
    <2> SUFFICES ASSUME NEW x \in GroupIds, NEW h \in GroupIds, x # h
                 PROVE  served'[x][h] + mark'[x][h] <= virtual_runtime'[h] + Uncharged(h)'
        BY DEF Charged
    <2>1. served[x][h] + mark[x][h] <= virtual_runtime[h] + Uncharged(h)
        BY <1>1 DEF Charged
    <2>2. virtual_runtime[h] \in Nat
        BY <1>1 DEF GroupTypeOK
    <2>3. Uncharged(h)' = Uncharged(h) /\ Uncharged(h) \in Nat
        BY <1>4
    <2> QED
        BY <1>3, <2>1, <2>2, <2>3, SMT
<1>6. \A x, h \in GroupIds : x # h /\ IsReady(x)' => Bound(x, h)'
    <2> SUFFICES ASSUME NEW x \in GroupIds, NEW h \in GroupIds, x # h, IsReady(x)'
                 PROVE  Bound(x, h)'
        OBVIOUS
    <2>1. IsReady(x) => Bound(x, h)
        BY <1>1, BoundSame
    <2> QED
        BY <1>3, <2>1, SMT DEF Bound
<1>7. BoundedWait'
    BY <1>6, BoundSame
<1> QED
    BY <1>5, <1>7

(* Every step of the executor and of its callers preserves the invariant. *)
LEMMA GroupNextInv ==
    ASSUME GroupInv, [GroupNext]_groupVars
    PROVE  GroupInv'
<1> USE GroupAssumption
<1>0. GroupTypeOK /\ Placed /\ Charged /\ BoundedWait
    BY DEF GroupInv
<1>1. ASSUME NEW s \in ShareCounts, create_scheduling_group(s)
      PROVE  GroupInv'
    <2>1. PICK v \in 0 .. virtual_runtime[0] :
            IsMinimum(v) /\ virtual_runtime' = [virtual_runtime EXCEPT ![group_count] = v]
        BY <1>1 DEF create_scheduling_group
    <2>2. v \in Nat /\ group_count \in GroupIds /\ virtual_runtime \in [GroupIds -> Nat]
        <3>1. group_count \in 1 .. MaxGroups /\ group_count < MaxGroups /\ virtual_runtime \in [GroupIds -> Nat]
            BY <1>0, <1>1 DEF create_scheduling_group, GroupTypeOK
        <3>2. group_count \in GroupIds /\ 0 \in GroupIds
            BY <3>1, SMT DEF GroupIds
        <3>3. virtual_runtime[0] \in Nat
            BY <3>1, <3>2
        <3> QED
            BY <3>1, <3>2, <3>3, SMT
    <2>3. \A g \in GroupIds : virtual_runtime'[g] \in Nat /\ virtual_runtime[g] <= virtual_runtime'[g]
        <3>1. virtual_runtime[group_count] = 0
            BY <1>0, <2>2, SMT DEF Placed, GroupTypeOK
        <3> QED
            BY <2>1, <2>2, <3>1, SMTT(30)
    <2>4. /\ group_count' = group_count + 1 /\ shares' = [shares EXCEPT ![group_count] = s]
          /\ UNCHANGED <<ready_queue, home, asleep, over, turn, charging, mark, served>>
        BY <1>1 DEF create_scheduling_group
    <2>5. GroupTypeOK'
        <3>1. virtual_runtime' \in [GroupIds -> Nat] /\ shares' \in [GroupIds -> ShareCounts]
            BY <1>0, <1>1, <2>1, <2>2, <2>4 DEF GroupTypeOK
        <3>2. group_count' \in 1 .. MaxGroups
            BY <1>0, <1>1, <2>4, SMT DEF GroupTypeOK, create_scheduling_group
        <3> QED
            BY <1>0, <2>4, <3>1, <3>2 DEF GroupTypeOK
    <2>6. Placed'
        <3>1. group_count \in Nat /\ home \in [Jobs -> GroupIds \cup {-1}]
            BY <1>0, SMT DEF GroupTypeOK
        <3>2. \A j \in Jobs : home'[j] < group_count'
            <4> TAKE j \in Jobs
            <4>1. home[j] \in Int /\ home[j] < group_count
                BY <1>0, <3>1, SMT DEF Placed, GroupIds
            <4> QED
                BY <2>4, <3>1, <4>1, SMT
        <3>3. \A g \in GroupIds : g >= group_count' => virtual_runtime'[g] = 0
            <4> TAKE g \in GroupIds
            <4> HAVE g >= group_count'
            <4>1. g \in Int /\ g >= group_count /\ g # group_count
                BY <2>4, <3>1, SMT DEF GroupIds
            <4> QED
                BY <1>0, <2>1, <2>2, <4>1 DEF Placed
        <3> QED
            BY <1>0, <2>4, <3>2, <3>3 DEF Placed
    <2>7. Charged'
        <3> SUFFICES ASSUME NEW x \in GroupIds, NEW h \in GroupIds, x # h
                     PROVE  served'[x][h] + mark'[x][h] <= virtual_runtime'[h] + Uncharged(h)'
            BY DEF Charged
        <3>1. served[x][h] + mark[x][h] <= virtual_runtime[h] + Uncharged(h)
            BY <1>0 DEF Charged
        <3>2. Uncharged(h)' = Uncharged(h) /\ Uncharged(h) \in Nat
            BY <2>4 DEF Uncharged
        <3>3. served[x][h] \in Nat /\ mark[x][h] \in Nat /\ virtual_runtime[h] \in Nat
            BY <1>0, SMT DEF GroupTypeOK
        <3> QED
            BY <2>3, <2>4, <3>1, <3>2, <3>3, SMT
    <2>8. \A x, h \in GroupIds : x # h /\ IsReady(x)' => Bound(x, h)'
        <3> SUFFICES ASSUME NEW x \in GroupIds, NEW h \in GroupIds, x # h, IsReady(x)'
                     PROVE  Bound(x, h)'
            OBVIOUS
        <3>1. Bound(x, h)
            BY <1>0, <2>4, BoundSame DEF IsReady
        <3>2. served[x][h] \in Nat /\ mark[x][h] \in Nat /\ virtual_runtime[x] \in Nat
            BY <1>0, SMT DEF GroupTypeOK
        <3> QED
            BY <2>3, <2>4, <3>1, <3>2, SMT DEF Bound
    <2> QED
        BY <2>5, <2>6, <2>7, <2>8, BoundSame DEF GroupInv
<1>2. ASSUME NEW j \in Jobs, NEW group \in Handles, spawn_in_group(j, group)
      PROVE  GroupInv'
    <2>1. PICK g \in GroupIds :
            /\ push(j, g) /\ home[j] = -1 /\ g < group_count
            /\ home' = [home EXCEPT ![j] = g]
            /\ UNCHANGED <<group_count, shares, virtual_runtime, asleep, over, turn, charging>>
        <3>1. group.id \in GroupIds
            BY SMT DEF Handles, GroupIds
        <3> QED
            BY <1>2, <3>1 DEF spawn_in_group
    <2>2. GroupTypeOK'
        BY <1>0, <2>1, PushFacts DEF GroupTypeOK
    <2>3. \A h \in GroupIds : Uncharged(h)' = Uncharged(h)
        BY <1>0, <2>1 DEF Uncharged, Placed, GroupTypeOK
    <2>4. Placed'
        <3>1. \A y \in Jobs : home'[y] = home[y] \/ (y = j /\ home'[y] = g)
            <4>1. home \in [Jobs -> GroupIds \cup {-1}]
                BY <1>0 DEF GroupTypeOK
            <4> TAKE y \in Jobs
            <4>2. CASE y = j
                BY <2>1, <4>1, <4>2
            <4>3. CASE y # j
                BY <2>1, <4>1, <4>3
            <4> QED
                BY <4>2, <4>3
        <3>2. \A x \in GroupIds : \A i \in 1 .. Len(ready_queue'[x]) : home'[ready_queue'[x][i]] = x
            <4>1. home'[j] = g /\ \A y \in Jobs : home[y] # -1 => home'[y] = home[y]
                <5>1. home \in [Jobs -> GroupIds \cup {-1}] /\ home[j] = -1
                    BY <1>0, <2>1 DEF GroupTypeOK
                <5>2. home'[j] = g
                    BY <2>1, <5>1
                <5>3. ASSUME NEW y \in Jobs, home[y] # -1 PROVE home'[y] = home[y]
                    <6>1. y # j
                        BY <5>1, <5>3
                    <6> QED
                        BY <3>1, <6>1
                <5> QED
                    BY <5>2, <5>3
            <4>2. push(j, g)
                BY <2>1
            <4> QED
                BY <1>0, <4>1, <4>2, PushPlaced
        <3>3. g # -1
            BY <2>1, SMT DEF GroupIds
        <3>4. \A y \in Jobs : home'[y] < group_count'
            BY <1>0, <2>1, <3>1 DEF Placed
        <3>5. \A y \in asleep : home'[y] # -1
            BY <1>0, <3>1, <3>3 DEF Placed, GroupTypeOK
        <3>6. turn # NoJob => home'[turn] # -1
            BY <1>0, <3>1, <3>3 DEF Placed, GroupTypeOK
        <3> QED
            <4>1. \A y \in asleep' : home'[y] # -1
                BY <2>1, <3>5
            <4>2. turn' # NoJob => home'[turn'] # -1
                BY <2>1, <3>6
            <4>3. (charging' => turn' # NoJob) /\ \A x \in GroupIds : x >= group_count' => virtual_runtime'[x] = 0
                BY <1>0, <2>1 DEF Placed
            <4> QED
                BY <3>2, <3>4, <4>1, <4>2, <4>3 DEF Placed
    <2> QED
        BY <1>0, <2>1, <2>2, <2>3, <2>4, PushKeeps DEF GroupInv
<1>3. ASSUME NEW j \in Jobs, WakeJob(j)
      PROVE  GroupInv'
    <2>1. /\ j \in asleep /\ home[j] \in GroupIds /\ push(j, home[j]) /\ asleep' = asleep \ {j}
          /\ UNCHANGED <<group_count, shares, virtual_runtime, home, over, turn, charging>>
        BY <1>0, <1>3 DEF WakeJob, Placed, GroupTypeOK
    <2>2. GroupTypeOK'
        BY <1>0, <2>1, PushFacts DEF GroupTypeOK
    <2>3. \A h \in GroupIds : Uncharged(h)' = Uncharged(h)
        BY <2>1 DEF Uncharged
    <2>4. Placed'
        <3>1. \A x \in GroupIds : \A i \in 1 .. Len(ready_queue'[x]) : home'[ready_queue'[x][i]] = x
            BY <1>0, <2>1, PushPlaced
        <3> QED
            BY <1>0, <2>1, <3>1 DEF Placed
    <2> QED
        BY <1>0, <2>1, <2>2, <2>3, <2>4, PushKeeps DEF GroupInv
<1>4. ASSUME NEW j \in Jobs, AbortJob(j)
      PROVE  GroupInv'
    <2>1. /\ over' = over \cup {j} /\ asleep' = asleep \ {j}
          /\ UNCHANGED <<group_count, shares, virtual_runtime, ready_queue, home, turn, charging, mark, served>>
        BY <1>4 DEF AbortJob
    <2>2. GroupTypeOK'
        BY <1>0, <2>1 DEF GroupTypeOK
    <2>3. Placed'
        BY <1>0, <2>1 DEF Placed
    <2>4. Charged' /\ BoundedWait'
        BY <1>0, <2>1 DEF Charged, Uncharged, BoundedWait, IsReady
    <2> QED
        BY <2>2, <2>3, <2>4 DEF GroupInv
<1>5. ASSUME NEW h \in GroupIds, next_task(h)
      PROVE  GroupInv'
    <2> DEFINE j == Head(ready_queue[h])
    <2>1. /\ turn = NoJob /\ Chosen(h) /\ IsReady(h)
          /\ ready_queue' = [ready_queue EXCEPT ![h] = Tail(@)]
          /\ turn' = IF j \in over THEN NoJob ELSE j
          /\ mark' = [mark EXCEPT ![h] = virtual_runtime]
          /\ UNCHANGED <<group_count, shares, virtual_runtime, home, asleep, over, charging>>
        BY <1>5 DEF next_task, Chosen
    <2>2. served' = [g \in GroupIds |->
                       IF g = h THEN [x \in GroupIds |-> 0]
                       ELSE IF j \notin over /\ IsReady(g) THEN [served[g] EXCEPT ![h] = @ + 1]
                       ELSE served[g]]
        BY <1>5 DEF next_task
    <2>3. ready_queue[h] \in Seq(Jobs) /\ ready_queue[h] # <<>> /\ j \in Jobs /\ home[j] = h
        <3>1. ready_queue[h] \in Seq(Jobs) /\ ready_queue[h] # <<>>
            BY <1>0, <2>1 DEF GroupTypeOK, IsReady
        <3>2. 1 \in 1 .. Len(ready_queue[h]) /\ j = ready_queue[h][1] /\ j \in Jobs
            BY <3>1, SMT
        <3> QED
            BY <1>0, <3>1, <3>2, SMT DEF Placed
    <2> HIDE DEF j
    <2>4. GroupTypeOK'
        <3> DEFINE Counts == [GroupIds -> Nat]
        <3>1. virtual_runtime \in Counts /\ mark \in [GroupIds -> Counts]
            BY <1>0 DEF GroupTypeOK
        <3>2. served' \in [GroupIds -> [GroupIds -> Nat]]
            <4>1. \A g \in GroupIds : served[g] \in [GroupIds -> Nat] /\ served[g][h] + 1 \in Nat
                BY <1>0, SMTT(30) DEF GroupTypeOK
            <4>2. \A g \in GroupIds : [served[g] EXCEPT ![h] = @ + 1] \in [GroupIds -> Nat]
                BY <4>1
            <4> QED
                BY <2>2, <4>1, <4>2
        <3>3. ready_queue' \in [GroupIds -> Seq(Jobs)]
            <4>1. Tail(ready_queue[h]) \in Seq(Jobs)
                BY <2>3, SMT
            <4> QED
                BY <1>0, <2>1, <4>1 DEF GroupTypeOK
        <3> HIDE DEF Counts
        <3>4. mark' \in [GroupIds -> Counts]
            BY <2>1, <3>1
        <3>5. mark' \in [GroupIds -> [GroupIds -> Nat]]
            BY <3>4 DEF Counts
        <3> QED
            BY <1>0, <2>1, <2>3, <3>2, <3>3, <3>5 DEF GroupTypeOK
    <2>5. Placed'
        <3>1. ASSUME NEW x \in GroupIds, NEW i \in 1 .. Len(ready_queue'[x])
              PROVE  home[ready_queue'[x][i]] = x
            <4>1. CASE x = h
                <5>1. ready_queue'[x] = Tail(ready_queue[h])
                    BY <1>0, <2>1, <4>1 DEF GroupTypeOK
                <5>2. i + 1 \in 1 .. Len(ready_queue[h]) /\ ready_queue'[x][i] = ready_queue[h][i + 1]
                    BY <2>3, <5>1, SMT
                <5> QED
                    BY <1>0, <4>1, <5>2, SMT DEF Placed
            <4>2. CASE x # h
                BY <1>0, <2>1, <4>2 DEF Placed, GroupTypeOK
            <4> QED
                BY <4>1, <4>2
        <3>2. turn' # NoJob => home'[turn'] # -1
            BY <2>1, <2>3, SMT DEF GroupIds
        <3>3. ~charging
            BY <1>0, <2>1 DEF Placed
        <3> QED
            BY <1>0, <2>1, <3>1, <3>2, <3>3 DEF Placed
    <2>6. ASSUME NEW x \in GroupIds, NEW y \in GroupIds
          PROVE  /\ served[x][y] \in Nat /\ mark[x][y] \in Nat
                 /\ virtual_runtime[x] \in Nat /\ virtual_runtime[y] \in Nat
                 /\ \/ x = h /\ served'[x][y] = 0 /\ mark'[x][y] = virtual_runtime[y]
                    \/ x # h /\ mark'[x][y] = mark[x][y] /\ served'[x][y] = served[x][y]
                    \/ /\ x # h /\ y = h /\ j \notin over /\ IsReady(x)
                       /\ mark'[x][y] = mark[x][y] /\ served'[x][y] = served[x][y] + 1
        BY <1>0, <2>1, <2>2, SMTT(30) DEF GroupTypeOK
    <2>7. ASSUME NEW x \in GroupIds, NEW y \in GroupIds, x # y
          PROVE  served[x][y] + mark[x][y] <= virtual_runtime[y]
        <3>1. Uncharged(y) = 0
            BY <2>1 DEF Uncharged
        <3> QED
            BY <1>0, <2>6, <2>7, <3>1, SMTT(30) DEF Charged
    <2>8. Charged'
        <3> SUFFICES ASSUME NEW x \in GroupIds, NEW y \in GroupIds, x # y
                     PROVE  served'[x][y] + mark'[x][y] <= virtual_runtime'[y] + Uncharged(y)'
            BY DEF Charged
        <3>1. Uncharged(y)' \in Nat
            BY DEF Uncharged
        <3>2. j \notin over => Uncharged(h)' = 1
            BY <2>1, <2>3 DEF Uncharged
        <3>3. served[x][y] + mark[x][y] <= virtual_runtime[y] /\ virtual_runtime' = virtual_runtime
            BY <2>1, <2>7
        <3>4. CASE x = h
            BY <2>6, <3>1, <3>3, <3>4, SMTT(30)
        <3>5. CASE mark'[x][y] = mark[x][y] /\ served'[x][y] = served[x][y]
            BY <2>6, <3>1, <3>3, <3>5, SMTT(30)
        <3>6. CASE /\ y = h /\ j \notin over
                   /\ mark'[x][y] = mark[x][y] /\ served'[x][y] = served[x][y] + 1
            BY <2>6, <3>2, <3>3, <3>6, SMTT(30)
        <3> QED
            BY <2>6, <3>4, <3>5, <3>6
    <2>9. \A x, y \in GroupIds : x # y /\ IsReady(x)' => Bound(x, y)'
        <3> SUFFICES ASSUME NEW x \in GroupIds, NEW y \in GroupIds, x # y, IsReady(x)'
                     PROVE  Bound(x, y)'
            OBVIOUS
        <3>1. x # h => IsReady(x) /\ Bound(x, y)
            <4>1. ready_queue \in [GroupIds -> Seq(Jobs)]
                BY <1>0 DEF GroupTypeOK
            <4>2. x # h => IsReady(x)
                BY <2>1, <4>1 DEF IsReady
            <4> QED
                BY <1>0, <4>2, BoundSame
        <3>2. IsReady(x) => virtual_runtime[h] <= virtual_runtime[x]
            <4>1. virtual_runtime[h] \in Nat /\ virtual_runtime[x] \in Nat
                BY <2>6
            <4> QED
                BY <2>1, <4>1, SMT DEF Chosen
        <3>3. served[x][y] + mark[x][y] <= virtual_runtime[y] /\ virtual_runtime' = virtual_runtime
            BY <2>1, <2>7
        <3>4. CASE x = h
            BY <2>6, <3>4, SMT DEF Bound
        <3>5. CASE x # h /\ mark'[x][y] = mark[x][y] /\ served'[x][y] = served[x][y]
            BY <3>1, <3>3, <3>5 DEF Bound
        <3>6. CASE /\ x # h /\ y = h /\ mark'[x][y] = mark[x][y]
                   /\ served'[x][y] = served[x][y] + 1
            <4>1. virtual_runtime[y] <= virtual_runtime[x]
                BY <3>1, <3>2, <3>6
            <4> QED
                BY <2>6, <3>3, <3>6, <4>1, SMT DEF Bound
        <3> QED
            BY <2>6, <3>4, <3>5, <3>6
    <2> QED
        BY <2>4, <2>5, <2>8, <2>9, BoundSame DEF GroupInv
<1>6. ASSUME NEW how \in {"woken", "pending", "complete"}, EndPoll(how)
      PROVE  GroupInv'
    <2>1. /\ turn \in Jobs /\ turn # NoJob /\ home[turn] \in GroupIds /\ charging' = TRUE
          /\ asleep' \subseteq asleep \cup {turn} /\ over' \subseteq over \cup {turn}
          /\ UNCHANGED <<group_count, shares, virtual_runtime, home, turn>>
        BY <1>0, <1>6 DEF EndPoll, Placed, GroupTypeOK
    <2>2. \A h \in GroupIds : Uncharged(h)' = Uncharged(h)
        BY <2>1 DEF Uncharged
    <2>3. CASE push(turn, home[turn])
        <3>1. GroupTypeOK'
            BY <1>0, <2>1, <2>3, PushFacts, SMTT(30) DEF GroupTypeOK
        <3>2. \A x \in GroupIds : \A i \in 1 .. Len(ready_queue'[x]) : home'[ready_queue'[x][i]] = x
            BY <1>0, <2>1, <2>3, PushPlaced
        <3>3. Placed'
            BY <1>0, <2>1, <3>2 DEF Placed, GroupIds
        <3> QED
            BY <1>0, <2>1, <2>2, <2>3, <3>1, <3>3, PushKeeps DEF GroupInv
    <2>4. CASE UNCHANGED <<ready_queue, mark, served>>
        <3>1. GroupTypeOK'
            BY <1>0, <2>1, <2>4 DEF GroupTypeOK
        <3>2. Placed'
            <4>1. home[turn] # -1
                BY <2>1, SMT DEF GroupIds
            <4> QED
                BY <1>0, <2>1, <2>4, <4>1 DEF Placed
        <3>3. Charged'
            BY <1>0, <2>1, <2>2, <2>4 DEF Charged
        <3>4. BoundedWait'
            BY <1>0, <2>1, <2>4 DEF BoundedWait, IsReady
        <3> QED
            BY <3>1, <3>2, <3>3, <3>4 DEF GroupInv
    <2> QED
        BY <1>6, <2>3, <2>4 DEF EndPoll
<1>7. ASSUME NEW n \in PollTimes, record_task_poll(n)
      PROVE  GroupInv'
    <2> DEFINE k == home[turn]
               c == Charge(n, shares[k])
    <2>1. /\ turn \in Jobs /\ turn # NoJob /\ k \in GroupIds /\ k < group_count
          /\ virtual_runtime' = [virtual_runtime EXCEPT ![k] = @ + c]
          /\ turn' = NoJob /\ charging' = FALSE
          /\ UNCHANGED <<group_count, shares, ready_queue, home, asleep, over, mark, served>>
        BY <1>0, <1>7 DEF record_task_poll, Placed, GroupTypeOK
    <2>2. c \in Nat /\ c >= 1
        <3>1. shares[k] \in ShareCounts
            BY <1>0, <2>1 DEF GroupTypeOK
        <3>2. c \in Nat \ {0}
            BY <3>1
        <3> QED
            BY <3>2, SMT
    <2>3. Uncharged(k) = 1 /\ \A h \in GroupIds : h # k => Uncharged(h) = 0
        BY <2>1 DEF Uncharged
    <2> HIDE DEF k, c
    <2>4. \A h \in GroupIds : /\ virtual_runtime[h] \in Nat
                              /\ virtual_runtime'[h] = IF h = k THEN virtual_runtime[h] + c
                                                       ELSE virtual_runtime[h]
        BY <1>0, <2>1 DEF GroupTypeOK
    <2>5. GroupTypeOK'
        <3>1. virtual_runtime' \in [GroupIds -> Nat]
            BY <1>0, <2>1, <2>2, <2>4, SMTT(30) DEF GroupTypeOK
        <3> QED
            BY <1>0, <2>1, <3>1 DEF GroupTypeOK
    <2>6. Placed'
        <3>1. \A g \in GroupIds : g >= group_count' => virtual_runtime'[g] = 0
            <4> TAKE g \in GroupIds
            <4> HAVE g >= group_count'
            <4>1. g \in Int /\ k \in Int /\ group_count \in Int
                BY <1>0, <2>1, SMTT(30) DEF GroupIds, GroupTypeOK
            <4>2. g # k
                BY <2>1, <4>1, SMTT(30)
            <4> QED
                BY <1>0, <2>1, <2>4, <4>2 DEF Placed
        <3> QED
            BY <1>0, <2>1, <3>1 DEF Placed
    <2>7. Charged'
        <3> SUFFICES ASSUME NEW x \in GroupIds, NEW h \in GroupIds, x # h
                     PROVE  served'[x][h] + mark'[x][h] <= virtual_runtime'[h] + Uncharged(h)'
            BY DEF Charged
        <3>1. served[x][h] + mark[x][h] <= virtual_runtime[h] + Uncharged(h)
            BY <1>0 DEF Charged
        <3>2. Uncharged(h)' = 0
            BY <2>1 DEF Uncharged
        <3>3. served[x][h] \in Nat /\ mark[x][h] \in Nat
            BY <1>0, SMTT(30) DEF GroupTypeOK
        <3> QED
            BY <2>1, <2>2, <2>3, <2>4, <3>1, <3>2, <3>3, SMTT(30)
    <2>8. \A x, h \in GroupIds : x # h /\ IsReady(x)' => Bound(x, h)'
        <3> SUFFICES ASSUME NEW x \in GroupIds, NEW h \in GroupIds, x # h, IsReady(x)'
                     PROVE  Bound(x, h)'
            OBVIOUS
        <3>1. Bound(x, h)
            BY <1>0, <2>1, BoundSame DEF IsReady
        <3>2. served[x][h] \in Nat /\ mark[x][h] \in Nat
            BY <1>0, SMT DEF GroupTypeOK
        <3> QED
            BY <2>1, <2>2, <2>4, <3>1, <3>2, SMTT(30) DEF Bound
    <2> QED
        BY <2>5, <2>6, <2>7, <2>8, BoundSame DEF GroupInv
<1>8. CASE UNCHANGED groupVars
    BY <1>0, <1>8 DEF groupVars, GroupInv, GroupTypeOK, Placed, Charged, Uncharged, BoundedWait, IsReady
<1> QED
    BY <1>1, <1>2, <1>3, <1>4, <1>5, <1>6, <1>7, <1>8 DEF GroupNext

(* SchedulerTaskSet keeps its fields in range, for any groups, tasks and shares. *)
THEOREM GroupTypesCorrect == GroupSpec => []GroupTypeOK
<1>1. GroupInit => GroupInv
    BY GroupInitInv
<1>2. GroupInv /\ [GroupNext]_groupVars => GroupInv'
    BY GroupNextInv
<1>3. GroupInv => GroupTypeOK
    BY DEF GroupInv
<1> QED
    BY <1>1, <1>2, <1>3, PTL DEF GroupSpec

(* next_task and record_task_poll starve no ready group, for any number of groups, tasks *)
(* and polls, as long as every poll is charged something.                                *)
THEOREM NoGroupStarves == GroupSpec => []BoundedWait
<1>1. GroupInit => GroupInv
    BY GroupInitInv
<1>2. GroupInv /\ [GroupNext]_groupVars => GroupInv'
    BY GroupNextInv
<1>3. GroupInv => BoundedWait
    BY DEF GroupInv
<1> QED
    BY <1>1, <1>2, <1>3, PTL DEF GroupSpec

=============================================================================
