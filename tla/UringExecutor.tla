---------------------------- MODULE UringExecutor ----------------------------
(***************************************************************************)
(* File I/O through io_uring: the executor keeps a dispatcher in a         *)
(* thread-local, polls read_exact_at_uring and write_all_at_uring futures  *)
(* against it and sleeps on its descriptor (executor/uring.rs,             *)
(* executor/driver.rs); block_on_io_uring_all drives a batch of            *)
(* owned-buffer futures against a dispatcher of its own (os/uring.rs).     *)
(*                                                                         *)
(* `d` is the dispatcher, its methods are the operators of IoUring.        *)
(* Everything but the kernel and other threads' aborts runs on one thread. *)
(* The kernel is `inflight`: what it took from the submission queue and    *)
(* has not posted.  `buffer` follows the memory a future gave to the       *)
(* kernel.  Operation ids start again with each ring, as in the code.      *)
(***************************************************************************)
EXTENDS IoUring

CONSTANTS
    Readers, Writers,   \* futures of read_exact_at_uring, write_all_at_uring
    Batch,              \* futures of block_on_io_uring_all, numbered in input order
    ReadLength,         \* bytes a reader moves
    Length,             \* bytes the others move
    Budget,             \* EXECUTOR_IO_URING_COMPLETION_BUDGET
    DrainWaits,         \* waits of a drain: 8 at executor shutdown, 1024 in Drop
    MaxRuns             \* calls of run, run_until or block_on_io_uring_all

ASSUME UringAssumption ==
    /\ ReadLength \in Nat \ {0} /\ Length \in 1..ReadLength /\ Budget \in Nat \ {0}
    /\ DrainWaits \in Nat /\ MaxRuns \in Nat \ {0}
    /\ Readers \cup Writers \cup Batch \subseteq Nat \ {None}
    /\ (Readers \cup Writers) \cap Batch = {}

Tasks == Readers \cup Writers

Futures == Tasks \cup Batch

VARIABLES
    d,          \* the dispatcher and its ring
    inflight,   \* entries the kernel works on
    detached,   \* entries it may still work on though their ring is gone
    installed,  \* there is a dispatcher: CURRENT_IO_URING's or the batch's own
    fut,        \* the state of each future
    op,         \* its operation, or None
    left,       \* bytes it has still to move
    buffer,     \* where its buffer is
    ready,      \* its task is in the ready queue; the batch polls it in this pass
    exec,       \* where the executor, or the batch, is
    cur,        \* the future whose task is being polled, or None
    waits,      \* waits of the current drain
    round,      \* 1: shutdown_current's drain, 2: the drain of Drop
    outcome,    \* last_shutdown_drain
    closing,    \* Executor::drop was called
    runs        \* calls of run and run_until so far

vars == <<d, inflight, detached, installed, fut, op, left, buffer, ready, exec, cur,
          waits, round, outcome, closing, runs>>

ring_vars == <<d, inflight, detached, installed>>
drain_vars == <<waits, round, outcome>>
future_vars == <<fut, op, left, buffer>>

InitAt(closed) ==
    /\ d = NewDispatcher
    /\ inflight = {} /\ detached = {}
    /\ installed = FALSE
    /\ fut = [f \in Futures |-> IF closed THEN "dropped" ELSE "none"]
    /\ op = [f \in Futures |-> None]
    /\ left = [f \in Futures |-> IF f \in Readers THEN ReadLength ELSE Length]
    /\ buffer = [f \in Futures |-> "future"]
    /\ ready = [f \in Futures |-> FALSE]
    /\ exec = "out" /\ cur = None
    /\ waits = 0 /\ round = 1 /\ outcome = "none"
    /\ closing = closed /\ runs = 0

Init == InitAt(FALSE)

-----------------------------------------------------------------------------
(* A definition marked "fault" is the one that follows it with a mistake in it; Next   *)
(* uses none of them.                                                                  *)

\* the tasks whose wakers a dispatch took
Woken(x, y) == {f \in Futures : op[f] # None /\ op[f] \in x.waiters \ y.waiters}

\* a batch is polled with a waker that does nothing
Wake(fs) == [f \in Futures |-> ready[f] \/ f \in fs \cap Tasks]

\* the buffers freed when the deferred buffers go from x's to y's
Freed(x, y) == [f \in Futures |->
    IF (\E b \in x.deferred : b.f = f) /\ ~\E b \in y.deferred : b.f = f
    THEN "freed" ELSE buffer[f]]

-----------------------------------------------------------------------------
(* The kernel and the other threads. *)

\* the kernel completes an operation, in any order: n bytes moved, or -1 for an error or
\* a cancellation
KernelCompletes(e, n) ==
    /\ e \in inflight
    /\ IF e.f = None THEN n = 0 ELSE n <= left[e.f]
    /\ inflight' = inflight \ {e}
    /\ d' = [d EXCEPT !.ring.cq = Append(@, [id |-> e.id, n |-> n])]
    /\ UNCHANGED <<detached, installed, future_vars, ready, exec, cur, drain_vars,
                   closing, runs>>

\* the kernel ends an operation of a ring that is gone
KernelEnds(e) ==
    /\ e \in detached
    /\ detached' = detached \ {e}
    /\ UNCHANGED <<d, inflight, installed, future_vars, ready, exec, cur, drain_vars,
                   closing, runs>>

\* another thread aborts the task: the future is dropped there, where the thread-local is
\* empty, and its buffer with it
AbortElsewhere(f) ==
    /\ fut[f] \in {"new", "queued"} /\ cur # f
    /\ fut' = [fut EXCEPT ![f] = "dropped"]
    /\ buffer' = [buffer EXCEPT ![f] = "freed"]
    /\ ready' = [ready EXCEPT ![f] = FALSE]
    /\ UNCHANGED <<ring_vars, op, left, exec, cur, drain_vars, closing, runs>>

-----------------------------------------------------------------------------
(* The futures, polled and dropped on the executor's thread. *)

\* a task that reads or writes is spawned (a spawn while a batch runs commutes with its
\* steps, and is taken before it or after it)
Spawn(f) ==
    /\ f \in Tasks /\ fut[f] = "none" /\ ~closing
    /\ exec \in {"out", "poll", "check", "sleep"}
    /\ fut' = [fut EXCEPT ![f] = "new"]
    /\ ready' = [ready EXCEPT ![f] = TRUE]
    /\ UNCHANGED <<ring_vars, op, left, buffer, exec, cur, drain_vars, closing, runs>>

\* a task is taken from the ready queue
PollTask(f) ==
    /\ exec = "poll" /\ cur = None
    /\ f \in Tasks /\ ready[f] /\ fut[f] \in {"new", "queued"}
    /\ cur' = f
    /\ ready' = [ready EXCEPT ![f] = FALSE]
    /\ UNCHANGED <<ring_vars, future_vars, exec, drain_vars, closing, runs>>

\* the future resolves; what is left of its buffer goes to the caller or is freed
Resolve(f, how) ==
    /\ fut' = [fut EXCEPT ![f] = how]
    /\ op' = [op EXCEPT ![f] = None]
    /\ cur' = None

\* there is no dispatcher, or ensure_queued found a full submission queue: the future
\* resolves with an error and is dropped
PollRefused(f) ==
    /\ cur = f
    /\ ~installed \/ (op[f] = None /\ ~HasSqe(d.ring))
    /\ d' = IF installed THEN [d EXCEPT !.ring = QueueOperation(@, f)] ELSE d
    /\ Resolve(f, "failed")
    /\ buffer' = [buffer EXCEPT ![f] = "freed"]
    /\ UNCHANGED <<inflight, detached, installed, left, ready, exec, drain_vars, closing, runs>>

\* the future remembers the operation queued for it
Queued(f, ring) ==
    /\ installed /\ HasSqe(d.ring)
    /\ d' = [d EXCEPT !.ring = ring]
    /\ op' = [op EXCEPT ![f] = d.ring.next]
    /\ fut' = [fut EXCEPT ![f] = "queued"]
    /\ buffer' = [buffer EXCEPT ![f] = "future"]
    /\ UNCHANGED <<inflight, detached, installed, left, ready, exec, cur, drain_vars,
                   closing, runs>>

\* ReadAtUring::ensure_queued
EnsureQueuedRead(f) ==
    /\ f \in Readers /\ cur = f /\ op[f] = None
    /\ Queued(f, QueueReadOperation(d.ring, f))

\* WriteAtUring::ensure_queued
EnsureQueuedWrite(f) ==
    /\ f \in Writers /\ cur = f /\ op[f] = None
    /\ Queued(f, QueueWriteOperation(d.ring, f))

\* poll_operation: dispatch what there is; no completion of this operation, so the waker
\* is registered
PollPending(f) ==
    /\ cur = f /\ op[f] # None /\ installed
    /\ LET y == DispatchAll(d) IN
       /\ Completion(y, op[f]) = {}
       /\ d' = RegisterWaker(y, op[f])
       /\ ready' = Wake(Woken(d, y))
       /\ buffer' = Freed(d, y)
    /\ cur' = None
    /\ UNCHANGED <<inflight, detached, installed, fut, op, left, exec, drain_vars, closing, runs>>

\* poll_operation with a completion, which is taken
Completed(f) ==
    IF op[f] # None /\ installed THEN Completion(DispatchAll(d), op[f]) ELSE {}

PollReady(f) ==
    /\ ready' = Wake(Woken(d, DispatchAll(d)))
    /\ UNCHANGED <<inflight, detached, installed, exec, drain_vars, closing, runs>>

\* completion_result_to_usize refuses the result: the future is dropped with its buffer,
\* which goes through defer_buffer_drop
PollError(f) ==
    /\ f \in Tasks /\ cur = f
    /\ \E c \in Completed(f) :
       /\ c.n < 0
       /\ PollReady(f)
       /\ LET y == DispatchAll(d)
              z == DeferBufferDrop(TakeCompletion(y, c.id), c.id, f) IN
          /\ d' = z
          /\ buffer' = [Freed(d, y) EXCEPT ![f] =
                 IF \E b \in z.deferred : b.f = f THEN "deferred" ELSE "freed"]
       /\ Resolve(f, "failed")
       /\ left' = left

\* the buffer goes to the caller; n bytes were moved
Returned(f, c) ==
    /\ PollReady(f)
    /\ d' = TakeCompletion(DispatchAll(d), c.id)
    /\ buffer' = [Freed(d, DispatchAll(d)) EXCEPT ![f] = "returned"]
    /\ left' = [left EXCEPT ![f] = IF c.n < 0 THEN @ ELSE @ - c.n]

\* the loop of read_exact_at_uring: no bytes is the end of the file; a short read goes on
\* with a new operation and a new buffer in the same poll
ReadExact(f) ==
    /\ f \in Readers /\ cur = f
    /\ \E c \in Completed(f) :
       /\ c.n >= 0
       /\ Returned(f, c)
       /\ IF c.n > 0 /\ c.n < left[f]
          THEN op' = [op EXCEPT ![f] = None] /\ UNCHANGED <<fut, cur>>
          ELSE Resolve(f, IF c.n = 0 THEN "failed" ELSE "done")

\* the loop of write_all_at_uring
WriteAll(f) ==
    /\ f \in Writers /\ cur = f
    /\ \E c \in Completed(f) :
       /\ c.n >= 0
       /\ Returned(f, c)
       /\ IF c.n > 0 /\ c.n < left[f]
          THEN op' = [op EXCEPT ![f] = None] /\ UNCHANGED <<fut, cur>>
          ELSE Resolve(f, IF c.n = 0 THEN "failed" ELSE "done")

\* IoUringReadFuture and IoUringWriteFuture: the completion and the buffer, whatever the
\* result
BatchCompleted(f) ==
    /\ f \in Batch /\ cur = f
    /\ \E c \in Completed(f) :
       /\ Returned(f, c)
       /\ Resolve(f, "done")

\* Drop of the future on this thread
DropFuture(f) ==
    /\ fut' = [fut EXCEPT ![f] = "dropped"]
    /\ op' = [op EXCEPT ![f] = None]
    /\ ready' = [ready EXCEPT ![f] = FALSE]
    /\ d' = IF op[f] # None /\ installed THEN DeferBufferDrop(d, op[f], f) ELSE d
    /\ buffer' = [Freed(d, d') EXCEPT ![f] =
           IF \E b \in d'.deferred : b.f = f THEN "deferred" ELSE "freed"]

\* the task gives the operation up (a timeout won, the task ended) while it is polled
Cancel(f) ==
    /\ exec = "poll" /\ cur = None
    /\ f \in Tasks /\ fut[f] \in {"new", "queued"}
    /\ DropFuture(f)
    /\ UNCHANGED <<inflight, detached, installed, left, exec, cur, drain_vars, closing, runs>>

-----------------------------------------------------------------------------
(* The executor. *)

Runnable == {f \in Tasks : ready[f] /\ fut[f] \in {"new", "queued"}}

\* run or run_until is entered: install_current_io_uring keeps the dispatcher this
\* executor left behind and makes one otherwise, if the host has io_uring
Enter(available) ==
    /\ exec = "out" /\ ~closing /\ runs < MaxRuns
    /\ runs' = runs + 1
    /\ exec' = "poll"
    /\ installed' = (installed \/ available)
    /\ d' = IF installed THEN d ELSE NewDispatcher
    /\ UNCHANGED <<inflight, detached, future_vars, ready, cur, drain_vars, closing>>

\* the end of drive_ready_work: driver::dispatch_available within the budget
DriveReadyWork ==
    /\ exec = "poll" /\ cur = None /\ Runnable = {}
    /\ exec' = "check"
    /\ LET y == IF installed THEN Dispatch(d, Budget) ELSE d IN
       /\ d' = y
       /\ ready' = Wake(Woken(d, y))
       /\ buffer' = Freed(d, y)
    /\ UNCHANGED <<inflight, detached, installed, fut, op, left, cur, drain_vars, closing, runs>>

\* has_ready_tasks: round the loop again
Again ==
    /\ exec = "check" /\ Runnable # {}
    /\ exec' = "poll"
    /\ UNCHANGED <<ring_vars, future_vars, ready, cur, drain_vars, closing, runs>>

\* enter: the kernel takes the queued entries
Submit ==
    /\ d' = [d EXCEPT !.ring = SubmitPending(@)]
    /\ inflight' = inflight \cup Members(d.ring.sq)

\* fault: the queued entries are not submitted before the wait
SleepUnsubmitted ==
    /\ exec = "check" /\ Runnable = {}
    /\ exec' = "sleep"
    /\ UNCHANGED <<ring_vars, future_vars, ready, cur, drain_vars, closing, runs>>

\* wait_for_reactor_event: submit_pending, then the wait, on the ring's descriptor too if
\* should_wait
Sleep ==
    /\ exec = "check" /\ Runnable = {}
    /\ exec' = "sleep"
    /\ IF installed THEN Submit ELSE UNCHANGED <<d, inflight>>
    /\ UNCHANGED <<detached, installed, future_vars, ready, cur, drain_vars, closing,
                   runs>>

ShouldWait == installed /\ (d.waiters # {} \/ ~Empty(d.ring.sq))

\* the ring's descriptor is readable: the kernel's queue holds a completion
RingReadable == ShouldWait /\ ~Empty(d.ring.cq)

\* the wait ends for the ring (dispatch_io_uring_if_ready) or for a task made ready
WakeUp ==
    /\ exec = "sleep"
    /\ RingReadable \/ Runnable # {}
    /\ exec' = "poll"
    /\ LET y == IF RingReadable THEN Dispatch(d, Budget) ELSE d IN
       /\ d' = y
       /\ ready' = Wake(Woken(d, y))
       /\ buffer' = Freed(d, y)
    /\ UNCHANGED <<inflight, detached, installed, fut, op, left, cur, drain_vars, closing, runs>>

\* the wait ends for something else: a timer, another task, a stop, or an event that also
\* wakes a task whose operation is pending
OtherWork(fs) ==
    /\ exec = "sleep"
    /\ exec' = "poll"
    /\ ready' = [f \in Futures |-> ready[f] \/ (f \in fs /\ fut[f] = "queued")]
    /\ UNCHANGED <<ring_vars, future_vars, cur, drain_vars, closing, runs>>

\* shutdown_current: with wakers registered the dispatcher stays; otherwise the drain begins
ShutdownCurrent ==
    IF ~installed \/ d.waiters # {}
    THEN exec' = "out" /\ UNCHANGED <<d, ready, buffer, waits, round>>
    ELSE LET y == DispatchAll(d) IN
         /\ d' = y
         /\ ready' = Wake(Woken(d, y))
         /\ buffer' = Freed(d, y)
         /\ exec' = "drain" /\ waits' = 0 /\ round' = 1

\* run finds itself drained or stopped after the dispatch; run_until returns as soon as its
\* root future resolved
Return ==
    /\ exec = "check" \/ (exec = "poll" /\ cur = None)
    /\ ShutdownCurrent
    /\ UNCHANGED <<inflight, detached, installed, fut, op, left, cur, outcome, closing,
                   runs>>

\* Executor::drop: Scheduler::close drops the futures of all tasks
Close ==
    /\ exec = "out" /\ ~closing
    /\ closing' = TRUE
    /\ UNCHANGED <<ring_vars, future_vars, ready, exec, cur, drain_vars, runs>>

CloseTask(f) ==
    /\ exec = "out" /\ closing
    /\ fut[f] \in {"new", "queued"}
    /\ DropFuture(f)
    /\ UNCHANGED <<inflight, detached, installed, left, exec, cur, drain_vars, closing, runs>>

\* and then the dispatcher is shut down
CloseRing ==
    /\ exec = "out" /\ closing /\ installed
    /\ \A f \in Futures : fut[f] \notin {"new", "queued"}
    /\ ShutdownCurrent
    /\ UNCHANGED <<inflight, detached, installed, fut, op, left, cur, outcome, closing,
                   runs>>

\* shutdown_drain: nothing to wait for any more, or no wait left
DrainOver ==
    IsIdle(d) \/ waits = DrainWaits \/ RingIdle(d.ring)

\* wait_completions(1): the queued entries are submitted, unless a completion is there
\* already ...
WaitCompletions ==
    IF Empty(DrainCompletions(d.ring)) THEN Submit ELSE UNCHANGED <<d, inflight>>

DrainSubmit ==
    /\ exec = "drain" /\ ~DrainOver
    /\ WaitCompletions
    /\ exec' = "drainwait"
    /\ UNCHANGED <<detached, installed, future_vars, ready, cur, drain_vars, closing,
                   runs>>

\* ... and what is posted is dispatched
DrainWake ==
    /\ exec = "drainwait"
    /\ ~Empty(DrainCompletions(d.ring))
    /\ LET y == DispatchAll(d) IN d' = y /\ buffer' = Freed(d, y)
    /\ waits' = waits + 1
    /\ exec' = "drain"
    /\ UNCHANGED <<inflight, detached, installed, fut, op, left, ready, cur, round, outcome,
                   closing, runs>>

\* the outcome of shutdown_drain: if it did not get the ring idle and operations are
\* still tracked, leak_deferred_buffers.  After shutdown_current's drain the dispatcher is
\* dropped, which drains once more and then gives up the ring.
FinishDrain ==
    LET idle == IsIdle(d)
        leak == ~idle /\ d.ring.ops # {}
        y == IF leak THEN LeakDeferredBuffers(d) ELSE d
        leaked == [f \in Futures |->
                      IF leak /\ \E b \in d.deferred : b.f = f THEN "leaked" ELSE buffer[f]]
    IN /\ outcome' = IF idle THEN "Completed" ELSE "TimedOut"
       /\ IF round = 1
          THEN LET z == DispatchAll(y) IN
               /\ round' = 2 /\ waits' = 0
               /\ d' = z /\ exec' = "drain"
               /\ buffer' = [f \in Futures |->
                      IF (\E b \in y.deferred : b.f = f) /\ ~\E b \in z.deferred : b.f = f
                      THEN "freed" ELSE leaked[f]]
               /\ UNCHANGED <<inflight, detached, installed>>
          ELSE /\ installed' = FALSE /\ d' = NewDispatcher /\ exec' = "out"
               /\ detached' = detached \cup inflight /\ inflight' = {}
               /\ buffer' = [f \in Futures |->
                      IF \E b \in y.deferred : b.f = f THEN "freed" ELSE leaked[f]]
               /\ UNCHANGED <<waits, round>>

\* the drain ends; a wait may also fail in the kernel
DrainEnds ==
    /\ \/ exec = "drain" /\ DrainOver
       \/ exec = "drainwait"
    /\ FinishDrain
    /\ UNCHANGED <<fut, op, left, ready, cur, closing, runs>>

-----------------------------------------------------------------------------
(* block_on_io_uring_all. *)

\* the caller makes a dispatcher
BatchEnter ==
    /\ exec = "out" /\ ~closing /\ ~installed /\ runs < MaxRuns
    /\ Batch # {} /\ \A f \in Batch : fut[f] = "none"
    /\ installed' = TRUE /\ d' = NewDispatcher
    /\ exec' = "queue" /\ runs' = runs + 1
    /\ UNCHANGED <<inflight, detached, future_vars, ready, cur, drain_vars, closing>>

\* IoUringReadFuture::queue and IoUringWriteFuture::queue, in input order
BatchQueue(f) ==
    /\ exec = "queue" /\ f \in Batch /\ fut[f] = "none"
    /\ \A g \in Batch : fut[g] = "none" => f <= g
    /\ Queued(f, QueueOperation(d.ring, f))

\* without a slot the caller gives up
BatchRefused ==
    /\ exec = "queue" /\ ~HasSqe(d.ring)
    /\ \E f \in Batch : fut[f] = "none"
    /\ d' = [d EXCEPT !.ring = QueueOperation(@, None)]
    /\ exec' = "release"
    /\ UNCHANGED <<inflight, detached, installed, future_vars, ready, cur, drain_vars,
                   closing, runs>>

\* a pass over the futures that are left
Pass == [f \in Futures |-> IF f \in Batch THEN fut[f] = "queued" ELSE ready[f]]

\* the futures queued so far are handed over
BatchStart ==
    /\ exec = "queue" /\ \E f \in Batch : fut[f] = "queued"
    /\ exec' = "batch" /\ ready' = Pass
    /\ UNCHANGED <<ring_vars, future_vars, cur, drain_vars, closing, runs>>

\* the slot still holds its future
BatchPoll(f) ==
    /\ exec = "batch" /\ cur = None
    /\ f \in Batch /\ fut[f] = "queued"
    /\ ready[f] /\ \A g \in Batch : ready[g] => f <= g
    /\ cur' = f
    /\ ready' = [ready EXCEPT ![f] = FALSE]
    /\ UNCHANGED <<ring_vars, future_vars, exec, drain_vars, closing, runs>>

PassDone == exec = "batch" /\ cur = None /\ \A f \in Batch : ~ready[f]

\* remaining > 0: wait_and_dispatch(1)
BatchWait ==
    /\ PassDone /\ \E f \in Batch : fut[f] = "queued"
    /\ WaitCompletions
    /\ exec' = "batchwait"
    /\ UNCHANGED <<detached, installed, future_vars, ready, cur, drain_vars, closing, runs>>

BatchWake ==
    /\ exec = "batchwait"
    /\ ~Empty(DrainCompletions(d.ring))
    /\ LET y == DispatchAll(d) IN d' = y /\ buffer' = Freed(d, y)
    /\ exec' = "batch" /\ ready' = Pass
    /\ UNCHANGED <<inflight, detached, installed, fut, op, left, cur, drain_vars, closing,
                   runs>>

\* every output is there, or the wait failed
BatchReturn ==
    /\ \/ PassDone /\ \A f \in Batch : fut[f] # "queued"
       \/ exec = "batchwait"
    /\ exec' = "release"
    /\ UNCHANGED <<ring_vars, future_vars, ready, cur, drain_vars, closing, runs>>

\* Drop of a future that is left
BatchDrop(f) ==
    /\ exec = "release" /\ f \in Batch /\ fut[f] = "queued"
    /\ DropFuture(f)
    /\ UNCHANGED <<inflight, detached, installed, left, exec, cur, drain_vars, closing, runs>>

\* Drop of the dispatcher
BatchRelease ==
    /\ exec = "release" /\ \A f \in Batch : fut[f] # "queued"
    /\ LET y == DispatchAll(d) IN d' = y /\ buffer' = Freed(d, y)
    /\ exec' = "drain" /\ waits' = 0 /\ round' = 2
    /\ UNCHANGED <<inflight, detached, installed, fut, op, left, ready, cur, outcome, closing,
                   runs>>

-----------------------------------------------------------------------------
Kernel == \E e \in inflight, n \in -1..ReadLength : KernelCompletes(e, n)

Poll(f) ==
    \/ PollTask(f) \/ PollRefused(f) \/ EnsureQueuedRead(f) \/ EnsureQueuedWrite(f)
    \/ PollPending(f) \/ PollError(f) \/ ReadExact(f) \/ WriteAll(f)

BatchStep ==
    \/ \E f \in Batch : BatchQueue(f) \/ BatchPoll(f) \/ BatchCompleted(f) \/ BatchDrop(f)
    \/ BatchRefused \/ BatchStart \/ BatchWait \/ BatchWake
    \/ (PassDone /\ BatchReturn) \/ BatchRelease

DrainStep ==
    DrainSubmit \/ DrainWake \/ (exec = "drain" /\ DrainEnds)

Next ==
    \/ Kernel \/ \E e \in detached : KernelEnds(e)
    \/ \E f \in Futures : Spawn(f) \/ Poll(f) \/ Cancel(f) \/ CloseTask(f)
    \/ \E available \in BOOLEAN : Enter(available)
    \/ DriveReadyWork \/ Again \/ Sleep \/ WakeUp \/ Return
    \/ \E fs \in SUBSET Tasks : OtherWork(fs)
    \/ Close \/ CloseRing \/ DrainStep \/ DrainEnds
    \/ BatchEnter \/ BatchStep \/ BatchReturn

Spec == Init /\ [][Next]_vars

\* the kernel completes what it took and the thread runs; nobody has to stop the executor,
\* give up an operation or return from run, and no wait has to fail
Fairness ==
    /\ WF_vars(Kernel)
    /\ WF_vars(\/ \E f \in Futures : Poll(f) \/ CloseTask(f)
               \/ DriveReadyWork \/ Again \/ Sleep \/ WakeUp
               \/ CloseRing \/ DrainStep \/ BatchStep)

FairSpec == Spec /\ Fairness

\* the same with tasks aborted from other threads
AbortSpec == Init /\ [][Next \/ \E f \in Futures : AbortElsewhere(f)]_vars

-----------------------------------------------------------------------------
(* Properties. *)

\* "Dropping the future must not free memory that the kernel may still read from or write
\* to" (docs/architecture.md): as long as an entry is queued, in the kernel, or left
\* behind by a ring that is gone, its buffer is with its future, deferred or leaked.
BufferOutlivesOperation ==
    \A e \in inflight \cup detached \cup Members(d.ring.sq) :
        e.f # None => buffer[e.f] \in {"future", "deferred", "leaked"}

\* The executor does not sleep past a completion: while it waits, an operation that a
\* future waits for is with the kernel, or in the queue behind the descriptor the
\* executor waits on, and its waker is registered.
NoSleepOnCompletion ==
    exec = "sleep" => \A f \in Tasks : fut[f] = "queued" /\ ~ready[f] =>
        /\ op[f] \in d.waiters
        /\ \/ \E e \in inflight : e.id = op[f]
           \/ \E i \in 1..Len(d.ring.cq) : d.ring.cq[i].id = op[f]

\* While the executor runs, a queued operation's future is resolved or dropped.
OperationResolves ==
    \A f \in Tasks : fut[f] = "queued" ~> (fut[f] # "queued" \/ exec = "out")

\* block_on_io_uring_all returns its outputs "once every future has completed".
BatchReturns == exec = "batch" ~> exec = "release"
=============================================================================
