------------------------------- MODULE IoUring -------------------------------
(***************************************************************************)
(* The io_uring instance and the dispatcher around it (os/uring.rs) as     *)
(* operators on a record: the methods of IoUring and IoUringDispatcher.    *)
(* Both are used by one thread at a time, so a method is one step.         *)
(*                                                                         *)
(* An operation is its id; an entry of the submission queue also names the *)
(* future whose buffer it points to (None in a cancel request, which has   *)
(* no buffer), and a completion the number of bytes moved, -1 for an       *)
(* error.  Counters and operation kinds, which only snapshots report, are  *)
(* left out.                                                               *)
(***************************************************************************)
EXTENDS Integers, Sequences

CONSTANT SqEntries   \* slots of the submission queue

ASSUME SqAssumption == SqEntries \in Nat \ {0}

None == 0

Empty(s) == s = <<>>

\* what a queue holds
Members(s) == {s[i] : i \in DOMAIN s}

\* IoUring::new: sq holds what is queued and not submitted (pending_submissions of it), cq
\* what the kernel posted, local what drain_completions moved, ops the tracked ids
NewRing == [sq |-> <<>>, cq |-> <<>>, local |-> <<>>, ops |-> {}, next |-> 1]

\* IoUringDispatcher::new
NewDispatcher ==
    [ring |-> NewRing, waiters |-> {}, completed |-> {}, abandoned |-> {}, deferred |-> {}]

-----------------------------------------------------------------------------
(* A definition marked "fault" is the one that follows it with a mistake in it; the    *)
(* specification uses none of them.                                                    *)

\* prepare_sqe: there is a free slot between the tail and the kernel's head
HasSqe(r) == Len(r.sq) < SqEntries

\* allocate_operation: ids count up from the start of each ring
AllocateOperation(r) == [r EXCEPT !.ops = @ \cup {r.next}, !.next = @ + 1]

\* queue_buffer_operation and finish_sqe
QueueEntry(r, id, f) == [r EXCEPT !.sq = Append(@, [id |-> id, f |-> f])]

\* the queue_*_operation methods: an id, then the entry; without a free slot the id is
\* taken from the table again and stays spent
QueueOperation(r, f) ==
    LET t == AllocateOperation(r) IN
    IF HasSqe(r) THEN QueueEntry(t, r.next, f) ELSE [t EXCEPT !.ops = r.ops]

QueueReadOperation(r, f) == QueueOperation(r, f)
QueueWriteOperation(r, f) == QueueOperation(r, f)
QueueCancelOperation(r) == QueueOperation(r, None)

\* queue_nop, queue_read and queue_write under a number of the caller's, which is not tracked
QueueNop(r, u) == IF HasSqe(r) THEN QueueEntry(r, u, None) ELSE r
QueueRead(r, u, f) == IF HasSqe(r) THEN QueueEntry(r, u, f) ELSE r
QueueWrite(r, u, f) == IF HasSqe(r) THEN QueueEntry(r, u, f) ELSE r
QueueNopOperation(r) == QueueOperation(r, None)

\* the ring owns the timeout it points the kernel to, so there is no buffer of the caller's
QueueTimeoutOperation(r) == QueueOperation(r, None)

\* submit_pending: the kernel takes all that is queued
SubmitPending(r) == [r EXCEPT !.sq = <<>>]

\* drain_completions: the kernel's queue behind what was drained before
DrainCompletions(r) == r.local \o r.cq

\* try_operation_completion and complete_operation, n times: the front of the drained
\* completions is taken and forgotten by the table.  Every entry queued here is tracked, so
\* position() finds the front.
TakeCompletions(r, n) ==
    LET all == DrainCompletions(r) IN
    [r EXCEPT !.cq = <<>>, !.local = SubSeq(all, n + 1, Len(all)),
              !.ops = @ \ {all[i].id : i \in 1..n}]

\* pop_ring_completion, when there is one
PopRingCompletion(r) == [r EXCEPT !.cq = Tail(@)]

\* try_completion: what was drained comes first
TryCompletion(r) ==
    IF Empty(r.local) THEN PopRingCompletion(r) ELSE [r EXCEPT !.local = Tail(@)]

\* complete_operation
CompleteOperation(r, id) == [r EXCEPT !.ops = @ \ {id}]

\* IoUringSnapshot::is_idle
RingIdle(r) == Empty(r.sq) /\ Empty(r.local) /\ r.ops = {}

\* IoUringDispatcherSnapshot::is_idle
IsIdle(x) ==
    /\ RingIdle(x.ring)
    /\ x.waiters = {} /\ x.completed = {} /\ x.abandoned = {} /\ x.deferred = {}

\* register_waker, when the operation has not completed
RegisterWaker(x, id) == [x EXCEPT !.waiters = @ \cup {id}]

Completion(x, id) == {c \in x.completed : c.id = id}

\* take_completion
TakeCompletion(x, id) == [x EXCEPT !.completed = @ \ Completion(x, id)]

\* abandon_operation: forget the waker and a buffered completion; an operation that is
\* still owed its completion is marked, and so is the cancel request, if it found a slot
Abandon(x, id) ==
    LET y == [TakeCompletion(x, id) EXCEPT !.waiters = @ \ {id}]
        r == QueueCancelOperation(x.ring)
        cancel == IF HasSqe(x.ring) THEN {x.ring.next} ELSE {}
    IN IF Completion(x, id) # {} \/ id \notin x.ring.ops \/ id \in x.abandoned THEN y
       ELSE [y EXCEPT !.abandoned = @ \cup {id} \cup cancel, !.ring = r]

\* fault: a tracked operation's buffer is not kept
DeferNothing(x, id, f) == Abandon(x, id)

\* defer_buffer_drop: the buffer of an operation that is still tracked is kept under its id
DeferBufferDrop(x, id, f) ==
    LET y == Abandon(x, id) IN
    IF id \in y.ring.ops
    THEN [y EXCEPT !.deferred = {b \in @ : b.id # id} \cup {[id |-> id, f |-> f]}]
    ELSE y

\* fault: the wakers stay registered and are not woken
DispatchUnwoken(x, limit) ==
    LET all == DrainCompletions(x.ring)
        n == IF Len(all) < limit THEN Len(all) ELSE limit
        batch == {all[i] : i \in 1..n}
        ids == {c.id : c \in batch}
        kept == {c \in batch : c.id \notin x.abandoned}
    IN [x EXCEPT !.ring = TakeCompletions(@, n),
                 !.abandoned = @ \ ids,
                 !.deferred = {b \in @ : b.id \notin ids},
                 !.completed = @ \cup kept]

\* dispatch_available_limit: up to limit completions; those of abandoned operations are
\* discarded with their deferred buffers, the others kept and their wakers taken
Dispatch(x, limit) ==
    LET all == DrainCompletions(x.ring)
        n == IF Len(all) < limit THEN Len(all) ELSE limit
        batch == {all[i] : i \in 1..n}
        ids == {c.id : c \in batch}
        kept == {c \in batch : c.id \notin x.abandoned}
    IN [x EXCEPT !.ring = TakeCompletions(@, n),
                 !.abandoned = @ \ ids,
                 !.deferred = {b \in @ : b.id \notin ids},
                 !.completed = {c \in @ : c.id \notin {k.id : k \in kept}} \cup kept,
                 !.waiters = @ \ {c.id : c \in kept}]

\* dispatch_available
DispatchAll(x) == Dispatch(x, Len(DrainCompletions(x.ring)))

\* leak_deferred_buffers
LeakDeferredBuffers(x) == [x EXCEPT !.deferred = {}]
=============================================================================
