----------------------------- MODULE DirectRing -----------------------------
(***************************************************************************)
(* The io_uring instance used directly, without a dispatcher: one thread   *)
(* queues operations, under ids the ring tracks or numbers of its own,     *)
(* submits them, and takes their completions, in whatever order the kernel *)
(* posts them, by one of six methods (os/uring.rs, impl IoUring).          *)
(*                                                                         *)
(* `call` is the method the thread is in, `kernel` what the kernel has     *)
(* taken and not completed.  An entry's f is its number if a safe method   *)
(* lent the kernel a buffer for it.  enter may take part of the queue, be  *)
(* interrupted, or fail.                                                   *)
(***************************************************************************)
EXTENDS IoUring, FiniteSetsExt

CONSTANTS
    UserData,        \* numbers the caller uses, none of them an operation's id
    MaxOperations    \* bound on the ids the ring hands out

VARIABLES
    ring,     \* the ring; see IoUring
    kernel,   \* entries the kernel works on
    call,     \* the method in progress: its name, where it is, and whose completion it is for
    used,     \* everything that was queued
    got,      \* ids whose completion the caller has
    failed    \* an io_uring_enter failed

directVars == <<ring, kernel, call, used, got, failed>>

Idle == [name |-> "none", at |-> "idle", id |-> 0]

\* next: the first id; seen: numbers the caller has used before
DirectInit(next, seen) ==
    /\ ring = [NewRing EXCEPT !.next = next]
    /\ kernel = {}
    /\ call = Idle
    /\ used = seen /\ got = seen
    /\ failed = FALSE

-----------------------------------------------------------------------------
(* A definition marked "fault" is the one that follows it with a mistake in it; the    *)
(* specification uses none of them.                                                    *)

\* what the caller is still owed
Owed == used \ got

\* a method is called that queues r's last entry, and goes on at `at`; without a slot it
\* fails and leaves r without the entry
QueueThen(r, id, name, at) ==
    /\ call = Idle
    /\ ring' = r
    /\ IF HasSqe(ring)
       THEN /\ used' = used \cup {id}
            /\ call' = [name |-> name, at |-> at, id |-> id]
       ELSE UNCHANGED <<used, call>>
    /\ UNCHANGED <<kernel, got, failed>>

QueueOnly(r, id) ==
    /\ call = Idle
    /\ ring' = r
    /\ used' = IF HasSqe(ring) THEN used \cup {id} ELSE used
    /\ UNCHANGED <<kernel, call, got, failed>>

\* queue_nop_operation, or one of the other methods that track what they queue
QueueTracked ==
    /\ ring.next <= MaxOperations
    /\ QueueOnly(QueueNopOperation(ring), ring.next)

SubmitNop(u) == u \notin used /\ QueueThen(QueueNop(ring, u), u, "submit", "submitting")

\* submit_read and submit_write are unsafe: the caller answers for the buffer
SubmitRead(u) == u \notin used /\ QueueThen(QueueRead(ring, u, None), u, "submit", "submitting")
SubmitWrite(u) == u \notin used /\ QueueThen(QueueWrite(ring, u, None), u, "submit", "submitting")

CancelOperation ==
    /\ ring.next <= MaxOperations
    /\ QueueThen(QueueCancelOperation(ring), ring.next, "cancel", "submitting")

\* fault: the call returns when the operation is submitted
ReadOnceUnwaited(u) == u \notin used /\ QueueThen(QueueRead(ring, u, u), u, "submit", "submitting")

\* read_once and write_once lend a buffer, submit, and wait for the completion
ReadOnce(u) == u \notin used /\ QueueThen(QueueRead(ring, u, u), u, "once", "submitting")
WriteOnce(u) == u \notin used /\ QueueThen(QueueWrite(ring, u, u), u, "once", "submitting")

TimeoutOnce ==
    /\ ring.next <= MaxOperations
    /\ QueueThen(QueueTimeoutOperation(ring), ring.next, "operation", "look")

-----------------------------------------------------------------------------
(* io_uring_enter *)

\* the kernel takes the first n entries of the queue
Taken(n) ==
    /\ ring' = [ring EXCEPT !.sq = SubSeq(@, n + 1, Len(@))]
    /\ kernel' = kernel \cup {ring.sq[i] : i \in 1..n}

\* the loop of submit_pending
SubmitSome ==
    /\ call.at = "submitting"
    /\ \E n \in 1..Len(ring.sq) :
         /\ Taken(n)
         /\ call' = IF n < Len(ring.sq) THEN call
                    ELSE IF call.name = "once" THEN [call EXCEPT !.at = "look"] ELSE Idle
    /\ UNCHANGED <<used, got, failed>>

\* enter is called to submit the rest and wait; it waits only if the kernel took all
EnterWait ==
    /\ IF Empty(ring.sq) THEN UNCHANGED <<ring, kernel>> /\ call' = [call EXCEPT !.at = "blocked"]
       ELSE \E k \in 1..Len(ring.sq) :
              /\ Taken(k)
              /\ call' = IF k = Len(ring.sq) THEN [call EXCEPT !.at = "blocked"] ELSE call
    /\ UNCHANGED <<used, got, failed>>

\* completions it still waits for: wait_completions(n) counts the drained ones
Needed == IF call.name = "many" THEN call.id - Len(ring.local) ELSE 1

\* enter returns, with as many completions as it was to wait for or because of a signal;
\* EINTR is one more turn of the loop
EnterReturns ==
    /\ call.at = "blocked"
    /\ call' = [call EXCEPT !.at = "ring"]
    /\ UNCHANGED <<ring, kernel, used, got, failed>>

\* enter fails, or took nothing: the call is over.  cancel_operation forgets the request it
\* queued; the entry stays in the queue.
EnterFails ==
    /\ \/ call.at \in {"submitting", "waiting"}
       \/ call.at = "ring" /\ call.name # "many" /\ Empty(ring.cq)
    /\ ring' = IF call.name = "cancel" THEN CompleteOperation(ring, call.id) ELSE ring
    /\ call' = Idle
    /\ failed' = TRUE
    /\ UNCHANGED <<kernel, used, got>>

\* the kernel completes what it has, in any order
Post(e) ==
    /\ e \in kernel
    /\ kernel' = kernel \ {e}
    /\ ring' = [ring EXCEPT !.cq = Append(@, [id |-> e.id])]
    /\ UNCHANGED <<call, used, got, failed>>

-----------------------------------------------------------------------------
(* Taking completions *)

\* the caller gets the completion of id
Deliver(id) ==
    /\ got' = got \cup {id}
    /\ call' = Idle
    /\ UNCHANGED <<kernel, used, failed>>

\* what a method does to the table when it returns the completion of id
Untracked(r, id) == IF call.name = "operation" THEN CompleteOperation(r, id) ELSE r

TryCompletionNow ==
    /\ call = Idle
    /\ LET all == DrainCompletions(ring) IN
       /\ ~Empty(all)
       /\ ring' = TryCompletion(ring)
       /\ Deliver(all[1].id)

\* position(): the first of the indices that pass its test, or 0
FirstOf(passing) == IF passing = {} THEN 0 ELSE Min(passing)

\* remove(index)
Remove(s, i) == SubSeq(s, 1, i - 1) \o SubSeq(s, i + 1, Len(s))

\* id is that of an operation of the ring
Tracked(id) == id \in ring.ops

\* the first tracked completion is taken from among the others
TryOperationCompletion ==
    /\ call = Idle
    /\ LET all == DrainCompletions(ring)
           i == FirstOf({k \in DOMAIN all : Tracked(all[k].id)})
       IN /\ i > 0
          /\ ring' = CompleteOperation([ring EXCEPT !.cq = <<>>, !.local = Remove(all, i)],
                                       all[i].id)
          /\ Deliver(all[i].id)

\* wait_completion, wait_for_completion, wait_operation_completion and wait_completions are
\* called for what the caller is owed
WaitCompletion == call = Idle /\ Owed # {} /\ call' = [name |-> "any", at |-> "look", id |-> 0]
WaitFor(id) == call = Idle /\ id \in Owed /\ call' = [name |-> "for", at |-> "look", id |-> id]
WaitOperation(id) ==
    call = Idle /\ id \in Owed \cap ring.ops /\ call' = [name |-> "operation", at |-> "look", id |-> id]
WaitMany(n) ==
    call = Idle /\ n \in 1..Cardinality(Owed) /\ call' = [name |-> "many", at |-> "ring", id |-> n]

Wait ==
    /\ \/ WaitCompletion
       \/ \E id \in used : WaitFor(id) \/ WaitOperation(id)
       \/ \E n \in 2..Cardinality(used) : WaitMany(n)
    /\ UNCHANGED <<ring, kernel, used, got, failed>>

\* the ids a call takes from the drained completions
Wants(id) == call.name = "any" \/ call.id = id

\* wait_for_completion looks at the drained completions first
Look ==
    /\ call.at = "look"
    /\ LET i == FirstOf({k \in DOMAIN ring.local : Wants(ring.local[k].id)}) IN
       IF i > 0
       THEN /\ ring' = Untracked([ring EXCEPT !.local = Remove(@, i)], ring.local[i].id)
            /\ Deliver(ring.local[i].id)
       ELSE call' = [call EXCEPT !.at = "ring"] /\ UNCHANGED <<ring, kernel, used, got, failed>>

\* wait_ring_completion returns one: the one that is waited for, or one to keep for later
TakeOne ==
    /\ call.at = "ring" /\ call.name # "many"
    /\ ~Empty(ring.cq)
    /\ LET c == ring.cq[1] IN
       IF Wants(c.id)
       THEN ring' = Untracked(PopRingCompletion(ring), c.id) /\ Deliver(c.id)
       ELSE /\ ring' = [PopRingCompletion(ring) EXCEPT !.local = Append(@, c)]
            /\ UNCHANGED <<kernel, call, used, got, failed>>

\* wait_ring_completion finds none
WaitRingCompletion == call.at = "ring" /\ call.name # "many" /\ Empty(ring.cq) /\ EnterWait

\* wait_completions drains what there is,
DrainMany ==
    /\ call.at = "ring" /\ call.name = "many"
    /\ ring' = [ring EXCEPT !.cq = <<>>, !.local = DrainCompletions(ring)]
    /\ call' = IF Len(DrainCompletions(ring)) >= call.id THEN Idle
               ELSE [call EXCEPT !.at = "waiting"]
    /\ UNCHANGED <<kernel, used, got, failed>>

\* and waits for the rest
WaitCompletionsMore == call.at = "waiting" /\ EnterWait

-----------------------------------------------------------------------------
\* the method goes on; a signal is not something it can count on
CallStep ==
    \/ SubmitSome \/ Look \/ TakeOne \/ WaitRingCompletion \/ DrainMany \/ WaitCompletionsMore
    \/ (Len(ring.cq) >= Needed /\ EnterReturns)

DirectNext ==
    \/ \E u \in UserData : SubmitNop(u) \/ SubmitRead(u) \/ SubmitWrite(u) \/ ReadOnce(u)
                           \/ WriteOnce(u)
    \/ QueueTracked \/ CancelOperation \/ TimeoutOnce
    \/ TryCompletionNow \/ TryOperationCompletion \/ Wait
    \/ CallStep \/ EnterReturns \/ EnterFails
    \/ \E e \in kernel : Post(e)

\* A ring that IoUring::new made, and any use of it
DirectSpec == DirectInit(1, {}) /\ [][DirectNext]_directVars

-----------------------------------------------------------------------------
(* Properties *)

\* "does not return until the kernel has completed the operation" (read_once, write_once):
\* while an entry with a lent buffer is queued or with the kernel the call is still on,
\* unless io_uring_enter failed.
LentUntilDone ==
    failed \/ \A e \in kernel \cup Members(ring.sq) :
                  e.f # None => call.name = "once" /\ call.id = e.id

=============================================================================
