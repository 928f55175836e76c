-------------------------- MODULE CompletionKernel --------------------------
(***************************************************************************)
(* The completion-capability ABI and the reactor over it                   *)
(* (charlotte_abi.rs): operations are submitted with an owned buffer,      *)
(* completed by workers into the bounded completion queue of their shard,  *)
(* cancelled, drained and closed; a shard sleeps in one wait that          *)
(* completions and cross-shard wakes end.  The kernel's state is behind    *)
(* one mutex, so a step is one critical section.                           *)
(***************************************************************************)
EXTENDS Naturals, Sequences, FiniteSets

CONSTANTS
    Queues,        \* the registered shards
    CqCapacity,    \* cq_capacity of each
    CapTable,      \* cap_table_capacity
    MaxCaps        \* bound on the submissions

VARIABLES
    ops,           \* KernelState::ops: cap -> [queue, buffer, cancelling, completed]
    cq,            \* Shard::cq: the completions of each queue
    woke,
    overflow_pending,
    next_cap,
    waiter,        \* per shard: where its reactor is
    event,         \* per shard: the caps its last event reported
    lent,          \* history: caps submitted with a buffer
    finished       \* history: the completions userspace has drained

kernelVars == <<ops, cq, woke, overflow_pending, next_cap, waiter, event, lent, finished>>

\* MockKernel::new and register_shard
KernelInit ==
    /\ ops = <<>>
    /\ cq = [q \in Queues |-> <<>>]
    /\ woke = [q \in Queues |-> FALSE]
    /\ overflow_pending = [q \in Queues |-> FALSE]
    /\ next_cap = 1
    /\ waiter = [q \in Queues |-> "running"]
    /\ event = [q \in Queues |-> {}]
    /\ lent = {} /\ finished = {}

\* ops.len() below cap_table_capacity
RoomInTable == Cardinality(DOMAIN ops) < CapTable

\* submit, by the shard that owns the queue; WouldBlock when the table is full.
Submit(q, buffer) ==
    /\ waiter[q] = "running"
    /\ next_cap \leq MaxCaps
    /\ RoomInTable
    /\ ops' = [c \in DOMAIN ops \cup {next_cap} |->
                 IF c = next_cap
                   THEN [queue |-> q, buffer |-> buffer, cancelling |-> FALSE, completed |-> FALSE]
                   ELSE ops[c]]
    /\ next_cap' = next_cap + 1
    /\ lent' = IF buffer THEN lent \cup {next_cap} ELSE lent
    /\ UNCHANGED <<cq, woke, overflow_pending, waiter, event, finished>>

\* Condvar::notify_all: every waiting reactor looks again.
Notified ==
    [q \in Queues |-> CASE waiter[q] = "waiting" -> "again"
                       [] waiter[q] = "timed wait" -> "again timed"
                       [] OTHER -> waiter[q]]

\* fault: a completion that finds the queue full forgets the buffer it has taken out.
CompleteLosingBuffer(c) ==
    /\ c \in DOMAIN ops
    /\ ~ops[c].completed
    /\ LET q == ops[c].queue IN
       IF Len(cq[q]) \geq CqCapacity
         THEN /\ overflow_pending' = [overflow_pending EXCEPT ![q] = TRUE]
              /\ ops' = [ops EXCEPT ![c].buffer = FALSE]
              /\ UNCHANGED <<cq, waiter>>
         ELSE /\ ops' = [ops EXCEPT ![c].completed = TRUE, ![c].buffer = FALSE]
              /\ cq' = [cq EXCEPT ![q] = Append(@, [cap |-> c, returned |-> ops[c].buffer,
                                                    cancelled |-> ops[c].cancelling])]
              /\ waiter' = Notified
              /\ UNCHANGED overflow_pending
    /\ UNCHANGED <<woke, next_cap, event, lent, finished>>

\* complete: the worker of an operation, once it is done, posts the result and hands the buffer
\* back, or finds the queue full and has to come again.
Complete(c) ==
    /\ c \in DOMAIN ops
    /\ ~ops[c].completed
    /\ LET q == ops[c].queue IN
       IF Len(cq[q]) \geq CqCapacity
         THEN /\ overflow_pending' = [overflow_pending EXCEPT ![q] = TRUE]
              /\ UNCHANGED <<ops, cq, waiter>>
         ELSE /\ ops' = [ops EXCEPT ![c].completed = TRUE, ![c].buffer = FALSE]
              /\ cq' = [cq EXCEPT ![q] = Append(@, [cap |-> c, returned |-> ops[c].buffer,
                                                    cancelled |-> ops[c].cancelling])]
              /\ waiter' = Notified
              /\ UNCHANGED overflow_pending
    /\ UNCHANGED <<woke, next_cap, event, lent, finished>>

\* cancel: marks the operation; the buffer stays until the completion.
Cancel(c) ==
    /\ c \in DOMAIN ops
    /\ waiter[ops[c].queue] = "running"
    /\ ~ops[c].completed
    /\ ops' = [ops EXCEPT ![c].cancelling = TRUE]
    /\ UNCHANGED <<cq, woke, overflow_pending, next_cap, waiter, event, lent, finished>>

\* close: the slot of a completed operation is free again.
CloseCap(c) ==
    /\ c \in DOMAIN ops
    /\ waiter[ops[c].queue] = "running"
    /\ ops[c].completed
    /\ ops' = [d \in DOMAIN ops \ {c} |-> ops[d]]
    /\ UNCHANGED <<cq, woke, overflow_pending, next_cap, waiter, event, lent, finished>>

\* drain, by a shard that an event has told of completions.
Drain(q) ==
    /\ waiter[q] = "running"
    /\ event[q] # {}
    /\ finished' = finished \cup {cq[q][i] : i \in DOMAIN cq[q]}
    /\ cq' = [cq EXCEPT ![q] = <<>>]
    /\ overflow_pending' = [overflow_pending EXCEPT ![q] = FALSE]
    /\ event' = [event EXCEPT ![q] = {}]
    /\ UNCHANGED <<ops, woke, next_cap, waiter, lent>>

-----------------------------------------------------------------------------
(* CharlotteReactor *)

Satisfied(q) == woke[q] \/ cq[q] # <<>>

\* CharlotteReactor::wait and MockKernel::wait, min_complete = 0; with or without a deadline.
WaitKernel(q, deadline) ==
    /\ waiter[q] = "running"
    /\ event[q] = {}
    /\ waiter' = [waiter EXCEPT ![q] = IF Satisfied(q) THEN "returned"
                                       ELSE IF deadline THEN "timed wait" ELSE "waiting"]
    /\ UNCHANGED <<ops, cq, woke, overflow_pending, next_cap, event, lent, finished>>

\* Woken by the condition variable, which other queues share, it looks again.
LookAgainAt(q) ==
    /\ waiter[q] \in {"again", "again timed"}
    /\ waiter' = [waiter EXCEPT ![q] = IF Satisfied(q) THEN "returned"
                                       ELSE IF @ = "again" THEN "waiting" ELSE "timed wait"]
    /\ UNCHANGED <<ops, cq, woke, overflow_pending, next_cap, event, lent, finished>>

DeadlineElapses(q) ==
    /\ waiter[q] = "timed wait"
    /\ waiter' = [waiter EXCEPT ![q] = "returned"]
    /\ UNCHANGED <<ops, cq, woke, overflow_pending, next_cap, event, lent, finished>>

\* take_woke
TakeWoke(q) ==
    /\ waiter[q] = "returned"
    /\ woke' = [woke EXCEPT ![q] = FALSE]
    /\ waiter' = [waiter EXCEPT ![q] = "peeking"]
    /\ UNCHANGED <<ops, cq, overflow_pending, next_cap, event, lent, finished>>

\* ready_caps: the event names the completions and leaves them in the queue.
ReadyCaps(q) ==
    /\ waiter[q] = "peeking"
    /\ event' = [event EXCEPT ![q] = {cq[q][i].cap : i \in DOMAIN cq[q]}]
    /\ waiter' = [waiter EXCEPT ![q] = "running"]
    /\ UNCHANGED <<ops, cq, woke, overflow_pending, next_cap, lent, finished>>

\* wake, from another shard; a second wake before the first is seen changes nothing.
WakeQueue(q) ==
    /\ ~woke[q]
    /\ woke' = [woke EXCEPT ![q] = TRUE]
    /\ waiter' = Notified
    /\ UNCHANGED <<ops, cq, overflow_pending, next_cap, event, lent, finished>>

-----------------------------------------------------------------------------
ReactorStep(q) ==
    \/ Drain(q)
    \/ \E deadline \in BOOLEAN : WaitKernel(q, deadline)
    \/ LookAgainAt(q)
    \/ DeadlineElapses(q)
    \/ TakeWoke(q)
    \/ ReadyCaps(q)

KernelNext ==
    \/ \E q \in Queues : (\E b \in BOOLEAN : Submit(q, b)) \/ ReactorStep(q) \/ WakeQueue(q)
    \/ \E c \in 1 .. MaxCaps : Complete(c) \/ Cancel(c) \/ CloseCap(c)

KernelSpec == KernelInit /\ [][KernelNext]_kernelVars

-----------------------------------------------------------------------------
(* Properties *)

\* A buffer is in one place: with the operation in flight, in a completion on its way, or back
\* with userspace; a full queue, a cancellation or a close loses none and returns none twice
\* ("bounded, non-lossy backpressure", complete, cancel, close).
BuffersAccounted ==
    \A c \in lent :
      LET inKernel == c \in DOMAIN ops /\ ops[c].buffer
          queued == \E q \in Queues : \E i \in DOMAIN cq[q] : cq[q][i].cap = c /\ cq[q][i].returned
          back == \E f \in finished : f.cap = c /\ f.returned
      IN  Cardinality({x \in {<<1, inKernel>>, <<2, queued>>, <<3, back>>} : x[2]}) = 1

=============================================================================
