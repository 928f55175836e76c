---------------------------- MODULE ShardMailbox ----------------------------
(***************************************************************************)
(* One bounded mailbox of ShardMailboxSet or WorkUnitMailboxSet            *)
(* (shard_mailbox.rs): cloneable senders, a single receiver, awaited and   *)
(* immediate sends and receives, cancellation of both, and every way of    *)
(* closing.  SharedMailbox guards all its state by one mutex, so every     *)
(* critical section is an action.  The wakers it takes are woken after the *)
(* unlock: `ready` and `recv_woken` hold from the moment a waker is taken, *)
(* and a poll may come at any time after.                                  *)
(***************************************************************************)
EXTENDS Naturals, Sequences, FiniteSets

CONSTANTS
    Senders,     \* tasks that may hold a ShardSender, one each
    Capacity,    \* capacity_per_shard
    MaxSends,    \* bound on the messages one sender creates
    MaxWakers    \* bound on the wakers up to which unasked polls are explored

ASSUME MailboxAssumption ==
    /\ IsFiniteSet(Senders)
    /\ Capacity \in Nat \ {0}
    /\ MaxSends \in Nat
    /\ MaxWakers \in Nat

VARIABLES
    \* MailboxState
    inbox, sender_count, sender_factory_open, receiver_taken, receiver_closed,
    recv_waker,      \* the receiver's waker is registered
    send_wakers,     \* registered wakers of senders, oldest first
    \* sender tasks
    held,            \* senders that hold a ShardSender
    made,            \* messages created so far by each sender
    pending,         \* senders with a ShardSend future that owns a message
    ready,           \* those of them whose task is due to poll it
    \* receiver task
    receiver,        \* "none", "idle", "awaiting" or "gone"
    recv_woken,      \* an awaiting receiver is due to be polled
    \* history
    delivered,       \* messages received, in order
    ended            \* a receive returned Closed

mailVars == <<inbox, sender_count, sender_factory_open, receiver_taken, receiver_closed,
              recv_waker, send_wakers>>
senderVars == <<held, made, pending, ready>>
recvVars == <<receiver, recv_woken, delivered, ended>>
mailboxVars == <<mailVars, senderVars, recvVars>>

MailboxInit ==
    /\ inbox = <<>>
    /\ sender_count = 0
    /\ sender_factory_open = TRUE
    /\ receiver_taken = FALSE
    /\ receiver_closed = FALSE
    /\ recv_waker = FALSE
    /\ send_wakers = <<>>
    /\ held = {}
    /\ made = [s \in Senders |-> 0]
    /\ pending = {}
    /\ ready = {}
    /\ receiver = "none"
    /\ recv_woken = FALSE
    /\ delivered = <<>>
    /\ ended = FALSE

-----------------------------------------------------------------------------
(* The queue and the wakers.  A definition marked "fault" is the one that follows it    *)
(* with a mistake in it; Next uses none of them.                                       *)

HasRoom == Len(inbox) < Capacity

enqueue(m) == inbox' = Append(inbox, m)

\* recv_waker.take(), and the wake that follows
WakeReceiver ==
    /\ recv_waker' = FALSE
    /\ recv_woken' = (recv_woken \/ (recv_waker /\ receiver = "awaiting"))

\* send_wakers.pop_front(), and the wake that follows; it is lost on a task
\* that no longer awaits a send
WakeFirstSender ==
    IF send_wakers = <<>>
      THEN UNCHANGED <<send_wakers, ready>>
      ELSE /\ send_wakers' = Tail(send_wakers)
           /\ ready' = ready \cup ({Head(send_wakers)} \cap pending)

\* no sender is left that could send, nor a set to make one from
NoSenders == ~sender_factory_open /\ sender_count = 0

-----------------------------------------------------------------------------
(* Senders *)

\* ShardMailboxSet::sender_to, or Clone for ShardSender
NewSender(s) ==
    /\ s \notin held
    /\ made[s] = 0
    /\ sender_factory_open \/ held # {}
    /\ held' = held \cup {s}
    /\ sender_count' = sender_count + 1
    /\ UNCHANGED <<inbox, sender_factory_open, receiver_taken, receiver_closed, recv_waker,
                   send_wakers, made, pending, ready, recvVars>>

\* Drop for ShardSender; a ShardSend borrows its sender
DropSender(s) ==
    /\ s \in held
    /\ s \notin pending
    /\ held' = held \ {s}
    /\ sender_count' = IF sender_count = 0 THEN 0 ELSE sender_count - 1
    /\ IF ~sender_factory_open /\ sender_count' = 0 /\ inbox = <<>>
         THEN WakeReceiver
         ELSE UNCHANGED <<recv_waker, recv_woken>>
    /\ UNCHANGED <<inbox, sender_factory_open, receiver_taken, receiver_closed, send_wakers,
                   made, pending, ready, receiver, delivered, ended>>

\* try_send: Closed, Full, or the message is queued
TrySend(s) ==
    /\ s \in held
    /\ s \notin pending
    /\ made[s] < MaxSends
    /\ made' = [made EXCEPT ![s] = @ + 1]
    /\ \/ /\ receiver_closed \/ ~HasRoom
          /\ UNCHANGED <<inbox, recv_waker, recv_woken>>
       \/ /\ ~receiver_closed
          /\ HasRoom
          /\ enqueue(<<s, made[s] + 1>>)
          /\ WakeReceiver
    /\ UNCHANGED <<sender_count, sender_factory_open, receiver_taken, receiver_closed,
                   send_wakers, held, pending, ready, receiver, delivered, ended>>

\* ShardSender::send: the future owns the message and is due for its first poll
Send(s) ==
    /\ s \in held
    /\ s \notin pending
    /\ made[s] < MaxSends
    /\ made' = [made EXCEPT ![s] = @ + 1]
    /\ pending' = pending \cup {s}
    /\ ready' = ready \cup {s}
    /\ UNCHANGED <<mailVars, held, recvVars>>

\* poll_send: Closed, queued, or another waker registered
PollSend(s) ==
    /\ s \in pending \cap ready
    /\ ready' = ready \ {s}
    /\ \/ /\ receiver_closed
          /\ pending' = pending \ {s}
          /\ UNCHANGED <<inbox, recv_waker, recv_woken, send_wakers>>
       \/ /\ ~receiver_closed
          /\ HasRoom
          /\ pending' = pending \ {s}
          /\ enqueue(<<s, made[s]>>)
          /\ WakeReceiver
          /\ UNCHANGED send_wakers
       \/ /\ ~receiver_closed
          /\ ~HasRoom
          /\ send_wakers' = Append(send_wakers, s)
          /\ UNCHANGED <<pending, inbox, recv_waker, recv_woken>>
    /\ UNCHANGED <<sender_count, sender_factory_open, receiver_taken, receiver_closed, held,
                   made, receiver, delivered, ended>>

\* the sender's task is woken by something else it waits for (a timeout, the
\* other branch of a race) and polls its ShardSend again
WakeOther(s) ==
    /\ s \in pending \ ready
    /\ Len(send_wakers) < MaxWakers
    /\ ready' = ready \cup {s}
    /\ UNCHANGED <<mailVars, held, made, pending, recvVars>>

\* Drop for ShardSend with its message unsent: wake_one_sender
CancelSend(s) ==
    /\ s \in pending
    /\ pending' = pending \ {s}
    /\ IF send_wakers = <<>>
         THEN /\ ready' = ready \ {s}
              /\ UNCHANGED send_wakers
         ELSE /\ ready' = (ready \cup ({Head(send_wakers)} \cap pending)) \ {s}
              /\ send_wakers' = Tail(send_wakers)
    /\ UNCHANGED <<inbox, sender_count, sender_factory_open, receiver_taken,
                   receiver_closed, recv_waker, held, made, recvVars>>

-----------------------------------------------------------------------------
(* The receiver *)

\* receiver_for
TakeReceiver ==
    /\ ~receiver_taken
    /\ sender_factory_open
    /\ receiver_taken' = TRUE
    /\ receiver' = "idle"
    /\ UNCHANGED <<inbox, sender_count, sender_factory_open, receiver_closed, recv_waker,
                   send_wakers, senderVars, recv_woken, delivered, ended>>

\* fault: the receive that makes room wakes no sender
ReceiveUnwoken(r) ==
    /\ inbox # <<>>
    /\ delivered' = Append(delivered, Head(inbox))
    /\ inbox' = Tail(inbox)
    /\ receiver' = r
    /\ recv_woken' = FALSE
    /\ UNCHANGED <<recv_waker, ended, send_wakers, ready>>

\* the arm of try_recv and poll_recv that returns a message
Receive(r) ==
    /\ inbox # <<>>
    /\ delivered' = Append(delivered, Head(inbox))
    /\ inbox' = Tail(inbox)
    /\ receiver' = r
    /\ recv_woken' = FALSE
    /\ WakeFirstSender
    /\ UNCHANGED <<recv_waker, ended>>

\* fault: closed before the queue has drained
ReceiveClosedEarly(r) ==
    /\ receiver_closed \/ NoSenders
    /\ ended' = TRUE
    /\ receiver' = r
    /\ recv_woken' = FALSE
    /\ UNCHANGED <<recv_waker, inbox, delivered, send_wakers, ready>>

\* the arm that returns Closed
ReceiveClosed(r) ==
    /\ inbox = <<>>
    /\ receiver_closed \/ NoSenders
    /\ ended' = TRUE
    /\ receiver' = r
    /\ recv_woken' = FALSE
    /\ UNCHANGED <<recv_waker, inbox, delivered, send_wakers, ready>>

\* the arm that finds nothing yet: try_recv returns Empty
ReceiveEmpty ==
    /\ inbox = <<>>
    /\ ~receiver_closed
    /\ ~NoSenders
    /\ UNCHANGED <<recv_waker, inbox, delivered, ended, send_wakers, ready, receiver,
                   recv_woken>>

\* ... and poll_recv registers the task's waker
ReceivePending ==
    /\ inbox = <<>>
    /\ ~receiver_closed
    /\ ~NoSenders
    /\ recv_waker' = TRUE
    /\ receiver' = "awaiting"
    /\ recv_woken' = FALSE
    /\ UNCHANGED <<inbox, delivered, ended, send_wakers, ready>>

recvUnchanged == <<sender_count, sender_factory_open, receiver_taken, receiver_closed, held,
                   made, pending>>

TryRecv ==
    /\ receiver = "idle"
    /\ Receive("idle") \/ ReceiveClosed("idle") \/ ReceiveEmpty
    /\ UNCHANGED recvUnchanged

\* poll_recv: the first poll of a ShardRecv, one after a wake, or any other
PollRecv ==
    /\ receiver \in {"idle", "awaiting"}
    /\ Receive("idle") \/ ReceiveClosed("idle") \/ ReceivePending
    /\ UNCHANGED recvUnchanged

\* a ShardRecv is dropped; its waker stays registered
CancelRecv ==
    /\ receiver = "awaiting"
    /\ receiver' = "idle"
    /\ recv_woken' = FALSE
    /\ UNCHANGED <<mailVars, senderVars, delivered, ended>>

-----------------------------------------------------------------------------
(* Closing *)

\* close_receiver, called by ShardSender::close, ShardReceiver::close and by
\* Drop for ShardReceiver; `r` is what becomes of the receiver
CloseReceiver(r) ==
    /\ IF receiver_closed
         THEN UNCHANGED <<receiver_closed, recv_waker, recv_woken, send_wakers, ready>>
         ELSE /\ receiver_closed' = TRUE
              /\ WakeReceiver
              /\ send_wakers' = <<>>
              /\ ready' = ready \cup ({send_wakers[i] : i \in 1 .. Len(send_wakers)} \cap pending)
    /\ receiver' = r
    /\ UNCHANGED <<inbox, sender_count, sender_factory_open, receiver_taken, held, made,
                   pending, delivered, ended>>

CloseBySender == held # {} /\ CloseReceiver(receiver)

CloseByReceiver == receiver = "idle" /\ CloseReceiver(receiver)

DropReceiver == receiver = "idle" /\ CloseReceiver("gone")

\* fault: the last source of senders goes without a wake
DropSetUnwoken ==
    /\ sender_factory_open
    /\ sender_factory_open' = FALSE
    /\ UNCHANGED <<inbox, sender_count, receiver_taken, receiver_closed, recv_waker,
                   send_wakers, senderVars, recvVars>>

\* Drop for ShardMailboxSet: close_sender_factory
DropSet ==
    /\ sender_factory_open
    /\ sender_factory_open' = FALSE
    /\ IF sender_count = 0 /\ inbox = <<>>
         THEN WakeReceiver
         ELSE UNCHANGED <<recv_waker, recv_woken>>
    /\ UNCHANGED <<inbox, sender_count, receiver_taken, receiver_closed, send_wakers,
                   senderVars, receiver, delivered, ended>>

-----------------------------------------------------------------------------
\* senders that keep to their sends: no send is cancelled or polled unasked
SteadyNext ==
    \/ \E s \in Senders : NewSender(s)
    \/ \E s \in Senders : DropSender(s)
    \/ \E s \in Senders : TrySend(s)
    \/ \E s \in Senders : Send(s)
    \/ \E s \in Senders : PollSend(s)
    \/ TakeReceiver
    \/ TryRecv
    \/ PollRecv
    \/ CancelRecv
    \/ CloseBySender
    \/ CloseByReceiver
    \/ DropReceiver
    \/ DropSet

MailboxNext ==
    \/ SteadyNext
    \/ \E s \in Senders : WakeOther(s)
    \/ \E s \in Senders : CancelSend(s)

MailboxSpec == MailboxInit /\ [][MailboxNext]_mailboxVars

SteadySpec == MailboxInit /\ [][SteadyNext]_mailboxVars

\* A receiver that keeps receiving: it starts its next receive, it polls when it is
\* woken, and so does every sender; nothing is polled for any other reason.
SteadyFairness ==
    /\ WF_mailboxVars(receiver = "idle" /\ PollRecv)
    /\ WF_mailboxVars(recv_woken /\ PollRecv)
    /\ \A s \in Senders : WF_mailboxVars(PollSend(s))

-----------------------------------------------------------------------------
(* Properties *)

Messages == Senders \X (1 .. MaxSends)

\* Every variable keeps the shape of the field it stands for; the queue stays within the
\* capacity.
MailboxTypeOK ==
    /\ inbox \in Seq(Messages)
    /\ Len(inbox) \leq Capacity
    /\ sender_count \in Nat
    /\ sender_factory_open \in BOOLEAN
    /\ receiver_taken \in BOOLEAN
    /\ receiver_closed \in BOOLEAN
    /\ recv_waker \in BOOLEAN
    /\ send_wakers \in Seq(Senders)
    /\ held \in SUBSET Senders
    /\ made \in [Senders -> 0 .. MaxSends]
    /\ pending \in SUBSET held
    /\ ready \in SUBSET pending
    /\ receiver \in {"none", "idle", "awaiting", "gone"}
    /\ recv_woken \in BOOLEAN
    /\ delivered \in Seq(Messages)
    /\ ended \in BOOLEAN

\* No receiver sleeps through a message or the end of the stream: an awaiting receiver
\* that nobody has woken has its waker registered, the queue is empty, and something can
\* still arrive (poll_recv against try_send, poll_send, drop_sender, close_sender_factory
\* and close_receiver).
ReceiverNotStranded ==
    receiver = "awaiting" /\ ~recv_woken =>
      /\ recv_waker
      /\ inbox = <<>>
      /\ ~receiver_closed
      /\ ~NoSenders

\* Closed is the last word: once a receive has returned Closed the queue is empty, and
\* no sender is left that a later try_send or send could succeed with.
EndIsFinal ==
    ended => /\ inbox = <<>>
             /\ receiver_closed \/ (held = {} /\ ~sender_factory_open)

\* The mailbox keeps the promise of a channel between shards.
Channel == INSTANCE OwnedChannel
             WITH Messages <- Messages, Bound <- Capacity, buffer <- inbox,
                  out <- delivered, told <- ended,
                  open <- ~receiver_closed /\ ~NoSenders

ImplementsChannel == Channel!Spec

\* Senders that have registered a waker and were not woken since
Parked == pending \ ready

\* Capacity is handed on: while senders are parked, every free slot has a woken sender
\* on its way to it (try_recv and poll_recv wake one sender per message taken).
NoStrandedSender ==
    Parked # {} => Capacity \leq Len(inbox) + Cardinality(ready)

\* A wait for capacity ends: with the sender's message queued, or with Closed.
SendCompletes ==
    \A s \in Senders :
      (receiver # "none" /\ s \in pending) ~> (s \notin pending)

\* docs/shard-mailbox-plan.md: "The async send future should complete when capacity
\* becomes available, and dropped send futures must not leak wakers or permits."  So no
\* sender is left waiting for capacity at an empty mailbox whose receiver is waiting too.
NoStandstill ==
    ~(Parked # {} /\ ready = {} /\ receiver = "awaiting" /\ ~recv_woken)

=============================================================================
