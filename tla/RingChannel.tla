----------------------------- MODULE RingChannel -----------------------------
(***************************************************************************)
(* The channel between shards of the no_std runtime (shard_runtime.rs) on  *)
(* its lock-free ring (ringbuf.rs).  Cloned senders take turns under       *)
(* push_lock; the one receiver pops without a lock; the receiver's waker   *)
(* is behind a lock of its own.  A step is one atomic access that another  *)
(* thread can see, or one critical section.  Both sides synchronise        *)
(* through the waker's lock and through acquire and release accesses to    *)
(* head, tail and closed, so sequential consistency loses no behaviour.    *)
(***************************************************************************)
EXTENDS Naturals, Sequences

CONSTANTS
    Senders,     \* the clones of ShardSender, one per thread
    Capacity,    \* capacity given to channel()
    MaxSends,    \* bound on the try_send calls of one sender
    NoMessage,   \* an uninitialised cell
    NoSender     \* push_lock is free

\* channel() refuses a capacity below two
ASSUME RingAssumption ==
    /\ Capacity \in Nat /\ Capacity \geq 2
    /\ MaxSends \in Nat
    /\ NoMessage \notin Senders \X (1 .. MaxSends)
    /\ NoSender \notin Senders

VARIABLES
    \* RingBuffer
    head, tail, cell,
    \* ChannelShared
    push_lock, recv_waker, closed,
    \* senders: where each is, and its calls of try_send so far
    pc, sent,
    \* the receiver: where it is; whether in a recv, and in its second look; the item
    \* it has read; whether its task has been woken
    rpc, awaits, recheck, item, woken,
    \* history: messages received, recv returned None, messages queued before closing
    delivered, ended, owed

ringVars == <<head, tail, cell>>
sendVars == <<pc, sent, push_lock>>
recvVars == <<rpc, awaits, recheck, item, delivered, ended>>
vars == <<ringVars, recv_waker, closed, sendVars, recvVars, woken, owed>>

Messages == Senders \X (1 .. MaxSends)
Slots == 0 .. Capacity - 1

Init ==
    /\ head = 0 /\ tail = 0
    /\ cell = [i \in Slots |-> NoMessage]
    /\ push_lock = NoSender /\ recv_waker = FALSE /\ closed = FALSE
    /\ pc = [s \in Senders |-> "idle"] /\ sent = [s \in Senders |-> 0]
    /\ rpc = "idle" /\ awaits = FALSE /\ recheck = FALSE
    /\ item = NoMessage /\ woken = FALSE
    /\ delivered = <<>> /\ ended = FALSE /\ owed = 0

-----------------------------------------------------------------------------
(* The ring.  A definition marked "fault" is the one that follows it with a mistake in  *)
(* it; Next uses none of them.                                                         *)

NextSlot(i) == IF i + 1 = Capacity THEN 0 ELSE i + 1

\* RingBuffer::len
RingLen == IF head \geq tail THEN head - tail ELSE head + Capacity - tail

\* fault: the last free cell is used too, and full looks like empty
IsFullNever == FALSE

IsFull == NextSlot(head) = tail

-----------------------------------------------------------------------------
(* Senders *)

\* try_send: the check of `closed`
TrySend(s) ==
    /\ pc[s] = "idle"
    /\ sent[s] < MaxSends
    /\ sent' = [sent EXCEPT ![s] = @ + 1]
    /\ pc' = [pc EXCEPT ![s] = IF closed THEN "idle" ELSE "push"]
    /\ UNCHANGED <<ringVars, recv_waker, closed, push_lock, recvVars, woken, owed>>

\* fault: producers do not take turns
PushUnlocked(s) ==
    /\ pc[s] = "push"
    /\ IF IsFull THEN /\ pc' = [pc EXCEPT ![s] = "idle"]
                      /\ UNCHANGED push_lock
                 ELSE /\ pc' = [pc EXCEPT ![s] = "write"]
                      /\ push_lock' = s
    /\ UNCHANGED <<ringVars, recv_waker, closed, sent, recvVars, woken, owed>>

\* push_lock is taken and tail loaded: full, or a cell to fill
Push(s) ==
    /\ pc[s] = "push"
    /\ push_lock = NoSender
    /\ IF IsFull THEN /\ pc' = [pc EXCEPT ![s] = "idle"]
                      /\ UNCHANGED push_lock
                 ELSE /\ pc' = [pc EXCEPT ![s] = "write"]
                      /\ push_lock' = s
    /\ UNCHANGED <<ringVars, recv_waker, closed, sent, recvVars, woken, owed>>

Write(s) ==
    /\ pc[s] = "write"
    /\ cell' = [cell EXCEPT ![head] = <<s, sent[s]>>]
    /\ pc' = [pc EXCEPT ![s] = "publish"]
    /\ UNCHANGED <<head, tail, recv_waker, closed, sent, push_lock, recvVars, woken, owed>>

\* head is stored and push_lock released
Publish(s) ==
    /\ pc[s] = "publish"
    /\ head' = NextSlot(head)
    /\ push_lock' = NoSender
    /\ pc' = [pc EXCEPT ![s] = "wake"]
    /\ UNCHANGED <<cell, tail, recv_waker, closed, sent, recvVars, woken, owed>>

\* close: the flag first
Close(s) ==
    /\ pc[s] = "idle"
    /\ closed' = TRUE
    /\ owed' = IF closed THEN owed ELSE Len(delivered) + RingLen
    /\ pc' = [pc EXCEPT ![s] = "wake"]
    /\ UNCHANGED <<ringVars, recv_waker, push_lock, sent, recvVars, woken>>

\* wake_receiver, the end of try_send and of close
WakeReceiver(s) ==
    /\ pc[s] = "wake"
    /\ recv_waker' = FALSE
    /\ woken' = (woken \/ (recv_waker /\ awaits))
    /\ pc' = [pc EXCEPT ![s] = "idle"]
    /\ UNCHANGED <<ringVars, closed, sent, push_lock, recvVars, owed>>

-----------------------------------------------------------------------------
(* The receiver *)

\* try_recv
TryRecv ==
    /\ rpc = "idle"
    /\ rpc' = "pop"
    /\ UNCHANGED <<ringVars, recv_waker, closed, sendVars, awaits, recheck, item, delivered,
                   ended, woken, owed>>

\* Recv::poll: the first poll of a Recv, or one the task was woken for
PollRecv ==
    /\ rpc = "idle" \/ (rpc = "pending" /\ woken)
    /\ rpc' = "pop"
    /\ awaits' = TRUE
    /\ recheck' = FALSE
    /\ woken' = FALSE
    /\ UNCHANGED <<ringVars, recv_waker, closed, sendVars, item, delivered, ended, owed>>

\* pop: head is loaded
Pop ==
    /\ rpc = "pop"
    /\ rpc' = IF head # tail THEN "read" ELSE IF awaits THEN "check" ELSE "idle"
    /\ UNCHANGED <<ringVars, recv_waker, closed, sendVars, awaits, recheck, item, delivered,
                   ended, woken, owed>>

PopRead ==
    /\ rpc = "read"
    /\ item' = cell[tail]
    /\ rpc' = "advance"
    /\ UNCHANGED <<ringVars, recv_waker, closed, sendVars, awaits, recheck, delivered, ended,
                   woken, owed>>

\* tail is stored and the message returned
PopAdvance ==
    /\ rpc = "advance"
    /\ tail' = NextSlot(tail)
    /\ delivered' = Append(delivered, item)
    /\ item' = NoMessage
    /\ rpc' = "idle"
    /\ awaits' = FALSE
    /\ woken' = FALSE
    /\ UNCHANGED <<head, cell, recv_waker, closed, sendVars, recheck, ended, owed>>

\* the ring was empty: None if closed, else the waker, or Pending after the second look
CheckClosed ==
    /\ rpc = "check"
    /\ ended' = (ended \/ closed)
    /\ awaits' = ~closed
    /\ rpc' = IF closed THEN "idle" ELSE IF recheck THEN "pending" ELSE "register"
    /\ UNCHANGED <<ringVars, recv_waker, closed, sendVars, recheck, item, delivered, woken,
                   owed>>

Register ==
    /\ rpc = "register"
    /\ recv_waker' = TRUE
    /\ recheck' = TRUE
    /\ rpc' = "pop"
    /\ UNCHANGED <<ringVars, closed, sendVars, awaits, item, delivered, ended, woken, owed>>

\* a Recv is dropped; its waker stays registered
CancelRecv ==
    /\ rpc = "pending"
    /\ rpc' = "idle"
    /\ awaits' = FALSE
    /\ woken' = FALSE
    /\ UNCHANGED <<ringVars, recv_waker, closed, sendVars, recheck, item, delivered, ended,
                   owed>>

\* the receiving task is woken by something else
WakeOther ==
    /\ rpc = "pending"
    /\ woken' = TRUE
    /\ UNCHANGED <<ringVars, recv_waker, closed, sendVars, recvVars, owed>>

-----------------------------------------------------------------------------
SenderStep(s) == Push(s) \/ Write(s) \/ Publish(s) \/ WakeReceiver(s)

ReceiverStep == PollRecv \/ Pop \/ PopRead \/ PopAdvance \/ CheckClosed \/ Register

Next ==
    \/ \E s \in Senders : TrySend(s) \/ Close(s) \/ SenderStep(s)
    \/ ReceiverStep
    \/ TryRecv
    \/ CancelRecv
    \/ WakeOther

Spec == Init /\ [][Next]_vars

-----------------------------------------------------------------------------
(* Properties *)

\* Every variable keeps the shape of the field or local it stands for.
TypeOK ==
    /\ head \in Slots /\ tail \in Slots
    /\ cell \in [Slots -> Messages \cup {NoMessage}]
    /\ push_lock \in Senders \cup {NoSender}
    /\ recv_waker \in BOOLEAN /\ closed \in BOOLEAN
    /\ pc \in [Senders -> {"idle", "push", "write", "publish", "wake"}]
    /\ sent \in [Senders -> 0 .. MaxSends]
    /\ rpc \in {"idle", "pop", "read", "advance", "check", "register", "pending"}
    /\ awaits \in BOOLEAN /\ recheck \in BOOLEAN
    /\ item \in Messages \cup {NoMessage}
    /\ woken \in BOOLEAN
    /\ delivered \in Seq(Messages)
    /\ ended \in BOOLEAN
    /\ owed \in Nat

\* push_lock keeps the producers apart, and no cell is written while the receiver reads
\* it: the two unsafe accesses of RingBuffer never meet.
NoCellRace ==
    /\ \A s \in Senders : pc[s] \in {"write", "publish"} => push_lock = s
    /\ \A s \in Senders : pc[s] = "write" /\ rpc = "read" => head # tail

\* No receiver sleeps through a message or the closing: if one is asleep and there is
\* something to see, a sender still has its waker to take.
ReceiverNotStranded ==
    rpc = "pending" /\ ~woken =>
      /\ recv_waker
      /\ head # tail \/ closed => \E s \in Senders : pc[s] = "wake"

\* The slot of the i-th oldest message
SlotAt(i) == IF tail + i - 1 < Capacity THEN tail + i - 1 ELSE tail + i - 1 - Capacity

\* The messages in the ring, oldest first
Contents == [i \in 1 .. RingLen |-> cell[SlotAt(i)]]

Queue == INSTANCE OwnedChannel
           WITH Messages <- Messages, Bound <- Capacity - 1, buffer <- Contents,
                out <- delivered, open <- TRUE, told <- FALSE

\* The ring is a queue of Capacity - 1 messages: each is delivered once and in the order of
\* the heads' stores.
RingIsQueue == Queue!Spec

\* "A receiver awaiting [`ShardReceiver::recv`] first drains any queued messages and then
\* resolves to `None`": what was queued when the channel was closed has been received.
EndsDrained == ended => Len(delivered) \geq owed

=============================================================================
