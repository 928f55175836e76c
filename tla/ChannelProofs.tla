--------------------------- MODULE ChannelProofs ---------------------------
(***************************************************************************)
(* Proofs about what threads, or a thread and the kernel, share: the ring  *)
(* channel, for any set of senders, any capacity of two or more and any    *)
(* number of messages; the backpressure guard, for any finite set of       *)
(* acquirers and any capacity; the streaming reply, for any finite set of  *)
(* producers, any number of values and any way of receiving; and the       *)
(* io_uring used directly by one thread, where what a call lends to the    *)
(* kernel is lent until its completion is there.                           *)
(***************************************************************************)
EXTENDS RingChannel, Backpressure, StreamReply, DirectRing, TLAPS

\* A leaf is first-order reasoning, Zenon's, unless it cites another prover.
USE Zenon

-----------------------------------------------------------------------------
(* The ring channel: the strengthened invariant, in parts *)

\* The producer inside the ring holds push_lock, and has found a free cell.
ProducerInside ==
    \A s \in Senders :
      /\ pc[s] \in {"write", "publish"} => push_lock = s /\ NextSlot(head) # tail
      /\ pc[s] = "publish" => cell[head] = <<s, sent[s]>>

\* A sender past its first call has a message number within the bound.
SentSome == \A s \in Senders : pc[s] \in {"push", "write", "publish"} => sent[s] # 0

\* The receiver inside a pop has found a message, and has it.
ConsumerInside ==
    /\ rpc \in {"read", "advance"} => head # tail
    /\ rpc = "advance" => item = cell[tail]

\* Every cell from tail to head is initialised.
Initialised == \A i \in 1 .. RingLen : cell[SlotAt(i)] \in Messages

RingInv ==
    /\ TypeOK
    /\ ProducerInside
    /\ SentSome
    /\ ConsumerInside
    /\ Initialised

\* Sequences are the same when their lengths and elements are.
LEMMA SameSequence ==
    ASSUME NEW S, NEW p \in Seq(S), NEW q \in Seq(S),
           Len(p) = Len(q), \A i \in 1 .. Len(p) : p[i] = q[i]
    PROVE  p = q
BY SMT

-----------------------------------------------------------------------------
(* Arithmetic of the ring *)

\* Slots are numbers, and stepping stays among them and is injective.
LEMMA SlotFacts ==
    /\ Capacity \in Nat /\ Capacity \geq 2
    /\ \A i \in Slots : i \in Nat /\ i < Capacity /\ NextSlot(i) \in Slots /\ NextSlot(i) # i
    /\ \A i, j \in Slots : NextSlot(i) = NextSlot(j) => i = j
BY RingAssumption, SMT DEF Slots, NextSlot

\* The length lies between zero and one less than the capacity.
LEMMA LenFacts ==
    ASSUME head \in Slots, tail \in Slots
    PROVE  /\ RingLen \in 0 .. Capacity - 1
           /\ RingLen = 0 <=> head = tail
           /\ \A i \in 1 .. RingLen : SlotAt(i) \in Slots /\ SlotAt(i) # head
           /\ head # tail => SlotAt(1) = tail /\ 1 \in 1 .. RingLen
BY RingAssumption, SMT DEF Slots, RingLen, SlotAt

\* Storing the next head makes the ring one longer, at the end.
LEMMA PublishFacts ==
    ASSUME head \in Slots, tail \in Slots, NextSlot(head) # tail,
           head' = NextSlot(head), tail' = tail
    PROVE  /\ RingLen' = RingLen + 1
           /\ RingLen + 1 \leq Capacity - 1
           /\ \A i \in 1 .. RingLen : SlotAt(i)' = SlotAt(i)
           /\ SlotAt(RingLen + 1) = head
BY RingAssumption, SMT DEF Slots, RingLen, SlotAt, NextSlot

\* Storing the next tail makes the ring one shorter, at the front.
LEMMA AdvanceFacts ==
    ASSUME head \in Slots, tail \in Slots, head # tail,
           tail' = NextSlot(tail), head' = head
    PROVE  /\ RingLen' = RingLen - 1
           /\ \A i \in 1 .. RingLen - 1 : SlotAt(i)' = SlotAt(i + 1)
BY RingAssumption, SMT DEF Slots, RingLen, SlotAt, NextSlot

-----------------------------------------------------------------------------
(* Preservation *)

\* The message a sender writes is one.
LEMMA MessageType ==
    ASSUME TypeOK, SentSome, NEW s \in Senders, pc[s] \in {"push", "write", "publish"}
    PROVE  <<s, sent[s]>> \in Messages
<1>1. sent[s] \in 0 .. MaxSends /\ sent[s] # 0 /\ MaxSends \in Nat
  BY RingAssumption DEF TypeOK, SentSome
<1>2. QED
  BY <1>1, SMT DEF Messages

\* What the receiver has in hand is a message.
LEMMA ItemType ==
    ASSUME RingInv, rpc = "advance"
    PROVE  item \in Messages
<1>1. head \in Slots /\ tail \in Slots /\ head # tail /\ item = cell[tail]
  BY DEF RingInv, TypeOK, ConsumerInside
<1>2. QED
  BY <1>1, LenFacts DEF RingInv, Initialised

\* Every step keeps the types.
LEMMA RingTypeStep == RingInv /\ [Next]_vars => TypeOK'
<1> SUFFICES ASSUME RingInv, [Next]_vars PROVE TypeOK'
  OBVIOUS
<1>0. TypeOK /\ ProducerInside /\ SentSome /\ ConsumerInside /\ Initialised
  BY DEF RingInv
<1>1. ASSUME NEW s \in Senders, TrySend(s) PROVE TypeOK'
  <2>1. sent[s] \in 0 .. MaxSends /\ sent[s] < MaxSends /\ MaxSends \in Nat
    BY <1>0, <1>1, RingAssumption DEF TypeOK, TrySend
  <2>2. sent' \in [Senders -> 0 .. MaxSends]
    BY <1>0, <1>1, <2>1, SMT DEF TypeOK, TrySend
  <2>3. pc' \in [Senders -> {"idle", "push", "write", "publish", "wake"}]
    BY <1>0, <1>1 DEF TypeOK, TrySend
  <2>4. QED
    BY <1>0, <1>1, <2>2, <2>3, SMT DEF TypeOK, TrySend, ringVars, recvVars
<1>2. ASSUME NEW s \in Senders, Push(s) PROVE TypeOK'
  <2>1. pc' \in [Senders -> {"idle", "push", "write", "publish", "wake"}]
    BY <1>0, <1>2 DEF TypeOK, Push
  <2>2. QED
    BY <1>0, <1>2, <2>1, SMT DEF TypeOK, Push, ringVars, recvVars
<1>3. ASSUME NEW s \in Senders, Write(s) PROVE TypeOK'
  <2>1. <<s, sent[s]>> \in Messages
    BY <1>0, <1>3, MessageType DEF Write
  <2>2. cell' \in [Slots -> Messages \cup {NoMessage}]
    BY <1>0, <1>3, <2>1 DEF TypeOK, Write
  <2>3. QED
    BY <1>0, <1>3, <2>2, SMT DEF TypeOK, Write, recvVars
<1>4. ASSUME NEW s \in Senders, Publish(s) PROVE TypeOK'
  BY <1>0, <1>4, SlotFacts, SMT DEF TypeOK, Publish, recvVars
<1>5. ASSUME NEW s \in Senders, Close(s) PROVE TypeOK'
  <2>1. Len(delivered) \in Nat /\ RingLen \in Nat
    BY <1>0, LenFacts, RingAssumption, SMT DEF TypeOK
  <2>2. owed' \in Nat
    BY <1>0, <1>5, <2>1, SMT DEF TypeOK, Close
  <2>3. QED
    BY <1>0, <1>5, <2>2, SMT DEF TypeOK, Close, ringVars, recvVars
<1>6. ASSUME NEW s \in Senders, WakeReceiver(s) PROVE TypeOK'
  <2>1. woken' \in BOOLEAN
    BY <1>0, <1>6 DEF TypeOK, WakeReceiver
  <2>2. QED
    BY <1>0, <1>6, <2>1 DEF TypeOK, WakeReceiver, ringVars, recvVars
<1>7. CASE TryRecv \/ PollRecv \/ Pop \/ Register \/ CancelRecv \/ WakeOther
  BY <1>0, <1>7, ZenonT(30)
  DEF TypeOK, TryRecv, PollRecv, Pop, Register, CancelRecv, WakeOther, ringVars, sendVars,
      recvVars
<1>8. CASE PopRead
  BY <1>0, <1>8 DEF TypeOK, PopRead, ringVars, sendVars
<1>9. CASE PopAdvance
  <2>1. item \in Messages
    BY <1>9, ItemType DEF PopAdvance
  <2>2. delivered' \in Seq(Messages)
    BY <1>0, <1>9, <2>1, SMT DEF TypeOK, PopAdvance
  <2>3. tail' \in Slots
    BY <1>0, <1>9, SlotFacts DEF TypeOK, PopAdvance
  <2>4. QED
    BY <1>0, <1>9, <2>2, <2>3 DEF TypeOK, PopAdvance, sendVars
<1>10. CASE CheckClosed
  <2>1. ended' \in BOOLEAN /\ awaits' \in BOOLEAN
    BY <1>0, <1>10 DEF TypeOK, CheckClosed
  <2>2. QED
    BY <1>0, <1>10, <2>1 DEF TypeOK, CheckClosed, ringVars, sendVars
<1>11. CASE UNCHANGED vars
  BY <1>0, <1>11, SMT DEF TypeOK, vars, ringVars, sendVars, recvVars
<1>12. QED
  BY <1>1, <1>2, <1>3, <1>4, <1>5, <1>6, <1>7, <1>8, <1>9, <1>10, <1>11
  DEF Next, SenderStep, ReceiverStep

\* Steps of the receiver leave the senders alone, and only PopAdvance moves tail.
LEMMA ReceiverFrame ==
    ASSUME PollRecv \/ Pop \/ PopRead \/ CheckClosed \/ Register \/ TryRecv \/ CancelRecv
             \/ WakeOther \/ UNCHANGED vars
    PROVE  UNCHANGED <<head, tail, cell, pc, sent, push_lock>>
BY DEF PollRecv, Pop, PopRead, CheckClosed, Register, TryRecv, CancelRecv, WakeOther, vars,
       ringVars, sendVars, recvVars

\* Every step keeps the producers apart and the filled cell in place.
LEMMA ProducerInsideStep == RingInv /\ [Next]_vars => ProducerInside' /\ SentSome'
<1> SUFFICES ASSUME RingInv, [Next]_vars PROVE ProducerInside' /\ SentSome'
  OBVIOUS
<1>0. /\ TypeOK /\ ProducerInside /\ SentSome /\ ConsumerInside
      /\ head \in Slots /\ tail \in Slots
      /\ NoSender \notin Senders
  BY RingAssumption DEF RingInv, TypeOK
<1>1. ASSUME UNCHANGED <<head, tail, cell, pc, sent, push_lock>>
      PROVE  ProducerInside' /\ SentSome'
  BY <1>0, <1>1 DEF ProducerInside, SentSome
<1>2. ASSUME NEW s \in Senders, TrySend(s) PROVE ProducerInside' /\ SentSome'
  <2>1. /\ pc'[s] \in {"idle", "push"}
        /\ \A u \in Senders \ {s} : pc'[u] = pc[u] /\ sent'[u] = sent[u]
        /\ UNCHANGED <<head, tail, cell, push_lock>>
    BY <1>0, <1>2 DEF TypeOK, TrySend, ringVars
  <2>2. sent[s] \in Nat /\ sent'[s] = sent[s] + 1
    BY <1>0, <1>2, RingAssumption, SMT DEF TypeOK, TrySend
  <2>3. SentSome'
    BY <1>0, <2>1, <2>2, SMT DEF SentSome
  <2>4. QED
    BY <1>0, <2>1, <2>3 DEF ProducerInside
<1>3. ASSUME NEW s \in Senders, Push(s) PROVE ProducerInside' /\ SentSome'
  <2>1. /\ push_lock = NoSender
        /\ \A u \in Senders : pc[u] \notin {"write", "publish"}
    BY <1>0, <1>3 DEF Push, ProducerInside
  <2>2. /\ pc[s] = "push"
        /\ \A u \in Senders \ {s} : pc'[u] = pc[u]
        /\ UNCHANGED <<head, tail, cell, sent>>
        /\ \/ pc'[s] = "idle"
           \/ pc'[s] = "write" /\ push_lock' = s /\ NextSlot(head) # tail
    BY <1>0, <1>3 DEF TypeOK, Push, ringVars, IsFull
  <2>3. QED
    BY <1>0, <2>1, <2>2 DEF ProducerInside, SentSome
<1>4. ASSUME NEW s \in Senders, Write(s) PROVE ProducerInside' /\ SentSome'
  <2>1. push_lock = s /\ NextSlot(head) # tail
        /\ \A u \in Senders \ {s} : pc[u] \notin {"write", "publish"}
    BY <1>0, <1>4 DEF Write, ProducerInside
  <2>2. /\ pc[s] = "write" /\ pc'[s] = "publish" /\ cell'[head] = <<s, sent[s]>>
        /\ \A u \in Senders \ {s} : pc'[u] = pc[u]
        /\ UNCHANGED <<head, tail, sent, push_lock>>
    BY <1>0, <1>4 DEF TypeOK, Write
  <2>3. QED
    BY <1>0, <2>1, <2>2 DEF ProducerInside, SentSome
<1>5. ASSUME NEW s \in Senders, Publish(s) PROVE ProducerInside' /\ SentSome'
  <2>1. \A u \in Senders \ {s} : pc[u] \notin {"write", "publish"}
    BY <1>0, <1>5 DEF Publish, ProducerInside
  <2>2. pc'[s] = "wake" /\ (\A u \in Senders \ {s} : pc'[u] = pc[u]) /\ sent' = sent
    BY <1>0, <1>5 DEF TypeOK, Publish
  <2>3. QED
    BY <1>0, <2>1, <2>2 DEF ProducerInside, SentSome
<1>6. ASSUME NEW s \in Senders, Close(s) \/ WakeReceiver(s)
      PROVE  ProducerInside' /\ SentSome'
  <2>1. /\ pc'[s] \in {"idle", "wake"} /\ \A u \in Senders \ {s} : pc'[u] = pc[u]
        /\ UNCHANGED <<head, tail, cell, sent, push_lock>>
    BY <1>0, <1>6 DEF TypeOK, Close, WakeReceiver, ringVars
  <2>2. QED
    BY <1>0, <2>1 DEF ProducerInside, SentSome
<1>7. CASE PopAdvance
  <2>1. head # tail /\ tail' = NextSlot(tail) /\ UNCHANGED <<head, cell, pc, sent, push_lock>>
    BY <1>0, <1>7 DEF PopAdvance, ConsumerInside, sendVars
  <2>2. NextSlot(head) # tail'
    BY <1>0, <2>1, SlotFacts
  <2>3. NextSlot(head') = NextSlot(head)
    BY <2>1
  <2>4. QED
    BY <1>0, <2>1, <2>2, <2>3 DEF ProducerInside, SentSome
<1>8. QED
  BY <1>1, <1>2, <1>3, <1>4, <1>5, <1>6, <1>7, ReceiverFrame
  DEF Next, SenderStep, ReceiverStep

\* Every step keeps what the receiver has found in a pop.
LEMMA ConsumerInsideStep == RingInv /\ [Next]_vars => ConsumerInside'
<1> SUFFICES ASSUME RingInv, [Next]_vars PROVE ConsumerInside'
  OBVIOUS
<1>0. /\ TypeOK /\ ProducerInside /\ ConsumerInside /\ head \in Slots /\ tail \in Slots
  BY DEF RingInv, TypeOK
<1>1. ASSUME NEW s \in Senders, Write(s) PROVE ConsumerInside'
  <2>1. UNCHANGED <<head, tail, rpc, item>>
    BY <1>1 DEF Write, recvVars
  <2>2. head # tail => cell'[tail] = cell[tail]
    BY <1>0, <1>1 DEF TypeOK, Write
  <2>3. QED
    BY <1>0, <2>1, <2>2 DEF ConsumerInside
<1>2. ASSUME NEW s \in Senders, Publish(s) PROVE ConsumerInside'
  <2>1. NextSlot(head) # tail /\ head' = NextSlot(head) /\ UNCHANGED <<tail, cell, rpc, item>>
    BY <1>0, <1>2 DEF Publish, ProducerInside, recvVars
  <2>2. QED
    BY <1>0, <2>1 DEF ConsumerInside
<1>3. ASSUME NEW s \in Senders, TrySend(s) \/ Push(s) \/ Close(s) \/ WakeReceiver(s)
      PROVE  ConsumerInside'
  BY <1>0, <1>3
  DEF ConsumerInside, TrySend, Push, Close, WakeReceiver, ringVars, recvVars
<1>4. CASE TryRecv \/ PollRecv \/ Pop \/ PopRead \/ PopAdvance \/ CheckClosed \/ Register
             \/ CancelRecv \/ WakeOther \/ UNCHANGED vars
  BY <1>0, <1>4
  DEF ConsumerInside, TryRecv, PollRecv, Pop, PopRead, PopAdvance, CheckClosed, Register,
      CancelRecv, WakeOther, vars, ringVars, recvVars
<1>5. QED
  BY <1>1, <1>2, <1>3, <1>4 DEF Next, SenderStep, ReceiverStep

\* A step that leaves head and tail alone, and of the cells changes at most the free one
\* at head, leaves the contents alone.
LEMMA SameContents ==
    ASSUME TypeOK, UNCHANGED <<head, tail>>,
           \A i \in Slots : i # head => cell'[i] = cell[i]
    PROVE  /\ RingLen' = RingLen
           /\ \A i \in 1 .. RingLen : SlotAt(i)' = SlotAt(i)
           /\ \A i \in 1 .. RingLen : cell'[SlotAt(i)] = cell[SlotAt(i)]
<1>1. RingLen' = RingLen /\ \A i \in 1 .. RingLen : SlotAt(i)' = SlotAt(i)
  BY DEF RingLen, SlotAt
<1>2. \A i \in 1 .. RingLen : SlotAt(i) \in Slots /\ SlotAt(i) # head
  BY LenFacts DEF TypeOK
<1>3. QED
  BY <1>1, <1>2

\* Only Write touches a cell, and only the one at head; only Publish and PopAdvance move
\* an end of the ring.
LEMMA RingFrame ==
    ASSUME TypeOK, [Next]_vars
    PROVE  \/ \E s \in Senders : Publish(s)
           \/ PopAdvance
           \/ /\ UNCHANGED <<head, tail, delivered>>
              /\ \A i \in Slots : i # head => cell'[i] = cell[i]
<1>1. ASSUME NEW s \in Senders, Write(s)
      PROVE  /\ UNCHANGED <<head, tail, delivered>>
             /\ \A i \in Slots : i # head => cell'[i] = cell[i]
  BY <1>1 DEF TypeOK, Write, recvVars
<1>2. ASSUME NEW s \in Senders, TrySend(s) \/ Push(s) \/ Close(s) \/ WakeReceiver(s)
      PROVE  UNCHANGED <<head, tail, cell, delivered>>
  BY <1>2 DEF TrySend, Push, Close, WakeReceiver, ringVars, recvVars
<1>3. CASE TryRecv \/ PollRecv \/ Pop \/ PopRead \/ CheckClosed \/ Register \/ CancelRecv
             \/ WakeOther \/ UNCHANGED vars
  BY <1>3
  DEF TryRecv, PollRecv, Pop, PopRead, CheckClosed, Register, CancelRecv, WakeOther, vars,
      ringVars, recvVars
<1>4. QED
  BY <1>1, <1>2, <1>3 DEF Next, SenderStep, ReceiverStep

\* Every step keeps the cells from tail to head initialised.
LEMMA InitialisedStep == RingInv /\ [Next]_vars => Initialised'
<1> SUFFICES ASSUME RingInv, [Next]_vars PROVE Initialised'
  OBVIOUS
<1>0. /\ TypeOK /\ ProducerInside /\ SentSome /\ ConsumerInside /\ Initialised
      /\ head \in Slots /\ tail \in Slots
      /\ RingLen \in Nat
  BY LenFacts, RingAssumption, SMT DEF RingInv, TypeOK
<1>1. ASSUME NEW s \in Senders, Publish(s) PROVE Initialised'
  <2>1. /\ NextSlot(head) # tail /\ head' = NextSlot(head) /\ UNCHANGED <<tail, cell>>
        /\ cell[head] = <<s, sent[s]>>
    BY <1>0, <1>1 DEF Publish, ProducerInside
  <2>2. <<s, sent[s]>> \in Messages
    BY <1>0, <1>1, MessageType DEF Publish
  <2>3. /\ RingLen' = RingLen + 1
        /\ \A i \in 1 .. RingLen : SlotAt(i)' = SlotAt(i)
        /\ SlotAt(RingLen + 1) = head
    BY <1>0, <2>1, PublishFacts
  <2>4. \A i \in 1 .. RingLen + 1 : SlotAt(i)' = SlotAt(i)
    BY <2>1 DEF SlotAt
  <2>5. \A i \in 1 .. RingLen + 1 : i \in 1 .. RingLen \/ i = RingLen + 1
    BY <1>0, SMT
  <2>6. \A i \in 1 .. RingLen + 1 : cell[SlotAt(i)] \in Messages
    BY <1>0, <2>1, <2>2, <2>3, <2>5 DEF Initialised
  <2>7. QED
    BY <2>1, <2>3, <2>4, <2>6 DEF Initialised
<1>2. CASE PopAdvance
  <2>1. head # tail /\ tail' = NextSlot(tail) /\ UNCHANGED <<head, cell>>
    BY <1>0, <1>2 DEF PopAdvance, ConsumerInside
  <2>2. /\ RingLen' = RingLen - 1
        /\ \A i \in 1 .. RingLen - 1 : SlotAt(i)' = SlotAt(i + 1)
    BY <1>0, <2>1, AdvanceFacts
  <2>3. \A i \in 1 .. RingLen - 1 : i + 1 \in 1 .. RingLen
    BY <1>0, SMT
  <2>4. QED
    BY <1>0, <2>1, <2>2, <2>3 DEF Initialised
<1>3. CASE /\ UNCHANGED <<head, tail, delivered>>
           /\ \A i \in Slots : i # head => cell'[i] = cell[i]
  BY <1>0, <1>3, SameContents DEF Initialised
<1>4. QED
  BY <1>0, <1>1, <1>2, <1>3, RingFrame

\* The strengthened invariant holds of every reachable state.
LEMMA RingAlways == Spec => []RingInv
<1>1. Init => RingInv
  <2> SUFFICES ASSUME Init PROVE RingInv
    OBVIOUS
  <2>1. 0 \in Slots /\ 0 \in 0 .. MaxSends /\ <<>> \in Seq(Messages)
    BY RingAssumption, SMT DEF Slots
  <2>2. TypeOK
    BY <2>1 DEF Init, TypeOK
  <2>3. RingLen = 0
    BY <2>1, LenFacts DEF Init
  <2>4. QED
    BY <2>2, <2>3, SMT
    DEF Init, RingInv, ProducerInside, SentSome, ConsumerInside, Initialised
<1>2. RingInv /\ [Next]_vars => RingInv'
  BY RingTypeStep, ProducerInsideStep, ConsumerInsideStep, InitialisedStep DEF RingInv
<1>3. QED
  BY <1>1, <1>2, PTL DEF Spec

\* Every variable of the channel keeps the shape of its field; in particular the receiver
\* only ever hands on initialised messages, so assume_init in pop is justified.
THEOREM RingTypeCorrect == Spec => []TypeOK
BY RingAlways, PTL DEF RingInv

\* The unsafe accesses of try_push and pop never meet on a cell.
THEOREM CellsNeverRace == Spec => []NoCellRace
<1>1. RingInv => NoCellRace
  BY DEF RingInv, ProducerInside, ConsumerInside, NoCellRace
<1>2. QED
  BY <1>1, RingAlways, PTL

-----------------------------------------------------------------------------
(* Waking *)

\* A sender has published or closed and has yet to take the receiver's waker.
WakeComing == \E s \in Senders : pc[s] = "wake"

\* ReceiverNotStranded made inductive: the receiver's second look is in it.  Once the
\* waker is registered it stays so until the receiver is woken; what appears after the
\* second look's pop comes with a wake.
WaitInv ==
    /\ rpc = "idle" => ~awaits
    /\ rpc \in {"check", "register", "pending"} => awaits
    /\ (rpc = "pop" /\ awaits) \/ rpc = "check" => (recheck /\ ~woken => recv_waker)
    /\ rpc = "pending" => (~woken => recv_waker)
    /\ (rpc = "check" /\ recheck) \/ rpc = "pending" => (~woken /\ head # tail => WakeComing)
    /\ rpc = "pending" => (~woken /\ closed => WakeComing)

\* Only the sender that takes the waker stops announcing it.
LEMMA WakeKept ==
    ASSUME TypeOK, NEW s \in Senders, TrySend(s) \/ Push(s) \/ Write(s)
    PROVE  WakeComing => WakeComing'
<1>1. pc[s] # "wake" /\ \A u \in Senders \ {s} : pc'[u] = pc[u]
  BY DEF TypeOK, TrySend, Push, Write
<1>2. QED
  BY <1>1 DEF WakeComing

\* No step strands a waiting receiver.
LEMMA WaitStep == TypeOK /\ WaitInv /\ [Next]_vars => WaitInv'
<1> SUFFICES ASSUME TypeOK, WaitInv, [Next]_vars PROVE WaitInv'
  OBVIOUS
<1>1. ASSUME NEW s \in Senders, TrySend(s) \/ Push(s) \/ Write(s) PROVE WaitInv'
  <2>1. UNCHANGED <<head, tail, closed, recv_waker, rpc, awaits, recheck, woken>>
    BY <1>1 DEF TrySend, Push, Write, ringVars, recvVars
  <2>2. WakeComing => WakeComing'
    BY <1>1, WakeKept
  <2>3. QED
    BY <2>1, <2>2 DEF WaitInv
<1>2. ASSUME NEW s \in Senders, Publish(s) \/ Close(s) PROVE WaitInv'
  <2>1. UNCHANGED <<recv_waker, rpc, awaits, recheck, woken>>
    BY <1>2 DEF Publish, Close, recvVars
  <2>2. WakeComing'
    BY <1>2 DEF TypeOK, Publish, Close, WakeComing
  <2>3. QED
    BY <2>1, <2>2 DEF WaitInv
<1>3. ASSUME NEW s \in Senders, WakeReceiver(s) PROVE WaitInv'
  <2>1. /\ UNCHANGED <<rpc, awaits, recheck>>
        /\ woken' = (woken \/ (recv_waker /\ awaits))
    BY <1>3 DEF WakeReceiver, recvVars
  <2>2. (rpc = "pop" /\ awaits /\ recheck) \/ (rpc = "check" /\ recheck) \/ rpc = "pending"
          => woken'
    BY <2>1 DEF WaitInv, TypeOK
  <2>3. QED
    BY <2>1, <2>2 DEF WaitInv
<1>4. CASE UNCHANGED vars
  <2>1. WakeComing' = WakeComing
    BY <1>4 DEF vars, sendVars, WakeComing
  <2>2. QED
    BY <1>4, <2>1 DEF WaitInv, vars, ringVars, recvVars
<1>5. CASE TryRecv \/ PollRecv \/ PopRead \/ PopAdvance \/ Register \/ CancelRecv
  BY <1>5, SMT DEF WaitInv, TryRecv, PollRecv, PopRead, PopAdvance, Register, CancelRecv
<1>6. CASE Pop \/ CheckClosed \/ WakeOther
  <2>1. UNCHANGED <<head, tail, closed, recv_waker, recheck>> /\ WakeComing' = WakeComing
    BY <1>6 DEF Pop, CheckClosed, WakeOther, ringVars, sendVars, recvVars, WakeComing
  <2>2. CASE Pop
    BY <2>1, <2>2, SMT DEF Pop, WaitInv
  <2>3. CASE CheckClosed
    <3>1. rpc = "check" /\ awaits' = ~closed /\ woken' = woken
      BY <2>3 DEF CheckClosed
    <3>2. CASE closed
      BY <2>3, <3>1, <3>2 DEF CheckClosed, WaitInv
    <3>3. CASE ~closed /\ recheck
      <4>1. rpc' = "pending" /\ awaits'
        BY <2>3, <3>3 DEF CheckClosed
      <4>2. QED
        BY <2>1, <3>1, <3>3, <4>1 DEF WaitInv
    <3>4. CASE ~closed /\ ~recheck
      <4>1. rpc' = "register" /\ awaits'
        BY <2>3, <3>4 DEF CheckClosed
      <4>2. QED
        BY <4>1 DEF WaitInv
    <3>5. QED
      BY <3>2, <3>3, <3>4
  <2>4. CASE WakeOther
    BY <2>1, <2>4 DEF WakeOther, WaitInv, recvVars
  <2>5. QED
    BY <1>6, <2>2, <2>3, <2>4
<1>7. QED
  BY <1>1, <1>2, <1>3, <1>4, <1>5, <1>6 DEF Next, SenderStep, ReceiverStep

\* No receiver awaiting recv sleeps through a message or the closing: Recv::poll's second
\* look against try_send and close, at every interleaving of their steps.
THEOREM NoLostReceive == Spec => []ReceiverNotStranded
<1>1. Init => WaitInv
  BY DEF Init, WaitInv
<1>2. WaitInv => ReceiverNotStranded
  BY DEF WaitInv, WakeComing, ReceiverNotStranded
<1>3. QED
  BY <1>1, <1>2, RingTypeCorrect, WaitStep, PTL DEF Spec

-----------------------------------------------------------------------------
(* The ring is a queue *)

\* A function on 1 .. n is a sequence of length n.
LEMMA FunIsSeq ==
    ASSUME NEW S, NEW n \in Nat, NEW f \in [1 .. n -> S]
    PROVE  f \in Seq(S) /\ Len(f) = n
BY SMT

\* The contents are a sequence of messages of the ring's length.
ContentsOK ==
    /\ Contents \in Seq(Messages)
    /\ Len(Contents) = RingLen
    /\ RingLen \in Nat

\* They are, in every state of the strengthened invariant.
LEMMA ContentsType == RingInv => ContentsOK
<1> SUFFICES ASSUME RingInv PROVE ContentsOK
  OBVIOUS
<1>1. RingLen \in Nat
  BY LenFacts, RingAssumption, SMT DEF RingInv, TypeOK
<1>2. Contents \in [1 .. RingLen -> Messages]
  BY DEF Contents, RingInv, Initialised
<1>3. QED
  BY <1>1, <1>2, FunIsSeq DEF ContentsOK

\* So are they after a step that keeps it.
LEMMA ContentsTypeNext == RingInv' => ContentsOK'
BY ContentsType, PTL

\* Publishing appends the message to the contents.
LEMMA PublishAccepts ==
    ASSUME RingInv, RingInv', NEW s \in Senders, Publish(s)
    PROVE  Queue!Accept
<1>0. TypeOK /\ ProducerInside /\ SentSome /\ head \in Slots /\ tail \in Slots
  BY DEF RingInv, TypeOK
<1>1. /\ NextSlot(head) # tail /\ head' = NextSlot(head)
      /\ UNCHANGED <<tail, cell, delivered>>
      /\ cell[head] = <<s, sent[s]>>
  BY <1>0 DEF Publish, ProducerInside, recvVars
<1>2. PICK m \in Messages : m = <<s, sent[s]>>
  BY <1>0, MessageType DEF Publish
<1>3. /\ RingLen' = RingLen + 1 /\ RingLen + 1 \leq Capacity - 1
      /\ SlotAt(RingLen + 1) = head
  BY <1>0, <1>1, PublishFacts
<1>4. /\ Contents \in Seq(Messages) /\ Len(Contents) = RingLen /\ RingLen \in Nat
      /\ Contents' \in Seq(Messages) /\ Len(Contents') = RingLen'
  BY ContentsType, ContentsTypeNext DEF ContentsOK
<1>5. Len(Append(Contents, m)) = RingLen + 1 /\ Append(Contents, m) \in Seq(Messages)
  BY <1>4, SMT
<1>6. ASSUME NEW i \in 1 .. RingLen + 1 PROVE Contents'[i] = Append(Contents, m)[i]
  <2>1. SlotAt(i)' = SlotAt(i)
    BY <1>1 DEF SlotAt
  <2>2. Contents'[i] = cell[SlotAt(i)]
    BY <1>1, <1>3, <2>1 DEF Contents
  <2>3. CASE i = RingLen + 1
    <3>1. Append(Contents, m)[i] = m
      BY <1>4, <2>3, SMT
    <3>2. cell[SlotAt(i)] = m
      BY <1>1, <1>2, <1>3, <2>3
    <3>3. QED
      BY <2>2, <3>1, <3>2
  <2>4. CASE i \in 1 .. RingLen
    <3>1. Contents[i] = cell[SlotAt(i)]
      BY <2>4 DEF Contents
    <3>2. Append(Contents, m)[i] = Contents[i]
      BY <1>4, <2>4, SMT
    <3>3. QED
      BY <2>2, <3>1, <3>2
  <2>5. QED
    BY <1>4, <2>3, <2>4, SMT
<1>7. Contents' = Append(Contents, m)
  <2>1. PICK p \in Seq(Messages), q \in Seq(Messages) :
             p = Contents' /\ q = Append(Contents, m)
    BY <1>4, <1>5
  <2>2. Len(p) = RingLen + 1 /\ Len(q) = RingLen + 1
    BY <1>3, <1>4, <1>5, <2>1
  <2>3. \A i \in 1 .. Len(p) : p[i] = q[i]
    BY <1>6, <2>1, <2>2
  <2>4. p = q
    BY <2>2, <2>3, SameSequence
  <2>5. QED
    BY <2>1, <2>4
<1>8. RingLen < Capacity - 1
  BY <1>3, <1>4, RingAssumption, SMT
<1>9. QED
  BY <1>1, <1>4, <1>7, <1>8 DEF Queue!Accept

\* Advancing removes the oldest message from the contents and delivers it.
LEMMA AdvanceDelivers ==
    ASSUME RingInv, RingInv', PopAdvance
    PROVE  Queue!Deliver
<1>0. head \in Slots /\ tail \in Slots
  BY DEF RingInv, TypeOK
<1>1. /\ head # tail /\ tail' = NextSlot(tail) /\ UNCHANGED <<head, cell>>
      /\ delivered' = Append(delivered, item) /\ item = cell[tail]
  BY DEF PopAdvance, RingInv, ConsumerInside
<1>2. /\ RingLen' = RingLen - 1
      /\ \A i \in 1 .. RingLen - 1 : SlotAt(i)' = SlotAt(i + 1)
  BY <1>0, <1>1, AdvanceFacts
<1>3. SlotAt(1) = tail /\ 1 \in 1 .. RingLen
  BY <1>0, <1>1, LenFacts
<1>4. /\ Contents \in Seq(Messages) /\ Len(Contents) = RingLen /\ RingLen \in Nat
      /\ Contents' \in Seq(Messages) /\ Len(Contents') = RingLen'
  BY ContentsType, ContentsTypeNext DEF ContentsOK
<1>5. Contents # <<>> /\ Head(Contents) = item
  <2>1. Contents[1] = cell[tail]
    BY <1>3 DEF Contents
  <2>2. QED
    BY <1>1, <1>3, <1>4, <2>1, SMT
<1>6. Tail(Contents) \in Seq(Messages) /\ Len(Tail(Contents)) = RingLen - 1
  BY <1>4, <1>5, SMT
<1>7. ASSUME NEW i \in 1 .. RingLen - 1 PROVE Contents'[i] = Tail(Contents)[i]
  <2>1. i + 1 \in 1 .. RingLen
    BY <1>4, SMT
  <2>2. Contents[i + 1] = cell[SlotAt(i + 1)]
    BY <2>1 DEF Contents
  <2>3. Tail(Contents)[i] = Contents[i + 1]
    BY <1>4, <1>5, <2>1, SMT
  <2>4. Contents'[i] = cell[SlotAt(i + 1)]
    BY <1>1, <1>2 DEF Contents
  <2>5. QED
    BY <2>2, <2>3, <2>4
<1>8. Contents' = Tail(Contents)
  <2>1. PICK p \in Seq(Messages), q \in Seq(Messages) :
             p = Contents' /\ q = Tail(Contents)
    BY <1>4, <1>6
  <2>2. Len(p) = RingLen - 1 /\ Len(q) = RingLen - 1
    BY <1>2, <1>4, <1>6, <2>1
  <2>3. \A i \in 1 .. Len(p) : p[i] = q[i]
    BY <1>7, <2>1, <2>2
  <2>4. p = q
    BY <2>2, <2>3, SameSequence
  <2>5. QED
    BY <2>1, <2>4
<1>9. QED
  BY <1>1, <1>5, <1>8 DEF Queue!Deliver

\* Every step of the ring is a step of the queue or none.
LEMMA QueueStep ==
    RingInv /\ RingInv' /\ [Next]_vars => [Queue!Next]_<<Contents, delivered, TRUE, FALSE>>
<1> SUFFICES ASSUME RingInv, RingInv', [Next]_vars
             PROVE  Queue!Next \/ UNCHANGED <<Contents, delivered>>
  OBVIOUS
<1>1. CASE \E s \in Senders : Publish(s)
  BY <1>1, PublishAccepts DEF Queue!Next
<1>2. CASE PopAdvance
  BY <1>2, AdvanceDelivers DEF Queue!Next
<1>3. CASE /\ UNCHANGED <<head, tail, delivered>>
           /\ \A i \in Slots : i # head => cell'[i] = cell[i]
  <2>1. /\ RingLen' = RingLen
        /\ \A i \in 1 .. RingLen : SlotAt(i)' = SlotAt(i)
        /\ \A i \in 1 .. RingLen : cell'[SlotAt(i)] = cell[SlotAt(i)]
    BY <1>3, SameContents DEF RingInv
  <2>2. Contents' = Contents
    BY <2>1 DEF Contents
  <2>3. QED
    BY <1>3, <2>2
<1>4. QED
  BY <1>1, <1>2, <1>3, RingFrame DEF RingInv

\* The ring implements a queue of Capacity - 1 messages, each delivered once and in order,
\* with any number of cloned senders pushing while the receiver pops.
THEOREM RingImplementsQueue == Spec => RingIsQueue
<1>1. Init => Queue!Init
  <2> SUFFICES ASSUME Init PROVE Queue!Init
    OBVIOUS
  <2>1. 0 \in Slots
    BY RingAssumption, SMT DEF Slots
  <2>2. RingLen = 0
    BY <2>1, LenFacts DEF Init
  <2>3. Contents = <<>>
    BY <2>2, SMT DEF Contents
  <2>4. QED
    BY <2>3 DEF Init, Queue!Init
<1>2. QED
  BY <1>1, RingAlways, QueueStep, PTL DEF Spec, RingIsQueue, Queue!Spec

-----------------------------------------------------------------------------
(* The ring used directly *)

LEMMA MemberFacts ==
    ASSUME NEW S, NEW s \in Seq(S)
    PROVE  /\ Members(s) = {s[i] : i \in 1 .. Len(s)} /\ Members(s) \subseteq S
           /\ \A e \in S : Append(s, e) \in Seq(S) /\ Members(Append(s, e)) = Members(s) \cup {e}
           /\ \A t \in Seq(S) : s \o t \in Seq(S) /\ Members(s \o t) = Members(s) \cup Members(t)
<1>1. Members(s) = {s[i] : i \in 1 .. Len(s)} /\ Members(s) \subseteq S
  BY SMT DEF Members
<1>2. ASSUME NEW e \in S PROVE Append(s, e) \in Seq(S) /\ Members(Append(s, e)) = Members(s) \cup {e}
  <2>1. Append(s, e) \in Seq(S)
    BY SMT
  <2>2. \A i \in DOMAIN Append(s, e) : Append(s, e)[i] \in Members(s) \cup {e}
    BY SMT DEF Members
  <2>3. \A i \in DOMAIN s : i \in DOMAIN Append(s, e) /\ Append(s, e)[i] = s[i]
    BY SMT
  <2>4. Len(s) + 1 \in DOMAIN Append(s, e) /\ Append(s, e)[Len(s) + 1] = e
    BY SMT
  <2>5. QED
    BY <2>1, <2>2, <2>3, <2>4 DEF Members
<1>3. ASSUME NEW t \in Seq(S) PROVE s \o t \in Seq(S) /\ Members(s \o t) = Members(s) \cup Members(t)
  <2>1. s \o t \in Seq(S)
    BY SMT
  <2>2. \A i \in DOMAIN (s \o t) : (s \o t)[i] \in Members(s) \cup Members(t)
    BY SMT DEF Members
  <2>3. \A i \in DOMAIN s : i \in DOMAIN (s \o t) /\ (s \o t)[i] = s[i]
    BY SMT
  <2>4. \A i \in DOMAIN t : Len(s) + i \in DOMAIN (s \o t) /\ (s \o t)[Len(s) + i] = t[i]
    BY SMT
  <2>5. Members(s \o t) \subseteq Members(s) \cup Members(t)
    BY <2>2 DEF Members
  <2>6. Members(s) \subseteq Members(s \o t)
    BY <2>3 DEF Members
  <2>7. Members(t) \subseteq Members(s \o t)
    BY <2>4 DEF Members
  <2>8. QED
    BY <2>1, <2>5, <2>6, <2>7
<1>4. QED
  BY <1>1, <1>2, <1>3

Numbers == UserData \cup Nat
SqEntry == [id : Numbers, f : UserData \cup {None}]
CqEntry == [id : Numbers]

IsRing(r) == r = [sq |-> r.sq, cq |-> r.cq, local |-> r.local, ops |-> r.ops, next |-> r.next]

RingTypes(r) ==
    /\ IsRing(r)
    /\ r.sq \in Seq(SqEntry) /\ r.cq \in Seq(CqEntry) /\ r.local \in Seq(CqEntry) /\ r.next \in Nat

CallTypes == call = [name |-> call.name, at |-> call.at, id |-> call.id]

\* Everything the kernel has to complete was queued, and everything completed.
QueuedInv ==
    /\ \A e \in kernel \cup Members(ring.sq) : e.id \in used
    /\ \A c \in Members(ring.cq) \cup Members(ring.local) : c.id \in used

\* What is lent is lent by the call that is on, is nowhere twice, and has no completion.
NoLent == \A e \in kernel \cup Members(ring.sq) : e.f = None
LentInv ==
    /\ \A e \in kernel \cup Members(ring.sq) : e.f # None =>
         /\ call.name = "once" /\ call.id = e.id
         /\ \A c \in Members(ring.cq) \cup Members(ring.local) : c.id # e.id
    /\ \A e, g \in kernel : e.f # None /\ e.id = g.id => e = g
    /\ \A e \in kernel, g \in Members(ring.sq) : e.f # None \/ g.f # None => e.id # g.id
    /\ \A i, j \in DOMAIN ring.sq : ring.sq[i].f # None /\ ring.sq[i].id = ring.sq[j].id => i = j

\* After a failure of io_uring_enter a call may have ended early.
DirectInv ==
    failed \/ (RingTypes(ring) /\ CallTypes /\ kernel \subseteq SqEntry /\ QueuedInv /\ LentInv)

LEMMA RingPut ==
    ASSUME NEW r, IsRing(r), NEW x
    PROVE  /\ [r EXCEPT !.sq = x] = [sq |-> x, cq |-> r.cq, local |-> r.local, ops |-> r.ops, next |-> r.next]
           /\ [r EXCEPT !.cq = x] = [sq |-> r.sq, cq |-> x, local |-> r.local, ops |-> r.ops, next |-> r.next]
           /\ [r EXCEPT !.local = x] = [sq |-> r.sq, cq |-> r.cq, local |-> x, ops |-> r.ops, next |-> r.next]
           /\ [r EXCEPT !.ops = x] = [sq |-> r.sq, cq |-> r.cq, local |-> r.local, ops |-> x, next |-> r.next]
           /\ [r EXCEPT !.next = x] = [sq |-> r.sq, cq |-> r.cq, local |-> r.local, ops |-> r.ops, next |-> x]
<1>1. r = [sq |-> r.sq, cq |-> r.cq, local |-> r.local, ops |-> r.ops, next |-> r.next]
  BY DEF IsRing
<1>2. QED
  BY ONLY <1>1, SMT

LEMMA RingMade ==
    ASSUME NEW a, NEW b, NEW c, NEW o, NEW n, NEW r,
           r = [sq |-> a, cq |-> b, local |-> c, ops |-> o, next |-> n]
    PROVE  IsRing(r) /\ r.sq = a /\ r.cq = b /\ r.local = c /\ r.ops = o /\ r.next = n
  BY ONLY SMT, r = [sq |-> a, cq |-> b, local |-> c, ops |-> o, next |-> n] DEF IsRing

\* What an assignment to a field of a ring does
LEMMA SqSet ==
    ASSUME NEW r, IsRing(r), NEW x
    PROVE  /\ IsRing([r EXCEPT !.sq = x]) /\ [r EXCEPT !.sq = x].sq = x
           /\ [r EXCEPT !.sq = x].cq = r.cq /\ [r EXCEPT !.sq = x].local = r.local
           /\ [r EXCEPT !.sq = x].ops = r.ops /\ [r EXCEPT !.sq = x].next = r.next
<1>1. PICK a, b, c, o, n, t : a = r.sq /\ b = r.cq /\ c = r.local /\ o = r.ops /\ n = r.next /\ t = [r EXCEPT !.sq = x]
  OBVIOUS
<1>2. t = [sq |-> x, cq |-> b, local |-> c, ops |-> o, next |-> n]
  BY <1>1, RingPut
<1>3. IsRing(t) /\ t.sq = x /\ t.cq = b /\ t.local = c /\ t.ops = o /\ t.next = n
  BY ONLY <1>2, RingMade
<1>4. QED
  BY <1>1, <1>3

LEMMA CqSet ==
    ASSUME NEW r, IsRing(r), NEW x
    PROVE  /\ IsRing([r EXCEPT !.cq = x]) /\ [r EXCEPT !.cq = x].cq = x
           /\ [r EXCEPT !.cq = x].sq = r.sq /\ [r EXCEPT !.cq = x].local = r.local
           /\ [r EXCEPT !.cq = x].ops = r.ops /\ [r EXCEPT !.cq = x].next = r.next
<1>1. PICK a, b, c, o, n, t : a = r.sq /\ b = r.cq /\ c = r.local /\ o = r.ops /\ n = r.next /\ t = [r EXCEPT !.cq = x]
  OBVIOUS
<1>2. t = [sq |-> a, cq |-> x, local |-> c, ops |-> o, next |-> n]
  BY <1>1, RingPut
<1>3. IsRing(t) /\ t.sq = a /\ t.cq = x /\ t.local = c /\ t.ops = o /\ t.next = n
  BY ONLY <1>2, RingMade
<1>4. QED
  BY <1>1, <1>3

LEMMA LocalSet ==
    ASSUME NEW r, IsRing(r), NEW x
    PROVE  /\ IsRing([r EXCEPT !.local = x]) /\ [r EXCEPT !.local = x].local = x
           /\ [r EXCEPT !.local = x].sq = r.sq /\ [r EXCEPT !.local = x].cq = r.cq
           /\ [r EXCEPT !.local = x].ops = r.ops /\ [r EXCEPT !.local = x].next = r.next
<1>1. PICK a, b, c, o, n, t : a = r.sq /\ b = r.cq /\ c = r.local /\ o = r.ops /\ n = r.next /\ t = [r EXCEPT !.local = x]
  OBVIOUS
<1>2. t = [sq |-> a, cq |-> b, local |-> x, ops |-> o, next |-> n]
  BY <1>1, RingPut
<1>3. IsRing(t) /\ t.sq = a /\ t.cq = b /\ t.local = x /\ t.ops = o /\ t.next = n
  BY ONLY <1>2, RingMade
<1>4. QED
  BY <1>1, <1>3

LEMMA OpsSet ==
    ASSUME NEW r, IsRing(r), NEW x
    PROVE  /\ IsRing([r EXCEPT !.ops = x]) /\ [r EXCEPT !.ops = x].ops = x
           /\ [r EXCEPT !.ops = x].sq = r.sq /\ [r EXCEPT !.ops = x].cq = r.cq
           /\ [r EXCEPT !.ops = x].local = r.local /\ [r EXCEPT !.ops = x].next = r.next
<1>1. PICK a, b, c, o, n, t : a = r.sq /\ b = r.cq /\ c = r.local /\ o = r.ops /\ n = r.next /\ t = [r EXCEPT !.ops = x]
  OBVIOUS
<1>2. t = [sq |-> a, cq |-> b, local |-> c, ops |-> x, next |-> n]
  BY <1>1, RingPut
<1>3. IsRing(t) /\ t.sq = a /\ t.cq = b /\ t.local = c /\ t.ops = x /\ t.next = n
  BY ONLY <1>2, RingMade
<1>4. QED
  BY <1>1, <1>3

LEMMA NextSet ==
    ASSUME NEW r, IsRing(r), NEW x
    PROVE  /\ IsRing([r EXCEPT !.next = x]) /\ [r EXCEPT !.next = x].next = x
           /\ [r EXCEPT !.next = x].sq = r.sq /\ [r EXCEPT !.next = x].cq = r.cq
           /\ [r EXCEPT !.next = x].local = r.local /\ [r EXCEPT !.next = x].ops = r.ops
<1>1. PICK a, b, c, o, n, t : a = r.sq /\ b = r.cq /\ c = r.local /\ o = r.ops /\ n = r.next /\ t = [r EXCEPT !.next = x]
  OBVIOUS
<1>2. t = [sq |-> a, cq |-> b, local |-> c, ops |-> o, next |-> x]
  BY <1>1, RingPut, ZenonT(30)
<1>3. IsRing(t) /\ t.sq = a /\ t.cq = b /\ t.local = c /\ t.ops = o /\ t.next = x
  BY ONLY <1>2, RingMade
<1>4. QED
  BY <1>1, <1>3

\* A step that neither queues nor completes anything, by the call that is on or without one
LEMMA CompletionsTaken ==
    ASSUME RingTypes(ring), kernel \subseteq SqEntry, QueuedInv, LentInv,
           RingTypes(ring)', CallTypes', kernel' = kernel, ring'.sq = ring.sq, used \subseteq used',
           Members(ring'.cq) \cup Members(ring'.local) \subseteq Members(ring.cq) \cup Members(ring.local),
           NoLent \/ (call'.name = call.name /\ call'.id = call.id)
    PROVE  DirectInv'
<1>1. QueuedInv'
  BY DEF QueuedInv
<1>2. LentInv'
  BY ZenonT(30) DEF LentInv, NoLent
<1>3. QED
  BY <1>1, <1>2 DEF DirectInv

\* Without a call there is nothing lent.
LEMMA NothingLent ==
    ASSUME LentInv, call.name # "once"
    PROVE  NoLent
  BY DEF LentInv, NoLent

LEMMA IdleCall ==
    ASSUME NEW c, c = Idle
    PROVE  c = [name |-> c.name, at |-> c.at, id |-> c.id] /\ c.name = "none"
  BY ONLY c = Idle, SMT DEF Idle

LEMMA CallMade ==
    ASSUME NEW n, NEW a, NEW i, NEW c, c = [name |-> n, at |-> a, id |-> i]
    PROVE  c = [name |-> c.name, at |-> c.at, id |-> c.id] /\ c.name = n /\ c.id = i
  BY ONLY c = [name |-> n, at |-> a, id |-> i], SMT

\* The call goes on elsewhere.
LEMMA CallGoesOn ==
    ASSUME CallTypes, NEW p, call' = [call EXCEPT !.at = p]
    PROVE  CallTypes' /\ call'.name = call.name /\ call'.id = call.id
<1>1. PICK c : c = call
  OBVIOUS
<1>2. c = [name |-> c.name, at |-> c.at, id |-> c.id]
  BY <1>1 DEF CallTypes
<1>3. [c EXCEPT !.at = p] = [name |-> c.name, at |-> p, id |-> c.id]
  BY ONLY <1>2, SMT
<1>4. PICK n, i : n = c.name /\ i = c.id
  OBVIOUS
<1>5. PICK b : b = call'
  OBVIOUS
<1>6. b = [name |-> n, at |-> p, id |-> i]
  BY <1>1, <1>3, <1>4, <1>5
<1>7. b = [name |-> b.name, at |-> b.at, id |-> b.id] /\ b.name = n /\ b.id = i
  BY ONLY <1>6, CallMade
<1>8. QED
  BY <1>1, <1>4, <1>5, <1>7 DEF CallTypes

\* allocate_operation leaves the queues alone.
LEMMA Allocated ==
    ASSUME NEW r, IsRing(r), r.next \in Nat, NEW t, t = AllocateOperation(r)
    PROVE  IsRing(t) /\ t.sq = r.sq /\ t.cq = r.cq /\ t.local = r.local /\ t.next \in Nat
<1>1. PICK x : x = r.ops \cup {r.next}
  OBVIOUS
<1>2. PICK a : a = [r EXCEPT !.ops = x]
  OBVIOUS
<1>3. IsRing(a) /\ a.sq = r.sq /\ a.cq = r.cq /\ a.local = r.local /\ a.next = r.next
  BY <1>2, OpsSet
<1>4. PICK n \in Nat : n = r.next + 1
  BY SMT
<1>5. t = [a EXCEPT !.next = n]
  BY <1>1, <1>2, <1>3, <1>4 DEF AllocateOperation
<1>6. IsRing(t) /\ t.sq = a.sq /\ t.cq = a.cq /\ t.local = a.local /\ t.next = n
  BY ONLY <1>3, <1>5, NextSet
<1>7. QED
  BY <1>3, <1>6

LEMMA EntryQueued ==
    ASSUME NEW r, IsRing(r), NEW id, NEW f, NEW t, t = QueueEntry(r, id, f)
    PROVE  /\ IsRing(t) /\ t.sq = Append(r.sq, [id |-> id, f |-> f]) /\ t.cq = r.cq
           /\ t.local = r.local /\ t.next = r.next
<1>1. PICK x : x = Append(r.sq, [id |-> id, f |-> f])
  OBVIOUS
<1>2. t = [r EXCEPT !.sq = x]
  BY <1>1 DEF QueueEntry
<1>3. IsRing(t) /\ t.sq = x /\ t.cq = r.cq /\ t.local = r.local /\ t.next = r.next
  BY ONLY IsRing(r), <1>2, SqSet
<1>4. QED
  BY <1>1, <1>3

LEMMA QueuedRing ==
    ASSUME NEW q, RingTypes(q), HasSqe(q), NEW id, NEW f, NEW r,
           \/ r = QueueEntry(q, id, f)
           \/ f = None /\ id = q.next /\ r = QueueOperation(q, None)
    PROVE  /\ IsRing(r) /\ r.sq = Append(q.sq, [id |-> id, f |-> f]) /\ r.cq = q.cq
           /\ r.local = q.local /\ r.next \in Nat
<1>1. IsRing(q) /\ q.next \in Nat
  BY DEF RingTypes
<1>2. CASE r = QueueEntry(q, id, f)
  BY ONLY <1>1, <1>2, EntryQueued
<1>3. CASE f = None /\ id = q.next /\ r = QueueOperation(q, None)
  <2>1. PICK t : t = AllocateOperation(q)
    OBVIOUS
  <2>2. IsRing(t) /\ t.sq = q.sq /\ t.cq = q.cq /\ t.local = q.local /\ t.next \in Nat
    BY <1>1, <2>1, Allocated
  <2>3. r = QueueEntry(t, id, f)
    BY <1>3, <2>1 DEF QueueOperation
  <2>4. /\ IsRing(r) /\ r.sq = Append(t.sq, [id |-> id, f |-> f]) /\ r.cq = t.cq
        /\ r.local = t.local /\ r.next = t.next
    BY ONLY <2>2, <2>3, EntryQueued, SMTT(30)
  <2>5. QED
    BY <2>2, <2>4
<1>4. QED
  BY <1>2, <1>3

LEMMA FullRing ==
    ASSUME NEW q, RingTypes(q), ~HasSqe(q), NEW r, r = q \/ r = QueueOperation(q, None)
    PROVE  RingTypes(r) /\ r.sq = q.sq /\ r.cq = q.cq /\ r.local = q.local
<1>1. IsRing(q) /\ q.next \in Nat
  BY DEF RingTypes
<1>2. CASE r = q
  BY <1>2
<1>3. CASE r = QueueOperation(q, None)
  <2>1. PICK t, x : t = AllocateOperation(q) /\ x = q.ops
    OBVIOUS
  <2>2. IsRing(t) /\ t.sq = q.sq /\ t.cq = q.cq /\ t.local = q.local /\ t.next \in Nat
    BY <1>1, <2>1, Allocated
  <2>3. r = [t EXCEPT !.ops = x]
    BY <1>3, <2>1 DEF QueueOperation
  <2>4. IsRing(r) /\ r.sq = t.sq /\ r.cq = t.cq /\ r.local = t.local /\ r.next = t.next
    BY <2>2, <2>3, OpsSet
  <2>5. QED
    BY <2>2, <2>4 DEF RingTypes
<1>4. QED
  BY <1>2, <1>3

LEMMA EntryMade ==
    ASSUME NEW i \in Numbers, NEW f \in UserData \cup {None}, NEW e, e = [id |-> i, f |-> f]
    PROVE  e \in SqEntry /\ e.id = i /\ e.f = f
  BY ONLY SMT, i \in Numbers, f \in UserData \cup {None}, e = [id |-> i, f |-> f] DEF SqEntry

\* An entry is queued while there is no call.
LEMMA AppendKeeps ==
    ASSUME RingTypes(ring), kernel \subseteq SqEntry, QueuedInv, LentInv, NoLent,
           NEW id \in Numbers, NEW f \in UserData \cup {None}, IsRing(ring'),
           ring'.sq = Append(ring.sq, [id |-> id, f |-> f]), ring'.cq = ring.cq,
           ring'.local = ring.local, ring'.next \in Nat, kernel' = kernel, used' = used \cup {id}, CallTypes',
           f # None => id \notin used /\ call'.name = "once" /\ call'.id = id
    PROVE  DirectInv'
<1>1. PICK e : e = [id |-> id, f |-> f]
  OBVIOUS
<1>2. e \in SqEntry /\ e.id = id /\ e.f = f
  BY <1>1, EntryMade
<1>3. PICK s \in Seq(SqEntry) : s = ring.sq
  BY DEF RingTypes
<1>4. PICK t : t = Append(s, e)
  OBVIOUS
<1>5. t \in Seq(SqEntry) /\ Members(t) = Members(s) \cup {e}
  BY <1>2, <1>4, MemberFacts, SMT
<1>6. \E n : \A i \in DOMAIN t : i = n \/ (i \in DOMAIN s /\ t[i] = s[i])
  <2>1. \A i \in DOMAIN t : i = Len(s) + 1 \/ (i \in DOMAIN s /\ t[i] = s[i])
    BY <1>2, <1>4, SMT
  <2>2. QED
    BY <2>1
<1>7. ring'.sq = t /\ ring.sq = s
  BY <1>1, <1>3, <1>4
<1>8. RingTypes(ring)'
  BY <1>5, <1>7 DEF RingTypes
<1>9. \A x \in kernel \cup Members(s) : x.id \in used /\ x.f = None
  BY <1>7 DEF QueuedInv, NoLent
<1>10. \A c \in Members(ring.cq) \cup Members(ring.local) : c.id \in used
  BY DEF QueuedInv
<1>11. QueuedInv'
  BY <1>2, <1>5, <1>7, <1>9, <1>10 DEF QueuedInv
<1>12. \A i \in DOMAIN s : s[i].id \in used /\ s[i].f = None
  BY <1>9 DEF Members
<1>13. \A i, j \in DOMAIN t : t[i].f # None /\ t[i].id = t[j].id => i = j
  <2>1. PICK n : \A i \in DOMAIN t : i = n \/ (i \in DOMAIN s /\ t[i] = s[i])
    BY <1>6
  <2>2. \A i \in DOMAIN t : t[i].f # None => t[i].id \notin used
    <3>1. \A i \in DOMAIN t : t[i] = e \/ t[i] \in Members(s)
      BY <1>5 DEF Members
    <3>2. QED
      BY <1>2, <1>9, <3>1
  <2>3. \A i \in DOMAIN t : t[i].f # None => i = n
    BY <1>12, <2>1
  <2>4. \A i \in DOMAIN t : t[i].id \notin used => i = n
    BY <1>12, <2>1
  <2>5. QED
    BY <2>2, <2>3, <2>4
<1>14. \A x \in kernel \cup Members(t) : x.f # None => x = e
  BY <1>5, <1>9
<1>15. LentInv'
  <2>1. \A x \in kernel \cup Members(t) : x.f # None =>
          /\ call'.name = "once" /\ call'.id = x.id
          /\ \A c \in Members(ring.cq) \cup Members(ring.local) : c.id # x.id
    BY <1>2, <1>10, <1>14
  <2>2. \A x \in kernel, g \in Members(t) : x.f # None \/ g.f # None => x.id # g.id
    BY <1>2, <1>9, <1>14
  <2>3. \A x \in kernel : x.f = None
    BY <1>9
  <2>4. kernel' = kernel /\ ring'.sq = t /\ ring'.cq = ring.cq /\ ring'.local = ring.local
    BY <1>7
  <2>5. \A x \in kernel' \cup Members(ring'.sq) : x.f # None =>
          /\ call'.name = "once" /\ call'.id = x.id
          /\ \A c \in Members(ring'.cq) \cup Members(ring'.local) : c.id # x.id
    BY <2>1, <2>4
  <2>6. \A x, g \in kernel' : x.f # None /\ x.id = g.id => x = g
    BY <2>3, <2>4
  <2>7. \A x \in kernel', g \in Members(ring'.sq) : x.f # None \/ g.f # None => x.id # g.id
    BY <2>2, <2>4
  <2>8. \A i, j \in DOMAIN ring'.sq : ring'.sq[i].f # None /\ ring'.sq[i].id = ring'.sq[j].id => i = j
    BY <1>13, <2>4
  <2>9. QED
    BY ONLY <2>5, <2>6, <2>7, <2>8 DEF LentInv, Members
<1>16. QED
  BY <1>8, <1>11, <1>15 DEF DirectInv

\* The entries after the first n
LEMMA RestOf ==
    ASSUME NEW S, NEW s \in Seq(S), NEW n \in 1 .. Len(s), NEW t, t = SubSeq(s, n + 1, Len(s))
    PROVE  /\ t \in Seq(S)
           /\ \A i \in DOMAIN t : i + n \in DOMAIN s /\ i + n \notin 1 .. n /\ t[i] = s[i + n]
           /\ \A i, j \in DOMAIN t : i + n = j + n => i = j
           /\ \A i \in 1 .. n : i \in DOMAIN s
<1>1. Len(s) \in Nat /\ n \in Nat /\ n <= Len(s)
  BY SMT
<1>2. t \in Seq(S)
  BY <1>1, SMT
<1>3. \A i \in DOMAIN t : i \in 1 .. (Len(s) - n) /\ t[i] = s[i + n]
  BY <1>1, SMT
<1>4. QED
  BY <1>1, <1>2, <1>3, SMTT(30)

\* enter takes entries from the queue.
LEMMA TakenKeeps ==
    ASSUME RingTypes(ring), kernel \subseteq SqEntry, QueuedInv, LentInv,
           NEW n \in 1 .. Len(ring.sq), Taken(n), CallTypes', used' = used,
           NoLent \/ (call'.name = call.name /\ call'.id = call.id)
    PROVE  DirectInv'
<1>1. PICK s \in Seq(SqEntry) : s = ring.sq
  BY DEF RingTypes
<1>2. PICK t : t = SubSeq(s, n + 1, Len(s))
  OBVIOUS
<1>3. n \in 1 .. Len(s)
  BY <1>1
<1>4. /\ t \in Seq(SqEntry)
      /\ \A i \in DOMAIN t : i + n \in DOMAIN s /\ i + n \notin 1 .. n /\ t[i] = s[i + n]
      /\ \A i, j \in DOMAIN t : i + n = j + n => i = j
      /\ \A i \in 1 .. n : i \in DOMAIN s
  BY ONLY <1>2, <1>3, s \in Seq(SqEntry), RestOf
<1>5. PICK q : q = ring
  OBVIOUS
<1>6. IsRing(q) /\ ring' = [q EXCEPT !.sq = t] /\ kernel' = kernel \cup {s[i] : i \in 1 .. n}
  BY <1>1, <1>2, <1>5 DEF Taken, RingTypes
<1>7. IsRing(ring') /\ ring'.sq = t /\ ring'.cq = q.cq /\ ring'.local = q.local /\ ring'.next = q.next
  BY ONLY <1>6, SqSet, ZenonT(30)
<1>8. RingTypes(ring)'
  BY <1>4, <1>5, <1>7 DEF RingTypes
<1>9. \A e \in kernel' : e \in kernel \/ \E i \in 1 .. n : i \in DOMAIN s /\ e = s[i]
  BY <1>4, <1>6
<1>10. \A e \in Members(t) : \E i \in DOMAIN s : i \notin 1 .. n /\ e = s[i]
  BY <1>4 DEF Members
<1>11. \A e \in kernel' \cup Members(t) : e \in kernel \cup Members(s)
  BY <1>9, <1>10 DEF Members
<1>12. kernel' \subseteq SqEntry
  BY <1>9, <1>11, MemberFacts, SMT
<1>13. QueuedInv'
  BY <1>1, <1>5, <1>7, <1>11 DEF QueuedInv
<1>14. /\ \A e \in kernel \cup Members(s) : e.f # None =>
            /\ call.name = "once" /\ call.id = e.id
            /\ \A c \in Members(ring.cq) \cup Members(ring.local) : c.id # e.id
       /\ \A e, g \in kernel : e.f # None /\ e.id = g.id => e = g
       /\ \A e \in kernel, g \in Members(s) : e.f # None \/ g.f # None => e.id # g.id
       /\ \A i, j \in DOMAIN s : s[i].f # None /\ s[i].id = s[j].id => i = j
  BY <1>1 DEF LentInv
<1>15. \A i \in DOMAIN s : s[i] \in Members(s)
  BY DEF Members
<1>16. \A e \in kernel' \cup Members(t) : e.f # None =>
          /\ call'.name = "once" /\ call'.id = e.id
          /\ \A c \in Members(ring.cq) \cup Members(ring.local) : c.id # e.id
  BY <1>1, <1>11, <1>14 DEF NoLent
<1>17. \A e, g \in kernel' : e.f # None /\ e.id = g.id => e = g
  <2> SUFFICES ASSUME NEW e \in kernel', NEW g \in kernel', e.f # None, e.id = g.id PROVE e = g
    OBVIOUS
  <2>1. CASE e \in kernel /\ g \in kernel
    BY <1>14, <2>1
  <2>2. CASE e \in kernel /\ g \notin kernel
    <3>1. g \in Members(s)
      BY <1>9, <1>15, <2>2
    <3>2. QED
      BY <1>14, <2>2, <3>1
  <2>3. CASE e \notin kernel /\ g \in kernel
    <3>1. e \in Members(s)
      BY <1>9, <1>15, <2>3
    <3>2. QED
      BY <1>14, <2>3, <3>1
  <2>4. CASE e \notin kernel /\ g \notin kernel
    <3>1. PICK i \in DOMAIN s : e = s[i]
      BY <1>9, <2>4
    <3>2. PICK j \in DOMAIN s : g = s[j]
      BY <1>9, <2>4
    <3>3. s[i].f # None /\ s[i].id = s[j].id
      BY <3>1, <3>2
    <3>4. i = j
      BY <1>14, <3>3
    <3>5. QED
      BY <3>1, <3>2, <3>4
  <2>5. QED
    BY <2>1, <2>2, <2>3, <2>4
<1>18. \A e \in kernel', g \in Members(t) : e.f # None \/ g.f # None => e.id # g.id
  <2> SUFFICES ASSUME NEW e \in kernel', NEW g \in Members(t), e.f # None \/ g.f # None PROVE e.id # g.id
    OBVIOUS
  <2>1. PICK j \in DOMAIN s : j \notin 1 .. n /\ g = s[j]
    BY <1>10
  <2>2. CASE e \in kernel
    BY <1>14, <1>15, <2>1, <2>2
  <2>3. CASE e \notin kernel
    <3>1. PICK i \in 1 .. n : i \in DOMAIN s /\ e = s[i]
      BY <1>9, <2>3
    <3>2. i # j
      BY <2>1
    <3>3. QED
      BY <1>14, <2>1, <3>1, <3>2
  <2>4. QED
    BY <2>2, <2>3
<1>19. \A i, j \in DOMAIN t : t[i].f # None /\ t[i].id = t[j].id => i = j
  <2> SUFFICES ASSUME NEW i \in DOMAIN t, NEW j \in DOMAIN t, t[i].f # None, t[i].id = t[j].id PROVE i = j
    OBVIOUS
  <2>1. PICK k \in DOMAIN s : k = i + n /\ t[i] = s[k]
    BY <1>4
  <2>2. PICK l \in DOMAIN s : l = j + n /\ t[j] = s[l]
    BY <1>4
  <2>3. s[k].f # None /\ s[k].id = s[l].id
    BY <2>1, <2>2
  <2>4. k = l
    BY <1>14, <2>3
  <2>5. QED
    BY <1>4, <2>1, <2>2, <2>4
<1>20. LentInv'
  BY <1>5, <1>7, <1>16, <1>17, <1>18, <1>19, ZenonT(30) DEF LentInv
<1>21. QED
  BY <1>8, <1>12, <1>13, <1>20 DEF DirectInv

\* The kernel posts a completion.
LEMMA PostKeeps ==
    ASSUME RingTypes(ring), CallTypes, kernel \subseteq SqEntry, QueuedInv, LentInv, NEW e \in kernel, Post(e)
    PROVE  DirectInv'
<1>1. PICK q, c, s : q = ring /\ c = [id |-> e.id] /\ s = ring.cq
  OBVIOUS
<1>2. c \in CqEntry /\ c.id = e.id
  <2>1. e.id \in Numbers
    BY SMT DEF SqEntry
  <2>2. QED
    BY <1>1, <2>1, SMT DEF CqEntry
<1>3. s \in Seq(CqEntry) /\ IsRing(q)
  BY <1>1 DEF RingTypes
<1>4. PICK t : t = Append(s, c)
  OBVIOUS
<1>5. t \in Seq(CqEntry) /\ Members(t) = Members(s) \cup {c}
  BY <1>2, <1>3, <1>4, MemberFacts, SMT
<1>6. ring' = [q EXCEPT !.cq = t] /\ kernel' = kernel \ {e} /\ call' = call /\ used' = used
  BY <1>1, <1>4 DEF Post
<1>7. IsRing(ring') /\ ring'.cq = t /\ ring'.sq = q.sq /\ ring'.local = q.local /\ ring'.next = q.next
  BY ONLY <1>3, <1>6, CqSet, ZenonT(30)
<1>8. RingTypes(ring)' /\ CallTypes'
  BY <1>1, <1>5, <1>6, <1>7 DEF RingTypes, CallTypes
<1>9. QueuedInv'
  BY <1>1, <1>2, <1>5, <1>6, <1>7 DEF QueuedInv
<1>10. \A x \in kernel' \cup Members(ring.sq) : x.f # None => x.id # e.id
  BY <1>6 DEF LentInv
<1>11. \A x \in kernel' : x \in kernel
  BY <1>6
<1>12. LentInv'
  <2>1. ring'.sq = ring.sq /\ ring'.local = ring.local
    BY <1>1, <1>7
  <2>2. \A x \in Members(ring'.cq) : x \in Members(ring.cq) \/ x.id = e.id
    BY <1>1, <1>2, <1>5, <1>7
  <2>3. \A x \in kernel' \cup Members(ring'.sq) : x.f # None =>
          /\ call'.name = "once" /\ call'.id = x.id
          /\ \A y \in Members(ring'.cq) \cup Members(ring'.local) : y.id # x.id
    <3> SUFFICES ASSUME NEW x \in kernel' \cup Members(ring'.sq), x.f # None
                 PROVE  /\ call'.name = "once" /\ call'.id = x.id
                        /\ \A y \in Members(ring'.cq) \cup Members(ring'.local) : y.id # x.id
      OBVIOUS
    <3>1. x \in kernel \cup Members(ring.sq) /\ x.id # e.id
      BY <1>10, <1>11, <2>1
    <3>2. /\ call.name = "once" /\ call.id = x.id
          /\ \A y \in Members(ring.cq) \cup Members(ring.local) : y.id # x.id
      BY <3>1 DEF LentInv
    <3>3. QED
      BY <1>6, <2>1, <2>2, <3>1, <3>2
  <2>4. \A x, y \in kernel' : x.f # None /\ x.id = y.id => x = y
    BY <1>11 DEF LentInv
  <2>5. \A x \in kernel', y \in Members(ring'.sq) : x.f # None \/ y.f # None => x.id # y.id
    BY <1>11, <2>1 DEF LentInv
  <2>6. \A i, j \in DOMAIN ring'.sq : ring'.sq[i].f # None /\ ring'.sq[i].id = ring'.sq[j].id => i = j
    BY <2>1 DEF LentInv
  <2>7. QED
    BY <2>3, <2>4, <2>5, <2>6 DEF LentInv
<1>13. QED
  BY <1>6, <1>8, <1>9, <1>12 DEF DirectInv

INSTANCE WellFoundedInduction

LEMMA SmallestIsMember ==
    ASSUME NEW S, S \subseteq Nat, S # {}
    PROVE  Min(S) \in S
<1>1. IsWellFoundedOn({p \in Nat \X Nat : p[1] < p[2]}, Nat)
  BY NatLessThanWellFounded, SMTT(30) DEF OpToRel
<1> DEFINE R == {p \in Nat \X Nat : p[1] < p[2]}
<1>2. \A x, y \in Nat : x < y => <<x, y>> \in R
  BY SMT
<1>3. IsWellFoundedOn(R, Nat)
  BY <1>1
<1> HIDE DEF R
<1>4. \E x \in S : \A y \in S : ~(<<y, x>> \in R)
  BY ONLY <1>3, S \subseteq Nat, S # {}, WFMin, Zenon
<1>5. PICK x \in S : \A y \in S : ~(<<y, x>> \in R)
  BY <1>4
<1>6. \A y \in S : ~(y < x)
  BY <1>2, <1>5
<1>7. \A y \in S : x <= y
  BY <1>6, SMT
<1>8. QED
  BY <1>7 DEF Min

\* position(): an index it finds
LEMMA Found ==
    ASSUME NEW S, NEW s \in Seq(S), NEW I, I \subseteq DOMAIN s,
           NEW i, i = (IF I = {} THEN 0 ELSE Min(I)), i > 0
    PROVE  i \in I
<1>1. I # {}
  BY SMT
<1>2. I \subseteq Nat
  <2>1. DOMAIN s \subseteq Nat
    BY SMT
  <2>2. QED
    BY <2>1
<1>3. QED
  BY <1>1, <1>2, SmallestIsMember

LEMMA TailKept ==
    ASSUME NEW S, NEW s \in Seq(S), ~Empty(s)
    PROVE  /\ Tail(s) \in Seq(S) /\ Members(Tail(s)) \subseteq Members(s)
           /\ s[1] \in S /\ s[1] \in Members(s)
<1>1. s # <<>>
  BY DEF Empty
<1>2. Tail(s) \in Seq(S) /\ 1 \in DOMAIN s
  BY <1>1, SMT
<1>3. \A i \in DOMAIN Tail(s) : i + 1 \in DOMAIN s /\ Tail(s)[i] = s[i + 1]
  BY <1>1, SMT
<1>4. QED
  BY <1>2, <1>3, SMT DEF Members

LEMMA RemovedKept ==
    ASSUME NEW S, NEW s \in Seq(S), NEW i \in DOMAIN s
    PROVE  Remove(s, i) \in Seq(S) /\ Members(Remove(s, i)) \subseteq Members(s)
<1>1. i \in 1 .. Len(s) /\ Len(s) \in Nat
  BY SMT
<1>2. PICK a, b : a = SubSeq(s, 1, i - 1) /\ b = SubSeq(s, i + 1, Len(s))
  OBVIOUS
<1>3. a \in Seq(S) /\ \A j \in DOMAIN a : j \in DOMAIN s /\ a[j] = s[j]
  BY <1>1, <1>2, SMTT(30)
<1>4. b \in Seq(S)
  BY <1>1, <1>2, SMTT(30)
<1>5. \A j \in DOMAIN b : j + i \in DOMAIN s /\ b[j] = s[j + i]
  BY <1>1, <1>2, SMTT(30)
<1>6. a \o b \in Seq(S) /\ Members(a \o b) = Members(a) \cup Members(b)
  <2>1. a \in Seq(S) /\ b \in Seq(S)
    BY <1>3, <1>4
  <2>2. QED
    BY ONLY <2>1, MemberFacts, SMT
<1>7. Members(a) \subseteq Members(s) /\ Members(b) \subseteq Members(s)
  BY <1>3, <1>5 DEF Members
<1>8. QED
  BY <1>2, <1>6, <1>7 DEF Remove

\* complete_operation changes the table only.
LEMMA TableOnly ==
    ASSUME NEW r, IsRing(r), NEW id, NEW t, t = r \/ t = CompleteOperation(r, id)
    PROVE  IsRing(t) /\ t.sq = r.sq /\ t.cq = r.cq /\ t.local = r.local /\ t.next = r.next
<1>1. CASE t = r
  BY <1>1
<1>2. CASE t = CompleteOperation(r, id)
  <2>1. PICK x : x = r.ops \ {id}
    OBVIOUS
  <2>2. t = [r EXCEPT !.ops = x]
    BY <1>2, <2>1 DEF CompleteOperation
  <2>3. QED
    BY ONLY <2>2, IsRing(r), OpsSet
<1>3. QED
  BY <1>1, <1>2

\* A completion of the call's own means that the kernel has nothing of it any more.
LEMMA OwnCompletion ==
    ASSUME LentInv, NEW c \in Members(ring.cq) \cup Members(ring.local), Wants(c.id)
    PROVE  NoLent
  BY DEF LentInv, NoLent, Wants

DirectSound == RingTypes(ring) /\ CallTypes /\ kernel \subseteq SqEntry /\ QueuedInv /\ LentInv

\* What a delivery leaves: the queue as it was, a completion less, and no call.
LEMMA DeliveredKeeps ==
    ASSUME DirectSound, NoLent, IsRing(ring'), ring'.sq = ring.sq, ring'.next = ring.next,
           ring'.cq \in Seq(CqEntry), ring'.local \in Seq(CqEntry),
           Members(ring'.cq) \cup Members(ring'.local) \subseteq Members(ring.cq) \cup Members(ring.local),
           NEW id, Deliver(id)
    PROVE  DirectInv'
<1>1. RingTypes(ring) /\ CallTypes /\ kernel \subseteq SqEntry /\ QueuedInv /\ LentInv
  BY DEF DirectSound
<1>2. RingTypes(ring)'
  BY <1>1 DEF RingTypes
<1>3. kernel' = kernel /\ used' = used /\ call' = Idle
  BY DEF Deliver
<1>4. CallTypes'
  BY <1>3, IdleCall DEF CallTypes
<1>5. QED
  BY <1>1, <1>2, <1>3, <1>4, CompletionsTaken

LEMMA LookKeeps ==
    ASSUME DirectSound, Look
    PROVE  DirectInv'
<1>1. RingTypes(ring) /\ CallTypes /\ kernel \subseteq SqEntry /\ QueuedInv /\ LentInv
  BY DEF DirectSound
<1>2. PICK q, s : q = ring /\ s = ring.local
  OBVIOUS
<1>3. IsRing(q) /\ s \in Seq(CqEntry) /\ q.cq \in Seq(CqEntry)
  BY <1>1, <1>2 DEF RingTypes
<1> DEFINE I == {i \in DOMAIN s : Wants(s[i].id)}
<1>4. PICK i : i = IF I = {} THEN 0 ELSE Min(I)
  OBVIOUS
<1>5. i = FirstOf({k \in DOMAIN ring.local : Wants(ring.local[k].id)})
  BY <1>2, <1>4 DEF FirstOf
<1>6. CASE i > 0
  <2>1. I \subseteq DOMAIN s
    OBVIOUS
  <2>2. i \in I
    <3> HIDE DEF I
    <3>1. QED
      BY <1>3, <1>4, <1>6, <2>1, Found
  <2>3. i \in DOMAIN s /\ Wants(s[i].id)
    BY <2>2
  <2>4. PICK c : c = s[i]
    OBVIOUS
  <2>5. c \in Members(ring.cq) \cup Members(ring.local)
    BY <1>2, <2>3, <2>4 DEF Members
  <2>6. NoLent
    BY <1>1, <2>3, <2>4, <2>5, OwnCompletion
  <2>7. PICK t : t = Remove(s, i)
    OBVIOUS
  <2>8. t \in Seq(CqEntry) /\ Members(t) \subseteq Members(s)
    BY <1>3, <2>3, <2>7, RemovedKept
  <2>9. PICK r : r = [q EXCEPT !.local = t]
    OBVIOUS
  <2>10. IsRing(r) /\ r.sq = q.sq /\ r.cq = q.cq /\ r.local = t /\ r.next = q.next
    BY ONLY <1>3, <2>9, LocalSet, ZenonT(30)
  <2>11. (ring' = r \/ ring' = CompleteOperation(r, c.id)) /\ Deliver(c.id)
    BY <1>2, <1>5, <1>6, <2>4, <2>7, <2>9 DEF Look, Untracked
  <2>12. IsRing(ring') /\ ring'.sq = r.sq /\ ring'.cq = r.cq /\ ring'.local = r.local /\ ring'.next = r.next
    BY ONLY <2>10, <2>11, TableOnly
  <2>13. QED
    BY <1>2, <1>3, <2>6, <2>8, <2>10, <2>11, <2>12, DeliveredKeeps
<1>7. CASE ~(i > 0)
  <2>1. call' = [call EXCEPT !.at = "ring"] /\ UNCHANGED <<ring, kernel, used, got, failed>>
    BY <1>5, <1>7 DEF Look
  <2>2. CallTypes' /\ call'.name = call.name /\ call'.id = call.id
    BY <1>1, <2>1, CallGoesOn
  <2>3. RingTypes(ring)' /\ kernel' = kernel /\ ring' = ring /\ used' = used
    BY <1>1, <2>1 DEF RingTypes
  <2>4. QED
    BY <1>1, <2>2, <2>3, CompletionsTaken
<1>8. QED
  BY <1>6, <1>7

\* pop_ring_completion takes from the kernel's queue, and nothing else.
LEMMA Popped ==
    ASSUME NEW q, RingTypes(q), ~Empty(q.cq), NEW r, r = PopRingCompletion(q)
    PROVE  /\ IsRing(r) /\ r.sq = q.sq /\ r.local = q.local /\ r.next = q.next
           /\ r.cq \in Seq(CqEntry) /\ Members(r.cq) \subseteq Members(q.cq)
           /\ q.cq[1] \in CqEntry /\ q.cq[1] \in Members(q.cq)
<1>1. IsRing(q) /\ q.cq \in Seq(CqEntry)
  BY DEF RingTypes
<1>2. PICK t : t = Tail(q.cq)
  OBVIOUS
<1>3. /\ t \in Seq(CqEntry) /\ Members(t) \subseteq Members(q.cq)
      /\ q.cq[1] \in CqEntry /\ q.cq[1] \in Members(q.cq)
  BY <1>1, <1>2, TailKept
<1>4. r = [q EXCEPT !.cq = t]
  BY <1>2 DEF PopRingCompletion
<1>5. IsRing(r) /\ r.sq = q.sq /\ r.local = q.local /\ r.next = q.next /\ r.cq = t
  BY ONLY <1>1, <1>4, CqSet, ZenonT(30)
<1>6. QED
  BY <1>3, <1>5

LEMMA TakeOneKeeps ==
    ASSUME DirectSound, TakeOne
    PROVE  DirectInv'
<1>1. RingTypes(ring) /\ CallTypes /\ kernel \subseteq SqEntry /\ QueuedInv /\ LentInv
  BY DEF DirectSound
<1>2. PICK q, c, r : q = ring /\ c = ring.cq[1] /\ r = PopRingCompletion(q)
  OBVIOUS
<1>3. RingTypes(q) /\ ~Empty(q.cq)
  BY <1>1, <1>2 DEF TakeOne
<1>4. /\ IsRing(r) /\ r.sq = q.sq /\ r.local = q.local /\ r.next = q.next
      /\ r.cq \in Seq(CqEntry) /\ Members(r.cq) \subseteq Members(q.cq)
      /\ q.cq[1] \in CqEntry /\ q.cq[1] \in Members(q.cq)
  BY ONLY <1>2, <1>3, Popped
<1>5. c \in CqEntry /\ c \in Members(q.cq)
  BY <1>2, <1>4
<1>6. q.local \in Seq(CqEntry)
  BY <1>3 DEF RingTypes
<1>7. CASE Wants(c.id)
  <2>1. NoLent
    BY <1>1, <1>2, <1>5, <1>7, OwnCompletion
  <2>2. (ring' = r \/ ring' = CompleteOperation(r, c.id)) /\ Deliver(c.id)
    BY <1>2, <1>7 DEF TakeOne, Untracked
  <2>3. IsRing(ring') /\ ring'.sq = r.sq /\ ring'.cq = r.cq /\ ring'.local = r.local /\ ring'.next = r.next
    BY ONLY <1>4, <2>2, TableOnly
  <2>4. QED
    BY <1>2, <1>4, <1>6, <2>1, <2>2, <2>3, DeliveredKeeps
<1>8. CASE ~Wants(c.id)
  <2>1. PICK t : t = Append(q.local, c)
    OBVIOUS
  <2>2. t \in Seq(CqEntry) /\ Members(t) = Members(q.local) \cup {c}
    BY <1>5, <1>6, <2>1, MemberFacts, SMTT(30)
  <2>3. ring' = [r EXCEPT !.local = t] /\ UNCHANGED <<kernel, call, used, got, failed>>
    BY <1>2, <1>4, <1>8, <2>1 DEF TakeOne
  <2>4. IsRing(ring') /\ ring'.sq = r.sq /\ ring'.cq = r.cq /\ ring'.local = t /\ ring'.next = r.next
    <3>1. IsRing(r) /\ ring' = [r EXCEPT !.local = t]
      BY <1>4, <2>3
    <3>2. QED
      BY ONLY <3>1, LocalSet
  <2>5. RingTypes(ring)'
    BY <1>1, <1>2, <1>4, <2>2, <2>4 DEF RingTypes
  <2>6. CallTypes' /\ call' = call /\ kernel' = kernel /\ used' = used
    BY <1>1, <2>3 DEF CallTypes
  <2>7. Members(ring'.cq) \cup Members(ring'.local) \subseteq Members(ring.cq) \cup Members(ring.local)
    BY <1>2, <1>4, <1>5, <2>2, <2>4
  <2>8. ring'.sq = ring.sq
    BY <1>2, <1>4, <2>4
  <2>9. QED
    BY <1>1, <2>5, <2>6, <2>7, <2>8, CompletionsTaken
<1>9. QED
  BY <1>7, <1>8

\* No call, nothing lent
LEMMA IdleLendsNothing ==
    ASSUME LentInv, call = Idle
    PROVE  NoLent
<1>1. PICK c : c = call
  OBVIOUS
<1>2. c.name = "none"
  BY <1>1, IdleCall
<1>3. QED
  BY <1>1, <1>2, NothingLent

LEMMA TryCompletionKeeps ==
    ASSUME DirectSound, TryCompletionNow
    PROVE  DirectInv'
<1>1. RingTypes(ring) /\ CallTypes /\ kernel \subseteq SqEntry /\ QueuedInv /\ LentInv
  BY DEF DirectSound
<1>2. PICK q, id : q = ring /\ id = DrainCompletions(ring)[1].id
  OBVIOUS
<1>3. /\ IsRing(q) /\ q.cq \in Seq(CqEntry) /\ q.local \in Seq(CqEntry)
      /\ RingTypes(q) /\ q.local \o q.cq # <<>> /\ ring' = TryCompletion(q) /\ Deliver(id) /\ NoLent
  BY <1>1, <1>2, IdleLendsNothing DEF RingTypes, TryCompletionNow, DrainCompletions, Empty
<1>4. CASE Empty(q.local)
  <2>1. q.cq # <<>>
    BY <1>3, <1>4, SMT DEF Empty
  <2>2. ~Empty(q.cq) /\ ring' = PopRingCompletion(q)
    BY <1>3, <1>4, <2>1 DEF Empty, TryCompletion
  <2>3. /\ IsRing(ring') /\ ring'.sq = q.sq /\ ring'.local = q.local /\ ring'.next = q.next
        /\ ring'.cq \in Seq(CqEntry) /\ Members(ring'.cq) \subseteq Members(q.cq)
    BY ONLY <1>3, <2>2, Popped, SMTT(30)
  <2>4. QED
    BY <1>2, <1>3, <2>3, DeliveredKeeps
<1>5. CASE ~Empty(q.local)
  <2>1. PICK t : t = Tail(q.local)
    OBVIOUS
  <2>2. t \in Seq(CqEntry) /\ Members(t) \subseteq Members(q.local)
    BY <1>3, <1>5, <2>1, TailKept
  <2>3. ring' = [q EXCEPT !.local = t]
    BY <1>3, <1>5, <2>1 DEF TryCompletion
  <2>4. IsRing(ring') /\ ring'.sq = q.sq /\ ring'.cq = q.cq /\ ring'.local = t /\ ring'.next = q.next
    <3>1. IsRing(q)
      BY <1>3
    <3>2. QED
      BY ONLY <2>3, <3>1, LocalSet
  <2>5. QED
    BY <1>2, <1>3, <2>2, <2>4, DeliveredKeeps
<1>6. QED
  BY <1>4, <1>5

\* What was drained, with nothing left in the kernel's queue
AllDrained(q, s) == [q EXCEPT !.cq = <<>>, !.local = s]

LEMMA DrainedRing ==
    ASSUME NEW q, RingTypes(q), NEW s \in Seq(CqEntry), Members(s) \subseteq Members(q.cq) \cup Members(q.local),
           NEW r, r = AllDrained(q, s)
    PROVE  /\ RingTypes(r) /\ r.sq = q.sq /\ r.next = q.next
           /\ Members(r.cq) \cup Members(r.local) \subseteq Members(q.cq) \cup Members(q.local)
<1>1. IsRing(q)
  BY DEF RingTypes
<1>2. PICK none : none = <<>>
  OBVIOUS
<1>3. PICK m : m = [q EXCEPT !.cq = none]
  OBVIOUS
<1>4. IsRing(m) /\ m.cq = none /\ m.sq = q.sq /\ m.next = q.next
  BY ONLY <1>1, <1>3, CqSet, ZenonT(30)
<1>5. r = [m EXCEPT !.local = s]
  BY <1>2, <1>3 DEF AllDrained
<1>6. IsRing(r) /\ r.local = s /\ r.sq = m.sq /\ r.cq = m.cq /\ r.next = m.next
  <2>1. IsRing(m)
    BY <1>4
  <2>2. QED
    BY ONLY <1>5, <2>1, LocalSet, ZenonT(30)
<1>7. none \in Seq(CqEntry) /\ Members(none) = {}
  <2>1. none \in Seq(CqEntry) /\ DOMAIN none = {}
    BY <1>2, SMT
  <2>2. QED
    BY <2>1 DEF Members
<1>8. RingTypes(r)
  BY <1>4, <1>6, <1>7 DEF RingTypes
<1>9. QED
  BY <1>4, <1>6, <1>7, <1>8

LEMMA Drained ==
    ASSUME NEW q, RingTypes(q)
    PROVE  DrainCompletions(q) \in Seq(CqEntry) /\ Members(DrainCompletions(q)) = Members(q.local) \cup Members(q.cq)
<1>1. PICK a, b \in Seq(CqEntry) : a = q.local /\ b = q.cq
  BY DEF RingTypes
<1>2. a \o b \in Seq(CqEntry) /\ Members(a \o b) = Members(a) \cup Members(b)
  BY MemberFacts, SMT
<1>3. QED
  BY <1>1, <1>2 DEF DrainCompletions

LEMMA TryOperationKeeps ==
    ASSUME DirectSound, TryOperationCompletion
    PROVE  DirectInv'
<1>1. RingTypes(ring) /\ CallTypes /\ kernel \subseteq SqEntry /\ QueuedInv /\ LentInv /\ NoLent
  BY IdleLendsNothing DEF DirectSound, TryOperationCompletion
<1>2. PICK q, s : q = ring /\ s = DrainCompletions(q)
  OBVIOUS
<1>3. RingTypes(q) /\ s \in Seq(CqEntry) /\ Members(s) = Members(q.local) \cup Members(q.cq)
  BY <1>1, <1>2, Drained
<1> DEFINE I == {i \in DOMAIN s : Tracked(s[i].id)}
<1>4. PICK i : i = IF I = {} THEN 0 ELSE Min(I)
  OBVIOUS
<1>5. i = FirstOf({k \in DOMAIN s : Tracked(s[k].id)})
  BY <1>4 DEF FirstOf
<1>6. /\ i > 0 /\ Deliver(s[i].id)
      /\ ring' = CompleteOperation([q EXCEPT !.cq = <<>>, !.local = Remove(s, i)], s[i].id)
  BY <1>2, <1>5 DEF TryOperationCompletion
<1>7. I \subseteq DOMAIN s
  OBVIOUS
<1>8. i \in I
  <2> HIDE DEF I
  <2>1. QED
    BY <1>3, <1>4, <1>6, <1>7, Found
<1>9. i \in DOMAIN s
  BY <1>8
<1>10. PICK t : t = Remove(s, i)
  OBVIOUS
<1>11. t \in Seq(CqEntry) /\ Members(t) \subseteq Members(s)
  BY <1>3, <1>9, <1>10, RemovedKept
<1>12. PICK r : r = AllDrained(q, t)
  OBVIOUS
<1>13. /\ RingTypes(r) /\ r.sq = q.sq /\ r.next = q.next
       /\ Members(r.cq) \cup Members(r.local) \subseteq Members(q.cq) \cup Members(q.local)
  <2>1. Members(t) \subseteq Members(q.cq) \cup Members(q.local) /\ t \in Seq(CqEntry)
    BY <1>3, <1>11
  <2>2. RingTypes(q)
    BY <1>3
  <2>3. QED
    BY ONLY <1>12, <2>1, <2>2, DrainedRing, SMTT(30)
<1>14. IsRing(r) /\ r.cq \in Seq(CqEntry) /\ r.local \in Seq(CqEntry)
  BY <1>13 DEF RingTypes
<1>15. PICK id : id = s[i].id
  OBVIOUS
<1>16. ring' = CompleteOperation(r, id) /\ Deliver(id)
  BY <1>6, <1>10, <1>12, <1>15 DEF AllDrained
<1>17. IsRing(ring') /\ ring'.sq = r.sq /\ ring'.cq = r.cq /\ ring'.local = r.local /\ ring'.next = r.next
  BY ONLY <1>14, <1>16, TableOnly, SMTT(30)
<1>18. QED
  BY <1>1, <1>2, <1>13, <1>14, <1>16, <1>17, DeliveredKeeps

LEMMA DrainManyKeeps ==
    ASSUME DirectSound, DrainMany
    PROVE  DirectInv'
<1>1. /\ RingTypes(ring) /\ CallTypes /\ kernel \subseteq SqEntry /\ QueuedInv /\ LentInv
      /\ call.name = "many" /\ kernel' = kernel /\ used' = used
  BY DEF DirectSound, DrainMany
<1>2. NoLent
  <2>1. "many" # "once"
    OBVIOUS
  <2>2. QED
    BY <1>1, <2>1, NothingLent
<1>3. PICK q, s : q = ring /\ s = DrainCompletions(q)
  OBVIOUS
<1>4. RingTypes(q) /\ s \in Seq(CqEntry) /\ Members(s) = Members(q.local) \cup Members(q.cq)
  BY <1>1, <1>3, Drained
<1>5. ring' = AllDrained(q, s)
  BY <1>3 DEF DrainMany, AllDrained
<1>6. /\ RingTypes(ring') /\ ring'.sq = q.sq
      /\ Members(ring'.cq) \cup Members(ring'.local) \subseteq Members(q.cq) \cup Members(q.local)
  <2>1. Members(s) \subseteq Members(q.cq) \cup Members(q.local) /\ s \in Seq(CqEntry) /\ RingTypes(q)
    BY <1>4
  <2>2. QED
    BY ONLY <1>5, <2>1, DrainedRing, SMTT(30)
<1>7. CallTypes'
  <2>1. CASE call' = Idle
    BY <2>1, IdleCall DEF CallTypes
  <2>2. CASE call' = [call EXCEPT !.at = "waiting"]
    BY <1>1, <2>2, CallGoesOn
  <2>3. QED
    BY <2>1, <2>2 DEF DrainMany
<1>8. QED
  BY <1>1, <1>2, <1>3, <1>6, <1>7, CompletionsTaken DEF RingTypes

\* Only the call changes.
LEMMA CallOnly ==
    ASSUME DirectSound, ring' = ring, kernel' = kernel, used' = used, CallTypes',
           NoLent \/ (call'.name = call.name /\ call'.id = call.id)
    PROVE  DirectInv'
<1>1. RingTypes(ring) /\ kernel \subseteq SqEntry /\ QueuedInv /\ LentInv
  BY DEF DirectSound
<1>2. RingTypes(ring)'
  BY <1>1 DEF RingTypes
<1>3. QED
  BY <1>1, <1>2, CompletionsTaken

LEMMA WaitKeeps ==
    ASSUME DirectSound, Wait
    PROVE  DirectInv'
<1>1. PICK n, a, i : call = Idle /\ call' = [name |-> n, at |-> a, id |-> i]
  BY DEF Wait, WaitCompletion, WaitFor, WaitOperation, WaitMany
<1>2. CallTypes'
  BY <1>1, CallMade DEF CallTypes
<1>3. NoLent
  BY <1>1, IdleLendsNothing DEF DirectSound
<1>4. QED
  BY <1>2, <1>3, CallOnly DEF Wait

LEMMA EnterReturnsKeeps ==
    ASSUME DirectSound, EnterReturns
    PROVE  DirectInv'
<1>1. CallTypes' /\ call'.name = call.name /\ call'.id = call.id
  BY CallGoesOn DEF DirectSound, EnterReturns
<1>2. QED
  BY <1>1, CallOnly DEF EnterReturns

LEMMA SubmitSomeKeeps ==
    ASSUME DirectSound, SubmitSome
    PROVE  DirectInv'
<1>1. RingTypes(ring) /\ CallTypes /\ kernel \subseteq SqEntry /\ QueuedInv /\ LentInv
  BY DEF DirectSound
<1>2. PICK n \in 1 .. Len(ring.sq) :
          /\ Taken(n)
          /\ call' = IF n < Len(ring.sq) THEN call
                     ELSE IF call.name = "once" THEN [call EXCEPT !.at = "look"] ELSE Idle
  BY DEF SubmitSome
<1>3. used' = used
  BY DEF SubmitSome
<1>4. CallTypes' /\ (NoLent \/ (call'.name = call.name /\ call'.id = call.id))
  <2>1. CASE call' = call
    BY <1>1, <2>1 DEF CallTypes
  <2>2. CASE call' = [call EXCEPT !.at = "look"]
    BY <1>1, <2>2, CallGoesOn
  <2>3. CASE call' = Idle /\ call.name # "once"
    <3>1. CallTypes'
      BY <2>3, IdleCall DEF CallTypes
    <3>2. QED
      BY <1>1, <2>3, <3>1, NothingLent
  <2>4. QED
    BY <1>2, <2>1, <2>2, <2>3
<1>5. QED
  BY <1>1, <1>2, <1>3, <1>4, TakenKeeps

LEMMA EnterWaitKeeps ==
    ASSUME DirectSound, EnterWait
    PROVE  DirectInv'
<1>1. RingTypes(ring) /\ CallTypes /\ kernel \subseteq SqEntry /\ QueuedInv /\ LentInv /\ used' = used
  BY DEF DirectSound, EnterWait
<1>2. CallTypes' /\ call'.name = call.name /\ call'.id = call.id
  <2>1. CASE call' = [call EXCEPT !.at = "blocked"]
    BY <1>1, <2>1, CallGoesOn
  <2>2. CASE call' = call
    BY <1>1, <2>2 DEF CallTypes
  <2>3. QED
    BY <2>1, <2>2 DEF EnterWait
<1>3. CASE Empty(ring.sq)
  BY <1>1, <1>2, <1>3, CallOnly DEF EnterWait
<1>4. CASE ~Empty(ring.sq)
  <2>1. PICK k \in 1 .. Len(ring.sq) : Taken(k)
    BY <1>4 DEF EnterWait
  <2>2. QED
    BY <1>1, <1>2, <2>1, TakenKeeps
<1>5. QED
  BY <1>3, <1>4

\* The queueing methods, with a free slot and without
LEMMA QueueKeeps ==
    ASSUME DirectSound, call = Idle, NEW id \in Numbers, NEW f \in UserData \cup {None},
           \/ ring' = IF HasSqe(ring) THEN QueueEntry(ring, id, f) ELSE ring
           \/ f = None /\ id = ring.next /\ ring' = QueueOperation(ring, None),
           kernel' = kernel, CallTypes',
           used' = IF HasSqe(ring) THEN used \cup {id} ELSE used,
           ~HasSqe(ring) => call' = call,
           HasSqe(ring) /\ f # None => id \notin used /\ call'.name = "once" /\ call'.id = id
    PROVE  DirectInv'
<1>1. RingTypes(ring) /\ kernel \subseteq SqEntry /\ QueuedInv /\ LentInv /\ NoLent
  BY IdleLendsNothing DEF DirectSound
<1>2. PICK q, r : q = ring /\ r = ring'
  OBVIOUS
<1>3. RingTypes(q)
  BY <1>1, <1>2
<1>4. CASE HasSqe(q)
  <2>1. \/ r = QueueEntry(q, id, f)
        \/ f = None /\ id = q.next /\ r = QueueOperation(q, None)
    BY <1>2, <1>4
  <2>2. /\ IsRing(r) /\ r.sq = Append(q.sq, [id |-> id, f |-> f]) /\ r.cq = q.cq
        /\ r.local = q.local /\ r.next \in Nat
    BY ONLY <1>3, <1>4, <2>1, QueuedRing, SMTT(30)
  <2>3. QED
    BY <1>1, <1>2, <1>4, <2>2, AppendKeeps
<1>5. CASE ~HasSqe(q)
  <2>1. r = q \/ r = QueueOperation(q, None)
    BY <1>2, <1>5
  <2>2. RingTypes(r) /\ r.sq = q.sq /\ r.cq = q.cq /\ r.local = q.local
    BY ONLY <1>3, <1>5, <2>1, FullRing, SMTT(30)
  <2>3. RingTypes(ring)'
    BY <1>2, <2>2 DEF RingTypes
  <2>4. used' = used
    BY <1>2, <1>5
  <2>5. QED
    BY <1>1, <1>2, <2>2, <2>3, <2>4, CompletionsTaken
<1>6. QED
  BY <1>4, <1>5

LEMMA CalledKeeps ==
    ASSUME DirectSound, NEW id \in Numbers, NEW f \in UserData \cup {None}, NEW r, NEW name, NEW at,
           \/ r = IF HasSqe(ring) THEN QueueEntry(ring, id, f) ELSE ring
           \/ f = None /\ id = ring.next /\ r = QueueOperation(ring, None),
           QueueThen(r, id, name, at), f # None => id \notin used /\ name = "once"
    PROVE  DirectInv'
<1>1. /\ call = Idle /\ ring' = r /\ kernel' = kernel
      /\ used' = IF HasSqe(ring) THEN used \cup {id} ELSE used
      /\ call' = IF HasSqe(ring) THEN [name |-> name, at |-> at, id |-> id] ELSE call
  BY DEF QueueThen
<1>2. CASE HasSqe(ring)
  <2>1. PICK c : c = [name |-> name, at |-> at, id |-> id]
    OBVIOUS
  <2>2. c = [name |-> c.name, at |-> c.at, id |-> c.id] /\ c.name = name /\ c.id = id
    BY ONLY <2>1, CallMade
  <2>3. call' = c
    BY <1>1, <1>2, <2>1
  <2>4. CallTypes'
    BY <2>2, <2>3 DEF CallTypes
  <2>5. QED
    BY <1>1, <1>2, <2>2, <2>3, <2>4, QueueKeeps
<1>3. CASE ~HasSqe(ring)
  <2>1. CallTypes'
    BY <1>1, <1>3 DEF DirectSound, CallTypes
  <2>2. QED
    BY <1>1, <1>3, <2>1, QueueKeeps
<1>4. QED
  BY <1>2, <1>3

LEMMA NumberedKeeps ==
    ASSUME DirectSound, NEW u \in UserData,
           SubmitNop(u) \/ SubmitRead(u) \/ SubmitWrite(u) \/ ReadOnce(u) \/ WriteOnce(u)
    PROVE  DirectInv'
<1>1. u \in Numbers
  BY DEF Numbers
<1>2. CASE SubmitNop(u)
  <2>1. PICK r : r = IF HasSqe(ring) THEN QueueEntry(ring, u, None) ELSE ring
    OBVIOUS
  <2>2. QueueThen(r, u, "submit", "submitting")
    BY <1>2, <2>1 DEF SubmitNop, QueueNop
  <2>3. QED
    BY <1>1, <2>1, <2>2, CalledKeeps
<1>3. CASE SubmitRead(u) \/ SubmitWrite(u)
  <2>1. PICK r : r = IF HasSqe(ring) THEN QueueEntry(ring, u, None) ELSE ring
    OBVIOUS
  <2>2. QueueThen(r, u, "submit", "submitting")
    BY <1>3, <2>1 DEF SubmitRead, SubmitWrite, QueueRead, QueueWrite
  <2>3. QED
    BY <1>1, <2>1, <2>2, CalledKeeps
<1>4. CASE ReadOnce(u) \/ WriteOnce(u)
  <2>1. PICK r : r = IF HasSqe(ring) THEN QueueEntry(ring, u, u) ELSE ring
    OBVIOUS
  <2>2. QueueThen(r, u, "once", "submitting") /\ u \notin used
    BY <1>4, <2>1 DEF ReadOnce, WriteOnce, QueueRead, QueueWrite
  <2>3. u \in UserData \cup {None}
    OBVIOUS
  <2>4. QED
    BY <1>1, <2>1, <2>2, <2>3, CalledKeeps
<1>5. QED
  BY <1>2, <1>3, <1>4

LEMMA TrackedKeeps ==
    ASSUME DirectSound, QueueTracked \/ CancelOperation \/ TimeoutOnce
    PROVE  DirectInv'
<1>1. PICK id, r : id = ring.next /\ r = QueueOperation(ring, None)
  OBVIOUS
<1>2. id \in Numbers
  BY <1>1 DEF DirectSound, RingTypes, Numbers
<1>3. None \in UserData \cup {None}
  OBVIOUS
<1>4. CASE QueueTracked
  <2>1. QueueOnly(r, id)
    BY <1>1, <1>4 DEF QueueTracked, QueueNopOperation
  <2>2. CallTypes'
    BY <2>1 DEF QueueOnly, DirectSound, CallTypes
  <2>3. /\ call = Idle /\ ring' = QueueOperation(ring, None) /\ kernel' = kernel /\ call' = call
        /\ used' = IF HasSqe(ring) THEN used \cup {id} ELSE used
    BY <1>1, <2>1 DEF QueueOnly
  <2>4. QED
    BY <1>1, <1>2, <1>3, <2>2, <2>3, QueueKeeps
<1>5. CASE CancelOperation
  <2>1. QueueThen(r, id, "cancel", "submitting")
    BY <1>1, <1>5 DEF CancelOperation, QueueCancelOperation
  <2>2. QED
    BY <1>1, <1>2, <1>3, <2>1, CalledKeeps
<1>6. CASE TimeoutOnce
  <2>1. QueueThen(r, id, "operation", "look")
    BY <1>1, <1>6 DEF TimeoutOnce, QueueTimeoutOperation
  <2>2. QED
    BY <1>1, <1>2, <1>3, <2>1, CalledKeeps
<1>7. QED
  BY <1>4, <1>5, <1>6

LEMMA DirectStarts == DirectInit(1, {}) => DirectInv
<1> SUFFICES ASSUME DirectInit(1, {}) PROVE DirectInv
  OBVIOUS
<1>2. PICK n : n = NewRing
  OBVIOUS
<1>3. IsRing(n) /\ n.sq = <<>> /\ n.cq = <<>> /\ n.local = <<>>
  BY <1>2, SMT DEF NewRing, IsRing
<1>4. PICK one \in Nat : one = 1
  BY SMT
<1>5. ring = [n EXCEPT !.next = one]
  BY <1>2, <1>4 DEF DirectInit
<1>6. IsRing(ring) /\ ring.next = one /\ ring.sq = n.sq /\ ring.cq = n.cq /\ ring.local = n.local
  <2>1. IsRing(n)
    BY <1>3
  <2>2. QED
    BY ONLY <1>5, <2>1, NextSet
<1>7. <<>> \in Seq(SqEntry) /\ <<>> \in Seq(CqEntry) /\ DOMAIN <<>> = {}
  BY SMT
<1>8. /\ ring.sq \in Seq(SqEntry) /\ ring.cq \in Seq(CqEntry) /\ ring.local \in Seq(CqEntry) /\ ring.next \in Nat
      /\ DOMAIN ring.sq = {} /\ Members(ring.sq) = {} /\ Members(ring.cq) = {} /\ Members(ring.local) = {}
  BY <1>3, <1>6, <1>7 DEF Members
<1>9. RingTypes(ring)
  BY <1>6, <1>8 DEF RingTypes
<1>10. CallTypes /\ kernel = {}
  BY IdleCall DEF DirectInit, CallTypes
<1>11. QueuedInv /\ LentInv
  BY <1>8, <1>10 DEF QueuedInv, LentInv
<1>12. QED
  BY <1>9, <1>10, <1>11 DEF DirectInv

LEMMA DirectStep == DirectInv /\ [DirectNext]_directVars => DirectInv'
<1> SUFFICES ASSUME DirectInv, [DirectNext]_directVars PROVE DirectInv'
  OBVIOUS
<1>1. CASE failed
  <2>1. failed'
    BY <1>1 DEF DirectNext, CallStep, directVars, SubmitNop, SubmitRead, SubmitWrite, ReadOnce, WriteOnce,
                QueueThen, QueueOnly, QueueTracked, CancelOperation, TimeoutOnce, TryCompletionNow,
                TryOperationCompletion, Deliver, Wait, SubmitSome, Look, TakeOne, WaitRingCompletion,
                EnterWait, DrainMany, WaitCompletionsMore, EnterReturns, EnterFails, Post
  <2>2. QED
    BY <2>1 DEF DirectInv
<1>2. CASE ~failed
  <2>0. DirectSound
    BY <1>2 DEF DirectInv, DirectSound
  <2>1. ASSUME NEW u \in UserData,
               SubmitNop(u) \/ SubmitRead(u) \/ SubmitWrite(u) \/ ReadOnce(u) \/ WriteOnce(u)
        PROVE  DirectInv'
    BY <2>0, <2>1, NumberedKeeps
  <2>2. CASE QueueTracked \/ CancelOperation \/ TimeoutOnce
    BY <2>0, <2>2, TrackedKeeps
  <2>3. CASE TryCompletionNow
    BY <2>0, <2>3, TryCompletionKeeps
  <2>4. CASE TryOperationCompletion
    BY <2>0, <2>4, TryOperationKeeps
  <2>5. CASE Wait
    BY <2>0, <2>5, WaitKeeps
  <2>6. CASE SubmitSome
    BY <2>0, <2>6, SubmitSomeKeeps
  <2>7. CASE Look
    BY <2>0, <2>7, LookKeeps
  <2>8. CASE TakeOne
    BY <2>0, <2>8, TakeOneKeeps
  <2>9. CASE WaitRingCompletion \/ WaitCompletionsMore
    BY <2>0, <2>9, EnterWaitKeeps DEF WaitRingCompletion, WaitCompletionsMore
  <2>10. CASE DrainMany
    BY <2>0, <2>10, DrainManyKeeps
  <2>11. CASE EnterReturns
    BY <2>0, <2>11, EnterReturnsKeeps
  <2>12. CASE EnterFails
    BY <2>12 DEF EnterFails, DirectInv
  <2>13. ASSUME NEW e \in kernel, Post(e) PROVE DirectInv'
    BY <2>0, <2>13, PostKeeps DEF DirectSound
  <2>14. CASE UNCHANGED directVars
    BY <2>0, <2>14, CallOnly DEF directVars, DirectSound, CallTypes
  <2>15. QED
    BY <2>1, <2>2, <2>3, <2>4, <2>5, <2>6, <2>7, <2>8, <2>9, <2>10, <2>11, <2>12, <2>13, <2>14
       DEF DirectNext, CallStep
<1>3. QED
  BY <1>1, <1>2

(* For every size of the queue, every number of operations and every order in which the  *)
(* kernel completes them: read_once and write_once do not return while an entry that     *)
(* names their buffer is queued or with the kernel, unless io_uring_enter fails.         *)
THEOREM BuffersLentUntilDone == DirectSpec => []LentUntilDone
<1>1. DirectInit(1, {}) => DirectInv
  BY DirectStarts
<1>2. DirectInv /\ [DirectNext]_directVars => DirectInv'
  BY DirectStep
<1>3. DirectInv => LentUntilDone
  BY DEF DirectInv, LentInv, LentUntilDone
<1>4. QED
  BY <1>1, <1>2, <1>3, PTL DEF DirectSpec

-----------------------------------------------------------------------------
(* The backpressure guard *)

\* An exchange is only attempted from a count below the capacity.
SwapHasRoom ==
    \A a \in Acquirers : acquiring[a] \in {"swap", "try_swap"} => current[a] < PermitCapacity

\* PermitsExact made inductive: the compare makes the loaded count the present one.
GuardInv == PermitTypeOK /\ PermitsExact /\ SwapHasRoom

\* What one acquirer's move to a new label does to the program counters.
LEMMA Moves ==
    ASSUME PermitTypeOK, NEW a \in Acquirers, NEW l \in Labels, Goto(a, l)
    PROVE  /\ acquiring' \in [Acquirers -> Labels]
           /\ acquiring'[a] = l
           /\ \A b \in Acquirers \ {a} : acquiring'[b] = acquiring[b]
BY DEF PermitTypeOK, Goto

INSTANCE FiniteSetTheorems

\* The holders are finitely many.
LEMMA HoldersFinite == IsFiniteSet(Holders) /\ Cardinality(Holders) \in Nat
<1>1. Holders \subseteq Acquirers
  BY DEF Holders
<1>2. QED
  BY <1>1, CapacityAssumption, FS_Subset, FS_CardinalityType

\* A move that neither takes nor gives up a permit keeps the holders.
LEMMA SameHolders ==
    ASSUME PermitTypeOK, NEW a \in Acquirers, NEW l \in Labels, Goto(a, l),
           acquiring[a] \in {"resolved", "holding"} <=> l \in {"resolved", "holding"}
    PROVE  Holders' = Holders
BY Moves DEF Holders

\* Every step keeps the types; a release finds a count to decrement.
LEMMA PermitTypeStep == GuardInv /\ [PermitNext]_permitVars => PermitTypeOK'
<1> SUFFICES ASSUME PermitTypeOK, PermitsExact, [PermitNext]_permitVars PROVE PermitTypeOK'
  BY DEF GuardInv
<1>1. ASSUME NEW a \in Acquirers, NEW l \in Labels, Goto(a, l)
      PROVE  acquiring' \in [Acquirers -> Labels]
  BY <1>1, Moves
<1> USE DEF Labels
<1>2. ASSUME NEW a \in Acquirers, TryAcquire(a) \/ Acquire(a) \/ Poll(a) PROVE PermitTypeOK'
  BY <1>1, <1>2 DEF PermitTypeOK, TryAcquire, Acquire, Poll
<1>3. ASSUME NEW a \in Acquirers, Load(a) PROVE PermitTypeOK'
  <2>1. acquiring' \in [Acquirers -> Labels]
    BY <1>1, <1>3 DEF Load
  <2>2. QED
    BY <1>3, <2>1 DEF PermitTypeOK, Load
<1>4. ASSUME NEW a \in Acquirers, Swap(a) PROVE PermitTypeOK'
  <2>1. acquiring' \in [Acquirers -> Labels]
    BY <1>1, <1>4 DEF Swap
  <2>2. in_flight' \in Nat
    BY <1>4, SMTT(30) DEF PermitTypeOK, Swap
  <2>3. QED
    BY <1>4, <2>1, <2>2 DEF PermitTypeOK, Swap
<1>5. ASSUME NEW a \in Acquirers, RegisterWaiter(a) PROVE PermitTypeOK'
  BY <1>1, <1>5 DEF PermitTypeOK, RegisterWaiter
<1>6. ASSUME NEW a \in Acquirers, DropFuture(a) PROVE PermitTypeOK'
  <2>1. acquiring' \in [Acquirers -> Labels]
    BY <1>1, <1>6 DEF DropFuture
  <2>2. QED
    BY <1>6, <2>1 DEF PermitTypeOK, DropFuture
<1>7. ASSUME NEW a \in Acquirers, Release(a) PROVE PermitTypeOK'
  <2>1. a \in Holders
    BY <1>7 DEF Release, Holders
  <2>2. in_flight \in Nat /\ in_flight # 0
    BY <2>1, HoldersFinite, FS_EmptySet DEF PermitsExact
  <2>3. in_flight' \in Nat
    BY <1>7, <2>2, SMTT(30) DEF Release
  <2>4. acquiring' \in [Acquirers -> Labels]
    BY <1>1, <1>7 DEF Release
  <2>5. QED
    BY <1>7, <2>3, <2>4 DEF PermitTypeOK, Release
<1>8. ASSUME NEW a \in Acquirers, TakeWaiters(a) PROVE PermitTypeOK'
  <2>1. acquiring' \in [Acquirers -> Labels]
    BY <1>1, <1>8 DEF TakeWaiters
  <2>2. \A b \in Acquirers : wake_due[b] \/ (b \in waiters
                                /\ acquiring[b] \in {"waiting", "load", "swap", "full"}) \in BOOLEAN
    BY DEF PermitTypeOK
  <2>3. wake_due' \in [Acquirers -> BOOLEAN]
    BY <1>8, <2>2 DEF TakeWaiters, PermitTypeOK
  <2>4. QED
    BY <1>8, <2>1, <2>3 DEF PermitTypeOK, TakeWaiters
<1>9. ASSUME NEW a \in Acquirers, WakeAcquirer(a) PROVE PermitTypeOK'
  BY <1>9 DEF PermitTypeOK, WakeAcquirer
<1>10. CASE UNCHANGED permitVars
  BY <1>10 DEF PermitTypeOK, permitVars
<1>11. QED
  BY <1>2, <1>3, <1>4, <1>5, <1>6, <1>7, <1>8, <1>9, <1>10 DEF PermitNext, GuardedNext

\* Every step keeps exchanges to counts below the capacity.
LEMMA RoomStep == GuardInv /\ [PermitNext]_permitVars => SwapHasRoom'
<1> SUFFICES ASSUME PermitTypeOK, SwapHasRoom, [PermitNext]_permitVars PROVE SwapHasRoom'
  BY DEF GuardInv
<1>1. ASSUME NEW a \in Acquirers, NEW l \in Labels, Goto(a, l), UNCHANGED current,
             l \notin {"swap", "try_swap"}
      PROVE  SwapHasRoom'
  BY <1>1, Moves DEF SwapHasRoom
<1> USE DEF Labels
<1>2. ASSUME NEW a \in Acquirers, Load(a) PROVE SwapHasRoom'
  <2>1. current'[a] = in_flight /\ \A b \in Acquirers \ {a} : current'[b] = current[b]
    BY <1>2 DEF Load, PermitTypeOK
  <2>2. PICK l \in Labels : Goto(a, l) /\ (l \in {"swap", "try_swap"} => in_flight < PermitCapacity)
    BY <1>2 DEF Load
  <2>3. QED
    BY <2>1, <2>2, Moves, SMTT(30) DEF SwapHasRoom
<1>3. ASSUME NEW a \in Acquirers, Swap(a) PROVE SwapHasRoom'
  <2>1. PICK l \in Labels : Goto(a, l) /\ l \notin {"swap", "try_swap"}
    BY <1>3 DEF Swap
  <2>2. QED
    BY <1>1, <1>3, <2>1 DEF Swap
<1>4. ASSUME NEW a \in Acquirers, DropFuture(a) PROVE SwapHasRoom'
  <2>1. PICK l \in Labels : Goto(a, l) /\ l \notin {"swap", "try_swap"}
    BY <1>4 DEF DropFuture
  <2>2. QED
    BY <1>1, <1>4, <2>1 DEF DropFuture
<1>5. ASSUME NEW a \in Acquirers,
             TryAcquire(a) \/ Acquire(a) \/ Poll(a) \/ RegisterWaiter(a) \/ Release(a)
               \/ TakeWaiters(a)
      PROVE  SwapHasRoom'
  BY <1>1, <1>5 DEF TryAcquire, Acquire, Poll, RegisterWaiter, Release, TakeWaiters
<1>6. CASE UNCHANGED <<acquiring, current>>
  BY <1>6 DEF SwapHasRoom
<1>7. QED
  BY <1>2, <1>3, <1>4, <1>5, <1>6 DEF PermitNext, GuardedNext, WakeAcquirer, permitVars

\* Every step keeps the count exact and within the capacity.
LEMMA PermitsStep == GuardInv /\ [PermitNext]_permitVars => PermitsExact'
<1> SUFFICES ASSUME PermitTypeOK, PermitsExact, SwapHasRoom, [PermitNext]_permitVars PROVE PermitsExact'
  BY DEF GuardInv
<1>0. IsFiniteSet(Holders) /\ Cardinality(Holders) \in Nat /\ PermitCapacity \in Nat
      /\ in_flight = Cardinality(Holders) /\ in_flight \leq PermitCapacity
  BY HoldersFinite, CapacityAssumption DEF PermitsExact
<1>1. ASSUME Holders' = Holders, UNCHANGED in_flight PROVE PermitsExact'
  BY <1>1 DEF PermitsExact
<1> USE DEF Labels
<1>2. ASSUME NEW a \in Acquirers, Swap(a) PROVE PermitsExact'
  <2>1. CASE in_flight = current[a]
    <3>1. PICK l \in {"holding", "resolved"} : Goto(a, l)
      BY <1>2, <2>1 DEF Swap
    <3>2. Holders' = Holders \cup {a} /\ a \notin Holders
      BY <1>2, <3>1, Moves DEF Swap, Holders
    <3>3. Cardinality(Holders') = Cardinality(Holders) + 1
      BY <1>0, <3>2, FS_AddElement
    <3>4. in_flight' = in_flight + 1 /\ in_flight < PermitCapacity
      BY <1>2, <2>1 DEF Swap, SwapHasRoom
    <3>5. QED
      BY <1>0, <3>3, <3>4, SMTT(30) DEF PermitsExact
  <2>2. CASE in_flight # current[a]
    <3>1. PICK l \in {"try_load", "load"} : Goto(a, l)
      BY <1>2, <2>2 DEF Swap
    <3>2. Holders' = Holders
      BY <1>2, <3>1, SameHolders DEF Swap
    <3>3. QED
      BY <1>1, <1>2, <2>2, <3>2 DEF Swap
  <2>3. QED
    BY <2>1, <2>2
<1>3. ASSUME NEW a \in Acquirers, Release(a) PROVE PermitsExact'
  <2>1. Holders' = Holders \ {a} /\ a \in Holders
    BY <1>3, Moves DEF Release, Holders
  <2>2. Cardinality(Holders') = Cardinality(Holders) - 1
    BY <1>0, <2>1, FS_RemoveElement
  <2>3. in_flight # 0
    BY <1>0, <2>1, FS_EmptySet
  <2>4. QED
    BY <1>0, <1>3, <2>2, <2>3, SMTT(30) DEF Release, PermitsExact
<1>4. ASSUME NEW a \in Acquirers, Load(a) PROVE PermitsExact'
  <2>1. PICK l \in Labels : Goto(a, l) /\ l \notin {"resolved", "holding"}
    BY <1>4 DEF Load
  <2>2. QED
    BY <1>1, <1>4, <2>1, SameHolders DEF Load
<1>5. ASSUME NEW a \in Acquirers, DropFuture(a) PROVE PermitsExact'
  <2>1. PICK l \in Labels :
             /\ Goto(a, l)
             /\ acquiring[a] \in {"resolved", "holding"} <=> l \in {"resolved", "holding"}
    <3>1. CASE acquiring[a] = "resolved"
      BY <1>5, <3>1 DEF DropFuture
    <3>2. CASE acquiring[a] = "waiting"
      BY <1>5, <3>2 DEF DropFuture
    <3>3. QED
      BY <1>5, <3>1, <3>2 DEF DropFuture
  <2>2. QED
    BY <1>1, <1>5, <2>1, SameHolders DEF DropFuture
<1>6. ASSUME NEW a \in Acquirers,
             TryAcquire(a) \/ Acquire(a) \/ Poll(a) \/ RegisterWaiter(a) \/ TakeWaiters(a)
      PROVE  PermitsExact'
  BY <1>1, <1>6, SameHolders DEF TryAcquire, Acquire, Poll, RegisterWaiter, TakeWaiters
<1>7. CASE UNCHANGED <<acquiring, in_flight>>
  BY <1>1, <1>7 DEF Holders
<1>8. QED
  BY <1>2, <1>3, <1>4, <1>5, <1>6, <1>7 DEF PermitNext, GuardedNext, WakeAcquirer, permitVars

\* The strengthened invariant holds of every reachable state.
LEMMA GuardAlways == PermitSpec => []GuardInv
<1>1. PermitInit => GuardInv
  <2> SUFFICES ASSUME PermitInit PROVE GuardInv
    OBVIOUS
  <2>1. PermitTypeOK /\ SwapHasRoom
    BY DEF PermitInit, PermitTypeOK, Labels, SwapHasRoom
  <2>2. Holders = {}
    BY DEF PermitInit, Holders
  <2>3. PermitsExact
    BY <2>2, FS_EmptySet, CapacityAssumption, SMTT(30) DEF PermitInit, PermitsExact
  <2>4. QED
    BY <2>1, <2>3 DEF GuardInv
<1>2. GuardInv /\ [PermitNext]_permitVars => GuardInv'
  BY PermitTypeStep, RoomStep, PermitsStep, ZenonT(30) DEF GuardInv
<1>3. QED
  BY <1>1, <1>2, PTL DEF PermitSpec

\* The guard never has more permits out than its capacity, and in_flight counts them
\* exactly, for any number of concurrent try_acquire, acquire, cancel and release calls.
THEOREM PermitsAlwaysExact == PermitSpec => []PermitsExact
BY GuardAlways, PTL DEF GuardInv

\* Every variable of the guard keeps the shape of its field: in_flight never underflows.
THEOREM PermitTypeCorrect == PermitSpec => []PermitTypeOK
BY GuardAlways, PTL DEF GuardInv

-----------------------------------------------------------------------------
(* The streaming reply *)

\* A value is marked with its producer and its number.
StreamValues == Producers \X Nat

StreamTypes ==
    /\ values \in Seq(StreamValues)
    /\ accepted \in Seq(StreamValues)
    /\ received \in Seq(StreamValues)
    /\ producer \in [Producers -> {"none", "open", "notifying", "last", "leaving", "gone"}]
    /\ pushed \in [Producers -> Nat]
    /\ consumes \in Consumers

\* The counter counts the producers that are left,
Left == {p \in Producers : producer[p] \in {"open", "notifying"}}
LeftCounted == sender_count = Cardinality(Left)

\* what was received and what is queued is what was accepted,
NothingLost == received \o values = accepted

\* and the consumer that has seen the counter at zero has seen the last value before.
EndIsFinal == consumer \in {"ending", "ended"} => values = <<>> /\ Left = {}

StreamInv == StreamTypes /\ LeftCounted /\ NothingLost /\ EndIsFinal

\* The producers left are finitely many, and none when the counter is zero.
LEMMA LeftFacts ==
    ASSUME StreamTypes
    PROVE  /\ IsFiniteSet(Left) /\ Cardinality(Left) \in Nat
           /\ Cardinality(Left) = 0 => Left = {}
<1>1. Left \subseteq Producers
  BY DEF Left
<1>2. IsFiniteSet(Left)
  BY <1>1, StreamAssumption, FS_Subset, ZenonT(30)
<1>3. QED
  BY <1>2, FS_CardinalityType, FS_EmptySet

INSTANCE SequenceTheorems

\* A batch and what stays behind it are the values there were.
LEMMA BatchFacts ==
    ASSUME StreamTypes
    PROVE  /\ Batch \in Seq(StreamValues)
           /\ SubSeq(values, Len(Batch) + 1, Len(values)) \in Seq(StreamValues)
           /\ Batch \o SubSeq(values, Len(Batch) + 1, Len(values)) = values
<1> DEFINE k == IF consumes.most < Len(values) THEN consumes.most ELSE Len(values)
<1>1. values \in Seq(StreamValues) /\ Len(values) \in Nat /\ consumes.most \in Nat
  BY StreamAssumption, SMTT(30) DEF StreamTypes
<1>2. k \in 0 .. Len(values)
  BY <1>1, SMTT(30)
<1>3. Batch = SubSeq(values, 1, k)
  BY DEF Batch
<1> HIDE DEF k
<1>4. \A i \in 1 .. Len(values) : values[i] \in StreamValues
  BY <1>1, ElementOfSeq, ZenonT(30)
<1>5. Batch \in Seq(StreamValues) /\ Len(Batch) = k
  <2>1. \A i \in 1 .. k : values[i] \in StreamValues
    BY <1>1, <1>2, <1>4, SMTT(30)
  <2>2. k \in Int /\ 1 \in Int
    BY <1>1, <1>2, SMTT(30)
  <2>3. SubSeq(values, 1, k) \in Seq(StreamValues) /\ Len(SubSeq(values, 1, k)) = IF 1 <= k THEN k - 1 + 1 ELSE 0
    BY <2>1, <2>2, SubSeqProperties, SMTT(30)
  <2>4. QED
    BY <1>1, <1>2, <1>3, <2>3, SMTT(30)
<1>6. SubSeq(values, k + 1, Len(values)) \in Seq(StreamValues)
  <2>1. \A i \in (k + 1) .. Len(values) : values[i] \in StreamValues
    BY <1>1, <1>2, <1>4, SMTT(30)
  <2>2. k + 1 \in Int /\ Len(values) \in Int
    BY <1>1, <1>2, SMTT(30)
  <2>3. QED
    BY <2>1, <2>2, SubSeqProperties
<1>7. SubSeq(values, 1, k) \o SubSeq(values, k + 1, Len(values)) = SubSeq(values, 1, Len(values))
  <2>1. 1 \in 1 .. Len(values) + 1 /\ k \in 1 - 1 .. Len(values) /\ Len(values) \in k .. Len(values)
    BY <1>1, <1>2, SMTT(30)
  <2>2. QED
    BY <1>1, <2>1, ConcatAdjacentSubSeq
<1>8. SubSeq(values, 1, Len(values)) = values
  BY <1>1, SubSeqFull
<1>9. QED
  BY <1>3, <1>5, <1>6, <1>7, <1>8

\* Steps that move no value, no producer and no count keep the invariant when they do not make
\* the consumer end.
LEMMA StreamQuiet ==
    ASSUME StreamInv,
           UNCHANGED <<values, sender_count, producer, pushed, consumes, accepted, received>>,
           consumer' \in {"ending", "ended"} => consumer \in {"ending", "ended"}
    PROVE  StreamInv'
<1>1. StreamTypes' /\ NothingLost'
  BY DEF StreamInv, StreamTypes, NothingLost
<1>2. Left' = Left
  BY DEF Left
<1>3. QED
  BY <1>1, <1>2 DEF StreamInv, LeftCounted, EndIsFinal

\* A producer that moves without coming or going leaves the producers left as they were.
LEMMA SameLeft ==
    ASSUME StreamTypes, NEW p \in Producers, NEW l,
           producer' = [producer EXCEPT ![p] = l],
           producer[p] \in {"open", "notifying"} <=> l \in {"open", "notifying"}
    PROVE  Left' = Left
BY DEF StreamTypes, Left

\* send appends to what is queued, and to what was accepted.
LEMMA SendValueStep ==
    ASSUME StreamInv, NEW p \in Producers, SendValue(p)
    PROVE  StreamInv'
<1> DEFINE v == <<p, pushed[p]>>
<1>1. v \in StreamValues
  BY DEF StreamInv, StreamTypes, StreamValues
<1>2. values' = Append(values, v) /\ accepted' = Append(accepted, v) /\ received' = received
  BY DEF SendValue
<1>3. /\ values \in Seq(StreamValues) /\ received \in Seq(StreamValues)
      /\ accepted \in Seq(StreamValues) /\ received \o values = accepted
  BY DEF StreamInv, StreamTypes, NothingLost
<1> HIDE DEF v
<1>4. values' \in Seq(StreamValues) /\ accepted' \in Seq(StreamValues)
  BY <1>1, <1>2, <1>3, AppendProperties
<1>5. StreamTypes'
  <2>1. producer' \in [Producers -> {"none", "open", "notifying", "last", "leaving", "gone"}]
    BY DEF SendValue, StreamInv, StreamTypes
  <2>2. pushed' \in [Producers -> Nat]
    BY SMTT(30) DEF SendValue, StreamInv, StreamTypes
  <2>3. consumes' \in Consumers /\ received' \in Seq(StreamValues)
    BY <1>2, <1>3 DEF SendValue, consumerVars, StreamInv, StreamTypes
  <2>4. QED
    BY <1>4, <2>1, <2>2, <2>3 DEF StreamTypes
<1>6. NothingLost'
  <2>1. <<v>> \in Seq(StreamValues)
    BY <1>1, SMTT(30)
  <2>2. values' = values \o <<v>> /\ accepted' = (received \o values) \o <<v>>
    BY <1>1, <1>2, <1>3, AppendIsConcat, ZenonT(30)
  <2>3. received \in Seq(StreamValues) /\ values \in Seq(StreamValues)
    BY <1>3
  <2>4. (received \o values) \o <<v>> = received \o (values \o <<v>>)
    BY <2>1, <2>3, ConcatAssociative, SMTT(30)
  <2>5. QED
    BY <1>2, <2>2, <2>4 DEF NothingLost
<1>7. producer[p] = "open" /\ producer' = [producer EXCEPT ![p] = "notifying"]
  BY DEF SendValue
<1>8. Left' = Left /\ p \in Left
  BY <1>7, SameLeft DEF StreamInv, Left
<1>9. LeftCounted' /\ EndIsFinal'
  BY <1>8 DEF SendValue, consumerVars, StreamInv, LeftCounted, EndIsFinal
<1>10. QED
  BY <1>5, <1>6, <1>9 DEF StreamInv

\* clone counts one more producer: not when the consumer has seen none.
LEMMA CloneSenderStep ==
    ASSUME StreamInv, NEW p \in Producers, NEW q \in Producers, CloneSender(p, q)
    PROVE  StreamInv'
<1>1. /\ producer[p] = "open" /\ producer[q] = "none" /\ producer' = [producer EXCEPT ![q] = "open"]
      /\ sender_count' = sender_count + 1
      /\ UNCHANGED <<values, consumer, consumes, pushed, accepted, received>>
  BY DEF CloneSender, consumerVars
<1>2. StreamTypes' /\ NothingLost'
  BY <1>1 DEF StreamInv, StreamTypes, NothingLost
<1>3. p \in Left /\ q \notin Left /\ Left' = Left \cup {q}
  BY <1>1 DEF StreamInv, StreamTypes, Left
<1>4. IsFiniteSet(Left)
  BY LeftFacts DEF StreamInv
<1>5. Cardinality(Left') = Cardinality(Left) + 1
  BY <1>3, <1>4, FS_AddElement
<1>6. LeftCounted' /\ EndIsFinal'
  BY <1>1, <1>3, <1>5 DEF StreamInv, LeftCounted, EndIsFinal
<1>7. QED
  BY <1>2, <1>6 DEF StreamInv

\* drop counts one producer less.
LEMMA DropSenderStep ==
    ASSUME StreamInv, NEW p \in Producers, DropSender(p)
    PROVE  StreamInv'
<1> DEFINE l == IF sender_count = 1 THEN "last" ELSE "gone"
<1>1. /\ producer[p] = "open" /\ producer' = [producer EXCEPT ![p] = l]
      /\ sender_count' = sender_count - 1
      /\ UNCHANGED <<values, consumer, consumes, pushed, accepted, received>>
  BY DEF DropSender, consumerVars
<1>2. StreamTypes' /\ NothingLost'
  BY <1>1 DEF StreamInv, StreamTypes, NothingLost
<1>3. p \in Left /\ Left' = Left \ {p}
  BY <1>1 DEF StreamInv, StreamTypes, Left
<1>4. IsFiniteSet(Left)
  BY LeftFacts DEF StreamInv
<1>5. Cardinality(Left') = Cardinality(Left) - 1
  BY <1>3, <1>4, FS_RemoveElement
<1>6. LeftCounted' /\ EndIsFinal'
  BY <1>1, <1>3, <1>5 DEF StreamInv, LeftCounted, EndIsFinal
<1>7. QED
  BY <1>2, <1>6 DEF StreamInv

\* A batch moves the first of the values to what was received.
LEMMA TakeBatchStep ==
    ASSUME StreamInv, TakeBatch
    PROVE  StreamInv'
<1>1. /\ received' = received \o Batch /\ values' = SubSeq(values, Len(Batch) + 1, Len(values))
      /\ consumer' = "idle"
      /\ UNCHANGED <<sender_count, producer, pushed, consumes, accepted>>
  BY DEF TakeBatch, producerVars
<1>2. received \in Seq(StreamValues) /\ received \o values = accepted
  BY DEF StreamInv, StreamTypes, NothingLost
<1>3. /\ Batch \in Seq(StreamValues) /\ values' \in Seq(StreamValues) /\ Batch \o values' = values
  BY <1>1, BatchFacts DEF StreamInv
<1>4. StreamTypes'
  <2>1. received' \in Seq(StreamValues)
    BY <1>1, <1>2, <1>3, ConcatProperties
  <2>2. QED
    BY <1>1, <1>3, <2>1 DEF StreamInv, StreamTypes
<1>5. NothingLost'
  <2>1. /\ received \in Seq(StreamValues) /\ Batch \in Seq(StreamValues)
        /\ values' \in Seq(StreamValues)
    BY <1>2, <1>3, ZenonT(30)
  <2>2. (received \o Batch) \o values' = received \o (Batch \o values')
    BY <2>1, ConcatAssociative, SMTT(30)
  <2>3. QED
    BY <1>1, <1>2, <1>3, <2>2 DEF NothingLost
<1>6. Left' = Left
  BY <1>1 DEF Left
<1>7. LeftCounted' /\ EndIsFinal'
  BY <1>1, <1>6 DEF StreamInv, LeftCounted, EndIsFinal
<1>8. QED
  BY <1>4, <1>5, <1>7 DEF StreamInv

LEMMA StreamStep == StreamInv /\ [StreamNext]_streamVars => StreamInv'
<1> SUFFICES ASSUME StreamInv, [StreamNext]_streamVars PROVE StreamInv'
  OBVIOUS
<1> USE DEF streamState, producerVars, consumerVars
<1>1. ASSUME NEW p \in Producers, TakeWaker(p) \/ NotifyAll(p) PROVE StreamInv'
  <2> DEFINE l == IF producer[p] = "last" THEN "leaving"
                  ELSE IF producer[p] = "leaving" THEN "gone" ELSE "open"
  <2>1. /\ producer' = [producer EXCEPT ![p] = l] /\ producer[p] \in {"last", "notifying", "leaving"}
        /\ UNCHANGED <<values, sender_count, pushed, consumes, accepted, received>>
        /\ consumer' \in {"ending", "ended"} => consumer \in {"ending", "ended"}
    BY <1>1 DEF TakeWaker, NotifyAll
  <2>2. StreamTypes' /\ NothingLost'
    BY <2>1 DEF StreamInv, StreamTypes, NothingLost
  <2>3. Left' = Left
    BY <2>1, SameLeft DEF StreamInv
  <2>4. QED
    BY <2>1, <2>2, <2>3 DEF StreamInv, LeftCounted, EndIsFinal
<1>2. CASE Receive
  BY <1>2, StreamQuiet DEF Receive
<1>3. CASE TryRecvBatch \/ LookFindsValues
  BY <1>3, TakeBatchStep DEF TryRecvBatch, LookFindsValues
<1>4. CASE LookAgain
  BY <1>4, StreamQuiet DEF LookAgain
<1>5. CASE SecondLookFindsValues
  BY <1>5, StreamQuiet DEF SecondLookFindsValues
<1>6. CASE LookAtCount
  <2>1. /\ UNCHANGED <<values, sender_count, producer, pushed, consumes, accepted, received>>
        /\ values = <<>> /\ consumer' = IF sender_count = 0 THEN "ending" ELSE "parking"
    BY <1>6 DEF LookAtCount
  <2>2. StreamTypes' /\ NothingLost' /\ Left' = Left
    BY <2>1 DEF StreamInv, StreamTypes, NothingLost, Left
  <2>3. sender_count = 0 => Left = {}
    BY LeftFacts DEF StreamInv, LeftCounted
  <2>4. QED
    BY <2>1, <2>2, <2>3 DEF StreamInv, LeftCounted, EndIsFinal
<1>7. CASE End
  BY <1>7, StreamQuiet DEF End
<1>8. CASE Park
  BY <1>8, StreamQuiet DEF Park
<1>9. CASE PollAgain
  BY <1>9, StreamQuiet DEF PollAgain
<1>10. CASE CancelBatch
  BY <1>10, StreamQuiet DEF CancelBatch
<1>11. CASE DropReply
  BY <1>11, StreamQuiet DEF DropReply
<1>12. CASE UNCHANGED streamVars
  BY <1>12, StreamQuiet DEF streamVars
<1>13. QED
  BY <1>1, <1>2, <1>3, <1>4, <1>5, <1>6, <1>7, <1>8, <1>9, <1>10, <1>11, <1>12, ZenonT(30),
     SendValueStep, CloneSenderStep, DropSenderStep
  DEF StreamNext, ProducerStep, ConsumerStep

\* What send accepted is received once and in order, and the end comes after the last value of
\* the last producer (StreamSender, StreamReply::recv_batch, StreamBatch::poll).
THEOREM StreamsComplete == StreamSpec => []StreamComplete
<1>1. StreamInit => StreamInv
  <2> SUFFICES ASSUME StreamInit PROVE StreamInv
    OBVIOUS
  <2>1. PICK p \in Producers : producer = [q \in Producers |-> IF q = p THEN "open" ELSE "none"]
    BY DEF StreamInit
  <2>2. Left = {p}
    BY <2>1 DEF Left
  <2>3. LeftCounted
    BY <2>2, FS_Singleton DEF LeftCounted, StreamInit
  <2>4. StreamTypes
    BY <2>1, SMTT(30) DEF StreamTypes, StreamInit
  <2>5. NothingLost /\ EndIsFinal
    BY SMT DEF NothingLost, EndIsFinal, StreamInit
  <2>6. QED
    BY <2>3, <2>4, <2>5 DEF StreamInv
<1>2. StreamInv => StreamComplete
  <2> SUFFICES ASSUME StreamInv PROVE StreamComplete
    OBVIOUS
  <2>1. \A p \in Producers :
          p \notin Left => producer[p] \in {"none", "last", "leaving", "gone"}
    BY DEF StreamInv, StreamTypes, Left
  <2>2. QED
    BY <2>1 DEF StreamInv, NothingLost, EndIsFinal, StreamComplete
<1>3. QED
  BY <1>1, <1>2, StreamStep, PTL DEF StreamSpec
=============================================================================
