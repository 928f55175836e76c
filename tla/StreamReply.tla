---------------------------- MODULE StreamReply ----------------------------
(***************************************************************************)
(* Streaming replies (stream_reply.rs): producers push values into a list  *)
(* behind a mutex and count themselves out with an atomic counter; one     *)
(* consumer takes batches, blocking on a condition variable or as a future *)
(* with a waker.  A step is one critical section, one access to the        *)
(* counter, or one wake.                                                   *)
(***************************************************************************)
EXTENDS Naturals, Sequences, FiniteSets

CONSTANTS
    Producers,    \* the clones of StreamSender
    MaxValues,    \* bound on the values of one producer
    Consumers     \* how the consumer receives: [blocking, most]

ASSUME StreamAssumption ==
    /\ IsFiniteSet(Producers)
    /\ MaxValues \in Nat
    /\ Consumers \subseteq [blocking : BOOLEAN, most : Nat]

VARIABLES
    values,       \* StreamState::values
    done,         \* StreamState::done
    waker,        \* StreamState::waker is set
    held,         \* the consumer holds the mutex across a step
    sender_count,
    producer,     \* per producer: where it is
    pushed,       \* per producer: values pushed
    taken,        \* per producer: it has taken the waker to wake it
    consumer,     \* where the consumer is
    consumes,     \* how it receives
    due,          \* the consumer's task was woken
    accepted,     \* history: values accepted by send
    received      \* history: values the consumer has got

streamState == <<values, done, waker, held, sender_count>>
producerVars == <<producer, pushed, taken>>
consumerVars == <<consumer, consumes, due>>
streamVars == <<streamState, producerVars, consumerVars, accepted, received>>

\* stream_channel, as StreamProducer::new calls it: one sender, the others are clones of it.
StreamInit ==
    /\ values = <<>> /\ done = FALSE /\ waker = FALSE /\ held = FALSE
    /\ sender_count = 1
    /\ \E p \in Producers : producer = [q \in Producers |-> IF q = p THEN "open" ELSE "none"]
    /\ pushed = [p \in Producers |-> 0]
    /\ taken = [p \in Producers |-> FALSE]
    /\ consumes \in Consumers
    /\ consumer = "idle" /\ due = FALSE
    /\ accepted = <<>> /\ received = <<>>

-----------------------------------------------------------------------------
(* Producers *)

\* StreamSender::clone
CloneSender(p, q) ==
    /\ producer[p] = "open"
    /\ producer[q] = "none"
    /\ sender_count' = sender_count + 1
    /\ producer' = [producer EXCEPT ![q] = "open"]
    /\ UNCHANGED <<values, done, waker, held, pushed, taken, consumerVars, accepted, received>>

\* StreamSender::send: refused when the consumer is done; otherwise the value is pushed and the
\* waker taken.
SendValue(p) ==
    /\ producer[p] = "open"
    /\ ~held
    /\ ~done
    /\ pushed[p] < MaxValues
    /\ values' = Append(values, <<p, pushed[p]>>)
    /\ accepted' = Append(accepted, <<p, pushed[p]>>)
    /\ pushed' = [pushed EXCEPT ![p] = @ + 1]
    /\ taken' = [taken EXCEPT ![p] = waker]
    /\ waker' = FALSE
    /\ producer' = [producer EXCEPT ![p] = "notifying"]
    /\ UNCHANGED <<done, held, sender_count, consumerVars, received>>

\* fault: every drop is taken for the last but one.
DropSenderUnsaid(p) ==
    /\ producer[p] = "open"
    /\ sender_count' = sender_count - 1
    /\ producer' = [producer EXCEPT ![p] = "gone"]
    /\ UNCHANGED <<values, done, waker, held, pushed, taken, consumerVars, accepted, received>>

\* StreamSender::drop counts down, and the last one goes on
DropSender(p) ==
    /\ producer[p] = "open"
    /\ sender_count' = sender_count - 1
    /\ producer' = [producer EXCEPT ![p] = IF sender_count = 1 THEN "last" ELSE "gone"]
    /\ UNCHANGED <<values, done, waker, held, pushed, taken, consumerVars, accepted, received>>

\* to take the waker
TakeWaker(p) ==
    /\ producer[p] = "last"
    /\ ~held
    /\ taken' = [taken EXCEPT ![p] = waker]
    /\ waker' = FALSE
    /\ producer' = [producer EXCEPT ![p] = "leaving"]
    /\ UNCHANGED <<values, done, held, sender_count, pushed, consumerVars, accepted, received>>

\* and notify, as after a send: the condition variable, and the waker that was taken.
NotifyAll(p) ==
    /\ producer[p] \in {"notifying", "leaving"}
    /\ consumer' = IF consumer = "waiting" THEN "looking" ELSE consumer
    /\ due' = (due \/ taken[p])
    /\ taken' = [taken EXCEPT ![p] = FALSE]
    /\ producer' = [producer EXCEPT ![p] = IF @ = "leaving" THEN "gone" ELSE "open"]
    /\ UNCHANGED <<streamState, pushed, consumes, accepted, received>>

-----------------------------------------------------------------------------
(* The consumer *)

\* recv, recv_batch, collect or fold is called, or a StreamBatch polled for the first time.
Receive ==
    /\ consumer = "idle"
    /\ consumer' = "looking"
    /\ UNCHANGED <<streamState, producerVars, consumes, due, accepted, received>>

\* The values one call takes: recv takes one, the others all there are.
Batch == SubSeq(values, 1, IF consumes.most < Len(values) THEN consumes.most ELSE Len(values))

TakeBatch ==
    /\ received' = received \o Batch
    /\ values' = SubSeq(values, Len(Batch) + 1, Len(values))
    /\ consumer' = "idle"
    /\ UNCHANGED <<done, waker, held, sender_count, producerVars, consumes, due, accepted>>

\* try_recv by itself: a batch or nothing.
TryRecvBatch ==
    /\ consumer = "idle"
    /\ values # <<>>
    /\ TakeBatch

\* Values are there: recv_batch and try_recv return them.
LookFindsValues ==
    /\ consumer = "looking"
    /\ values # <<>>
    /\ TakeBatch

\* StreamBatch::poll has got nothing from try_recv, which unlocked.
LookAgain ==
    /\ consumer = "looking"
    /\ ~consumes.blocking
    /\ values = <<>>
    /\ consumer' = "second look"
    /\ UNCHANGED <<streamState, producerVars, consumes, due, accepted, received>>

\* It locks again, and starts over when values have come.
SecondLookFindsValues ==
    /\ consumer = "second look"
    /\ values # <<>>
    /\ consumer' = "looking"
    /\ UNCHANGED <<streamState, producerVars, consumes, due, accepted, received>>

\* fault: the second look trusts the first, and reads the counter only.
LookAtCountAlone ==
    /\ consumer = IF consumes.blocking THEN "looking" ELSE "second look"
    /\ consumes.blocking => values = <<>>
    /\ held' = TRUE
    /\ consumer' = IF sender_count = 0 THEN "ending" ELSE "parking"
    /\ UNCHANGED <<values, done, waker, sender_count, producerVars, consumes, due, accepted, received>>

\* No values: the counter is read with the mutex held.
LookAtCount ==
    /\ consumer = IF consumes.blocking THEN "looking" ELSE "second look"
    /\ values = <<>>
    /\ held' = TRUE
    /\ consumer' = IF sender_count = 0 THEN "ending" ELSE "parking"
    /\ UNCHANGED <<values, done, waker, sender_count, producerVars, consumes, due, accepted, received>>

\* All producers are gone: the end.  recv_batch marks it.
End ==
    /\ consumer = "ending"
    /\ consumer' = "ended"
    /\ done' = (done \/ consumes.blocking)
    /\ held' = FALSE
    /\ UNCHANGED <<values, waker, sender_count, producerVars, consumes, due, accepted, received>>

\* Condvar::wait gives the mutex up and waits at once; the future leaves its waker.
Park ==
    /\ consumer = "parking"
    /\ held' = FALSE
    /\ consumer' = IF consumes.blocking THEN "waiting" ELSE "asleep"
    /\ waker' = (waker \/ ~consumes.blocking)
    /\ due' = FALSE
    /\ UNCHANGED <<values, done, sender_count, producerVars, consumes, accepted, received>>

\* The woken task polls again.
PollAgain ==
    /\ consumer = "asleep"
    /\ due
    /\ due' = FALSE
    /\ consumer' = "looking"
    /\ UNCHANGED <<streamState, producerVars, consumes, accepted, received>>

\* The StreamBatch is dropped asleep, the StreamReply is kept; its waker stays registered.
CancelBatch ==
    /\ consumer = "asleep"
    /\ consumer' = "idle"
    /\ UNCHANGED <<streamState, producerVars, consumes, due, accepted, received>>

\* StreamReply::drop, between calls or with a future that is dropped asleep.
DropReply ==
    /\ consumer \in {"idle", "asleep"}
    /\ done' = TRUE
    /\ consumer' = "dropped"
    /\ UNCHANGED <<values, waker, held, sender_count, producerVars, consumes, due, accepted, received>>

-----------------------------------------------------------------------------
ProducerStep(p) ==
    \/ SendValue(p)
    \/ DropSender(p)
    \/ TakeWaker(p)
    \/ NotifyAll(p)
    \/ \E q \in Producers : CloneSender(p, q)

ConsumerStep ==
    \/ Receive
    \/ TryRecvBatch
    \/ LookFindsValues
    \/ LookAgain
    \/ SecondLookFindsValues
    \/ LookAtCount
    \/ End
    \/ Park
    \/ PollAgain

StreamNext ==
    \/ \E p \in Producers : ProducerStep(p)
    \/ ConsumerStep
    \/ CancelBatch
    \/ DropReply

StreamSpec == StreamInit /\ [][StreamNext]_streamVars

-----------------------------------------------------------------------------
(* Properties *)

\* Every value that send accepted is received once and in order, and the end comes after the
\* last of them: never while a producer is left, or a value (recv_batch, StreamBatch::poll).
StreamComplete ==
    /\ received \o values = accepted
    /\ consumer = "ended" => values = <<>> /\ \A p \in Producers : producer[p] \in {"none", "last", "leaving", "gone"}

\* When the last producer is dropped the consumer is told, however its drop falls between the
\* looks and the sleep of the consumer (StreamSender::drop).
StreamEnds ==
    (\A p \in Producers : producer[p] \in {"none", "last", "leaving", "gone"})
      ~> consumer \in {"ended", "dropped"}
=============================================================================
