------------------------------- MODULE NodeKv -------------------------------
(***************************************************************************)
(* The no_std key-value service (kv.rs): one message loop per shard, a     *)
(* task of that shard's executor, and requesters that park until their     *)
(* reply is there.  The channel to a shard is the queue RingChannel        *)
(* implements, with the waker its receiver leaves.  Each shard may also    *)
(* run a task that awaits one completion.                                  *)
(***************************************************************************)
EXTENDS NodeExecutor, FiniteSets

CONSTANTS
    Requesters,      \* threads that call put, get and total_len
    Owner,           \* the thread that starts and drops the service
    Keys,
    KeyHash,         \* the hash of each key
    MailboxCapacity  \* mailbox_capacity

ASSUME NodeAssumption ==
    Owner \notin Requesters /\ MaxShards \in Nat /\ KeyHash \in [Keys -> Nat]

NoValue == 0

VARIABLES
    channel,         \* per shard: queued envelopes
    closed,
    recv_waker,      \* per shard: its loop's waker is registered
    map,             \* per shard: key -> value
    completion,      \* per shard: the awaited completion, "none" if there is no such task
    actor,           \* per thread: [at, shard]
    request,         \* per requester: [op, key, value, left, sum]
    reply,           \* per requester: its reply ring
    script,          \* per requester: the calls it has yet to make, <<op, key>>
    values,          \* number of calls so far; a put stores it
    served,          \* history: per key, the puts served
    floor,           \* history: per requester, the puts served, and keys held, when it called
    answer           \* per requester: what the last request returned

channelVars == <<channel, closed, recv_waker>>
clientVars == <<actor, request, reply, script, values, floor, answer>>
nodeVars == <<layout, queueVars, threadVars, executorVars, channelVars, map, completion, clientVars, served>>
exceptClients == <<layout, ring, threadVars, live, loopVars, interests, map, completion, served>>

NoRequest == [op |-> "none", key |-> CHOOSE k \in Keys : TRUE, value |-> NoValue, left |-> <<>>, sum |-> 0]

\* Before start_with_runtime or after it; with a task that awaits a completion or without; and
\* with the calls that will be made.
NodeInit(running, io, calls) ==
    /\ CharlotteInit(running)
    /\ ExecutorInit(IF io THEN <<"loop", "io">> ELSE <<"loop">>)
    /\ channel = [s \in ShardIds |-> <<>>]
    /\ closed = [s \in ShardIds |-> FALSE]
    /\ recv_waker = [s \in ShardIds |-> FALSE]
    /\ map = [s \in ShardIds |-> [k \in Keys |-> NoValue]]
    /\ completion = [s \in ShardIds |-> IF io THEN "new" ELSE "none"]
    /\ actor = [a \in Requesters \cup {Owner} |-> [at |-> IF a # Owner THEN "idle" ELSE IF running THEN "serving" ELSE "start", shard |-> 0]]
    /\ request = [r \in Requesters |-> NoRequest]
    /\ reply = [r \in Requesters |-> <<>>]
    /\ script = calls
    /\ values = 0
    /\ served = [k \in Keys |-> <<>>]
    /\ floor = [r \in Requesters |-> [puts |-> 0, keys |-> 0]]
    /\ answer = [r \in Requesters |-> [op |-> "none"]]

Goes(a, place) == actor' = [actor EXCEPT ![a].at = place]

-----------------------------------------------------------------------------
(* The life of the service *)

\* start_with_runtime: channel, reactor and thread of one shard after the other
StartShard(s) ==
    /\ actor[Owner] = [at |-> "start", shard |-> s]
    /\ \/ /\ SysSpawn(s)
          /\ UNCHANGED actor
       \/ /\ StageEntry(s)
          /\ UNCHANGED actor
       \/ /\ ObserveExit(s)
          /\ actor' = [actor EXCEPT ![Owner] = IF s + 1 = shard_count
                                                 THEN [at |-> "serving", shard |-> 0]
                                                 ELSE [at |-> "start", shard |-> s + 1]]
    /\ UNCHANGED <<executorVars, channelVars, map, completion, request, reply, script, values, floor, answer, served>>

\* ShardedKv::drop, which no request outlives: each shard is closed
CloseShardChannel ==
    /\ actor[Owner].at = "serving"
    /\ \A r \in Requesters : actor[r].at = "idle"
    /\ closed' = [closed EXCEPT ![actor[Owner].shard] = TRUE]
    /\ Goes(Owner, "sent")
    /\ UNCHANGED <<exceptClients, posted, ready, queued, channel, recv_waker, request, reply, script, values, floor, answer>>

-----------------------------------------------------------------------------
(* Requests *)

\* HashPlacement::shard_for
ShardFor(k) == KeyHash[k] % shard_count

\* The shards a request goes to, in turn: that of its key, or all of them.
Route(op, k) == IF op = "len" THEN [i \in 1 .. shard_count |-> i - 1] ELSE <<ShardFor(k)>>

\* put, get or total_len is called.
Call(r) ==
    /\ actor[r].at = "idle"
    /\ actor[Owner] = [at |-> "serving", shard |-> 0]
    /\ script[r] # <<>>
    /\ LET op == Head(script[r])[1]
           k == Head(script[r])[2]
       IN  /\ request' = [request EXCEPT ![r] = [op |-> op, key |-> k, value |-> values + 1,
                                                 left |-> Route(op, k), sum |-> 0]]
           /\ floor' = [floor EXCEPT ![r] = [puts |-> Len(served[k]),
                                             keys |-> Cardinality({j \in Keys : served[j] # <<>>})]]
    /\ script' = [script EXCEPT ![r] = Tail(@)]
    /\ values' = values + 1
    /\ Goes(r, "sending")
    /\ UNCHANGED <<exceptClients, posted, ready, queued, channelVars, reply, answer>>

\* KvShardHandle::request: try_send finds the ring full,
RequestRefused(r) ==
    /\ actor[r].at = "sending"
    /\ Len(channel[Head(request[r].left)]) = MailboxCapacity - 1
    /\ answer' = [answer EXCEPT ![r] = [op |-> "full"]]
    /\ Goes(r, "idle")
    /\ UNCHANGED <<exceptClients, posted, ready, queued, channelVars, request, reply, script, values, floor>>

\* or pushes the envelope with an empty reply ring.
SendRequest(r) ==
    /\ actor[r].at = "sending"
    /\ LET s == Head(request[r].left) IN
       /\ Len(channel[s]) < MailboxCapacity - 1
       /\ channel' = [channel EXCEPT ![s] = Append(@, r)]
       /\ actor' = [actor EXCEPT ![r] = [at |-> "sent", shard |-> s]]
    /\ reply' = [reply EXCEPT ![r] = <<>>]
    /\ UNCHANGED <<exceptClients, posted, ready, queued, closed, recv_waker, request, script, values, floor, answer>>

\* wake_receiver takes the waker
TakeReceiver(a) ==
    /\ actor[a].at = "sent"
    /\ LET s == actor[a].shard IN
       /\ recv_waker' = [recv_waker EXCEPT ![s] = FALSE]
       /\ Goes(a, IF recv_waker[s] THEN "marking" ELSE "unparking")
    /\ UNCHANGED <<exceptClients, posted, ready, queued, channel, closed, request, reply, script, values, floor, answer>>

\* TaskWaker::wake: mark_ready queues the task
MarkReady(a) ==
    /\ actor[a].at = "marking"
    /\ Enqueue(actor[a].shard, "loop")
    /\ Goes(a, "waking")
    /\ UNCHANGED <<exceptClients, posted, channelVars, request, reply, script, values, floor, answer>>

\* fault: the parker's queue is woken in place of the reactor's.
WakeReactorElsewhere(a) ==
    /\ actor[a].at = "waking"
    /\ CqWake(ParkQueue)
    /\ Goes(a, "unparking")
    /\ UNCHANGED <<exceptClients, ready, queued, channelVars, request, reply, script, values, floor, answer>>

\* and wakes the reactor.
WakeReactor(a) ==
    /\ actor[a].at = "waking"
    /\ CqWake(QueueOf(actor[a].shard))
    /\ Goes(a, "unparking")
    /\ UNCHANGED <<exceptClients, ready, queued, channelVars, request, reply, script, values, floor, answer>>

\* request unparks and goes to wait; drop turns to the next shard, and unparks after the last.
UnparkPeers(a) ==
    /\ actor[a].at = "unparking"
    /\ LET more == a = Owner /\ actor[a].shard + 1 < shard_count IN
       /\ IF more THEN UNCHANGED posted ELSE CqWake(ParkQueue)
       /\ actor' = [actor EXCEPT ![a] =
                      CASE more -> [at |-> "serving", shard |-> @.shard + 1]
                        [] a = Owner /\ ~more -> [@ EXCEPT !.at = "dropped"]
                        [] OTHER -> [@ EXCEPT !.at = "awaiting"]]
    /\ UNCHANGED <<exceptClients, ready, queued, channelVars, request, reply, script, values, floor, answer>>

\* KvReply::recv finds the reply: the call returns, or total_len adds it up and goes on,
TakeReply(r) ==
    /\ actor[r].at = "awaiting"
    /\ reply[r] # <<>>
    /\ reply' = [reply EXCEPT ![r] = Tail(@)]
    /\ LET q == request[r]
           sum == IF q.op = "len" THEN q.sum + Head(reply[r]) ELSE 0
       IN  IF Len(q.left) > 1
             THEN /\ request' = [request EXCEPT ![r].left = Tail(@), ![r].sum = sum]
                  /\ Goes(r, "sending")
                  /\ UNCHANGED answer
             ELSE /\ request' = [request EXCEPT ![r] = NoRequest]
                  /\ Goes(r, "idle")
                  /\ answer' = [answer EXCEPT ![r] = [op |-> q.op, key |-> q.key, sum |-> sum,
                                                      value |-> Head(reply[r])]]
    /\ UNCHANGED <<exceptClients, posted, ready, queued, channelVars, script, values, floor>>

\* or parks
Park(r) ==
    /\ actor[r].at = "awaiting"
    /\ reply[r] = <<>>
    /\ Goes(r, "parked")
    /\ UNCHANGED <<exceptClients, posted, ready, queued, channelVars, request, reply, script, values, floor, answer>>

\* until it is unparked,
Unparked(r) ==
    /\ actor[r].at = "parked"
    /\ posted[ParkQueue]
    /\ CqWakeTaken(ParkQueue)
    /\ Goes(r, "awaiting")
    /\ UNCHANGED <<exceptClients, ready, queued, channelVars, request, reply, script, values, floor, answer>>

\* or PARK_TIMEOUT has passed.
ParkElapses(r) ==
    /\ actor[r].at = "parked"
    /\ Goes(r, "awaiting")
    /\ UNCHANGED <<exceptClients, posted, ready, queued, channelVars, request, reply, script, values, floor, answer>>

-----------------------------------------------------------------------------
(* The shard *)

Polling(s, t) == s \in ShardIds /\ at[s] = "poll" /\ task[s] = t

\* fault: a put leaves a value that is there.
StoredKeepsFirst(s, k, v) == [map EXCEPT ![s][k] = IF @ = NoValue THEN v ELSE @]

\* BTreeMap::insert
Stored(s, k, v) == [map EXCEPT ![s][k] = v]

\* kv_shard_task receives an envelope, does what it says and pushes the reply
Serve(s) ==
    /\ Polling(s, "loop")
    /\ channel[s] # <<>>
    /\ LET r == Head(channel[s])
           q == request[r]
           keys == {k \in Keys : map[s][k] # NoValue}
       IN  /\ map' = IF q.op = "put" THEN Stored(s, q.key, q.value) ELSE map
           /\ served' = IF q.op = "put" THEN [served EXCEPT ![q.key] = Append(@, q.value)] ELSE served
           /\ reply' = [reply EXCEPT ![r] = Append(@, CASE q.op = "put" -> NoValue
                                                        [] q.op = "get" -> map[s][q.key]
                                                        [] q.op = "len" -> Cardinality(keys))]
    /\ channel' = [channel EXCEPT ![s] = Tail(@)]
    /\ at' = [at EXCEPT ![s] = "unpark"]
    /\ UNCHANGED <<layout, queueVars, threadVars, ready, queued, live, task, polled, readable, interests,
                   closed, recv_waker, completion, actor, request, script, values, floor, answer>>

\* and unparks the requester.
UnparkRequester(s) ==
    /\ s \in ShardIds
    /\ at[s] = "unpark"
    /\ CqWake(ParkQueue)
    /\ at' = [at EXCEPT ![s] = "poll"]
    /\ UNCHANGED <<layout, ring, threadVars, ready, queued, live, task, polled, readable, interests,
                   channelVars, map, completion, clientVars, served>>

\* fault: the loop is Pending and has left no waker.
LoopPendingUnheard(s) ==
    /\ Polling(s, "loop")
    /\ channel[s] = <<>>
    /\ ~closed[s]
    /\ EndPoll(s, FALSE)
    /\ UNCHANGED <<layout, queueVars, threadVars, ready, queued, interests, channelVars,
                   map, completion, clientVars, served>>

\* Nothing to receive: the waker is left and the poll is Pending.
LoopPending(s) ==
    /\ Polling(s, "loop")
    /\ channel[s] = <<>>
    /\ ~closed[s]
    /\ recv_waker' = [recv_waker EXCEPT ![s] = TRUE]
    /\ EndPoll(s, FALSE)
    /\ UNCHANGED <<layout, queueVars, threadVars, ready, queued, interests, channel, closed,
                   map, completion, clientVars, served>>

\* Closed and drained: the loop ends.  A task that has ended is not polled again.
LoopDone(s) ==
    /\ Polling(s, "loop")
    /\ channel[s] = <<>>
    /\ closed[s]
    /\ EndPoll(s, TRUE)
    /\ UNCHANGED <<layout, queueVars, threadVars, ready, queued, interests, channelVars,
                   map, completion, clientVars, served>>

\* The other task registers for its handle, submits, and is Pending,
AwaitCompletion(s) ==
    /\ Polling(s, "io")
    /\ completion[s] = "new"
    /\ interests' = [interests EXCEPT ![s] = @ \cup {<<s, "io">>}]
    /\ completion' = [completion EXCEPT ![s] = "submitted"]
    /\ EndPoll(s, FALSE)
    /\ UNCHANGED <<layout, queueVars, threadVars, ready, queued, channelVars, map, clientVars, served>>

\* the kernel completes the operation into the queue of its shard,
KernelCompletes(s) ==
    /\ s \in ShardIds
    /\ completion[s] = "submitted"
    /\ completion' = [completion EXCEPT ![s] = "posted"]
    /\ ring' = [ring EXCEPT ![QueueOf(s)] = Append(@, s)]
    /\ UNCHANGED <<layout, posted, threadVars, executorVars, channelVars, map, clientVars, served>>

\* and the task, polled again, is done.
CompletionSeen(s) ==
    /\ Polling(s, "io")
    /\ completion[s] = "posted"
    /\ completion' = [completion EXCEPT ![s] = "done"]
    /\ EndPoll(s, TRUE)
    /\ UNCHANGED <<layout, queueVars, threadVars, ready, queued, interests, channelVars, map, clientVars, served>>

\* run_kv_shard returns; its thread stores the result and exits.
ShardReturns(t) ==
    /\ thread[t] = "running"
    /\ at[runs[t]] = "done"
    /\ StoreResult(t)
    /\ UNCHANGED <<executorVars, channelVars, map, completion, clientVars, served>>

KeepService == UNCHANGED <<channelVars, map, completion, clientVars, served>>

ShardStep(s) ==
    \/ LoopStep(s) /\ KeepService
    \/ Serve(s)
    \/ UnparkRequester(s)
    \/ LoopPending(s)
    \/ LoopDone(s)
    \/ AwaitCompletion(s)
    \/ CompletionSeen(s)

ThreadStep(t) ==
    /\ t \in ShardIds
    /\ \/ EnterClosure(t) /\ UNCHANGED <<executorVars, channelVars, map, completion, clientVars, served>>
       \/ ShardReturns(t)
       \/ ThreadExit(t) /\ UNCHANGED <<executorVars, channelVars, map, completion, clientVars, served>>

\* What a call does once it has begun
ActorStep(a) ==
    \/ a = Owner /\ \E s \in ShardIds : StartShard(s)
    \/ TakeReceiver(a)
    \/ MarkReady(a)
    \/ WakeReactor(a)
    \/ UnparkPeers(a)
    \/ a # Owner /\ (RequestRefused(a) \/ SendRequest(a) \/ TakeReply(a) \/ Park(a) \/ Unparked(a))
    \/ a = Owner /\ actor[a].shard > 0 /\ CloseShardChannel

NodeNext ==
    \/ \E s \in ShardIds :
         \/ ShardStep(s)
         \/ IdleWaitElapses(s) /\ KeepService
         \/ KernelCompletes(s)
         \/ ThreadStep(s)
         \/ actor[Owner].at = "dropped" /\ Join(s)
              /\ UNCHANGED <<executorVars, channelVars, map, completion, clientVars, served>>
    \/ \E a \in Requesters \cup {Owner} : ActorStep(a)
    \/ \E r \in Requesters :
         \/ ParkElapses(r)
         \/ Call(r)
    \/ CloseShardChannel

\* Any number of shards and rings, before or after the start, and any calls.
NodeSpec ==
    /\ shard_count \in 1 .. MaxShards /\ rings \in 0 .. shard_count
    /\ \E running, io \in BOOLEAN, calls \in [Requesters -> Seq({"put", "get", "len"} \X Keys)] :
         NodeInit(running, io, calls)
    /\ [][NodeNext]_nodeVars

-----------------------------------------------------------------------------
(* Properties *)

\* Whoever is on the way to wake the reactor of shard s
WakeComing(s) ==
    \/ posted[QueueOf(s)]
    \/ \E a \in Requesters \cup {Owner} : actor[a].at \in {"sent", "marking", "waking"} /\ actor[a].shard = s

\* There is something for the shard to do: a ready task, or an envelope or the closing for a
\* loop that has left its waker.
WorkWaits(s) == ready[s] # <<>> \/ (recv_waker[s] /\ (channel[s] # <<>> \/ closed[s]))

\* A shard with a ring of its own never sleeps through work, even if its wait had no deadline:
\* "parks are a latency optimisation, not a correctness dependency" (mark_ready, run,
\* CharlotteReactor::wait).
NodeNotAsleep ==
    \A s \in ShardIds : s < rings /\ at[s] \in {"wait", "blocked"} /\ WorkWaits(s) => WakeComing(s)

\* A get returns a value put no earlier than the last put that had been served when it was
\* called, and total_len counts at least the keys that were there.
SeesServedPuts ==
    \A r \in Requesters :
      /\ answer[r].op = "get" =>
           \/ floor[r].puts = 0 /\ answer[r].value = NoValue
           \/ \E i \in DOMAIN served[answer[r].key] :
                i \geq floor[r].puts /\ served[answer[r].key][i] = answer[r].value
      /\ answer[r].op = "len" => answer[r].sum \in floor[r].keys .. Cardinality(Keys)

\* Every request returns, also where shards and requesters share one queue and take each
\* other's wakes: the deadlines of the waits make up for them (KvReply::recv, run_kv_shard).
RequestsReturn == \A r \in Requesters : actor[r].at # "idle" ~> actor[r].at = "idle"

=============================================================================
