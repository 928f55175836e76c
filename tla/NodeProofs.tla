----------------------------- MODULE NodeProofs ----------------------------
(***************************************************************************)
(* The no_std runtime, for any number of shards, requesters and calls: a   *)
(* join handle gives its own shard's value, and a shard with a ring of its *)
(* own does not sleep through work.  And UDP sockets, for any number of    *)
(* threads, descriptors and datagrams: open descriptors belong to live     *)
(* sockets, and the sender that recv_from reports can be answered.         *)
(***************************************************************************)
EXTENDS NodeKv, UdpSocket, TLAPS

\* A leaf is first-order reasoning, Zenon's, unless it cites another prover.
USE Zenon

-----------------------------------------------------------------------------
(* The node: inductive invariants *)

\* A thread runs the closure of its own shard and leaves its result before it is gone.
JoinInv ==
    /\ DOMAIN thread = ShardIds /\ DOMAIN runs = ShardIds /\ DOMAIN result = ShardIds
    /\ DOMAIN handle = ShardIds
    /\ entries \in Seq({<<s, s>> : s \in ShardIds})
    /\ \A s \in ShardIds :
         /\ thread[s] \in {"running", "returned", "exited"} => runs[s] = s
         /\ thread[s] \in {"returned", "exited"} => result[s]
         /\ handle[s] = "invalid" => thread[s] = "exited"
         /\ handle[s] # "error"

Actors == Requesters \cup {Owner}

LayoutInv == shard_count \in Nat \ {0} /\ rings \in Nat

ShardDomains ==
    /\ DOMAIN posted = Queue /\ DOMAIN channel = ShardIds /\ DOMAIN closed = ShardIds
    /\ DOMAIN recv_waker = ShardIds /\ DOMAIN ready = ShardIds /\ DOMAIN at = ShardIds

\* An actor is about one shard at a time.
ActorInv ==
    /\ DOMAIN actor = Actors
    /\ \A a \in Actors : actor[a] = [at |-> actor[a].at, shard |-> actor[a].shard] /\ actor[a].shard \in ShardIds

Calls == {"put", "get", "len"} \X Keys

IsRequest(q) == q = [op |-> q.op, key |-> q.key, value |-> q.value, left |-> q.left, sum |-> q.sum]

\* A requester that is sending has a shard to send to.
RequestInv ==
    /\ DOMAIN request = Requesters /\ script \in [Requesters -> Seq(Calls)]
    /\ \A r \in Requesters : /\ IsRequest(request[r]) /\ request[r].left \in Seq(ShardIds)
                             /\ actor[r].at = "sending" => request[r].left # <<>>

\* An actor is at p on behalf of shard s.
ActorAt(p, s) == \E a \in Actors : actor[a].at = p /\ actor[a].shard = s

\* Shard s has something to receive and has left its waker; it is waiting.
Unheard(s) == recv_waker[s] /\ (channel[s] # <<>> \/ closed[s])
Waiting(s) == s < rings /\ at[s] \in {"wait", "blocked"}

\* A loop that has left its waker and has something to receive is about to be marked ready, and
\* whoever marks a task ready wakes the reactor.
WakeInv ==
    \A s \in ShardIds : /\ Unheard(s) => ActorAt("sent", s)
                        /\ Waiting(s) /\ ready[s] # <<>> => posted[QueueOf(s)] \/ ActorAt("waking", s)

NodeInv == LayoutInv /\ ShardDomains /\ ActorInv /\ RequestInv /\ WakeInv

-----------------------------------------------------------------------------
(* Shard threads *)

\* What a step of the node does to the shard threads
ThreadMoves(s) ==
    \/ SysSpawn(s)
    \/ StageEntry(s)
    \/ ObserveExit(s)
    \/ EnterClosure(s)
    \/ StoreResult(s)
    \/ ThreadExit(s)
    \/ Join(s)

LEMMA ActorStepThreads ==
    ASSUME NEW a \in Actors, ActorStep(a)
    PROVE  /\ layout' = layout
           /\ threadVars' = threadVars \/ \E s \in ShardIds : ThreadMoves(s)
<1>1. CASE \E s \in ShardIds : StartShard(s)
  <2>1. PICK s \in ShardIds : StartShard(s)
    BY <1>1
  <2>2. SysSpawn(s) \/ StageEntry(s) \/ ObserveExit(s)
    BY <2>1 DEF StartShard
  <2>3. layout' = layout
    BY <2>2 DEF SysSpawn, StageEntry, ObserveExit
  <2>4. QED
    BY <2>2, <2>3 DEF ThreadMoves
<1>2. CASE UNCHANGED exceptClients
  BY <1>2 DEF exceptClients
<1>3. (\E s \in ShardIds : StartShard(s)) \/ UNCHANGED exceptClients
  <2>1. CASE TakeReceiver(a) \/ MarkReady(a) \/ WakeReactor(a) \/ UnparkPeers(a)
    BY <2>1 DEF TakeReceiver, MarkReady, WakeReactor, UnparkPeers
  <2>2. CASE RequestRefused(a) \/ SendRequest(a)
    BY <2>2 DEF RequestRefused, SendRequest
  <2>3. CASE TakeReply(a) \/ Park(a) \/ Unparked(a)
    BY <2>3 DEF TakeReply, Park, Unparked
  <2>4. CASE CloseShardChannel
    BY <2>4 DEF CloseShardChannel
  <2>5. QED
    BY <2>1, <2>2, <2>3, <2>4 DEF ActorStep
<1>4. QED
  BY <1>1, <1>2, <1>3

LEMMA ShardStepThreads ==
    ASSUME NEW s \in ShardIds, ShardStep(s) \/ IdleWaitElapses(s) \/ KernelCompletes(s)
    PROVE  layout' = layout /\ threadVars' = threadVars
<1>1. CASE LoopStep(s) \/ IdleWaitElapses(s)
  BY <1>1 DEF LoopStep, IdleWaitElapses, TakeReady, StopPolling, DrainRing, Block, Unblock,
              WaitReturns, DeliverReadable
<1>2. CASE Serve(s) \/ UnparkRequester(s)
  BY <1>2 DEF Serve, UnparkRequester
<1>3. CASE LoopPending(s) \/ LoopDone(s)
  BY <1>3 DEF LoopPending, LoopDone
<1>4. CASE AwaitCompletion(s) \/ CompletionSeen(s) \/ KernelCompletes(s)
  BY <1>4 DEF AwaitCompletion, CompletionSeen, KernelCompletes
<1>5. QED
  BY <1>1, <1>2, <1>3, <1>4 DEF ShardStep

LEMMA NodeThreads ==
    ASSUME [NodeNext]_nodeVars
    PROVE  /\ layout' = layout
           /\ threadVars' = threadVars \/ \E s \in ShardIds : ThreadMoves(s)
<1>1. ASSUME NEW s \in ShardIds, ThreadStep(s) \/ Join(s)
      PROVE  layout' = layout /\ ThreadMoves(s)
  <2>1. EnterClosure(s) \/ StoreResult(s) \/ ThreadExit(s) \/ Join(s)
    BY <1>1 DEF ThreadStep, ShardReturns
  <2>2. QED
    BY <2>1 DEF ThreadMoves, EnterClosure, StoreResult, ThreadExit, Join
<1>2. ASSUME NEW s \in ShardIds, ShardStep(s) \/ IdleWaitElapses(s) \/ KernelCompletes(s)
      PROVE  layout' = layout /\ threadVars' = threadVars
  BY <1>2, ShardStepThreads
<1>3. ASSUME NEW r \in Requesters, ParkElapses(r) \/ Call(r)
      PROVE  layout' = layout /\ threadVars' = threadVars
  BY <1>3 DEF ParkElapses, Call, exceptClients
<1>4. CASE CloseShardChannel
  BY <1>4 DEF CloseShardChannel, exceptClients
<1>5. CASE UNCHANGED nodeVars
  BY <1>5 DEF nodeVars
<1>6. ASSUME NEW a \in Actors, ActorStep(a)
      PROVE  layout' = layout /\ (threadVars' = threadVars \/ \E s \in ShardIds : ThreadMoves(s))
  BY <1>6, ActorStepThreads
<1>7. QED
  BY <1>1, <1>2, <1>3, <1>4, <1>5, <1>6 DEF NodeNext, Actors

\* Taking an element out of a sequence leaves elements of it.
LEMMA Removed ==
    ASSUME NEW S, NEW q \in Seq(S), NEW i \in DOMAIN q
    PROVE  SubSeq(q, 1, i - 1) \o SubSeq(q, i + 1, Len(q)) \in Seq(S)
<1>1. i \in 1 .. Len(q) /\ Len(q) \in Nat
  BY SMT
<1>2. SubSeq(q, 1, i - 1) \in Seq(S)
  BY <1>1, SMT
<1>3. SubSeq(q, i + 1, Len(q)) \in Seq(S)
  BY <1>1, SMT
<1>4. QED
  BY <1>2, <1>3, SMT

LEMMA ThreadMovesKeep ==
    ASSUME JoinInv, layout' = layout, NEW s \in ShardIds, ThreadMoves(s)
    PROVE  JoinInv'
<1> DEFINE Entries == {<<x, x>> : x \in ShardIds}
<1>0. /\ ShardIds' = ShardIds /\ entries \in Seq(Entries)
      /\ DOMAIN thread = ShardIds /\ DOMAIN runs = ShardIds /\ DOMAIN result = ShardIds /\ DOMAIN handle = ShardIds
      /\ \A x \in ShardIds : /\ thread[x] \in {"running", "returned", "exited"} => runs[x] = x
                             /\ thread[x] \in {"returned", "exited"} => result[x]
                             /\ handle[x] = "invalid" => thread[x] = "exited"
                             /\ handle[x] # "error"
  BY DEF JoinInv, ShardIds, layout
<1> SUFFICES /\ DOMAIN thread' = ShardIds /\ DOMAIN runs' = ShardIds /\ DOMAIN result' = ShardIds
             /\ DOMAIN handle' = ShardIds /\ entries' \in Seq(Entries)
             /\ \A x \in ShardIds : /\ thread'[x] \in {"running", "returned", "exited"} => runs'[x] = x
                                    /\ thread'[x] \in {"returned", "exited"} => result'[x]
                                    /\ handle'[x] = "invalid" => thread'[x] = "exited"
                                    /\ handle'[x] # "error"
  BY <1>0 DEF JoinInv
<1> HIDE DEF Entries
<1>1. CASE SysSpawn(s)
  <2>1. /\ thread[s] = "none" /\ thread' = [thread EXCEPT ![s] = "started"]
        /\ entries' = entries /\ runs' = runs /\ result' = result /\ handle' = handle
    BY <1>1 DEF SysSpawn
  <2>2. QED
    BY <1>0, <2>1
<1>2. CASE StageEntry(s)
  <2>1. /\ handle[s] = "none" /\ handle' = [handle EXCEPT ![s] = "staged"] /\ entries' = Append(entries, <<s, s>>)
        /\ thread' = thread /\ runs' = runs /\ result' = result
    BY <1>2 DEF StageEntry
  <2>2. <<s, s>> \in Entries
    BY DEF Entries
  <2>3. entries' \in Seq(Entries)
    BY <1>0, <2>1, <2>2, SMT
  <2>4. QED
    BY <1>0, <2>1, <2>3
<1>3. CASE ObserveExit(s)
  <2>1. /\ handle' = [handle EXCEPT ![s] = IF thread[s] = "exited" THEN "invalid" ELSE "observed"]
        /\ thread' = thread /\ runs' = runs /\ result' = result /\ entries' = entries
    BY <1>3 DEF ObserveExit
  <2>2. QED
    BY <1>0, <2>1
<1>4. CASE EnterClosure(s)
  <2>1. PICK i \in OwnEntry(s) :
          /\ runs' = [runs EXCEPT ![s] = entries[i][2]]
          /\ entries' = SubSeq(entries, 1, i - 1) \o SubSeq(entries, i + 1, Len(entries))
    BY <1>4 DEF EnterClosure
  <2>2. i \in DOMAIN entries /\ entries[i][1] = s
    BY <2>1 DEF OwnEntry
  <2>3. entries[i] \in Entries
    BY <1>0, <2>2, SMT
  <2>4. entries[i][2] = s
    <3>1. PICK x \in ShardIds : entries[i] = <<x, x>>
      BY <2>3 DEF Entries
    <3>2. <<x, x>>[1] = x /\ <<x, x>>[2] = x
      OBVIOUS
    <3>3. QED
      BY <2>2, <3>1, <3>2
  <2>5. entries' \in Seq(Entries)
    BY <1>0, <2>1, <2>2, Removed
  <2>6. /\ thread[s] = "started" /\ thread' = [thread EXCEPT ![s] = "running"] /\ result' = result /\ handle' = handle
    BY <1>4 DEF EnterClosure
  <2>7. QED
    BY <1>0, <2>1, <2>4, <2>5, <2>6
<1>5. CASE StoreResult(s)
  <2>1. /\ thread[s] = "running" /\ thread' = [thread EXCEPT ![s] = "returned"]
        /\ result' = [result EXCEPT ![runs[s]] = TRUE]
        /\ entries' = entries /\ runs' = runs /\ handle' = handle
    BY <1>5 DEF StoreResult
  <2>2. runs[s] = s
    BY <1>0, <2>1
  <2>3. QED
    BY <1>0, <2>1, <2>2
<1>6. CASE ThreadExit(s)
  <2>1. /\ thread[s] = "returned" /\ thread' = [thread EXCEPT ![s] = "exited"]
        /\ entries' = entries /\ runs' = runs /\ result' = result /\ handle' = handle
    BY <1>6 DEF ThreadExit
  <2>2. QED
    BY <1>0, <2>1
<1>7. CASE Join(s)
  <2>1. /\ handle[s] \in {"observed", "invalid"} /\ (handle[s] = "observed" => thread[s] = "exited")
        /\ handle' = [handle EXCEPT ![s] = IF result[s] THEN "value" ELSE "error"]
        /\ entries' = entries /\ thread' = thread /\ runs' = runs /\ result' = result
    BY <1>7 DEF Join
  <2>2. result[s]
    BY <1>0, <2>1
  <2>3. QED
    BY <1>0, <2>1, <2>2
<1>8. QED
  BY <1>1, <1>2, <1>3, <1>4, <1>5, <1>6, <1>7 DEF ThreadMoves

(* For any number of shards: join returns the value of its own shard's closure, whichever    *)
(* thread the kernel runs first and also when the thread was gone before spawn_shard could    *)
(* observe its exit (spawn_shard, shard_entry_trampoline, join).                              *)
THEOREM AlwaysJoinsOwnShard == NodeSpec => []JoinsOwnShard
<1>1. (\E running, io \in BOOLEAN, calls \in [Requesters -> Seq({"put", "get", "len"} \X Keys)] :
         NodeInit(running, io, calls)) => JoinInv
  <2> SUFFICES ASSUME NEW running, NEW io, NEW calls, NodeInit(running, io, calls) PROVE JoinInv
    OBVIOUS
  <2>1. /\ entries = <<>> /\ thread = [s \in ShardIds |-> IF running THEN "running" ELSE "none"]
        /\ runs = [s \in ShardIds |-> IF running THEN s ELSE shard_count]
        /\ result = [s \in ShardIds |-> FALSE]
        /\ handle = [s \in ShardIds |-> IF running THEN "observed" ELSE "none"]
    BY DEF NodeInit, CharlotteInit
  <2>2. \A S : <<>> \in Seq(S)
    BY SMT
  <2>3. entries \in Seq({<<s, s>> : s \in ShardIds})
    BY <2>1, <2>2
  <2>4. QED
    BY <2>1, <2>3 DEF JoinInv
<1>2. JoinInv /\ [NodeNext]_nodeVars => JoinInv'
  <2> SUFFICES ASSUME JoinInv, [NodeNext]_nodeVars PROVE JoinInv'
    OBVIOUS
  <2>1. /\ layout' = layout
        /\ threadVars' = threadVars \/ \E s \in ShardIds : ThreadMoves(s)
    BY NodeThreads
  <2>2. CASE threadVars' = threadVars
    <3>1. /\ entries' = entries /\ thread' = thread /\ runs' = runs /\ result' = result
          /\ handle' = handle /\ ShardIds' = ShardIds
      BY <2>1, <2>2 DEF threadVars, layout, ShardIds
    <3>2. QED
      BY <3>1 DEF JoinInv
  <2>3. QED
    BY <2>1, <2>2, ThreadMovesKeep
<1>3. JoinInv => JoinsOwnShard
  BY DEF JoinInv, JoinsOwnShard
<1>4. QED
  BY <1>1, <1>2, <1>3, PTL DEF NodeSpec

-----------------------------------------------------------------------------
(* Wakes *)

LEMMA QueueFacts ==
    ASSUME LayoutInv, NEW s \in ShardIds
    PROVE  /\ 0 \in ShardIds /\ 0 \in Queue /\ QueueOf(s) \in Queue
           /\ s < rings => QueueOf(s) # 0
           /\ \A x \in ShardIds : s < rings /\ QueueOf(x) = QueueOf(s) => x = s
           /\ s + 1 # shard_count => s + 1 \in ShardIds
           /\ s + 1 < shard_count => s + 1 \in ShardIds
  BY SMT DEF LayoutInv, ShardIds, Queue, QueueOf

\* A step of shard s that leaves the actors alone
LEMMA ShardKeeps ==
    ASSUME NodeInv, layout' = layout, actor' = actor, request' = request, script' = script,
           closed' = closed, NEW s \in ShardIds, ShardDomains',
           \A x \in ShardIds \ {s} : /\ at'[x] = at[x] /\ ready'[x] = ready[x]
                                     /\ recv_waker'[x] = recv_waker[x] /\ channel'[x] = channel[x],
           recv_waker'[s] => recv_waker[s] \/ (channel'[s] = <<>> /\ ~closed[s]),
           channel'[s] # <<>> => channel[s] # <<>>,
           \/ at'[s] \notin {"wait", "blocked"}
           \/ ready'[s] = <<>>
           \/ at[s] \in {"wait", "blocked"} /\ ready'[s] = ready[s],
           \A q \in Queue : posted[q] => posted'[q] \/ (q = QueueOf(s) /\ at'[s] \notin {"wait", "blocked"})
    PROVE  NodeInv'
<1>1. /\ shard_count' = shard_count /\ rings' = rings /\ ShardIds' = ShardIds
      /\ \A x : QueueOf(x)' = QueueOf(x)
  BY DEF layout, ShardIds, QueueOf
<1>2. LayoutInv' /\ ActorInv' /\ RequestInv'
  BY <1>1 DEF NodeInv, LayoutInv, ActorInv, RequestInv
<1>3. ASSUME NEW x \in ShardIds, Unheard(x)' PROVE ActorAt("sent", x)'
  <2>1. Unheard(x)
    BY <1>3 DEF Unheard
  <2>2. QED
    BY <2>1 DEF NodeInv, WakeInv, ActorAt
<1>4. ASSUME NEW x \in ShardIds, Waiting(x)', ready'[x] # <<>>
      PROVE  posted'[QueueOf(x)] \/ ActorAt("waking", x)'
  <2>1. x < rings /\ at'[x] \in {"wait", "blocked"}
    BY <1>1, <1>4 DEF Waiting
  <2>2. at[x] \in {"wait", "blocked"} /\ ready[x] # <<>>
    BY <1>4, <2>1
  <2>3. posted[QueueOf(x)] \/ ActorAt("waking", x)
    BY <2>1, <2>2 DEF NodeInv, WakeInv, Waiting
  <2>4. QueueOf(x) \in Queue /\ (QueueOf(s) = QueueOf(x) => s = x)
    BY <2>1, QueueFacts DEF NodeInv
  <2>5. posted[QueueOf(x)] => posted'[QueueOf(x)]
    BY <2>1, <2>4
  <2>6. QED
    BY <2>3, <2>5 DEF ActorAt
<1>5. WakeInv'
  BY <1>1, <1>3, <1>4 DEF WakeInv
<1>6. QED
  BY <1>2, <1>5 DEF NodeInv

\* A step of actor a, from where it is to v
LEMMA ActorKeeps ==
    ASSUME NodeInv, layout' = layout, at' = at, NEW a \in Actors, NEW p, NEW n \in ShardIds,
           actor' = [actor EXCEPT ![a] = [at |-> p, shard |-> n]],
           ShardDomains', RequestInv',
           \A s \in ShardIds : Unheard(s)' => \/ p = "sent" /\ n = s
                                              \/ Unheard(s) /\ ~(actor[a].at = "sent" /\ actor[a].shard = s),
           \A s \in ShardIds : Waiting(s) /\ ready'[s] # <<>> =>
             \/ posted'[QueueOf(s)]
             \/ p = "waking" /\ n = s
             \/ ready[s] # <<>> /\ ~posted[QueueOf(s)] /\ ~(actor[a].at = "waking" /\ actor[a].shard = s)
    PROVE  NodeInv'
<1>1. /\ shard_count' = shard_count /\ rings' = rings /\ ShardIds' = ShardIds
      /\ \A x : QueueOf(x)' = QueueOf(x)
  BY DEF layout, ShardIds, QueueOf
<1>2. /\ DOMAIN actor' = Actors /\ actor'[a] = [at |-> p, shard |-> n]
      /\ \A b \in Actors \ {a} : actor'[b] = actor[b]
  BY DEF NodeInv, ActorInv
<1>3. actor'[a].at = p /\ actor'[a].shard = n
  BY <1>2
<1>4. ActorInv'
  BY <1>1, <1>2, <1>3 DEF NodeInv, ActorInv
<1>5. ASSUME NEW s \in ShardIds, Unheard(s)' PROVE ActorAt("sent", s)'
  <2>1. CASE p = "sent" /\ n = s
    BY <1>3, <2>1 DEF ActorAt
  <2>2. CASE Unheard(s) /\ ~(actor[a].at = "sent" /\ actor[a].shard = s)
    <3>1. ActorAt("sent", s)
      BY <2>2 DEF NodeInv, WakeInv
    <3>2. QED
      BY <1>2, <2>2, <3>1 DEF ActorAt
  <2>3. QED
    BY <1>5, <2>1, <2>2
<1>6. ASSUME NEW s \in ShardIds, Waiting(s)', ready'[s] # <<>>
      PROVE  posted'[QueueOf(s)] \/ ActorAt("waking", s)'
  <2>1. Waiting(s)
    BY <1>1, <1>6 DEF Waiting
  <2>2. CASE p = "waking" /\ n = s
    BY <1>3, <2>2 DEF ActorAt
  <2>3. CASE ready[s] # <<>> /\ ~posted[QueueOf(s)] /\ ~(actor[a].at = "waking" /\ actor[a].shard = s)
    <3>1. ActorAt("waking", s)
      BY <2>1, <2>3 DEF NodeInv, WakeInv
    <3>2. QED
      BY <1>2, <2>3, <3>1 DEF ActorAt
  <2>4. QED
    BY <1>6, <2>1, <2>2, <2>3
<1>7. WakeInv'
  BY <1>1, <1>5, <1>6 DEF WakeInv
<1>8. LayoutInv'
  BY <1>1 DEF NodeInv, LayoutInv
<1>9. QED
  BY <1>4, <1>7, <1>8 DEF NodeInv

\* The requests after a step that makes none
LEMMA RequestsKept ==
    ASSUME NodeInv, layout' = layout, request' = request, script' = script,
           NEW a \in Actors, NEW p, NEW n, p # "sending",
           actor' = [actor EXCEPT ![a] = [at |-> p, shard |-> n]]
    PROVE  RequestInv'
<1>1. ShardIds' = ShardIds
  BY DEF layout, ShardIds
<1>2. actor'[a].at = p /\ \A b \in Actors \ {a} : actor'[b] = actor[b]
  BY DEF NodeInv, ActorInv
<1>3. \A r \in Requesters : actor'[r].at = "sending" => actor[r].at = "sending"
  BY <1>2 DEF Actors
<1>4. QED
  BY <1>1, <1>3 DEF NodeInv, RequestInv

\* Goes moves an actor and leaves it with its shard.
LEMMA GoesTo ==
    ASSUME ActorInv, NEW a \in Actors, NEW p, Goes(a, p)
    PROVE  actor' = [actor EXCEPT ![a] = [at |-> p, shard |-> actor[a].shard]] /\ actor[a].shard \in ShardIds
<1>1. PICK v : v = actor[a]
  OBVIOUS
<1>2. v = [at |-> v.at, shard |-> v.shard]
  BY <1>1 DEF ActorInv
<1>3. [v EXCEPT !.at = p] = [at |-> p, shard |-> v.shard]
  BY ONLY <1>2, SMT
<1>4. actor' = [actor EXCEPT ![a] = [v EXCEPT !.at = p]]
  BY <1>1 DEF Goes
<1>5. QED
  BY <1>1, <1>3, <1>4 DEF ActorInv

LEMMA DomainsKept ==
    ASSUME NodeInv, layout' = layout,
           DOMAIN posted' = DOMAIN posted, DOMAIN channel' = DOMAIN channel, DOMAIN closed' = DOMAIN closed,
           DOMAIN recv_waker' = DOMAIN recv_waker, DOMAIN ready' = DOMAIN ready, DOMAIN at' = DOMAIN at
    PROVE  ShardDomains'
<1>1. ShardIds' = ShardIds /\ Queue' = Queue
  BY DEF layout, ShardIds, Queue
<1>2. QED
  BY <1>1 DEF NodeInv, ShardDomains

\* A step of the run loop, which knows nothing of the service
LEMMA LoopKeeps ==
    ASSUME NodeInv, layout' = layout, KeepService, NEW s \in ShardIds,
           DOMAIN at' = DOMAIN at, DOMAIN ready' = DOMAIN ready, DOMAIN posted' = DOMAIN posted,
           \A x \in ShardIds \ {s} : at'[x] = at[x] /\ ready'[x] = ready[x],
           \/ at'[s] \notin {"wait", "blocked"}
           \/ ready'[s] = <<>>
           \/ at[s] \in {"wait", "blocked"} /\ ready'[s] = ready[s],
           \A q \in Queue : posted[q] => posted'[q] \/ (q = QueueOf(s) /\ at'[s] \notin {"wait", "blocked"})
    PROVE  NodeInv'
<1>1. /\ channel' = channel /\ closed' = closed /\ recv_waker' = recv_waker
      /\ actor' = actor /\ request' = request /\ script' = script
  BY DEF KeepService, channelVars, clientVars
<1>2. ShardDomains'
  BY <1>1, DomainsKept
<1>3. QED
  BY <1>1, <1>2, ShardKeeps

LEMMA LoopStepKeeps ==
    ASSUME NodeInv, NEW s \in ShardIds, LoopStep(s) \/ IdleWaitElapses(s), KeepService
    PROVE  NodeInv'
<1>0. DOMAIN at = ShardIds /\ DOMAIN ready = ShardIds /\ DOMAIN posted = Queue /\ LayoutInv
  BY DEF NodeInv, ShardDomains
<1>1. CASE TakeReady(s)
  <2>1. /\ layout' = layout /\ posted' = posted /\ ready' = [ready EXCEPT ![s] = Tail(@)]
        /\ at' = [at EXCEPT ![s] = "poll"]
    BY <1>1 DEF TakeReady, queueVars
  <2>2. QED
    BY <1>0, <2>1, LoopKeeps
<1>2. CASE StopPolling(s)
  <2>1. /\ layout' = layout /\ posted' = posted /\ ready' = ready
        /\ at' = [at EXCEPT ![s] = IF live[s] = 0 THEN "done" ELSE IF ready[s] # <<>> THEN "run" ELSE "wait"]
    BY <1>2 DEF StopPolling, queueVars
  <2>2. DOMAIN at' = ShardIds /\ (at'[s] \notin {"wait", "blocked"} \/ ready'[s] = <<>>)
    BY <1>0, <2>1
  <2>3. QED
    BY <1>0, <2>1, <2>2, LoopKeeps
<1>3. CASE DrainRing(s)
  <2>1. layout' = layout /\ posted' = posted /\ ready' = ready /\ at' = [at EXCEPT ![s] = "deliver"]
    BY <1>3 DEF DrainRing
  <2>2. QED
    BY <1>0, <2>1, LoopKeeps
<1>4. CASE Block(s)
  <2>1. /\ layout' = layout /\ posted' = posted /\ ready' = ready
        /\ at[s] = "wait" /\ at' = [at EXCEPT ![s] = "blocked"]
    BY <1>4 DEF Block, queueVars
  <2>2. QED
    BY <1>0, <2>1, LoopKeeps
<1>5. CASE Unblock(s)
  <2>1. /\ layout' = layout /\ posted' = [posted EXCEPT ![QueueOf(s)] = FALSE] /\ ready' = ready
        /\ at' = [at EXCEPT ![s] = "woken"]
    BY <1>5 DEF Unblock, CqWakeTaken
  <2>2. \A q \in Queue : posted[q] => posted'[q] \/ q = QueueOf(s)
    BY <1>0, <2>1
  <2>3. QED
    BY <1>0, <2>1, <2>2, LoopKeeps
<1>6. CASE IdleWaitElapses(s)
  <2>1. /\ layout' = layout /\ posted' = posted /\ ready' = ready /\ at' = [at EXCEPT ![s] = "woken"]
    BY <1>6 DEF IdleWaitElapses, queueVars
  <2>2. QED
    BY <1>0, <2>1, LoopKeeps
<1>7. CASE WaitReturns(s)
  <2>1. /\ layout' = layout /\ posted' = posted /\ ready' = ready /\ at' = [at EXCEPT ![s] = "run"]
    BY <1>7 DEF WaitReturns, queueVars
  <2>2. QED
    BY <1>0, <2>1, LoopKeeps
<1>8. CASE DeliverReadable(s)
  <2>1. /\ layout' = layout /\ at' = [at EXCEPT ![s] = IF Len(readable[s]) = 1 THEN "run" ELSE "deliver"]
        /\ \/ ready' = ready /\ posted' = posted
           \/ \E t : Enqueue(s, t) /\ CqWake(QueueOf(s))
    BY <1>8 DEF DeliverReadable
  <2>2. /\ DOMAIN ready' = ShardIds /\ \A x \in ShardIds \ {s} : ready'[x] = ready[x]
        /\ DOMAIN posted' = Queue /\ \A q \in Queue : posted[q] => posted'[q]
    BY <1>0, <2>1 DEF Enqueue, CqWake
  <2>3. DOMAIN at' = ShardIds /\ at'[s] \in {"run", "deliver"} /\ \A x \in ShardIds \ {s} : at'[x] = at[x]
    BY <1>0, <2>1
  <2>4. at'[s] \notin {"wait", "blocked"}
    BY <2>3
  <2>5. QED
    BY <1>0, <2>1, <2>2, <2>3, <2>4, LoopKeeps
<1>9. QED
  BY <1>1, <1>2, <1>3, <1>4, <1>5, <1>6, <1>7, <1>8 DEF LoopStep

LEMMA ServiceStepKeeps ==
    ASSUME NodeInv, NEW s \in ShardIds,
           \/ Serve(s) \/ UnparkRequester(s) \/ LoopPending(s) \/ LoopDone(s)
           \/ AwaitCompletion(s) \/ CompletionSeen(s) \/ KernelCompletes(s)
    PROVE  NodeInv'
<1>0. /\ DOMAIN at = ShardIds /\ DOMAIN ready = ShardIds /\ DOMAIN posted = Queue /\ LayoutInv
      /\ DOMAIN channel = ShardIds /\ DOMAIN recv_waker = ShardIds
  BY DEF NodeInv, ShardDomains
<1>1. CASE Serve(s)
  <2>1. /\ layout' = layout /\ posted' = posted /\ ready' = ready /\ recv_waker' = recv_waker /\ closed' = closed
        /\ actor' = actor /\ request' = request /\ script' = script /\ channel[s] # <<>>
        /\ channel' = [channel EXCEPT ![s] = Tail(@)] /\ at' = [at EXCEPT ![s] = "unpark"]
    BY <1>1 DEF Serve, queueVars
  <2>2. ShardDomains'
    BY <1>0, <2>1, DomainsKept
  <2>3. QED
    BY <1>0, <2>1, <2>2, ShardKeeps
<1>2. CASE UnparkRequester(s)
  <2>1. /\ layout' = layout /\ posted' = [posted EXCEPT ![0] = TRUE] /\ ready' = ready
        /\ at' = [at EXCEPT ![s] = "poll"] /\ KeepService
    BY <1>2 DEF UnparkRequester, CqWake, ParkQueue, KeepService
  <2>2. DOMAIN posted' = Queue /\ \A q \in Queue : posted[q] => posted'[q]
    BY <1>0, <2>1
  <2>3. QED
    BY <1>0, <2>1, <2>2, LoopKeeps
<1>3. CASE LoopPending(s)
  <2>1. /\ layout' = layout /\ posted' = posted /\ ready' = ready /\ closed' = closed /\ channel' = channel
        /\ actor' = actor /\ request' = request /\ script' = script /\ channel[s] = <<>> /\ ~closed[s]
        /\ recv_waker' = [recv_waker EXCEPT ![s] = TRUE] /\ at' = [at EXCEPT ![s] = "run"]
    BY <1>3 DEF LoopPending, EndPoll, queueVars, clientVars
  <2>2. ShardDomains'
    BY <1>0, <2>1, DomainsKept
  <2>3. QED
    BY <1>0, <2>1, <2>2, ShardKeeps
<1>4. CASE LoopDone(s) \/ AwaitCompletion(s) \/ CompletionSeen(s)
  <2>1. /\ layout' = layout /\ posted' = posted /\ ready' = ready /\ at' = [at EXCEPT ![s] = "run"]
        /\ channel' = channel /\ closed' = closed /\ recv_waker' = recv_waker
        /\ actor' = actor /\ request' = request /\ script' = script
    BY <1>4 DEF LoopDone, AwaitCompletion, CompletionSeen, EndPoll, queueVars, clientVars, channelVars
  <2>2. ShardDomains'
    BY <1>0, <2>1, DomainsKept
  <2>3. QED
    BY <1>0, <2>1, <2>2, ShardKeeps
<1>5. CASE KernelCompletes(s)
  <2>1. /\ layout' = layout /\ posted' = posted /\ ready' = ready /\ at' = at
        /\ channel' = channel /\ closed' = closed /\ recv_waker' = recv_waker
        /\ actor' = actor /\ request' = request /\ script' = script
    BY <1>5 DEF KernelCompletes, executorVars, loopVars, clientVars, channelVars
  <2>2. ShardDomains'
    BY <1>0, <2>1, DomainsKept
  <2>3. QED
    BY <1>0, <2>1, <2>2, ShardKeeps
<1>6. QED
  BY <1>1, <1>2, <1>3, <1>4, <1>5

\* Actors that leave the shards and their queues alone
LEMMA QuietActorKeeps ==
    ASSUME NodeInv, layout' = layout, at' = at, ready' = ready, channel' = channel, closed' = closed,
           recv_waker' = recv_waker, NEW a \in Actors, NEW p, NEW n \in ShardIds,
           actor' = [actor EXCEPT ![a] = [at |-> p, shard |-> n]],
           actor[a].at \notin {"sent", "waking"}, RequestInv', DOMAIN posted' = DOMAIN posted,
           \A q \in Queue : q # 0 /\ posted[q] => posted'[q]
    PROVE  NodeInv'
<1>1. ShardDomains'
  BY DomainsKept
<1>2. \A s \in ShardIds : Unheard(s)' => Unheard(s)
  BY DEF Unheard
<1>3. \A s \in ShardIds : Waiting(s) => QueueOf(s) \in Queue /\ QueueOf(s) # 0
  BY QueueFacts DEF NodeInv, Waiting
<1>4. QED
  BY <1>1, <1>2, <1>3, ActorKeeps

LEMMA StartKeeps ==
    ASSUME NodeInv, NEW s \in ShardIds, StartShard(s), Owner \notin Requesters
    PROVE  NodeInv'
<1>1. /\ layout' = layout /\ at' = at /\ ready' = ready /\ posted' = posted /\ channel' = channel
      /\ closed' = closed /\ recv_waker' = recv_waker /\ request' = request /\ script' = script
  BY DEF StartShard, SysSpawn, StageEntry, ObserveExit, queueVars, executorVars, loopVars, channelVars
<1>2. /\ Owner \in Actors /\ 0 \in ShardIds /\ (s + 1 # shard_count => s + 1 \in ShardIds)
      /\ actor[Owner].at = "start"
  <2>1. Owner \in Actors /\ LayoutInv
    BY DEF Actors, NodeInv
  <2>2. actor[Owner] = [at |-> "start", shard |-> s]
    BY DEF StartShard
  <2>3. actor[Owner].at = "start"
    <3>1. [at |-> "start", shard |-> s].at = "start"
      OBVIOUS
    <3>2. QED
      BY <2>2, <3>1
  <2>4. QED
    BY <2>1, <2>3, QueueFacts
<1>3. CASE actor' = actor
  <2>1. ShardDomains'
    BY <1>1, DomainsKept
  <2>2. QED
    BY <1>1, <1>3, <2>1, ShardKeeps
<1>4. CASE actor' = [actor EXCEPT ![Owner] = [at |-> "serving", shard |-> 0]]
  <2>1. RequestInv'
    BY <1>1, <1>2, <1>4, RequestsKept
  <2>2. QED
    BY <1>1, <1>2, <1>4, <2>1, QuietActorKeeps
<1>5. CASE s + 1 # shard_count /\ actor' = [actor EXCEPT ![Owner] = [at |-> "start", shard |-> s + 1]]
  <2>1. RequestInv'
    BY <1>1, <1>2, <1>5, RequestsKept
  <2>2. QED
    BY <1>1, <1>2, <1>5, <2>1, QuietActorKeeps
<1>6. QED
  BY <1>3, <1>4, <1>5 DEF StartShard

\* What an actor's step leaves alone
LEMMA ActorLeaves ==
    ASSUME UNCHANGED exceptClients
    PROVE  layout' = layout /\ at' = at
  BY DEF exceptClients, loopVars

LEMMA CloseKeeps ==
    ASSUME NodeInv, CloseShardChannel
    PROVE  NodeInv'
<1> DEFINE n == actor[Owner].shard
<1>1. /\ layout' = layout /\ at' = at /\ ready' = ready /\ posted' = posted /\ channel' = channel
      /\ recv_waker' = recv_waker /\ request' = request /\ script' = script
      /\ closed' = [closed EXCEPT ![n] = TRUE] /\ Goes(Owner, "sent") /\ actor[Owner].at = "serving"
  BY ActorLeaves DEF CloseShardChannel
<1>2. Owner \in Actors /\ ActorInv
  BY DEF Actors, NodeInv
<1>3. actor' = [actor EXCEPT ![Owner] = [at |-> "sent", shard |-> n]] /\ n \in ShardIds
  BY <1>1, <1>2, GoesTo
<1>4. PICK m \in ShardIds : m = n
  BY <1>3
<1>5. DOMAIN closed = ShardIds /\ DOMAIN closed' = ShardIds /\ \A s \in ShardIds \ {m} : closed'[s] = closed[s]
  BY <1>1, <1>4 DEF NodeInv, ShardDomains
<1>6. ShardDomains'
  BY <1>1, <1>5, DomainsKept
<1>7. RequestInv'
  BY <1>1, <1>2, <1>3, RequestsKept
<1>8. \A s \in ShardIds : Unheard(s)' => s = m \/ Unheard(s)
  BY <1>1, <1>5 DEF Unheard
<1>9. actor' = [actor EXCEPT ![Owner] = [at |-> "sent", shard |-> m]]
  BY <1>3, <1>4
<1> HIDE DEF n
<1>10. QED
  BY <1>1, <1>2, <1>6, <1>7, <1>8, <1>9, ActorKeeps

LEMMA TakeReceiverKeeps ==
    ASSUME NodeInv, NEW a \in Actors, TakeReceiver(a)
    PROVE  NodeInv'
<1>1. PICK n : n = actor[a].shard
  OBVIOUS
<1>2. PICK p : p = IF recv_waker[n] THEN "marking" ELSE "unparking"
  OBVIOUS
<1>3. /\ layout' = layout /\ at' = at /\ ready' = ready /\ posted' = posted /\ channel' = channel
      /\ closed' = closed /\ request' = request /\ script' = script /\ actor[a].at = "sent"
      /\ recv_waker' = [recv_waker EXCEPT ![n] = FALSE] /\ Goes(a, p)
  BY <1>1, <1>2, ActorLeaves DEF TakeReceiver
<1>4. ActorInv
  BY DEF NodeInv
<1>5. actor' = [actor EXCEPT ![a] = [at |-> p, shard |-> n]] /\ n \in ShardIds
  BY <1>1, <1>3, <1>4, GoesTo
<1>6. /\ DOMAIN recv_waker' = DOMAIN recv_waker /\ ~recv_waker'[n]
      /\ \A s \in ShardIds \ {n} : recv_waker'[s] = recv_waker[s]
  BY <1>3, <1>5 DEF NodeInv, ShardDomains
<1>7. ShardDomains'
  BY <1>3, <1>6, DomainsKept
<1>8. p # "sending"
  BY <1>2
<1>9. RequestInv'
  BY <1>3, <1>5, <1>8, RequestsKept
<1>10. \A s \in ShardIds : Unheard(s)' => Unheard(s) /\ s # n
  BY <1>3, <1>6 DEF Unheard
<1>11. QED
  BY <1>1, <1>3, <1>5, <1>7, <1>9, <1>10, ActorKeeps

LEMMA MarkReadyKeeps ==
    ASSUME NodeInv, NEW a \in Actors, MarkReady(a)
    PROVE  NodeInv'
<1>1. PICK n : n = actor[a].shard
  OBVIOUS
<1>2. /\ layout' = layout /\ at' = at /\ posted' = posted /\ channel' = channel /\ recv_waker' = recv_waker
      /\ closed' = closed /\ request' = request /\ script' = script /\ actor[a].at = "marking"
      /\ Enqueue(n, "loop") /\ Goes(a, "waking")
  BY <1>1, ActorLeaves DEF MarkReady, channelVars
<1>3. ActorInv
  BY DEF NodeInv
<1>4. actor' = [actor EXCEPT ![a] = [at |-> "waking", shard |-> n]] /\ n \in ShardIds
  BY <1>1, <1>2, <1>3, GoesTo
<1>5. DOMAIN ready' = DOMAIN ready /\ \A s \in ShardIds \ {n} : ready'[s] = ready[s]
  BY <1>2 DEF NodeInv, ShardDomains, Enqueue
<1>6. ShardDomains'
  BY <1>2, <1>5, DomainsKept
<1>7. RequestInv'
  BY <1>2, <1>4, RequestsKept
<1>8. \A s \in ShardIds : Unheard(s)' => Unheard(s) /\ actor[a].at # "sent"
  BY <1>2 DEF Unheard
<1>9. \A s \in ShardIds : Waiting(s) /\ ready'[s] # <<>> =>
         \/ posted'[QueueOf(s)]
         \/ n = s
         \/ ready[s] # <<>> /\ ~posted[QueueOf(s)] /\ ~(actor[a].at = "waking" /\ actor[a].shard = s)
  BY <1>2, <1>5
<1>10. QED
  BY <1>2, <1>4, <1>6, <1>7, <1>8, <1>9, ActorKeeps

LEMMA WakeReactorKeeps ==
    ASSUME NodeInv, NEW a \in Actors, WakeReactor(a)
    PROVE  NodeInv'
<1>1. PICK n : n = actor[a].shard
  OBVIOUS
<1>2. /\ layout' = layout /\ at' = at /\ ready' = ready /\ channel' = channel /\ recv_waker' = recv_waker
      /\ closed' = closed /\ request' = request /\ script' = script /\ actor[a].at = "waking"
      /\ posted' = [posted EXCEPT ![QueueOf(n)] = TRUE] /\ Goes(a, "unparking")
  BY <1>1, ActorLeaves DEF WakeReactor, channelVars, CqWake
<1>3. ActorInv /\ DOMAIN posted = Queue
  BY DEF NodeInv, ShardDomains
<1>4. actor' = [actor EXCEPT ![a] = [at |-> "unparking", shard |-> n]] /\ n \in ShardIds
  BY <1>1, <1>2, <1>3, GoesTo
<1>5. \A s \in ShardIds : QueueOf(s) \in Queue
  BY QueueFacts DEF NodeInv
<1>6. /\ DOMAIN posted' = Queue /\ posted'[QueueOf(n)]
      /\ \A s \in ShardIds : posted[QueueOf(s)] => posted'[QueueOf(s)]
  BY <1>2, <1>3, <1>4, <1>5
<1>7. ShardDomains'
  BY <1>2, <1>3, <1>6, DomainsKept
<1>8. RequestInv'
  BY <1>2, <1>4, RequestsKept
<1>9. \A s \in ShardIds : Unheard(s)' => Unheard(s)
  BY <1>2 DEF Unheard
<1>10. QED
  BY <1>1, <1>2, <1>4, <1>6, <1>7, <1>8, <1>9, ActorKeeps

LEMMA UnparkPeersKeeps ==
    ASSUME NodeInv, NEW a \in Actors, UnparkPeers(a)
    PROVE  NodeInv'
<1>1. PICK n : n = actor[a].shard
  OBVIOUS
<1>2. /\ layout' = layout /\ at' = at /\ ready' = ready /\ channel' = channel /\ recv_waker' = recv_waker
      /\ closed' = closed /\ request' = request /\ script' = script /\ actor[a].at = "unparking"
      /\ posted' = posted \/ posted' = [posted EXCEPT ![0] = TRUE]
  BY ActorLeaves DEF UnparkPeers, channelVars, CqWake, ParkQueue
<1>3. LayoutInv /\ DOMAIN posted = Queue /\ n \in ShardIds /\ actor[a] = [at |-> actor[a].at, shard |-> n]
  BY <1>1 DEF NodeInv, ShardDomains, ActorInv
<1>4. DOMAIN posted' = DOMAIN posted /\ \A q \in Queue : q # 0 /\ posted[q] => posted'[q]
  BY <1>2, <1>3
<1>5. \A p : [actor[a] EXCEPT !.at = p] = [at |-> p, shard |-> n]
  <2>1. PICK v : v = actor[a]
    OBVIOUS
  <2>2. v = [at |-> v.at, shard |-> n]
    BY <1>3, <2>1
  <2>3. \A p : [v EXCEPT !.at = p] = [at |-> p, shard |-> n]
    BY ONLY <2>2, SMT
  <2>4. QED
    BY <2>1, <2>3
<1>6. CASE a = Owner /\ n + 1 < shard_count
  <2>1. actor' = [actor EXCEPT ![a] = [at |-> "serving", shard |-> n + 1]]
    BY <1>1, <1>6 DEF UnparkPeers
  <2>2. n + 1 \in ShardIds
    BY <1>3, <1>6, QueueFacts
  <2>3. RequestInv'
    BY <1>2, <2>1, RequestsKept
  <2>4. QED
    BY <1>2, <1>4, <2>1, <2>2, <2>3, QuietActorKeeps
<1>7. CASE ~(a = Owner /\ n + 1 < shard_count)
  <2>1. PICK p \in {"dropped", "awaiting"} : actor' = [actor EXCEPT ![a] = [actor[a] EXCEPT !.at = p]]
    <3>1. CASE a = Owner
      <4>1. actor' = [actor EXCEPT ![a] = [actor[a] EXCEPT !.at = "dropped"]]
        BY <1>1, <1>7, <3>1 DEF UnparkPeers
      <4>2. QED
        BY <4>1
    <3>2. CASE a # Owner
      <4>1. actor' = [actor EXCEPT ![a] = [actor[a] EXCEPT !.at = "awaiting"]]
        BY <1>1, <1>7, <3>2 DEF UnparkPeers
      <4>2. QED
        BY <4>1
    <3>3. QED
      BY <3>1, <3>2
  <2>2. actor' = [actor EXCEPT ![a] = [at |-> p, shard |-> n]] /\ p # "sending"
    BY <1>5, <2>1
  <2>3. RequestInv'
    BY <1>2, <2>2, RequestsKept
  <2>4. QED
    BY <1>2, <1>3, <1>4, <2>2, <2>3, QuietActorKeeps
<1>8. QED
  BY <1>6, <1>7

LEMMA WaitForReplyKeeps ==
    ASSUME NodeInv, NEW r \in Requesters, Park(r) \/ Unparked(r) \/ ParkElapses(r) \/ RequestRefused(r)
    PROVE  NodeInv'
<1>1. /\ layout' = layout /\ at' = at /\ ready' = ready /\ channel' = channel /\ recv_waker' = recv_waker
      /\ closed' = closed /\ request' = request /\ script' = script
      /\ actor[r].at \notin {"sent", "waking"}
      /\ posted' = posted \/ posted' = [posted EXCEPT ![0] = FALSE]
  BY ActorLeaves DEF Park, Unparked, ParkElapses, RequestRefused, channelVars, CqWakeTaken, ParkQueue
<1>2. PICK p \in {"parked", "awaiting", "idle"} : Goes(r, p)
  BY DEF Park, Unparked, ParkElapses, RequestRefused
<1>3. r \in Actors /\ ActorInv /\ DOMAIN posted = Queue
  BY DEF Actors, NodeInv, ShardDomains
<1>4. actor' = [actor EXCEPT ![r] = [at |-> p, shard |-> actor[r].shard]] /\ actor[r].shard \in ShardIds
  BY <1>2, <1>3, GoesTo
<1>5. PICK n \in ShardIds : n = actor[r].shard
  BY <1>4
<1>6. p # "sending" /\ actor' = [actor EXCEPT ![r] = [at |-> p, shard |-> n]]
  BY <1>2, <1>4, <1>5
<1>7. RequestInv'
  BY <1>1, <1>3, <1>6, RequestsKept
<1>8. DOMAIN posted' = DOMAIN posted /\ \A q \in Queue : q # 0 /\ posted[q] => posted'[q]
  BY <1>1, <1>3
<1>9. QED
  BY <1>1, <1>3, <1>6, <1>7, <1>8, QuietActorKeeps

LEMMA SendRequestKeeps ==
    ASSUME NodeInv, NEW r \in Requesters, SendRequest(r)
    PROVE  NodeInv'
<1>1. PICK s : s = Head(request[r].left)
  OBVIOUS
<1>2. /\ layout' = layout /\ at' = at /\ ready' = ready /\ posted' = posted /\ recv_waker' = recv_waker
      /\ closed' = closed /\ request' = request /\ script' = script /\ actor[r].at = "sending"
      /\ channel' = [channel EXCEPT ![s] = Append(@, r)]
      /\ actor' = [actor EXCEPT ![r] = [at |-> "sent", shard |-> s]]
  BY <1>1, ActorLeaves DEF SendRequest
<1>3. s \in ShardIds
  <2>1. PICK l : l = request[r].left
    OBVIOUS
  <2>2. l \in Seq(ShardIds) /\ l # <<>>
    BY <1>2, <2>1 DEF NodeInv, RequestInv
  <2>3. Head(l) \in ShardIds
    BY <2>2, SMT
  <2>4. QED
    BY <1>1, <2>1, <2>3
<1>4. r \in Actors
  BY DEF Actors
<1>5. DOMAIN channel' = DOMAIN channel /\ \A x \in ShardIds \ {s} : channel'[x] = channel[x]
  BY <1>2 DEF NodeInv, ShardDomains
<1>6. ShardDomains'
  BY <1>2, <1>5, DomainsKept
<1>7. RequestInv'
  BY <1>2, <1>4, RequestsKept
<1>8. \A x \in ShardIds : Unheard(x)' => x = s \/ Unheard(x)
  BY <1>2, <1>5 DEF Unheard
<1>9. QED
  BY <1>2, <1>3, <1>4, <1>6, <1>7, <1>8, ActorKeeps

\* A request goes to shards there are.
LEMMA RouteTo ==
    ASSUME LayoutInv, NEW op, NEW k \in Keys, KeyHash \in [Keys -> Nat]
    PROVE  Route(op, k) \in Seq(ShardIds) /\ Route(op, k) # <<>>
<1>1. [i \in 1 .. shard_count |-> i - 1] \in Seq(ShardIds) /\ [i \in 1 .. shard_count |-> i - 1] # <<>>
  <2>1. PICK f : f = [i \in 1 .. shard_count |-> i - 1]
    OBVIOUS
  <2>2. f \in [1 .. shard_count -> ShardIds] /\ shard_count \in Nat
    BY <2>1, SMT DEF LayoutInv, ShardIds
  <2>3. f \in Seq(ShardIds)
    BY <2>2, SMT
  <2>4. 1 \in DOMAIN f
    BY <2>1, SMT DEF LayoutInv
  <2>5. f # <<>>
    BY <2>4, SMT
  <2>6. QED
    BY <2>1, <2>3, <2>5
<1>2. <<ShardFor(k)>> \in Seq(ShardIds) /\ <<ShardFor(k)>> # <<>>
  <2>1. PICK h \in Nat : h = KeyHash[k]
    OBVIOUS
  <2>2. h % shard_count \in ShardIds
    BY SMT DEF LayoutInv, ShardIds
  <2>3. PICK n \in ShardIds : n = ShardFor(k)
    BY <2>1, <2>2 DEF ShardFor
  <2>4. <<n>> \in Seq(ShardIds) /\ <<n>> # <<>>
    BY SMT
  <2>5. QED
    BY <2>3, <2>4
<1>3. QED
  BY <1>1, <1>2 DEF Route

\* Requester r has request q from now on.
LEMMA RequestMade ==
    ASSUME NodeInv, layout' = layout, NEW r \in Requesters, NEW q, IsRequest(q), q.left \in Seq(ShardIds),
           request' = [request EXCEPT ![r] = q], script' \in [Requesters -> Seq(Calls)], NEW p, NEW n,
           actor' = [actor EXCEPT ![r] = [at |-> p, shard |-> n]],
           p = "sending" => q.left # <<>>
    PROVE  RequestInv'
<1>1. ShardIds' = ShardIds
  BY DEF layout, ShardIds
<1>2. DOMAIN request' = Requesters /\ request'[r] = q /\ \A x \in Requesters \ {r} : request'[x] = request[x]
  BY DEF NodeInv, RequestInv
<1>3. actor'[r].at = p /\ \A x \in Requesters \ {r} : actor'[x] = actor[x]
  BY DEF NodeInv, ActorInv, Actors
<1>4. \A x \in Requesters : /\ IsRequest(request'[x]) /\ request'[x].left \in Seq(ShardIds)
                            /\ actor'[x].at = "sending" => request'[x].left # <<>>
  BY <1>2, <1>3 DEF NodeInv, RequestInv
<1>5. QED
  BY <1>1, <1>2, <1>4 DEF RequestInv, IsRequest

LEMMA CallKeeps ==
    ASSUME NodeInv, KeyHash \in [Keys -> Nat], NEW r \in Requesters, Call(r)
    PROVE  NodeInv'
<1>1. PICK c : c = Head(script[r])
  OBVIOUS
<1>2. PICK l : l = Route(c[1], c[2])
  OBVIOUS
<1>3. PICK q : q = [op |-> c[1], key |-> c[2], value |-> values + 1, left |-> l, sum |-> 0]
  OBVIOUS
<1>4. /\ layout' = layout /\ at' = at /\ ready' = ready /\ posted' = posted /\ recv_waker' = recv_waker
      /\ closed' = closed /\ channel' = channel /\ actor[r].at = "idle" /\ script[r] # <<>>
      /\ request' = [request EXCEPT ![r] = q] /\ script' = [script EXCEPT ![r] = Tail(@)] /\ Goes(r, "sending")
  BY <1>1, <1>2, <1>3, ActorLeaves DEF Call, channelVars
<1>5. script[r] \in Seq(Calls) /\ script \in [Requesters -> Seq(Calls)]
  BY DEF NodeInv, RequestInv
<1>6. c \in Calls /\ Tail(script[r]) \in Seq(Calls)
  <2>1. PICK t \in Seq(Calls) : t = script[r]
    BY <1>5
  <2>2. Head(t) \in Calls /\ Tail(t) \in Seq(Calls)
    BY <1>4, <2>1, SMT
  <2>3. QED
    BY <1>1, <2>1, <2>2
<1>7. c[2] \in Keys
  BY <1>6, SMT DEF Calls
<1>8. l \in Seq(ShardIds) /\ l # <<>>
  BY <1>2, <1>7, RouteTo DEF NodeInv
<1>9. IsRequest(q) /\ q.left = l
  BY <1>3, SMT DEF IsRequest
<1>10. r \in Actors /\ ActorInv
  BY DEF Actors, NodeInv
<1>11. /\ actor' = [actor EXCEPT ![r] = [at |-> "sending", shard |-> actor[r].shard]]
       /\ actor[r].shard \in ShardIds
  BY <1>4, <1>10, GoesTo
<1>12. PICK n \in ShardIds : n = actor[r].shard
  BY <1>11
<1>13. actor' = [actor EXCEPT ![r] = [at |-> "sending", shard |-> n]]
  BY <1>11, <1>12
<1>14. script' \in [Requesters -> Seq(Calls)]
  BY <1>4, <1>5, <1>6
<1>15. RequestInv'
  BY <1>4, <1>8, <1>9, <1>13, <1>14, RequestMade
<1>16. QED
  BY <1>4, <1>10, <1>13, <1>15, QuietActorKeeps

LEMMA RequestPut ==
    ASSUME NEW q, IsRequest(q), NEW l, NEW m
    PROVE  /\ IsRequest([q EXCEPT !.left = l]) /\ [q EXCEPT !.left = l].left = l
           /\ IsRequest([q EXCEPT !.sum = m]) /\ [q EXCEPT !.sum = m].left = q.left
<1>1. q = [op |-> q.op, key |-> q.key, value |-> q.value, left |-> q.left, sum |-> q.sum]
  BY DEF IsRequest
<1>2. /\ [q EXCEPT !.left = l] = [op |-> q.op, key |-> q.key, value |-> q.value, left |-> l, sum |-> q.sum]
      /\ [q EXCEPT !.sum = m] = [op |-> q.op, key |-> q.key, value |-> q.value, left |-> q.left, sum |-> m]
  BY ONLY <1>1, SMT
<1>3. PICK a, b, c, d : a = q.op /\ b = q.key /\ c = q.value /\ d = q.sum
  OBVIOUS
<1>4. \A x, y : /\ IsRequest([op |-> a, key |-> b, value |-> c, left |-> x, sum |-> y])
                /\ [op |-> a, key |-> b, value |-> c, left |-> x, sum |-> y].left = x
  BY ONLY SMT DEF IsRequest
<1>5. QED
  BY ONLY <1>2, <1>3, <1>4

\* What is left of a visit with more than one shard to go is not empty.
LEMMA LongTail ==
    ASSUME NEW S, NEW s \in Seq(S), Len(s) > 1
    PROVE  Tail(s) \in Seq(S) /\ Tail(s) # <<>>
<1>1. Tail(s) \in Seq(S) /\ Len(Tail(s)) = Len(s) - 1
  BY SMT
<1>2. Len(Tail(s)) # 0 /\ Len(<<>>) = 0
  BY <1>1, SMT
<1>3. QED
  BY <1>1, <1>2

LEMMA TakeReplyKeeps ==
    ASSUME NodeInv, NEW r \in Requesters, TakeReply(r)
    PROVE  NodeInv'
<1>1. /\ layout' = layout /\ at' = at /\ ready' = ready /\ posted' = posted /\ recv_waker' = recv_waker
      /\ closed' = closed /\ channel' = channel /\ actor[r].at = "awaiting" /\ script' = script
  BY ActorLeaves DEF TakeReply, channelVars
<1>2. r \in Actors /\ ActorInv /\ script' \in [Requesters -> Seq(Calls)] /\ DOMAIN request = Requesters
  BY <1>1 DEF Actors, NodeInv, RequestInv
<1>3. PICK n : n = actor[r].shard
  OBVIOUS
<1>4. PICK l : l = request[r].left
  OBVIOUS
<1>5. l \in Seq(ShardIds) /\ IsRequest(request[r])
  BY <1>4 DEF NodeInv, RequestInv
<1>6. CASE Len(l) > 1
  <2>1. PICK sum : request' = [request EXCEPT ![r].left = Tail(@), ![r].sum = sum]
    BY <1>4, <1>6 DEF TakeReply
  <2>2. Goes(r, "sending")
    BY <1>4, <1>6 DEF TakeReply
  <2>3. Tail(l) \in Seq(ShardIds) /\ Tail(l) # <<>>
    BY <1>5, <1>6, LongTail
  <2>4. PICK c : c = [request[r] EXCEPT !.left = Tail(l)]
    OBVIOUS
  <2>5. PICK q : q = [c EXCEPT !.sum = sum]
    OBVIOUS
  <2>6. IsRequest(q) /\ q.left = Tail(l)
    <3>1. IsRequest(c) /\ c.left = Tail(l)
      BY <1>5, <2>4, RequestPut
    <3>2. IsRequest(q) /\ q.left = c.left
      BY <2>5, <3>1, RequestPut
    <3>3. QED
      BY <3>1, <3>2
  <2>7. request' = [request EXCEPT ![r] = q]
    <3>1. PICK m : m = [request EXCEPT ![r].left = Tail(@)]
      OBVIOUS
    <3>2. request' = [m EXCEPT ![r].sum = sum]
      BY <2>1, <3>1
    <3>3. m = [request EXCEPT ![r] = c]
      BY <1>4, <2>4, <3>1
    <3>4. m[r] = c
      BY <1>2, <3>3
    <3>5. request' = [m EXCEPT ![r] = q]
      BY <2>5, <3>2, <3>4
    <3>6. QED
      BY <1>2, <3>3, <3>5
  <2>8. actor' = [actor EXCEPT ![r] = [at |-> "sending", shard |-> n]] /\ n \in ShardIds
    BY <1>2, <1>3, <2>2, GoesTo
  <2>9. RequestInv'
    BY <1>1, <1>2, <2>3, <2>6, <2>7, <2>8, RequestMade
  <2>10. QED
    BY <1>1, <1>2, <2>8, <2>9, QuietActorKeeps
<1>7. CASE ~(Len(l) > 1)
  <2>1. request' = [request EXCEPT ![r] = NoRequest] /\ Goes(r, "idle")
    BY <1>4, <1>7 DEF TakeReply
  <2>2. IsRequest(NoRequest) /\ NoRequest.left = <<>>
    BY SMT DEF NoRequest, IsRequest
  <2>3. NoRequest.left \in Seq(ShardIds)
    BY <2>2, SMT
  <2>4. actor' = [actor EXCEPT ![r] = [at |-> "idle", shard |-> n]] /\ n \in ShardIds
    BY <1>2, <1>3, <2>1, GoesTo
  <2>5. PICK q : q = NoRequest
    OBVIOUS
  <2>6. IsRequest(q) /\ q.left \in Seq(ShardIds) /\ request' = [request EXCEPT ![r] = q]
    BY <2>1, <2>2, <2>3, <2>5
  <2>7. RequestInv'
    <3>1. PICK p : p = "idle"
      OBVIOUS
    <3>2. p # "sending" /\ actor' = [actor EXCEPT ![r] = [at |-> p, shard |-> n]]
      BY <2>4, <3>1
    <3>3. QED
      BY <1>1, <1>2, <2>6, <3>2, RequestMade
  <2>8. QED
    BY <1>1, <1>2, <2>4, <2>7, QuietActorKeeps
<1>8. QED
  BY <1>6, <1>7

LEMMA ThreadStepKeeps ==
    ASSUME NodeInv, NEW s \in ShardIds,
           EnterClosure(s) \/ StoreResult(s) \/ ThreadExit(s) \/ Join(s),
           UNCHANGED <<executorVars, channelVars, map, completion, clientVars, served>>
    PROVE  NodeInv'
<1>1. /\ layout' = layout /\ at' = at /\ ready' = ready /\ posted' = posted /\ channel' = channel /\ KeepService
  BY DEF EnterClosure, StoreResult, ThreadExit, Join, executorVars, loopVars, queueVars, channelVars, KeepService
<1>2. QED
  BY <1>1, LoopKeeps

LEMMA NodeStepKeeps ==
    ASSUME NodeInv, [NodeNext]_nodeVars
    PROVE  NodeInv'
<1>1. Owner \notin Requesters /\ KeyHash \in [Keys -> Nat]
  BY NodeAssumption
<1>2. ASSUME NEW s \in ShardIds, ShardStep(s) \/ (IdleWaitElapses(s) /\ KeepService) \/ KernelCompletes(s)
      PROVE  NodeInv'
  BY <1>2, LoopStepKeeps, ServiceStepKeeps DEF ShardStep
<1>3. ASSUME NEW s \in ShardIds, ThreadStep(s) PROVE NodeInv'
  BY <1>3, ThreadStepKeeps DEF ThreadStep, ShardReturns
<1>4. ASSUME NEW s \in ShardIds, Join(s),
             UNCHANGED <<executorVars, channelVars, map, completion, clientVars, served>>
      PROVE  NodeInv'
  BY <1>4, ThreadStepKeeps
<1>5. ASSUME NEW a \in Actors, ActorStep(a) PROVE NodeInv'
  <2>1. CASE a = Owner /\ \E s \in ShardIds : StartShard(s)
    BY <1>1, <2>1, StartKeeps
  <2>2. CASE TakeReceiver(a)
    BY <2>2, TakeReceiverKeeps
  <2>3. CASE MarkReady(a)
    BY <2>3, MarkReadyKeeps
  <2>4. CASE WakeReactor(a)
    BY <2>4, WakeReactorKeeps
  <2>5. CASE UnparkPeers(a)
    BY <2>5, UnparkPeersKeeps
  <2>6. CASE a # Owner /\ (RequestRefused(a) \/ SendRequest(a) \/ TakeReply(a) \/ Park(a) \/ Unparked(a))
    <3>1. a \in Requesters
      BY <2>6 DEF Actors
    <3>2. QED
      BY <2>6, <3>1, WaitForReplyKeeps, SendRequestKeeps, TakeReplyKeeps
  <2>7. CASE CloseShardChannel
    BY <2>7, CloseKeeps
  <2>8. QED
    BY <1>5, <2>1, <2>2, <2>3, <2>4, <2>5, <2>6, <2>7 DEF ActorStep
<1>6. ASSUME NEW r \in Requesters, ParkElapses(r) \/ Call(r) PROVE NodeInv'
  BY <1>1, <1>6, WaitForReplyKeeps, CallKeeps
<1>7. CASE CloseShardChannel
  BY <1>7, CloseKeeps
<1>8. CASE UNCHANGED nodeVars
  <2>1. /\ layout' = layout /\ at' = at /\ ready' = ready /\ posted' = posted /\ KeepService
    BY <1>8 DEF nodeVars, executorVars, loopVars, queueVars, KeepService
  <2>2. PICK s \in ShardIds : TRUE
    <3>1. 0 \in ShardIds
      BY SMT DEF NodeInv, LayoutInv, ShardIds
    <3>2. QED
      BY <3>1
  <2>3. QED
    BY <2>1, <2>2, LoopKeeps
<1>9. QED
  BY <1>2, <1>3, <1>4, <1>5, <1>6, <1>7, <1>8 DEF NodeNext, Actors

LEMMA NodeInvAtStart ==
    ASSUME shard_count \in 1 .. MaxShards, rings \in 0 .. shard_count, NEW running, NEW io,
           NEW calls \in [Requesters -> Seq({"put", "get", "len"} \X Keys)], NodeInit(running, io, calls)
    PROVE  NodeInv
<1>1. LayoutInv
  <2>1. MaxShards \in Nat
    BY NodeAssumption
  <2>2. QED
    BY <2>1, SMT DEF LayoutInv
<1>2. ShardDomains
  BY DEF NodeInit, CharlotteInit, ExecutorInit, ShardDomains
<1>3. 0 \in ShardIds
  BY <1>1, SMT DEF LayoutInv, ShardIds
<1>4. ASSUME NEW a \in Actors
      PROVE  /\ actor[a] = [at |-> actor[a].at, shard |-> actor[a].shard] /\ actor[a].shard = 0
             /\ actor[a].at \in {"idle", "serving", "start"}
  <2>1. PICK p \in {"idle", "serving", "start"} : actor[a] = [at |-> p, shard |-> 0]
    BY <1>4 DEF NodeInit, Actors
  <2>2. [at |-> p, shard |-> 0].at = p /\ [at |-> p, shard |-> 0].shard = 0
    OBVIOUS
  <2>3. QED
    BY <2>1, <2>2
<1>5. ActorInv
  BY <1>3, <1>4 DEF ActorInv, NodeInit, Actors
<1>6. RequestInv
  <2>1. IsRequest(NoRequest) /\ NoRequest.left = <<>>
    BY SMT DEF NoRequest, IsRequest
  <2>2. NoRequest.left \in Seq(ShardIds)
    BY <2>1, SMT
  <2>3. request = [r \in Requesters |-> NoRequest] /\ script \in [Requesters -> Seq(Calls)]
    BY DEF NodeInit, Calls
  <2>4. \A r \in Requesters : actor[r].at # "sending"
    BY <1>4 DEF Actors
  <2>5. QED
    BY <2>1, <2>2, <2>3, <2>4 DEF RequestInv
<1>7. \A s \in ShardIds : ~Unheard(s) /\ ~Waiting(s)
  BY DEF NodeInit, ExecutorInit, Unheard, Waiting
<1>8. QED
  BY <1>1, <1>2, <1>5, <1>6, <1>7 DEF NodeInv, WakeInv

(* For any number of shards, rings, requesters and calls: a shard that has a ring of its own   *)
(* is never waiting in its reactor with a ready task, or with a request or the closing of its   *)
(* channel to receive, unless a wake is posted or somebody is on the way to post it            *)
(* (ReadyQueue::mark_ready, TaskWaker::wake, kv.rs request and drop).                          *)
THEOREM ShardNeverAsleep == NodeSpec => []NodeNotAsleep
<1>1. /\ shard_count \in 1 .. MaxShards /\ rings \in 0 .. shard_count
      /\ \E running, io \in BOOLEAN, calls \in [Requesters -> Seq({"put", "get", "len"} \X Keys)] :
           NodeInit(running, io, calls)
      => NodeInv
  BY NodeInvAtStart
<1>2. NodeInv /\ [NodeNext]_nodeVars => NodeInv'
  BY NodeStepKeeps
<1>3. NodeInv => NodeNotAsleep
  <2> SUFFICES ASSUME NodeInv, NEW s \in ShardIds, s < rings /\ at[s] \in {"wait", "blocked"}, WorkWaits(s)
               PROVE  WakeComing(s)
    BY DEF NodeNotAsleep
  <2>1. CASE ready[s] # <<>>
    BY <2>1 DEF NodeInv, WakeInv, Waiting, ActorAt, WakeComing, Actors
  <2>2. CASE Unheard(s)
    BY <2>2, ZenonT(30) DEF NodeInv, WakeInv, ActorAt, WakeComing, Actors
  <2>3. QED
    BY <2>1, <2>2 DEF WorkWaits, Unheard
<1>4. QED
  BY <1>1, <1>2, <1>3, PTL DEF NodeSpec

-----------------------------------------------------------------------------
(* UDP sockets *)

\* The sockets a thread has, those of a pair under way included.
Mine(t) == sockets[t] \cup binding[t].first

BindStates == {"none", "socket", "getfl", "setfl", "reuse", "bind", "name"}

\* A bind b has a descriptor from socket(2) on, and its thread, which has the sockets S, has each of
\* its descriptors once.
Owns(b, S) ==
    /\ b = [at |-> b.at, addr |-> b.addr, fd |-> b.fd, pair |-> b.pair, first |-> b.first]
    /\ b.at \in BindStates
    /\ IF b.at \in {"none", "socket"} THEN b.fd = 0 ELSE b.fd \in 1 .. MaxFds
    /\ b.at = "none" => b.first = {}
    /\ \A r, s \in S : r.fd = s.fd => r = s
    /\ \A s \in S : s.fd # b.fd /\ s.fd # 0

\* A socket's local_addr is what the kernel calls it.
Named(t) ==
    /\ binding[t].at = "name" => fds[binding[t].fd].name.family = binding[t].addr.family
    /\ \A s \in Mine(t) : s.local = decode_sockaddr_storage(fds[s.fd].name)

\* The first socket of a pair under way is not the caller's yet.
Apart(t) == \A s \in sockets[t] : s \notin binding[t].first

UdpInv ==
    /\ DOMAIN fds \subseteq 1 .. MaxFds /\ DOMAIN sockets = UdpThreads /\ DOMAIN binding = UdpThreads
    /\ \A t \in UdpThreads : Owns(binding[t], Mine(t)) /\ Named(t) /\ Apart(t)
    /\ \A f \in DOMAIN fds : \E t \in UdpThreads : f \in Holds(t)
    /\ \A t \in UdpThreads : \A f \in Holds(t) : f \in DOMAIN fds /\ fds[f] = [by |-> t, name |-> fds[f].name]

\* A datagram on its way was sent.
NetInv ==
    \A d \in net : \E s \in sent :
      /\ s.from = decode_sockaddr_storage(d.from) /\ s.to \in UdpAddrs /\ d.to = BindSockAddr(s.to)
      /\ s.len = d.len /\ s.len \in Nat

INSTANCE WellFoundedInduction

\* The kernel gives a number that is free.
LEMMA LowestIsFree ==
    ASSUME DOMAIN fds \subseteq 1 .. MaxFds, DOMAIN fds # 1 .. MaxFds
    PROVE  Lowest \in (1 .. MaxFds) \ DOMAIN fds
<1> DEFINE R == {p \in Nat \X Nat : p[1] < p[2]}
           S == (1 .. MaxFds) \ DOMAIN fds
<1>1. IsWellFoundedOn(R, Nat)
  BY NatLessThanWellFounded, SMT DEF OpToRel
<1>2. \A x, y \in Nat : x < y => <<x, y>> \in R
  BY SMT
<1>3. S \subseteq Nat /\ S # {}
  <2>1. 1 .. MaxFds \subseteq Nat
    BY UdpAssumption, SMT
  <2>2. QED
    BY <2>1
<1> HIDE DEF R
<1>4. \E x \in S : \A y \in S : ~(<<y, x>> \in R)
  BY ONLY <1>1, <1>3, WFMin, Zenon
<1>5. PICK f \in S : \A y \in S : ~(y < f)
  BY <1>2, <1>3, <1>4
<1>6. f \in 1 .. MaxFds /\ f \notin DOMAIN fds
  OBVIOUS
<1>7. \A x \in 1 .. f - 1 : x \in 1 .. MaxFds /\ x < f
  BY <1>6, UdpAssumption, SMT
<1>8. \A x \in 1 .. f - 1 : x \in DOMAIN fds
  BY <1>5, <1>7
<1>9. QED
  BY <1>6, <1>8 DEF Lowest

LEMMA HoldsAre ==
    ASSUME NEW t
    PROVE  \A f : f \in Holds(t) <=> (\E s \in Mine(t) : f = s.fd) \/ (f = binding[t].fd /\ f # 0)
BY DEF Holds, Mine

LEMMA BoundFd ==
    ASSUME NEW b, NEW S, Owns(b, S), b.at \notin {"none", "socket"}
    PROVE  b.fd \in 1 .. MaxFds /\ b.fd # 0
<1>1. b.fd \in 1 .. MaxFds
  BY DEF Owns
<1>2. 0 \notin 1 .. MaxFds
  BY UdpAssumption, SMTT(30)
<1>3. QED
  BY <1>1, <1>2

\* What a descriptor's record says of its owner.
LEMMA OpenedBy ==
    ASSUME NEW r, NEW t, r = [by |-> t, name |-> r.name]
    PROVE  r.by = t
BY SMT

\* What a step of thread t may do to descriptors: open a free one, close and name its own.
LEMMA SocketsStep ==
    ASSUME UdpInv, NEW t \in UdpThreads, NEW mine \in SUBSET (1 .. MaxFds),
           DOMAIN sockets' = UdpThreads, DOMAIN binding' = UdpThreads,
           \A u \in UdpThreads \ {t} : sockets'[u] = sockets[u] /\ binding'[u] = binding[u],
           Holds(t)' = mine, \A f \in mine : f \in Holds(t) \/ f \notin DOMAIN fds,
           DOMAIN fds' = (DOMAIN fds \ Holds(t)) \cup mine,
           \A f \in mine : fds'[f] = [by |-> t, name |-> fds'[f].name],
           \A f \in DOMAIN fds \ Holds(t) : fds'[f] = fds[f],
           Owns(binding'[t], Mine(t)'), Named(t)', Apart(t)'
    PROVE  UdpInv'
<1>1. ASSUME NEW u \in UdpThreads \ {t}, NEW f \in Holds(u)
      PROVE  /\ f \in DOMAIN fds \ Holds(t) /\ f \notin mine /\ fds'[f] = fds[f]
             /\ fds[f] = [by |-> u, name |-> fds[f].name]
  <2>1. f \in DOMAIN fds /\ fds[f] = [by |-> u, name |-> fds[f].name]
    BY <1>1 DEF UdpInv
  <2>2. f \notin Holds(t)
    <3>1. fds[f].by = u
      BY <2>1, OpenedBy, ZenonT(30)
    <3>2. ASSUME f \in Holds(t) PROVE fds[f].by = t
      <4>1. fds[f] = [by |-> t, name |-> fds[f].name]
        BY <3>2 DEF UdpInv
      <4>2. QED
        BY <4>1, OpenedBy, ZenonT(30)
    <3>3. QED
      BY <3>1, <3>2
  <2>3. QED
    BY <2>1, <2>2
<1>2. ASSUME NEW u \in UdpThreads \ {t}
      PROVE  /\ Holds(u)' = Holds(u) /\ Mine(u)' = Mine(u)
             /\ binding'[u] = binding[u] /\ Owns(binding[u], Mine(u)) /\ Named(u) /\ Apart(u)'
  BY <1>2 DEF Holds, Mine, UdpInv, Apart
<1>3. ASSUME NEW u \in UdpThreads \ {t} PROVE Owns(binding'[u], Mine(u)')
  BY <1>2, <1>3
<1>4. ASSUME NEW u \in UdpThreads \ {t} PROVE Named(u)'
  <2>1. \A s \in Mine(u) : fds'[s.fd] = fds[s.fd]
    BY <1>1, <1>4, HoldsAre
  <2>2. ASSUME binding[u].at = "name" PROVE fds'[binding[u].fd] = fds[binding[u].fd]
    <3>1. binding[u].fd # 0
      BY <1>2, <1>4, <2>2, BoundFd
    <3>2. binding[u].fd \in Holds(u)
      BY <3>1, HoldsAre
    <3>3. QED
      BY <1>1, <1>4, <3>2
  <2>3. Named(u) /\ Mine(u)' = Mine(u) /\ binding'[u] = binding[u]
    BY <1>2, <1>4
  <2>4. binding'[u].at = "name" => fds'[binding'[u].fd].name.family = binding'[u].addr.family
    BY <2>2, <2>3 DEF Named
  <2>5. ASSUME NEW s \in Mine(u) PROVE s.local = decode_sockaddr_storage(fds'[s.fd].name)
    <3>1. s.local = decode_sockaddr_storage(fds[s.fd].name)
      BY <2>3 DEF Named
    <3>2. fds[s.fd] = fds'[s.fd]
      BY <2>1
    <3>3. QED
      BY ONLY <3>1, <3>2
  <2>6. QED
    BY <2>3, <2>4, <2>5 DEF Named
<1>5. DOMAIN fds' \subseteq 1 .. MaxFds
  <2>1. DOMAIN fds \subseteq 1 .. MaxFds
    BY DEF UdpInv
  <2>2. QED
    BY <2>1
<1>6. ASSUME NEW f \in DOMAIN fds' PROVE \E u \in UdpThreads : f \in Holds(u)'
  <2>1. CASE f \in mine
    BY <2>1
  <2>2. CASE f \notin mine
    <3>1. f \in DOMAIN fds /\ f \notin Holds(t)
      BY <1>6, <2>2
    <3>2. PICK u \in UdpThreads : f \in Holds(u)
      BY <3>1 DEF UdpInv
    <3>3. QED
      BY <1>2, <3>1, <3>2
  <2>3. QED
    BY <2>1, <2>2
<1>7. ASSUME NEW u \in UdpThreads, NEW f \in Holds(u)'
      PROVE  f \in DOMAIN fds' /\ fds'[f] = [by |-> u, name |-> fds'[f].name]
  <2>1. CASE u = t
    BY <1>7, <2>1
  <2>2. CASE u # t
    <3>1. f \in Holds(u)
      BY <1>2, <1>7, <2>2
    <3>2. f \in DOMAIN fds \ Holds(t) /\ fds'[f] = fds[f] /\ fds[f] = [by |-> u, name |-> fds[f].name]
      BY <1>1, <2>2, <3>1
    <3>3. f \in DOMAIN fds'
      BY <3>2
    <3>4. fds'[f] = [by |-> u, name |-> fds'[f].name]
      BY ONLY <3>2
    <3>5. QED
      BY <3>3, <3>4
  <2>3. QED
    BY <2>1, <2>2
<1>8. \A u \in UdpThreads : Owns(binding'[u], Mine(u)') /\ Named(u)' /\ Apart(u)'
  BY <1>2, <1>3, <1>4
<1>9. QED
  BY <1>5, <1>6, <1>7, <1>8 DEF UdpInv

LEMMA UdpSame ==
    ASSUME UdpInv, UNCHANGED <<fds, binding, sockets>>
    PROVE  UdpInv'
<1>1. \A t : Mine(t)' = Mine(t) /\ Holds(t)' = Holds(t) /\ binding'[t] = binding[t]
  BY DEF Mine, Holds
<1>2. \A t : (Named(t) => Named(t)') /\ (Apart(t) => Apart(t)')
  BY <1>1 DEF Named, Apart
<1>3. QED
  BY <1>1, <1>2 DEF UdpInv

BindAt(place, addr, fd, pair, first) == [at |-> place, addr |-> addr, fd |-> fd, pair |-> pair, first |-> first]

LEMMA PutAt ==
    ASSUME NEW b, NEW v,
           b = [at |-> b.at, addr |-> b.addr, fd |-> b.fd, pair |-> b.pair, first |-> b.first]
    PROVE  /\ [b EXCEPT !.at = v] = BindAt(v, b.addr, b.fd, b.pair, b.first)
           /\ [b EXCEPT !.addr = v] = BindAt(b.at, v, b.fd, b.pair, b.first)
           /\ [b EXCEPT !.fd = v] = BindAt(b.at, b.addr, v, b.pair, b.first)
           /\ [b EXCEPT !.pair = v] = BindAt(b.at, b.addr, b.fd, v, b.first)
           /\ [b EXCEPT !.first = v] = BindAt(b.at, b.addr, b.fd, b.pair, v)
BY SMT DEF BindAt

LEMMA NotBindingIs ==
    /\ NotBinding = BindAt("none", Localhost, 0, FALSE, {})
    /\ NotBinding.at = "none" /\ NotBinding.addr = Localhost /\ NotBinding.fd = 0
    /\ NotBinding.pair = FALSE /\ NotBinding.first = {}
    /\ NotBinding = [at |-> NotBinding.at, addr |-> NotBinding.addr, fd |-> NotBinding.fd,
                     pair |-> NotBinding.pair, first |-> NotBinding.first]
BY DEF NotBinding, BindAt

LEMMA CalledAt ==
    ASSUME NEW c, c = [NotBinding EXCEPT !.at = "socket"]
    PROVE  /\ c.at = "socket" /\ c.addr = Localhost /\ c.fd = 0 /\ c.pair = FALSE /\ c.first = {}
           /\ c = [at |-> c.at, addr |-> c.addr, fd |-> c.fd, pair |-> c.pair, first |-> c.first]
<1>1. NotBinding = [at |-> NotBinding.at, addr |-> NotBinding.addr, fd |-> NotBinding.fd,
                    pair |-> NotBinding.pair, first |-> NotBinding.first]
  BY NotBindingIs
<1>2. c = BindAt("socket", NotBinding.addr, NotBinding.fd, NotBinding.pair, NotBinding.first)
  BY ONLY c = [NotBinding EXCEPT !.at = "socket"], <1>1, PutAt, Zenon
<1>3. /\ c.at = "socket" /\ c.addr = NotBinding.addr /\ c.fd = NotBinding.fd
      /\ c.pair = NotBinding.pair /\ c.first = NotBinding.first
      /\ c = [at |-> c.at, addr |-> c.addr, fd |-> c.fd, pair |-> c.pair, first |-> c.first]
  BY <1>2 DEF BindAt
<1>4. QED
  BY <1>3, NotBindingIs

LEMMA SetBinding ==
    ASSUME UdpInv, NEW t \in UdpThreads, NEW b, binding' = [binding EXCEPT ![t] = b]
    PROVE  /\ DOMAIN binding' = UdpThreads /\ binding'[t] = b
           /\ \A u \in UdpThreads \ {t} : binding'[u] = binding[u]
BY DEF UdpInv

\* The thread is where it was with its descriptors, and has the sockets it had.
LEMMA FdsKept ==
    ASSUME UdpInv, NEW t \in UdpThreads, NEW b, binding' = [binding EXCEPT ![t] = b],
           UNCHANGED <<fds, sockets>>, b.fd = binding[t].fd, b.first = binding[t].first,
           Owns(b, Mine(t)), b.at # "name"
    PROVE  UdpInv'
<1>1. /\ DOMAIN binding' = UdpThreads /\ binding'[t] = b
      /\ \A u \in UdpThreads \ {t} : binding'[u] = binding[u]
  BY SetBinding
<1>2. Mine(t)' = Mine(t) /\ Holds(t)' = Holds(t)
  BY <1>1 DEF Mine, Holds
<1>3. Named(t)'
  <2>1. fds' = fds /\ Named(t) /\ binding'[t].at # "name"
    BY <1>1 DEF UdpInv
  <2>2. QED
    BY <1>2, <2>1 DEF Named
<1>4. /\ Holds(t) \in SUBSET (1 .. MaxFds) /\ \A f \in Holds(t) : fds[f] = [by |-> t, name |-> fds[f].name]
      /\ DOMAIN fds' = (DOMAIN fds \ Holds(t)) \cup Holds(t) /\ DOMAIN sockets' = UdpThreads
  BY DEF UdpInv
<1>5. QED
  <2>1. PICK mine \in SUBSET (1 .. MaxFds) : mine = Holds(t)
    BY <1>4
  <2>2. fds' = fds /\ sockets' = sockets /\ Owns(binding'[t], Mine(t)') /\ Apart(t)'
    BY <1>1, <1>2 DEF UdpInv, Apart
  <2>3. /\ \A u \in UdpThreads \ {t} : sockets'[u] = sockets[u] /\ binding'[u] = binding[u]
        /\ Holds(t)' = mine /\ \A f \in mine : f \in Holds(t) \/ f \notin DOMAIN fds
        /\ DOMAIN fds' = (DOMAIN fds \ Holds(t)) \cup mine
        /\ \A f \in mine : fds'[f] = [by |-> t, name |-> fds'[f].name]
        /\ \A f \in DOMAIN fds \ Holds(t) : fds'[f] = fds[f]
    BY <1>1, <1>2, <1>4, <2>1, <2>2
  <2>4. QED
    BY <1>1, <1>3, <1>4, <2>2, <2>3, SocketsStep

LEMMA BindCalled ==
    ASSUME UdpInv, NEW t \in UdpThreads, (\E addr \in UdpAddrs : bind(t, addr)) \/ udp_pair(t)
    PROVE  UdpInv'
<1>1. PICK addr, pair : binding' = [binding EXCEPT ![t] = BindAt("socket", addr, 0, pair, {})]
  <2>1. ASSUME NEW addr \in UdpAddrs, bind(t, addr)
        PROVE  binding' = [binding EXCEPT ![t] = BindAt("socket", addr, 0, FALSE, {})]
    <3>1. PICK c : c = [NotBinding EXCEPT !.at = "socket"]
      OBVIOUS
    <3>2. [c EXCEPT !.addr = addr] = BindAt(c.at, addr, c.fd, c.pair, c.first)
      <4>1. c = [at |-> c.at, addr |-> c.addr, fd |-> c.fd, pair |-> c.pair, first |-> c.first]
        BY <3>1, CalledAt
      <4>2. QED
        BY ONLY <4>1, PutAt, Zenon
    <3>3. [c EXCEPT !.addr = addr] = BindAt("socket", addr, 0, FALSE, {})
      BY <3>1, <3>2, CalledAt
    <3>4. QED
      BY <2>1, <3>1, <3>3 DEF bind
  <2>2. ASSUME udp_pair(t)
        PROVE  binding' = [binding EXCEPT ![t] = BindAt("socket", Localhost, 0, TRUE, {})]
    <3>1. PICK c : c = [NotBinding EXCEPT !.at = "socket"]
      OBVIOUS
    <3>2. [c EXCEPT !.pair = TRUE] = BindAt(c.at, c.addr, c.fd, TRUE, c.first)
      <4>1. c = [at |-> c.at, addr |-> c.addr, fd |-> c.fd, pair |-> c.pair, first |-> c.first]
        BY <3>1, CalledAt
      <4>2. QED
        BY ONLY <4>1, PutAt, Zenon
    <3>3. [c EXCEPT !.pair = TRUE] = BindAt("socket", Localhost, 0, TRUE, {})
      BY <3>1, <3>2, CalledAt
    <3>4. QED
      BY <2>2, <3>1, <3>3 DEF udp_pair
  <2>3. QED
    BY <2>1, <2>2
<1>2. UNCHANGED <<fds, sockets>> /\ binding[t].at = "none"
  BY DEF bind, udp_pair
<1>3. binding[t].fd = 0 /\ binding[t].first = {} /\ Owns(binding[t], Mine(t))
  BY <1>2 DEF UdpInv, Owns
<1>4. PICK b : b = BindAt("socket", addr, 0, pair, {})
  OBVIOUS
<1>5. /\ b.at = "socket" /\ b.fd = 0 /\ b.first = {}
      /\ b = [at |-> b.at, addr |-> b.addr, fd |-> b.fd, pair |-> b.pair, first |-> b.first]
  BY <1>4 DEF BindAt
<1>6. Owns(b, Mine(t))
  BY <1>3, <1>5 DEF Owns, BindStates
<1>7. QED
  BY <1>1, <1>2, <1>3, <1>4, <1>5, <1>6, FdsKept

LEMMA OptionsSet ==
    ASSUME UdpInv, NEW t \in UdpThreads, SetNonblocking(t) \/ SetReuseAddr(t)
    PROVE  UdpInv'
<1>1. PICK place \in {"setfl", "reuse", "bind"} : binding' = [binding EXCEPT ![t].at = place]
  <2>1. CASE binding[t].at = "getfl"
    BY <2>1, SMT DEF SetNonblocking, SetReuseAddr
  <2>2. CASE binding[t].at # "getfl"
    BY <2>2, SMT DEF SetNonblocking, SetReuseAddr
  <2>3. QED
    BY <2>1, <2>2
<1>2. UNCHANGED <<fds, sockets>> /\ binding[t].at \notin {"none", "socket"} /\ Owns(binding[t], Mine(t))
  BY DEF SetNonblocking, SetReuseAddr, UdpInv
<1>3. PICK b : b = BindAt(place, binding[t].addr, binding[t].fd, binding[t].pair, binding[t].first)
  OBVIOUS
<1>4. /\ b.at = place /\ b.fd = binding[t].fd /\ b.first = binding[t].first
      /\ b = [at |-> b.at, addr |-> b.addr, fd |-> b.fd, pair |-> b.pair, first |-> b.first]
  BY <1>3 DEF BindAt
<1>5. binding' = [binding EXCEPT ![t] = b]
  <2>1. binding' = [binding EXCEPT ![t] = [binding[t] EXCEPT !.at = place]]
    BY <1>1
  <2>2. binding[t] = [at |-> binding[t].at, addr |-> binding[t].addr, fd |-> binding[t].fd,
                      pair |-> binding[t].pair, first |-> binding[t].first]
    BY <1>2 DEF Owns
  <2>3. [binding[t] EXCEPT !.at = place] = b
    BY <1>3, <2>2, PutAt
  <2>4. QED
    BY <2>1, <2>3
<1>6. binding[t].fd \in 1 .. MaxFds
  BY <1>2, BoundFd
<1>7. Owns(b, Mine(t))
  BY <1>2, <1>4, <1>6 DEF Owns, BindStates
<1>8. QED
  BY <1>2, <1>4, <1>5, <1>7, FdsKept

LEMMA SocketCallKeeps ==
    ASSUME UdpInv, NEW t \in UdpThreads, SocketCall(t)
    PROVE  UdpInv'
<1>1. PICK l : l = Lowest
  OBVIOUS
<1>2. l \in 1 .. MaxFds /\ l \notin DOMAIN fds
  <2>1. DOMAIN fds \subseteq 1 .. MaxFds /\ DOMAIN fds # 1 .. MaxFds
    BY DEF UdpInv, SocketCall
  <2>2. QED
    BY <1>1, <2>1, LowestIsFree
<1>3. Owns(binding[t], Mine(t)) /\ Named(t) /\ binding[t].at = "socket"
  BY DEF UdpInv, SocketCall
<1>4. sockets' = sockets /\ fds' = Open(l, t)
  BY <1>1 DEF SocketCall
<1>5. PICK c : c = [binding[t] EXCEPT !.at = "getfl"]
  OBVIOUS
<1>6. PICK b : b = [c EXCEPT !.fd = l]
  OBVIOUS
<1>7. /\ DOMAIN binding' = UdpThreads /\ binding'[t] = b
      /\ \A u \in UdpThreads \ {t} : binding'[u] = binding[u]
  <2>1. PICK m : m = [binding EXCEPT ![t].at = "getfl"]
    OBVIOUS
  <2>2. binding' = [m EXCEPT ![t].fd = l]
    BY <1>1, <2>1 DEF SocketCall
  <2>3. m = [binding EXCEPT ![t] = c]
    BY <1>5, <2>1
  <2>4. m[t] = c /\ DOMAIN m = UdpThreads /\ DOMAIN binding = UdpThreads
    BY <2>3 DEF UdpInv
  <2>5. binding' = [m EXCEPT ![t] = b]
    BY <1>6, <2>2, <2>4
  <2>6. QED
    BY <2>3, <2>4, <2>5
<1>8. /\ b.at = "getfl" /\ b.fd = l /\ b.first = binding[t].first
      /\ b = [at |-> b.at, addr |-> b.addr, fd |-> b.fd, pair |-> b.pair, first |-> b.first]
  <2>1. binding[t] = [at |-> binding[t].at, addr |-> binding[t].addr, fd |-> binding[t].fd,
                      pair |-> binding[t].pair, first |-> binding[t].first]
    BY <1>3 DEF Owns
  <2>2. c = BindAt("getfl", binding[t].addr, binding[t].fd, binding[t].pair, binding[t].first)
    BY ONLY <1>5, <2>1, PutAt, Zenon
  <2>3. /\ c.at = "getfl" /\ c.first = binding[t].first
        /\ c = [at |-> c.at, addr |-> c.addr, fd |-> c.fd, pair |-> c.pair, first |-> c.first]
    BY <2>2 DEF BindAt
  <2>4. b = BindAt(c.at, c.addr, l, c.pair, c.first)
    BY ONLY <1>6, <2>3, PutAt, Zenon
  <2>5. QED
    BY <2>3, <2>4 DEF BindAt
<1>9. Mine(t)' = Mine(t)
  BY <1>4, <1>8, <1>7 DEF Mine
<1>10. \A s \in Mine(t) : s.fd \in Holds(t) /\ s.fd \in DOMAIN fds /\ s.fd # l
  BY <1>2, HoldsAre DEF UdpInv
<1>11. binding[t].fd = 0 /\ l # 0
  <2>1. 0 \notin 1 .. MaxFds
    BY UdpAssumption, SMT
  <2>2. QED
    BY <1>2, <1>3, <2>1 DEF Owns
<1>12. Holds(t)' = Holds(t) \cup {l}
  <2>1. \A f : f \in Holds(t)' <=> (\E s \in Mine(t)' : f = s.fd) \/ (f = binding'[t].fd /\ f # 0)
    BY DEF Holds, Mine
  <2>2. \A f : f \in Holds(t)' <=> (\E s \in Mine(t) : f = s.fd) \/ f = l
    BY <1>8, <1>7, <1>9, <1>11, <2>1
  <2>3. \A f : f \in Holds(t) <=> \E s \in Mine(t) : f = s.fd
    BY <1>11, HoldsAre
  <2>4. QED
    BY <2>2, <2>3
<1>13. PICK mine \in SUBSET (1 .. MaxFds) : mine = Holds(t) \cup {l}
  BY <1>2 DEF UdpInv
<1>14. Owns(binding'[t], Mine(t)')
  <2>1. Owns(b, Mine(t))
    BY <1>2, <1>3, <1>8, <1>10 DEF Owns, BindStates
  <2>2. QED
    BY <1>7, <1>9, <2>1
<1>15. /\ DOMAIN fds' = DOMAIN fds \cup {l} /\ fds'[l] = [by |-> t, name |-> NoName]
       /\ \A f \in DOMAIN fds : fds'[f] = fds[f]
  BY <1>2, <1>4 DEF Open
<1>16. Named(t)'
  <2>1. \A s \in Mine(t) : fds'[s.fd] = fds[s.fd]
    BY <1>10, <1>15
  <2>2. \A s \in Mine(t) : s.local = decode_sockaddr_storage(fds'[s.fd].name)
    BY <1>3, <2>1 DEF Named
  <2>3. QED
    BY <1>8, <1>7, <1>9, <2>2 DEF Named
<1>17. ASSUME NEW f \in mine PROVE fds'[f] = [by |-> t, name |-> fds'[f].name]
  <2>1. CASE f = l
    BY <1>15, <2>1, SMT
  <2>2. CASE f \in Holds(t)
    <3>1. fds'[f] = fds[f] /\ fds[f] = [by |-> t, name |-> fds[f].name]
      BY <1>15, <2>2 DEF UdpInv
    <3>2. QED
      BY ONLY <3>1
  <2>3. QED
    BY <1>13, <2>1, <2>2
<1>18. /\ \A f \in mine : f \in Holds(t) \/ f \notin DOMAIN fds
       /\ DOMAIN fds' = (DOMAIN fds \ Holds(t)) \cup mine
       /\ \A f \in DOMAIN fds \ Holds(t) : fds'[f] = fds[f]
       /\ DOMAIN sockets' = UdpThreads /\ \A u \in UdpThreads \ {t} : sockets'[u] = sockets[u]
  BY <1>2, <1>4, <1>13, <1>15 DEF UdpInv
<1>19. Holds(t)' = mine
  BY <1>12, <1>13
<1>20. Apart(t)'
  BY <1>4, <1>7, <1>8 DEF UdpInv, Apart
<1>21. QED
  BY <1>7, <1>14, <1>16, <1>17, <1>18, <1>19, <1>20, SocketsStep

\* bind(2) keeps the family it was given.
LEMMA BoundFamily ==
    ASSUME NEW addr, NEW n \in BoundNames(BindSockAddr(addr))
    PROVE  n.family = addr.family
<1>1. PICK w : w = BindSockAddr(addr)
  OBVIOUS
<1>2. /\ w.family = addr.family
      /\ w = [family |-> w.family, port |-> w.port, ip |-> w.ip, extra |-> w.extra]
  BY <1>1 DEF BindSockAddr
<1>3. \A p : [w EXCEPT !.port = PortBytes(p)].family = w.family
  BY <1>2, SMT
<1>4. n = w \/ \E p \in Ephemeral : n = [w EXCEPT !.port = PortBytes(p)]
  BY <1>1 DEF BoundNames
<1>5. QED
  BY <1>2, <1>3, <1>4

LEMMA BindCallKeeps ==
    ASSUME UdpInv, NEW t \in UdpThreads, BindCall(t)
    PROVE  UdpInv'
<1>1. /\ Owns(binding[t], Mine(t)) /\ Named(t) /\ Apart(t) /\ binding[t].at = "bind"
      /\ DOMAIN binding = UdpThreads
  BY DEF UdpInv, BindCall
<1>2. PICK l \in 1 .. MaxFds : l = binding[t].fd /\ l # 0
  BY <1>1, BoundFd
<1>3. l \in Holds(t) /\ l \in DOMAIN fds
  BY <1>2, HoldsAre DEF UdpInv
<1>4. PICK n \in BoundNames(BindSockAddr(binding[t].addr)) : fds' = [fds EXCEPT ![l].name = n]
  BY <1>2 DEF BindCall
<1>5. n.family = binding[t].addr.family
  BY BoundFamily
<1>6. fds[l] = [by |-> t, name |-> fds[l].name]
  BY <1>3 DEF UdpInv
<1>7. [fds[l] EXCEPT !.name = n] = [by |-> t, name |-> n]
  BY <1>6, SMT
<1>8. /\ DOMAIN fds' = DOMAIN fds /\ fds'[l] = [by |-> t, name |-> n]
      /\ \A f \in DOMAIN fds \ {l} : fds'[f] = fds[f]
  BY <1>3, <1>4, <1>7
<1>9. PICK b : b = [binding[t] EXCEPT !.at = "name"]
  OBVIOUS
<1>10. /\ b.at = "name" /\ b.fd = l /\ b.first = binding[t].first /\ b.addr = binding[t].addr
       /\ b = [at |-> b.at, addr |-> b.addr, fd |-> b.fd, pair |-> b.pair, first |-> b.first]
  <2>1. binding[t] = [at |-> binding[t].at, addr |-> binding[t].addr, fd |-> binding[t].fd,
                      pair |-> binding[t].pair, first |-> binding[t].first]
    BY <1>1 DEF Owns
  <2>2. b = BindAt("name", binding[t].addr, binding[t].fd, binding[t].pair, binding[t].first)
    BY ONLY <1>9, <2>1, PutAt, Zenon
  <2>3. QED
    BY <1>2, <2>2 DEF BindAt
<1>11. binding' = [binding EXCEPT ![t] = b]
  BY <1>9 DEF BindCall
<1>12. /\ DOMAIN binding' = UdpThreads /\ binding'[t] = b
       /\ \A u \in UdpThreads \ {t} : binding'[u] = binding[u]
  BY <1>11, SetBinding
<1>13. sockets' = sockets /\ DOMAIN sockets = UdpThreads
  BY DEF BindCall, UdpInv
<1>14. Mine(t)' = Mine(t) /\ Apart(t)'
  BY <1>1, <1>10, <1>12, <1>13 DEF Mine, Apart
<1>15. Holds(t)' = Holds(t)
  BY <1>2, <1>10, <1>12, <1>13 DEF Holds
<1>16. \A s \in Mine(t) : s.fd # l /\ s.fd \in DOMAIN fds
  <2>1. \A s \in Mine(t) : s.fd \in Holds(t)
    BY HoldsAre
  <2>2. \A s \in Mine(t) : s.fd # l
    BY <1>1, <1>2 DEF Owns
  <2>3. QED
    BY <2>1, <2>2 DEF UdpInv
<1>17. Owns(binding'[t], Mine(t)')
  <2>1. Owns(b, Mine(t))
    BY <1>1, <1>2, <1>10 DEF Owns, BindStates
  <2>2. QED
    BY <1>12, <1>14, <2>1
<1>18. Named(t)'
  <2>1. \A s \in Mine(t) : fds'[s.fd] = fds[s.fd]
    BY <1>8, <1>16
  <2>2. \A s \in Mine(t) : s.local = decode_sockaddr_storage(fds'[s.fd].name)
    BY <1>1, <2>1 DEF Named
  <2>3. fds'[l].name = n
    <3>1. fds'[l] = [by |-> t, name |-> n]
      BY <1>8
    <3>2. QED
      BY ONLY <3>1
  <2>4. QED
    BY <1>5, <1>10, <1>12, <1>14, <2>2, <2>3 DEF Named
<1>19. PICK mine \in SUBSET (1 .. MaxFds) : mine = Holds(t)
  BY DEF UdpInv
<1>20. ASSUME NEW f \in mine PROVE fds'[f] = [by |-> t, name |-> fds'[f].name]
  <2>1. CASE f = l
    BY <1>8, <2>1, SMT
  <2>2. CASE f # l
    <3>1. fds'[f] = fds[f] /\ fds[f] = [by |-> t, name |-> fds[f].name]
      BY <1>8, <1>19, <2>2 DEF UdpInv
    <3>2. QED
      BY ONLY <3>1
  <2>3. QED
    BY <2>1, <2>2
<1>21. /\ \A f \in mine : f \in Holds(t) \/ f \notin DOMAIN fds
       /\ DOMAIN fds' = (DOMAIN fds \ Holds(t)) \cup mine
       /\ \A f \in DOMAIN fds \ Holds(t) : fds'[f] = fds[f]
       /\ DOMAIN sockets' = UdpThreads /\ \A u \in UdpThreads \ {t} : sockets'[u] = sockets[u]
  <2>1. \A f \in Holds(t) : f \in DOMAIN fds
    BY DEF UdpInv
  <2>2. QED
    BY <1>3, <1>8, <1>13, <1>19, <2>1
<1>22. Holds(t)' = mine
  BY <1>15, <1>19
<1>23. QED
  BY <1>12, <1>14, <1>17, <1>18, <1>20, <1>21, <1>22, SocketsStep

\* The thread closes what it holds except `mine`, which stays as it is.
LEMMA KeepsMine ==
    ASSUME UdpInv, NEW t \in UdpThreads, NEW mine \in SUBSET (1 .. MaxFds),
           DOMAIN sockets' = UdpThreads, DOMAIN binding' = UdpThreads,
           \A u \in UdpThreads \ {t} : sockets'[u] = sockets[u] /\ binding'[u] = binding[u],
           Holds(t)' = mine, mine \subseteq Holds(t),
           DOMAIN fds' = (DOMAIN fds \ Holds(t)) \cup mine, \A f \in DOMAIN fds' : fds'[f] = fds[f],
           Owns(binding'[t], Mine(t)'), Apart(t)',
           binding'[t].at = "name" =>
             /\ binding'[t].fd \in mine
             /\ fds[binding'[t].fd].name.family = binding'[t].addr.family,
           \A s \in Mine(t)' : s.local = decode_sockaddr_storage(fds[s.fd].name)
    PROVE  UdpInv'
<1>1. \A s \in Mine(t)' : s.fd \in mine
  <2>1. \A s \in Mine(t)' : s.fd \in Holds(t)'
    BY DEF Holds, Mine
  <2>2. QED
    BY <2>1
<1>2. \A s \in Mine(t)' : fds'[s.fd] = fds[s.fd]
  BY <1>1
<1>3. Named(t)'
  <2>1. \A s \in Mine(t)' : s.local = decode_sockaddr_storage(fds'[s.fd].name)
    BY <1>2
  <2>2. binding'[t].at = "name" => fds'[binding'[t].fd] = fds[binding'[t].fd]
    OBVIOUS
  <2>3. binding'[t].at = "name" => fds'[binding'[t].fd].name.family = binding'[t].addr.family
    BY <2>2
  <2>4. QED
    BY <2>1, <2>3 DEF Named
<1>4. ASSUME NEW f \in mine PROVE fds'[f] = [by |-> t, name |-> fds'[f].name]
  <2>1. fds'[f] = fds[f] /\ fds[f] = [by |-> t, name |-> fds[f].name]
    BY <1>4 DEF UdpInv
  <2>2. QED
    BY ONLY <2>1
<1>5. /\ \A f \in mine : f \in Holds(t) \/ f \notin DOMAIN fds
      /\ \A f \in DOMAIN fds \ Holds(t) : fds'[f] = fds[f]
  OBVIOUS
<1>6. QED
  BY <1>3, <1>4, <1>5, SocketsStep

LEMMA OwnKeeps ==
    ASSUME UdpInv, NEW t \in UdpThreads, Own(t)
    PROVE  UdpInv'
<1>1. /\ Owns(binding[t], Mine(t)) /\ Named(t) /\ Apart(t) /\ binding[t].at = "name"
      /\ DOMAIN binding = UdpThreads /\ DOMAIN sockets = UdpThreads /\ fds' = fds
  BY DEF UdpInv, Own
<1>2. PICK l \in 1 .. MaxFds : l = binding[t].fd /\ l # 0
  BY <1>1, BoundFd
<1>3. l \in Holds(t)
  BY <1>2, HoldsAre
<1>4. PICK s : s = [fd |-> l, local |-> get_sock_name(fds[l].name, binding[t].addr)]
  OBVIOUS
<1>5. s.fd = l /\ s.local = decode_sockaddr_storage(fds[l].name)
  <2>1. fds[l].name.family = binding[t].addr.family
    BY <1>1, <1>2 DEF Named
  <2>2. get_sock_name(fds[l].name, binding[t].addr) = decode_sockaddr_storage(fds[l].name)
    BY <2>1 DEF get_sock_name, decode_sockaddr_storage
  <2>3. QED
    BY <1>4, <2>2
<1>6. s \notin Mine(t)
  BY <1>1, <1>2, <1>5 DEF Owns
<1> DEFINE again == binding[t].pair /\ binding[t].first = {}
<1>7. \E b : /\ binding' = [binding EXCEPT ![t] = b]
             /\ b.at \in {"none", "socket"} /\ b.fd = 0 /\ (b.at = "none" => b.first = {})
             /\ b = [at |-> b.at, addr |-> b.addr, fd |-> b.fd, pair |-> b.pair, first |-> b.first]
             /\ sockets'[t] \cup b.first = Mine(t) \cup {s}
             /\ \A r \in sockets'[t] : r \notin b.first
             /\ DOMAIN sockets' = UdpThreads /\ \A u \in UdpThreads \ {t} : sockets'[u] = sockets[u]
  <2>1. CASE again
    <3>1. PICK c : c = [binding[t] EXCEPT !.at = "socket"]
      OBVIOUS
    <3>2. PICK d : d = [c EXCEPT !.first = {s}]
      OBVIOUS
    <3>3. PICK b : b = [d EXCEPT !.fd = 0]
      OBVIOUS
    <3>4. b.at = "socket" /\ b.fd = 0 /\ b.first = {s}
          /\ b = [at |-> b.at, addr |-> b.addr, fd |-> b.fd, pair |-> b.pair, first |-> b.first]
      <4>1. binding[t] = [at |-> binding[t].at, addr |-> binding[t].addr, fd |-> binding[t].fd,
                          pair |-> binding[t].pair, first |-> binding[t].first]
        BY <1>1 DEF Owns
      <4>2. c = BindAt("socket", binding[t].addr, binding[t].fd, binding[t].pair, binding[t].first)
        BY ONLY <3>1, <4>1, PutAt, Zenon
      <4>3. /\ c.at = "socket"
            /\ c = [at |-> c.at, addr |-> c.addr, fd |-> c.fd, pair |-> c.pair, first |-> c.first]
        BY <4>2 DEF BindAt
      <4>4. d = BindAt(c.at, c.addr, c.fd, c.pair, {s})
        BY ONLY <3>2, <4>3, PutAt, Zenon
      <4>5. /\ d.at = "socket" /\ d.first = {s}
            /\ d = [at |-> d.at, addr |-> d.addr, fd |-> d.fd, pair |-> d.pair, first |-> d.first]
        BY <4>3, <4>4 DEF BindAt
      <4>6. b = BindAt(d.at, d.addr, 0, d.pair, d.first)
        BY ONLY <3>3, <4>5, PutAt, Zenon
      <4>7. QED
        BY <4>5, <4>6 DEF BindAt
    <3>5. binding' = [binding EXCEPT ![t] = b]
      BY <1>2, <1>4, <2>1, <3>1, <3>2, <3>3 DEF Own
    <3>6. sockets' = [sockets EXCEPT ![t] = sockets[t]]
      BY <2>1 DEF Own
    <3>7. sockets'[t] = sockets[t] /\ DOMAIN sockets' = UdpThreads /\ \A u \in UdpThreads \ {t} : sockets'[u] = sockets[u]
      BY <1>1, <3>6
    <3>8. Mine(t) = sockets[t]
      BY <2>1 DEF Mine
    <3>9. QED
      BY <1>6, <3>4, <3>5, <3>7, <3>8
  <2>2. CASE ~again
    <3>1. binding' = [binding EXCEPT ![t] = NotBinding]
      BY <2>2 DEF Own
    <3>2. sockets' = [sockets EXCEPT ![t] = sockets[t] \cup {s} \cup binding[t].first]
      BY <1>2, <1>4, <2>2 DEF Own
    <3>3. /\ sockets'[t] = sockets[t] \cup {s} \cup binding[t].first /\ DOMAIN sockets' = UdpThreads
          /\ \A u \in UdpThreads \ {t} : sockets'[u] = sockets[u]
      BY <1>1, <3>2
    <3>4. sockets'[t] \cup NotBinding.first = Mine(t) \cup {s} /\ \A r \in sockets'[t] : r \notin NotBinding.first
      BY <3>3, NotBindingIs DEF Mine
    <3>5. QED
      BY <3>1, <3>3, <3>4, NotBindingIs
  <2>3. QED
    BY <2>1, <2>2

<1>8. PICK b : /\ binding' = [binding EXCEPT ![t] = b]
               /\ b.at \in {"none", "socket"} /\ b.fd = 0 /\ (b.at = "none" => b.first = {})
               /\ b = [at |-> b.at, addr |-> b.addr, fd |-> b.fd, pair |-> b.pair, first |-> b.first]
               /\ sockets'[t] \cup b.first = Mine(t) \cup {s}
               /\ \A r \in sockets'[t] : r \notin b.first
               /\ DOMAIN sockets' = UdpThreads /\ \A u \in UdpThreads \ {t} : sockets'[u] = sockets[u]
  BY <1>7
<1>9. /\ DOMAIN binding' = UdpThreads /\ binding'[t] = b
      /\ \A u \in UdpThreads \ {t} : binding'[u] = binding[u]
  BY <1>8, SetBinding
<1>10. Mine(t)' = Mine(t) \cup {s} /\ Apart(t)'
  BY <1>8, <1>9 DEF Mine, Apart
<1>11. Holds(t)' = Holds(t)
  <2>1. \A f : f \in Holds(t)' <=> (\E r \in Mine(t)' : f = r.fd) \/ (f = binding'[t].fd /\ f # 0)
    BY DEF Holds, Mine
  <2>2. \A f : f \in Holds(t)' <=> (\E r \in Mine(t) : f = r.fd) \/ f = l
    BY <1>5, <1>8, <1>9, <1>10, <2>1
  <2>3. \A f : f \in Holds(t) <=> (\E r \in Mine(t) : f = r.fd) \/ f = l
    BY <1>2, HoldsAre
  <2>4. QED
    BY <2>2, <2>3
<1>12. Owns(binding'[t], Mine(t)')
  <2>1. \A r \in Mine(t) : r.fd # l /\ r.fd # 0
    BY <1>1, <1>2 DEF Owns
  <2>2. \A q, r \in Mine(t) : q.fd = r.fd => q = r
    BY <1>1 DEF Owns
  <2>3. \A q, r \in Mine(t)' : q.fd = r.fd => q = r
    BY <1>5, <1>10, <2>1, <2>2
  <2>4. \A r \in Mine(t)' : r.fd # b.fd /\ r.fd # 0
    BY <1>2, <1>5, <1>8, <1>10, <2>1
  <2>5. Owns(b, Mine(t)')
    BY <1>8, <2>3, <2>4 DEF Owns, BindStates
  <2>6. QED
    BY <1>9, <2>5
<1>13. \A r \in Mine(t)' : r.local = decode_sockaddr_storage(fds[r.fd].name)
  <2>1. \A r \in Mine(t) : r.local = decode_sockaddr_storage(fds[r.fd].name)
    BY <1>1 DEF Named
  <2>2. s.local = decode_sockaddr_storage(fds[s.fd].name)
    BY <1>5
  <2>3. QED
    BY <1>10, <2>1, <2>2
<1>14. PICK mine \in SUBSET (1 .. MaxFds) : mine = Holds(t)
  BY DEF UdpInv
<1>15. /\ Holds(t)' = mine /\ mine \subseteq Holds(t)
       /\ DOMAIN fds' = (DOMAIN fds \ Holds(t)) \cup mine /\ \A f \in DOMAIN fds' : fds'[f] = fds[f]
  <2>1. Holds(t) \subseteq DOMAIN fds
    BY DEF UdpInv
  <2>2. QED
    BY <1>1, <1>11, <1>14, <2>1
<1>16. binding'[t].at # "name"
  BY <1>8, <1>9
<1>17. QED
  BY <1>8, <1>9, <1>10, <1>12, <1>13, <1>15, <1>16, KeepsMine

LEMMA BindFailsKeeps ==
    ASSUME UdpInv, NEW t \in UdpThreads, BindFails(t)
    PROVE  UdpInv'
<1>1. /\ Owns(binding[t], Mine(t)) /\ Named(t) /\ Apart(t) /\ binding' = [binding EXCEPT ![t] = NotBinding]
      /\ DOMAIN sockets = UdpThreads /\ sockets' = sockets
      /\ fds' = Closed({binding[t].fd} \cup {s.fd : s \in binding[t].first})
  BY DEF UdpInv, BindFails
<1>2. /\ DOMAIN binding' = UdpThreads /\ binding'[t] = NotBinding
      /\ \A u \in UdpThreads \ {t} : binding'[u] = binding[u]
  BY <1>1, SetBinding
<1>3. Mine(t)' = sockets[t] /\ Apart(t)'
  BY <1>1, <1>2, NotBindingIs DEF Mine, Apart
<1>4. sockets[t] \subseteq Mine(t) /\ binding[t].first \subseteq Mine(t) /\ Mine(t) = sockets[t] \cup binding[t].first
  BY DEF Mine
<1>5. \A f : f \in Holds(t)' <=> \E s \in sockets[t] : f = s.fd
  <2>1. \A f : f \in Holds(t)' <=> (\E s \in Mine(t)' : f = s.fd) \/ (f = binding'[t].fd /\ f # 0)
    BY DEF Holds, Mine
  <2>2. binding'[t].fd = 0
    BY <1>2, NotBindingIs
  <2>3. QED
    BY <1>3, <2>1, <2>2
<1>6. Holds(t)' \subseteq Holds(t)
  BY <1>4, <1>5, HoldsAre, ZenonT(30)
<1>7. PICK mine \in SUBSET (1 .. MaxFds) : mine = Holds(t)'
  BY <1>6 DEF UdpInv
<1>8. \A f \in DOMAIN fds : f \in DOMAIN fds' <=> f \notin Holds(t) \/ f \in mine
  <2>1. \A f : f \in DOMAIN fds' <=>
                 f \in DOMAIN fds /\ f # binding[t].fd /\ \A s \in binding[t].first : f # s.fd
    BY <1>1 DEF Closed
  <2>2. ASSUME NEW f \in DOMAIN fds, f \in DOMAIN fds', f \in Holds(t) PROVE f \in mine
    <3>1. f # binding[t].fd /\ \A s \in binding[t].first : f # s.fd
      BY <2>1, <2>2
    <3>2. PICK s \in Mine(t) : f = s.fd
      BY <2>2, <3>1, HoldsAre
    <3>3. s \in sockets[t]
      BY <1>4, <3>1, <3>2
    <3>4. QED
      BY <1>5, <1>7, <3>2, <3>3
  <2>3. ASSUME NEW f \in DOMAIN fds, f \in mine PROVE f \in DOMAIN fds'
    <3>1. PICK s \in sockets[t] : f = s.fd
      BY <1>5, <1>7, <2>3
    <3>2. s.fd # binding[t].fd /\ \A r \in binding[t].first : s.fd = r.fd => s = r
      BY <1>1, <1>4 DEF Owns
    <3>3. s \notin binding[t].first
      BY <1>1 DEF Apart
    <3>4. QED
      BY <2>1, <3>1, <3>2, <3>3
  <2>4. ASSUME NEW f \in DOMAIN fds, f \notin Holds(t) PROVE f \in DOMAIN fds'
    <3>1. 0 \notin DOMAIN fds
      <4>1. 0 \notin 1 .. MaxFds
        BY UdpAssumption, SMT
      <4>2. QED
        BY <4>1 DEF UdpInv
    <3>2. QED
      BY <1>4, <2>1, <2>4, <3>1, HoldsAre
  <2>5. QED
    BY <2>2, <2>3, <2>4
<1>9. /\ DOMAIN fds' = (DOMAIN fds \ Holds(t)) \cup mine /\ \A f \in DOMAIN fds' : fds'[f] = fds[f]
  <2>1. DOMAIN fds' \subseteq DOMAIN fds /\ \A f \in DOMAIN fds' : fds'[f] = fds[f]
    BY <1>1 DEF Closed
  <2>2. \A f \in mine : f \in DOMAIN fds
    BY <1>6, <1>7 DEF UdpInv
  <2>3. QED
    BY <1>8, <2>1, <2>2
<1>10. Owns(binding'[t], Mine(t)')
  <2>1. \A r, s \in Mine(t) : r.fd = s.fd => r = s
    BY <1>1 DEF Owns
  <2>2. \A s \in Mine(t) : s.fd # 0
    BY <1>1 DEF Owns
  <2>3. Owns(NotBinding, sockets[t])
    BY <1>4, <2>1, <2>2, NotBindingIs DEF Owns, BindStates
  <2>4. QED
    BY <1>2, <1>3, <2>3
<1>11. \A s \in Mine(t)' : s.local = decode_sockaddr_storage(fds[s.fd].name)
  BY <1>1, <1>3, <1>4 DEF Named
<1>12. binding'[t].at # "name"
  BY <1>2, NotBindingIs
<1>13. /\ DOMAIN sockets' = UdpThreads /\ mine \subseteq Holds(t) /\ Holds(t)' = mine
       /\ \A u \in UdpThreads \ {t} : sockets'[u] = sockets[u] /\ binding'[u] = binding[u]
  BY <1>1, <1>2, <1>6, <1>7
<1>14. QED
  BY <1>2, <1>3, <1>9, <1>10, <1>11, <1>12, <1>13, KeepsMine

LEMMA DropSocketKeeps ==
    ASSUME UdpInv, NEW t \in UdpThreads, DropSocket(t)
    PROVE  UdpInv'
<1>1. PICK s \in sockets[t] : sockets' = [sockets EXCEPT ![t] = @ \ {s}] /\ fds' = Closed({s.fd})
  BY DEF DropSocket
<1>2. /\ Owns(binding[t], Mine(t)) /\ Named(t) /\ Apart(t) /\ DOMAIN binding = UdpThreads
      /\ DOMAIN sockets = UdpThreads /\ binding' = binding
  BY DEF UdpInv, DropSocket
<1>3. /\ DOMAIN sockets' = UdpThreads /\ sockets'[t] = sockets[t] \ {s}
      /\ \A u \in UdpThreads \ {t} : sockets'[u] = sockets[u]
  BY <1>1, <1>2
<1>4. Mine(t)' = Mine(t) \ {s} /\ Apart(t)' /\ s \in Mine(t)
  BY <1>2, <1>3 DEF Mine, Apart
<1>5. /\ \A q, r \in Mine(t) : q.fd = r.fd => q = r
      /\ \A r \in Mine(t) : r.fd # binding[t].fd /\ r.fd # 0
  BY <1>2 DEF Owns
<1>6. Owns(binding'[t], Mine(t)')
  <2>1. Owns(binding[t], Mine(t) \ {s})
    BY <1>2, <1>5 DEF Owns
  <2>2. QED
    BY <1>2, <1>4, <2>1
<1>7. \A f : f \in Holds(t)' <=> f \in Holds(t) /\ f # s.fd
  <2>1. \A f : f \in Holds(t)' <=> (\E r \in Mine(t)' : f = r.fd) \/ (f = binding'[t].fd /\ f # 0)
    BY DEF Holds, Mine
  <2>2. QED
    BY <1>2, <1>4, <1>5, <2>1, HoldsAre, ZenonT(30)
<1>8. PICK mine \in SUBSET (1 .. MaxFds) : mine = Holds(t)'
  BY <1>7 DEF UdpInv
<1>9. s.fd \in Holds(t)
  BY <1>4, HoldsAre
<1>10. /\ DOMAIN fds' = (DOMAIN fds \ Holds(t)) \cup mine /\ \A f \in DOMAIN fds' : fds'[f] = fds[f]
  <2>1. DOMAIN fds' = DOMAIN fds \ {s.fd} /\ \A f \in DOMAIN fds' : fds'[f] = fds[f]
    BY <1>1 DEF Closed
  <2>2. \A f \in Holds(t) : f \in DOMAIN fds
    BY DEF UdpInv
  <2>3. QED
    BY <1>7, <1>8, <1>9, <2>1, <2>2
<1>11. \A r \in Mine(t)' : r.local = decode_sockaddr_storage(fds[r.fd].name)
  BY <1>2, <1>4 DEF Named
<1>12. /\ mine \subseteq Holds(t) /\ Holds(t)' = mine /\ DOMAIN binding' = UdpThreads
       /\ \A u \in UdpThreads \ {t} : sockets'[u] = sockets[u] /\ binding'[u] = binding[u]
  BY <1>2, <1>3, <1>7, <1>8
<1>13. ASSUME binding'[t].at = "name"
       PROVE  /\ binding'[t].fd \in mine
              /\ fds[binding'[t].fd].name.family = binding'[t].addr.family
  <2>1. binding[t].fd # 0
    BY <1>2, <1>13, BoundFd
  <2>2. binding[t].fd \in Holds(t) /\ binding[t].fd # s.fd
    BY <1>4, <1>5, <2>1, HoldsAre
  <2>3. binding[t].fd \in mine
    BY <1>7, <1>8, <2>2
  <2>4. QED
    BY <1>2, <1>13, <2>3 DEF Named
<1>14. QED
  BY <1>2, <1>3, <1>4, <1>6, <1>10, <1>11, <1>12, <1>13, KeepsMine

LEMMA ThreadKeeps ==
    ASSUME UdpInv, NEW t \in UdpThreads, UdpStep(t)
    PROVE  UdpInv'
<1>1. CASE (\E addr \in UdpAddrs : bind(t, addr)) \/ udp_pair(t)
  BY <1>1, BindCalled
<1>2. CASE SocketCall(t)
  BY <1>2, SocketCallKeeps
<1>3. CASE SetNonblocking(t) \/ SetReuseAddr(t)
  BY <1>3, OptionsSet
<1>4. CASE BindCall(t)
  BY <1>4, BindCallKeeps
<1>5. CASE Own(t)
  BY <1>5, OwnKeeps
<1>6. CASE BindFails(t)
  BY <1>6, BindFailsKeeps
<1>7. CASE DropSocket(t)
  BY <1>7, DropSocketKeeps
<1>8. CASE (\E addr \in UdpAddrs : send_to(t, addr, 2)) \/ (\E room \in 1 .. 2 : recv_from(t, room))
  <2>1. UNCHANGED <<fds, binding, sockets>>
    BY <1>8 DEF send_to, recv_from
  <2>2. QED
    BY <2>1, UdpSame
<1>9. QED
  BY <1>1, <1>2, <1>3, <1>4, <1>5, <1>6, <1>7, <1>8 DEF UdpStep

LEMMA UdpStarts ==
    UdpInit(MaxBinds) => UdpInv /\ NetInv /\ SenderKnown
<1> SUFFICES ASSUME UdpInit(MaxBinds) PROVE UdpInv /\ NetInv /\ SenderKnown
  OBVIOUS
<1>1. /\ DOMAIN fds = {} /\ DOMAIN binding = UdpThreads /\ DOMAIN sockets = UdpThreads
      /\ net = {} /\ heard = {}
  <2>1. fds = <<>>
    BY DEF UdpInit
  <2>2. DOMAIN fds = {}
    BY <2>1, SMT
  <2>3. QED
    BY <2>2 DEF UdpInit
<1>2. ASSUME NEW t \in UdpThreads PROVE binding[t] = NotBinding /\ sockets[t] = {}
  BY DEF UdpInit
<1>3. ASSUME NEW t \in UdpThreads PROVE Mine(t) = {} /\ Holds(t) = {}
  <2>1. binding[t].first = {} /\ binding[t].fd = 0 /\ sockets[t] = {}
    BY <1>2, NotBindingIs
  <2>2. QED
    BY <2>1 DEF Mine, Holds
<1>4. ASSUME NEW t \in UdpThreads PROVE Owns(binding[t], Mine(t)) /\ Named(t) /\ Apart(t)
  <2>1. Owns(NotBinding, {})
    BY NotBindingIs DEF Owns, BindStates
  <2>2. binding[t].at # "name"
    BY <1>2, NotBindingIs
  <2>3. QED
    BY <1>2, <1>3, <2>1, <2>2 DEF Named, Apart
<1>5. UdpInv
  BY <1>1, <1>3, <1>4 DEF UdpInv
<1>6. QED
  BY <1>1, <1>5 DEF NetInv, SenderKnown

(* For every number of threads, descriptors, addresses and calls: an open descriptor    *)
(* belongs to a live socket or to a bind under way, and is still the one its thread      *)
(* opened, whichever system call of UdpSocket::bind or udp_pair fails and however soon   *)
(* another thread is given the closed number.                                           *)
THEOREM DescriptorsAlwaysOwned == UdpSpec => []DescriptorsOwned
<1>1. UdpInit(MaxBinds) => UdpInv
  BY UdpStarts
<1>2. UdpInv /\ [UdpNext]_udpVars => UdpInv'
  <2> SUFFICES ASSUME UdpInv, [UdpNext]_udpVars PROVE UdpInv'
    OBVIOUS
  <2>1. CASE \E t \in UdpThreads : UdpStep(t)
    BY <2>1, ThreadKeeps
  <2>2. CASE LoseDatagram \/ UNCHANGED udpVars
    <3>1. UNCHANGED <<fds, binding, sockets>>
      BY <2>2 DEF LoseDatagram, udpVars
    <3>2. QED
      BY <3>1, UdpSame
  <2>3. QED
    BY <2>1, <2>2 DEF UdpNext
<1>3. UdpInv => DescriptorsOwned
  <2> SUFFICES ASSUME UdpInv PROVE DescriptorsOwned
    OBVIOUS
  <2>1. \A f : f \in DOMAIN fds <=> \E t \in UdpThreads : f \in Holds(t)
    BY DEF UdpInv
  <2>2. ASSUME NEW t \in UdpThreads, NEW f \in Holds(t) PROVE fds[f].by = t
    <3>1. fds[f] = [by |-> t, name |-> fds[f].name]
      BY <2>2 DEF UdpInv
    <3>2. QED
      BY <3>1, OpenedBy
  <2>3. DOMAIN fds = UNION {Holds(t) : t \in UdpThreads}
    BY <2>1
  <2>4. QED
    BY <2>2, <2>3 DEF DescriptorsOwned
<1>4. QED
  BY <1>1, <1>2, <1>3, PTL DEF UdpSpec

-----------------------------------------------------------------------------
(* Datagrams *)

\* A fact of the address conversions alone, of every address that is bound or sent to.
RoundTrip == \A a \in UdpAddrs : decode_sockaddr_storage(BindSockAddr(a)) = a

LEMMA SentIsKnown ==
    ASSUME UdpInv, NetInv, SenderKnown, NEW t \in UdpThreads, NEW addr \in UdpAddrs, send_to(t, addr, 2)
    PROVE  NetInv' /\ SenderKnown'
<1>1. PICK s \in sockets[t] :
        /\ net' = net \cup {[from |-> fds[s.fd].name, to |-> BindSockAddr(addr), len |-> 2]}
        /\ sent' = sent \cup {[from |-> s.local, to |-> addr, len |-> 2]} /\ heard' = heard
  BY DEF send_to
<1>2. s.local = decode_sockaddr_storage(fds[s.fd].name)
  BY DEF UdpInv, Named, Mine
<1>3. PICK d : d = [from |-> fds[s.fd].name, to |-> BindSockAddr(addr), len |-> 2]
  OBVIOUS
<1>4. PICK r : r = [from |-> s.local, to |-> addr, len |-> 2]
  OBVIOUS
<1>5. /\ r \in sent' /\ r.from = decode_sockaddr_storage(d.from) /\ r.to \in UdpAddrs
      /\ d.to = BindSockAddr(r.to) /\ r.len = d.len /\ r.len \in Nat
  <2>1. r.from = s.local /\ r.to = addr /\ r.len = 2 /\ d.from = fds[s.fd].name /\ d.to = BindSockAddr(addr)
        /\ d.len = 2
    BY <1>3, <1>4
  <2>2. 2 \in Nat
    BY SMT
  <2>3. QED
    BY <1>1, <1>2, <1>4, <2>1, <2>2
<1>6. net' = net \cup {d} /\ sent \subseteq sent'
  BY <1>1, <1>3
<1>7. NetInv'
  BY <1>5, <1>6 DEF NetInv
<1>8. SenderKnown'
  BY <1>1, <1>6 DEF SenderKnown
<1>9. QED
  BY <1>7, <1>8

LEMMA HeardIsKnown ==
    ASSUME RoundTrip, UdpInv, NetInv, SenderKnown, NEW t \in UdpThreads, NEW room \in 1 .. 2, recv_from(t, room)
    PROVE  NetInv' /\ SenderKnown'
<1>1. PICK s \in sockets[t], d \in net :
        /\ d.to = fds[s.fd].name /\ net' = net \ {d} /\ sent' = sent
        /\ heard' = heard \cup {[at |-> s.local, from |-> decode_sockaddr_storage(d.from),
                                 len |-> IF d.len < room THEN d.len ELSE room]}
  BY DEF recv_from
<1>2. s.local = decode_sockaddr_storage(d.to)
  <2>1. s.local = decode_sockaddr_storage(fds[s.fd].name)
    BY DEF UdpInv, Named, Mine
  <2>2. QED
    BY <1>1, <2>1
<1>3. PICK r \in sent : /\ r.from = decode_sockaddr_storage(d.from) /\ r.to \in UdpAddrs
                        /\ d.to = BindSockAddr(r.to) /\ r.len = d.len /\ r.len \in Nat
  BY DEF NetInv
<1>4. r.to = s.local
  BY <1>2, <1>3 DEF RoundTrip
<1>5. PICK len : len = IF d.len < room THEN d.len ELSE room
  OBVIOUS
<1>6. len <= r.len
  BY <1>3, <1>5, SMT
<1>7. PICK h : h = [at |-> s.local, from |-> decode_sockaddr_storage(d.from), len |-> len]
  OBVIOUS
<1>8. r.from = h.from /\ r.to = h.at /\ h.len <= r.len
  <2>1. h.at = s.local /\ h.from = decode_sockaddr_storage(d.from) /\ h.len = len
    BY <1>7
  <2>2. QED
    BY <1>3, <1>4, <1>6, <2>1
<1>9. heard' = heard \cup {h}
  BY <1>1, <1>5, <1>7
<1>10. SenderKnown'
  BY <1>1, <1>8, <1>9 DEF SenderKnown
<1>11. NetInv'
  BY <1>1 DEF NetInv
<1>12. QED
  BY <1>10, <1>11

(* If the two conversions are inverse to each other on the addresses in use, every       *)
(* address recv_from returns is the local_addr of a socket that sent to this one: no     *)
(* close, reuse of a number or failed bind lets a socket's local_addr differ from the    *)
(* name its datagrams leave under.                                                      *)
THEOREM SendersAlwaysKnown ==
    ASSUME RoundTrip
    PROVE  UdpSpec => []SenderKnown
<1>1. UdpInit(MaxBinds) => UdpInv /\ NetInv /\ SenderKnown
  BY UdpStarts
<1>2. UdpInv /\ NetInv /\ SenderKnown /\ [UdpNext]_udpVars => (UdpInv /\ NetInv /\ SenderKnown)'
  <2> SUFFICES ASSUME UdpInv, NetInv, SenderKnown, [UdpNext]_udpVars
               PROVE  (UdpInv /\ NetInv /\ SenderKnown)'
    OBVIOUS
  <2>1. ASSUME NEW t \in UdpThreads, UdpStep(t) PROVE NetInv' /\ SenderKnown'
    <3>1. CASE \E addr \in UdpAddrs : send_to(t, addr, 2)
      BY <3>1, SentIsKnown
    <3>2. CASE \E room \in 1 .. 2 : recv_from(t, room)
      BY <3>2, HeardIsKnown
    <3>3. CASE \/ (\E addr \in UdpAddrs : bind(t, addr)) \/ udp_pair(t) \/ SocketCall(t)
               \/ SetNonblocking(t) \/ SetReuseAddr(t) \/ BindCall(t) \/ Own(t) \/ BindFails(t)
               \/ DropSocket(t)
      <4>1. net' = net /\ sent' = sent /\ heard' = heard
        BY <3>3 DEF bind, udp_pair, SocketCall, SetNonblocking, SetReuseAddr, BindCall, Own, BindFails,
                    DropSocket
      <4>2. QED
        BY <4>1 DEF NetInv, SenderKnown
    <3>4. QED
      BY <2>1, <3>1, <3>2, <3>3 DEF UdpStep
  <2>2. ASSUME LoseDatagram \/ UNCHANGED udpVars PROVE UdpInv' /\ NetInv' /\ SenderKnown'
    <3>1. UNCHANGED <<fds, binding, sockets>> /\ net' \subseteq net /\ sent' = sent /\ heard' = heard
      BY <2>2 DEF LoseDatagram, udpVars
    <3>2. QED
      BY <3>1, UdpSame DEF NetInv, SenderKnown
  <2>3. QED
    BY <2>1, <2>2, ThreadKeeps DEF UdpNext
<1>3. QED
  BY <1>1, <1>2, PTL DEF UdpSpec
=============================================================================
