----------------------------- MODULE ShardedTcp -----------------------------
(***************************************************************************)
(* The sharded TCP server (sharded_tcp.rs): start makes the listeners, one *)
(* per shard with SO_REUSEPORT and one for all without, and submits their  *)
(* accept loops; a loop takes a permit of the shard that will handle a     *)
(* connection, and submits its handler there; the permit comes back when   *)
(* the handler's future goes.                                              *)
(*                                                                         *)
(* The shards are those of ShardedExecutor, seen through a submitter: they *)
(* take tasks until they close, and drop the tasks they have then.         *)
(***************************************************************************)
EXTENDS Naturals, Sequences, FiniteSets

CONSTANTS
    Count,        \* shards
    Peers,        \* connections
    HashAddr,     \* hash_addr_to_shard of each peer's address
    Setups,       \* configurations: [reusePort, limit, cpus, port]
    NoOne

Shard == 0 .. Count - 1

ASSUME TcpAssumption ==
    /\ Count \in Nat /\ IsFiniteSet(Peers) /\ HashAddr \in [Peers -> Shard]
    /\ \A x \in Setups : x.limit \in Nat

VARIABLES
    setup,        \* ShardedTcpConfig, and the port of bind_addr
    starter,      \* where the thread that calls start is
    making,       \* the shard whose listener is made or whose loop is submitted
    socket,       \* how far create_listener is with the open descriptor, 0 without one
    listener,     \* per shard: the port its listener is bound to, or NoOne
    loop,         \* per shard: its accept loop
    taken,        \* per shard: the connection its loop has accepted
    seen,         \* per shard: the count that try_acquire has loaded
    queue,        \* per shard: connections its listener holds
    count,        \* connection_counts
    peer,         \* per connection: what became of it
    stopToken,    \* the stop token is set
    closed        \* shards whose executor has closed

startVars == <<setup, starter, making, socket, listener>>
loopVars == <<loop, taken, seen>>
connVars == <<queue, count, peer>>
tcpVars == <<startVars, loopVars, connVars, stopToken, closed>>

TcpInit(place, setups) ==
    /\ setup \in setups
    /\ starter = place
    /\ making = 0
    /\ socket = 0
    /\ listener = [s \in Shard |-> NoOne]
    /\ loop = [s \in Shard |-> "none"]
    /\ taken = [s \in Shard |-> NoOne]
    /\ seen = [s \in Shard |-> 0]
    /\ queue = [s \in Shard |-> {}]
    /\ count = [s \in Shard |-> 0]
    /\ peer = [p \in Peers |-> "away"]
    /\ stopToken = FALSE
    /\ closed = {}

-----------------------------------------------------------------------------
(* start *)

\* The shards that listen.
Listening == IF setup.reusePort THEN Shard ELSE {0}

\* max_connections_per_shard is not zero, and explicit CPUs cover the shards.
SetupValid == setup.limit > 0 /\ (setup.cpus = <<>> \/ Len(setup.cpus) >= Count)

Start ==
    /\ starter = "called"
    /\ starter' = IF SetupValid THEN "making" ELSE "failed"
    /\ UNCHANGED <<setup, making, socket, listener, loopVars, connVars, stopToken, closed>>

\* The options that are set: SO_INCOMING_CPU only for a listener that has a CPU.
SocketOptions ==
    <<"SO_REUSEADDR">>
    \o (IF setup.reusePort THEN <<"SO_REUSEPORT">> ELSE <<>>)
    \o (IF setup.cpus # <<>> THEN <<"SO_INCOMING_CPU">> ELSE <<>>)

\* The system calls of create_listener.
Made == Len(<<"socket", "O_NONBLOCK">> \o SocketOptions \o <<"bind", "listen">>)

SocketStep ==
    /\ starter = "making"
    /\ making \in Listening
    /\ socket < Made
    /\ socket' = socket + 1
    /\ UNCHANGED <<setup, starter, making, listener, loopVars, connVars, stopToken, closed>>

\* start returns an error: the listeners made so far are dropped.
FailStart(after) ==
    /\ starter' = "failed"
    /\ socket' = after
    /\ listener' = [s \in Shard |-> IF loop[s] = "none" THEN NoOne ELSE listener[s]]
    /\ UNCHANGED <<setup, making, loopVars, connVars, closed>>

\* Each of them may fail, and closes the descriptor first; so may local_addr, which is asked for
\* the port the kernel chose.
SocketStepFails ==
    /\ starter = "making"
    /\ making \in Listening
    /\ socket < Made \/ (making = 0 /\ setup.port = 0)
    /\ FailStart(0)
    /\ UNCHANGED stopToken

\* The port a listener gets.  Port 0 lets the kernel choose, and the first listener's choice is
\* the address of the others.
BoundPort ==
    CASE setup.port # 0 -> setup.port
      [] setup.port = 0 /\ making = 0 -> 1000
      [] OTHER -> listener[0]

KeepListener ==
    /\ starter = "making"
    /\ socket = Made
    /\ listener' = [listener EXCEPT ![making] = BoundPort]
    /\ socket' = 0
    /\ IF making + 1 \in Listening
       THEN making' = making + 1 /\ UNCHANGED starter
       ELSE making' = 0 /\ starter' = "submitting"
    /\ UNCHANGED <<setup, loopVars, connVars, stopToken, closed>>

\* The accept loop of the next listener is submitted to its shard.
SubmitLoop ==
    /\ starter = "submitting"
    /\ making \notin closed
    /\ loop' = [loop EXCEPT ![making] = "accepting"]
    /\ IF making + 1 \in Listening
       THEN making' = making + 1 /\ UNCHANGED starter
       ELSE starter' = "started" /\ UNCHANGED making
    /\ UNCHANGED <<setup, socket, listener, taken, seen, connVars, stopToken, closed>>

\* The shard has closed: the loops that run already are told to stop.
SubmitLoopFails ==
    /\ starter = "submitting"
    /\ making \in closed
    /\ FailStart(0)
    /\ stopToken' = TRUE

-----------------------------------------------------------------------------
(* Accept loops *)

\* The shard that handles connection p of shard s's listener.
Target(s, p) == IF setup.reusePort THEN s ELSE HashAddr[p]

\* race takes a connection before it looks at the stop token.
AcceptPeer(s) ==
    /\ loop[s] = "accepting"
    /\ \E p \in queue[s] :
         /\ queue' = [queue EXCEPT ![s] = @ \ {p}]
         /\ taken' = [taken EXCEPT ![s] = p]
         /\ peer' = [peer EXCEPT ![p] = "accepted"]
    /\ loop' = [loop EXCEPT ![s] = "loading"]
    /\ UNCHANGED <<startVars, seen, count, stopToken, closed>>

\* The loop is over and its listener closed, with the connections nobody accepted.
EndLoop(s, waiting) ==
    /\ loop' = [loop EXCEPT ![s] = "ended"]
    /\ listener' = [listener EXCEPT ![s] = NoOne]
    /\ queue' = [queue EXCEPT ![s] = {}]
    /\ peer' = [p \in Peers |-> IF p \in waiting THEN "reset" ELSE peer[p]]
    /\ UNCHANGED <<setup, starter, making, socket, stopToken>>

LoopStops(s) ==
    /\ loop[s] = "accepting"
    /\ queue[s] = {}
    /\ stopToken
    /\ EndLoop(s, {})
    /\ UNCHANGED <<taken, seen, count, closed>>

\* An accept error is recorded, and ends the loop.
LoopFails(s) ==
    /\ loop[s] = "accepting"
    /\ EndLoop(s, queue[s])
    /\ UNCHANGED <<taken, seen, count, closed>>

\* ConnectionPermit::try_acquire loads the count and gives up at the limit; the stream is
\* dropped.
LoadCount(s) ==
    LET t == Target(s, taken[s]) IN
    /\ loop[s] = "loading"
    /\ IF count[t] >= setup.limit
       THEN /\ loop' = [loop EXCEPT ![s] = "accepting"]
            /\ taken' = [taken EXCEPT ![s] = NoOne]
            /\ peer' = [peer EXCEPT ![taken[s]] = "rejected"]
            /\ UNCHANGED seen
       ELSE /\ loop' = [loop EXCEPT ![s] = "swapping"]
            /\ seen' = [seen EXCEPT ![s] = count[t]]
            /\ UNCHANGED <<taken, peer>>
    /\ UNCHANGED <<startVars, queue, count, stopToken, closed>>

\* fault: a store instead of the compare-exchange.
SwapCountBlind(s) ==
    /\ loop[s] = "swapping"
    /\ loop' = [loop EXCEPT ![s] = "permitted"]
    /\ count' = [count EXCEPT ![Target(s, taken[s])] = seen[s] + 1]
    /\ UNCHANGED <<startVars, taken, seen, queue, peer, stopToken, closed>>

\* The compare-exchange, which a handler that ends meanwhile makes fail.
SwapCount(s) ==
    LET t == Target(s, taken[s]) IN
    /\ loop[s] = "swapping"
    /\ IF count[t] = seen[s]
       THEN /\ loop' = [loop EXCEPT ![s] = "permitted"]
            /\ count' = [count EXCEPT ![t] = @ + 1]
       ELSE /\ loop' = [loop EXCEPT ![s] = "loading"]
            /\ UNCHANGED count
    /\ UNCHANGED <<startVars, taken, seen, queue, peer, stopToken, closed>>

\* ConnectionPermit::drop
DropPermit(t) == count' = [count EXCEPT ![t] = @ - 1]

\* The handler is made and submitted; a closed shard refuses it, and the future is dropped
\* with its permit.
SubmitHandler(s) ==
    LET t == Target(s, taken[s]) IN
    /\ loop[s] = "permitted"
    /\ loop' = [loop EXCEPT ![s] = "accepting"]
    /\ taken' = [taken EXCEPT ![s] = NoOne]
    /\ IF t \in closed
       THEN DropPermit(t) /\ peer' = [peer EXCEPT ![taken[s]] = "unhandled"]
       ELSE peer' = [peer EXCEPT ![taken[s]] = "handled"] /\ UNCHANGED count
    /\ UNCHANGED <<startVars, seen, queue, stopToken, closed>>

\* make_handler panics: the permit is dropped, and the loop's task ends with the panic.
MakeHandlerPanics(s) ==
    /\ loop[s] = "permitted"
    /\ DropPermit(Target(s, taken[s]))
    /\ taken' = [taken EXCEPT ![s] = NoOne]
    /\ EndLoop(s, queue[s] \cup {taken[s]})
    /\ UNCHANGED <<seen, closed>>

-----------------------------------------------------------------------------
(* Handlers, peers and shards *)

\* The shard of peer p's handler; with SO_REUSEPORT the loop that took it is on the same shard.
Handled(s) == {p \in Peers : peer[p] = "handled" /\ HashAddr[p] = s}

\* A handler's future goes, after its last poll or a panic, and takes the permit along.
HandlerGoes(p) ==
    /\ peer[p] = "handled"
    /\ DropPermit(HashAddr[p])
    /\ peer' = [peer EXCEPT ![p] = "served"]
    /\ UNCHANGED <<startVars, loopVars, queue, stopToken, closed>>

\* A peer connects to the port; the kernel gives it to one of the listeners.
ConnectPeer(p) ==
    /\ peer[p] = "away"
    /\ \E s \in Shard :
         /\ listener[s] # NoOne
         /\ setup.reusePort => s = HashAddr[p]
         /\ queue' = [queue EXCEPT ![s] = @ \cup {p}]
    /\ peer' = [peer EXCEPT ![p] = "waiting"]
    /\ UNCHANGED <<startVars, loopVars, count, stopToken, closed>>

\* ShardedTcpServerHandle::stop
StopServer ==
    /\ starter = "started"
    /\ ~stopToken
    /\ stopToken' = TRUE
    /\ UNCHANGED <<startVars, loopVars, connVars, closed>>

\* The shard's executor stops between two polls and drops its tasks: the accept loop, and
\* handlers with their permits.
CloseShard(s) ==
    /\ s \notin closed
    /\ starter \in {"submitting", "started", "failed"}
    /\ loop[s] \in {"none", "accepting", "ended"}
    /\ closed' = closed \cup {s}
    /\ count' = [count EXCEPT ![s] = @ - Cardinality(Handled(s))]
    /\ peer' = [p \in Peers |-> IF p \in Handled(s) \cup queue[s] THEN "reset" ELSE peer[p]]
    /\ queue' = [queue EXCEPT ![s] = {}]
    /\ loop' = [loop EXCEPT ![s] = IF @ = "none" THEN "none" ELSE "ended"]
    /\ listener' = [listener EXCEPT ![s] = IF loop[s] = "none" THEN @ ELSE NoOne]
    /\ UNCHANGED <<setup, starter, making, socket, taken, seen, stopToken>>

-----------------------------------------------------------------------------
StarterStep ==
    \/ Start
    \/ SocketStep
    \/ SocketStepFails
    \/ KeepListener
    \/ SubmitLoop
    \/ SubmitLoopFails

LoopStep(s) ==
    \/ AcceptPeer(s)
    \/ LoopStops(s)
    \/ LoadCount(s)
    \/ SwapCount(s)
    \/ SubmitHandler(s)
    \/ MakeHandlerPanics(s)

TcpNext ==
    \/ StarterStep
    \/ \E s \in Shard : LoopStep(s) \/ LoopFails(s) \/ CloseShard(s)
    \/ \E p \in Peers : HandlerGoes(p) \/ ConnectPeer(p)
    \/ StopServer

TcpSpec == TcpInit("called", Setups) /\ [][TcpNext]_tcpVars

-----------------------------------------------------------------------------
(* Properties *)

\* The connections that hold a permit of shard s: their handler runs, or is about to.
Permits(s) ==
    Handled(s) \cup {taken[r] : r \in {q \in Shard : loop[q] = "permitted" /\ Target(q, taken[q]) = s}}

\* A shard's connection count is the number of permits that are out, and within the limit, with
\* handlers that end, panic, are refused or are dropped with their shard while accept loops
\* count (ConnectionPermit, run_handler_with_permit).
CountsExact == \A s \in Shard : count[s] = Cardinality(Permits(s)) /\ count[s] <= setup.limit

=============================================================================
