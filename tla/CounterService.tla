--------------------------- MODULE CounterService ---------------------------
(***************************************************************************)
(* ShardedCounter (counter.rs): the shards of ShardService, each owning an *)
(* i64, here of Width bits.  self.value += delta panics on overflow in a   *)
(* build with overflow checks and wraps around in one without.             *)
(***************************************************************************)
EXTENDS ShardService

CONSTANTS Width, OverflowChecks, Deltas

ASSUME CounterAssumption ==
    /\ Width \in Nat \ {0}
    /\ OverflowChecks \in BOOLEAN
    /\ Deltas \subseteq Int

Half == 2 ^ (Width - 1)
Counters == -Half .. Half - 1

Wrap(x) == ((x + Half) % (2 * Half)) - Half

Add(s, d) == [op |-> "add", shard |-> s, delta |-> d]
Get(s) == [op |-> "get", shard |-> s]

CounterCommands ==
    {Add(s, d) : s \in 0 .. ShardCount, d \in Deltas}
    \cup {Get(s) : s \in 0 .. ShardCount}
    \cup {Stop(s) : s \in Shards}

\* CounterService::add and get.
CounterEffect(m, c) == IF c.op = "add" THEN Wrap(m + c.delta) ELSE m
CounterResult(m, c) == IF c.op = "stop" THEN "done" ELSE CounterEffect(m, c)
CounterPanics(m, c) == c.op = "add" /\ OverflowChecks /\ m + c.delta \notin Counters

\* total and shard_snapshots: a get for every shard.
GetAll == [i \in 1 .. ShardCount |-> Get(i - 1)]

\* A method of AsyncShardedCounter: submitted, then awaited as futures with the counter borrowed.
AsyncCall(commands) == Call(commands, FALSE, TRUE, "async")

\* The calls of the small instance in which shards fail: with counters of two bits the second
\* add on a shard overflows, and one call stops a shard, which Sharded::request_stopped allows
\* to every client.
MCCalls ==
    { Call(<<Add(0, 1)>>, FALSE, TRUE, "block"),
      AsyncCall(<<Add(0, 1)>>),
      Call(GetAll, TRUE, FALSE, "timeout"),
      Call(GetAll, FALSE, FALSE, "poll"),
      Call(<<Stop(0)>>, FALSE, TRUE, "block") }
=============================================================================
