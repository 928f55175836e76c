------------------------- MODULE MCShardedExecutor -------------------------
(***************************************************************************)
(* A small instance of ShardedExecutor: two shards, CPUs 2 and 5, NUMA     *)
(* node 0 for both, and scenarios that pair a configuration with what two  *)
(* clients do.                                                             *)
(***************************************************************************)
EXTENDS ShardedExecutor, TLC

CONSTANTS a, b

MCClients == {a, b}
MCCpus == <<2, 5>>
MCNodeOf == (2 :> 0) @@ (5 :> 0) @@ (9 :> NoNode)

Config(cpu, requireCpu, memory, requireMemory) ==
    [cpu |-> cpu, requireCpu |-> requireCpu, memory |-> memory, requireMemory |-> requireMemory]

Plain == Config(Unpinned, FALSE, DefaultMemory, FALSE)

Mode(kind, timed, group, on) == [kind |-> kind, timed |-> timed, group |-> group, on |-> on]
All == <<0, 1>>
On(s) == <<s, s>>
Local == Mode("local", FALSE, "none", All)
TimedLocal == Mode("local", TRUE, "none", All)
LocalOn(s) == Mode("local", FALSE, "none", On(s))
Map == Mode("futures", FALSE, "own", All)
Foreign == Mode("futures", FALSE, "foreign", All)
Futures == Mode("futures", TRUE, "none", All)
FutureOn(s) == Mode("futures", TRUE, "none", On(s))
Workers == Mode("workers", TRUE, "none", All)
Stopped == Mode("stopped", FALSE, "none", All)
Dropped == Mode("dropped", FALSE, "none", All)
Spawned == Mode("detached", FALSE, "none", All)
SpawnedOn(s) == Mode("detached", FALSE, "none", On(s))

Pair(x, y) == (a :> x) @@ (b :> y)

MCScenarios ==
    {[config |-> k, mode |-> Pair(SpawnedOn(0), Foreign)] :
        k \in { Config(Sequential, TRUE, LocalToCpu, TRUE),
                Config(Explicit(<<5, 2>>), TRUE, Interleave({0, 1}), FALSE),
                Config(Explicit(<<9, 2>>), FALSE, Preferred(0), FALSE),
                Config(Explicit(<<5>>), FALSE, DefaultMemory, FALSE),
                Config(Unpinned, FALSE, Interleave({}), FALSE) }}
    \cup
    {[config |-> Plain, mode |-> m] :
        m \in { Pair(Local, Local), Pair(Futures, LocalOn(1)), Pair(TimedLocal, Map),
                Pair(Map, SpawnedOn(1)), Pair(FutureOn(0), Stopped), Pair(Workers, FutureOn(1)),
                Pair(FutureOn(2), Spawned), Pair(Spawned, Dropped), Pair(LocalOn(0), Futures) }}
=============================================================================
