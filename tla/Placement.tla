----------------------------- MODULE Placement -----------------------------
(***************************************************************************)
(* Where shard threads run (sharded_executor/affinity.rs): the CPU that a  *)
(* policy names for a shard, the checks made before a thread exists, and   *)
(* what a thread reports after it has asked the operating system.  The     *)
(* operating system's answer is a parameter: it may refuse.                *)
(***************************************************************************)
EXTENDS Integers, Sequences, FiniteSets

CONSTANTS
    AvailableCpus,    \* sched_getaffinity: a sequence of CPU numbers
    CpuSetSize,       \* CPU_SETSIZE: CPUs that fit the mask
    NodeSetSize,      \* NODE_SETSIZE: NUMA nodes that fit the mask
    NodeOf,           \* the NUMA node that /sys shows for a CPU, or NoNode
    NoNode,
    NoCpu

ASSUME PlacementAssumption ==
    /\ AvailableCpus \in Seq(Nat)
    /\ CpuSetSize \in Nat
    /\ NodeSetSize \in Nat
    /\ NoNode \notin Nat
    /\ NoCpu \notin Nat

-----------------------------------------------------------------------------
(* CpuPlacement *)

Unpinned == [policy |-> "unpinned"]
Sequential == [policy |-> "sequential"]
Explicit(cpus) == [policy |-> "explicit", cpus |-> cpus]

\* cpu_for_shard: shards count from 0, and wrap around the available CPUs.
CpuForShard(p, shard) ==
    CASE p.policy = "unpinned" -> NoCpu
      [] p.policy = "sequential" ->
           IF AvailableCpus = <<>> THEN shard
           ELSE AvailableCpus[(shard % Len(AvailableCpus)) + 1]
      [] p.policy = "explicit" ->
           IF shard < Len(p.cpus) THEN p.cpus[shard + 1] ELSE NoCpu

\* validate: an explicit placement has a CPU for every shard.
CoversShards(p, count) == p.policy = "explicit" => Len(p.cpus) >= count

\* validate_against_available_cpus: and the process may use each of them.
WithinProcess(p, count) ==
    p.policy = "explicit" =>
      /\ Len(p.cpus) >= count
      /\ \A i \in 1 .. count : \E j \in DOMAIN AvailableCpus : AvailableCpus[j] = p.cpus[i]

-----------------------------------------------------------------------------
(* MemoryPlacement *)

DefaultMemory == [policy |-> "default"]
LocalToCpu == [policy |-> "local"]
Bind(n) == [policy |-> "bind", nodes |-> {n}]
Preferred(n) == [policy |-> "preferred", nodes |-> {n}]
Interleave(ns) == [policy |-> "interleave", nodes |-> ns]

\* MemoryPlacement::validate
MemoryValid(m) == m.policy = "interleave" => m.nodes # {}

-----------------------------------------------------------------------------
(* What a shard thread reports *)

\* apply_to_current_thread: a CPU beyond the mask is never offered to the system.
ApplyCpu(cpu, accepted) ==
    CASE cpu = NoCpu -> [status |-> "unpinned", cpu |-> NoCpu, node |-> NoNode]
      [] cpu # NoCpu /\ cpu < CpuSetSize /\ accepted ->
           [status |-> "applied", cpu |-> cpu, node |-> NodeOf[cpu]]
      [] OTHER -> [status |-> "failed", cpu |-> cpu, node |-> NoNode]

\* The policy that apply_memory_to_current_thread asks for; a local policy needs the node of a
\* CPU that was applied (CpuPlacementStatus::numa_node).
ResolveMemory(m, cpu) ==
    IF m.policy = "local"
    THEN IF cpu.node = NoNode THEN NoNode ELSE Bind(cpu.node)
    ELSE m

\* platform::apply_memory_to_current_thread: every node must fit the mask.
ApplyMemory(m, cpu, accepted) ==
    LET resolved == ResolveMemory(m, cpu) IN
    CASE m.policy = "default" -> [status |-> "default", policy |-> m]
      [] m.policy # "default" /\ resolved = NoNode -> [status |-> "failed", policy |-> m]
      [] m.policy # "default" /\ resolved # NoNode ->
           IF (\A n \in resolved.nodes : n < NodeSetSize) /\ accepted
           THEN [status |-> "applied", policy |-> resolved]
           ELSE [status |-> "failed", policy |-> m]

\* CpuPlacementStatus::is_applied and MemoryPlacementStatus::is_applied
IsApplied(status) == status.status = "applied"
=============================================================================
