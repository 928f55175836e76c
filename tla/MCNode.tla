------------------------------- MODULE MCNode -------------------------------
(***************************************************************************)
(* Instances of the no_std runtime: the key-value service on shard         *)
(* executors on the CharlotteOS backend, and the completion kernel.  A     *)
(* behaviour is one of either.                                             *)
(***************************************************************************)
EXTENDS NodeKv, CompletionKernel, TLC

CONSTANTS k0, k1, r1, r2

VARIABLE which

MCvars == <<which, nodeVars, kernelVars>>

MCKeyHash == k0 :> 0 @@ k1 :> 1

Scripts(first, second) == r1 :> first @@ r2 :> second

\* Starting and stopping two shards; two requesters of one shard; calls to one and to both of
\* two shards, and a shard with a second task.  Shards with a ring of their own, or sharing
\* queue 0 with each other and the requesters.
MCInit ==
    /\ KernelInit
    /\ \/ /\ which = "kernel" /\ shard_count = 1 /\ rings = 1
          /\ NodeInit(FALSE, FALSE, Scripts(<<>>, <<>>))
       \/ /\ which = "node" /\ shard_count = 2 /\ rings \in {0, 2}
          /\ NodeInit(FALSE, FALSE, Scripts(<<>>, <<>>))
       \/ /\ which = "node" /\ shard_count = 1 /\ rings \in {0, 1}
          /\ NodeInit(TRUE, FALSE, Scripts(<<<<"put", k0>>, <<"get", k0>>>>, <<<<"put", k0>>>>))
       \/ /\ which = "node" /\ shard_count = 2 /\ rings \in {0, 1, 2}
          /\ NodeInit(TRUE, FALSE, Scripts(<<<<"put", k1>>>>, <<>>))
       \/ /\ which = "node" /\ shard_count = 2 /\ rings = 2
          /\ NodeInit(TRUE, FALSE, Scripts(<<<<"len", k1>>>>, <<>>))
       \/ /\ which = "node" /\ shard_count = 1 /\ rings = 1
          /\ NodeInit(TRUE, TRUE, Scripts(<<<<"len", k0>>>>, <<>>))

MCNext ==
    /\ UNCHANGED which
    /\ \/ which = "node" /\ NodeNext /\ UNCHANGED kernelVars
       \/ which = "kernel" /\ KernelNext /\ UNCHANGED nodeVars

\* Threads run on, waits with a deadline end, and the kernel completes what was submitted.
MCFairness ==
    /\ \A s \in 0 .. MaxShards - 1 :
         /\ WF_MCvars(/\ which = "node"
                      /\ ThreadStep(s) \/ ShardStep(s) \/ (IdleWaitElapses(s) /\ KeepService)
                      /\ UNCHANGED <<which, kernelVars>>)
         /\ WF_MCvars(which = "node" /\ KernelCompletes(s) /\ UNCHANGED <<which, kernelVars>>)
    /\ \A a \in Requesters \cup {Owner} :
         WF_MCvars(/\ which = "node"
                   /\ ActorStep(a) \/ (a # Owner /\ ParkElapses(a))
                   /\ UNCHANGED <<which, kernelVars>>)

MCSpec == MCInit /\ [][MCNext]_MCvars /\ MCFairness

=============================================================================
