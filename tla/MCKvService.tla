---------------------------- MODULE MCKvService ----------------------------
(***************************************************************************)
(* A small instance of KvService: two keys on two shards, and calls that   *)
(* between them use every operation, every way of waiting, a full mailbox, *)
(* several keys, all shards, and a shard that does not exist.              *)
(***************************************************************************)
EXTENDS KvService, TLC

CONSTANTS k1, k2, a, b

MCKeys == {k1, k2}
MCValues == {a, b}
MCPlace == (k1 :> 0) @@ (k2 :> 1)

MCCalls ==
    { Call(<<Put(k1, a)>>, FALSE, TRUE, "block"),
      AsyncCall(<<CompareAndPut(k1, None, b)>>),
      Call(<<GetOrPut(k2, b)>>, TRUE, FALSE, "timeout"),
      Call(GetMany(<<k2, k1>>), TRUE, FALSE, "poll"),
      Call(DeleteMany(<<k1, k2>>), FALSE, FALSE, "async"),
      Call(AllKeys, FALSE, FALSE, "block"),
      Call(TotalLen, TRUE, FALSE, "poll"),
      Call(<<LenOn(ShardCount)>>, FALSE, TRUE, "block") }

MCCommands == {Stop(s) : s \in Shards} \cup
              UNION {{k.commands[i] : i \in DOMAIN k.commands} : k \in MCCalls}
=============================================================================
