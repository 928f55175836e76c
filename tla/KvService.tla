----------------------------- MODULE KvService -----------------------------
(***************************************************************************)
(* ShardedKv (kv_service.rs): the shards of ShardService, each owning a    *)
(* map.  A command for a key goes to the shard that the placement names.   *)
(***************************************************************************)
EXTENDS ShardService, KvOperations

CONSTANT Place    \* the placement: the shard of a key

ASSUME PlaceAssumption == Place \in [Keys -> Nat]

\* The variants of KvCommand.  shard_for_key routes a key by the placement; Len and Keys go to
\* the shard that the caller names.
Get(k) == [op |-> "get", shard |-> Place[k], key |-> k]
Put(k, v) == [op |-> "put", shard |-> Place[k], key |-> k, value |-> v]
CompareAndPut(k, e, v) ==
    [op |-> "compare_and_put", shard |-> Place[k], key |-> k, expected |-> e, value |-> v]
GetOrPut(k, v) == [op |-> "get_or_put", shard |-> Place[k], key |-> k, value |-> v]

\* fault: the placement is not asked.
DeleteOnFirst(k) == [op |-> "delete", shard |-> 0, key |-> k]

Delete(k) == [op |-> "delete", shard |-> Place[k], key |-> k]
LenOn(s) == [op |-> "len", shard |-> s]
KeysOn(s) == [op |-> "keys", shard |-> s]

KvCommands ==
    {Get(k) : k \in Keys}
    \cup {Put(k, v) : k \in Keys, v \in Values}
    \cup {CompareAndPut(k, e, v) : k \in Keys, e \in Values \cup {None}, v \in Values}
    \cup {GetOrPut(k, v) : k \in Keys, v \in Values}
    \cup {Delete(k) : k \in Keys}
    \cup [op : {"len", "keys"}, shard : Nat]
    \cup {Stop(s) : s \in Shards}

ASSUME KvCommandsAssumption == \A c \in Commands : c \in KvCommands

\* No operation of KvService panics.
KvPanics(m, c) == FALSE

\* The service that the shards run is KvService; only shutdown sends it KvCommand::Stop.
ASSUME KvServiceAssumption ==
    /\ States = Maps
    /\ InitialState = EmptyMap
    /\ \A m \in States, c \in Commands : /\ Effect(m, c) = KvEffect(m, c)
                                         /\ Result(m, c) = KvResult(m, c)
                                         /\ ~Panics(m, c)
    /\ \A k \in Calls : \A i \in DOMAIN k.commands : k.commands[i].op # "stop"

\* get_many and delete_many: one command per key, in input order.
GetMany(keys) == [i \in DOMAIN keys |-> Get(keys[i])]
DeleteMany(keys) == [i \in DOMAIN keys |-> Delete(keys[i])]

\* total_len, shard_snapshots and all_keys: one command to every shard, in shard order.
TotalLen == [i \in 1 .. ShardCount |-> LenOn(i - 1)]
AllKeys == [i \in 1 .. ShardCount |-> KeysOn(i - 1)]

\* A method of AsyncShardedKv: the commands are submitted, waiting for room, and the replies
\* awaited as futures, with the store borrowed until the last one is there.
AsyncCall(commands) == Call(commands, FALSE, TRUE, "async")

-----------------------------------------------------------------------------
\* The map that the shards own together,
Map == [k \in Keys |-> IF Place[k] \in Shards THEN state[Place[k]][k] ELSE None]

\* the commands that each has accepted and not yet worked on,
Pending == [s \in Shards |-> (IF spc[s] = "run" THEN <<cur[s]>> ELSE <<>>) \o mailbox[s]]

\* and the answers not yet received,
Answered == [t \in Tickets |-> reply[t].value]

\* are the store behind the shards.
Store == INSTANCE KvStore WITH
    Partitions <- Shards, NoAnswer <- NoValue, store <- Map, todo <- Pending, answer <- Answered

\* However many shards there are and however replies are awaited, ShardedKv behaves like one
\* map: an accepted command takes effect once, in the order of acceptance on its shard, and is
\* answered with what the map held at that moment, also across shutdown.
ImplementsStore == Store!StoreSpec
=============================================================================
