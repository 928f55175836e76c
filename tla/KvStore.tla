------------------------------ MODULE KvStore ------------------------------
(***************************************************************************)
(* What the sharded key-value store promises: one map.  An accepted        *)
(* command waits for its turn in its partition, takes effect at one        *)
(* moment, and is answered with what it found then.  Commands for the same *)
(* partition, hence for the same key, take effect in the order in which    *)
(* they were accepted; nothing accepted is dropped.                        *)
(***************************************************************************)
EXTENDS KvOperations, Sequences

CONSTANTS Partitions, Place, Commands, Tickets, NoAnswer

VARIABLES
    store,     \* the map
    todo,      \* accepted commands of each partition
    answer     \* answers not yet collected

storeVars == <<store, todo, answer>>

StoreInit ==
    /\ store = EmptyMap
    /\ todo = [s \in Partitions |-> <<>>]
    /\ answer = [t \in Tickets |-> NoAnswer]

\* The ticket t is not in use.
Free(t) ==
    /\ answer[t] = NoAnswer
    /\ \A s \in Partitions : \A i \in DOMAIN todo[s] : todo[s][i].ticket # t

Accept(c, t) ==
    /\ c.shard \in Partitions
    /\ todo' = [todo EXCEPT ![c.shard] = Append(@, [command |-> c, ticket |-> t])]
    /\ UNCHANGED <<store, answer>>

\* What a command sees: len and keys are about one partition.
View(c) ==
    IF c.op \in {"len", "keys"}
    THEN [k \in Keys |-> IF Place[k] = c.shard THEN store[k] ELSE None]
    ELSE store

Execute(s) ==
    LET e == Head(todo[s])
    IN  /\ todo[s] # <<>>
        /\ store' = KvEffect(store, e.command)
        /\ answer' = [answer EXCEPT ![e.ticket] = KvResult(View(e.command), e.command)]
        /\ todo' = [todo EXCEPT ![s] = Tail(@)]

Collect(t) ==
    /\ answer[t] # NoAnswer
    /\ answer' = [answer EXCEPT ![t] = NoAnswer]
    /\ UNCHANGED <<store, todo>>

StoreNext ==
    \/ \E t \in Tickets : Free(t) /\ \E c \in Commands : Accept(c, t)
    \/ \E s \in Partitions : Execute(s)
    \/ \E t \in Tickets : Collect(t)

StoreSpec == StoreInit /\ [][StoreNext]_storeVars
=============================================================================
