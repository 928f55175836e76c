----------------------------- MODULE IndexBuild -----------------------------
(***************************************************************************)
(* The index builds: in memory over channels (mailbox_index.rs) and with   *)
(* the mailboxes of work units (examples/sharded_index_mailbox.rs).        *)
(* Scanners route the records of their partition, in batches, to the       *)
(* assembler of each key; assemblers sort what they get into runs; the     *)
(* coordinator merges the runs and verifies the index.  Channels and       *)
(* mailboxes are the bounded queues that RingChannel and ShardMailbox      *)
(* implement; a full one makes its sender try again.  IndexRuns adds the   *)
(* build that goes through run files.                                      *)
(***************************************************************************)
EXTENDS Naturals, Sequences, SequencesExt, FiniteSets, TLC

CONSTANTS
    SHARD_COUNT,           \* the scanners
    ASSEMBLER_COUNT,
    RecordKeys,            \* the key of each record of the data set, in order
    SEND_BATCH_ENTRIES,
    CHANNEL_CAPACITY

VARIABLES
    build,                 \* "channels", "mailboxes", "files" or "uring"; "none": no build
    scanner,               \* per scanner: [at, record, batches, to, outbox]
    inbox,                 \* per assembler: queued messages
    assembler,             \* per assembler: [at, entries, producers_done]
    results,               \* the result channel, or the values of the task handles: runs
    runs_taken,            \* runs the coordinator has
    outcome                \* of the build, with the index

indexVars == <<build, scanner, inbox, assembler, results, runs_taken, outcome>>

host == build = "mailboxes"

RECORD_COUNT == Len(RecordKeys)
ScannerIds == 0 .. SHARD_COUNT - 1
Units == 0 .. ASSEMBLER_COUNT - 1

\* record_key, record_from_bytes: an entry points at its record.
Entry(record) == [key |-> RecordKeys[record + 1], offset |-> record]

\* The derived order of IndexEntry
Before(e, f) == e.key < f.key \/ (e.key = f.key /\ e.offset \leq f.offset)

InOrder(entries) == \A i \in 1 .. Len(entries) - 1 : Before(entries[i], entries[i + 1])

\* sort_unstable; no two entries are equal.
Sorted(entries) == SortSeq(entries, Before)

\* partition_for, Partition::for_shard
PartitionFor(s, shards) ==
    LET base == RECORD_COUNT \div shards
        remainder == RECORD_COUNT % shards
        start == s * base + (IF s < remainder THEN s ELSE remainder)
    IN  [start |-> start, end |-> start + base + (IF s < remainder THEN 1 ELSE 0)]

\* shard_for_hash, WorkUnitRouter::route
UnitFor(key) == key % ASSEMBLER_COUNT

IndexInit ==
    /\ scanner = [s \in ScannerIds |->
                    [at |-> IF host THEN "starting" ELSE "scan", record |-> PartitionFor(s, SHARD_COUNT).start,
                     batches |-> [u \in Units |-> <<>>], to |-> 0, outbox |-> <<>>]]
    /\ inbox = [u \in Units |-> <<>>]
    /\ assembler = [u \in Units |-> [at |-> IF host THEN "starting" ELSE "receiving",
                                   entries |-> <<>>, producers_done |-> 0]]
    /\ results = <<>> /\ runs_taken = <<>>
    /\ outcome = [is |-> "running"]

-----------------------------------------------------------------------------
(* Scanners *)

Entries(batch) == [kind |-> "entries", batch |-> batch]
ProducerDone == [kind |-> "done", batch |-> <<>>]

\* A sender to every work unit is taken, whether or not its receiver is.
OpenSenders(s) ==
    /\ scanner[s].at = "starting"
    /\ scanner' = [scanner EXCEPT ![s].at = "scan"]
    /\ UNCHANGED <<build, inbox, assembler, results, runs_taken, outcome>>

\* The next record goes into the batch of its assembler, and a full batch is to be sent.
ScanRecord(s) ==
    LET record == scanner[s].record
        to == UnitFor(Entry(record).key)
        batch == Append(scanner[s].batches[to], Entry(record))
        full == Len(batch) = SEND_BATCH_ENTRIES
    IN  /\ scanner[s].at = "scan" /\ scanner[s].outbox = <<>>
        /\ record < PartitionFor(s, SHARD_COUNT).end
        /\ scanner' = [scanner EXCEPT ![s].record = @ + 1,
                                      ![s].batches[to] = IF full THEN <<>> ELSE batch,
                                      ![s].outbox = IF full THEN <<<<to, Entries(batch)>>>> ELSE <<>>]
        /\ UNCHANGED <<build, inbox, assembler, results, runs_taken, outcome>>

\* A read of the data file fails: the task of the host build ends with the error.
ScanFails(s) ==
    /\ host
    /\ scanner[s].at = "scan" /\ scanner[s].outbox = <<>>
    /\ scanner' = [scanner EXCEPT ![s].at = "failed"]
    /\ UNCHANGED <<build, inbox, assembler, results, runs_taken, outcome>>

\* The partition is scanned: the partial batches,
EndScan(s) ==
    /\ scanner[s].at = "scan" /\ scanner[s].outbox = <<>>
    /\ scanner[s].record = PartitionFor(s, SHARD_COUNT).end
    /\ scanner' = [scanner EXCEPT ![s].at = "flush"]
    /\ UNCHANGED <<build, inbox, assembler, results, runs_taken, outcome>>

Flush(s) ==
    LET to == scanner[s].to
        batch == scanner[s].batches[to]
    IN  /\ scanner[s].at = "flush" /\ scanner[s].outbox = <<>>
        /\ scanner' = [scanner EXCEPT ![s].outbox = IF batch = <<>> THEN <<>> ELSE <<<<to, Entries(batch)>>>>,
                                      ![s].at = IF to + 1 = ASSEMBLER_COUNT THEN "signal" ELSE "flush",
                                      ![s].to = (to + 1) % ASSEMBLER_COUNT]
        /\ UNCHANGED <<build, inbox, assembler, results, runs_taken, outcome>>

\* and then the end, to every assembler.
SignalDone(s) ==
    LET to == scanner[s].to IN
    /\ scanner[s].at = "signal" /\ scanner[s].outbox = <<>>
    /\ scanner' = [scanner EXCEPT ![s].outbox = <<<<to, ProducerDone>>>>,
                                  ![s].at = IF to + 1 = ASSEMBLER_COUNT THEN "done" ELSE "signal",
                                  ![s].to = (to + 1) % ASSEMBLER_COUNT]
    /\ UNCHANGED <<build, inbox, assembler, results, runs_taken, outcome>>

\* A ring keeps one of its slots free.
Room == IF host THEN CHANNEL_CAPACITY ELSE CHANNEL_CAPACITY - 1

\* send_message, once there is room
SendMessage(s) ==
    /\ scanner[s].outbox # <<>>
    /\ LET to == scanner[s].outbox[1][1] IN
       /\ Len(inbox[to]) < Room
       /\ inbox' = [inbox EXCEPT ![to] = Append(@, scanner[s].outbox[1][2])]
    /\ scanner' = [scanner EXCEPT ![s].outbox = <<>>]
    /\ UNCHANGED <<build, assembler, results, runs_taken, outcome>>

-----------------------------------------------------------------------------
(* Assemblers *)

\* receiver_for_current_shard, by the task of the work unit on its shard
TakeUnitReceiver(u) ==
    /\ assembler[u].at = "starting"
    /\ assembler' = [assembler EXCEPT ![u].at = "receiving"]
    /\ UNCHANGED <<build, scanner, inbox, results, runs_taken, outcome>>

Receives(u) == assembler[u].at = "receiving" /\ assembler[u].producers_done < SHARD_COUNT

\* assembler_task: a message is received
ReceiveMessage(u) ==
    /\ Receives(u)
    /\ inbox[u] # <<>>
    /\ LET message == Head(inbox[u]) IN
       assembler' = [assembler EXCEPT ![u].entries = @ \o message.batch,
                                      ![u].producers_done = @ + (IF message.kind = "done" THEN 1 ELSE 0)]
    /\ inbox' = [inbox EXCEPT ![u] = Tail(@)]
    /\ UNCHANGED <<build, scanner, results, runs_taken, outcome>>

\* until all producers are done; the sorted run is handed over (send_run), or written to its
\* file and returned by the task.
DeliverRun(u) ==
    /\ assembler[u].at = "receiving" /\ ~Receives(u)
    /\ assembler' = [assembler EXCEPT ![u].at = "delivered"]
    /\ results' = Append(results, [unit |-> u, entries |-> Sorted(assembler[u].entries)])
    /\ UNCHANGED <<build, scanner, inbox, runs_taken, outcome>>

\* Writing the run file fails.
AssembleFails(u) ==
    /\ host
    /\ assembler[u].at = "receiving" /\ ~Receives(u)
    /\ assembler' = [assembler EXCEPT ![u].at = "failed"]
    /\ UNCHANGED <<build, scanner, inbox, results, runs_taken, outcome>>

-----------------------------------------------------------------------------
(* The coordinator *)

\* The exclusive or of the offsets, bit by bit
XorAll(offsets) ==
    [b \in {n \in 0 .. RECORD_COUNT : 2 ^ n < RECORD_COUNT} |->
       Cardinality({i \in DOMAIN offsets : (offsets[i] \div 2 ^ b) % 2 = 1}) % 2]

PointsToItsRecord(e) == e.offset < RECORD_COUNT /\ e.key = RecordKeys[e.offset + 1]

\* verify_runs, of runs and what they merge to
VerifyRuns(taken, merged) ==
    /\ \A i \in DOMAIN taken : InOrder(taken[i].entries)
    /\ Len(merged) = RECORD_COUNT
    /\ InOrder(merged)
    /\ Len(taken) = ASSEMBLER_COUNT /\ {taken[i].unit : i \in DOMAIN taken} = Units
    /\ \A i \in DOMAIN merged : PointsToItsRecord(merged[i])
    /\ XorAll([i \in DOMAIN merged |-> merged[i].offset]) = XorAll([i \in 1 .. RECORD_COUNT |-> i - 1])

\* verify_index_file
VerifyIndexFile(index) ==
    /\ InOrder(index)
    /\ \A i \in DOMAIN index : PointsToItsRecord(index[i])
    /\ Len(index) = RECORD_COUNT

\* The result channel is polled until every run is there;
CollectRun ==
    /\ build = "channels" /\ outcome.is = "running"
    /\ results # <<>> /\ Len(runs_taken) < ASSEMBLER_COUNT
    /\ runs_taken' = Append(runs_taken, Head(results))
    /\ results' = Tail(results)
    /\ UNCHANGED <<build, scanner, inbox, assembler, outcome>>

\* the host waits for the handles of the scanners, then those of the assemblers, each in order,
JoinTasks ==
    /\ host /\ outcome.is = "running" /\ runs_taken = <<>>
    /\ LET failed == {s \in ScannerIds : scanner[s].at = "failed"}
           ended(s) == scanner[s].at = "done" /\ scanner[s].outbox = <<>>
           broken == {u \in Units : assembler[u].at = "failed"}
           OfUnit(u) == CHOOSE r \in Range(results) : r.unit = u
       IN  \/ /\ \E s \in failed : \A t \in 0 .. s - 1 : ended(t)
              /\ outcome' = [is |-> "error"]
              /\ UNCHANGED runs_taken
           \/ /\ \A s \in ScannerIds : ended(s)
              /\ \E u \in broken : \A v \in 0 .. u - 1 : assembler[v].at = "delivered"
              /\ outcome' = [is |-> "error"]
              /\ UNCHANGED runs_taken
           \/ /\ \A s \in ScannerIds : ended(s)
              /\ \A u \in Units : assembler[u].at = "delivered"
              /\ runs_taken' = [i \in 1 .. ASSEMBLER_COUNT |-> OfUnit(i - 1)]
              /\ UNCHANGED outcome
    /\ UNCHANGED <<build, scanner, inbox, assembler, results>>

\* and the runs are merged.
StartMerge ==
    /\ outcome.is = "running" /\ Len(runs_taken) = ASSEMBLER_COUNT
    /\ outcome' = [is |-> "merging", index |-> <<>>,
                   left |-> [i \in DOMAIN runs_taken |-> runs_taken[i].entries]]
    /\ UNCHANGED <<build, scanner, inbox, assembler, results, runs_taken>>

\* The heap of the heads of the runs gives the least, the next of its run takes its place,
MergeNext ==
    /\ outcome.is = "merging"
    /\ LET heads == {i \in DOMAIN outcome.left : outcome.left[i] # <<>>} IN
       \E i \in heads :
         /\ \A j \in heads : Before(outcome.left[i][1], outcome.left[j][1])
         /\ outcome' = [outcome EXCEPT !.index = Append(@, outcome.left[i][1]), !.left[i] = Tail(@)]
    /\ UNCHANGED <<build, scanner, inbox, assembler, results, runs_taken>>

\* and when all are through the index is verified.
FinishIndex ==
    /\ outcome.is = "merging" /\ \A i \in DOMAIN outcome.left : outcome.left[i] = <<>>
    /\ LET index == outcome.index
           verified == IF build = "channels" THEN VerifyRuns(runs_taken, index) ELSE VerifyIndexFile(index)
       IN  outcome' = [is |-> IF verified THEN "ok" ELSE "rejected", index |-> index]
    /\ UNCHANGED <<build, scanner, inbox, assembler, results, runs_taken>>

\* The merged file, the copy of it or the data cannot be read or written.
FinishFails ==
    /\ build # "channels" /\ outcome.is = "merging"
    /\ outcome' = [is |-> "error"]
    /\ UNCHANGED <<build, scanner, inbox, assembler, results, runs_taken>>

ScannerStep(s) ==
    OpenSenders(s) \/ ScanRecord(s) \/ EndScan(s) \/ Flush(s) \/ SignalDone(s) \/ SendMessage(s)

AssemblerStep(u) == TakeUnitReceiver(u) \/ ReceiveMessage(u) \/ DeliverRun(u)

CoordinatorStep == CollectRun \/ JoinTasks \/ StartMerge \/ MergeNext \/ FinishIndex

IndexNext ==
    \/ \E s \in ScannerIds : build \in {"channels", "mailboxes"} /\ (ScannerStep(s) \/ ScanFails(s))
    \/ \E u \in Units : build \in {"channels", "mailboxes"} /\ (AssemblerStep(u) \/ AssembleFails(u))
    \/ CoordinatorStep \/ FinishFails

-----------------------------------------------------------------------------
(* Properties *)

\* Every record is in the index once
IndexesAll(index) ==
    /\ Len(index) = RECORD_COUNT
    /\ {index[i] : i \in DOMAIN index} = {Entry(r) : r \in 0 .. RECORD_COUNT - 1}

\* The index that comes out holds every record once, in order, whatever order batches arrive in
\* and merges run in, and no build fails its verification
\* (build_index_with_mailboxes, merge_runs_on_shards, main).
IndexCorrect ==
    /\ outcome.is = "ok" => IndexesAll(outcome.index) /\ InOrder(outcome.index)
    /\ outcome.is # "rejected"

=============================================================================
