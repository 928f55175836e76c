----------------------------- MODULE IndexRuns ------------------------------
(***************************************************************************)
(* The index builds that go through run files: "files"                     *)
(* (examples/sharded_index_build.rs), and "uring"                          *)
(* (sharded_index_build_uring.rs), which collects merged entries in a      *)
(* buffer and knows by its count when a run is at its end.  Each shard     *)
(* sorts its partition into a file; rounds of merge tasks, each on the     *)
(* shard of its left input, merge pairs of files until one is left, which  *)
(* becomes the index.                                                      *)
(***************************************************************************)
EXTENDS IndexBuild

CONSTANT PARTITION_READ_CHUNK_RECORDS       \* entries the uring merge writes at a time

VARIABLES
    shards,          \* shard_count of this build
    files,           \* path -> entries
    run_task,        \* per shard: the state of its build_sorted_run
    runs,            \* runs of this round: [shard, path, entry_count], in order
    round,
    merges           \* merge tasks of this round: [at, left, right, output, next, buffer]

runVars == <<shards, files, run_task, runs, round, merges>>

RunPath(s) == <<"partition", s>>

\* fault: the merges of a round share one output.
OutputPathOfRound(left, right) == <<"merge", round>>

\* "merge-r{round}-s{left}-s{right}.run"
OutputPath(left, right) == <<"merge", round, left.shard, right.shard>>

RunsInit ==
    /\ files = [p \in {} |-> <<>>]
    /\ run_task = [s \in 0 .. shards - 1 |-> "running"]
    /\ runs = <<>> /\ round = 0 /\ merges = <<>>

Written(path, entries) == [p \in DOMAIN files \cup {path} |-> IF p = path THEN entries ELSE files[p]]

\* Partition::for_shard of these builds
FilePartition(s) ==
    [start |-> (s * RECORD_COUNT) \div shards, end |-> ((s + 1) * RECORD_COUNT) \div shards]

\* The entries of a partition, read chunk by chunk
PartitionEntries(s) ==
    LET part == FilePartition(s)
    IN  [i \in 1 .. part.end - part.start |-> Entry(part.start + i - 1)]

\* build_sorted_run: the task of one shard reads its partition, sorts it and writes the file,
BuildSortedRun(s) ==
    /\ run_task[s] = "running"
    /\ files' = Written(RunPath(s), Sorted(PartitionEntries(s)))
    /\ run_task' = [run_task EXCEPT ![s] = "ok"]
    /\ UNCHANGED <<indexVars, shards, runs, round, merges>>

\* or fails.
BuildFails(s) ==
    /\ run_task[s] = "running"
    /\ run_task' = [run_task EXCEPT ![s] = "error"]
    /\ UNCHANGED <<indexVars, shards, files, runs, round, merges>>

\* map_all waits for all of them.
CollectRuns ==
    /\ outcome.is = "running" /\ runs = <<>>
    /\ \A s \in 0 .. shards - 1 : run_task[s] # "running"
    /\ IF \E s \in 0 .. shards - 1 : run_task[s] = "error"
         THEN outcome' = [is |-> "error"] /\ UNCHANGED runs
         ELSE runs' = [i \in 1 .. shards |-> [shard |-> i - 1, path |-> RunPath(i - 1),
                                           entry_count |-> Len(PartitionEntries(i - 1))]]
              /\ UNCHANGED outcome
    /\ UNCHANGED <<build, scanner, inbox, assembler, results, runs_taken,
                   shards, files, run_task, round, merges>>

\* merge_runs_on_shards, a round: runs are paired in order and each pair gets a task.
StartRound ==
    /\ outcome.is = "running" /\ Len(runs) > 1 /\ merges = <<>>
    /\ merges' = [i \in 1 .. Len(runs) \div 2 |->
                    LET left == runs[2 * i - 1]
                        right == runs[2 * i]
                    IN  [at |-> "opening", left |-> left, right |-> right,
                         output |-> OutputPath(left, right), next |-> <<1, 1>>,
                         buffer |-> <<>>]]
    /\ UNCHANGED <<indexVars, shards, files, run_task, runs, round>>

\* merge_run_files: the output is created,
OpenMerge(i) ==
    /\ merges[i].at = "opening"
    /\ files' = Written(merges[i].output, <<>>)
    /\ merges' = [merges EXCEPT ![i].at = "merging"]
    /\ UNCHANGED <<indexVars, shards, run_task, runs, round>>

\* RunReader reads to the end of the file, UringRunReader as many entries as the run has.
InputLen(run) == IF build = "uring" THEN run.entry_count ELSE Len(files[run.path])

\* the lesser of the next entries is taken, the left one of equals, and when one input is at its
\* end those of the other; it is written at once,
MergeEntry(i) ==
    LET task == merges[i]
        left == files[task.left.path]
        right == files[task.right.path]
        l == task.next[1]
        r == task.next[2]
        fromLeft == l \leq InputLen(task.left)
                    /\ (r \leq InputLen(task.right) => Before(left[l], right[r]))
        entry == IF fromLeft THEN left[l] ELSE right[r]
    IN  /\ task.at = "merging" /\ Len(task.buffer) < PARTITION_READ_CHUNK_RECORDS
        /\ l \leq InputLen(task.left) \/ r \leq InputLen(task.right)
        /\ files' = IF build = "uring" THEN files ELSE [files EXCEPT ![task.output] = Append(@, entry)]
        /\ merges' = [merges EXCEPT ![i].next = IF fromLeft THEN <<l + 1, r>> ELSE <<l, r + 1>>,
                                    ![i].buffer = IF build = "uring" THEN Append(@, entry) ELSE @]
        /\ UNCHANGED <<indexVars, shards, run_task, runs, round>>

Exhausted(i) == merges[i].next = <<InputLen(merges[i].left) + 1, InputLen(merges[i].right) + 1>>

\* or a full buffer is, and what is left of it at the end,
FlushMerged(i) ==
    /\ merges[i].at = "merging" /\ merges[i].buffer # <<>>
    /\ Len(merges[i].buffer) = PARTITION_READ_CHUNK_RECORDS \/ Exhausted(i)
    /\ files' = [files EXCEPT ![merges[i].output] = @ \o merges[i].buffer]
    /\ merges' = [merges EXCEPT ![i].buffer = <<>>]
    /\ UNCHANGED <<indexVars, shards, run_task, runs, round>>

\* until both are through.
MergeDone(i) ==
    /\ merges[i].at = "merging" /\ merges[i].buffer = <<>> /\ Exhausted(i)
    /\ merges' = [merges EXCEPT ![i].at = "ok"]
    /\ UNCHANGED <<indexVars, shards, files, run_task, runs, round>>

MergeFails(i) ==
    /\ merges[i].at \in {"opening", "merging"}
    /\ merges' = [merges EXCEPT ![i].at = "error"]
    /\ UNCHANGED <<indexVars, shards, files, run_task, runs, round>>

\* An odd run goes unchanged into the next round.
Carried == IF Len(runs) % 2 = 1 THEN <<runs[Len(runs)]>> ELSE <<>>

\* The handles are joined in order; a failure ends the build, and otherwise the new runs are
\* sorted by shard for the next round.
JoinMerges ==
    /\ outcome.is = "running" /\ merges # <<>>
    /\ \/ /\ \E i \in DOMAIN merges : merges[i].at = "error" /\ \A j \in 1 .. i - 1 : merges[j].at = "ok"
          /\ outcome' = [is |-> "error"]
          /\ UNCHANGED <<runs, round, merges>>
       \/ /\ \A i \in DOMAIN merges : merges[i].at = "ok"
          /\ LET merged == Carried \o [i \in DOMAIN merges |->
                               [shard |-> merges[i].left.shard, path |-> merges[i].output,
                                entry_count |-> merges[i].next[1] + merges[i].next[2] - 2]]
             IN  runs' = SortSeq(merged, LAMBDA a, b : a.shard < b.shard)
          /\ round' = round + 1
          /\ merges' = <<>>
          /\ UNCHANGED outcome
    /\ UNCHANGED <<build, scanner, inbox, assembler, results, runs_taken, shards, files, run_task>>

\* One run is left: it is copied to the index, which is verified (FinishIndex).
CopyIndex ==
    /\ outcome.is = "running" /\ Len(runs) = 1
    /\ outcome' = [is |-> "merging", index |-> files[runs[1].path], left |-> <<>>]
    /\ UNCHANGED <<build, scanner, inbox, assembler, results, runs_taken, runVars>>

RunTaskStep(s) == s < shards /\ BuildSortedRun(s)

MergeTaskStep(i) == i \in DOMAIN merges /\ (OpenMerge(i) \/ MergeEntry(i) \/ FlushMerged(i) \/ MergeDone(i))

MainStep == CollectRuns \/ StartRound \/ JoinMerges \/ CopyIndex

RunsNext ==
    /\ build \in {"files", "uring"}
    /\ \/ \E s \in 0 .. shards - 1 : RunTaskStep(s) \/ BuildFails(s)
       \/ \E i \in DOMAIN merges : MergeTaskStep(i) \/ MergeFails(i)
       \/ MainStep
=============================================================================
