-------------------------- MODULE SchedulingGroups --------------------------
(***************************************************************************)
(* Scheduling groups of one executor (executor/scheduling_group.rs,        *)
(* spawner.rs, task_set.rs): groups with shares and a virtual runtime,     *)
(* handles that belong to one executor, and the choice of the next task.   *)
(* TaskExecutor models the life of a task and lets any ready group be      *)
(* served; here a task only sleeps, waits, runs, or is over, and what      *)
(* matters is whose turn it is.                                            *)
(*                                                                         *)
(* Other threads create groups, spawn, wake and abort between any two      *)
(* steps of the run loop: taking a task, ending its poll, charging it.     *)
(***************************************************************************)
EXTENDS Integers, Sequences

CONSTANTS
    Jobs,           \* tasks
    MaxGroups,      \* bound on the groups created, the default one included
    ShareCounts,    \* shares a group is created with
    DefaultShares,  \* DEFAULT_SCHEDULING_GROUP_SHARES
    PollTimes,      \* how long a poll takes, in nanoseconds
    MaxCharges,     \* bound on the polls charged
    NoJob

\* virtual runtime added for a poll: at least one nanosecond, scaled by the shares
Charge(nanos, s) == ((IF nanos = 0 THEN 1 ELSE nanos) * DefaultShares) \div s

\* Nothing in the code keeps shares below what makes the division round to nothing: with
\* the default of 100, polls of n nanoseconds are free from 100 * n + 1 shares on.
ASSUME GroupAssumption ==
    /\ MaxGroups \in Nat \ {0}
    /\ MaxCharges \in Nat
    /\ ShareCounts \subseteq Nat \ {0} /\ DefaultShares \in ShareCounts
    /\ PollTimes \subseteq Nat
    /\ \A n \in PollTimes, s \in ShareCounts : Charge(n, s) \in Nat \ {0}
    /\ NoJob \notin Jobs

GroupIds == 0 .. MaxGroups - 1

VARIABLES
    group_count,        \* groups 0 .. group_count - 1 exist
    shares, virtual_runtime,
    ready_queue,        \* per group, the ready queue
    home,               \* group of each task spawned, -1 before
    asleep, over,       \* tasks waiting for a wake; completed or aborted
    turn,               \* the task being polled
    charging,           \* its poll has ended and is not charged yet
    charges,            \* polls charged
    mark, served        \* history, per pair: runtime of the second when the first
                        \* began to wait, polls of the second since

groupVars == <<group_count, shares, virtual_runtime, ready_queue, home, asleep, over, turn,
               charging, charges, mark, served>>

\* SchedulerTaskSet::new, with the default group
GroupInit ==
    /\ group_count = 1
    /\ shares = [g \in GroupIds |-> DefaultShares]
    /\ virtual_runtime = [g \in GroupIds |-> 0]
    /\ ready_queue = [g \in GroupIds |-> <<>>]
    /\ home = [j \in Jobs |-> -1]
    /\ asleep = {}
    /\ over = {}
    /\ turn = NoJob
    /\ charging = FALSE
    /\ charges = 0
    /\ mark = [g \in GroupIds |-> [h \in GroupIds |-> 0]]
    /\ served = [g \in GroupIds |-> [h \in GroupIds |-> 0]]

IsReady(g) == ready_queue[g] # <<>>

\* a group that starts to wait, or is served, is measured afresh
Afresh(g) ==
    /\ mark' = [mark EXCEPT ![g] = virtual_runtime]
    /\ served' = [served EXCEPT ![g] = [h \in GroupIds |-> 0]]

push(j, g) ==
    /\ ready_queue' = [ready_queue EXCEPT ![g] = Append(@, j)]
    /\ IF IsReady(g) THEN UNCHANGED <<mark, served>> ELSE Afresh(g)

-----------------------------------------------------------------------------
(* Calls of other threads and of futures *)

\* some group has the least runtime of those that exist
IsMinimum(v) ==
    /\ \E g \in GroupIds : g < group_count /\ virtual_runtime[g] = v
    /\ \A g \in GroupIds : g < group_count => v <= virtual_runtime[g]

\* create_scheduling_group; no shares at all are refused
create_scheduling_group(s) ==
    /\ s > 0 /\ group_count < MaxGroups
    /\ \E v \in 0 .. virtual_runtime[0] :
         IsMinimum(v) /\ virtual_runtime' = [virtual_runtime EXCEPT ![group_count] = v]
    /\ shares' = [shares EXCEPT ![group_count] = s]
    /\ group_count' = group_count + 1
    /\ UNCHANGED <<ready_queue, home, asleep, over, turn, charging, charges, mark, served>>

\* handles: the default one, and those of this executor and of another
Handles == {[executor |-> "none", id |-> 0]}
           \cup {[executor |-> e, id |-> g] : e \in {"this", "other"}, g \in GroupIds}

belongs_to(group) == group.executor \in {"none", "this"}

\* every spawn: ensure_group_belongs_to_executor, group_index, schedule_new
spawn_in_group(j, group) ==
    /\ home[j] = -1 /\ belongs_to(group) /\ group.id < group_count
    /\ home' = [home EXCEPT ![j] = group.id]
    /\ push(j, group.id)
    /\ UNCHANGED <<group_count, shares, virtual_runtime, asleep, over, turn, charging, charges>>

\* schedule_existing, for a task that is neither queued nor being polled
WakeJob(j) ==
    /\ j \in asleep
    /\ asleep' = asleep \ {j}
    /\ push(j, home[j])
    /\ UNCHANGED <<group_count, shares, virtual_runtime, home, over, turn, charging, charges>>

\* a queued task stays in its queue when it is aborted
AbortJob(j) ==
    /\ home[j] # -1 /\ j \notin over /\ j # turn
    /\ over' = over \cup {j}
    /\ asleep' = asleep \ {j}
    /\ UNCHANGED <<group_count, shares, virtual_runtime, ready_queue, home, turn, charging, charges,
                   mark, served>>

-----------------------------------------------------------------------------
(* The run loop *)

\* fault: the first ready group is served
FirstReady(h) == IsReady(h) /\ \A g \in GroupIds : IsReady(g) => h <= g

\* the ready group with the least (virtual_runtime, id)
Chosen(h) ==
    /\ IsReady(h)
    /\ \A g \in GroupIds : IsReady(g) =>
         \/ virtual_runtime[h] < virtual_runtime[g]
         \/ virtual_runtime[h] = virtual_runtime[g] /\ h <= g

\* next_task; poll refuses a task that is over, and nothing is charged
next_task(h) ==
    LET j == Head(ready_queue[h])
    IN /\ turn = NoJob /\ charges < MaxCharges /\ Chosen(h)
       /\ ready_queue' = [ready_queue EXCEPT ![h] = Tail(@)]
       /\ turn' = IF j \in over THEN NoJob ELSE j
       /\ mark' = [mark EXCEPT ![h] = virtual_runtime]
       /\ served' = [g \in GroupIds |->
                       IF g = h THEN [x \in GroupIds |-> 0]
                       ELSE IF j \notin over /\ IsReady(g) THEN [served[g] EXCEPT ![h] = @ + 1]
                       ELSE served[g]]
       /\ UNCHANGED <<group_count, shares, virtual_runtime, home, asleep, over, charging, charges>>

\* the poll ends: woken meanwhile and queued again, pending, or complete
EndPoll(how) ==
    /\ turn # NoJob /\ ~charging
    /\ charging' = TRUE
    /\ asleep' = IF how = "pending" THEN asleep \cup {turn} ELSE asleep
    /\ over' = IF how = "complete" THEN over \cup {turn} ELSE over
    /\ IF how = "woken" THEN push(turn, home[turn]) ELSE UNCHANGED <<ready_queue, mark, served>>
    /\ UNCHANGED <<group_count, shares, virtual_runtime, home, turn, charges>>

record_task_poll(nanos) ==
    /\ charging
    /\ virtual_runtime' = [virtual_runtime EXCEPT ![home[turn]] = @ + Charge(nanos, shares[home[turn]])]
    /\ charging' = FALSE
    /\ turn' = NoJob
    /\ charges' = charges + 1
    /\ UNCHANGED <<group_count, shares, ready_queue, home, asleep, over, mark, served>>

GroupNext ==
    \/ \E s \in ShareCounts : create_scheduling_group(s)
    \/ \E j \in Jobs, group \in Handles : spawn_in_group(j, group)
    \/ \E j \in Jobs : WakeJob(j) \/ AbortJob(j)
    \/ \E h \in GroupIds : next_task(h)
    \/ \E how \in {"woken", "pending", "complete"} : EndPoll(how)
    \/ \E n \in PollTimes : record_task_poll(n)

GroupSpec == GroupInit /\ [][GroupNext]_groupVars

-----------------------------------------------------------------------------

GroupTypeOK ==
    /\ group_count \in 1 .. MaxGroups
    /\ shares \in [GroupIds -> ShareCounts]
    /\ virtual_runtime \in [GroupIds -> Nat]
    /\ ready_queue \in [GroupIds -> Seq(Jobs)]
    /\ home \in [Jobs -> GroupIds \cup {-1}]
    /\ asleep \subseteq Jobs /\ over \subseteq Jobs
    /\ turn \in Jobs \cup {NoJob}
    /\ charging \in BOOLEAN
    /\ mark \in [GroupIds -> [GroupIds -> Nat]]
    /\ served \in [GroupIds -> [GroupIds -> Nat]]

(* Weighted selection starves nobody: while a group waits, another group is polled at   *)
(* most once more than the runtime by which it was behind when the wait began.  A group *)
(* that slept for long and comes back far behind is covered by the same bound; groups   *)
(* created later start at the minimum.                                                  *)
BoundedWait ==
    \A g, h \in GroupIds :
      g # h /\ IsReady(g) =>
        served[g][h] <= 1 + (IF virtual_runtime[g] < mark[g][h] THEN 0
                             ELSE virtual_runtime[g] - mark[g][h])
=============================================================================
