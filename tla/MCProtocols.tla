---------------------------- MODULE MCProtocols -----------------------------
(***************************************************************************)
(* Small instances of the three protocols of one shard's executor: its     *)
(* tasks and run loop, its mailbox, and its scheduling groups.  A run      *)
(* starts one of them and leaves the others as they were made.             *)
(***************************************************************************)
EXTENDS TaskExecutor, ShardMailbox, SchedulingGroups

VARIABLE which

allVars == <<vars, mailboxVars, groupVars, which>>

\* every task in one group
MC_OneGroup == [t \in Tasks |-> CHOOSE g \in Groups : TRUE]

MCInit(protocols) ==
    /\ which \in protocols
    /\ Init /\ MailboxInit /\ GroupInit
    /\ which # "executor" => holds = {CHOOSE p \in Threads : TRUE}

MCNext ==
    \/ which = "executor" /\ Next /\ UNCHANGED <<mailboxVars, groupVars, which>>
    \/ which = "mailbox" /\ MailboxNext /\ UNCHANGED <<vars, groupVars, which>>
    \/ which = "groups" /\ GroupNext /\ UNCHANGED <<vars, mailboxVars, which>>

MCSpec == MCInit({"executor", "mailbox", "groups"}) /\ [][MCNext]_allVars

\* under fairness, and with senders that keep to their sends
MCLiveNext ==
    \/ which = "executor" /\ Next /\ UNCHANGED <<mailboxVars, groupVars, which>>
    \/ which = "mailbox" /\ SteadyNext /\ UNCHANGED <<vars, groupVars, which>>

MCLiveSpec ==
    /\ MCInit({"executor", "mailbox"}) /\ [][MCLiveNext]_allVars
    /\ which = "executor" => Fairness
    /\ which = "mailbox" => SteadyFairness
=============================================================================
