----------------------------- MODULE MCChannels -----------------------------
(***************************************************************************)
(* Instances of three components that threads share through atomics, locks *)
(* and wakers: the ring channel, the backpressure guard and the streaming  *)
(* reply; and of the index builds, which run over channels and mailboxes.  *)
(* They do not touch each other; a behaviour is one of one of them, chosen *)
(* at the start.                                                           *)
(***************************************************************************)
EXTENDS RingChannel, Backpressure, StreamReply, IndexRuns

VARIABLE which

allIndexVars == <<indexVars, runVars>>

MCvars == <<which, vars, permitVars, streamVars, allIndexVars>>

\* Keys with a duplicate, none in order
MCKeys == <<2, 1, 2, 0, 3>>

\* recv takes one value; recv_batch and the future take all there are
MCReceives == {[blocking |-> TRUE, most |-> 1], [blocking |-> TRUE, most |-> 10],
               [blocking |-> FALSE, most |-> 10]}

MCInit ==
    /\ which \in {"ring", "permits", "stream", "index"}
    /\ Init
    /\ PermitInit
    /\ StreamInit
    /\ build \in IF which = "index" THEN {"channels", "mailboxes", "files", "uring"} ELSE {"none"}
    /\ shards \in IF build \in {"files", "uring"} THEN 1 .. 4 ELSE {1}
    /\ IndexInit
    /\ RunsInit
    /\ which # "stream" =>
         /\ consumes = [blocking |-> TRUE, most |-> 1]
         /\ producer = [p \in Producers |-> IF p = CHOOSE q \in Producers : TRUE THEN "open" ELSE "none"]

MCNext ==
    /\ UNCHANGED which
    /\ \/ which = "ring" /\ Next /\ UNCHANGED <<permitVars, streamVars, allIndexVars>>
       \/ which = "permits" /\ PermitNext /\ UNCHANGED <<vars, streamVars, allIndexVars>>
       \/ which = "stream" /\ StreamNext /\ UNCHANGED <<vars, permitVars, allIndexVars>>
       \/ which = "index" /\ IndexNext /\ UNCHANGED <<vars, permitVars, streamVars, runVars>>
       \/ which = "index" /\ RunsNext /\ UNCHANGED <<vars, permitVars, streamVars>>

\* Streams: a call that has begun finishes, producers that have left say so, and the consumer
\* goes on receiving.
MCFairness ==
    /\ WF_MCvars(which = "stream" /\ ConsumerStep /\ UNCHANGED <<which, vars, permitVars, allIndexVars>>)
    /\ \A p \in Producers :
         WF_MCvars(which = "stream" /\ (TakeWaker(p) \/ NotifyAll(p)) /\ UNCHANGED <<which, vars, permitVars, allIndexVars>>)

MCSpec == MCInit /\ [][MCNext]_MCvars /\ MCFairness

=============================================================================
