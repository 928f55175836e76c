---------------------------- MODULE ShardService ----------------------------
(***************************************************************************)
(* The blocking service kernel of runtime.rs and what is built on it: a    *)
(* set of shards, each a thread that owns a state and works off a bounded  *)
(* mailbox of commands, and one-shot reply channels on which the answers   *)
(* come back.  Sharded, ShardedKv and ShardedCounter are this protocol     *)
(* with different states and commands, so the service itself is a          *)
(* parameter: Effect, Result and Panics.                                   *)
(*                                                                         *)
(* A call is a sequence of commands that are submitted one after the other *)
(* and then awaited one after the other: one command for put, one per key  *)
(* for get_many, one per shard for total_len.  How a call ends (Ok or      *)
(* which ShardError) changes no state and is in comments only.             *)
(***************************************************************************)
EXTENDS Integers, Sequences, FiniteSets

CONSTANTS
    ShardCount,      \* shard_count
    Capacity,        \* mailbox_capacity
    Clients,         \* threads and tasks that hold a reference to the service
    Owner,           \* the thread that shuts it down
    Commands,        \* what can be in a mailbox: records with a field shard
    Calls,           \* the calls that clients make
    States,          \* what a shard owns
    InitialState,
    Effect(_, _),    \* the state after a command
    Result(_, _),    \* what the shard answers to it
    Panics(_, _),    \* whether working on it panics
    NoValue,         \* Option::None of a reply's value
    MaxTickets       \* bound on the reply channels ever made

Shards == 0 .. ShardCount - 1
Procs == Clients \cup {Owner}
Tickets == 1 .. MaxTickets

\* How a reply is awaited: wait, wait_timeout, wait_async, or try_wait in a loop.
Waits == {"block", "timeout", "async", "poll"}

Stop(s) == [op |-> "stop", shard |-> s]

Call(commands, try, borrows, waits) ==
    [commands |-> commands, try |-> try, borrows |-> borrows, waits |-> waits]

\* What shutdown does: a stop command to every shard, each awaited before the next.
StopAll == Call([i \in 1 .. ShardCount |-> Stop(i - 1)], FALSE, TRUE, "block")
NoCall == Call(<<>>, FALSE, FALSE, "block")

ASSUME ServiceAssumption ==
    /\ ShardCount \in Nat \ {0}
    /\ Capacity \in Nat \ {0}
    /\ MaxTickets \in Nat
    /\ Owner \notin Clients
    /\ \A s \in Shards : Stop(s) \in Commands
    /\ \A c \in Commands : c.shard \in Nat
    /\ \A k \in Calls : /\ k.commands \in Seq(Commands)
                        /\ k.commands # <<>>
                        /\ k.try \in BOOLEAN
                        /\ k.borrows \in BOOLEAN
                        /\ k.waits \in Waits
    /\ InitialState \in States
    /\ \A m \in States, c \in Commands : /\ Effect(m, c) \in States
                                         /\ Result(m, c) # NoValue
                                         /\ Panics(m, c) \in BOOLEAN

VARIABLES
    mailbox,   \* the sync_channel of each shard
    spc,       \* where a shard's thread is
    cur,       \* the entry it works on
    waking,    \* it holds the waker it took from the reply of cur
    state,     \* what it owns
    reply,     \* ReplyState of each reply channel
    phase,     \* where a client, or the owner, is
    call,      \* the call it is in
    tickets,   \* the reply channels of the call's commands
    sent,      \* how many of the commands are in mailboxes
    taken,     \* how many of the answers have been received
    stopped,   \* the service handle's flag
    issued     \* reply channels made so far

shardVars == <<mailbox, spc, cur, waking, state>>
procVars == <<phase, call, tickets, sent, taken>>
vars == <<shardVars, reply, procVars, stopped, issued>>

Entries == [command : Commands, ticket : Tickets]
NoEntry == [command |-> Stop(0), ticket |-> 0]

-----------------------------------------------------------------------------
\* ShardSet::start: every shard has its channel and its thread.  reply_channel makes the
\* reply states when they are needed; until then no one refers to them.
Init ==
    /\ mailbox = [s \in Shards |-> <<>>]
    /\ spc = [s \in Shards |-> "recv"]
    /\ cur = [s \in Shards |-> NoEntry]
    /\ waking = [s \in Shards |-> FALSE]
    /\ state = [s \in Shards |-> InitialState]
    /\ reply = [t \in Tickets |-> [value |-> NoValue, sender_alive |-> TRUE, waker |-> FALSE]]
    /\ phase = [p \in Procs |-> "idle"]
    /\ call = [p \in Procs |-> NoCall]
    /\ tickets = [p \in Procs |-> <<>>]
    /\ sent = [p \in Procs |-> 0]
    /\ taken = [p \in Procs |-> 0]
    /\ stopped = FALSE
    /\ issued = 0

\* The receiver of a shard's channel exists.
Connected(s) == spc[s] \notin {"drain", "drain_notify", "done"}

\* The reply that p waits for.
Awaited(p) == tickets[p][taken[p] + 1]

\* p is inside a method that borrows the service.
Borrows(p) == \/ phase[p] = "submit"
              \/ phase[p] \in {"wait", "asleep"} /\ call[p].borrows

-----------------------------------------------------------------------------
\* Calls.

Enter(p, k) ==
    /\ issued + Len(k.commands) <= MaxTickets
    /\ phase' = [phase EXCEPT ![p] = "submit"]
    /\ call' = [call EXCEPT ![p] = k]
    /\ tickets' = [tickets EXCEPT ![p] = [i \in 1 .. Len(k.commands) |-> issued + i]]
    /\ sent' = [sent EXCEPT ![p] = 0]
    /\ taken' = [taken EXCEPT ![p] = 0]
    /\ issued' = issued + Len(k.commands)
    /\ UNCHANGED <<shardVars, reply>>

\* A client makes a call.  On a stopped handle ensure_running refuses it.
\* MaxTickets leaves room for the stop commands of shutdown.
Begin(c, k) ==
    /\ phase[c] = "idle"
    /\ ~stopped
    /\ issued + Len(k.commands) + ShardCount <= MaxTickets
    /\ Enter(c, k)
    /\ UNCHANGED stopped

\* The call is over: its replies are dropped, answered or not.
Leave(p) ==
    /\ phase' = [phase EXCEPT ![p] = "idle"]
    /\ call' = [call EXCEPT ![p] = NoCall]
    /\ tickets' = [tickets EXCEPT ![p] = <<>>]
    /\ sent' = [sent EXCEPT ![p] = 0]
    /\ taken' = [taken EXCEPT ![p] = 0]

\* After n of its commands the owner goes on with the next shard, and then joins the threads.
NextStop(n) ==
    /\ phase' = [phase EXCEPT ![Owner] = IF n = ShardCount THEN "join" ELSE "submit"]
    /\ sent' = [sent EXCEPT ![Owner] = n]
    /\ taken' = [taken EXCEPT ![Owner] = n]
    /\ UNCHANGED <<call, tickets>>

\* fault: the first error ends shutdown, too.
FailAlways(p) == Leave(p)

\* A command that cannot be sent or answered ends a call; stop_and_join notes the error and
\* goes on.
Fail(p) ==
    IF p = Owner THEN NextStop(taken[p] + 1) ELSE Leave(p)

\* request and try_request: the next command goes into its shard's mailbox.  A sync_channel
\* that is full blocks send.
Submit(p) ==
    LET i == sent[p] + 1
        c == call[p].commands[i]
    IN  /\ phase[p] = "submit"
        /\ c.shard \in Shards
        /\ Connected(c.shard)
        /\ Len(mailbox[c.shard]) < Capacity
        /\ mailbox' = [mailbox EXCEPT ![c.shard] =
                            Append(@, [command |-> c, ticket |-> tickets[p][i]])]
        /\ sent' = [sent EXCEPT ![p] = i]
        /\ phase' = [phase EXCEPT ![p] =
                            IF p = Owner \/ i = Len(call[p].commands) THEN "wait" ELSE @]
        /\ UNCHANGED <<spc, cur, waking, state, reply, call, tickets, taken, stopped, issued>>

\* fault: a thread that waits for room is not told that the shard is gone.
RefuseConnected(p) ==
    LET c == call[p].commands[sent[p] + 1]
    IN  /\ phase[p] = "submit"
        /\ \/ c.shard \notin Shards
           \/ c.shard \in Shards /\ call[p].try /\ Len(mailbox[c.shard]) >= Capacity
        /\ Fail(p)
        /\ UNCHANGED <<shardVars, reply, stopped, issued>>

\* InvalidShardId, SendFailed or ShardStopped, and for try_request MailboxFull.  The commands
\* that were accepted before stay in their mailboxes.
Refuse(p) ==
    LET c == call[p].commands[sent[p] + 1]
    IN  /\ phase[p] = "submit"
        /\ \/ c.shard \notin Shards
           \/ c.shard \in Shards /\ ~Connected(c.shard)
           \/ c.shard \in Shards /\ call[p].try /\ Len(mailbox[c.shard]) >= Capacity
        /\ Fail(p)
        /\ UNCHANGED <<shardVars, reply, stopped, issued>>

\* The answer is there.
Take(p) ==
    LET t == Awaited(p)
        n == taken[p] + 1
    IN  /\ phase[p] = "wait"
        /\ reply[t].value # NoValue
        /\ reply' = [reply EXCEPT ![t].value = NoValue]
        /\ IF p = Owner THEN NextStop(n)
           ELSE IF n = Len(call[p].commands) THEN Leave(p)
           ELSE /\ taken' = [taken EXCEPT ![p] = n]
                /\ UNCHANGED <<phase, call, tickets, sent>>
        /\ UNCHANGED <<shardVars, stopped, issued>>

\* ReplyFailed: no answer, and no one left to send one.
ReplyFailed(p) ==
    /\ phase[p] = "wait"
    /\ reply[Awaited(p)].value = NoValue
    /\ ~reply[Awaited(p)].sender_alive
    /\ Fail(p)
    /\ UNCHANGED <<shardVars, reply, stopped, issued>>

\* No answer yet: wait on the condition variable, or leave the task's waker.
Sleep(p) ==
    /\ phase[p] = "wait"
    /\ call[p].waits # "poll"
    /\ reply[Awaited(p)].value = NoValue
    /\ reply[Awaited(p)].sender_alive
    /\ phase' = [phase EXCEPT ![p] = "asleep"]
    /\ reply' = [reply EXCEPT ![Awaited(p)].waker = @ \/ call[p].waits = "async"]
    /\ UNCHANGED <<shardVars, call, tickets, sent, taken, stopped, issued>>

\* A spurious wakeup, or a poll of the task for another reason.
Stir(p) ==
    /\ phase[p] = "asleep"
    /\ phase' = [phase EXCEPT ![p] = "wait"]
    /\ UNCHANGED <<shardVars, reply, call, tickets, sent, taken, stopped, issued>>

\* ReplyTimeout, when the deadline passes before the answer.
TimeOut(p) ==
    /\ phase[p] \in {"wait", "asleep"}
    /\ call[p].waits = "timeout"
    /\ reply[Awaited(p)].value = NoValue
    /\ phase[p] = "asleep" \/ reply[Awaited(p)].sender_alive
    /\ Fail(p)
    /\ UNCHANGED <<shardVars, reply, stopped, issued>>

\* A reply handle, or the future that awaits it, is dropped.  A thread inside wait cannot.
DropReply(c) ==
    /\ phase[c] \in {"wait", "asleep"}
    /\ call[c].waits \in {"async", "poll"}
    /\ Leave(c)
    /\ UNCHANGED <<shardVars, reply, stopped, issued>>

-----------------------------------------------------------------------------
\* The shard's thread.

Recv(s) ==
    /\ spc[s] = "recv"
    /\ mailbox[s] # <<>>
    /\ cur' = [cur EXCEPT ![s] = Head(mailbox[s])]
    /\ mailbox' = [mailbox EXCEPT ![s] = Tail(@)]
    /\ spc' = [spc EXCEPT ![s] = "run"]
    /\ UNCHANGED <<waking, state, reply, procVars, stopped, issued>>

\* The answer v (or none) is in place, the reply sender is gone, and its waker is taken.
Settle(s, t, v) ==
    /\ reply' = [reply EXCEPT ![t] = [value |-> v, sender_alive |-> FALSE, waker |-> FALSE]]
    /\ waking' = [waking EXCEPT ![s] = reply[t].waker]

\* The service works on a command and ReplySender::send stores the answer.  If it panics,
\* unwinding drops the reply sender instead.
Run(s) ==
    LET c == cur[s].command
        panics == Panics(state[s], c)
    IN  /\ spc[s] = "run"
        /\ state' = [state EXCEPT ![s] = IF panics THEN @ ELSE Effect(@, c)]
        /\ Settle(s, cur[s].ticket, IF panics THEN NoValue ELSE Result(state[s], c))
        /\ spc' = [spc EXCEPT ![s] = IF panics \/ c.op = "stop" THEN "last_notify" ELSE "notify"]
        /\ UNCHANGED <<mailbox, cur, procVars, stopped, issued>>

\* Whom notify_all and the taken waker reach: the one that sleeps on the reply.
Wakes(s, p) ==
    /\ phase[p] = "asleep"
    /\ Awaited(p) = cur[s].ticket
    /\ call[p].waits = "async" => waking[s]

Notify(s) ==
    /\ spc[s] \in {"notify", "last_notify", "drain_notify"}
    /\ phase' = [p \in Procs |-> IF Wakes(s, p) THEN "wait" ELSE phase[p]]
    /\ waking' = [waking EXCEPT ![s] = FALSE]
    /\ cur' = [cur EXCEPT ![s] = NoEntry]
    /\ spc' = [spc EXCEPT ![s] = CASE spc[s] = "notify" -> "recv"
                                   [] spc[s] = "last_notify" -> "close"
                                   [] OTHER -> "drain"]
    /\ UNCHANGED <<mailbox, state, reply, call, tickets, sent, taken, stopped, issued>>

\* The thread leaves its loop: the receiver is dropped, so senders are refused from now on.
Close(s) ==
    /\ spc[s] = "close"
    /\ spc' = [spc EXCEPT ![s] = "drain"]
    /\ UNCHANGED <<mailbox, cur, waking, state, reply, procVars, stopped, issued>>

\* fault: dropping a reply sender wakes no one.
DrainSilently(s) ==
    /\ spc[s] = "drain"
    /\ mailbox[s] # <<>>
    /\ mailbox' = [mailbox EXCEPT ![s] = Tail(@)]
    /\ reply' = [reply EXCEPT ![Head(mailbox[s]).ticket].sender_alive = FALSE]
    /\ UNCHANGED <<spc, cur, waking, state, procVars, stopped, issued>>

\* Dropping the receiver drops what is queued, and with each command its reply sender.
Drain(s) ==
    /\ spc[s] = "drain"
    /\ mailbox[s] # <<>>
    /\ cur' = [cur EXCEPT ![s] = Head(mailbox[s])]
    /\ mailbox' = [mailbox EXCEPT ![s] = Tail(@)]
    /\ Settle(s, Head(mailbox[s]).ticket, NoValue)
    /\ spc' = [spc EXCEPT ![s] = "drain_notify"]
    /\ UNCHANGED <<state, procVars, stopped, issued>>

ThreadEnds(s) ==
    /\ spc[s] = "drain"
    /\ mailbox[s] = <<>>
    /\ spc' = [spc EXCEPT ![s] = "done"]
    /\ UNCHANGED <<mailbox, cur, waking, state, reply, procVars, stopped, issued>>

-----------------------------------------------------------------------------

\* shutdown, stop and drop need the service for themselves: &mut self.  Replies of calls that
\* have returned may still be waited for.
Shutdown ==
    /\ phase[Owner] = "idle"
    /\ ~stopped
    /\ \A c \in Clients : ~Borrows(c)
    /\ stopped' = TRUE
    /\ Enter(Owner, StopAll)

\* join_all returns when every thread has ended.
Join ==
    /\ phase[Owner] = "join"
    /\ \A s \in Shards : spc[s] = "done"
    /\ phase' = [phase EXCEPT ![Owner] = "down"]
    /\ UNCHANGED <<shardVars, reply, call, tickets, sent, taken, stopped, issued>>

ProcStep(p) == Submit(p) \/ Refuse(p) \/ Take(p) \/ ReplyFailed(p) \/ Sleep(p)
ShardStep(s) == Recv(s) \/ Run(s) \/ Notify(s) \/ Close(s) \/ Drain(s) \/ ThreadEnds(s)

Next ==
    \/ \E c \in Clients, k \in Calls : Begin(c, k)
    \/ \E p \in Procs : ProcStep(p) \/ Stir(p) \/ TimeOut(p)
    \/ \E c \in Clients : DropReply(c)
    \/ \E s \in Shards : ShardStep(s)
    \/ Shutdown
    \/ Join

Spec == Init /\ [][Next]_vars

\* Shards keep working; who is in a call goes on with it and waits for its answers; a joined
\* thread is noticed.  Nobody has to time out, give up or be woken for nothing.
Fairness ==
    /\ \A s \in Shards : WF_vars(ShardStep(s))
    /\ \A p \in Procs : WF_vars(ProcStep(p))
    /\ WF_vars(Join)

FairSpec == Spec /\ Fairness

-----------------------------------------------------------------------------
\* The variables have the types of the fields and locals they stand for, and no reply is
\* awaited whose command was not sent.
TypeOK ==
    /\ mailbox \in [Shards -> Seq(Entries)]
    /\ spc \in [Shards -> {"recv", "run", "notify", "last_notify", "close", "drain",
                           "drain_notify", "done"}]
    /\ cur \in [Shards -> Entries \cup {NoEntry}]
    /\ waking \in [Shards -> BOOLEAN]
    /\ state \in [Shards -> States]
    /\ \A t \in Tickets : /\ DOMAIN reply[t] = {"value", "sender_alive", "waker"}
                          /\ reply[t].sender_alive \in BOOLEAN
                          /\ reply[t].waker \in BOOLEAN
    /\ phase \in [Procs -> {"idle", "submit", "wait", "asleep", "join", "down"}]
    /\ call \in [Procs -> Calls \cup {NoCall, StopAll}]
    /\ tickets \in [Procs -> Seq(Tickets)]
    /\ sent \in [Procs -> Nat]
    /\ taken \in [Procs -> Nat]
    /\ \A p \in Procs : taken[p] <= sent[p] /\ sent[p] <= Len(tickets[p])
    /\ stopped \in BOOLEAN
    /\ issued \in 0 .. MaxTickets

\* The shard is about to call notify_all and the waker for the reply of cur.
Notifying(s) == spc[s] \in {"notify", "last_notify", "drain_notify"}

\* No reply is lost: whoever sleeps in wait, wait_timeout or a ReplyFuture although the answer
\* is there, or no sender is left, is about to be woken by the shard that settled the
\* reply.
ReplyNotLost ==
    \A p \in Procs :
        (/\ phase[p] = "asleep"
         /\ reply[Awaited(p)].value # NoValue \/ ~reply[Awaited(p)].sender_alive)
        => \E s \in Shards : Notifying(s) /\ Wakes(s, p)

\* The reply sender of ticket t is still in a command that is queued or worked on.
Outstanding(t) ==
    \E s \in Shards :
        \/ spc[s] = "run" /\ cur[s].ticket = t
        \/ \E i \in DOMAIN mailbox[s] : mailbox[s][i].ticket = t

\* No reply is orphaned: one that is awaited and still counts on its sender has it in a
\* command that some shard has yet to answer or to drop, also when the shard has panicked or
\* was stopped with the command in its mailbox.
ReplyNotOrphaned ==
    \A p \in Procs :
        (/\ phase[p] \in {"wait", "asleep"}
         /\ reply[Awaited(p)].value = NoValue
         /\ reply[Awaited(p)].sender_alive)
        => Outstanding(Awaited(p))

\* Shutdown overtakes nothing: when a shard's thread leaves its loop, its mailbox is empty.  Every
\* accepted command was worked off before the stop command, as long as only shutdown
\* stops shards and nothing panics.
StopIsLast == \A s \in Shards : spc[s] \in {"close", "drain"} => mailbox[s] = <<>>

\* A call that has begun comes back, with an answer or an error, whatever happens to the
\* shards.
CallReturns == \A c \in Clients : phase[c] # "idle" ~> phase[c] = "idle"

\* shutdown returns: every thread is joined, also the ones that ended before they were told.
ShutdownEnds == stopped ~> phase[Owner] = "down"
=============================================================================
