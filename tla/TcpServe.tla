------------------------------ MODULE TcpServe ------------------------------
(***************************************************************************)
(* The TCP server helpers (executor/tcp.rs) with the task scopes           *)
(* (executor/scope.rs), stop tokens and notifications (executor/sync.rs)   *)
(* they are made of.  One future accepts connections, spawns a handler     *)
(* task for each and joins them; handlers end, fail, panic, wait for the   *)
(* scope's stop token or never end; another thread stops the server or     *)
(* drops its future.                                                       *)
(*                                                                         *)
(* A poll of the serving future is several steps, one per future that it   *)
(* races, so that wakes fall between them.                                 *)
(***************************************************************************)
EXTENDS Naturals, Sequences, Functions

CONSTANTS
    Conns,        \* connections
    Plans,        \* [serve, ends]: which helper is called, and how each handler ends
    None

ASSUME ServeAssumption == None # "ok"

VARIABLES
    serve,        \* the helper that is called
    ends,         \* per connection: how its handler ends
    server,       \* where the serving future is
    awake,        \* its task is in the ready queue
    backlog,      \* connections the listener holds
    handlers,     \* the join handles it owns, oldest first
    handler,      \* per connection: its handler task
    canceled,     \* handlers aborted while they were polled
    joined,       \* per connection: JoinState::result
    stop,         \* the server's stop token: [stopped, waiting]
    waking,       \* StopSource::stop has taken the wakers and not yet woken them
    scope,        \* the scope's stop token: [stopped, waiting]
    notify,       \* handler_error_notify: [notified, waiting]
    error,        \* handler_error
    outcome       \* what the serving future returned

serverVars == <<server, awake, handlers, outcome>>
handlerVars == <<handler, canceled, joined>>
syncVars == <<stop, waking, scope, notify, error>>
vars == <<serve, ends, serverVars, backlog, handlerVars, syncVars>>

-----------------------------------------------------------------------------
(* The helpers: their accept loop, how many connections it takes, and      *)
(* whether handlers get a deadline when it has ended.                      *)

ServeTcpN(n, timed) == [loop |-> "n", count |-> n, timed |-> timed]
ServeTcpUntilIdle(timed) == [loop |-> "idle", count |-> 0, timed |-> timed]
ServeTcpUntilStopped(timed) == [loop |-> "stopped", count |-> 0, timed |-> timed]
ServeTcpUntilStoppedScoped(timed) == [loop |-> "scoped", count |-> 0, timed |-> timed]

Scoped == serve.loop = "scoped"

\* stop_pair and Notify::new
StopPair == [stopped |-> FALSE, waiting |-> {}]
NewNotify == [notified |-> FALSE, waiting |-> FALSE]

InitAt(place, plans) ==
    /\ \E x \in plans : serve = x.serve /\ ends = x.ends
    /\ server = place
    /\ awake = TRUE
    /\ backlog = {}
    /\ handlers = <<>>
    /\ handler = [c \in Conns |-> "none"]
    /\ canceled = {}
    /\ joined = [c \in Conns |-> None]
    /\ stop = StopPair
    /\ waking = FALSE
    /\ scope = StopPair
    /\ notify = NewNotify
    /\ error = None
    /\ outcome = None

Init == InitAt("called", Plans)

-----------------------------------------------------------------------------
(* What the server does to its handlers *)

\* JoinHandle::abort on each of S: a future that is not being polled is dropped at once.
Abort(S) ==
    LET Hit(c) == c \in S /\ handler[c] \notin {"ended", "aborted"} IN
    /\ handler' = [c \in Conns |->
                     IF Hit(c) /\ handler[c] \in {"queued", "waiting"} THEN "aborted"
                     ELSE handler[c]]
    /\ canceled' = canceled \cup {c \in S : Hit(c) /\ handler[c] \notin {"queued", "waiting"}}
    /\ joined' = [c \in Conns |-> IF Hit(c) /\ joined[c] = None THEN "canceled" ELSE joined[c]]

\* StopSource::stop on the scope's token, whose waiters are handlers.
StopScope ==
    /\ scope' = [stopped |-> TRUE, waiting |-> {}]
    /\ handler' = [c \in Conns |->
                     IF c \in scope.waiting /\ handler[c] = "waiting" THEN "queued"
                     ELSE handler[c]]

\* fault: the scope is told to stop, and its handles are let go of.
DropHandlersDetached ==
    /\ handlers' = <<>>
    /\ scope' = IF Scoped THEN [stopped |-> TRUE, waiting |-> {}] ELSE scope
    /\ UNCHANGED handlerVars

\* TaskScope::drop, or the handles dropped one by one: what the future still owned is aborted.
DropHandlers ==
    /\ Abort(Range(handlers))
    /\ handlers' = <<>>
    /\ scope' = IF Scoped THEN [stopped |-> TRUE, waiting |-> {}] ELSE scope

\* The serving future returns.
Return(r) ==
    /\ server' = "returned"
    /\ outcome' = r
    /\ awake' = FALSE
    /\ DropHandlers
    /\ UNCHANGED <<serve, ends, backlog, stop, waking, notify>>

\* The accept loop ends; shutdown and shutdown_timeout stop the scope first.
LeaveLoop ==
    /\ server' = "joining"
    /\ IF Scoped THEN StopScope ELSE UNCHANGED <<scope, handler>>
    /\ UNCHANGED <<serve, ends, awake, handlers, outcome, backlog, canceled, joined, stop, waking,
                   notify, error>>

-----------------------------------------------------------------------------
(* The accept loop *)

\* set_nonblocking
Listen ==
    /\ server = "called"
    /\ \/ /\ server' = "accepting"
          /\ UNCHANGED <<serve, ends, awake, handlers, outcome, backlog, handlerVars, syncVars>>
       \/ Return("io") /\ UNCHANGED error

\* TaskScope::spawn, or the handle pushed: the handler's task is queued, its handle the youngest.
SpawnHandler(c) ==
    /\ handlers' = Append(handlers, c)
    /\ handler' = [handler EXCEPT ![c] = "queued"]

\* A connection is accepted and its handler spawned; the loop goes round.
Accept ==
    /\ server = "accepting"
    /\ awake
    /\ \E c \in backlog : backlog' = backlog \ {c} /\ SpawnHandler(c)
    /\ server' = IF serve.loop = "n" /\ Len(handlers) + 1 = serve.count THEN "joining"
                 ELSE "accepting"
    /\ UNCHANGED <<serve, ends, awake, outcome, canceled, joined, syncVars>>

\* The executor does not take the handler, or accept fails: the loop's error return.
AcceptFails ==
    /\ server = "accepting"
    /\ awake
    /\ Return("io")
    /\ UNCHANGED error

\* There is no connection.  From here on a wake queues the task again.
AcceptPending ==
    /\ server = "accepting"
    /\ awake
    /\ backlog = {}
    /\ awake' = FALSE
    /\ server' = IF serve.loop \in {"n", "idle"} THEN "accepting" ELSE "polling stop"
    /\ UNCHANGED <<serve, ends, handlers, outcome, backlog, handlerVars, syncVars>>

\* accept_timeout_async: the idle time passes.
IdleTimeout ==
    /\ server = "accepting"
    /\ serve.loop = "idle"
    /\ ~awake
    /\ LeaveLoop

\* fault: the token is looked at and the waker not left with it.
StopTokenPeek ==
    /\ server = "polling stop"
    /\ ~stop.stopped
    /\ server' = IF Scoped THEN "polling notify" ELSE "accepting"
    /\ UNCHANGED <<serve, ends, awake, handlers, outcome, backlog, handlerVars, syncVars>>

\* StopToken::poll, under its lock.
StopTokenPending ==
    /\ server = "polling stop"
    /\ ~stop.stopped
    /\ stop' = [stop EXCEPT !.waiting = {"server"}]
    /\ server' = IF Scoped THEN "polling notify" ELSE "accepting"
    /\ UNCHANGED <<serve, ends, awake, handlers, outcome, backlog, handlerVars, waking, scope,
                   notify, error>>

StopTokenReady ==
    /\ server = "polling stop"
    /\ stop.stopped
    /\ LeaveLoop

\* Notified::poll
NotifiedPending ==
    /\ server = "polling notify"
    /\ ~notify.notified
    /\ notify' = [notify EXCEPT !.waiting = TRUE]
    /\ server' = "accepting"
    /\ UNCHANGED <<serve, ends, awake, handlers, outcome, backlog, handlerVars, stop, waking,
                   scope, error>>

NotifiedReady ==
    /\ server = "polling notify"
    /\ notify.notified
    /\ LeaveLoop

-----------------------------------------------------------------------------
(* Joining the handlers *)

\* join_tcp_handlers_unbounded and TaskScope::wait go through the handles from the oldest,
\* join_tcp_handlers_timeout and TaskScope::shutdown_timeout pop the youngest.
NextJoined == IF serve.timed THEN handlers[Len(handlers)] ELSE Head(handlers)

\* A handler has ended well: its handle is gone.
JoinOk ==
    /\ server = "joining"
    /\ handlers # <<>>
    /\ joined[NextJoined] = "ok"
    /\ handlers' = IF serve.timed THEN SubSeq(handlers, 1, Len(handlers) - 1) ELSE Tail(handlers)
    /\ UNCHANGED <<serve, ends, server, awake, outcome, backlog, handlerVars, syncVars>>

\* The last match of serve_tcp_until_stopped_scoped_with.
ScopedResult(r) ==
    IF error # None /\ (serve.timed \/ r = "accepted") THEN "handler" ELSE r

\* Joining is over with r; handler_error is taken.
Finish(r) ==
    IF Scoped THEN Return(ScopedResult(r)) /\ error' = None
    ELSE Return(r) /\ UNCHANGED error

\* A handler failed or panicked.
JoinError ==
    /\ server = "joining"
    /\ handlers # <<>>
    /\ joined[NextJoined] \notin {None, "ok"}
    /\ Finish(IF joined[NextJoined] = "error" THEN "handler" ELSE "join")

\* The deadline passes: the handler that is waited for, and the rest, are aborted.
JoinTimeout ==
    /\ server = "joining"
    /\ handlers # <<>>
    /\ serve.timed
    /\ Finish("timed out")

AllJoined ==
    /\ server = "joining"
    /\ handlers = <<>>
    /\ Finish("accepted")

-----------------------------------------------------------------------------
(* Handlers *)

\* A handler's task is polled.
BeginPoll(c) ==
    /\ handler[c] = "queued"
    /\ handler' = [handler EXCEPT ![c] = "polled"]
    /\ UNCHANGED <<serve, ends, serverVars, backlog, canceled, joined, syncVars>>

\* The scoped wrapper keeps the first error of a handler,
StoreError(c) ==
    /\ handler[c] = "polled"
    /\ Scoped
    /\ ends[c] = "error"
    /\ error' = IF error = None THEN c ELSE error
    /\ handler' = [handler EXCEPT ![c] = "stored"]
    /\ UNCHANGED <<serve, ends, serverVars, backlog, canceled, joined, stop, waking, scope, notify>>

\* and notifies the accept loop: Notify::notify_waiters.
NotifyWaiters(c) ==
    /\ handler[c] = "stored"
    /\ notify' = [notified |-> TRUE, waiting |-> FALSE]
    /\ awake' = (awake \/ (notify.waiting /\ server \notin {"returned", "dropped"}))
    /\ handler' = [handler EXCEPT ![c] = "told"]
    /\ UNCHANGED <<serve, ends, server, handlers, outcome, backlog, canceled, joined, stop, waking,
                   scope, error>>

\* How a poll ends: with a result, or pending.  A handler that waits for the scope's token sees
\* it set, or leaves its waker.
PollResult(c) ==
    CASE ends[c] = "ok" -> "ok"
      [] ends[c] = "panic" -> "panic"
      [] ends[c] = "error" -> IF Scoped THEN "ok" ELSE "error"
      [] ends[c] = "stopped" /\ Scoped /\ scope.stopped -> "ok"
      [] OTHER -> "pending"

EndPoll(c) ==
    /\ handler[c] = IF Scoped /\ ends[c] = "error" THEN "told" ELSE "polled"
    /\ LET r == PollResult(c) IN
       /\ handler' = [handler EXCEPT ![c] =
                        CASE r # "pending" -> "ended"
                          [] r = "pending" /\ c \in canceled -> "aborted"
                          [] OTHER -> "waiting"]
       /\ joined' = [joined EXCEPT ![c] = IF r # "pending" /\ @ = None THEN r ELSE @]
       /\ scope' = IF r = "pending" /\ ends[c] = "stopped" /\ ~scope.stopped
                   THEN [scope EXCEPT !.waiting = @ \cup {c}] ELSE scope
    /\ UNCHANGED <<serve, ends, serverVars, backlog, canceled, stop, waking, notify, error>>

-----------------------------------------------------------------------------
(* The outside *)

Connect(c) ==
    /\ handler[c] = "none"
    /\ c \notin backlog
    /\ server \in {"accepting", "polling stop", "polling notify"}
    /\ backlog' = backlog \cup {c}
    /\ UNCHANGED <<serve, ends, serverVars, handlerVars, syncVars>>

\* The reactor finds the listener readable and wakes the task that waits for it.
ListenerReady ==
    /\ server = "accepting"
    /\ ~awake
    /\ backlog # {}
    /\ awake' = TRUE
    /\ UNCHANGED <<serve, ends, server, handlers, outcome, backlog, handlerVars, syncVars>>

\* StopSource::stop sets the flag and takes the wakers under the lock,
Stop ==
    /\ ~stop.stopped
    /\ server \notin {"called", "returned", "dropped"}
    /\ stop' = [stopped |-> TRUE, waiting |-> {}]
    /\ waking' = ("server" \in stop.waiting)
    /\ UNCHANGED <<serve, ends, serverVars, backlog, handlerVars, scope, notify, error>>

\* and wakes outside it.
WakeStopped ==
    /\ waking
    /\ waking' = FALSE
    /\ awake' = (server \notin {"returned", "dropped"})
    /\ UNCHANGED <<serve, ends, server, handlers, outcome, backlog, handlerVars, stop, scope,
                   notify, error>>

\* The serving future is dropped where it stands, by a timeout around it or with its executor.
DropServer ==
    /\ server \in {"accepting", "joining"}
    /\ server' = "dropped"
    /\ awake' = FALSE
    /\ DropHandlers
    /\ UNCHANGED <<serve, ends, outcome, backlog, stop, waking, notify, error>>

-----------------------------------------------------------------------------
ServerStep ==
    \/ Listen
    \/ Accept
    \/ AcceptPending
    \/ StopTokenPending
    \/ StopTokenReady
    \/ NotifiedPending
    \/ NotifiedReady
    \/ JoinOk
    \/ JoinError
    \/ JoinTimeout
    \/ AllJoined

HandlerStep(c) ==
    \/ BeginPoll(c)
    \/ StoreError(c)
    \/ NotifyWaiters(c)
    \/ EndPoll(c)

Next ==
    \/ ServerStep
    \/ AcceptFails
    \/ IdleTimeout
    \/ \E c \in Conns : HandlerStep(c) \/ Connect(c)
    \/ ListenerReady
    \/ Stop
    \/ WakeStopped
    \/ DropServer

Spec == Init /\ [][Next]_vars

\* The executor polls what is queued, the reactor reports a readable listener, and the thread
\* that stops the server goes on to wake it.
Fairness ==
    /\ WF_vars(ServerStep)
    /\ WF_vars(ListenerReady)
    /\ WF_vars(IdleTimeout)
    /\ WF_vars(WakeStopped)
    /\ \A c \in Conns : WF_vars(HandlerStep(c))

-----------------------------------------------------------------------------
(* Properties *)

Over == server \in {"returned", "dropped"}

\* However serving ends, by its loop, an error, a deadline or a drop, no handler it spawned is
\* left to run on: each has ended or was aborted (TaskScope::drop, JoinHandle::drop,
\* abort_tcp_handlers).
NoHandlerLeft ==
    Over => \A c \in Conns : handler[c] \in {"none", "ended", "aborted"} \/ c \in canceled

\* A server that is told to stop returns, and a scoped one returns as well when a handler fails
\* while it sleeps in its accept loop: neither the stop nor the failure is missed.
ServeReturns ==
    /\ (serve.loop \in {"stopped", "scoped"} /\ stop.stopped) ~> Over
    /\ notify.notified ~> Over
=============================================================================
