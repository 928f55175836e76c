------------------------------- MODULE Reactor -------------------------------
(***************************************************************************)
(* How an executor waits for descriptors and deadlines: the futures of     *)
(* unix_io.rs and future.rs, the interest sets and timers of the scheduler *)
(* (io_interest.rs, timer.rs), the driver that turns them into one wait    *)
(* (driver.rs) and the OS reactor behind it (os.rs, os/epoll.rs,           *)
(* os/kqueue.rs), whose registry remembers what the kernel was told.       *)
(*                                                                         *)
(* A client connects, writes, reads the answer and closes, again and       *)
(* again; a server accepts a connection and copies what it reads back to   *)
(* it until the end of file; a sleeper sleeps; a yielder calls yield_now   *)
(* for ever.  Timed tasks run under timeout().  A descriptor is a number   *)
(* in Fds that refers to an open file in Files; the kernel's registrations *)
(* are by number and file, and go away with the file.  Interest, timer and *)
(* operation ids only ever tell futures apart, and a task waits for one    *)
(* descriptor at a time, so an interest is named by its task.              *)
(***************************************************************************)
EXTENDS Integers, FiniteSets, FiniteSetsExt

CONSTANTS
    Clients, Servers, Sleepers, Yielders,   \* tasks, by what they run
    Crews,                        \* the sets of tasks an executor may be given
    Timed,                        \* clients and servers under a timeout
    Fds,                          \* descriptor numbers; 0 is the listener
    Files,                        \* open files
    Backends,                     \* of "epoll", "kqueue", "poll"
    SleepUntil, TimeoutAt,        \* when the sleeps and the timeouts are due
    MaxTime,                      \* bound on the clock, in half milliseconds
    PipeSize,                     \* bytes the wake pipe holds
    MaxOutside,                     \* bound on arrivals and on wakes by other threads
    Reuse                         \* a closed descriptor's number is used again

Tasks == Clients \cup Servers \cup Sleepers \cup Yielders

ASSUME ReactorAssumption ==
    /\ Fds \subseteq Nat /\ 0 \in Fds /\ Files \subseteq Nat /\ 0 \in Files
    /\ IsFiniteSet(Tasks) /\ -1 \notin Tasks
    /\ Sleepers \cap (Clients \cup Servers) = {}
    /\ Crews \subseteq SUBSET Tasks
    /\ Backends \subseteq {"epoll", "kqueue", "poll"}
    /\ SleepUntil \in 1..MaxTime /\ TimeoutAt \in 1..MaxTime /\ PipeSize \in Nat \ {0} /\ Reuse \in BOOLEAN

None == -1
Never == MaxTime + 2

VARIABLES
    backend,   \* the reactor's backend
    file,      \* the open file behind each descriptor number, or None
    used,      \* numbers that have been used
    input,     \* per file: "none", "data" or "eof" to read
    room,      \* per file: a write would be accepted
    watched,   \* the kernel's registrations: number, file, filter
    registry,  \* the backend's record of them: number, read, write
    reads, writes,               \* interests, [task, fd]
    readyReads, readyWrites,     \* tasks whose interest was found ready
    timers,    \* tasks with a registered timer
    pc,        \* where each task is
    sock,      \* its stream's descriptor, or None
    queued,    \* tasks in the ready queue
    cur,       \* the task being polled, or None
    exec,      \* where the executor is
    wait,      \* the arguments of the reactor's wait
    pipe,      \* bytes in the wake pipe
    outside,   \* arrivals and wakes by other threads so far
    now        \* the clock

vars == <<backend, file, used, input, room, watched, registry, reads, writes, readyReads,
          readyWrites, timers, pc, sock, queued, cur, exec, wait, pipe, outside, now>>

kernel == <<backend, file, used, input, room>>
interests == <<reads, writes, readyReads, readyWrites>>
tasks == <<pc, sock>>
thread == <<exec, wait>>
clock == <<outside, now>>

\* OsReactor::new and Scheduler::new: the wake pipe is empty, nothing is registered
InitReactor == watched = {} /\ registry = {} /\ pipe = 0

InitInterests == reads = {} /\ writes = {} /\ readyReads = {} /\ readyWrites = {}

InitTimers == timers = {}

NoWait == [read |-> {}, write |-> {}, until |-> Never]

Init ==
    /\ backend \in Backends
    /\ file = [n \in Fds |-> IF n = 0 THEN 0 ELSE None]
    /\ used = {0}
    /\ input = [f \in Files |-> "none"] /\ room = [f \in Files |-> FALSE]
    /\ InitReactor /\ InitInterests /\ InitTimers
    /\ queued \in Crews
    /\ pc = [t \in Tasks |-> CASE t \notin queued -> "done" [] t \in Clients -> "connect"
                               [] t \in Servers -> "accept" [] t \in Sleepers -> "sleep"
                               [] OTHER -> "yield"]
    /\ sock = [t \in Tasks |-> None] /\ cur = None
    /\ exec = "poll" /\ wait = NoWait
    /\ outside = 0 /\ now = 0

-----------------------------------------------------------------------------
(* A definition marked "fault" is the one that follows it with a mistake in it; Next   *)
(* uses none of them.                                                                  *)

\* OsWaker::wake: a byte for each reason to wake; a full pipe already says enough
Holds(n) == IF n <= PipeSize THEN n ELSE PipeSize

Wakes(n) == pipe' = Holds(pipe + n)

\* OsReactor::drain_wakes reads until there is nothing left
Drained == 0

Done(t) == pc[t] \in {"done", "failed"}

\* the descriptor a task waits for: its stream's, or the listener's
Fd(t) == IF sock[t] = None THEN 0 ELSE sock[t]

-----------------------------------------------------------------------------
(* The environment: the peers' ends of the connections, the clock, other threads. *)

\* bytes, the end of the stream or a connection arrive
Arrives(f, what) ==
    /\ f \in {file[n] : n \in Fds} /\ input[f] = "none"
    /\ what = "eof" => f # 0
    /\ outside < MaxOutside
    /\ input' = [input EXCEPT ![f] = what]
    /\ outside' = outside + 1
    /\ UNCHANGED <<backend, file, used, room, watched, registry, interests, timers, tasks,
                   queued, cur, thread, pipe, now>>

\* a connection is made, or the peer reads
HasRoom(f) ==
    /\ f \in {file[n] : n \in Fds} \ {0} /\ ~room[f]
    /\ room' = [room EXCEPT ![f] = TRUE]
    /\ UNCHANGED <<backend, file, used, input, watched, registry, interests, timers, tasks,
                   queued, cur, thread, pipe, clock>>

Tick ==
    /\ now < MaxTime /\ cur = None
    /\ now' = now + 1
    /\ UNCHANGED <<kernel, watched, registry, interests, timers, tasks, queued, cur, thread,
                   pipe, outside>>

\* fault: the reactor is not woken
WokenElsewhereUnheard(t) ==
    /\ pc[t] \in {"readable", "connecting", "writable", "asleep"}
    /\ t \notin queued /\ cur # t /\ outside < MaxOutside
    /\ queued' = queued \cup {t}
    /\ outside' = outside + 1
    /\ UNCHANGED <<kernel, watched, registry, interests, timers, tasks, cur, thread, pipe, now>>

\* another thread wakes a task: it is queued and the reactor woken
WokenElsewhere(t) ==
    /\ pc[t] \in {"readable", "connecting", "writable", "asleep"}
    /\ t \notin queued /\ cur # t /\ outside < MaxOutside
    /\ queued' = queued \cup {t}
    /\ Wakes(1)
    /\ outside' = outside + 1
    /\ UNCHANGED <<kernel, watched, registry, interests, timers, tasks, cur, thread, now>>

-----------------------------------------------------------------------------
(* Descriptors. *)

FreeFile == CHOOSE f \in Files : f \notin {file[n] : n \in Fds}
                                 /\ \A g \in Files : g < f => g \in {file[n] : n \in Fds}

\* the lowest free number; without reuse, one that was never used
FreeFd == LET free == IF Reuse THEN {n \in Fds : file[n] = None} ELSE Fds \ used
          IN IF free = {} THEN None ELSE Min(free)

\* a socket is opened for t
Opens(t) ==
    /\ FreeFd # None
    /\ file' = [file EXCEPT ![FreeFd] = FreeFile]
    /\ used' = used \cup {FreeFd}
    /\ room' = [room EXCEPT ![FreeFile] = t \in Servers]
    /\ sock' = [sock EXCEPT ![t] = FreeFd]

\* the stream of t is dropped: the kernel forgets the file, its registrations and what
\* was to be read from it
Closes(t) ==
    IF sock[t] = None THEN UNCHANGED <<file, input, watched, sock>>
    ELSE /\ file' = [file EXCEPT ![sock[t]] = None]
         /\ input' = [input EXCEPT ![file[sock[t]]] = "none"]
         /\ watched' = {w \in watched : w.fd # sock[t]}
         /\ sock' = [sock EXCEPT ![t] = None]

-----------------------------------------------------------------------------
(* The futures, polled on the executor's thread.  A syscall or a registration is one   *)
(* step, so that peers act in between.                                                 *)

\* next_task
Poll(t) ==
    /\ exec = "poll" /\ cur = None /\ t \in queued /\ ~Done(t)
    /\ cur' = t /\ queued' = queued \ {t}
    /\ UNCHANGED <<kernel, watched, registry, interests, timers, tasks, thread, pipe, clock>>

\* tcp_connect_start; the result is not known yet
ConnectStart(t) ==
    /\ cur = t /\ pc[t] = "connect"
    /\ Opens(t)
    /\ pc' = [pc EXCEPT ![t] = "connecting"]
    /\ UNCHANGED <<backend, input, watched, registry, interests, timers, queued, cur,
                   thread, pipe, clock>>

\* a connection at a time, as long as there are numbers: then the task is done
NoMoreFds(t) ==
    /\ cur = t /\ pc[t] \in {"connect", "accept"} /\ FreeFd = None
    /\ pc' = [pc EXCEPT ![t] = "done"]
    /\ cur' = None
    /\ timers' = timers \ {t}
    /\ UNCHANGED <<kernel, watched, registry, interests, sock, queued, thread, pipe, clock>>

\* accept_async: a connection is taken
Accept(t) ==
    /\ cur = t /\ pc[t] = "accept" /\ input[0] = "data"
    /\ Opens(t)
    /\ input' = [input EXCEPT ![0] = "none"]
    /\ pc' = [pc EXCEPT ![t] = "copy"]
    /\ UNCHANGED <<backend, watched, registry, interests, timers, queued, cur, thread,
                   pipe, clock>>

\* read_exact_async and copy_async: bytes are there
Read(t) ==
    /\ cur = t /\ pc[t] \in {"read", "copy"} /\ input[file[sock[t]]] = "data"
    /\ pc' = [pc EXCEPT ![t] = IF t \in Clients THEN "close" ELSE "write"]
    /\ input' = [input EXCEPT ![file[sock[t]]] = "none"]
    /\ UNCHANGED <<backend, file, used, room, watched, registry, interests, timers, sock,
                   queued, cur, thread, pipe, clock>>

\* read() returns 0: copy_async is finished, read_exact_async fails with UnexpectedEof
ReadEnd(t) ==
    /\ cur = t /\ pc[t] \in {"read", "copy"} /\ input[file[sock[t]]] = "eof"
    /\ pc' = [pc EXCEPT ![t] = "close"]
    /\ UNCHANGED <<kernel, watched, registry, interests, timers, sock, queued, cur, thread,
                   pipe, clock>>

\* write_all_async: the bytes are accepted
Write(t) ==
    /\ cur = t /\ pc[t] = "write" /\ room[file[sock[t]]]
    /\ pc' = [pc EXCEPT ![t] = IF t \in Clients THEN "read" ELSE "copy"]
    /\ room' \in {room, [room EXCEPT ![file[sock[t]]] = FALSE]}
    /\ UNCHANGED <<backend, file, used, input, watched, registry, interests, timers, sock,
                   queued, cur, thread, pipe, clock>>

\* WouldBlock: the task goes on to wait for the descriptor
WouldBlock(t) ==
    /\ cur = t
    /\ \/ /\ pc[t] = "accept" /\ input[0] = "none"
          /\ pc' = [pc EXCEPT ![t] = "readable"]
       \/ /\ pc[t] \in {"read", "copy"} /\ input[file[sock[t]]] = "none"
          /\ pc' = [pc EXCEPT ![t] = "readable"]
       \/ /\ pc[t] = "write" /\ ~room[file[sock[t]]]
          /\ pc' = [pc EXCEPT ![t] = "writable"]
    /\ UNCHANGED <<kernel, watched, registry, interests, timers, sock, queued, cur, thread,
                   pipe, clock>>

\* the stream is dropped and the next connection begun, in the same poll
Close(t) ==
    /\ cur = t /\ pc[t] = "close"
    /\ Closes(t)
    /\ pc' = [pc EXCEPT ![t] = IF t \in Clients THEN "connect" ELSE "accept"]
    /\ UNCHANGED <<backend, used, room, registry, interests, timers, queued, cur, thread,
                   pipe, clock>>

AfterReadable(t) == IF t \in Clients THEN "read" ELSE IF sock[t] = None THEN "accept" ELSE "copy"

\* Readable::poll finds its id among the ready ones; the future is dropped
ReadableReady(t) ==
    /\ cur = t /\ pc[t] = "readable" /\ t \in readyReads
    /\ readyReads' = readyReads \ {t}
    /\ pc' = [pc EXCEPT ![t] = AfterReadable(t)]
    /\ UNCHANGED <<kernel, watched, registry, reads, writes, readyWrites, timers, sock,
                   queued, cur, thread, pipe, clock>>

\* Writable::poll; a connection is then established or refused (take_error)
WritableReady(t) ==
    /\ cur = t /\ pc[t] \in {"writable", "connecting"} /\ t \in readyWrites
    /\ readyWrites' = readyWrites \ {t}
    /\ \E next \in IF pc[t] = "connecting" THEN {"write", "close"} ELSE {"write"} :
          pc' = [pc EXCEPT ![t] = next]
    /\ UNCHANGED <<kernel, watched, registry, reads, writes, readyReads, timers, sock,
                   queued, cur, thread, pipe, clock>>

\* Sleep::poll under a Timeout: due, or its timer registered.  InTime says which.
Deadline(t) == IF t \in Sleepers THEN SleepUntil ELSE TimeoutAt

InTime(t) == t \notin Timed \cup Sleepers \/ now < Deadline(t)

\* TimerSet::register: the reactor is woken for a timer that is now the first
TimerWakes(t) ==
    IF t \in Timed \cup Sleepers /\ \A u \in timers : Deadline(t) < Deadline(u) THEN 1 ELSE 0

\* InterestSet::register: a new interest, or the old one of this future
Register(set, t) == {i \in set : i.task # t} \cup {[task |-> t, fd |-> Fd(t)]}

\* InterestSet::remove
Remove(set, t) == {i \in set : i.task # t}

\* InterestSet::fds
FdsOf(set) == {i.fd : i \in set}

\* Sleep::poll under a Timeout: its timer is registered
RegisterTimer(t) == timers' = IF t \in Timed \cup Sleepers THEN timers \cup {t} ELSE timers

\* Sleep::poll that is due, and Drop of Sleep
RemoveTimer(t) == timers' = timers \ {t}

\* register_read_interest, wake_reactor; then Timeout polls its Sleep
ReadablePending(t) ==
    /\ cur = t /\ pc[t] = "readable" /\ t \notin readyReads /\ InTime(t)
    /\ reads' = Register(reads, t)
    /\ RegisterTimer(t)
    /\ Wakes(1 + TimerWakes(t))
    /\ cur' = None
    /\ UNCHANGED <<kernel, watched, registry, writes, readyReads, readyWrites, tasks, queued,
                   thread, clock>>

\* register_write_interest, wake_reactor
WritablePending(t) ==
    /\ cur = t /\ pc[t] \in {"writable", "connecting"} /\ t \notin readyWrites /\ InTime(t)
    /\ writes' = Register(writes, t)
    /\ RegisterTimer(t)
    /\ Wakes(1 + TimerWakes(t))
    /\ cur' = None
    /\ UNCHANGED <<kernel, watched, registry, reads, readyReads, readyWrites, tasks, queued,
                   thread, clock>>

\* Drop of Readable: remove_read_interest
ForgetRead(t) == reads' = Remove(reads, t) /\ readyReads' = readyReads \ {t}

\* Drop of Writable: remove_write_interest
ForgetWrite(t) == writes' = Remove(writes, t) /\ readyWrites' = readyWrites \ {t}

\* Timeout::poll: the inner future is pending (register_* is undone by its drop) and the
\* deadline has passed
TimedOut(t) ==
    /\ cur = t /\ t \in Timed /\ ~InTime(t)
    /\ \/ pc[t] = "readable" /\ t \notin readyReads
       \/ pc[t] \in {"writable", "connecting"} /\ t \notin readyWrites
    /\ ForgetRead(t) /\ ForgetWrite(t)
    /\ RemoveTimer(t)
    /\ Closes(t)
    /\ pc' = [pc EXCEPT ![t] = "failed"]
    /\ Wakes(1)
    /\ cur' = None
    /\ UNCHANGED <<backend, used, room, registry, queued, thread, clock>>

\* another task of this executor drops the future (abort, race)
Cancel(t) ==
    /\ exec = "poll" /\ cur = None /\ t \notin Sleepers
    /\ pc[t] \in {"readable", "writable", "connecting"}
    /\ ForgetRead(t) /\ ForgetWrite(t)
    /\ RemoveTimer(t)
    /\ Closes(t)
    /\ pc' = [pc EXCEPT ![t] = "failed"]
    /\ UNCHANGED <<backend, used, room, registry, queued, cur, thread, pipe, clock>>

\* Sleep::poll
SleepPending(t) ==
    /\ cur = t /\ t \in Sleepers /\ InTime(t)
    /\ RegisterTimer(t)
    /\ pc' = [pc EXCEPT ![t] = "asleep"]
    /\ Wakes(TimerWakes(t))
    /\ cur' = None
    /\ UNCHANGED <<kernel, watched, registry, interests, sock, queued, thread, clock>>

SleepReady(t) ==
    /\ cur = t /\ t \in Sleepers /\ ~InTime(t)
    /\ RemoveTimer(t)
    /\ pc' = [pc EXCEPT ![t] = "done"]
    /\ cur' = None
    /\ UNCHANGED <<kernel, watched, registry, interests, sock, queued, thread, pipe, clock>>

\* YieldNow::poll, in a loop: the task wakes itself and is pending
Yield(t) ==
    /\ cur = t /\ t \in Yielders
    /\ queued' = queued \cup {t}
    /\ Wakes(1)
    /\ cur' = None
    /\ UNCHANGED <<kernel, watched, registry, interests, timers, tasks, thread, clock>>

-----------------------------------------------------------------------------
(* The executor and its driver. *)

\* TimerSet::expired
Expired == {t \in timers : Deadline(t) <= now}

\* TimerSet::next_deadline, time_until_next
UntilNext == IF timers = {} THEN Never
             ELSE Max({0, Min({Deadline(t) : t \in timers}) - now})

\* the ready queue is empty: wake_expired_timers, and round again or on to the wait
ExpireTimers ==
    /\ exec = "poll" /\ cur = None /\ queued \subseteq {t \in Tasks : Done(t)}
    /\ timers' = timers \ Expired
    /\ queued' = Expired
    /\ Wakes(Cardinality(Expired))
    /\ exec' = IF Expired = {} THEN "prepare" ELSE "poll"
    /\ UNCHANGED <<kernel, watched, registry, interests, tasks, cur, wait, clock>>

\* timeout_to_wait_ms: the wait ends at the first millisecond boundary that is not before
\* the deadline (a duration_to_timespec wait is exact)
RoundedUp(d) == 2 * ((d + 1) \div 2)

\* kqueue waits for an exact time
WaitTime(d) == IF backend = "kqueue" THEN d ELSE RoundedUp(d)

\* wait_for_reactor_event: the descriptors and the time to the next timer are read
Prepare ==
    /\ exec = "prepare"
    /\ wait' = [read |-> FdsOf(reads), write |-> FdsOf(writes),
                until |-> IF UntilNext = Never THEN Never ELSE now + WaitTime(UntilNext)]
    /\ exec' = "reconcile"
    /\ UNCHANGED <<kernel, watched, registry, interests, timers, tasks, queued, cur, pipe, clock>>

\* EpollInterests::new, KqueueInterests::new: one interest for a descriptor, with both uses
Wanted == {[fd |-> n, read |-> n \in wait.read, write |-> n \in wait.write] :
               n \in wait.read \cup wait.write}

\* interest_fds, contains_fd: registrations nobody waits for any more
Stale == {r \in registry : \A i \in Wanted : i.fd # r.fd}

\* token_for_fd, get
Known(i) == {r \in registry : r.fd = i.fd}

\* not registered, or for other uses
Changed == {i \in Wanted : i \notin registry}

\* EpollInterest::events: what the kernel is asked to watch for, on the file open now
Filters(i) == {[fd |-> i.fd, file |-> file[i.fd], filter |-> f] :
                  f \in {g \in {"read", "write"} : IF g = "read" THEN i.read ELSE i.write}}

\* what the kernel has under the number, for the file that is open there now
Kept(i) == {w \in watched : w.fd = i.fd /\ w.file = file[i.fd]}

\* the registry after stale registrations are removed, new ones inserted and others updated
RegistryUpdated ==
    registry' = {r \in registry \ Stale : \A i \in Changed : r.fd # i.fd} \cup Changed

Unwatched == {w \in watched : \A s \in Stale : w.fd # s.fd}

\* fault: an interest that is registered already is left as it is
ReconcileEpollKeeping ==
    LET new == {i \in Wanted : Known(i) = {}} IN
    /\ watched' = Unwatched \cup UNION {Filters(i) : i \in new}
    /\ registry' = (registry \ Stale) \cup new

\* reconcile_epoll_interests: stale registrations are deleted; an interest the registry does
\* not have is added, one it has with other uses modified, and one it has just so left alone
ReconcileEpoll ==
    /\ watched' = {w \in Unwatched : \A i \in Changed : w.fd # i.fd}
                      \cup UNION {Filters(i) : i \in Changed}
    /\ RegistryUpdated

\* epoll_ctl refuses to modify what it does not have
EpollRefuses ==
    backend = "epoll" /\ \E i \in Changed : Known(i) # {} /\ Kept(i) = {}

\* register_kqueue_interest and update_kqueue_interest: the filters that are new are added,
\* those no longer wanted deleted
FiltersAdded(i) == {f \in Filters(i) : \A r \in Known(i) : IF f.filter = "read" THEN ~r.read ELSE ~r.write}

FiltersDeleted(i) == {w \in watched : w.fd = i.fd /\ w.filter \notin {f.filter : f \in Filters(i)}}

\* reconcile_kqueue_interests
ReconcileKqueue ==
    /\ watched' = (Unwatched \ UNION {FiltersDeleted(i) : i \in Changed})
                      \cup UNION {FiltersAdded(i) : i \in Changed}
    /\ RegistryUpdated

\* EpollBackend::wait_io and KqueueBackend::wait_io begin
BeginWait ==
    /\ exec = "reconcile" /\ backend # "poll" /\ ~EpollRefuses
    /\ IF backend = "epoll" THEN ReconcileEpoll ELSE ReconcileKqueue
    /\ exec' = "wait"
    /\ UNCHANGED <<kernel, interests, timers, tasks, queued, cur, wait, pipe, clock>>

\* wait_io_backend on poll(): the kernel is given the descriptors with each call
BeginPoll ==
    /\ exec = "reconcile" /\ backend = "poll"
    /\ watched' = UNION {Filters(i) : i \in Wanted}
    /\ registry' = Wanted
    /\ exec' = "wait"
    /\ UNCHANGED <<kernel, interests, timers, tasks, queued, cur, wait, pipe, clock>>

\* "OS reactor wait failed": the executor panics
WaitFails ==
    /\ exec = "reconcile" /\ EpollRefuses
    /\ exec' = "panicked"
    /\ UNCHANGED <<kernel, watched, registry, interests, timers, tasks, queued, cur, wait,
                   pipe, clock>>

\* the registrations the kernel reports
Events == {w \in watched : IF w.filter = "read" THEN input[w.file] # "none" ELSE room[w.file]}

\* the registry tells what an event's token stands for, and which uses it was for
Reported(filter) ==
    {w.fd : w \in {e \in Events : e.filter = filter /\ \E r \in registry :
                       r.fd = e.fd /\ IF filter = "read" THEN r.read ELSE r.write}}

\* wake_readable_fds, wake_writable_fds: the tasks whose interest is in one of them
WokenReads == {i.task : i \in {j \in reads : j.fd \in Reported("read")}}
WokenWrites == {i.task : i \in {j \in writes : j.fd \in Reported("write")}}

\* fault: an interest found ready is forgotten
MarkedNot(ready, woken) == ready

\* InterestSet::wake_ready: the ids of the interests found ready are remembered
Marked(ready, woken) == ready \cup woken

\* the wait returns with a wake, events, or because its time is up; apply_event wakes the
\* tasks whose interests are ready and remembers their ids; then wake_expired_timers
EndWait ==
    /\ exec = "wait"
    /\ pipe > 0 \/ Events # {} \/ now >= wait.until
    /\ LET woken == WokenReads \cup WokenWrites \cup Expired IN
       /\ reads' = {i \in reads : i.task \notin WokenReads}
       /\ readyReads' = Marked(readyReads, WokenReads)
       /\ writes' = {i \in writes : i.task \notin WokenWrites}
       /\ readyWrites' = Marked(readyWrites, WokenWrites)
       /\ timers' = timers \ Expired
       /\ queued' = queued \cup woken
       /\ pipe' = Holds(Drained + Cardinality(woken \ queued))
    /\ exec' = "poll" /\ wait' = NoWait
    /\ UNCHANGED <<kernel, watched, registry, tasks, cur, clock>>

-----------------------------------------------------------------------------
Step(t) ==
    \/ Poll(t) \/ ConnectStart(t) \/ NoMoreFds(t) \/ Accept(t) \/ Read(t) \/ ReadEnd(t)
    \/ Write(t) \/ WouldBlock(t) \/ Close(t) \/ ReadableReady(t) \/ WritableReady(t)
    \/ ReadablePending(t) \/ WritablePending(t) \/ TimedOut(t)
    \/ SleepPending(t) \/ SleepReady(t)

Executor ==
    \/ \E t \in Tasks : Step(t)
    \/ ExpireTimers \/ Prepare \/ BeginWait \/ BeginPoll \/ EndWait

Environment ==
    \/ \E f \in Files, what \in {"data", "eof"} : Arrives(f, what)
    \/ \E f \in Files : HasRoom(f)
    \/ Tick
    \/ \E t \in Tasks : WokenElsewhere(t) \/ Cancel(t)

Next == Executor \/ Environment

Spec == Init /\ [][Next]_vars

\* the executor's thread runs and time passes; peers and other threads need not do anything
FairSpec == Spec /\ WF_vars(Executor) /\ WF_vars(Tick)

\* with descriptor numbers used again the wait itself may fail
ReuseSpec == Init /\ [][Next \/ WaitFails]_vars

\* poll_ready_tasks with a task that is always ready: the budget is used up, expired timers
\* are woken, and the loop goes round again.  The ready queue is first in, first out.
BudgetUsed ==
    /\ exec = "poll" /\ cur = None /\ queued # {}
    /\ timers' = timers \ Expired
    /\ queued' = queued \cup Expired
    /\ Wakes(Cardinality(Expired))
    /\ UNCHANGED <<kernel, watched, registry, interests, tasks, cur, thread, clock>>

BusyNext == Next \/ BudgetUsed \/ \E t \in Yielders : Yield(t)

BusySpec ==
    /\ Init /\ [][BusyNext]_vars
    /\ WF_vars(Executor \/ \E t \in Yielders : Yield(t))
    /\ WF_vars(Tick) /\ SF_vars(BudgetUsed /\ Expired # {})
    /\ \A t \in Tasks : SF_vars(Poll(t))

-----------------------------------------------------------------------------
(* What the reactor promises. *)

\* While the executor sleeps, the kernel watches every descriptor some future waits for, on
\* the file that is open under that number now: whatever registrations earlier waits left
\* behind, whichever connections were closed since, reconcile_*_interests leaves the kernel
\* with all that the interest sets ask for, and no change it asks for is refused.
InterestWatched ==
    /\ exec # "panicked"
    /\ exec = "wait" =>
        /\ \A i \in reads : [fd |-> i.fd, file |-> file[i.fd], filter |-> "read"] \in watched
        /\ \A i \in writes : [fd |-> i.fd, file |-> file[i.fd], filter |-> "write"] \in watched

\* The executor does not sleep on while a task is in the ready queue: whoever queued it
\* left a byte in the wake pipe that no earlier wait has drained.
NoSleepThroughWake ==
    exec = "wait" /\ (\E t \in queued : ~Done(t)) => pipe > 0

Served(t) ==
    \/ pc[t] = "readable" /\ input[file[Fd(t)]] # "none"
    \/ pc[t] \in {"writable", "connecting"} /\ room[file[Fd(t)]]
    \/ pc[t] = "asleep" /\ now >= SleepUntil

\* A task whose descriptor is ready, or whose sleep is over, goes on: no readiness and no
\* deadline is lost between the poll that found nothing, the registration and the wait.
AwaitedIsServed ==
    \A t \in Tasks : Served(t) ~> ~Served(t) \/ pc[t] \notin {"readable", "writable", "connecting", "asleep"}
=============================================================================
