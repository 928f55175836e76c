--------------------------- MODULE HandoverProofs --------------------------
(***************************************************************************)
(* Nothing that is handed over is lost or left behind.  The messages of a  *)
(* shard's mailbox, for any finite set of senders, any capacity and any    *)
(* number of messages; the connection handlers of a TCP server, for any    *)
(* number of connections and any plan of accepts, results and              *)
(* cancellations; the buffers of the completion kernel, for any number of  *)
(* operations and queues.                                                  *)
(***************************************************************************)
EXTENDS ShardMailbox, TcpServe, CompletionKernel, TLAPS

\* A leaf is first-order reasoning, Zenon's, unless it cites another prover.
USE Zenon

-----------------------------------------------------------------------------
(* Serving connections *)

HandlerStates == {"none", "queued", "polled", "stored", "told", "waiting", "ended", "aborted"}

\* While the server lives nothing is aborted, a result of "ok" is of a handler that ended, and
\* it has the handle of every handler that has not.
ServeInv ==
    /\ handler \in [Conns -> HandlerStates] /\ DOMAIN joined = Conns /\ handlers \in Seq(Conns)
    /\ backlog \subseteq {c \in Conns : handler[c] = "none"}
    /\ ~Over => \A c \in Conns : /\ joined[c] = "ok" => handler[c] = "ended"
                                 /\ handler[c] \in {"none", "ended"} \/ c \in Range(handlers)
    /\ NoHandlerLeft

\* Whoever is not joined next stays among the handles.
LEMMA HandlesWithout ==
    ASSUME NEW s \in Seq(Conns), s # <<>>
    PROVE  /\ Head(s) \in Conns /\ Tail(s) \in Seq(Conns) /\ Range(s) \subseteq Range(Tail(s)) \cup {Head(s)}
           /\ s[Len(s)] \in Conns /\ SubSeq(s, 1, Len(s) - 1) \in Seq(Conns) /\ Range(s) \subseteq Range(SubSeq(s, 1, Len(s) - 1)) \cup {s[Len(s)]}
<1>1. Len(s) \in Nat \ {0}
  BY SMT
<1>2. Head(s) \in Conns /\ Tail(s) \in Seq(Conns) /\ s[Len(s)] \in Conns /\ SubSeq(s, 1, Len(s) - 1) \in Seq(Conns)
  BY <1>1, SMT
<1>3. ASSUME NEW i \in DOMAIN s PROVE s[i] \in Range(Tail(s)) \cup {Head(s)}
  <2>1. CASE i = 1
    BY <2>1, SMT
  <2>2. CASE i # 1
    <3>1. i - 1 \in DOMAIN Tail(s) /\ Tail(s)[i - 1] = s[i]
      BY <1>1, <2>2, SMT
    <3>2. QED
      BY <3>1 DEF Range
  <2>3. QED
    BY <2>1, <2>2
<1>4. ASSUME NEW i \in DOMAIN s PROVE s[i] \in Range(SubSeq(s, 1, Len(s) - 1)) \cup {s[Len(s)]}
  <2>1. CASE i = Len(s)
    BY <2>1
  <2>2. CASE i # Len(s)
    <3>1. i \in DOMAIN SubSeq(s, 1, Len(s) - 1) /\ SubSeq(s, 1, Len(s) - 1)[i] = s[i]
      BY <1>1, <2>2, SMT
    <3>2. QED
      BY <3>1 DEF Range
  <2>3. QED
    BY <2>1, <2>2
<1>5. QED
  BY <1>2, <1>3, <1>4 DEF Range

LEMMA HandlesWith ==
    ASSUME NEW s \in Seq(Conns), NEW c \in Conns
    PROVE  /\ Append(s, c) \in Seq(Conns) /\ Range(s) \cup {c} \subseteq Range(Append(s, c))
<1>1. Append(s, c) \in Seq(Conns) /\ Len(s) \in Nat /\ DOMAIN Append(s, c) = 1 .. Len(s) + 1
  BY SMT
<1>2. \A i \in DOMAIN s : i \in DOMAIN Append(s, c) /\ Append(s, c)[i] = s[i]
  BY SMT
<1>3. Len(s) + 1 \in DOMAIN Append(s, c) /\ Append(s, c)[Len(s) + 1] = c
  BY SMT
<1>4. QED
  BY <1>1, <1>2, <1>3 DEF Range

\* What the server still owns when it goes is aborted or told to be.
LEMMA DropsHandlers ==
    ASSUME ServeInv, ~Over, DropHandlers, UNCHANGED backlog, server' \in {"returned", "dropped"}
    PROVE  ServeInv'
<1>1. /\ handler' = [c \in Conns |->
                       IF c \in Range(handlers) /\ handler[c] \in {"queued", "waiting"} THEN "aborted"
                       ELSE handler[c]]
      /\ canceled' = canceled \cup {c \in Range(handlers) :
                                      handler[c] \notin {"ended", "aborted", "queued", "waiting"}}
  BY SMT DEF DropHandlers, Abort
<1>2. DOMAIN joined' = Conns /\ handlers' = <<>> /\ handlers' \in Seq(Conns)
  BY SMT DEF DropHandlers, Abort
<1>3. handler' \in [Conns -> HandlerStates] /\ \A c \in Conns : handler[c] = "none" => handler'[c] = "none"
  BY <1>1, SMT DEF ServeInv, HandlerStates
<1>4. ASSUME NEW c \in Conns
      PROVE  handler'[c] \in {"none", "ended", "aborted"} \/ c \in canceled'
  BY <1>1, SMT DEF ServeInv
<1>5. Over'
  BY DEF Over
<1>6. QED
  BY <1>2, <1>3, <1>4, <1>5 DEF ServeInv, NoHandlerLeft

LEMMA ServeInvSame ==
    ASSUME ServeInv, UNCHANGED <<handlers, handlerVars>>, backlog' = backlog,
           (~Over /\ ~Over') \/ UNCHANGED server
    PROVE  ServeInv'
BY DEF ServeInv, NoHandlerLeft, Over, handlerVars

\* Handlers run on; while the server lives they stay among its handles until they end.
LEMMA HandlersRun ==
    ASSUME ServeInv, UNCHANGED <<handlers, server, canceled, backlog>>, NEW c \in Conns,
           handler[c] \notin {"none", "ended", "aborted"}, handler'[c] # "none",
           handler' \in [Conns -> HandlerStates], DOMAIN joined' = Conns,
           \A x \in Conns \ {c} : handler'[x] = handler[x] /\ joined'[x] = joined[x],
           joined'[c] = joined[c] \/ handler'[c] = "ended"
    PROVE  ServeInv'
<1>1. backlog' \subseteq {x \in Conns : handler'[x] = "none"}
  BY DEF ServeInv
<1>2. NoHandlerLeft'
  <2>1. Over' <=> Over
    BY DEF Over
  <2>2. Over => c \in canceled
    BY DEF ServeInv, NoHandlerLeft
  <2>3. QED
    BY <2>1, <2>2 DEF ServeInv, NoHandlerLeft
<1>3. ASSUME ~Over', NEW x \in Conns
      PROVE  /\ joined'[x] = "ok" => handler'[x] = "ended"
             /\ handler'[x] \in {"none", "ended"} \/ x \in Range(handlers)
  BY <1>3 DEF ServeInv, Over
<1>4. QED
  BY <1>1, <1>2, <1>3 DEF ServeInv

LEMMA HandlerStepKeeps ==
    ASSUME ServeInv, NEW c \in Conns, HandlerStep(c)
    PROVE  ServeInv'
<1>1. CASE BeginPoll(c)
  <2>1. handler' \in [Conns -> HandlerStates] /\ handler'[c] = "polled"
        /\ \A x \in Conns \ {c} : handler'[x] = handler[x]
    BY <1>1, SMT DEF BeginPoll, ServeInv, HandlerStates
  <2>2. QED
    BY <1>1, <2>1, HandlersRun DEF BeginPoll, ServeInv, serverVars
<1>2. CASE StoreError(c)
  <2>1. handler' \in [Conns -> HandlerStates] /\ handler'[c] = "stored"
        /\ \A x \in Conns \ {c} : handler'[x] = handler[x]
    BY <1>2, SMT DEF StoreError, ServeInv, HandlerStates
  <2>2. QED
    BY <1>2, <2>1, HandlersRun DEF StoreError, ServeInv, serverVars
<1>3. CASE NotifyWaiters(c)
  <2>1. handler' \in [Conns -> HandlerStates] /\ handler'[c] = "told"
        /\ \A x \in Conns \ {c} : handler'[x] = handler[x]
    BY <1>3, SMT DEF NotifyWaiters, ServeInv, HandlerStates
  <2>2. QED
    BY <1>3, <2>1, HandlersRun DEF NotifyWaiters, ServeInv, serverVars
<1>4. CASE EndPoll(c)
  <2> DEFINE r == PollResult(c)
  <2>1. /\ handler' = [handler EXCEPT ![c] = CASE r # "pending" -> "ended"
                                               [] r = "pending" /\ c \in canceled -> "aborted"
                                               [] OTHER -> "waiting"]
        /\ joined' = [joined EXCEPT ![c] = IF r # "pending" /\ @ = None THEN r ELSE @]
        /\ UNCHANGED <<handlers, server, canceled, backlog>>
        /\ handler[c] = IF Scoped /\ ends[c] = "error" THEN "told" ELSE "polled"
    BY <1>4 DEF EndPoll, serverVars
  <2> HIDE DEF r
  <2>0. handler[c] \notin {"none", "ended", "aborted"}
    BY <2>1, SMT
  <2>2. /\ handler' \in [Conns -> HandlerStates] /\ handler'[c] # "none"
        /\ DOMAIN joined' = Conns
        /\ \A x \in Conns \ {c} : handler'[x] = handler[x] /\ joined'[x] = joined[x]
    BY <2>1, SMT DEF ServeInv, HandlerStates
  <2>3. joined'[c] = joined[c] \/ handler'[c] = "ended"
    <3>1. CASE r # "pending"
      <4>1. handler' = [handler EXCEPT ![c] = "ended"]
        BY <2>1, <3>1
      <4>2. QED
        BY <4>1 DEF ServeInv
    <3>2. CASE r = "pending"
      <4>1. joined' = [joined EXCEPT ![c] = joined[c]]
        BY <2>1, <3>2, SMT
      <4>2. QED
        BY <4>1 DEF ServeInv
    <3>3. QED
      BY <3>1, <3>2
  <2>4. QED
    BY <2>0, <2>1, <2>2, <2>3, HandlersRun
<1>5. QED
  BY <1>1, <1>2, <1>3, <1>4 DEF HandlerStep

LEMMA ServerStepKeeps ==
    ASSUME ServeInv, ServerStep \/ AcceptFails \/ IdleTimeout \/ DropServer
    PROVE  ServeInv'
<1>0. ~Over
  BY DEF ServerStep, Listen, Accept, AcceptPending, StopTokenPending, StopTokenReady, NotifiedPending,
         NotifiedReady, JoinOk, JoinError, JoinTimeout, AllJoined, AcceptFails, IdleTimeout, DropServer, Over
<1>1. ASSUME NEW r, Return(r) PROVE ServeInv'
  BY <1>0, <1>1, DropsHandlers DEF Return
<1>2. ASSUME LeaveLoop PROVE ServeInv'
  <2>1. /\ server' = "joining" /\ UNCHANGED <<handlers, backlog, canceled, joined>>
        /\ IF Scoped THEN StopScope ELSE UNCHANGED handler
    BY <1>2 DEF LeaveLoop
  <2>2. handler' \in [Conns -> HandlerStates]
        /\ \A c \in Conns : handler'[c] = handler[c] \/ (handler[c] = "waiting" /\ handler'[c] = "queued")
    BY <2>1, SMT DEF StopScope, ServeInv, HandlerStates
  <2>3. ~Over'
    BY <2>1 DEF Over
  <2>4. backlog' \subseteq {c \in Conns : handler'[c] = "none"}
    BY <2>1, <2>2 DEF ServeInv
  <2>5. QED
    BY <1>0, <2>1, <2>2, <2>3, <2>4 DEF ServeInv, NoHandlerLeft
<1>3. ASSUME NEW r, Finish(r) PROVE ServeInv'
  BY <1>1, <1>3 DEF Finish
<1>4. CASE Accept
  <2>1. PICK c \in backlog : backlog' = backlog \ {c} /\ SpawnHandler(c)
    BY <1>4 DEF Accept
  <2>2. c \in Conns /\ handler[c] = "none" /\ handlers' = Append(handlers, c)
        /\ handler' = [handler EXCEPT ![c] = "queued"] /\ UNCHANGED <<joined, canceled>> /\ ~Over'
    BY <1>4, <2>1 DEF Accept, SpawnHandler, ServeInv, Over
  <2>3. /\ handler' \in [Conns -> HandlerStates] /\ handler'[c] = "queued"
        /\ \A x \in Conns \ {c} : handler'[x] = handler[x]
    BY <2>2, SMT DEF ServeInv, HandlerStates
  <2>4. handlers' \in Seq(Conns) /\ Range(handlers) \cup {c} \subseteq Range(handlers')
    BY <2>2, HandlesWith DEF ServeInv
  <2>5. ASSUME NEW x \in Conns
        PROVE  /\ joined'[x] = "ok" => handler'[x] = "ended"
               /\ handler'[x] \in {"none", "ended"} \/ x \in Range(handlers')
    <3>1. CASE x = c
      BY <1>0, <2>2, <2>4, <3>1 DEF ServeInv
    <3>2. CASE x # c
      BY <1>0, <2>2, <2>3, <2>4, <3>2 DEF ServeInv
    <3>3. QED
      BY <3>1, <3>2
  <2>6. backlog' \subseteq {x \in Conns : handler'[x] = "none"}
    BY <2>1, <2>3 DEF ServeInv
  <2>7. QED
    BY <2>2, <2>3, <2>4, <2>5, <2>6 DEF ServeInv, NoHandlerLeft
<1>5. CASE JoinOk
  <2>1. /\ handlers # <<>> /\ joined[NextJoined] = "ok" /\ UNCHANGED <<server, backlog, handlerVars>>
        /\ handlers' = IF serve.timed THEN SubSeq(handlers, 1, Len(handlers) - 1) ELSE Tail(handlers)
    BY <1>5 DEF JoinOk
  <2>2. handlers \in Seq(Conns)
    BY DEF ServeInv
  <2>3. /\ NextJoined \in Conns /\ handlers' \in Seq(Conns)
        /\ Range(handlers) \subseteq Range(handlers') \cup {NextJoined}
    BY <2>1, <2>2, HandlesWithout DEF NextJoined
  <2>4. ~Over' /\ handler[NextJoined] = "ended"
    BY <1>0, <2>1, <2>3 DEF Over, ServeInv
  <2>5. QED
    BY <1>0, <2>1, <2>3, <2>4 DEF ServeInv, NoHandlerLeft, handlerVars
<1>6. CASE Listen \/ AcceptPending \/ StopTokenPending \/ NotifiedPending
  <2>1. CASE Listen
    <3>1. CASE server' = "accepting" /\ UNCHANGED <<handlers, backlog, handlerVars>>
      BY <1>0, <3>1, ServeInvSame DEF Over
    <3>2. QED
      BY <1>1, <2>1, <3>1 DEF Listen
  <2>2. CASE AcceptPending \/ StopTokenPending \/ NotifiedPending
    <3>1. UNCHANGED <<handlers, backlog, handlerVars>>
          /\ server' \in {"accepting", "polling stop", "polling notify"}
      BY <2>2 DEF AcceptPending, StopTokenPending, NotifiedPending
    <3>2. ~Over'
      BY <3>1 DEF Over
    <3>3. QED
      BY <1>0, <3>1, <3>2, ServeInvSame
  <2>3. QED
    BY <1>6, <2>1, <2>2
<1>7. CASE StopTokenReady \/ NotifiedReady \/ IdleTimeout
  BY <1>2, <1>7 DEF StopTokenReady, NotifiedReady, IdleTimeout
<1>8. CASE JoinError \/ JoinTimeout \/ AllJoined \/ AcceptFails
  BY <1>1, <1>3, <1>8 DEF JoinError, JoinTimeout, AllJoined, AcceptFails
<1>9. CASE DropServer
  BY <1>0, <1>9, DropsHandlers DEF DropServer
<1>10. QED
  BY <1>4, <1>5, <1>6, <1>7, <1>8, <1>9 DEF ServerStep

\* However serving ends, no handler is left to run on: one that was spawned has ended or is
\* aborted, or is told so when its poll returns, for any connections, helpers and handlers
\* (TaskScope::drop, JoinHandle::drop, abort_tcp_handlers).
THEOREM NoHandlerIsLeft == Spec => []NoHandlerLeft
<1>1. Init => ServeInv
  <2> SUFFICES ASSUME Init PROVE ServeInv
    OBVIOUS
  <2>1. /\ server = "called" /\ backlog = {} /\ handlers = <<>> /\ handler = [c \in Conns |-> "none"]
        /\ joined = [c \in Conns |-> None]
    BY DEF Init, InitAt
  <2>2. handler \in [Conns -> HandlerStates] /\ handlers \in Seq(Conns) /\ DOMAIN joined = Conns
    BY <2>1, SMT DEF HandlerStates
  <2>3. ~Over /\ \A c \in Conns : handler[c] = "none" /\ joined[c] # "ok"
    BY <2>1, ServeAssumption DEF Over
  <2>4. QED
    BY <2>1, <2>2, <2>3 DEF ServeInv, NoHandlerLeft
<1>2. ServeInv /\ [Next]_vars => ServeInv'
  <2> SUFFICES ASSUME ServeInv, [Next]_vars PROVE ServeInv'
    OBVIOUS
  <2>1. CASE UNCHANGED vars
    BY <2>1, ServeInvSame DEF vars, serverVars
  <2>2. ASSUME NEW c \in Conns, Connect(c) PROVE ServeInv'
    <3>1. backlog' = backlog \cup {c} /\ handler[c] = "none" /\ UNCHANGED <<server, handlers, handlerVars>>
      BY <2>2 DEF Connect, serverVars
    <3>2. QED
      BY <3>1 DEF ServeInv, NoHandlerLeft, Over, handlerVars
  <2>3. CASE ListenerReady \/ Stop \/ WakeStopped
    BY <2>3, ServeInvSame DEF ListenerReady, Stop, WakeStopped, serverVars
  <2>4. QED
    BY <2>1, <2>2, <2>3, HandlerStepKeeps, ServerStepKeeps DEF Next
<1>3. ServeInv => NoHandlerLeft
  BY DEF ServeInv
<1>4. QED
  BY <1>1, <1>2, <1>3, PTL DEF Spec

-----------------------------------------------------------------------------
(* The completion kernel *)

\* Operation c is in flight; its completion is posted; it has been drained.
InFlight(c) == c \in DOMAIN ops /\ ~ops[c].completed
PostedAt(c, q) == \E i \in DOMAIN cq[q] : cq[q][i].cap = c
PostedBack(c) == \E q \in Queues : \E i \in DOMAIN cq[q] : cq[q][i].cap = c /\ cq[q][i].returned
Drained(c) == \E f \in finished : f.cap = c
DrainedBack(c) == \E f \in finished : f.cap = c /\ f.returned

\* An operation has its buffer until it completes, and completes once, into one queue.
OpOnce(c) ==
    /\ c \in DOMAIN ops => (ops[c].buffer <=> c \in lent /\ ~ops[c].completed)
    /\ InFlight(c) => ~Drained(c) /\ \A q \in Queues : ~PostedAt(c, q)
    /\ \A q, r \in Queues : PostedAt(c, q) /\ PostedAt(c, r) => q = r
    /\ \A q \in Queues : PostedAt(c, q) => ~Drained(c)
    /\ c \in lent /\ ~InFlight(c) => PostedBack(c) \/ DrainedBack(c)

Operations == [queue : Queues, buffer : BOOLEAN, cancelling : BOOLEAN, completed : BOOLEAN]
Results == [cap : Nat, returned : BOOLEAN, cancelled : BOOLEAN]

\* Nothing is known of caps that were not given out.
CapsInv ==
    /\ next_cap \in Nat /\ DOMAIN cq = Queues
    /\ \A c \in DOMAIN ops : c \in Nat /\ c < next_cap /\ ops[c] \in Operations
    /\ \A c \in lent : c \in Nat /\ c < next_cap
    /\ \A f \in finished : f.cap \in Nat /\ f.cap < next_cap
    /\ \A q \in Queues : cq[q] \in Seq(Results) /\ \A i \in DOMAIN cq[q] : cq[q][i].cap < next_cap

KernelInv == CapsInv /\ \A c \in Nat : OpOnce(c)

LEMMA OpPut ==
    ASSUME NEW r \in Operations
    PROVE  /\ [r EXCEPT !.completed = TRUE] \in Operations /\ [r EXCEPT !.completed = TRUE].completed
           /\ [r EXCEPT !.buffer = FALSE] \in Operations /\ ~[r EXCEPT !.buffer = FALSE].buffer
           /\ [r EXCEPT !.buffer = FALSE].completed = r.completed
           /\ [r EXCEPT !.cancelling = TRUE] \in Operations
           /\ [r EXCEPT !.cancelling = TRUE].completed = r.completed
           /\ [r EXCEPT !.cancelling = TRUE].buffer = r.buffer
<1>1. /\ r = [queue |-> r.queue, buffer |-> r.buffer, cancelling |-> r.cancelling, completed |-> r.completed]
      /\ r.queue \in Queues /\ r.buffer \in BOOLEAN /\ r.cancelling \in BOOLEAN /\ r.completed \in BOOLEAN
  BY DEF Operations
<1>2. \A b : /\ [r EXCEPT !.completed = b] = [queue |-> r.queue, buffer |-> r.buffer,
                                             cancelling |-> r.cancelling, completed |-> b]
            /\ [r EXCEPT !.buffer = b] = [queue |-> r.queue, buffer |-> b,
                                          cancelling |-> r.cancelling, completed |-> r.completed]
            /\ [r EXCEPT !.cancelling = b] = [queue |-> r.queue, buffer |-> r.buffer,
                                              cancelling |-> b, completed |-> r.completed]
  BY <1>1, SMT
<1>3. [r EXCEPT !.completed = TRUE] \in Operations /\ [r EXCEPT !.completed = TRUE].completed
  BY <1>1, <1>2 DEF Operations
<1>4. /\ [r EXCEPT !.buffer = FALSE] \in Operations /\ ~[r EXCEPT !.buffer = FALSE].buffer
      /\ [r EXCEPT !.buffer = FALSE].completed = r.completed
  BY <1>1, <1>2 DEF Operations
<1>5. /\ [r EXCEPT !.cancelling = TRUE] \in Operations
      /\ [r EXCEPT !.cancelling = TRUE].completed = r.completed
      /\ [r EXCEPT !.cancelling = TRUE].buffer = r.buffer
  BY <1>1, <1>2 DEF Operations
<1>6. QED
  BY <1>3, <1>4, <1>5

LEMMA CapOf ==
    ASSUME NEW s \in Seq(Results), NEW i \in DOMAIN s
    PROVE  s[i].cap \in Nat
<1>1. s[i] \in Results
  BY SMT
<1>2. QED
  BY <1>1, SMT DEF Results

LEMMA Appended ==
    ASSUME NEW s \in Seq(Results), NEW e \in Results
    PROVE  \E l \in Nat : /\ l + 1 \in DOMAIN Append(s, e) /\ Append(s, e)[l + 1] = e
                          /\ Append(s, e) \in Seq(Results)
                          /\ \A i \in DOMAIN Append(s, e) : i = l + 1 \/ i \in DOMAIN s
                          /\ \A i \in DOMAIN s : /\ i \in DOMAIN Append(s, e) /\ Append(s, e)[i] = s[i]
                                                 /\ i # l + 1
<1>1. PICK l \in Nat : l = Len(s)
  BY SMT
<1>2. /\ Append(s, e) \in Seq(Results) /\ DOMAIN Append(s, e) = 1 .. (l + 1) /\ DOMAIN s = 1 .. l
      /\ Append(s, e)[l + 1] = e /\ \A i \in 1 .. l : Append(s, e)[i] = s[i]
  BY <1>1, SMT
<1>3. /\ l + 1 \in 1 .. (l + 1) /\ \A i \in 1 .. (l + 1) : i = l + 1 \/ i \in 1 .. l
      /\ \A i \in 1 .. l : i \in 1 .. (l + 1) /\ i # l + 1
  BY SMT
<1>4. QED
  BY <1>2, <1>3

LEMMA KernelSame ==
    ASSUME KernelInv, UNCHANGED <<ops, cq, next_cap, lent, finished>>
    PROVE  KernelInv'
<1>1. CapsInv'
  BY DEF KernelInv, CapsInv
<1>2. ASSUME NEW c \in Nat PROVE OpOnce(c)'
  <2>1. OpOnce(c)
    BY DEF KernelInv
  <2>2. ops' = ops /\ cq' = cq /\ lent' = lent /\ finished' = finished
    OBVIOUS
  <2>3. QED
    BY <2>1, <2>2, ZenonT(30) DEF OpOnce, InFlight, PostedAt, PostedBack, Drained, DrainedBack
<1>3. QED
  BY <1>1, <1>2 DEF KernelInv

\* What a step does not touch of operation c is as it was.
LEMMA OpSame ==
    ASSUME NEW c \in Nat, OpOnce(c),
           InFlight(c)' <=> InFlight(c), c \in lent' <=> c \in lent,
           c \in DOMAIN ops' => (ops'[c].buffer <=> c \in lent' /\ ~ops'[c].completed),
           \A q \in Queues : PostedAt(c, q)' <=> PostedAt(c, q),
           PostedBack(c)' <=> PostedBack(c), Drained(c)' <=> Drained(c),
           DrainedBack(c)' <=> DrainedBack(c)
    PROVE  OpOnce(c)'
BY DEF OpOnce

LEMMA SubmitKeeps ==
    ASSUME KernelInv, NEW q \in Queues, NEW b \in BOOLEAN, Submit(q, b)
    PROVE  KernelInv'
<1> DEFINE new == [queue |-> q, buffer |-> b, cancelling |-> FALSE, completed |-> FALSE]
<1>1. PICK n \in Nat : n = next_cap
  BY DEF KernelInv, CapsInv
<1>2. /\ DOMAIN ops' = DOMAIN ops \cup {n} /\ ops'[n] = new
      /\ \A c \in DOMAIN ops \ {n} : ops'[c] = ops[c]
  BY <1>1 DEF Submit
<1>3. /\ next_cap' = n + 1 /\ cq' = cq /\ finished' = finished
      /\ lent' = IF b THEN lent \cup {n} ELSE lent
  BY <1>1 DEF Submit
<1>4. new \in Operations /\ (new.buffer <=> b) /\ ~new.completed
  BY DEF Operations
<1>5. n < n + 1 /\ ~(n < n) /\ \A c \in Nat : c < n => c < n + 1
  BY SMT
<1>6. CapsInv
  BY DEF KernelInv
<1>7. CapsInv'
  <2>1. \A c \in DOMAIN ops' : c \in Nat /\ c < n + 1 /\ ops'[c] \in Operations
    BY <1>1, <1>2, <1>4, <1>5, <1>6 DEF CapsInv
  <2>2. \A c \in lent' : c \in Nat /\ c < n + 1
    BY <1>1, <1>3, <1>5, <1>6 DEF CapsInv
  <2>3. \A r \in Queues : \A i \in DOMAIN cq[r] : cq[r][i].cap < n + 1
    <3>1. ASSUME NEW r \in Queues, NEW i \in DOMAIN cq[r] PROVE cq[r][i].cap < n + 1
      <4>1. cq[r] \in Seq(Results) /\ cq[r][i].cap < n
        BY <1>1, <1>6 DEF CapsInv
      <4>2. cq[r][i].cap \in Nat
        BY <4>1, CapOf
      <4>3. QED
        BY <1>5, <4>1, <4>2
    <3>2. QED
      BY <3>1
  <2>4. \A f \in finished : f.cap \in Nat /\ f.cap < n + 1
    BY <1>1, <1>5, <1>6 DEF CapsInv
  <2>5. n + 1 \in Nat
    BY SMT
  <2>6. QED
    BY <1>3, <1>6, <2>1, <2>2, <2>3, <2>4, <2>5 DEF CapsInv

<1>8. ASSUME NEW c \in Nat PROVE OpOnce(c)'
  <2>1. OpOnce(c)
    BY DEF KernelInv
  <2>2. /\ \A r \in Queues : PostedAt(c, r)' <=> PostedAt(c, r)
        /\ (PostedBack(c)' <=> PostedBack(c)) /\ (Drained(c)' <=> Drained(c))
        /\ (DrainedBack(c)' <=> DrainedBack(c))
    BY <1>3 DEF PostedAt, PostedBack, Drained, DrainedBack
  <2>3. CASE c # n
    <3>1. c \in lent' <=> c \in lent
      BY <1>3, <2>3
    <3>2. c \in DOMAIN ops' <=> c \in DOMAIN ops
      BY <1>2, <2>3
    <3>3. c \in DOMAIN ops => ops'[c] = ops[c]
      BY <1>2, <2>3
    <3>4. c \in DOMAIN ops' => (ops'[c].buffer <=> c \in lent' /\ ~ops'[c].completed)
      BY <2>1, <3>1, <3>2, <3>3 DEF OpOnce
    <3>5. InFlight(c)' <=> InFlight(c)
      BY <3>2, <3>3 DEF InFlight
    <3>6. QED
      BY <2>1, <2>2, <3>1, <3>4, <3>5, OpSame
  <2>4. CASE c = n
    <3>1. ~Drained(c)
      BY <1>1, <1>5, <1>6, <2>4 DEF CapsInv, Drained
    <3>2. \A r \in Queues : ~PostedAt(c, r)
      BY <1>1, <1>5, <1>6, <2>4 DEF CapsInv, PostedAt
    <3>3. InFlight(c)'
      BY <1>2, <1>4, <2>4 DEF InFlight
    <3>4. c \in lent' <=> b
      <4>1. n \notin lent
        BY <1>1, <1>5, <1>6 DEF CapsInv
      <4>2. QED
        BY <1>3, <2>4, <4>1
    <3>5. ops'[c].buffer <=> c \in lent' /\ ~ops'[c].completed
      BY <1>2, <1>4, <2>4, <3>4
    <3>6. QED
      BY <2>2, <3>1, <3>2, <3>3, <3>5 DEF OpOnce
  <2>5. QED
    BY <2>3, <2>4
<1>9. QED
  BY <1>7, <1>8 DEF KernelInv

LEMMA CompleteKeeps ==
    ASSUME KernelInv, NEW c \in Nat, Complete(c)
    PROVE  KernelInv'
<1>1. c \in DOMAIN ops /\ ~ops[c].completed /\ CapsInv /\ InFlight(c) /\ ops[c] \in Operations
  BY DEF Complete, KernelInv, CapsInv, InFlight
<1>2. PICK q \in Queues : q = ops[c].queue
  BY <1>1, SMT DEF Operations
<1>3. CASE Len(cq[q]) \geq CqCapacity
  <2>1. UNCHANGED <<ops, cq, next_cap, lent, finished>>
    BY <1>2, <1>3 DEF Complete
  <2>2. QED
    BY <2>1, KernelSame
<1>4. CASE ~(Len(cq[q]) \geq CqCapacity)
  <2>1. PICK e : e = [cap |-> c, returned |-> ops[c].buffer, cancelled |-> ops[c].cancelling]
    OBVIOUS
  <2>2. e \in Results /\ e.cap = c /\ e.returned = ops[c].buffer
    BY <1>1, <2>1, SMT DEF Operations, Results
  <2>3. /\ next_cap' = next_cap /\ lent' = lent /\ finished' = finished
        /\ cq' = [cq EXCEPT ![q] = Append(cq[q], e)]
        /\ ops' = [ops EXCEPT ![c].completed = TRUE, ![c].buffer = FALSE]
    BY <1>2, <1>4, <2>1 DEF Complete
  <2>4. /\ DOMAIN ops' = DOMAIN ops /\ \A x \in DOMAIN ops \ {c} : ops'[x] = ops[x]
        /\ ops'[c] \in Operations /\ ops'[c].completed /\ ~ops'[c].buffer
    <3>1. PICK m : m = [ops EXCEPT ![c].completed = TRUE]
      OBVIOUS
    <3>2. /\ DOMAIN m = DOMAIN ops /\ \A x \in DOMAIN ops \ {c} : m[x] = ops[x]
          /\ m[c] \in Operations /\ m[c].completed
      BY <1>1, <3>1, OpPut
    <3>3. ops' = [m EXCEPT ![c].buffer = FALSE]
      BY <2>3, <3>1
    <3>4. QED
      BY <1>1, <3>2, <3>3, OpPut, ZenonT(30)
  <2>5. DOMAIN cq' = Queues /\ cq'[q] = Append(cq[q], e) /\ \A r \in Queues \ {q} : cq'[r] = cq[r]
    BY <1>1, <2>3 DEF CapsInv
  <2>6. cq[q] \in Seq(Results)
    BY <1>1 DEF CapsInv
  <2>7. PICK l \in Nat : /\ l + 1 \in DOMAIN cq'[q] /\ cq'[q][l + 1] = e /\ cq'[q] \in Seq(Results)
                         /\ \A i \in DOMAIN cq'[q] : i = l + 1 \/ i \in DOMAIN cq[q]
                         /\ \A i \in DOMAIN cq[q] : i \in DOMAIN cq'[q] /\ cq'[q][i] = cq[q][i] /\ i # l + 1
    <3>1. PICK t \in Seq(Results) : t = cq[q]
      BY <2>6
    <3>2. cq'[q] = Append(t, e)
      BY <2>5, <3>1
    <3>3. QED
      <4>1. PICK l \in Nat : /\ l + 1 \in DOMAIN Append(t, e) /\ Append(t, e)[l + 1] = e
                             /\ Append(t, e) \in Seq(Results)
                             /\ \A i \in DOMAIN Append(t, e) : i = l + 1 \/ i \in DOMAIN t
                             /\ \A i \in DOMAIN t : /\ i \in DOMAIN Append(t, e)
                                                    /\ Append(t, e)[i] = t[i] /\ i # l + 1
        BY <2>2, Appended, ZenonT(30)
      <4>2. QED
        BY <3>1, <3>2, <4>1
  <2>8. CapsInv'
    <3>1. \A i \in DOMAIN cq'[q] : cq'[q][i].cap < next_cap
      BY <1>1, <2>2, <2>7 DEF CapsInv
    <3>2. \A r \in Queues : cq'[r] \in Seq(Results) /\ \A i \in DOMAIN cq'[r] : cq'[r][i].cap < next_cap
      BY <1>1, <2>5, <2>7, <3>1 DEF CapsInv
    <3>3. \A x \in DOMAIN ops' : x \in Nat /\ x < next_cap /\ ops'[x] \in Operations
      BY <1>1, <2>4 DEF CapsInv
    <3>4. QED
      BY <1>1, <2>3, <2>5, <3>2, <3>3 DEF CapsInv
  <2>9. ASSUME NEW x \in Nat PROVE OpOnce(x)'
    <3>1. OpOnce(x)
      BY DEF KernelInv
    <3>2. (Drained(x)' <=> Drained(x)) /\ (DrainedBack(x)' <=> DrainedBack(x))
      BY <2>3 DEF Drained, DrainedBack
    <3>3. CASE x # c
      <4>1. \A r \in Queues : PostedAt(x, r)' <=> PostedAt(x, r)
        <5>1. PostedAt(x, q)' <=> PostedAt(x, q)
          BY <2>2, <2>7, <3>3 DEF PostedAt
        <5>2. \A r \in Queues \ {q} : PostedAt(x, r)' <=> PostedAt(x, r)
          BY <2>5 DEF PostedAt
        <5>3. QED
          BY <5>1, <5>2
      <4>2. PostedBack(x)' <=> PostedBack(x)
        <5>1. ASSUME NEW r \in Queues
              PROVE  (\E i \in DOMAIN cq'[r] : cq'[r][i].cap = x /\ cq'[r][i].returned)
                       <=> \E i \in DOMAIN cq[r] : cq[r][i].cap = x /\ cq[r][i].returned
          <6>1. CASE r = q
            BY <2>2, <2>7, <3>3, <6>1
          <6>2. CASE r # q
            BY <2>5, <6>2
          <6>3. QED
            BY <6>1, <6>2
        <5>2. QED
          BY <5>1 DEF PostedBack
      <4>3. /\ InFlight(x)' <=> InFlight(x)
            /\ x \in DOMAIN ops' => (ops'[x].buffer <=> x \in lent' /\ ~ops'[x].completed)
        BY <2>3, <2>4, <3>1, <3>3 DEF InFlight, OpOnce
      <4>4. QED
        BY <2>3, <3>1, <3>2, <4>1, <4>2, <4>3, OpSame
    <3>4. CASE x = c
      <4>1. ~Drained(c) /\ \A r \in Queues : ~PostedAt(c, r)
        BY <1>1, <3>1, <3>4 DEF OpOnce
      <4>2. \A r \in Queues \ {q} : ~PostedAt(c, r)'
        BY <2>5, <4>1 DEF PostedAt
      <4>3. c \in lent => PostedBack(c)'
        <5>1. c \in lent => e.returned
          BY <1>1, <2>2, <3>1, <3>4 DEF OpOnce
        <5>2. QED
          BY <2>2, <2>7, <5>1 DEF PostedBack
      <4>4. ~InFlight(c)'
        BY <2>4 DEF InFlight
      <4>5. QED
        BY <2>3, <2>4, <3>2, <3>4, <4>1, <4>2, <4>3, <4>4 DEF OpOnce
    <3>5. QED
      BY <3>3, <3>4
  <2>10. QED
    BY <2>8, <2>9 DEF KernelInv
<1>5. QED
  BY <1>3, <1>4

\* Neither cancel nor close touches a buffer or a completion.
LEMMA CancelOrCloseKeeps ==
    ASSUME KernelInv, NEW c \in Nat, Cancel(c) \/ CloseCap(c)
    PROVE  KernelInv'
<1>1. c \in DOMAIN ops /\ CapsInv /\ ops[c] \in Operations
  BY DEF Cancel, CloseCap, KernelInv, CapsInv
<1>2. cq' = cq /\ next_cap' = next_cap /\ lent' = lent /\ finished' = finished
  BY DEF Cancel, CloseCap
<1>3. /\ DOMAIN ops' \subseteq DOMAIN ops
      /\ \A x \in DOMAIN ops' : /\ ops'[x] \in Operations /\ ops'[x].completed = ops[x].completed
                                /\ ops'[x].buffer = ops[x].buffer
      /\ \A x \in DOMAIN ops \ DOMAIN ops' : ops[x].completed
  <2>1. CASE Cancel(c)
    <3>1. ops' = [ops EXCEPT ![c] = [ops[c] EXCEPT !.cancelling = TRUE]]
      BY <2>1 DEF Cancel
    <3>2. DOMAIN ops' = DOMAIN ops /\ \A x \in DOMAIN ops \ {c} : ops'[x] = ops[x] /\ ops[x] \in Operations
      BY <1>1, <3>1 DEF CapsInv
    <3>3. ops'[c] \in Operations /\ ops'[c].completed = ops[c].completed /\ ops'[c].buffer = ops[c].buffer
      BY <1>1, <3>1, OpPut
    <3>4. QED
      BY <3>2, <3>3
  <2>2. CASE CloseCap(c)
    <3>1. /\ DOMAIN ops' = DOMAIN ops \ {c} /\ \A x \in DOMAIN ops \ {c} : ops'[x] = ops[x]
          /\ ops[c].completed
      BY <2>2 DEF CloseCap
    <3>2. QED
      BY <1>1, <3>1 DEF CapsInv
  <2>3. QED
    BY <2>1, <2>2
<1>4. CapsInv'
  BY <1>1, <1>2, <1>3 DEF CapsInv
<1>5. ASSUME NEW x \in Nat PROVE OpOnce(x)'
  <2>1. OpOnce(x)
    BY DEF KernelInv
  <2>2. /\ \A r \in Queues : PostedAt(x, r)' <=> PostedAt(x, r)
        /\ (PostedBack(x)' <=> PostedBack(x)) /\ (Drained(x)' <=> Drained(x))
        /\ (DrainedBack(x)' <=> DrainedBack(x))
    BY <1>2 DEF PostedAt, PostedBack, Drained, DrainedBack
  <2>3. /\ InFlight(x)' <=> InFlight(x)
        /\ x \in DOMAIN ops' => (ops'[x].buffer <=> x \in lent' /\ ~ops'[x].completed)
    BY <1>2, <1>3, <2>1 DEF InFlight, OpOnce
  <2>4. QED
    BY <1>2, <2>1, <2>2, <2>3, OpSame
<1>6. QED
  BY <1>4, <1>5 DEF KernelInv

LEMMA DrainKeeps ==
    ASSUME KernelInv, NEW q \in Queues, Drain(q)
    PROVE  KernelInv'
<1>1. /\ ops' = ops /\ next_cap' = next_cap /\ lent' = lent /\ CapsInv
      /\ finished' = finished \cup {cq[q][i] : i \in DOMAIN cq[q]} /\ cq' = [cq EXCEPT ![q] = <<>>]
  BY DEF Drain, KernelInv
<1>2. DOMAIN cq' = Queues /\ cq'[q] = <<>> /\ \A r \in Queues \ {q} : cq'[r] = cq[r]
  BY <1>1 DEF CapsInv
<1>3. <<>> \in Seq(Results) /\ \A i : i \notin DOMAIN <<>>
  BY SMT
<1>4. CapsInv'
  <2>1. \A i \in DOMAIN cq[q] : cq[q][i].cap \in Nat /\ cq[q][i].cap < next_cap
    BY <1>1, CapOf DEF CapsInv
  <2>2. \A f \in finished' : f.cap \in Nat /\ f.cap < next_cap
    BY <1>1, <2>1 DEF CapsInv
  <2>3. \A r \in Queues : cq'[r] \in Seq(Results) /\ \A i \in DOMAIN cq'[r] : cq'[r][i].cap < next_cap
    BY <1>1, <1>2, <1>3 DEF CapsInv
  <2>4. QED
    BY <1>1, <1>2, <2>2, <2>3 DEF CapsInv
<1>5. ASSUME NEW c \in Nat PROVE OpOnce(c)'
  <2>1. OpOnce(c)
    BY DEF KernelInv
  <2>2. Drained(c)' <=> Drained(c) \/ PostedAt(c, q)
    BY <1>1 DEF Drained, PostedAt
  <2>3. ~PostedAt(c, q)' /\ \A r \in Queues \ {q} : PostedAt(c, r)' <=> PostedAt(c, r)
    BY <1>2, <1>3 DEF PostedAt
  <2>4. ASSUME PostedBack(c) \/ DrainedBack(c) PROVE PostedBack(c)' \/ DrainedBack(c)'
    <3>1. CASE DrainedBack(c)
      BY <1>1, <3>1 DEF DrainedBack
    <3>2. CASE PostedBack(c)
      <4>1. PICK r \in Queues : \E i \in DOMAIN cq[r] : cq[r][i].cap = c /\ cq[r][i].returned
        BY <3>2 DEF PostedBack
      <4>2. CASE r = q
        BY <1>1, <4>1, <4>2 DEF DrainedBack
      <4>3. CASE r # q
        BY <1>2, <4>1, <4>3 DEF PostedBack
      <4>4. QED
        BY <4>2, <4>3
    <3>3. QED
      BY <2>4, <3>1, <3>2
  <2>5. InFlight(c)' <=> InFlight(c)
    BY <1>1 DEF InFlight
  <2>6. InFlight(c)' => ~Drained(c)' /\ \A r \in Queues : ~PostedAt(c, r)'
    BY <2>1, <2>2, <2>3, <2>5 DEF OpOnce
  <2>7. \A p, r \in Queues : PostedAt(c, p)' /\ PostedAt(c, r)' => p = r
    BY <2>1, <2>3 DEF OpOnce
  <2>8. \A r \in Queues : PostedAt(c, r)' => ~Drained(c)'
    BY <2>1, <2>2, <2>3 DEF OpOnce
  <2>9. c \in lent' /\ ~InFlight(c)' => PostedBack(c)' \/ DrainedBack(c)'
    BY <1>1, <2>1, <2>4, <2>5 DEF OpOnce
  <2>10. c \in DOMAIN ops' => (ops'[c].buffer <=> c \in lent' /\ ~ops'[c].completed)
    BY <1>1, <2>1 DEF OpOnce
  <2>11. QED
    BY <2>6, <2>7, <2>8, <2>9, <2>10 DEF OpOnce
<1>6. QED
  BY <1>4, <1>5 DEF KernelInv

INSTANCE FiniteSetTheorems

LEMMA OneOfThree ==
    ASSUME NEW a \in BOOLEAN, NEW b \in BOOLEAN, NEW c \in BOOLEAN,
           a \/ b \/ c, ~(a /\ b), ~(a /\ c), ~(b /\ c)
    PROVE  Cardinality({x \in {<<1, a>>, <<2, b>>, <<3, c>>} : x[2]}) = 1
<1> DEFINE S == {x \in {<<1, a>>, <<2, b>>, <<3, c>>} : x[2]}
<1>1. \A x : x \in S <=> (x = <<1, a>> /\ a) \/ (x = <<2, b>> /\ b) \/ (x = <<3, c>> /\ c)
  <2>1. <<1, a>>[2] = a /\ <<2, b>>[2] = b /\ <<3, c>>[2] = c
    OBVIOUS
  <2>2. QED
    BY <2>1
<1>2. \E y : S = {y}
  <2> HIDE DEF S
  <2>1. CASE a /\ ~b /\ ~c
    <3>1. S = {<<1, a>>}
      BY <1>1, <2>1
    <3>2. QED
      BY <3>1
  <2>2. CASE b /\ ~a /\ ~c
    <3>1. S = {<<2, b>>}
      BY <1>1, <2>2
    <3>2. QED
      BY <3>1
  <2>3. CASE c /\ ~a /\ ~b
    <3>1. S = {<<3, c>>}
      BY <1>1, <2>3
    <3>2. QED
      BY <3>1
  <2>4. QED
    BY <2>1, <2>2, <2>3
<1>3. QED
  BY <1>2, FS_Singleton

LEMMA KernelInvAccounts ==
    ASSUME KernelInv
    PROVE  BuffersAccounted
<1> SUFFICES ASSUME NEW c \in lent
             PROVE  LET inKernel == c \in DOMAIN ops /\ ops[c].buffer
                        inQueue == \E q \in Queues : \E i \in DOMAIN cq[q] : cq[q][i].cap = c /\ cq[q][i].returned
                        back == \E f \in finished : f.cap = c /\ f.returned
                    IN  Cardinality({x \in {<<1, inKernel>>, <<2, inQueue>>, <<3, back>>} : x[2]}) = 1
  BY DEF BuffersAccounted
<1> DEFINE A == c \in DOMAIN ops /\ ops[c].buffer
           B == PostedBack(c)
           C == DrainedBack(c)
<1>1. OpOnce(c)
  BY DEF KernelInv, CapsInv
<1>2. A <=> InFlight(c)
  BY <1>1 DEF InFlight, OpOnce
<1>3. PostedBack(c) => \E q \in Queues : PostedAt(c, q)
  BY DEF PostedBack, PostedAt
<1>4. DrainedBack(c) => Drained(c)
  BY DEF DrainedBack, Drained
<1>5. (A \/ B \/ C) /\ ~(A /\ B) /\ ~(A /\ C) /\ ~(B /\ C)
  BY <1>1, <1>2, <1>3, <1>4 DEF OpOnce
<1>6. A \in BOOLEAN /\ B \in BOOLEAN /\ C \in BOOLEAN
  BY DEF PostedBack, DrainedBack
<1>7. Cardinality({x \in {<<1, A>>, <<2, B>>, <<3, C>>} : x[2]}) = 1
  BY <1>5, <1>6, OneOfThree
<1>8. QED
  BY <1>7 DEF PostedBack, DrainedBack

(* For any shards, queue and table sizes and number of operations: a submitted buffer is  *)
(* with its operation, in one completion, or back with userspace, whichever of complete,  *)
(* cancel, drain and close meet, also when the completion queue is full.                 *)
THEOREM BuffersAlwaysAccounted == KernelSpec => []BuffersAccounted
<1>1. KernelInit => KernelInv
  <2> SUFFICES ASSUME KernelInit PROVE KernelInv
    OBVIOUS
  <2>1. /\ \A c : c \notin DOMAIN ops /\ c \notin lent /\ c \notin finished
        /\ DOMAIN cq = Queues /\ \A q \in Queues : cq[q] = <<>> /\ cq[q] \in Seq(Results)
        /\ \A q \in Queues : \A i : i \notin DOMAIN cq[q]
    <3>1. <<>> \in Seq(Results) /\ \A i : i \notin DOMAIN <<>>
      BY SMT
    <3>2. QED
      BY <3>1 DEF KernelInit
  <2>2. next_cap \in Nat
    BY SMT DEF KernelInit
  <2>3. CapsInv
    BY <2>1, <2>2 DEF CapsInv
  <2>4. \A c \in Nat : OpOnce(c)
    BY <2>1 DEF OpOnce, InFlight, PostedAt, PostedBack, Drained, DrainedBack
  <2>5. QED
    BY <2>3, <2>4 DEF KernelInv
<1>2. KernelInv /\ [KernelNext]_kernelVars => KernelInv'
  <2> SUFFICES ASSUME KernelInv, [KernelNext]_kernelVars PROVE KernelInv'
    OBVIOUS
  <2>1. ASSUME NEW q \in Queues, NEW b \in BOOLEAN, Submit(q, b) PROVE KernelInv'
    BY <2>1, SubmitKeeps
  <2>2. ASSUME NEW q \in Queues, ReactorStep(q) PROVE KernelInv'
    <3>1. CASE Drain(q)
      BY <3>1, DrainKeeps
    <3>2. CASE ~Drain(q)
      <4>1. UNCHANGED <<ops, cq, next_cap, lent, finished>>
        BY <2>2, <3>2 DEF ReactorStep, WaitKernel, LookAgainAt, DeadlineElapses, TakeWoke, ReadyCaps
      <4>2. QED
        BY <4>1, KernelSame
    <3>3. QED
      BY <3>1, <3>2
  <2>3. ASSUME NEW q \in Queues, WakeQueue(q) PROVE KernelInv'
    BY <2>3, KernelSame DEF WakeQueue
  <2>4. ASSUME NEW c \in 1 .. MaxCaps, Complete(c) \/ Cancel(c) \/ CloseCap(c) PROVE KernelInv'
    <3>1. c \in Nat
      BY SMT
    <3>2. QED
      BY <2>4, <3>1, CompleteKeeps, CancelOrCloseKeeps
  <2>5. CASE UNCHANGED kernelVars
    BY <2>5, KernelSame DEF kernelVars
  <2>6. QED
    BY <2>1, <2>2, <2>3, <2>4, <2>5 DEF KernelNext
<1>3. KernelInv => BuffersAccounted
  BY KernelInvAccounts
<1>4. QED
  BY <1>1, <1>2, <1>3, PTL DEF KernelSpec

-----------------------------------------------------------------------------
(* The mailbox *)

\* A pending send owns a message its sender has made.
PendingMade == \A s \in pending : made[s] # 0

\* The types, made inductive: the message of a pending send is one.
MailboxTypeInv == MailboxTypeOK /\ PendingMade

\* The count of senders is exact.
SendersCounted == sender_count = Cardinality(held)

-----------------------------------------------------------------------------
\* The empty sequence is a sequence over any set.
LEMMA EmptySeq == \A S : <<>> \in Seq(S) /\ Len(<<>>) = 0
BY SMT

\* Appending and removing the head keep a sequence over its set and change its length
\* by one (push_back, pop_front).
LEMMA SeqSteps ==
    ASSUME NEW S, NEW q \in Seq(S)
    PROVE  /\ Len(q) \in Nat
           /\ \A x \in S : Append(q, x) \in Seq(S) /\ Len(Append(q, x)) = Len(q) + 1
           /\ q # <<>> => Tail(q) \in Seq(S) /\ Head(q) \in S /\ Len(Tail(q)) = Len(q) - 1
BY SMT

\* A message is a sender with a number within the bound.
LEMMA MessageType ==
    ASSUME NEW s \in Senders, NEW n \in Nat, 1 \leq n, n \leq MaxSends
    PROVE  <<s, n>> \in Messages
BY MailboxAssumption, SMT DEF Messages

\* Waking the receiver keeps the two flags Boolean (recv_waker.take).
LEMMA WakeReceiverType ==
    ASSUME MailboxTypeOK, WakeReceiver
    PROVE  recv_waker' \in BOOLEAN /\ recv_woken' \in BOOLEAN
BY DEF MailboxTypeOK, WakeReceiver

\* Waking the oldest waiting sender keeps the waiters typed (send_wakers.pop_front).
LEMMA WakeFirstType ==
    ASSUME MailboxTypeOK, WakeFirstSender
    PROVE  send_wakers' \in Seq(Senders) /\ ready' \in SUBSET pending
BY SeqSteps DEF MailboxTypeOK, WakeFirstSender

\* A new mailbox is typed.
LEMMA MailboxTypeInit == MailboxInit => MailboxTypeOK
<1>1. 0 \in 0 .. MaxSends /\ 0 \leq Capacity /\ 0 \in Nat
  BY MailboxAssumption, SMT
<1>2. <<>> \in Seq(Messages) /\ <<>> \in Seq(Senders) /\ Len(<<>>) = 0
  BY EmptySeq
<1>3. QED
  BY <1>1, <1>2 DEF MailboxInit, MailboxTypeOK

\* Making room by a receive, or waking on a close, keeps the types of what the two
\* receives share.
LEMMA ReceiveType ==
    ASSUME MailboxTypeOK, NEW r \in {"idle"}, Receive(r)
    PROVE  /\ inbox' \in Seq(Messages) /\ Len(inbox') \leq Capacity
           /\ delivered' \in Seq(Messages)
           /\ send_wakers' \in Seq(Senders) /\ ready' \in SUBSET pending
<1>1. inbox \in Seq(Messages) /\ inbox # <<>> /\ delivered \in Seq(Messages)
      /\ inbox' = Tail(inbox) /\ delivered' = Append(delivered, Head(inbox))
      /\ Len(inbox) \leq Capacity /\ WakeFirstSender
  BY DEF MailboxTypeOK, Receive
<1>2. Capacity \in Nat
  BY MailboxAssumption
<1>3. QED
  BY <1>1, <1>2, SeqSteps, WakeFirstType, SMT

\* The state after a receive of either kind is typed.
LEMMA RecvType ==
    ASSUME MailboxTypeOK,
           Receive("idle") \/ ReceiveClosed("idle") \/ ReceiveEmpty \/ ReceivePending,
           UNCHANGED recvUnchanged
    PROVE  MailboxTypeOK'
<1>1. CASE Receive("idle")
  BY <1>1, ReceiveType DEF MailboxTypeOK, Receive, recvUnchanged
<1>2. CASE ReceiveClosed("idle")
  BY <1>2 DEF MailboxTypeOK, ReceiveClosed, recvUnchanged
<1>3. CASE ReceiveEmpty
  BY <1>3 DEF MailboxTypeOK, ReceiveEmpty, recvUnchanged
<1>4. CASE ReceivePending
  BY <1>4 DEF MailboxTypeOK, ReceivePending, recvUnchanged
<1>5. QED
  BY <1>1, <1>2, <1>3, <1>4

\* Closing keeps the types.
LEMMA CloseType ==
    ASSUME MailboxTypeOK, NEW r \in {"none", "idle", "awaiting", "gone"}, CloseReceiver(r)
    PROVE  MailboxTypeOK'
<1>1. <<>> \in Seq(Senders)
  BY EmptySeq
<1>2. receiver_closed' \in BOOLEAN /\ recv_waker' \in BOOLEAN /\ recv_woken' \in BOOLEAN
      /\ send_wakers' \in Seq(Senders) /\ ready' \in SUBSET pending
  BY <1>1, WakeReceiverType DEF MailboxTypeOK, CloseReceiver
<1>3. QED
  BY <1>2 DEF MailboxTypeOK, CloseReceiver

\* Queueing a message keeps the types of the queue (push_back within the capacity).
LEMMA MailboxPushType ==
    ASSUME MailboxTypeOK, HasRoom, NEW m \in Messages, enqueue(m)
    PROVE  inbox' \in Seq(Messages) /\ Len(inbox') \leq Capacity
<1>1. inbox \in Seq(Messages) /\ Len(inbox) < Capacity /\ inbox' = Append(inbox, m)
  BY DEF MailboxTypeOK, HasRoom, enqueue
<1>2. Capacity \in Nat
  BY MailboxAssumption
<1>3. QED
  BY <1>1, <1>2, SeqSteps, SMT

\* Every step keeps the types.
LEMMA MailboxTypeStep == MailboxTypeInv /\ [MailboxNext]_mailboxVars => MailboxTypeOK'
<1> SUFFICES ASSUME MailboxTypeOK, PendingMade, [MailboxNext]_mailboxVars PROVE MailboxTypeOK'
  BY DEF MailboxTypeInv
<1>1. ASSUME NEW s \in Senders, NewSender(s) PROVE MailboxTypeOK'
  BY <1>1, SMT DEF MailboxTypeOK, NewSender, recvVars
<1>2. ASSUME NEW s \in Senders, DropSender(s) PROVE MailboxTypeOK'
  <2>1. sender_count' \in Nat
    BY <1>2, SMT DEF MailboxTypeOK, DropSender
  <2>2. recv_waker' \in BOOLEAN /\ recv_woken' \in BOOLEAN
    BY <1>2, WakeReceiverType DEF MailboxTypeOK, DropSender
  <2>3. QED
    BY <1>2, <2>1, <2>2 DEF MailboxTypeOK, DropSender
<1>3. ASSUME NEW s \in Senders, TrySend(s) PROVE MailboxTypeOK'
  <2>1. made[s] \in 0 .. MaxSends /\ made[s] < MaxSends /\ MaxSends \in Nat
    BY <1>3, MailboxAssumption DEF MailboxTypeOK, TrySend
  <2>2. made' \in [Senders -> 0 .. MaxSends]
    BY <1>3, <2>1, SMT DEF MailboxTypeOK, TrySend
  <2>3. <<s, made[s] + 1>> \in Messages
    BY <2>1, MessageType, SMT
  <2>4. inbox' \in Seq(Messages) /\ Len(inbox') \leq Capacity
    BY <1>3, <2>3, MailboxPushType DEF MailboxTypeOK, TrySend
  <2>5. recv_waker' \in BOOLEAN /\ recv_woken' \in BOOLEAN
    BY <1>3, WakeReceiverType DEF MailboxTypeOK, TrySend
  <2>6. QED
    BY <1>3, <2>2, <2>4, <2>5 DEF MailboxTypeOK, TrySend
<1>4. ASSUME NEW s \in Senders, Send(s) PROVE MailboxTypeOK'
  <2>1. made[s] \in 0 .. MaxSends /\ made[s] < MaxSends /\ MaxSends \in Nat
    BY <1>4, MailboxAssumption DEF MailboxTypeOK, Send
  <2>2. made' \in [Senders -> 0 .. MaxSends]
    BY <1>4, <2>1, SMT DEF MailboxTypeOK, Send
  <2>3. QED
    BY <1>4, <2>2 DEF MailboxTypeOK, Send, mailVars, recvVars
<1>5. ASSUME NEW s \in Senders, PollSend(s) PROVE MailboxTypeOK'
  <2>1. made[s] \in 0 .. MaxSends /\ made[s] # 0 /\ MaxSends \in Nat
    BY <1>5, MailboxAssumption DEF MailboxTypeOK, PendingMade, PollSend
  <2>2. <<s, made[s]>> \in Messages
    BY <2>1, MessageType, SMT
  <2>3. inbox' \in Seq(Messages) /\ Len(inbox') \leq Capacity
    BY <1>5, <2>2, MailboxPushType DEF MailboxTypeOK, PollSend
  <2>4. recv_waker' \in BOOLEAN /\ recv_woken' \in BOOLEAN
    BY <1>5, WakeReceiverType DEF MailboxTypeOK, PollSend
  <2>5. send_wakers' \in Seq(Senders)
    <3>1. send_wakers \in Seq(Senders)
      BY DEF MailboxTypeOK
    <3>2. send_wakers' = send_wakers \/ send_wakers' = Append(send_wakers, s)
      BY <1>5 DEF PollSend
    <3>3. QED
      BY <3>1, <3>2, SeqSteps
  <2>6. pending' \in SUBSET held /\ ready' \in SUBSET pending'
    BY <1>5 DEF MailboxTypeOK, PollSend
  <2>7. QED
    BY <1>5, <2>3, <2>4, <2>5, <2>6 DEF MailboxTypeOK, PollSend
<1>6. ASSUME NEW s \in Senders, WakeOther(s) PROVE MailboxTypeOK'
  BY <1>6 DEF MailboxTypeOK, WakeOther, mailVars, recvVars
<1>7. ASSUME NEW s \in Senders, CancelSend(s) PROVE MailboxTypeOK'
  <2>1. send_wakers' \in Seq(Senders)
    <3>1. send_wakers \in Seq(Senders)
      BY DEF MailboxTypeOK
    <3>2. \/ send_wakers' = send_wakers
          \/ send_wakers # <<>> /\ send_wakers' = Tail(send_wakers)
      BY <1>7 DEF CancelSend
    <3>3. QED
      BY <3>1, <3>2, SeqSteps
  <2>2. pending' \in SUBSET held /\ ready' \in SUBSET pending'
    BY <1>7 DEF MailboxTypeOK, CancelSend
  <2>3. QED
    BY <1>7, <2>1, <2>2 DEF MailboxTypeOK, CancelSend, recvVars
<1>8. CASE TakeReceiver
  BY <1>8 DEF MailboxTypeOK, TakeReceiver, senderVars
<1>9. CASE TryRecv \/ PollRecv
  BY <1>9, RecvType DEF TryRecv, PollRecv
<1>10. CASE CancelRecv
  BY <1>10 DEF MailboxTypeOK, CancelRecv, mailVars, senderVars
<1>11. CASE CloseBySender \/ CloseByReceiver \/ DropReceiver
  <2>1. receiver \in {"none", "idle", "awaiting", "gone"}
    BY DEF MailboxTypeOK
  <2>2. QED
    BY <1>11, <2>1, CloseType DEF CloseBySender, CloseByReceiver, DropReceiver
<1>12. CASE DropSet
  <2>1. recv_waker' \in BOOLEAN /\ recv_woken' \in BOOLEAN
    BY <1>12, WakeReceiverType DEF MailboxTypeOK, DropSet
  <2>2. QED
    BY <1>12, <2>1 DEF MailboxTypeOK, DropSet, senderVars
<1>13. CASE UNCHANGED mailboxVars
  BY <1>13 DEF MailboxTypeOK, mailboxVars, mailVars, senderVars, recvVars
<1>14. QED
  BY <1>1, <1>2, <1>3, <1>4, <1>5, <1>6, <1>7, <1>8, <1>9, <1>10, <1>11, <1>12, <1>13
  DEF MailboxNext, SteadyNext

\* Every step keeps a pending send's message made.
LEMMA MadeStep == MailboxTypeInv /\ [MailboxNext]_mailboxVars => PendingMade'
<1> SUFFICES ASSUME MailboxTypeOK, PendingMade, [MailboxNext]_mailboxVars PROVE PendingMade'
  BY DEF MailboxTypeInv
<1> USE DEF PendingMade
<1>0. \A s \in pending : s \in Senders /\ made[s] \in Nat
  BY MailboxAssumption, SMT DEF MailboxTypeOK
<1>1. CASE UNCHANGED <<made, pending>>
  BY <1>1
<1>2. ASSUME NEW s \in Senders, TrySend(s) PROVE PendingMade'
  <2>1. pending' = pending /\ s \notin pending
    BY <1>2 DEF TrySend
  <2>2. \A u \in pending : made'[u] = made[u]
    BY <1>0, <1>2, <2>1 DEF MailboxTypeOK, TrySend
  <2>3. QED
    BY <2>1, <2>2
<1>3. ASSUME NEW s \in Senders, Send(s) PROVE PendingMade'
  <2>1. pending' = pending \cup {s} /\ s \notin pending
    BY <1>3 DEF Send
  <2>2. \A u \in pending : made'[u] = made[u]
    BY <1>0, <1>3, <2>1 DEF MailboxTypeOK, Send
  <2>3. made[s] \in Nat /\ made'[s] = made[s] + 1
    BY <1>3, MailboxAssumption, SMTT(30) DEF MailboxTypeOK, Send
  <2>4. made'[s] # 0
    BY <2>3, SMT
  <2>5. QED
    BY <2>1, <2>2, <2>4
<1>4. ASSUME NEW s \in Senders, PollSend(s) \/ CancelSend(s) PROVE PendingMade'
  BY <1>4 DEF PollSend, CancelSend
<1>5. QED
  BY <1>1, <1>2, <1>3, <1>4
  DEF MailboxNext, SteadyNext, NewSender, DropSender, WakeOther, TakeReceiver, TryRecv, PollRecv,
      recvUnchanged, CancelRecv, CloseBySender, CloseByReceiver, DropReceiver,
      CloseReceiver, DropSet, mailboxVars, mailVars, senderVars, recvVars

\* A pending send's message is made in every reachable state.
LEMMA MadeAlways == MailboxSpec => []MailboxTypeInv
<1>1. MailboxInit => MailboxTypeInv
  BY MailboxTypeInit DEF MailboxTypeInv, PendingMade, MailboxInit
<1>2. MailboxTypeInv /\ [MailboxNext]_mailboxVars => MailboxTypeInv'
  BY MailboxTypeStep, MadeStep DEF MailboxTypeInv
<1>3. QED
  BY <1>1, <1>2, PTL DEF MailboxSpec

\* Every variable of the mailbox keeps the shape of its field, and the queue never
\* holds more than capacity_per_shard messages.
THEOREM MailboxTypeCorrect == MailboxSpec => []MailboxTypeOK
BY MadeAlways, PTL DEF MailboxTypeInv


-----------------------------------------------------------------------------
\* No sender is counted twice or forgotten (sender_to, clone and drop_sender).
LEMMA MailboxCountStep == MailboxTypeOK /\ SendersCounted /\ [MailboxNext]_mailboxVars => SendersCounted'
<1> SUFFICES ASSUME MailboxTypeOK, SendersCounted, [MailboxNext]_mailboxVars PROVE SendersCounted'
  OBVIOUS
<1>0. IsFiniteSet(held) /\ sender_count \in Nat /\ sender_count = Cardinality(held)
  BY MailboxAssumption, FS_Subset DEF MailboxTypeOK, SendersCounted
<1>1. CASE UNCHANGED <<sender_count, held>>
  BY <1>1 DEF SendersCounted
<1>2. ASSUME NEW s \in Senders, NewSender(s) PROVE SendersCounted'
  <2>1. held' = held \cup {s} /\ s \notin held /\ sender_count' = sender_count + 1
    BY <1>2 DEF NewSender
  <2>2. Cardinality(held \cup {s}) = Cardinality(held) + 1
    BY <1>0, <2>1, FS_AddElement
  <2>3. QED
    BY <1>0, <2>1, <2>2 DEF SendersCounted
<1>3. ASSUME NEW s \in Senders, DropSender(s) PROVE SendersCounted'
  <2>1. held' = held \ {s} /\ s \in held
        /\ sender_count' = IF sender_count = 0 THEN 0 ELSE sender_count - 1
    BY <1>3 DEF DropSender
  <2>2. Cardinality(held \ {s}) = Cardinality(held) - 1
    BY <1>0, <2>1, FS_RemoveElement
  <2>3. sender_count # 0
    BY <1>0, <2>1, FS_EmptySet
  <2>4. QED
    BY <1>0, <2>1, <2>2, <2>3 DEF SendersCounted
<1>4. QED
  BY <1>1, <1>2, <1>3, ZenonT(30)
  DEF MailboxNext, SteadyNext, TrySend, Send, PollSend, WakeOther, CancelSend, TakeReceiver,
      TryRecv, PollRecv, recvUnchanged, CancelRecv, CloseBySender, CloseByReceiver,
      DropReceiver, CloseReceiver, DropSet, mailboxVars, mailVars, senderVars, recvVars

\* With the count exact, a count of zero means that no sender is held.
LEMMA NoneHeld ==
    ASSUME MailboxTypeOK, SendersCounted
    PROVE  sender_count = 0 <=> held = {}
<1>1. IsFiniteSet(held)
  BY MailboxAssumption, FS_Subset DEF MailboxTypeOK
<1>2. QED
  BY <1>1, FS_EmptySet DEF SendersCounted

\* Taking the receiver's waker leaves no receiver stranded: it is woken if it waits.
LEMMA WakeCovers ==
    ASSUME MailboxTypeOK, ReceiverNotStranded, WakeReceiver, receiver' = receiver
    PROVE  ReceiverNotStranded'
<1>1. receiver = "awaiting" => recv_woken \/ recv_waker
  BY DEF ReceiverNotStranded
<1>2. receiver = "awaiting" => recv_woken'
  BY <1>1 DEF WakeReceiver
<1>3. QED
  BY <1>2 DEF ReceiverNotStranded

\* No step strands a waiting receiver.
LEMMA NotStrandedStep ==
    MailboxTypeOK /\ ReceiverNotStranded /\ [MailboxNext]_mailboxVars => ReceiverNotStranded'
<1> SUFFICES ASSUME MailboxTypeOK, ReceiverNotStranded, [MailboxNext]_mailboxVars PROVE ReceiverNotStranded'
  OBVIOUS
<1>1. ASSUME NEW s \in Senders, NewSender(s) PROVE ReceiverNotStranded'
  <2>1. sender_count \in Nat /\ sender_count' = sender_count + 1
    BY <1>1 DEF MailboxTypeOK, NewSender
  <2>2. ~NoSenders'
    BY <2>1, SMT DEF NoSenders
  <2>3. QED
    BY <1>1, <2>2 DEF ReceiverNotStranded, NewSender, recvVars
<1>2. ASSUME NEW s \in Senders, DropSender(s) PROVE ReceiverNotStranded'
  <2>1. CASE ~sender_factory_open /\ sender_count' = 0 /\ inbox = <<>>
    BY <1>2, <2>1, WakeCovers DEF DropSender
  <2>2. CASE ~(~sender_factory_open /\ sender_count' = 0 /\ inbox = <<>>)
    BY <1>2, <2>2 DEF DropSender, ReceiverNotStranded, NoSenders
  <2>3. QED
    BY <2>1, <2>2
<1>3. ASSUME NEW s \in Senders, TrySend(s) PROVE ReceiverNotStranded'
  <2>1. CASE WakeReceiver
    BY <1>3, <2>1, WakeCovers DEF TrySend
  <2>2. CASE ~WakeReceiver
    BY <1>3, <2>2, SMTT(30) DEF TrySend, ReceiverNotStranded, NoSenders
  <2>3. QED
    BY <2>1, <2>2
<1>4. ASSUME NEW s \in Senders, PollSend(s) PROVE ReceiverNotStranded'
  <2>1. CASE WakeReceiver
    BY <1>4, <2>1, WakeCovers DEF PollSend
  <2>2. CASE ~WakeReceiver
    BY <1>4, <2>2, SMT DEF PollSend, ReceiverNotStranded, NoSenders
  <2>3. QED
    BY <2>1, <2>2
<1>5. ASSUME NEW s \in Senders, Send(s) \/ WakeOther(s) \/ CancelSend(s)
      PROVE  ReceiverNotStranded'
  BY <1>5
  DEF Send, WakeOther, CancelSend, ReceiverNotStranded, NoSenders, mailVars, recvVars
<1>6. CASE TakeReceiver \/ CancelRecv
  BY <1>6 DEF TakeReceiver, CancelRecv, ReceiverNotStranded
<1>7. CASE TryRecv \/ PollRecv
  BY <1>7
  DEF TryRecv, PollRecv, Receive, ReceiveClosed, ReceiveEmpty, ReceivePending,
      recvUnchanged, ReceiverNotStranded, NoSenders
<1>8. ASSUME NEW r, CloseReceiver(r), r = receiver \/ r = "gone"
      PROVE  ReceiverNotStranded'
  <2>1. CASE r = "gone"
    BY <1>8, <2>1 DEF CloseReceiver, ReceiverNotStranded
  <2>2. CASE receiver_closed /\ r = receiver
    BY <1>8, <2>2 DEF CloseReceiver, ReceiverNotStranded, NoSenders
  <2>3. CASE ~receiver_closed /\ r = receiver
    BY <1>8, <2>3, WakeCovers DEF CloseReceiver
  <2>4. QED
    BY <1>8, <2>1, <2>2, <2>3
<1>9. CASE DropSet
  <2>1. CASE sender_count = 0 /\ inbox = <<>>
    BY <1>9, <2>1, WakeCovers DEF DropSet
  <2>2. CASE ~(sender_count = 0 /\ inbox = <<>>)
    BY <1>9, <2>2 DEF DropSet, ReceiverNotStranded, NoSenders
  <2>3. QED
    BY <2>1, <2>2
<1>10. CASE UNCHANGED mailboxVars
  BY <1>10 DEF ReceiverNotStranded, NoSenders, mailboxVars, mailVars, recvVars
<1>11. QED
  BY <1>1, <1>2, <1>3, <1>4, <1>5, <1>6, <1>7, <1>8, <1>9, <1>10
  DEF MailboxNext, SteadyNext, CloseBySender, CloseByReceiver, DropReceiver

\* No receiver sleeps through a message or the end of the stream, whatever the senders,
\* the set and the receiver itself do in whatever order.
THEOREM NoLostReceive == MailboxSpec => []ReceiverNotStranded
<1>1. MailboxInit => ReceiverNotStranded
  BY DEF MailboxInit, ReceiverNotStranded
<1>2. QED
  BY <1>1, MailboxTypeCorrect, NotStrandedStep, PTL DEF MailboxSpec

-----------------------------------------------------------------------------
\* No step brings a message, or somebody who could send one, after the end.
LEMMA EndStep ==
    MailboxTypeOK /\ SendersCounted /\ EndIsFinal /\ [MailboxNext]_mailboxVars => EndIsFinal'
<1> SUFFICES ASSUME MailboxTypeOK, SendersCounted, EndIsFinal, [MailboxNext]_mailboxVars PROVE EndIsFinal'
  OBVIOUS
<1>0. NoSenders <=> held = {} /\ ~sender_factory_open
  BY NoneHeld DEF NoSenders
<1>1. ASSUME NEW s \in Senders, NewSender(s) PROVE EndIsFinal'
  BY <1>1 DEF EndIsFinal, NewSender, recvVars
<1>2. ASSUME NEW s \in Senders, DropSender(s) PROVE EndIsFinal'
  BY <1>2 DEF EndIsFinal, DropSender
<1>3. ASSUME NEW s \in Senders, TrySend(s) \/ PollSend(s) PROVE EndIsFinal'
  <2>1. s \in held
    BY <1>3 DEF TrySend, PollSend, MailboxTypeOK
  <2>2. QED
    BY <1>3, <2>1 DEF EndIsFinal, TrySend, PollSend
<1>4. ASSUME NEW s \in Senders, Send(s) \/ WakeOther(s) \/ CancelSend(s) PROVE EndIsFinal'
  BY <1>4 DEF EndIsFinal, Send, WakeOther, CancelSend, mailVars, recvVars
<1>5. CASE TakeReceiver \/ CancelRecv \/ DropSet \/ UNCHANGED mailboxVars
  BY <1>5
  DEF EndIsFinal, TakeReceiver, CancelRecv, DropSet, mailboxVars, mailVars, senderVars, recvVars
<1>6. CASE TryRecv \/ PollRecv
  BY <1>0, <1>6
  DEF EndIsFinal, TryRecv, PollRecv, Receive, ReceiveClosed, ReceiveEmpty, ReceivePending,
      recvUnchanged
<1>7. CASE CloseBySender \/ CloseByReceiver \/ DropReceiver
  BY <1>7 DEF EndIsFinal, CloseBySender, CloseByReceiver, DropReceiver, CloseReceiver
<1>8. QED
  BY <1>1, <1>2, <1>3, <1>4, <1>5, <1>6, <1>7 DEF MailboxNext, SteadyNext

\* The count of senders is exact in every reachable state.
LEMMA CountAlways == MailboxSpec => []SendersCounted
<1>1. MailboxInit => SendersCounted
  BY FS_EmptySet DEF MailboxInit, SendersCounted
<1>2. QED
  BY <1>1, MailboxTypeCorrect, MailboxCountStep, PTL DEF MailboxSpec

\* Once a receive has returned Closed nothing is queued and nobody can queue anything.
THEOREM ClosedIsFinal == MailboxSpec => []EndIsFinal
<1>1. MailboxInit => EndIsFinal
  BY DEF MailboxInit, EndIsFinal
<1>2. QED
  BY <1>1, MailboxTypeCorrect, CountAlways, EndStep, PTL DEF MailboxSpec

-----------------------------------------------------------------------------
\* What the abstract channel sees of the mailbox's state
chanVars == <<inbox, delivered, ~receiver_closed /\ ~NoSenders, ended>>

\* A message queued by try_send or poll_send is accepted by the channel.
LEMMA AcceptStep ==
    ASSUME MailboxTypeOK, SendersCounted, held # {}, ~receiver_closed, HasRoom,
           NEW m \in Messages, enqueue(m),
           UNCHANGED <<receiver_closed, sender_factory_open, sender_count, delivered, ended>>
    PROVE  Channel!Accept
<1>1. ~NoSenders
  BY NoneHeld DEF NoSenders
<1>2. QED
  BY <1>1 DEF Channel!Accept, HasRoom, enqueue, NoSenders

\* Every step of the mailbox is a step of the channel or none.
LEMMA ChannelStep ==
    MailboxTypeInv /\ SendersCounted /\ [MailboxNext]_mailboxVars => [Channel!Next]_chanVars
<1> SUFFICES ASSUME MailboxTypeOK, PendingMade, SendersCounted, [MailboxNext]_mailboxVars
             PROVE  Channel!Next \/ UNCHANGED chanVars
  BY DEF MailboxTypeInv, chanVars
<1> USE DEF chanVars
<1>0. sender_count \in Nat /\ (sender_count = 0 <=> held = {})
  BY NoneHeld DEF MailboxTypeOK
<1>1. ASSUME NEW s \in Senders, NewSender(s) PROVE UNCHANGED chanVars
  <2>1. ~NoSenders
    BY <1>0, <1>1 DEF NewSender, NoSenders
  <2>2. ~NoSenders'
    BY <1>0, <1>1, SMT DEF NewSender, NoSenders
  <2>3. QED
    BY <1>1, <2>1, <2>2 DEF NewSender, recvVars
<1>2. ASSUME NEW s \in Senders, DropSender(s) PROVE Channel!Next \/ UNCHANGED chanVars
  <2>1. ~NoSenders
    BY <1>0, <1>2 DEF DropSender, NoSenders
  <2>2. CASE NoSenders'
    <3>1. Channel!Shut
      BY <1>2, <2>2 DEF DropSender, Channel!Shut
    <3>2. QED
      BY <3>1 DEF Channel!Next
  <2>3. CASE ~NoSenders'
    BY <1>2, <2>1, <2>3 DEF DropSender
  <2>4. QED
    BY <2>2, <2>3
<1>3. ASSUME NEW s \in Senders, TrySend(s) PROVE Channel!Next \/ UNCHANGED chanVars
  <2>1. made[s] \in 0 .. MaxSends /\ made[s] < MaxSends /\ MaxSends \in Nat
    BY <1>3, MailboxAssumption DEF MailboxTypeOK, TrySend
  <2>2. <<s, made[s] + 1>> \in Messages
    BY <2>1, MessageType, SMTT(30)
  <2>3. CASE UNCHANGED inbox
    BY <1>3, <2>3 DEF TrySend, NoSenders
  <2>4. CASE ~UNCHANGED inbox
    <3>1. Channel!Accept
      BY <1>3, <2>2, <2>4, AcceptStep DEF TrySend
    <3>2. QED
      BY <3>1 DEF Channel!Next
  <2>5. QED
    BY <2>3, <2>4
<1>4. ASSUME NEW s \in Senders, PollSend(s) PROVE Channel!Next \/ UNCHANGED chanVars
  <2>1. s \in held /\ made[s] \in 0 .. MaxSends /\ made[s] # 0 /\ MaxSends \in Nat
    BY <1>4, MailboxAssumption DEF MailboxTypeOK, PendingMade, PollSend
  <2>2. <<s, made[s]>> \in Messages
    BY <2>1, MessageType, SMT
  <2>3. CASE UNCHANGED inbox
    BY <1>4, <2>3 DEF PollSend, NoSenders
  <2>4. CASE ~UNCHANGED inbox
    <3>1. Channel!Accept
      BY <1>4, <2>1, <2>2, <2>4, AcceptStep DEF PollSend
    <3>2. QED
      BY <3>1 DEF Channel!Next
  <2>5. QED
    BY <2>3, <2>4
<1>5. ASSUME NEW s \in Senders, Send(s) \/ WakeOther(s) \/ CancelSend(s)
      PROVE  UNCHANGED chanVars
  BY <1>5, SMTT(30) DEF Send, WakeOther, CancelSend, NoSenders, mailVars, recvVars
<1>6. CASE TakeReceiver \/ CancelRecv \/ UNCHANGED mailboxVars
  BY <1>6, SMTT(30) DEF TakeReceiver, CancelRecv, NoSenders, mailboxVars, mailVars, recvVars
<1>7. CASE TryRecv \/ PollRecv
  <2>1. CASE Receive("idle")
    <3>1. Channel!Deliver
      BY <1>7, <2>1, SMTT(30)
      DEF TryRecv, PollRecv, Receive, recvUnchanged, NoSenders, Channel!Deliver
    <3>2. QED
      BY <3>1 DEF Channel!Next
  <2>2. CASE ReceiveClosed("idle")
    <3>1. Channel!Tell
      BY <1>7, <2>2, SMTT(30)
      DEF TryRecv, PollRecv, ReceiveClosed, recvUnchanged, NoSenders, Channel!Tell
    <3>2. QED
      BY <3>1 DEF Channel!Next
  <2>3. CASE ReceiveEmpty \/ ReceivePending
    BY <1>7, <2>3, SMTT(30)
    DEF TryRecv, PollRecv, ReceiveEmpty, ReceivePending, recvUnchanged, NoSenders
  <2>4. QED
    BY <1>7, <2>1, <2>2, <2>3 DEF TryRecv, PollRecv
<1>8. ASSUME NEW r, CloseReceiver(r) PROVE Channel!Next \/ UNCHANGED chanVars
  <2>1. CASE receiver_closed
    BY <1>8, <2>1 DEF CloseReceiver, NoSenders
  <2>2. CASE ~receiver_closed
    <3>1. Channel!Shut
      BY <1>8, <2>2 DEF CloseReceiver, NoSenders, Channel!Shut
    <3>2. QED
      BY <3>1 DEF Channel!Next
  <2>3. QED
    BY <2>1, <2>2
<1>9. CASE DropSet
  <2>1. ~NoSenders
    BY <1>9 DEF DropSet, NoSenders
  <2>2. CASE NoSenders'
    <3>1. Channel!Shut
      BY <1>9, <2>2 DEF DropSet, Channel!Shut
    <3>2. QED
      BY <3>1 DEF Channel!Next
  <2>3. CASE ~NoSenders'
    BY <1>9, <2>1, <2>3 DEF DropSet
  <2>4. QED
    BY <2>2, <2>3
<1>10. QED
  BY <1>1, <1>2, <1>3, <1>4, <1>5, <1>6, <1>7, <1>8, <1>9
  DEF MailboxNext, SteadyNext, CloseBySender, CloseByReceiver, DropReceiver

\* The mailbox implements the channel: every accepted message is delivered once, in
\* order, within the capacity, and Closed is returned only when nothing is owed.
THEOREM MailboxIsChannel == MailboxSpec => ImplementsChannel
<1>1. MailboxInit => Channel!Init
  BY DEF MailboxInit, NoSenders, Channel!Init
<1>2. QED
  BY <1>1, MadeAlways, CountAlways, ChannelStep, PTL
  DEF MailboxSpec, ImplementsChannel, Channel!Spec, chanVars

-----------------------------------------------------------------------------
\* The elements of a sequence
Elements(q) == {q[i] : i \in 1 .. Len(q)}

\* No element occurs twice in it.
Once(q) == \A i, j \in 1 .. Len(q) : q[i] = q[j] => i = j

\* Without cancellations the registered wakers are those of the parked senders, one
\* each: poll_send registers, and only a woken sender polls again.
WakersExact == Elements(send_wakers) = Parked /\ Once(send_wakers)

\* The inductive form of NoStrandedSender.  A closed mailbox has woken everybody.
CapacityInv ==
    /\ WakersExact
    /\ receiver_closed => Parked = {}
    /\ NoStrandedSender

\* Appending a new element adds it, and nothing occurs twice.
LEMMA AppendOnce ==
    ASSUME NEW S, NEW q \in Seq(S), NEW x \in S, Once(q), x \notin Elements(q)
    PROVE  Elements(Append(q, x)) = Elements(q) \cup {x} /\ Once(Append(q, x))
<1>1. Len(Append(q, x)) = Len(q) + 1 /\ Len(q) \in Nat
  BY SMT
<1>2. \A i \in 1 .. Len(q) : Append(q, x)[i] = q[i]
  BY SMT
<1>3. Append(q, x)[Len(q) + 1] = x
  BY SMT
<1>4. \A i \in 1 .. Len(q) + 1 : i \in 1 .. Len(q) \/ i = Len(q) + 1
  BY <1>1, SMT
<1>5. Len(q) + 1 \in 1 .. Len(q) + 1 /\ \A i \in 1 .. Len(q) : i \in 1 .. Len(q) + 1
  BY <1>1, SMT
<1>6. Elements(Append(q, x)) = Elements(q) \cup {x}
  BY <1>1, <1>2, <1>3, <1>4, <1>5 DEF Elements
<1>7. \A i \in 1 .. Len(q) : q[i] # x
  BY DEF Elements
<1>8. Once(Append(q, x))
  BY <1>1, <1>2, <1>3, <1>4, <1>7 DEF Once
<1>9. QED
  BY <1>6, <1>8

\* Removing the head of a sequence without repetitions removes just that element.
LEMMA TailOnce ==
    ASSUME NEW S, NEW q \in Seq(S), q # <<>>, Once(q)
    PROVE  /\ Head(q) \in Elements(q)
           /\ Elements(Tail(q)) = Elements(q) \ {Head(q)}
           /\ Once(Tail(q))
<1>1. Len(q) \in Nat /\ Len(q) # 0 /\ Head(q) = q[1] /\ Len(Tail(q)) = Len(q) - 1
  BY SMT
<1>2. \A i \in 1 .. Len(q) - 1 : Tail(q)[i] = q[i + 1] /\ i + 1 \in 1 .. Len(q) /\ i + 1 # 1
  BY SMT
<1>3. \A i \in 1 .. Len(q) : i # 1 => i - 1 \in 1 .. Len(q) - 1 /\ (i - 1) + 1 = i
  BY <1>1, SMTT(30)
<1>4. 1 \in 1 .. Len(q)
  BY <1>1, SMTT(30)
<1>5. Head(q) \in Elements(q)
  BY <1>1, <1>4 DEF Elements
<1>6. \A i \in 1 .. Len(q) : i # 1 => q[i] # q[1]
  BY <1>4 DEF Once
<1>7. Elements(Tail(q)) \subseteq Elements(q) \ {Head(q)}
  BY <1>1, <1>2, <1>6, SMTT(30) DEF Elements
<1>8. Elements(q) \ {Head(q)} \subseteq Elements(Tail(q))
  BY <1>1, <1>2, <1>3, SMTT(30) DEF Elements
<1>9. Once(Tail(q))
  BY <1>1, <1>2, SMT DEF Once
<1>10. QED
  BY <1>5, <1>7, <1>8, <1>9

\* Nobody is parked exactly when no waker is registered.
LEMMA NobodyParked ==
    ASSUME MailboxTypeOK, WakersExact
    PROVE  Parked = {} <=> send_wakers = <<>>
<1>1. send_wakers \in Seq(Senders)
  BY DEF MailboxTypeOK
<1>2. send_wakers = <<>> => Elements(send_wakers) = {}
  BY SMT DEF Elements
<1>3. ASSUME send_wakers # <<>> PROVE Elements(send_wakers) # {}
  BY <1>1, <1>3, TailOnce DEF WakersExact
<1>4. QED
  BY <1>2, <1>3 DEF WakersExact

\* A received message's slot goes to the oldest parked sender.
LEMMA HandOn ==
    ASSUME MailboxTypeOK, CapacityInv, Receive("idle"), UNCHANGED <<pending, receiver_closed>>
    PROVE  CapacityInv'
<1>1. inbox \in Seq(Messages) /\ inbox # <<>> /\ inbox' = Tail(inbox)
      /\ send_wakers \in Seq(Senders) /\ ready \subseteq pending /\ WakeFirstSender
  BY DEF MailboxTypeOK, Receive
<1>2. Len(inbox) \in Nat /\ Len(inbox') = Len(inbox) - 1 /\ Capacity \in Nat
  BY <1>1, SeqSteps, MailboxAssumption
<1>3. IsFiniteSet(ready) /\ Cardinality(ready) \in Nat
  <2>1. ready \subseteq Senders
    BY DEF MailboxTypeOK
  <2>2. QED
    BY <2>1, MailboxAssumption, FS_Subset, FS_CardinalityType
<1>4. CASE send_wakers = <<>>
  <2>1. UNCHANGED <<send_wakers, ready, pending>>
    BY <1>1, <1>4 DEF WakeFirstSender
  <2>2. Parked = {} /\ Parked' = {}
    BY <1>4, <2>1, NobodyParked DEF CapacityInv, Parked
  <2>3. WakersExact'
    BY <2>1, SMT DEF CapacityInv, WakersExact, Elements, Once, Parked
  <2>4. QED
    BY <2>2, <2>3 DEF CapacityInv, NoStrandedSender
<1>5. CASE send_wakers # <<>>
  <2>1. PICK h \in Senders : h = Head(send_wakers)
    BY <1>1, <1>5, SeqSteps
  <2>2. send_wakers' = Tail(send_wakers) /\ ready' = ready \cup ({h} \cap pending)
    BY <1>1, <1>5, <2>1 DEF WakeFirstSender
  <2>3. h \in Elements(send_wakers) /\ Once(send_wakers')
        /\ Elements(send_wakers') = Elements(send_wakers) \ {h}
    BY <1>1, <1>5, <2>1, <2>2, TailOnce DEF CapacityInv, WakersExact
  <2>4. h \in pending /\ h \notin ready
    BY <2>3 DEF CapacityInv, WakersExact, Parked
  <2>5. ready' = ready \cup {h} /\ Parked' = Parked \ {h}
    BY <2>2, <2>4 DEF Parked
  <2>6. Cardinality(ready') = Cardinality(ready) + 1
    BY <1>3, <2>4, <2>5, FS_AddElement
  <2>7. WakersExact'
    BY <2>3, <2>5 DEF CapacityInv, WakersExact
  <2>8. Parked # {} /\ Capacity \leq Len(inbox) + Cardinality(ready)
    BY <2>4 DEF CapacityInv, NoStrandedSender, Parked
  <2>9. Capacity \leq Len(inbox') + Cardinality(ready')
    BY <1>2, <1>3, <2>6, <2>8, SMTT(30)
  <2>10. QED
    BY <2>5, <2>7, <2>8, <2>9 DEF CapacityInv, NoStrandedSender
<1>6. QED
  BY <1>4, <1>5

\* A step that changes neither wakers nor senders and takes nothing from the queue keeps
\* the capacity accounted for.
LEMMA QuietCapacity ==
    ASSUME MailboxTypeOK, CapacityInv, UNCHANGED <<send_wakers, pending, ready, receiver_closed>>,
           inbox' = inbox \/ (HasRoom /\ \E m \in Messages : inbox' = Append(inbox, m))
    PROVE  CapacityInv'
<1>1. inbox \in Seq(Messages) /\ Capacity \in Nat
  BY MailboxAssumption DEF MailboxTypeOK
<1>2. Len(inbox) \in Nat /\ Len(inbox') \in Nat /\ Len(inbox) \leq Len(inbox')
  BY <1>1, SeqSteps, SMT
<1>3. Cardinality(ready) \in Nat
  <2>1. ready \subseteq Senders
    BY DEF MailboxTypeOK
  <2>2. QED
    BY <2>1, MailboxAssumption, FS_Subset, FS_CardinalityType
<1>4. Parked' = Parked /\ ready' = ready /\ send_wakers' = send_wakers
  BY DEF Parked
<1>5. WakersExact'
  BY <1>4 DEF CapacityInv, WakersExact, Elements, Once
<1>6. Parked # {} => Capacity \leq Len(inbox') + Cardinality(ready)
  BY <1>1, <1>2, <1>3, SMTT(30) DEF CapacityInv, NoStrandedSender
<1>7. QED
  BY <1>4, <1>5, <1>6 DEF CapacityInv, NoStrandedSender

\* Without cancellations no step leaves free capacity with nobody on the way to it.
LEMMA CapacityStep == MailboxTypeInv /\ CapacityInv /\ [SteadyNext]_mailboxVars => CapacityInv'
<1> SUFFICES ASSUME MailboxTypeOK, PendingMade, CapacityInv, [SteadyNext]_mailboxVars PROVE CapacityInv'
  BY DEF MailboxTypeInv
<1>0. /\ inbox \in Seq(Messages) /\ Len(inbox) \in Nat /\ Capacity \in Nat
      /\ send_wakers \in Seq(Senders) /\ ready \subseteq pending /\ pending \subseteq Senders
      /\ IsFiniteSet(ready) /\ Cardinality(ready) \in Nat
  <2>1. ready \subseteq Senders
    BY DEF MailboxTypeOK
  <2>2. IsFiniteSet(ready) /\ Cardinality(ready) \in Nat
    BY <2>1, MailboxAssumption, FS_Subset, FS_CardinalityType
  <2>3. QED
    BY <2>2, MailboxAssumption, SMTT(30) DEF MailboxTypeOK
<1>1. ASSUME NEW s \in Senders, NewSender(s) \/ DropSender(s) PROVE CapacityInv'
  BY <1>1, QuietCapacity DEF NewSender, DropSender
<1>2. ASSUME NEW s \in Senders, TrySend(s) PROVE CapacityInv'
  <2>1. made[s] \in 0 .. MaxSends /\ made[s] < MaxSends /\ MaxSends \in Nat
    BY <1>2, MailboxAssumption DEF MailboxTypeOK, TrySend
  <2>2. <<s, made[s] + 1>> \in Messages
    BY <2>1, MessageType, SMTT(30)
  <2>3. QED
    BY <1>2, <2>2, QuietCapacity DEF TrySend, enqueue
<1>3. ASSUME NEW s \in Senders, Send(s) PROVE CapacityInv'
  <2>1. /\ s \notin pending /\ pending' = pending \cup {s} /\ ready' = ready \cup {s}
        /\ UNCHANGED <<inbox, send_wakers, receiver_closed>>
    BY <1>3 DEF Send, mailVars
  <2>2. Parked' = Parked
    BY <1>0, <2>1 DEF Parked
  <2>3. Cardinality(ready') = Cardinality(ready) + 1
    BY <1>0, <2>1, FS_AddElement
  <2>4. WakersExact'
    BY <2>1, <2>2 DEF CapacityInv, WakersExact, Elements, Once
  <2>5. Parked # {} => Capacity \leq Len(inbox) + Cardinality(ready')
    BY <1>0, <2>3, SMTT(30) DEF CapacityInv, NoStrandedSender
  <2>6. QED
    BY <2>1, <2>2, <2>4, <2>5 DEF CapacityInv, NoStrandedSender
<1>4. ASSUME NEW s \in Senders, PollSend(s) PROVE CapacityInv'
  <2>1. /\ s \in pending /\ s \in ready /\ ready' = ready \ {s}
        /\ receiver_closed' = receiver_closed
    BY <1>4 DEF PollSend
  <2>2. Cardinality(ready') = Cardinality(ready) - 1
    BY <1>0, <2>1, FS_RemoveElement
  <2>3. CASE pending' = pending \ {s} /\ UNCHANGED send_wakers
    <3>1. Parked' = Parked
      BY <2>1, <2>3 DEF Parked
    <3>2. WakersExact'
      BY <2>3, <3>1 DEF CapacityInv, WakersExact, Elements, Once
    <3>3. CASE receiver_closed
      BY <2>1, <3>1, <3>2, <3>3 DEF CapacityInv, NoStrandedSender
    <3>4. CASE ~receiver_closed
      <4>1. HasRoom /\ enqueue(<<s, made[s]>>)
        <5>1. s \in pending' => FALSE
          BY <2>3
        <5>2. QED
          BY <1>4, <2>1, <3>4, <5>1 DEF PollSend
      <4>2. made[s] \in 0 .. MaxSends /\ made[s] # 0 /\ MaxSends \in Nat
        BY <1>0, <2>1, MailboxAssumption DEF MailboxTypeOK, PendingMade
      <4>3. Len(inbox') = Len(inbox) + 1
        BY <1>0, <4>1, <4>2, MessageType, SeqSteps, SMTT(30) DEF enqueue
      <4>4. Parked # {} => Capacity \leq Len(inbox') + Cardinality(ready')
        BY <1>0, <2>2, <4>3, SMT DEF CapacityInv, NoStrandedSender
      <4>5. QED
        BY <2>1, <3>1, <3>2, <4>4 DEF CapacityInv, NoStrandedSender
    <3>5. QED
      BY <3>3, <3>4
  <2>4. CASE /\ ~receiver_closed /\ ~HasRoom /\ send_wakers' = Append(send_wakers, s)
             /\ UNCHANGED <<pending, inbox>>
    <3>1. Parked' = Parked \cup {s} /\ s \notin Parked
      BY <2>1, <2>4 DEF Parked
    <3>2. WakersExact'
      BY <1>0, <2>4, <3>1, AppendOnce, SMTT(30) DEF CapacityInv, WakersExact
    <3>3. Cardinality(ready') \in Nat
      <4>1. ready' \subseteq Senders
        BY <1>0, <2>1
      <4>2. QED
        BY <4>1, MailboxAssumption, FS_Subset, FS_CardinalityType
    <3>4. Capacity \leq Len(inbox') + Cardinality(ready')
      BY <1>0, <2>4, <3>3, SMTT(30) DEF HasRoom
    <3>5. QED
      BY <2>1, <2>4, <3>2, <3>4 DEF CapacityInv, NoStrandedSender
  <2>5. QED
    BY <1>4, <2>3, <2>4 DEF PollSend
<1>5. CASE TakeReceiver \/ CancelRecv \/ DropSet \/ UNCHANGED mailboxVars
  <2>1. UNCHANGED <<inbox, send_wakers, pending, ready, receiver_closed>>
    BY <1>5 DEF TakeReceiver, CancelRecv, DropSet, mailboxVars, mailVars, senderVars
  <2>2. QED
    BY <2>1, QuietCapacity
<1>6. CASE TryRecv \/ PollRecv
  <2>1. UNCHANGED <<pending, receiver_closed>>
    BY <1>6 DEF TryRecv, PollRecv, recvUnchanged
  <2>2. CASE Receive("idle")
    BY <2>1, <2>2, HandOn
  <2>3. CASE UNCHANGED <<inbox, send_wakers, ready>>
    BY <2>1, <2>3, QuietCapacity
  <2>4. QED
    BY <1>6, <2>2, <2>3
    DEF TryRecv, PollRecv, ReceiveClosed, ReceiveEmpty, ReceivePending
<1>7. ASSUME NEW r, CloseReceiver(r) PROVE CapacityInv'
  <2>1. CASE receiver_closed
    BY <1>7, <2>1, QuietCapacity DEF CloseReceiver
  <2>2. CASE ~receiver_closed
    <3>1. /\ send_wakers' = <<>> /\ pending' = pending
          /\ ready' = ready \cup (Elements(send_wakers) \cap pending)
      BY <1>7, <2>2 DEF CloseReceiver, Elements
    <3>2. Parked' = {}
      BY <3>1 DEF CapacityInv, WakersExact, Parked
    <3>3. Elements(send_wakers') = {} /\ Once(send_wakers')
      BY <3>1, SMT DEF Elements, Once
    <3>4. QED
      BY <3>2, <3>3 DEF CapacityInv, WakersExact, NoStrandedSender
  <2>3. QED
    BY <2>1, <2>2
<1>8. QED
  BY <1>1, <1>2, <1>3, <1>4, <1>5, <1>6, <1>7
  DEF SteadyNext, CloseBySender, CloseByReceiver, DropReceiver

\* Among senders that neither cancel a send nor poll it unasked, free capacity always has
\* a woken sender on its way to it while senders are parked (try_recv, poll_recv and
\* close_receiver hand every slot on).  Cancellation breaks this: see NoStandstill.
THEOREM CapacityHandedOn == SteadySpec => []NoStrandedSender
<1>1. MailboxInit => MailboxTypeInv /\ CapacityInv
  <2>1. ASSUME MailboxInit PROVE CapacityInv
    <3>1. Parked = {} /\ send_wakers = <<>> /\ ~receiver_closed
      BY <2>1 DEF MailboxInit, Parked
    <3>2. QED
      BY <3>1, SMTT(30) DEF CapacityInv, WakersExact, Elements, Once, NoStrandedSender
  <2>2. QED
    BY <2>1, MailboxTypeInit DEF MailboxTypeInv, PendingMade, MailboxInit
<1>2. MailboxTypeInv /\ CapacityInv /\ [SteadyNext]_mailboxVars => MailboxTypeInv' /\ CapacityInv'
  BY CapacityStep, MailboxTypeStep, MadeStep DEF MailboxTypeInv, MailboxNext
<1>3. QED
  BY <1>1, <1>2, PTL DEF SteadySpec, CapacityInv

=============================================================================
