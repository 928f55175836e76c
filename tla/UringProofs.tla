---------------------------- MODULE UringProofs -----------------------------
(***************************************************************************)
(* The io_uring of an executor: any futures, lengths, queue sizes, budgets *)
(* and drains.  A buffer outlives the operation that uses it: the          *)
(* inductive invariant, what the operations of the ring and the dispatcher *)
(* do to it, and the steps that submit, complete, queue and give up        *)
(* operations.  And the executor does not sleep on a completion.           *)
(***************************************************************************)
EXTENDS UringExecutor, TLAPS

\* A leaf is first-order reasoning, Zenon's, unless it cites another prover.
USE Zenon

-----------------------------------------------------------------------------
(* The invariant *)

Entries == [id : Nat, f : Futures \cup {None}]
Completions == [id : Nat, n : Int]
Rings == [sq : Seq(Entries), cq : Seq(Completions), local : Seq(Completions),
          ops : SUBSET Nat, next : Nat]
Dispatchers == [ring : Rings, waiters : SUBSET Nat, completed : SUBSET Completions,
                abandoned : SUBSET Nat, deferred : SUBSET Entries]

FutureStates == {"none", "new", "queued", "failed", "done", "dropped"}
Places == {"future", "returned", "freed", "deferred", "leaked"}

UringTypes ==
    /\ d \in Dispatchers
    /\ inflight \in SUBSET Entries /\ detached \in SUBSET Entries
    /\ installed \in BOOLEAN
    /\ fut \in [Futures -> FutureStates]
    /\ op \in [Futures -> Nat]
    /\ buffer \in [Futures -> Places]
    /\ cur \in Futures \cup {None}

\* The ids of completions the kernel has posted and nobody has dispatched
Posted(x) == {c.id : c \in Members(x.ring.local) \cup Members(x.ring.cq)}

\* The entries the kernel may still act on through the ring
Live == inflight \cup Members(d.ring.sq)

\* An operation is live, posted or completed, and its id is tracked while it is live; ids
\* are issued once.
RingInv ==
    /\ \A e \in Live : /\ e.id # None /\ e.id < d.ring.next
                       /\ e.id \in d.ring.ops /\ e.id \notin Posted(d)
    /\ \A e, g \in Live : e.id = g.id => e = g
    /\ inflight \cap Members(d.ring.sq) = {}
    /\ \A i \in Posted(d) : i < d.ring.next
    /\ \A c \in d.completed : c.id < d.ring.next /\ c.id \notin d.ring.ops
    /\ \A b \in d.deferred : b.id < d.ring.next
    /\ 0 < d.ring.next

\* Where there is no ring there is nothing live; the batch and the drain have one.
InstalledInv ==
    /\ ~installed => d = NewDispatcher /\ inflight = {}
    /\ exec \in {"drain", "drainwait", "queue", "batch", "batchwait", "release"} => installed

\* A queued future's id is its own.
Own(f) ==
    /\ op[f] < d.ring.next
    /\ \A e \in Live : e.id = op[f] => e.f = f
    /\ \A b \in d.deferred : b.id # op[f]
    /\ \A g \in Futures : fut[g] = "queued" /\ op[g] = op[f] => g = f

OwnInv == installed => \A f \in Futures : fut[f] = "queued" /\ op[f] # None => Own(f)

Finished(f) == fut[f] \in {"failed", "done", "dropped"}

\* Only finished futures have buffers deferred or leaked, and not both.
FutureInv ==
    /\ \A f \in Futures : /\ fut[f] # "queued" => op[f] = None
                          /\ buffer[f] = "leaked" => Finished(f) /\ \A b \in d.deferred : b.f # f
    /\ \A b \in d.deferred : b.f \in Futures /\ Finished(b.f)

\* The future that is being polled
CurInv ==
    cur # None => /\ fut[cur] \in {"new", "queued"}
                  /\ \/ cur \in Tasks /\ exec = "poll"
                     \/ cur \in Batch /\ exec = "batch"

\* A future keeps its ring: it is registered with it or being polled, or the batch runs.
KeepsRing(f) ==
    IF f \in Batch THEN exec \in {"queue", "batch", "batchwait", "release"}
    ELSE exec \in {"out", "poll", "check", "sleep"} /\ (op[f] \in d.waiters \/ cur = f)

\* Where the buffer of a live entry is
InFuture(e) == /\ fut[e.f] = "queued" /\ op[e.f] = e.id /\ buffer[e.f] = "future"
               /\ KeepsRing(e.f)
InDeferred(e) == e \in d.deferred /\ buffer[e.f] = "deferred"
Leaked(e) == buffer[e.f] = "leaked"

BufferInv ==
    /\ \A e \in Live : e.f # None => InFuture(e) \/ InDeferred(e) \/ Leaked(e)
    /\ \A e \in detached : e.f # None => Leaked(e)

UringInv ==
    /\ UringTypes /\ RingInv /\ InstalledInv /\ OwnInv /\ FutureInv /\ CurInv /\ BufferInv

\* A new ring finds no future that is left from an earlier one.
NoFutureLeft == ~installed /\ runs < MaxRuns => \A f \in Futures : fut[f] # "queued"

-----------------------------------------------------------------------------
(* What the operations of the ring and of the dispatcher do *)

LEMMA MemberFacts ==
    ASSUME NEW S, NEW s \in Seq(S)
    PROVE  /\ Members(s) = {s[i] : i \in 1 .. Len(s)} /\ Members(s) \subseteq S
           /\ \A e \in S : Append(s, e) \in Seq(S) /\ Members(Append(s, e)) = Members(s) \cup {e}
           /\ \A t \in Seq(S) : s \o t \in Seq(S) /\ Members(s \o t) = Members(s) \cup Members(t)
<1>1. Members(s) = {s[i] : i \in 1 .. Len(s)} /\ Members(s) \subseteq S
  BY SMT DEF Members
<1>2. ASSUME NEW e \in S PROVE Append(s, e) \in Seq(S) /\ Members(Append(s, e)) = Members(s) \cup {e}
  <2>1. Append(s, e) \in Seq(S)
    BY SMT
  <2>2. \A i \in DOMAIN Append(s, e) : Append(s, e)[i] \in Members(s) \cup {e}
    BY SMT DEF Members
  <2>3. \A i \in DOMAIN s : i \in DOMAIN Append(s, e) /\ Append(s, e)[i] = s[i]
    BY SMT
  <2>4. Len(s) + 1 \in DOMAIN Append(s, e) /\ Append(s, e)[Len(s) + 1] = e
    BY SMT
  <2>5. QED
    BY <2>1, <2>2, <2>3, <2>4 DEF Members
<1>3. ASSUME NEW t \in Seq(S) PROVE s \o t \in Seq(S) /\ Members(s \o t) = Members(s) \cup Members(t)
  <2>1. s \o t \in Seq(S)
    BY SMT
  <2>2. \A i \in DOMAIN (s \o t) : (s \o t)[i] \in Members(s) \cup Members(t)
    BY SMT DEF Members
  <2>3. \A i \in DOMAIN s : i \in DOMAIN (s \o t) /\ (s \o t)[i] = s[i]
    BY SMT
  <2>4. \A i \in DOMAIN t : Len(s) + i \in DOMAIN (s \o t) /\ (s \o t)[Len(s) + i] = t[i]
    BY SMT
  <2>5. Members(s \o t) \subseteq Members(s) \cup Members(t)
    BY <2>2 DEF Members
  <2>6. Members(s) \subseteq Members(s \o t)
    BY <2>3 DEF Members
  <2>7. Members(t) \subseteq Members(s \o t)
    BY <2>4 DEF Members
  <2>8. QED
    BY <2>1, <2>5, <2>6, <2>7
<1>4. QED
  BY <1>1, <1>2, <1>3

LEMMA SubSeqFacts ==
    ASSUME NEW S, NEW s \in Seq(S), NEW n \in 0 .. Len(s)
    PROVE  /\ SubSeq(s, n + 1, Len(s)) \in Seq(S)
           /\ Members(SubSeq(s, n + 1, Len(s))) \subseteq Members(s)
<1> DEFINE r == SubSeq(s, n + 1, Len(s))
<1>1. r \in Seq(S)
  BY SMT
<1>2. \A i \in DOMAIN r : n + i \in DOMAIN s /\ r[i] = s[n + i]
  BY SMT
<1>3. QED
  BY <1>1, <1>2 DEF Members

\* y is x after some of the posted completions were dispatched.
Dispatched(x, y) ==
    /\ y \in Dispatchers
    /\ y.ring.sq = x.ring.sq /\ y.ring.next = x.ring.next
    /\ Posted(y) \subseteq Posted(x) /\ y.ring.ops \subseteq x.ring.ops
    /\ y.deferred \subseteq x.deferred
    /\ \A i \in x.ring.ops \ Posted(x) : /\ i \in y.ring.ops
                                         /\ i \in x.waiters => i \in y.waiters
                                         /\ \A b \in x.deferred : b.id = i => b \in y.deferred
    /\ \A c \in y.completed : c \in x.completed \/ (c.id \in Posted(x) /\ c.id \notin y.ring.ops)

LEMMA NewFacts == NewDispatcher \in Dispatchers /\ Posted(NewDispatcher) = {} /\ Members(NewDispatcher.ring.sq) = {}
<1>1. NewRing \in Rings
  BY SMT DEF NewRing, Rings
<1>2. NewDispatcher \in Dispatchers
  BY <1>1 DEF NewDispatcher, Dispatchers
<1>3. Members(<<>>) = {}
  BY SMT DEF Members
<1>4. QED
  BY <1>2, <1>3 DEF NewDispatcher, NewRing, Posted

\* dispatch_available_limit
LEMMA DispatchFacts ==
    ASSUME NEW x \in Dispatchers, NEW limit \in Nat
    PROVE  Dispatched(x, Dispatch(x, limit))
<1> DEFINE all == DrainCompletions(x.ring)
           n == IF Len(all) < limit THEN Len(all) ELSE limit
           batch == {all[i] : i \in 1 .. n}
           ids == {c.id : c \in batch}
           kept == {c \in batch : c.id \notin x.abandoned}
           rest == SubSeq(all, n + 1, Len(all))
           r == TakeCompletions(x.ring, n)
           y == Dispatch(x, limit)
<1>1. /\ x.ring \in Rings /\ x.ring.local \in Seq(Completions) /\ x.ring.cq \in Seq(Completions)
      /\ x.completed \subseteq Completions /\ x.waiters \subseteq Nat /\ x.abandoned \subseteq Nat
      /\ x.deferred \subseteq Entries /\ x.ring.ops \subseteq Nat
  BY DEF Dispatchers, Rings
<1>2. /\ all \in Seq(Completions) /\ Members(all) = Members(x.ring.local) \cup Members(x.ring.cq)
      /\ Members(all) = {all[i] : i \in 1 .. Len(all)} /\ Members(all) \subseteq Completions
  <2>1. all \in Seq(Completions) /\ Members(all) = Members(x.ring.local) \cup Members(x.ring.cq)
    BY <1>1, MemberFacts, SMT DEF DrainCompletions
  <2>2. QED
    BY <2>1, MemberFacts, SMT
<1>3. Posted(x) = {c.id : c \in Members(all)}
  BY <1>2 DEF Posted
<1>4. Len(all) \in Nat /\ n \in 0 .. Len(all)
  BY <1>2, SMT
<1>5. /\ r = [x.ring EXCEPT !.cq = <<>>, !.local = rest, !.ops = @ \ {all[i].id : i \in 1 .. n}]
      /\ y = [x EXCEPT !.ring = r, !.abandoned = @ \ ids, !.deferred = {b \in @ : b.id \notin ids},
                       !.completed = {c \in @ : c.id \notin {k.id : k \in kept}} \cup kept,
                       !.waiters = @ \ {c.id : c \in kept}]
  BY DEF Dispatch, TakeCompletions
<1> HIDE DEF all, n, y, r
<1>6. batch \subseteq Members(all) /\ kept \subseteq batch /\ batch \subseteq Completions
  BY <1>2, <1>4, SMT
<1>7. rest \in Seq(Completions) /\ Members(rest) \subseteq Members(all)
  BY <1>2, <1>4, SubSeqFacts DEF rest
<1>8. ids \subseteq Posted(x) /\ {all[i].id : i \in 1 .. n} = ids /\ {c.id : c \in kept} \subseteq ids
  BY <1>3, <1>6, SMT
<1> HIDE DEF batch, ids, kept, rest
<1>9. r \in Rings /\ r.sq = x.ring.sq /\ r.next = x.ring.next /\ r.cq = <<>> /\ r.local = rest
      /\ r.ops = x.ring.ops \ ids
  <2>1. DOMAIN x.ring = {"sq", "cq", "local", "ops", "next"}
    BY <1>1 DEF Rings
  <2>2. /\ r.sq = x.ring.sq /\ r.next = x.ring.next /\ r.cq = <<>> /\ r.local = rest
        /\ r.ops = x.ring.ops \ ids
    BY <1>5, <1>8, <2>1
  <2>3. r = [sq |-> r.sq, cq |-> r.cq, local |-> r.local, ops |-> r.ops, next |-> r.next]
    BY <1>1, <1>5 DEF Rings
  <2>4. r.sq \in Seq(Entries) /\ r.cq \in Seq(Completions) /\ r.ops \in SUBSET Nat /\ r.next \in Nat
    BY <1>1, <2>2, SMT DEF Rings
  <2>5. QED
    BY <1>7, <2>2, <2>3, <2>4 DEF Rings
<1>10. /\ y.ring = r /\ y.abandoned = x.abandoned \ ids
       /\ y.deferred = {b \in x.deferred : b.id \notin ids}
       /\ y.completed = {c \in x.completed : c.id \notin {k.id : k \in kept}} \cup kept
       /\ y.waiters = x.waiters \ {c.id : c \in kept}
  BY <1>5 DEF Dispatchers
<1>11. y \in Dispatchers
  <2>1. /\ y.waiters \subseteq Nat /\ y.abandoned \subseteq Nat /\ y.deferred \subseteq Entries
        /\ y.completed \subseteq Completions /\ y.ring \in Rings
    BY <1>1, <1>6, <1>9, <1>10
  <2>2. y = [ring |-> y.ring, waiters |-> y.waiters, completed |-> y.completed,
             abandoned |-> y.abandoned, deferred |-> y.deferred]
    BY <1>5, <1>10 DEF Dispatchers
  <2>3. QED
    BY <2>1, <2>2 DEF Dispatchers
<1>12. Posted(y) \subseteq Posted(x)
  <2>0. Members(<<>>) = {}
    BY SMT DEF Members
  <2>1. Members(y.ring.cq) = {} /\ Members(y.ring.local) \subseteq Members(all)
    BY <1>7, <1>9, <1>10, <2>0
  <2>2. QED
    BY <1>3, <2>1 DEF Posted
<1>13. \A c \in y.completed : c \in x.completed \/ (c.id \in Posted(x) /\ c.id \in ids)
  <2>1. \A c \in kept : c.id \in ids
    BY DEF kept, ids
  <2>2. QED
    BY <1>8, <1>10, <2>1
<1>14. QED
  BY <1>8, <1>9, <1>10, <1>11, <1>12, <1>13 DEF Dispatched, y

\* take_completion and register_waker
LEMMA TakeFacts ==
    ASSUME NEW x, NEW y, Dispatched(x, y), NEW i \in Nat
    PROVE  /\ Dispatched(x, TakeCompletion(y, i)) /\ TakeCompletion(y, i).deferred = y.deferred
           /\ TakeCompletion(y, i).ring = y.ring /\ Completion(TakeCompletion(y, i), i) = {}
           /\ Dispatched(x, RegisterWaker(y, i)) /\ RegisterWaker(y, i).deferred = y.deferred
<1> DEFINE t == TakeCompletion(y, i)
           w == RegisterWaker(y, i)
<1>1. y \in Dispatchers
  BY DEF Dispatched
<1>2. /\ t \in Dispatchers /\ t.ring = y.ring /\ t.deferred = y.deferred /\ t.waiters = y.waiters
      /\ t.completed = y.completed \ Completion(y, i)
  BY <1>1 DEF TakeCompletion, Dispatchers
<1>3. Completion(t, i) = {}
  BY <1>2 DEF Completion
<1>4. /\ w \in Dispatchers /\ w.ring = y.ring /\ w.deferred = y.deferred
      /\ w.waiters = y.waiters \cup {i} /\ w.completed = y.completed
  BY <1>1 DEF RegisterWaker, Dispatchers
<1> HIDE DEF t, w
<1>5. Posted(t) = Posted(y) /\ Posted(w) = Posted(y)
  BY <1>2, <1>4 DEF Posted
<1>6. Dispatched(x, t)
  BY <1>2, <1>5 DEF Dispatched
<1>7. Dispatched(x, w)
  BY <1>4, <1>5 DEF Dispatched
<1>8. QED
  BY <1>2, <1>3, <1>4, <1>6, <1>7 DEF t, w

\* q is r after an operation for f was queued, or was refused for want of a slot.
Grows(r, q, f) ==
    /\ q \in Rings /\ q.local = r.local /\ q.cq = r.cq /\ q.next = r.next + 1
    /\ IF HasSqe(r) THEN q.sq = Append(r.sq, [id |-> r.next, f |-> f]) /\ q.ops = r.ops \cup {r.next}
       ELSE q.sq = r.sq /\ q.ops = r.ops

\* queue_buffer_operation
LEMMA QueueFacts ==
    ASSUME NEW r \in Rings, NEW f \in Futures \cup {None}
    PROVE  Grows(r, QueueOperation(r, f), f)
<1> DEFINE t == AllocateOperation(r)
           e == [id |-> r.next, f |-> f]
           u == [t EXCEPT !.ops = r.ops]
           v == QueueEntry(t, r.next, f)
<1>1. r.sq \in Seq(Entries) /\ r.next \in Nat /\ r.ops \subseteq Nat /\ e \in Entries
  BY DEF Rings, Entries
<1>2. /\ t \in Rings /\ t.sq = r.sq /\ t.cq = r.cq /\ t.local = r.local
      /\ t.ops = r.ops \cup {r.next} /\ t.next = r.next + 1
  <2>1. r.ops \cup {r.next} \in SUBSET Nat /\ r.next + 1 \in Nat
    BY <1>1, SMT
  <2> DEFINE o == r.ops \cup {r.next}
             n == r.next + 1
  <2>2. t = [r EXCEPT !.ops = o, !.next = n]
    BY DEF AllocateOperation
  <2> HIDE DEF o, n, t
  <2>3. t \in Rings
    BY <2>1, <2>2 DEF Rings, o, n
  <2>4. t.sq = r.sq /\ t.cq = r.cq /\ t.local = r.local /\ t.ops = o /\ t.next = n
    BY <2>2 DEF Rings
  <2>5. QED
    BY <2>3, <2>4 DEF o, n
<1> HIDE DEF t, e
<1>3. Append(r.sq, e) \in Seq(Entries)
  BY <1>1, SMT
<1>4. /\ v \in Rings /\ v.sq = Append(r.sq, e) /\ v.cq = r.cq /\ v.local = r.local
      /\ v.ops = r.ops \cup {r.next} /\ v.next = r.next + 1
  <2>1. v = [t EXCEPT !.sq = Append(r.sq, e)]
    BY <1>2 DEF QueueEntry, e
  <2>2. QED
    BY <1>2, <1>3, <2>1 DEF Rings
<1>5. /\ u \in Rings /\ u.sq = r.sq /\ u.cq = r.cq /\ u.local = r.local
      /\ u.ops = r.ops /\ u.next = r.next + 1
  BY <1>1, <1>2 DEF Rings
<1>6. QueueOperation(r, f) = IF HasSqe(r) THEN v ELSE u
  BY DEF QueueOperation, t
<1> HIDE DEF u, v
<1>7. QED
  BY <1>4, <1>5, <1>6 DEF Grows, e

\* y is x after the buffer of f was handed over with operation i.
GivenUp(x, y, i, f) ==
    /\ y \in Dispatchers
    /\ y.ring = x.ring \/ Grows(x.ring, y.ring, None)
    /\ y.completed \subseteq x.completed /\ y.waiters = x.waiters \ {i}
    /\ y.deferred = IF i \in x.ring.ops THEN {b \in x.deferred : b.id # i} \cup {[id |-> i, f |-> f]}
                    ELSE x.deferred
    /\ i \notin x.ring.ops => y.ring = x.ring

\* defer_buffer_drop and abandon_operation
LEMMA DeferFacts ==
    ASSUME NEW x \in Dispatchers, NEW i \in Nat, NEW f \in Futures
    PROVE  GivenUp(x, DeferBufferDrop(x, i, f), i, f)
<1> DEFINE r == QueueCancelOperation(x.ring)
           cancel == IF HasSqe(x.ring) THEN {x.ring.next} ELSE {}
           y == [TakeCompletion(x, i) EXCEPT !.waiters = @ \ {i}]
           z == [y EXCEPT !.abandoned = @ \cup {i} \cup cancel, !.ring = r]
           a == Abandon(x, i)
<1>1. /\ x.ring \in Rings /\ x.ring.next \in Nat /\ x.waiters \subseteq Nat /\ x.abandoned \subseteq Nat
      /\ x.completed \subseteq Completions /\ x.deferred \subseteq Entries
  BY DEF Dispatchers, Rings
<1>2. Grows(x.ring, r, None) /\ r \in Rings
  BY <1>1, QueueFacts DEF QueueCancelOperation, Grows
<1>3. /\ y \in Dispatchers /\ y.ring = x.ring /\ y.waiters = x.waiters \ {i}
      /\ y.completed \subseteq x.completed /\ y.deferred = x.deferred
  BY <1>1 DEF TakeCompletion, Dispatchers
<1>4. a = y \/ (a = z /\ i \in x.ring.ops)
  BY DEF Abandon
<1>5. cancel \subseteq Nat
  BY <1>1
<1> HIDE DEF r, cancel, y
<1>6. /\ z \in Dispatchers /\ z.ring = r /\ z.waiters = x.waiters \ {i}
      /\ z.completed \subseteq x.completed /\ z.deferred = x.deferred
  BY <1>2, <1>3, <1>5 DEF Dispatchers
<1> HIDE DEF z, a
<1>7. /\ a \in Dispatchers /\ a.waiters = x.waiters \ {i}
      /\ a.completed \subseteq x.completed /\ a.deferred = x.deferred
      /\ a.ring = x.ring \/ (Grows(x.ring, a.ring, None) /\ i \in x.ring.ops)
  BY <1>2, <1>3, <1>4, <1>6
<1>8. i \in a.ring.ops <=> i \in x.ring.ops
  BY <1>7 DEF Grows
<1> DEFINE df == {b \in x.deferred : b.id # i} \cup {[id |-> i, f |-> f]}
           w == [a EXCEPT !.deferred = df]
<1>9. df \subseteq Entries
  BY <1>1, SMT DEF Entries
<1>10. DeferBufferDrop(x, i, f) = IF i \in x.ring.ops THEN w ELSE a
  BY <1>7, <1>8 DEF DeferBufferDrop, a
<1> HIDE DEF df
<1>11. /\ w \in Dispatchers /\ w.ring = a.ring /\ w.waiters = a.waiters
       /\ w.completed = a.completed /\ w.deferred = df
  BY <1>7, <1>9 DEF Dispatchers
<1> HIDE DEF w
<1>12. CASE i \in x.ring.ops
  BY <1>7, <1>10, <1>11, <1>12 DEF GivenUp, df
<1>13. CASE i \notin x.ring.ops
  BY <1>7, <1>10, <1>13 DEF GivenUp
<1>14. QED
  BY <1>12, <1>13

-----------------------------------------------------------------------------
(* Steps that dispatch completions *)

LEMMA LiveFacts ==
    ASSUME UringTypes
    PROVE  /\ d.ring \in Rings /\ d.ring.next \in Nat /\ d.ring.ops \subseteq Nat
           /\ d.ring.sq \in Seq(Entries) /\ d.ring.cq \in Seq(Completions)
           /\ d.ring.local \in Seq(Completions)
           /\ Members(d.ring.sq) \subseteq Entries /\ Live \subseteq Entries /\ Posted(d) \subseteq Nat
<1>1. /\ d.ring \in Rings /\ d.ring.next \in Nat /\ d.ring.ops \subseteq Nat
      /\ d.ring.sq \in Seq(Entries) /\ d.ring.cq \in Seq(Completions)
      /\ d.ring.local \in Seq(Completions)
  BY DEF UringTypes, Dispatchers, Rings
<1>2. /\ Members(d.ring.sq) \subseteq Entries /\ Members(d.ring.cq) \subseteq Completions
      /\ Members(d.ring.local) \subseteq Completions
  BY <1>1, MemberFacts
<1>3. Live \subseteq Entries
  BY <1>2 DEF Live, UringTypes
<1>4. Posted(d) \subseteq Nat
  BY <1>2 DEF Posted, Completions
<1>5. QED
  BY <1>1, <1>2, <1>3, <1>4

\* A dispatch touches nothing of what is live, even if some buffers are leaked before it.
LEMMA RingKeeps ==
    ASSUME UringInv, NEW x, x.ring = d.ring, x.completed = d.completed,
           x.deferred \subseteq d.deferred, Dispatched(x, d'), UNCHANGED inflight
    PROVE  Live' = Live /\ RingInv' /\ d'.ring.next = d.ring.next /\ d' \in Dispatchers
<1>1. Live' = Live /\ Posted(x) = Posted(d) /\ d'.ring.next = d.ring.next /\ d' \in Dispatchers
  BY DEF Live, Dispatched, Posted
<1>2. \A e \in Live' : /\ e.id # None /\ e.id < d'.ring.next
                       /\ e.id \in d'.ring.ops /\ e.id \notin Posted(d')
  BY <1>1 DEF UringInv, RingInv, Dispatched
<1>3. \A e, g \in Live' : e.id = g.id => e = g
  BY <1>1 DEF UringInv, RingInv
<1>4. inflight' \cap Members(d'.ring.sq) = {} /\ 0 < d'.ring.next
  BY DEF UringInv, RingInv, Dispatched
<1>5. \A i \in Posted(d') : i < d'.ring.next
  BY <1>1 DEF UringInv, RingInv, Dispatched
<1>6. \A c \in d'.completed : c.id < d'.ring.next /\ c.id \notin d'.ring.ops
  BY <1>1 DEF UringInv, RingInv, Dispatched
<1>7. \A b \in d'.deferred : b.id < d'.ring.next
  BY <1>1 DEF UringInv, RingInv, Dispatched
<1>8. QED
  BY <1>1, <1>2, <1>3, <1>4, <1>5, <1>6, <1>7 DEF RingInv

LEMMA DispatchKeeps ==
    ASSUME UringInv, Dispatched(d, d'), UNCHANGED inflight
    PROVE  /\ Live' = Live /\ RingInv'
           /\ \A e \in Live : /\ e.id \in d.waiters => e.id \in d'.waiters
                              /\ e \in d.deferred => e \in d'.deferred
           /\ \A e \in Live \cup detached : e.f # None => Freed(d, d')[e.f] = buffer[e.f]
<1>1. Live' = Live /\ RingInv'
  BY RingKeeps
<1>2. \A e \in Live : e.id \in d.ring.ops \ Posted(d)
  BY DEF UringInv, RingInv
<1>4. \A e \in Live : /\ e.id \in d.waiters => e.id \in d'.waiters
                      /\ e \in d.deferred => e \in d'.deferred
  BY <1>2 DEF Dispatched
<1>5. ASSUME NEW e \in Live \cup detached, e.f # None PROVE Freed(d, d')[e.f] = buffer[e.f]
  <2>1. e.f \in Futures
    BY <1>5, LiveFacts DEF UringInv, UringTypes, Entries
  <2>2. (\E b \in d.deferred : b.f = e.f) => (\E b \in d'.deferred : b.f = e.f)
    <3>1. InFuture(e) \/ InDeferred(e) \/ Leaked(e)
      BY <1>5 DEF UringInv, BufferInv
    <3>2. CASE InFuture(e) \/ Leaked(e)
      BY <2>1, <3>2 DEF UringInv, FutureInv, InFuture, Leaked, Finished
    <3>3. CASE e \in Live /\ InDeferred(e)
      <4>1. e \in d'.deferred
        BY <1>4, <3>3 DEF InDeferred
      <4>2. QED
        BY <4>1
    <3>4. CASE e \in detached
      BY <1>5, <2>1, <3>4 DEF UringInv, BufferInv, FutureInv, Leaked
    <3>5. QED
      BY <1>5, <3>1, <3>2, <3>3, <3>4
  <2>3. QED
    BY <2>1, <2>2 DEF Freed
<1>6. QED
  BY <1>1, <1>4, <1>5

\* The futures of F take their completion; the others are as they were, but for buffers freed.
Settles(F) ==
    /\ fut' \in [Futures -> FutureStates] /\ op' \in [Futures -> Nat]
    /\ buffer' \in [Futures -> Places] /\ cur' \in Futures \cup {None}
    /\ \A e \in Live \cup detached : e.f \notin F
    /\ \A g \in Futures \ F : fut'[g] = fut[g] /\ op'[g] = op[g] /\ buffer'[g] = Freed(d, d')[g]
    /\ \A g \in F : /\ fut[g] \in {"new", "queued"} /\ fut'[g] \in {"queued", "failed", "done"}
                    /\ op'[g] = None /\ buffer'[g] \in {"returned", "freed"}

\* Those that keep the ring keep it.
RingKept == \A e \in Live : e.f # None /\ InFuture(e) => KeepsRing(e.f)'

LEMMA SettleStep ==
    ASSUME UringInv, installed, Dispatched(d, d'), UNCHANGED <<inflight, detached, installed>>,
           NEW F \in SUBSET Futures, Settles(F), CurInv', RingKept
    PROVE  UringInv'
<1>1. UringTypes'
  BY DEF UringInv, UringTypes, Settles, Dispatched
<1>2. /\ Live' = Live /\ RingInv' /\ d'.deferred \subseteq d.deferred /\ d'.ring.next = d.ring.next
      /\ \A e \in Live : e \in d.deferred => e \in d'.deferred
      /\ \A e \in Live \cup detached : e.f # None => Freed(d, d')[e.f] = buffer[e.f]
  BY DispatchKeeps DEF Dispatched
<1>3. \A e \in Live \cup detached : e \in Entries /\ e.f \in Futures \cup {None}
  BY LiveFacts DEF UringInv, UringTypes, Entries
<1>4. \A e \in Live \cup detached : e.f # None =>
        /\ e.f \in Futures /\ fut'[e.f] = fut[e.f] /\ op'[e.f] = op[e.f] /\ buffer'[e.f] = buffer[e.f]
  BY <1>2, <1>3 DEF Settles
<1>5. InstalledInv'
  BY DEF InstalledInv
<1>6. OwnInv'
  <2> SUFFICES ASSUME NEW f \in Futures, fut'[f] = "queued", op'[f] # None PROVE Own(f)'
    BY DEF OwnInv
  <2>1. f \notin F /\ fut[f] = "queued" /\ op'[f] = op[f]
    BY DEF Settles
  <2>2. Own(f)
    BY <2>1 DEF UringInv, OwnInv
  <2>3. \A g \in Futures : fut'[g] = "queued" /\ op'[g] = op'[f] => g = f
    <3> SUFFICES ASSUME NEW g \in Futures, fut'[g] = "queued", op'[g] = op'[f] PROVE g = f
      OBVIOUS
    <3>1. g \notin F /\ fut[g] = "queued" /\ op[g] = op[f]
      BY <2>1 DEF Settles
    <3>2. QED
      BY <2>2, <3>1 DEF Own
  <2>4. QED
    BY <1>2, <2>1, <2>2, <2>3 DEF Own
<1>7. FutureInv'
  <2>1. \A b \in d'.deferred : b.f \in Futures /\ Finished(b.f) /\ b.f \notin F
    BY <1>2 DEF UringInv, FutureInv, Finished, Settles
  <2>2. \A b \in d'.deferred : b.f \in Futures /\ Finished(b.f)'
    BY <2>1 DEF Settles, Finished
  <2>3. ASSUME NEW f \in Futures PROVE fut'[f] # "queued" => op'[f] = None
    BY <2>3 DEF Settles, UringInv, FutureInv
  <2>4. ASSUME NEW f \in Futures, buffer'[f] = "leaked" PROVE Finished(f)' /\ \A b \in d'.deferred : b.f # f
    <3>1. f \notin F /\ fut'[f] = fut[f] /\ Freed(d, d')[f] = "leaked"
      BY <2>4 DEF Settles
    <3>2. buffer[f] = "leaked"
      BY <3>1 DEF Freed
    <3>3. QED
      BY <1>2, <3>1, <3>2 DEF UringInv, FutureInv, Finished
  <2>5. QED
    BY <2>2, <2>3, <2>4 DEF FutureInv
<1>8. BufferInv'
  <2>1. ASSUME NEW e \in Live, e.f # None PROVE InFuture(e)' \/ InDeferred(e)' \/ Leaked(e)'
    <3>1. InFuture(e) => InFuture(e)'
      BY <1>4, <2>1 DEF InFuture, RingKept
    <3>2. InDeferred(e) => InDeferred(e)'
      BY <1>2, <1>4, <2>1 DEF InDeferred
    <3>3. Leaked(e) => Leaked(e)'
      BY <1>4, <2>1 DEF Leaked
    <3>4. QED
      BY <2>1, <3>1, <3>2, <3>3 DEF UringInv, BufferInv
  <2>2. \A e \in detached : e.f # None => Leaked(e)'
    BY <1>4 DEF UringInv, BufferInv, Leaked
  <2>3. QED
    BY <1>2, <2>1, <2>2 DEF BufferInv
<1>9. QED
  BY <1>1, <1>2, <1>5, <1>6, <1>7, <1>8 DEF UringInv

-----------------------------------------------------------------------------
(* Steps that leave the ring and the futures alone *)

LEMMA QuietStep ==
    ASSUME UringInv, UNCHANGED <<d, inflight, detached, installed, op, buffer>>,
           fut' \in [Futures -> FutureStates], cur' \in Futures \cup {None},
           \A g \in Futures : fut'[g] = fut[g] \/ (fut[g] = "none" /\ fut'[g] = "new"),
           CurInv', RingKept, InstalledInv'
    PROVE  UringInv'
<1>1. UringTypes'
  BY DEF UringInv, UringTypes
<1>2. Live' = Live /\ Posted(d)' = Posted(d)
  BY DEF Live
<1>3. RingInv'
  BY <1>2 DEF UringInv, RingInv
<1>4. \A f \in Futures : (fut'[f] = "queued" <=> fut[f] = "queued") /\ (Finished(f)' <=> Finished(f))
  BY DEF Finished
<1>5. OwnInv'
  <2> SUFFICES ASSUME installed, NEW f \in Futures, fut'[f] = "queued", op[f] # None PROVE Own(f)'
    BY DEF OwnInv
  <2>1. Own(f)
    BY <1>4 DEF UringInv, OwnInv
  <2>2. QED
    BY <1>2, <1>4, <2>1 DEF Own
<1>6. FutureInv'
  BY <1>4 DEF UringInv, FutureInv
<1>7. BufferInv'
  <2>1. \A e \in Live \cup detached : e.f # None => e.f \in Futures
    BY LiveFacts DEF UringInv, UringTypes, Entries
  <2>2. ASSUME NEW e \in Live, e.f # None PROVE InFuture(e)' \/ InDeferred(e)' \/ Leaked(e)'
    BY <1>4, <2>1, <2>2 DEF UringInv, BufferInv, InFuture, InDeferred, Leaked, RingKept
  <2>3. QED
    BY <1>2, <2>2 DEF UringInv, BufferInv, Leaked
<1>8. QED
  BY <1>1, <1>3, <1>5, <1>6, <1>7 DEF UringInv

\* The executor stays where it is, in its run, or in the batch.
SameRegion ==
    \/ exec' = exec
    \/ {exec, exec'} \subseteq {"out", "poll", "check", "sleep"}
    \/ {exec, exec'} \subseteq {"queue", "batch", "batchwait", "release"}

\* There those that keep the ring keep it.
LEMMA KeepFacts ==
    ASSUME UringInv, UNCHANGED op,
           \A e \in Live : e.id \in d.waiters => e.id \in d'.waiters,
           SameRegion, cur' = cur \/ cur = None
    PROVE  RingKept
<1> SUFFICES ASSUME NEW e \in Live, e.f # None, InFuture(e) PROVE KeepsRing(e.f)'
  BY DEF RingKept
<1>1. KeepsRing(e.f) /\ op[e.f] = e.id
  BY DEF InFuture
<1>2. CASE e.f \in Batch
  BY <1>1, <1>2 DEF KeepsRing, SameRegion
<1>3. CASE e.f \notin Batch
  BY <1>1, <1>3 DEF KeepsRing, SameRegion
<1>4. QED
  BY <1>2, <1>3

LEMMA MoveStep ==
    ASSUME UringInv, UNCHANGED <<ring_vars, future_vars>>, SameRegion, cur' = cur \/ cur = None,
           cur' \in Futures \cup {None}, CurInv'
    PROVE  UringInv'
<1>1. UNCHANGED <<d, inflight, detached, installed, fut, op, buffer>>
  BY DEF ring_vars, future_vars
<1>2. RingKept
  BY <1>1, KeepFacts
<1>3. InstalledInv'
  BY <1>1 DEF UringInv, InstalledInv, SameRegion
<1>4. fut' \in [Futures -> FutureStates]
  BY <1>1 DEF UringInv, UringTypes
<1>5. QED
  BY <1>1, <1>2, <1>3, <1>4, QuietStep

\* The executor's steps of this kind, and the batch's
LEMMA QuietActions ==
    ASSUME UringInv,
           \/ \E f \in Futures : Spawn(f) \/ PollTask(f)
           \/ Again \/ Close \/ (\E fs \in SUBSET Tasks : OtherWork(fs))
           \/ BatchStart \/ (\E f \in Batch : BatchPoll(f)) \/ BatchReturn
    PROVE  UringInv'
<1> USE DEF SameRegion
<1>1. cur \in Futures \cup {None}
  BY DEF UringInv, UringTypes
<1>2. ASSUME NEW f \in Futures, Spawn(f) PROVE UringInv'
  <2>1. /\ UNCHANGED <<d, inflight, detached, installed, op, buffer, exec, cur>>
        /\ fut[f] = "none" /\ fut' = [fut EXCEPT ![f] = "new"]
    BY <1>2 DEF Spawn, ring_vars
  <2>2. /\ fut' \in [Futures -> FutureStates]
        /\ \A g \in Futures : fut'[g] = fut[g] \/ (fut[g] = "none" /\ fut'[g] = "new")
    BY <2>1 DEF UringInv, UringTypes, FutureStates
  <2>3. CurInv' /\ InstalledInv'
    BY <1>1, <2>1, <2>2 DEF UringInv, CurInv, InstalledInv
  <2>4. RingKept
    BY <2>1, KeepFacts
  <2>5. QED
    BY <1>1, <2>1, <2>2, <2>3, <2>4, QuietStep
<1>3. ASSUME NEW f \in Futures, PollTask(f) PROVE UringInv'
  <2>1. CurInv' /\ UNCHANGED <<ring_vars, future_vars, exec>> /\ cur = None /\ cur' = f
    BY <1>3 DEF PollTask, CurInv, future_vars
  <2>2. QED
    BY <2>1, MoveStep
<1>4. CASE Again
  <2>1. UNCHANGED <<ring_vars, future_vars, cur>> /\ exec = "check" /\ exec' = "poll"
    BY <1>4 DEF Again
  <2>2. CurInv'
    BY <2>1 DEF UringInv, CurInv, future_vars
  <2>3. QED
    BY <1>1, <2>1, <2>2, MoveStep
<1>5. CASE Close
  <2>1. UNCHANGED <<ring_vars, future_vars, cur, exec>>
    BY <1>5 DEF Close
  <2>2. CurInv'
    BY <2>1 DEF UringInv, CurInv, future_vars
  <2>3. QED
    BY <1>1, <2>1, <2>2, MoveStep
<1>6. ASSUME NEW fs \in SUBSET Tasks, OtherWork(fs) PROVE UringInv'
  <2>1. UNCHANGED <<ring_vars, future_vars, cur>> /\ exec = "sleep" /\ exec' = "poll"
    BY <1>6 DEF OtherWork
  <2>2. CurInv'
    BY <2>1 DEF UringInv, CurInv, future_vars
  <2>3. QED
    BY <1>1, <2>1, <2>2, MoveStep
<1>7. CASE BatchStart
  <2>1. UNCHANGED <<ring_vars, future_vars, cur>> /\ exec = "queue" /\ exec' = "batch"
    BY <1>7 DEF BatchStart
  <2>2. CurInv'
    BY <2>1 DEF UringInv, CurInv, future_vars
  <2>3. QED
    BY <1>1, <2>1, <2>2, MoveStep
<1>8. ASSUME NEW f \in Batch, BatchPoll(f) PROVE UringInv'
  <2>1. /\ UNCHANGED <<ring_vars, future_vars, exec>> /\ exec = "batch" /\ cur = None /\ cur' = f
        /\ fut[f] = "queued"
    BY <1>8 DEF BatchPoll
  <2>2. f \in Futures
    BY <1>8 DEF Futures
  <2>3. CurInv'
    BY <1>8, <2>1 DEF CurInv, future_vars
  <2>4. QED
    BY <2>1, <2>2, <2>3, MoveStep
<1>9. CASE BatchReturn
  <2>1. UNCHANGED <<ring_vars, future_vars, cur>> /\ exec \in {"batch", "batchwait"} /\ exec' = "release"
    BY <1>9 DEF BatchReturn, PassDone
  <2>2. CurInv'
    BY <1>9, <2>1 DEF UringInv, CurInv, future_vars, BatchReturn, PassDone
  <2>3. QED
    BY <1>1, <2>1, <2>2, MoveStep
<1>10. QED
  BY <1>2, <1>3, <1>4, <1>5, <1>6, <1>7, <1>8, <1>9

-----------------------------------------------------------------------------
(* Dispatching steps, of the executor, the drain and the batch *)

LEMMA DispatchAllFacts ==
    ASSUME UringTypes
    PROVE  Dispatched(d, DispatchAll(d)) /\ Dispatched(d, Dispatch(d, Budget))
<1>1. d \in Dispatchers /\ Budget \in Nat
  BY UringAssumption DEF UringTypes
<1>2. Len(DrainCompletions(d.ring)) \in Nat
  <2>1. DrainCompletions(d.ring) \in Seq(Completions)
    BY LiveFacts, SMT DEF DrainCompletions
  <2>2. QED
    BY <2>1, SMT
<1>3. QED
  BY <1>1, <1>2, DispatchFacts DEF DispatchAll

\* Only the difference in deferred buffers decides which are freed.
LEMMA FreedFacts ==
    ASSUME UringTypes, NEW x, NEW y, NEW z, y.deferred = z.deferred
    PROVE  Freed(x, y) = Freed(x, z) /\ Freed(x, y) \in [Futures -> Places]
<1>1. Freed(x, y) = Freed(x, z)
  BY DEF Freed
<1>2. Freed(x, y) \in [Futures -> Places]
  BY DEF Freed, UringTypes, Places
<1>3. QED
  BY <1>1, <1>2

\* A dispatch that settles nothing
LEMMA DispatchStep ==
    ASSUME UringInv, installed, Dispatched(d, d'), buffer' = Freed(d, d'),
           UNCHANGED <<inflight, detached, installed, fut, op>>,
           cur' \in Futures \cup {None}, CurInv', RingKept
    PROVE  UringInv'
<1>1. Settles({})
  BY FreedFacts DEF UringInv, UringTypes, Settles
<1>2. QED
  BY <1>1, SettleStep

\* The executor dispatches, or has no ring to.
LEMMA DispatchOrNot ==
    ASSUME UringInv, NEW y, y = d \/ (installed /\ Dispatched(d, y)), d' = y, buffer' = Freed(d, y),
           UNCHANGED <<inflight, detached, installed, fut, op, cur>>, SameRegion, CurInv'
    PROVE  UringInv'
<1>1. cur \in Futures \cup {None} /\ fut \in [Futures -> FutureStates]
  BY DEF UringInv, UringTypes
<1>2. CASE y = d
  <2>1. buffer' = buffer
    BY <1>2 DEF Freed, UringInv, UringTypes
  <2>2. RingKept
    BY <1>2, KeepFacts
  <2>3. InstalledInv'
    BY <1>2 DEF UringInv, InstalledInv, SameRegion
  <2>4. QED
    BY <1>1, <1>2, <2>1, <2>2, <2>3, QuietStep
<1>3. CASE installed /\ Dispatched(d, y)
  <2>1. Dispatched(d, d')
    BY <1>3
  <2>2. RingKept
    BY <2>1, DispatchKeeps, KeepFacts
  <2>3. QED
    BY <1>1, <1>3, <2>1, <2>2, DispatchStep
<1>4. QED
  BY <1>2, <1>3

\* shutdown_current, when nobody waits for the ring
LEMMA ShutdownStep ==
    ASSUME UringInv, ShutdownCurrent, exec \in {"check", "poll", "out"}, cur = None,
           UNCHANGED <<inflight, detached, installed, fut, op, cur>>
    PROVE  UringInv'
<1>1. CurInv' /\ cur \in Futures \cup {None}
  BY DEF CurInv
<1>2. CASE ~installed \/ d.waiters # {}
  <2>1. UNCHANGED <<d, buffer>> /\ exec' = "out" /\ SameRegion
    BY <1>2 DEF ShutdownCurrent, SameRegion
  <2>2. RingKept /\ InstalledInv'
    BY <2>1, KeepFacts DEF UringInv, InstalledInv
  <2>3. fut \in [Futures -> FutureStates]
    BY DEF UringInv, UringTypes
  <2>4. QED
    BY <1>1, <2>1, <2>2, <2>3, QuietStep
<1>3. CASE installed /\ d.waiters = {}
  <2>1. d' = DispatchAll(d) /\ buffer' = Freed(d, d') /\ exec' = "drain"
    BY <1>3 DEF ShutdownCurrent
  <2>2. Dispatched(d, d')
    BY <2>1, DispatchAllFacts DEF UringInv
  <2>3. RingKept
    BY <1>3 DEF RingKept, InFuture, KeepsRing
  <2>4. QED
    BY <1>1, <1>3, <2>1, <2>2, <2>3, DispatchStep
<1>4. QED
  BY <1>2, <1>3 DEF UringInv, UringTypes

LEMMA DispatchActions ==
    ASSUME UringInv,
           \/ \E f \in Futures : PollPending(f)
           \/ DriveReadyWork \/ WakeUp \/ Return \/ CloseRing
           \/ DrainWake \/ BatchWake \/ BatchRelease
    PROVE  UringInv'
<1> USE DEF SameRegion
<1>1. cur \in Futures \cup {None} /\ Dispatched(d, DispatchAll(d)) /\ Dispatched(d, Dispatch(d, Budget))
  BY DispatchAllFacts DEF UringInv, UringTypes
<1>2. ASSUME NEW f \in Futures, PollPending(f) PROVE UringInv'
  <2> DEFINE y == DispatchAll(d)
  <2>1. /\ cur = f /\ cur' = None /\ installed /\ d' = RegisterWaker(y, op[f]) /\ buffer' = Freed(d, y)
        /\ UNCHANGED <<inflight, detached, installed, fut, op, exec>>
    BY <1>2 DEF PollPending
  <2>2. op[f] \in Nat
    BY DEF UringInv, UringTypes
  <2>3. Dispatched(d, d') /\ d'.deferred = y.deferred
    BY <1>1, <2>1, <2>2, TakeFacts
  <2>4. buffer' = Freed(d, d')
    BY <2>1, <2>3, FreedFacts DEF UringInv
  <2>5. op[f] \in d'.waiters
    BY <1>1, <2>1 DEF RegisterWaker, Dispatched, Dispatchers
  <2>6. RingKept
    <3> SUFFICES ASSUME NEW e \in Live, e.f # None, InFuture(e) PROVE KeepsRing(e.f)'
      BY DEF RingKept
    <3>1. op[e.f] \in d.waiters => op[e.f] \in d'.waiters
      BY <2>1, <2>3, DispatchKeeps DEF InFuture
    <3>2. QED
      BY <2>1, <2>5, <3>1 DEF InFuture, KeepsRing
  <2>7. CurInv'
    BY <2>1 DEF CurInv
  <2>8. QED
    BY <2>1, <2>3, <2>4, <2>6, <2>7, DispatchStep
<1>3. CASE DriveReadyWork
  <2> DEFINE y == IF installed THEN Dispatch(d, Budget) ELSE d
  <2>1. /\ d' = y /\ buffer' = Freed(d, y) /\ exec = "poll" /\ exec' = "check" /\ cur = None
        /\ UNCHANGED <<inflight, detached, installed, fut, op, cur>>
    BY <1>3 DEF DriveReadyWork
  <2>2. CurInv'
    BY <2>1 DEF CurInv
  <2>3. QED
    BY <1>1, <2>1, <2>2, DispatchOrNot
<1>4. CASE WakeUp
  <2> DEFINE y == IF RingReadable THEN Dispatch(d, Budget) ELSE d
  <2>1. /\ d' = y /\ buffer' = Freed(d, y) /\ exec = "sleep" /\ exec' = "poll"
        /\ UNCHANGED <<inflight, detached, installed, fut, op, cur>>
    BY <1>4 DEF WakeUp
  <2>2. CurInv' /\ (RingReadable => installed)
    BY <2>1 DEF CurInv, UringInv, RingReadable, ShouldWait
  <2>3. QED
    BY <1>1, <2>1, <2>2, DispatchOrNot
<1>5. CASE Return
  <2>1. /\ ShutdownCurrent /\ exec \in {"check", "poll", "out"}
        /\ UNCHANGED <<inflight, detached, installed, fut, op, cur>>
    BY <1>5 DEF Return
  <2>2. cur = None
    BY <1>5 DEF Return, UringInv, CurInv
  <2>3. QED
    BY <2>1, <2>2, ShutdownStep
<1>6. CASE CloseRing
  <2>1. /\ ShutdownCurrent /\ exec = "out"
        /\ UNCHANGED <<inflight, detached, installed, fut, op, cur>>
    BY <1>6 DEF CloseRing
  <2>2. cur = None
    BY <2>1 DEF UringInv, CurInv
  <2>3. QED
    BY <2>1, <2>2, ShutdownStep
<1>7. CASE DrainWake
  <2>1. /\ d' = DispatchAll(d) /\ buffer' = Freed(d, d') /\ exec = "drainwait" /\ exec' = "drain"
        /\ UNCHANGED <<inflight, detached, installed, fut, op, cur>>
    BY <1>7 DEF DrainWake
  <2>2. installed /\ CurInv' /\ RingKept
    BY <2>1 DEF UringInv, InstalledInv, CurInv, RingKept, InFuture, KeepsRing
  <2>3. QED
    BY <1>1, <2>1, <2>2, DispatchStep
<1>8. CASE BatchWake
  <2>1. /\ d' = DispatchAll(d) /\ buffer' = Freed(d, d') /\ exec = "batchwait" /\ exec' = "batch"
        /\ UNCHANGED <<inflight, detached, installed, fut, op, cur>>
    BY <1>8 DEF BatchWake
  <2>2. installed /\ CurInv'
    BY <2>1 DEF UringInv, InstalledInv, CurInv
  <2>3. QED
    BY <1>1, <2>1, <2>2, DispatchOrNot
<1>9. CASE BatchRelease
  <2>1. /\ d' = DispatchAll(d) /\ buffer' = Freed(d, d') /\ exec = "release" /\ exec' = "drain"
        /\ \A f \in Batch : fut[f] # "queued"
        /\ UNCHANGED <<inflight, detached, installed, fut, op, cur>>
    BY <1>9 DEF BatchRelease
  <2>2. installed /\ CurInv' /\ RingKept
    BY <2>1 DEF UringInv, InstalledInv, CurInv, RingKept, InFuture, KeepsRing
  <2>3. QED
    BY <1>1, <2>1, <2>2, DispatchStep
<1>10. QED
  BY <1>2, <1>3, <1>4, <1>5, <1>6, <1>7, <1>8, <1>9

-----------------------------------------------------------------------------
(* Futures that take their completions *)

\* The operation of a completion is not live any more, and the future has no other.
LEMMA CompletedFacts ==
    ASSUME UringInv, NEW f \in Futures, cur = f, NEW c \in Completed(f)
    PROVE  /\ installed /\ op[f] # None /\ c.id = op[f] /\ c.id \in Nat
           /\ c.id \notin DispatchAll(d).ring.ops
           /\ fut[f] = "queued" /\ \A e \in Live \cup detached : e.f # f
<1> DEFINE y == DispatchAll(d)
<1>1. installed /\ op[f] # None /\ c.id = op[f] /\ c \in y.completed
  BY DEF Completed, Completion
<1>2. Dispatched(d, y)
  BY DispatchAllFacts DEF UringInv
<1> HIDE DEF y
<1>3. c \in d.completed \/ (c.id \in Posted(d) /\ c.id \notin y.ring.ops)
  BY <1>1, <1>2 DEF Dispatched
<1>4. c.id \notin y.ring.ops
  BY <1>2, <1>3 DEF Dispatched, UringInv, RingInv
<1>5. fut[f] = "queued" /\ op[f] \in Nat
  BY <1>1 DEF UringInv, FutureInv, UringTypes
<1>6. ASSUME NEW e \in Live, e.f = f PROVE FALSE
  <2>1. e.id \in d.ring.ops /\ e.id \notin Posted(d)
    BY DEF UringInv, RingInv
  <2>2. e.id # c.id
    BY <1>3, <2>1 DEF UringInv, RingInv
  <2>3. f # None
    BY UringAssumption DEF Futures, Tasks
  <2>4. InDeferred(e) \/ Leaked(e)
    BY <1>1, <1>6, <2>2, <2>3 DEF UringInv, BufferInv, InFuture
  <2>5. Finished(f)
    BY <1>6, <2>4 DEF UringInv, FutureInv, InDeferred, Leaked
  <2>6. QED
    BY <1>5, <2>5 DEF Finished
<1>7. ASSUME NEW e \in detached, e.f = f PROVE FALSE
  <2>1. f # None
    BY UringAssumption DEF Futures, Tasks
  <2>2. Finished(f)
    BY <1>7, <2>1 DEF UringInv, BufferInv, FutureInv, Leaked
  <2>3. QED
    BY <1>5, <2>2 DEF Finished
<1>8. QED
  BY <1>1, <1>4, <1>5, <1>6, <1>7 DEF y

\* The future takes its completion and gets its buffer back, or frees it.
Takes(f) ==
    /\ op' = [op EXCEPT ![f] = None]
    /\ \E p \in {"returned", "freed"} : buffer' = [Freed(d, d') EXCEPT ![f] = p]
    /\ \/ \E s \in {"failed", "done"} : fut' = [fut EXCEPT ![f] = s] /\ cur' = None
       \/ UNCHANGED <<fut, cur>>
    /\ UNCHANGED <<inflight, detached, installed, exec>>

LEMMA CompletionStep ==
    ASSUME UringInv, NEW f \in Futures, cur = f, NEW c \in Completed(f), Dispatched(d, d'), Takes(f)
    PROVE  UringInv'
<1>1. /\ installed /\ fut[f] = "queued" /\ \A e \in Live \cup detached : e.f # f
  BY CompletedFacts
<1>2. UNCHANGED <<inflight, detached, installed, exec>> /\ op' = [op EXCEPT ![f] = None]
  BY DEF Takes
<1>3. /\ op' \in [Futures -> Nat] /\ op'[f] = None
      /\ \A g \in Futures \ {f} : op'[g] = op[g]
  BY <1>2 DEF UringInv, UringTypes, None
<1>4. /\ buffer' \in [Futures -> Places] /\ buffer'[f] \in {"returned", "freed"}
      /\ \A g \in Futures \ {f} : buffer'[g] = Freed(d, d')[g]
  <2>1. Freed(d, d') \in [Futures -> Places]
    BY FreedFacts DEF UringInv
  <2>2. PICK p \in {"returned", "freed"} : buffer' = [Freed(d, d') EXCEPT ![f] = p]
    BY DEF Takes
  <2>3. QED
    BY <2>1, <2>2 DEF Places
<1>5. /\ fut' \in [Futures -> FutureStates] /\ fut'[f] \in {"queued", "failed", "done"}
      /\ \A g \in Futures \ {f} : fut'[g] = fut[g]
      /\ cur' = None \/ (cur' = f /\ fut'[f] = "queued")
  BY <1>1 DEF Takes, UringInv, UringTypes, FutureStates
<1>6. Settles({f})
  BY <1>1, <1>3, <1>4, <1>5 DEF Settles
<1>7. CurInv'
  BY <1>2, <1>5 DEF UringInv, CurInv
<1>8. RingKept
  <2> SUFFICES ASSUME NEW e \in Live, e.f # None, InFuture(e) PROVE KeepsRing(e.f)'
    BY DEF RingKept
  <2>1. e.f # f /\ e.f \in Futures
    BY <1>1, LiveFacts DEF UringInv, Entries
  <2>2. op'[e.f] = op[e.f] /\ op[e.f] = e.id
    BY <1>3, <2>1 DEF InFuture
  <2>3. e.id \in d.waiters => e.id \in d'.waiters
    BY <1>2, DispatchKeeps
  <2>4. QED
    BY <1>2, <2>1, <2>2, <2>3 DEF InFuture, KeepsRing
<1>9. QED
  BY <1>1, <1>2, <1>6, <1>7, <1>8, SettleStep

\* The refused result is taken too; nothing is deferred for an operation that is over.
LEMMA RefusedFacts ==
    ASSUME UringInv, NEW f \in Futures, cur = f, NEW c \in Completed(f), NEW z,
           z = DeferBufferDrop(TakeCompletion(DispatchAll(d), c.id), c.id, f)
    PROVE  Dispatched(d, z) /\ z.deferred = DispatchAll(d).deferred /\ \A b \in z.deferred : b.f # f
<1> DEFINE y == DispatchAll(d)
           t == TakeCompletion(y, c.id)
<1>1. c.id \in Nat /\ c.id \notin y.ring.ops /\ fut[f] = "queued"
  BY CompletedFacts
<1>2. Dispatched(d, y)
  BY DispatchAllFacts DEF UringInv
<1>3. Dispatched(d, t) /\ t.deferred = y.deferred /\ t.ring = y.ring
  BY <1>1, <1>2, TakeFacts
<1> HIDE DEF y, t
<1>4. z = DeferBufferDrop(t, c.id, f) /\ t \in Dispatchers
  BY <1>3 DEF y, t, Dispatched
<1>5. GivenUp(t, z, c.id, f)
  BY <1>1, <1>4, DeferFacts
<1>6. /\ z \in Dispatchers /\ z.ring = t.ring /\ z.deferred = t.deferred
      /\ z.completed \subseteq t.completed /\ z.waiters = t.waiters \ {c.id}
  BY <1>1, <1>3, <1>5 DEF GivenUp
<1>7. Posted(z) = Posted(t)
  BY <1>6 DEF Posted
<1>8. \A i \in d.ring.ops \ Posted(d) : i # c.id
  BY <1>1, <1>2 DEF Dispatched
<1>9. Dispatched(d, z)
  BY <1>3, <1>6, <1>7, <1>8 DEF Dispatched
<1>10. \A b \in d.deferred : b.f # f
  BY <1>1 DEF UringInv, FutureInv, Finished
<1>11. QED
  BY <1>2, <1>3, <1>6, <1>9, <1>10 DEF y, Dispatched

LEMMA ReturnedStep ==
    ASSUME UringInv, NEW f \in Futures, cur = f, NEW c \in Completed(f), Returned(f, c),
           op' = [op EXCEPT ![f] = None],
           (\E s \in {"failed", "done"} : fut' = [fut EXCEPT ![f] = s] /\ cur' = None) \/ UNCHANGED <<fut, cur>>
    PROVE  UringInv'
<1> DEFINE y == DispatchAll(d)
<1>1. /\ d' = TakeCompletion(y, c.id) /\ buffer' = [Freed(d, y) EXCEPT ![f] = "returned"]
      /\ UNCHANGED <<inflight, detached, installed, exec>>
  BY DEF Returned, PollReady
<1>2. Dispatched(d, y) /\ c.id \in Nat
  BY CompletedFacts, DispatchAllFacts DEF UringInv
<1> HIDE DEF y
<1>3. Dispatched(d, d') /\ d'.deferred = y.deferred
  BY <1>1, <1>2, TakeFacts
<1>4. Freed(d, y) = Freed(d, d')
  BY <1>3, FreedFacts DEF UringInv
<1>5. Takes(f)
  BY <1>1, <1>4 DEF Takes
<1>6. QED
  BY <1>3, <1>5, CompletionStep

LEMMA CompletionActions ==
    ASSUME UringInv, NEW f \in Futures,
           PollError(f) \/ ReadExact(f) \/ WriteAll(f) \/ BatchCompleted(f)
    PROVE  UringInv'
<1>1. CASE ReadExact(f)
  <2>1. PICK c \in Completed(f) :
          /\ Returned(f, c)
          /\ IF c.n > 0 /\ c.n < left[f] THEN op' = [op EXCEPT ![f] = None] /\ UNCHANGED <<fut, cur>>
             ELSE Resolve(f, IF c.n = 0 THEN "failed" ELSE "done")
    BY <1>1 DEF ReadExact
  <2>2. QED
    BY <1>1, <2>1, ReturnedStep DEF ReadExact, Resolve
<1>2. CASE WriteAll(f)
  <2>1. PICK c \in Completed(f) :
          /\ Returned(f, c)
          /\ IF c.n > 0 /\ c.n < left[f] THEN op' = [op EXCEPT ![f] = None] /\ UNCHANGED <<fut, cur>>
             ELSE Resolve(f, IF c.n = 0 THEN "failed" ELSE "done")
    BY <1>2 DEF WriteAll
  <2>2. QED
    BY <1>2, <2>1, ReturnedStep DEF WriteAll, Resolve
<1>3. CASE BatchCompleted(f)
  <2>1. PICK c \in Completed(f) : Returned(f, c) /\ Resolve(f, "done")
    BY <1>3 DEF BatchCompleted
  <2>2. QED
    BY <1>3, <2>1, ReturnedStep DEF BatchCompleted, Resolve
<1>4. CASE PollError(f)
  <2> DEFINE y == DispatchAll(d)
             z(c) == DeferBufferDrop(TakeCompletion(y, c.id), c.id, f)
  <2>1. PICK c \in Completed(f) :
          /\ PollReady(f) /\ d' = z(c) /\ Resolve(f, "failed")
          /\ buffer' = [Freed(d, y) EXCEPT ![f] = IF \E b \in z(c).deferred : b.f = f THEN "deferred" ELSE "freed"]
    BY <1>4 DEF PollError
  <2>2. cur = f
    BY <1>4 DEF PollError
  <2>3. Dispatched(d, z(c)) /\ z(c).deferred = y.deferred /\ \A b \in z(c).deferred : b.f # f
    BY <2>2, RefusedFacts
  <2> HIDE DEF y, z
  <2>4. Dispatched(d, d') /\ Freed(d, y) = Freed(d, d') /\ buffer' = [Freed(d, y) EXCEPT ![f] = "freed"]
    BY <2>1, <2>3, FreedFacts DEF UringInv
  <2>5. Takes(f)
    BY <2>1, <2>4 DEF Takes, PollReady, Resolve
  <2>6. QED
    BY <2>2, <2>4, <2>5, CompletionStep
<1>5. QED
  BY <1>1, <1>2, <1>3, <1>4

-----------------------------------------------------------------------------
(* Steps that only submit, complete or end operations *)

\* Operations go on or end, and the futures are as they were.
LEMMA EndStep ==
    ASSUME UringInv, d' \in Dispatchers, RingInv', Live' \subseteq Live, detached' \subseteq detached,
           inflight' \subseteq Live, d'.deferred = d.deferred, d.ring.next <= d'.ring.next,
           UNCHANGED <<installed, fut, op, buffer, cur>>, installed \/ UNCHANGED <<d, inflight>>,
           exec' \in {"drain", "drainwait", "queue", "batch", "batchwait", "release"} => installed,
           CurInv', RingKept
    PROVE  UringInv'
<1>1. UringTypes'
  BY LiveFacts DEF UringInv, UringTypes
<1>2. InstalledInv'
  BY DEF UringInv, InstalledInv
<1>3. OwnInv'
  <2> SUFFICES ASSUME installed, NEW f \in Futures, fut[f] = "queued", op[f] # None PROVE Own(f)'
    BY DEF OwnInv
  <2>1. Own(f) /\ op[f] \in Nat /\ d.ring.next \in Nat /\ d'.ring.next \in Nat
    BY LiveFacts DEF UringInv, OwnInv, UringTypes, Dispatchers, Rings
  <2>2. op[f] < d'.ring.next
    BY <2>1, SMT DEF Own
  <2>3. QED
    BY <2>1, <2>2 DEF Own
<1>4. FutureInv'
  BY DEF UringInv, FutureInv, Finished
<1>5. BufferInv'
  <2>1. ASSUME NEW e \in Live', e.f # None PROVE InFuture(e)' \/ InDeferred(e)' \/ Leaked(e)'
    <3>1. e \in Live /\ (InFuture(e) \/ InDeferred(e) \/ Leaked(e))
      BY <2>1 DEF UringInv, BufferInv
    <3>2. QED
      BY <2>1, <3>1 DEF InFuture, InDeferred, Leaked, RingKept
  <2>2. QED
    BY <2>1 DEF UringInv, BufferInv, Leaked
<1>6. QED
  BY <1>1, <1>2, <1>3, <1>4, <1>5 DEF UringInv

\* enter: what was queued is in the kernel.
LEMMA SubmitFacts ==
    ASSUME UringInv, Submit
    PROVE  /\ d' \in Dispatchers /\ d'.ring.next = d.ring.next /\ d'.deferred = d.deferred
           /\ d'.waiters = d.waiters /\ Live' = Live /\ inflight' \subseteq Live /\ RingInv'
<1> DEFINE r == SubmitPending(d.ring)
<1>1. d \in Dispatchers /\ d.ring \in Rings
  BY LiveFacts DEF UringInv, UringTypes
<1>2. /\ r \in Rings /\ r.sq = <<>> /\ r.cq = d.ring.cq /\ r.local = d.ring.local
      /\ r.ops = d.ring.ops /\ r.next = d.ring.next
  <2>1. <<>> \in Seq(Entries) /\ r = [d.ring EXCEPT !.sq = <<>>]
    BY SMT DEF SubmitPending
  <2> HIDE DEF r
  <2>2. r \in Rings
    BY <1>1, <2>1 DEF Rings
  <2>3. QED
    BY <1>1, <2>1, <2>2 DEF Rings
<1>3. d' = [d EXCEPT !.ring = r] /\ inflight' = inflight \cup Members(d.ring.sq)
  BY DEF Submit
<1> HIDE DEF r
<1>4. /\ d' \in Dispatchers /\ d'.ring = r /\ d'.deferred = d.deferred /\ d'.waiters = d.waiters
      /\ d'.completed = d.completed
  BY <1>1, <1>2, <1>3 DEF Dispatchers
<1>5. Members(d'.ring.sq) = {} /\ Posted(d') = Posted(d)
  BY <1>2, <1>4, SMT DEF Posted, Members
<1>6. Live' = Live /\ inflight' \subseteq Live
  BY <1>3, <1>5 DEF Live
<1>7. RingInv'
  BY <1>2, <1>4, <1>5, <1>6 DEF UringInv, RingInv
<1>8. QED
  BY <1>2, <1>4, <1>6, <1>7

LEMMA SubmitActions ==
    ASSUME UringInv, Sleep \/ DrainSubmit \/ BatchWait
    PROVE  UringInv'
<1>1. /\ Submit \/ UNCHANGED <<d, inflight>>
      /\ UNCHANGED <<detached, installed, fut, op, buffer, cur>>
  BY DEF Sleep, DrainSubmit, BatchWait, WaitCompletions, future_vars
<1>2. d \in Dispatchers /\ RingInv /\ d.ring.next \in Nat
  BY LiveFacts DEF UringInv, UringTypes
<1>3. /\ d' \in Dispatchers /\ d'.ring.next = d.ring.next /\ d'.deferred = d.deferred
      /\ d'.waiters = d.waiters /\ Live' = Live /\ inflight' \subseteq Live /\ RingInv'
  <2>1. CASE Submit
    BY <2>1, SubmitFacts
  <2>2. CASE UNCHANGED <<d, inflight>>
    BY <1>2, <2>2 DEF Live, RingInv, Posted
  <2>3. QED
    BY <1>1, <2>1, <2>2
<1>4. /\ installed \/ UNCHANGED <<d, inflight>>
      /\ exec' \in {"drain", "drainwait", "queue", "batch", "batchwait", "release"} => installed
  BY <1>1 DEF Sleep, DrainSubmit, BatchWait, PassDone, UringInv, InstalledInv
<1>5. CurInv'
  BY <1>1 DEF Sleep, DrainSubmit, BatchWait, PassDone, UringInv, CurInv
<1>6. RingKept
  <2>1. CASE Sleep \/ BatchWait
    BY <1>1, <1>3, <2>1, KeepFacts DEF SameRegion, Sleep, BatchWait, PassDone
  <2>2. CASE DrainSubmit
    BY <2>2 DEF DrainSubmit, RingKept, InFuture, KeepsRing
  <2>3. QED
    BY <2>1, <2>2
<1>7. d.ring.next <= d'.ring.next
  BY <1>2, <1>3, SMT
<1>8. QED
  BY <1>1, <1>3, <1>4, <1>5, <1>6, <1>7, EndStep

LEMMA KernelActions ==
    ASSUME UringInv, Kernel \/ \E e \in detached : KernelEnds(e)
    PROVE  UringInv'
<1>1. d \in Dispatchers /\ d.ring.next \in Nat
  BY LiveFacts DEF UringInv, UringTypes
<1>2. ASSUME NEW e \in detached, KernelEnds(e) PROVE UringInv'
  <2>1. detached' \subseteq detached /\ UNCHANGED <<d, inflight, installed, fut, op, buffer, exec, cur>>
    BY <1>2 DEF KernelEnds, future_vars
  <2>2. Live' = Live /\ RingInv' /\ inflight' \subseteq Live
    BY <2>1 DEF Live, UringInv, RingInv, Posted
  <2>3. RingKept
    BY <2>1, KeepFacts DEF SameRegion
  <2>4. CurInv' /\ (exec' \in {"drain", "drainwait", "queue", "batch", "batchwait", "release"} => installed)
    BY <2>1 DEF UringInv, CurInv, InstalledInv
  <2>5. d.ring.next <= d'.ring.next
    BY <1>1, <2>1, SMT
  <2>6. QED
    BY <1>1, <2>1, <2>2, <2>3, <2>4, <2>5, EndStep
<1>3. ASSUME NEW e \in inflight, NEW n \in -1 .. ReadLength, KernelCompletes(e, n) PROVE UringInv'
  <2> DEFINE c == [id |-> e.id, n |-> n]
             r == [d.ring EXCEPT !.cq = Append(@, c)]
  <2>1. /\ inflight' = inflight \ {e} /\ d' = [d EXCEPT !.ring.cq = Append(@, c)]
        /\ UNCHANGED <<detached, installed, fut, op, buffer, exec, cur>>
    BY <1>3 DEF KernelCompletes, future_vars
  <2>2. /\ d.ring \in Rings /\ d.ring.cq \in Seq(Completions) /\ e \in Entries /\ e \in Live
        /\ d.ring.local \in Seq(Completions)
    BY LiveFacts DEF UringInv, UringTypes, Live
  <2>3. c \in Completions
    BY <2>2, UringAssumption, SMT DEF Entries, Completions
  <2>4. c.id = e.id
    OBVIOUS
  <2> HIDE DEF c
  <2>5. Append(d.ring.cq, c) \in Seq(Completions) /\ Members(Append(d.ring.cq, c)) = Members(d.ring.cq) \cup {c}
    BY <2>2, <2>3, MemberFacts, SMT
  <2>6. /\ r \in Rings /\ r.sq = d.ring.sq /\ r.cq = Append(d.ring.cq, c) /\ r.local = d.ring.local
        /\ r.ops = d.ring.ops /\ r.next = d.ring.next
    BY <2>2, <2>5 DEF Rings
  <2>7. d' = [d EXCEPT !.ring = r]
    BY <1>1, <2>1 DEF Dispatchers
  <2> HIDE DEF r
  <2>8. /\ d' \in Dispatchers /\ d'.ring = r /\ d'.deferred = d.deferred /\ d'.waiters = d.waiters
        /\ d'.completed = d.completed
    BY <1>1, <2>6, <2>7 DEF Dispatchers
  <2>9. Posted(d') = Posted(d) \cup {e.id}
    BY <2>4, <2>5, <2>6, <2>8, ZenonT(30) DEF Posted
  <2>10. Live' = Live \ {e}
    BY <2>1, <2>2, <2>6, <2>8 DEF Live, UringInv, RingInv
  <2>11. RingInv'
    <3>1. \A g \in Live' : g.id \notin Posted(d')
      BY <2>2, <2>9, <2>10 DEF UringInv, RingInv
    <3>2. \A i \in Posted(d') : i < d'.ring.next
      BY <2>2, <2>6, <2>8, <2>9 DEF UringInv, RingInv
    <3>3. inflight' \cap Members(d'.ring.sq) = {}
      BY <2>1, <2>6, <2>8 DEF UringInv, RingInv
    <3>4. QED
      BY <2>6, <2>8, <2>10, <3>1, <3>2, <3>3 DEF UringInv, RingInv
  <2>12. RingKept
    BY <2>1, <2>8, KeepFacts DEF SameRegion
  <2>13. CurInv' /\ (exec' \in {"drain", "drainwait", "queue", "batch", "batchwait", "release"} => installed)
    BY <2>1 DEF UringInv, CurInv, InstalledInv
  <2>14. installed /\ d.ring.next <= d'.ring.next /\ inflight' \subseteq Live
    <3>1. installed
      BY <1>3 DEF UringInv, InstalledInv
    <3>2. d.ring.next <= d'.ring.next
      BY <1>1, <2>6, <2>8, SMT
    <3>3. QED
      BY <2>1, <3>1, <3>2 DEF Live
  <2>15. QED
    BY <2>1, <2>8, <2>10, <2>11, <2>12, <2>13, <2>14, EndStep
<1>4. QED
  BY <1>2, <1>3 DEF Kernel

-----------------------------------------------------------------------------
(* Steps that queue an operation *)

\* A new entry has a new id; without a slot the id is spent.
LEMMA GrowFacts ==
    ASSUME UringInv, NEW f \in Futures \cup {None}, d' \in Dispatchers, UNCHANGED inflight,
           d'.ring = d.ring \/ Grows(d.ring, d'.ring, f), d'.completed \subseteq d.completed,
           \A b \in d'.deferred : b.id < d.ring.next
    PROVE  /\ RingInv' /\ d.ring.next <= d'.ring.next /\ Live \subseteq Live'
           /\ \A e \in Live' \ Live : e = [id |-> d.ring.next, f |-> f]
           /\ d'.ring = d.ring \/ ~HasSqe(d.ring) => Live' = Live
           /\ d'.ring # d.ring /\ HasSqe(d.ring) => [id |-> d.ring.next, f |-> f] \in Live'
<1> DEFINE e == [id |-> d.ring.next, f |-> f]
<1>1. /\ d.ring.sq \in Seq(Entries) /\ d.ring.next \in Nat /\ d.ring.ops \subseteq Nat
      /\ Posted(d) \subseteq Nat /\ Live \subseteq Entries
  BY LiveFacts DEF UringInv
<1>2. e \in Entries /\ e.id = d.ring.next
  BY <1>1 DEF Entries
<1>3. Members(Append(d.ring.sq, e)) = Members(d.ring.sq) \cup {e}
  BY <1>1, <1>2, MemberFacts, SMT
<1>4. \A g \in Live : g.id \in Nat /\ g.id < d.ring.next
  BY <1>1 DEF UringInv, RingInv, Entries
<1>5. CASE d'.ring = d.ring
  <2>1. Live' = Live /\ Posted(d') = Posted(d)
    BY <1>5 DEF Live, Posted
  <2>2. RingInv'
    BY <1>5, <2>1 DEF UringInv, RingInv
  <2>3. QED
    BY <1>1, <1>5, <2>1, <2>2, SMT
<1>6. CASE Grows(d.ring, d'.ring, f)
  <2>1. /\ Posted(d') = Posted(d) /\ d'.ring.next = d.ring.next + 1
        /\ Members(d'.ring.sq) = IF HasSqe(d.ring) THEN Members(d.ring.sq) \cup {e} ELSE Members(d.ring.sq)
        /\ d'.ring.ops = IF HasSqe(d.ring) THEN d.ring.ops \cup {e.id} ELSE d.ring.ops
    BY <1>3, <1>6 DEF Grows, Posted
  <2>2. Live' = IF HasSqe(d.ring) THEN Live \cup {e} ELSE Live
    BY <2>1 DEF Live
  <2> HIDE DEF e
  <2>3. RingInv'
    <3>1. d.ring.next # None /\ d.ring.next \notin Posted(d) /\ e \notin Live /\ 0 < d.ring.next
      BY <1>1, <1>2, <1>4, SMT DEF UringInv, RingInv, None
    <3>2. \A g \in Live' : /\ g.id # None /\ g.id < d'.ring.next
                           /\ g.id \in d'.ring.ops /\ g.id \notin Posted(d')
      <4>1. \A g \in Live : /\ g.id # None /\ g.id < d'.ring.next
                            /\ g.id \in d'.ring.ops /\ g.id \notin Posted(d')
        BY <1>1, <1>4, <2>1, SMT DEF UringInv, RingInv
      <4>2. HasSqe(d.ring) => /\ e.id # None /\ e.id < d'.ring.next
                              /\ e.id \in d'.ring.ops /\ e.id \notin Posted(d')
        BY <1>1, <1>2, <2>1, <3>1, SMT
      <4>3. QED
        BY <2>2, <4>1, <4>2
    <3>3. \A g, h \in Live' : g.id = h.id => g = h
      <4>1. \A g \in Live : g.id # e.id
        BY <1>1, <1>2, <1>4, SMT
      <4>2. \A g, h \in Live : g.id = h.id => g = h
        BY DEF UringInv, RingInv
      <4>3. QED
        BY <2>2, <4>1, <4>2
    <3>4. inflight' \cap Members(d'.ring.sq) = {}
      BY <2>1, <3>1, SMT DEF UringInv, RingInv, Live
    <3>5. \A i \in Posted(d') : i < d'.ring.next
      BY <1>1, <2>1, SMT DEF UringInv, RingInv
    <3>6. \A c \in d'.completed : c.id < d'.ring.next /\ c.id \notin d'.ring.ops
      <4>1. \A c \in d.completed : c.id \in Nat /\ c.id < d.ring.next /\ c.id \notin d.ring.ops
        BY DEF UringInv, RingInv, UringTypes, Dispatchers, Completions
      <4>2. QED
        BY <1>1, <1>2, <2>1, <4>1, SMT
    <3>7. \A b \in d'.deferred : b.id < d'.ring.next
      <4>1. \A b \in d'.deferred : b.id \in Nat
        BY DEF Dispatchers, Entries
      <4>2. QED
        BY <1>1, <2>1, <4>1, SMT
    <3>8. 0 < d'.ring.next
      BY <1>1, <2>1, SMT
    <3>9. QED
      BY <3>2, <3>3, <3>4, <3>5, <3>6, <3>7, <3>8 DEF RingInv
  <2>4. d.ring.next <= d'.ring.next /\ d'.ring # d.ring
    BY <1>1, <2>1, SMT
  <2>5. QED
    BY <2>2, <2>3, <2>4 DEF e
<1>7. QED
  BY <1>5, <1>6

\* A future without an operation has no live entry.
LEMMA NoneLive ==
    ASSUME UringInv, NEW f \in Futures, ~Finished(f)
    PROVE  /\ \A e \in Live : e.f = f => installed /\ InFuture(e) /\ op[f] # None
           /\ \A e \in detached : e.f # f
           /\ \A b \in d.deferred : b.f # f
<1>1. f # None
  BY UringAssumption DEF Futures, Tasks
<1>2. ASSUME NEW e \in Live, e.f = f PROVE installed /\ InFuture(e) /\ op[f] # None
  <2>1. InFuture(e)
    BY <1>1, <1>2 DEF UringInv, BufferInv, FutureInv, InDeferred, Leaked
  <2>2. op[f] # None
    BY <1>2, <2>1 DEF InFuture, UringInv, RingInv
  <2>3. installed
    BY <1>2, NewFacts DEF UringInv, InstalledInv, Live
  <2>4. QED
    BY <2>1, <2>2, <2>3
<1>3. \A e \in detached : e.f # f
  BY <1>1 DEF UringInv, BufferInv, FutureInv, Leaked
<1>4. \A b \in d.deferred : b.f # f
  BY DEF UringInv, FutureInv
<1>5. QED
  BY <1>2, <1>3, <1>4

\* ensure_queued and the futures' queue functions
LEMMA QueueStep ==
    ASSUME UringInv, NEW f \in Futures, ~Finished(f), op[f] = None, Queued(f, QueueOperation(d.ring, f)),
           \/ f \in Tasks /\ cur = f
           \/ f \in Batch /\ exec = "queue"
    PROVE  UringInv'
<1> DEFINE n == d.ring.next
           e == [id |-> n, f |-> f]
<1>1. /\ installed /\ HasSqe(d.ring) /\ d' = [d EXCEPT !.ring = QueueOperation(d.ring, f)]
      /\ op' = [op EXCEPT ![f] = n] /\ fut' = [fut EXCEPT ![f] = "queued"]
      /\ buffer' = [buffer EXCEPT ![f] = "future"]
      /\ UNCHANGED <<inflight, detached, installed, exec, cur>>
  BY DEF Queued
<1>2. d \in Dispatchers /\ d.ring \in Rings /\ n \in Nat /\ Live \subseteq Entries
  BY LiveFacts DEF UringInv, UringTypes
<1>3. Grows(d.ring, QueueOperation(d.ring, f), f) /\ QueueOperation(d.ring, f) \in Rings
  BY <1>2, QueueFacts DEF Grows
<1>4. /\ d' \in Dispatchers /\ Grows(d.ring, d'.ring, f) /\ d'.completed = d.completed
      /\ d'.deferred = d.deferred /\ d'.waiters = d.waiters
  BY <1>1, <1>2, <1>3 DEF Dispatchers
<1>5. d'.ring.next = n + 1
  BY <1>4 DEF Grows
<1>6. RingInv' /\ Live' = Live \cup {e}
  <2>1. \A b \in d'.deferred : b.id < d.ring.next
    BY <1>4 DEF UringInv, RingInv
  <2>2. d'.ring # d.ring
    BY <1>2, <1>5, SMT
  <2>3. /\ RingInv' /\ Live \subseteq Live' /\ \A g \in Live' \ Live : g = e
        /\ d'.ring # d.ring /\ HasSqe(d.ring) => e \in Live'
    BY <1>1, <1>4, <2>1, GrowFacts
  <2>4. QED
    BY <1>1, <2>2, <2>3
<1>7. /\ fut' \in [Futures -> FutureStates] /\ op' \in [Futures -> Nat] /\ buffer' \in [Futures -> Places]
      /\ fut'[f] = "queued" /\ op'[f] = n /\ buffer'[f] = "future"
      /\ \A g \in Futures \ {f} : fut'[g] = fut[g] /\ op'[g] = op[g] /\ buffer'[g] = buffer[g]
  BY <1>1, <1>2 DEF UringInv, UringTypes, FutureStates, Places
<1>8. /\ \A g \in Live : g.f # f
      /\ \A g \in detached : g.f # f
      /\ \A b \in d.deferred : b.f # f
  BY NoneLive
<1>9. \A g \in Live : g.id < n /\ g.id \in Nat
  BY <1>2 DEF UringInv, RingInv, Entries
<1>10. UringTypes'
  BY <1>1, <1>4, <1>7 DEF UringInv, UringTypes
<1>11. InstalledInv' /\ CurInv'
  BY <1>1, <1>7 DEF UringInv, InstalledInv, CurInv
<1>12. OwnInv'
  <2> SUFFICES ASSUME NEW g \in Futures, fut'[g] = "queued", op'[g] # None PROVE Own(g)'
    BY DEF OwnInv
  <2>1. \A h \in Futures \ {f} : fut[h] = "queued" => op[h] \in Nat /\ op[h] < n
    BY <1>1 DEF UringInv, OwnInv, Own, UringTypes, RingInv, None
  <2>2. CASE g = f
    <3>1. op'[g] < d'.ring.next
      BY <1>2, <1>5, <1>7, <2>2, SMT
    <3>2. \A h \in Live' : h.id = op'[g] => h.f = g
      BY <1>2, <1>6, <1>7, <1>9, <2>2, SMT
    <3>3. \A b \in d'.deferred : b.id # op'[g]
      <4>1. \A b \in d.deferred : b.id \in Nat /\ b.id < n
        BY <1>2 DEF UringInv, RingInv, Dispatchers, Entries
      <4>2. QED
        BY <1>2, <1>4, <1>7, <2>2, <4>1, SMT
    <3>4. \A h \in Futures : fut'[h] = "queued" /\ op'[h] = op'[g] => h = g
      BY <1>2, <1>7, <2>1, <2>2, SMT
    <3>5. QED
      BY <3>1, <3>2, <3>3, <3>4 DEF Own
  <2>3. CASE g # f
    <3>1. fut[g] = "queued" /\ op'[g] = op[g] /\ op[g] # None /\ op[g] \in Nat /\ op[g] < n
      BY <1>7, <2>1, <2>3
    <3>2. Own(g)
      BY <1>1, <3>1 DEF UringInv, OwnInv
    <3>3. op'[g] < d'.ring.next
      BY <1>2, <1>5, <3>1, SMT
    <3>4. \A h \in Live' : h.id = op'[g] => h.f = g
      BY <1>2, <1>6, <3>1, <3>2, SMT DEF Own
    <3>5. \A h \in Futures : fut'[h] = "queued" /\ op'[h] = op'[g] => h = g
      BY <1>2, <1>7, <3>1, <3>2, SMTT(30) DEF Own
    <3>6. QED
      BY <1>4, <3>1, <3>2, <3>3, <3>4, <3>5 DEF Own
  <2>4. QED
    BY <2>2, <2>3
<1>13. FutureInv'
  BY <1>4, <1>7, <1>8, SMT DEF UringInv, FutureInv, Finished
<1>14. BufferInv'
  <2>1. e.f = f /\ e.id = n
    OBVIOUS
  <2> HIDE DEF e
  <2>2. KeepsRing(f)'
    <3>1. (f \in Tasks <=> f \notin Batch) /\ f # None
      BY UringAssumption DEF Futures, Tasks
    <3>2. f \in Batch => exec = "queue"
      BY <3>1
    <3>3. f \notin Batch => cur = f /\ exec = "poll"
      BY <3>1 DEF UringInv, CurInv
    <3>4. QED
      BY <1>1, <3>2, <3>3 DEF KeepsRing
  <2>3. ASSUME NEW g, g = e PROVE InFuture(g)'
    BY <1>7, <2>1, <2>2, <2>3 DEF InFuture
  <2>4. ASSUME NEW g \in Live, g.f # None PROVE InFuture(g)' \/ InDeferred(g)' \/ Leaked(g)'
    <3>1. g.f \in Futures \ {f}
      BY <1>2, <1>8, <2>4 DEF Entries
    <3>2. InFuture(g) \/ InDeferred(g) \/ Leaked(g)
      BY <2>4 DEF UringInv, BufferInv
    <3>3. QED
      BY <1>1, <1>4, <1>7, <3>1, <3>2 DEF InFuture, InDeferred, Leaked, KeepsRing
  <2>5. ASSUME NEW g \in detached, g.f # None PROVE Leaked(g)'
    <3>1. g.f \in Futures \ {f} /\ Leaked(g)
      BY <1>8, <2>5 DEF UringInv, UringTypes, Entries, BufferInv
    <3>2. QED
      BY <1>7, <3>1 DEF Leaked
  <2>6. QED
    BY <1>1, <1>6, <2>3, <2>4, <2>5 DEF BufferInv
<1>15. QED
  BY <1>6, <1>10, <1>11, <1>12, <1>13, <1>14 DEF UringInv

LEMMA QueueActions ==
    ASSUME UringInv,
           \/ \E f \in Futures : EnsureQueuedRead(f) \/ EnsureQueuedWrite(f)
           \/ \E f \in Batch : BatchQueue(f)
           \/ BatchRefused
    PROVE  UringInv'
<1>1. ASSUME NEW f \in Futures, EnsureQueuedRead(f) \/ EnsureQueuedWrite(f) PROVE UringInv'
  <2>1. f \in Tasks /\ cur = f /\ op[f] = None /\ Queued(f, QueueOperation(d.ring, f))
    BY <1>1 DEF EnsureQueuedRead, EnsureQueuedWrite, QueueReadOperation, QueueWriteOperation, Tasks
  <2>2. ~Finished(f)
    BY <2>1, UringAssumption DEF UringInv, CurInv, Finished, Tasks
  <2>3. QED
    BY <2>1, <2>2, QueueStep
<1>2. ASSUME NEW f \in Batch, BatchQueue(f) PROVE UringInv'
  <2>1. f \in Futures /\ exec = "queue" /\ fut[f] = "none" /\ Queued(f, QueueOperation(d.ring, f))
    BY <1>2 DEF BatchQueue, Futures
  <2>2. ~Finished(f) /\ op[f] = None
    BY <2>1 DEF Finished, UringInv, FutureInv
  <2>3. QED
    BY <2>1, <2>2, QueueStep
<1>3. CASE BatchRefused
  <2>1. /\ exec = "queue" /\ ~HasSqe(d.ring) /\ d' = [d EXCEPT !.ring = QueueOperation(d.ring, None)]
        /\ exec' = "release" /\ UNCHANGED <<inflight, detached, installed, fut, op, buffer, cur>>
    BY <1>3 DEF BatchRefused, future_vars
  <2>2. d \in Dispatchers /\ d.ring \in Rings
    BY LiveFacts DEF UringInv, UringTypes
  <2>3. Grows(d.ring, QueueOperation(d.ring, None), None) /\ QueueOperation(d.ring, None) \in Rings
    BY <2>2, QueueFacts DEF Grows
  <2>4. /\ d' \in Dispatchers /\ Grows(d.ring, d'.ring, None) /\ d'.completed = d.completed
        /\ d'.deferred = d.deferred /\ d'.waiters = d.waiters
    BY <2>1, <2>2, <2>3 DEF Dispatchers
  <2>5. RingInv' /\ d.ring.next <= d'.ring.next /\ Live' = Live /\ inflight' \subseteq Live
    <3>1. \A b \in d'.deferred : b.id < d.ring.next
      BY <2>4 DEF UringInv, RingInv
    <3>2. QED
      BY <2>1, <2>4, <3>1, GrowFacts DEF Live
  <2>6. installed /\ CurInv'
    BY <2>1 DEF UringInv, InstalledInv, CurInv
  <2>7. RingKept
    BY <2>1, <2>4, KeepFacts DEF SameRegion
  <2>8. QED
    BY <2>1, <2>4, <2>5, <2>6, <2>7, EndStep
<1>4. QED
  BY <1>1, <1>2, <1>3

-----------------------------------------------------------------------------
(* Steps that give a future up *)

\* The future f ends: a buffer the kernel may still use is deferred under its operation.
Retires(f) ==
    /\ d' \in Dispatchers
    /\ d'.ring = d.ring \/ Grows(d.ring, d'.ring, None)
    /\ d'.completed \subseteq d.completed /\ d.waiters \ {op[f]} \subseteq d'.waiters
    /\ d.deferred \subseteq d'.deferred
    /\ \A b \in d'.deferred \ d.deferred : installed /\ op[f] # None /\ b = [id |-> op[f], f |-> f]
    /\ \A e \in Live : e.f = f => e \in d'.deferred /\ buffer'[f] = "deferred"
    /\ installed \/ d' = d
    /\ fut' \in [Futures -> FutureStates] /\ fut'[f] \in {"failed", "dropped"}
    /\ op' = [op EXCEPT ![f] = None]
    /\ buffer' \in [Futures -> Places] /\ buffer'[f] \in {"deferred", "freed"}
    /\ \A g \in Futures \ {f} : fut'[g] = fut[g] /\ buffer'[g] = buffer[g]
    /\ cur' # f /\ cur' = IF cur = f THEN None ELSE cur
    /\ UNCHANGED <<inflight, detached, installed, exec>>

LEMMA RetireStep ==
    ASSUME UringInv, NEW f \in Futures, fut[f] \in {"new", "queued"}, Retires(f)
    PROVE  UringInv'
<1>1. /\ Live \subseteq Entries /\ d.ring.next \in Nat /\ d'.ring.next \in Nat /\ op[f] \in Nat /\ ~Finished(f)
  BY LiveFacts DEF UringInv, UringTypes, Retires, Dispatchers, Rings, Finished
<1>2. /\ op' \in [Futures -> Nat] /\ op'[f] = None
      /\ \A g \in Futures \ {f} : op'[g] = op[g]
  BY DEF Retires, UringInv, UringTypes, None
<1>3. op[f] # None => fut[f] = "queued"
  BY DEF UringInv, FutureInv
<1>4. installed /\ op[f] # None => Own(f)
  BY <1>3 DEF UringInv, OwnInv
<1>5. RingInv' /\ d.ring.next <= d'.ring.next /\ \A e \in Live' \ Live : e.f = None /\ e.id = d.ring.next
  <2>1. \A b \in d'.deferred : b.id < d.ring.next
    BY <1>4, SMT DEF Retires, Own, UringInv, RingInv
  <2>2. /\ d' \in Dispatchers /\ UNCHANGED inflight /\ d'.completed \subseteq d.completed
        /\ d'.ring = d.ring \/ Grows(d.ring, d'.ring, None)
    BY DEF Retires
  <2>3. /\ RingInv' /\ d.ring.next <= d'.ring.next
        /\ \A e \in Live' \ Live : e = [id |-> d.ring.next, f |-> None]
    BY <2>1, <2>2, GrowFacts
  <2>4. QED
    BY <2>3, SMTT(30)
<1>6. UringTypes'
  BY <1>2 DEF UringInv, UringTypes, Retires
<1>7. InstalledInv' /\ CurInv'
  <2>1. InstalledInv'
    BY DEF UringInv, InstalledInv, Retires
  <2>2. CurInv'
    BY DEF UringInv, UringTypes, CurInv, Retires
  <2>3. QED
    BY <2>1, <2>2
<1>8. OwnInv'
  <2> SUFFICES ASSUME installed, NEW g \in Futures, fut'[g] = "queued", op'[g] # None PROVE Own(g)'
    BY DEF OwnInv, Retires
  <2>1. g # f /\ fut[g] = "queued" /\ op'[g] = op[g] /\ op[g] \in Nat
    BY <1>2 DEF Retires, UringInv, UringTypes
  <2>2. Own(g)
    BY <2>1 DEF UringInv, OwnInv
  <2>3. op'[g] < d'.ring.next
    BY <1>1, <1>5, <2>1, <2>2, SMT DEF Own
  <2>4. \A e \in Live' : e.id = op'[g] => e.f = g
    BY <1>1, <1>5, <2>1, <2>2, SMT DEF Own
  <2>5. \A b \in d'.deferred : b.id # op'[g]
    <3>1. installed /\ op[f] # None => op[g] # op[f]
      BY <1>4, <2>1 DEF Own
    <3>2. QED
      BY <2>1, <2>2, <3>1, SMT DEF Own, Retires
  <2>6. \A h \in Futures : fut'[h] = "queued" /\ op'[h] = op'[g] => h = g
    BY <1>2, <2>1, <2>2 DEF Own, Retires
  <2>7. QED
    BY <2>3, <2>4, <2>5, <2>6 DEF Own
<1>9. FutureInv'
  <2>1. ASSUME NEW g \in Futures PROVE fut'[g] # "queued" => op'[g] = None
    BY <1>2 DEF Retires, UringInv, FutureInv
  <2>2. ASSUME NEW g \in Futures, buffer'[g] = "leaked" PROVE Finished(g)' /\ \A b \in d'.deferred : b.f # g
    BY <2>2, SMT DEF Retires, UringInv, FutureInv, Finished
  <2>3. ASSUME NEW b \in d'.deferred PROVE b.f \in Futures /\ Finished(b.f)'
    BY <2>3, SMT DEF Retires, UringInv, FutureInv, Finished
  <2>4. QED
    BY <2>1, <2>2, <2>3 DEF FutureInv
<1>10. BufferInv'
  <2>1. ASSUME NEW e \in Live', e.f # None PROVE InFuture(e)' \/ InDeferred(e)' \/ Leaked(e)'
    <3>1. e \in Live /\ e.f \in Futures
      BY <1>1, <1>5, <2>1 DEF Entries
    <3>2. CASE e.f = f
      BY <3>1, <3>2 DEF Retires, InDeferred
    <3>3. CASE e.f # f
      <4>1. fut'[e.f] = fut[e.f] /\ op'[e.f] = op[e.f] /\ buffer'[e.f] = buffer[e.f]
        BY <1>2, <3>1, <3>3 DEF Retires
      <4>2. CASE InFuture(e)
        <5>1. installed
          BY <3>1, NewFacts DEF UringInv, InstalledInv, Live
        <5>2. op[e.f] = e.id /\ e.id # op[f]
          BY <1>4, <3>1, <3>3, <4>2, <5>1 DEF InFuture, Own, UringInv, RingInv
        <5>3. KeepsRing(e.f)'
          BY <3>3, <4>1, <4>2, <5>2 DEF InFuture, KeepsRing, Retires
        <5>4. QED
          BY <4>1, <4>2, <5>3 DEF InFuture
      <4>3. CASE InDeferred(e) \/ Leaked(e)
        BY <4>1, <4>3 DEF InDeferred, Leaked, Retires
      <4>4. QED
        BY <2>1, <3>1, <4>2, <4>3 DEF UringInv, BufferInv
    <3>4. QED
      BY <3>2, <3>3
  <2>2. ASSUME NEW e \in detached, e.f # None PROVE Leaked(e)'
    <3>1. e.f \in Futures \ {f} /\ Leaked(e)
      BY <1>1, <2>2, NoneLive DEF UringInv, UringTypes, BufferInv, Entries
    <3>2. QED
      BY <3>1 DEF Retires, Leaked
  <2>3. QED
    BY <2>1, <2>2 DEF BufferInv, Retires
<1>11. QED
  BY <1>5, <1>6, <1>7, <1>8, <1>9, <1>10 DEF UringInv

\* Drop of a future on this thread
LEMMA DropStep ==
    ASSUME UringInv, NEW f \in Futures, fut[f] \in {"new", "queued"}, cur # f, DropFuture(f),
           UNCHANGED <<inflight, detached, installed, exec, cur>>
    PROVE  UringInv'
<1> DEFINE i == op[f]
           b0 == [id |-> i, f |-> f]
<1>1. d \in Dispatchers /\ Live \subseteq Entries /\ i \in Nat /\ ~Finished(f)
  BY LiveFacts DEF UringInv, UringTypes, Finished
<1>2. /\ \A e \in Live : e.f = f => installed /\ e.id = i /\ i # None /\ i \in d.ring.ops
      /\ \A b \in d.deferred : b.f # f
  BY <1>1, NoneLive, SMT DEF InFuture, UringInv, RingInv
<1>3. /\ d' \in Dispatchers
      /\ d'.ring = d.ring \/ Grows(d.ring, d'.ring, None)
      /\ d'.completed \subseteq d.completed /\ d.waiters \ {i} \subseteq d'.waiters
      /\ d.deferred \subseteq d'.deferred
      /\ \A b \in d'.deferred \ d.deferred : installed /\ i # None /\ b = b0
      /\ installed /\ i # None /\ i \in d.ring.ops => b0 \in d'.deferred
      /\ installed \/ d' = d
  <2>1. CASE i # None /\ installed
    <3>1. GivenUp(d, d', i, f)
      BY <1>1, <2>1, DeferFacts DEF DropFuture
    <3>2. \A b \in d.deferred : b.id # i
      BY <2>1 DEF UringInv, FutureInv, OwnInv, Own
    <3>3. d'.deferred = IF i \in d.ring.ops THEN d.deferred \cup {b0} ELSE d.deferred
      BY <3>1, <3>2 DEF GivenUp
    <3> HIDE DEF i, b0
    <3>4. QED
      BY <2>1, <3>1, <3>3 DEF GivenUp
  <2>2. CASE ~(i # None /\ installed)
    <3>1. d' = d
      BY <2>2 DEF DropFuture
    <3> HIDE DEF i, b0
    <3>2. QED
      BY <1>1, <2>2, <3>1
  <2>3. QED
    BY <2>1, <2>2
<1>4. Freed(d, d') = buffer
  BY <1>3 DEF Freed, UringInv, UringTypes
<1>5. /\ buffer' \in [Futures -> Places] /\ \A g \in Futures \ {f} : buffer'[g] = buffer[g]
      /\ buffer'[f] = IF \E b \in d'.deferred : b.f = f THEN "deferred" ELSE "freed"
  <2> DEFINE p == IF \E b \in d'.deferred : b.f = f THEN "deferred" ELSE "freed"
  <2>1. buffer' = [buffer EXCEPT ![f] = p] /\ p \in Places
    BY <1>4 DEF DropFuture, Places
  <2> HIDE DEF p
  <2>2. /\ buffer' \in [Futures -> Places] /\ \A g \in Futures \ {f} : buffer'[g] = buffer[g]
        /\ buffer'[f] = p
    BY <2>1 DEF UringInv, UringTypes
  <2>3. QED
    BY <2>2 DEF p
<1>6. ASSUME NEW e \in Live, e.f = f PROVE e \in d'.deferred /\ buffer'[f] = "deferred"
  <2>1. e = b0
    BY <1>1, <1>2, <1>6 DEF Entries
  <2>2. b0 \in d'.deferred
    BY <1>2, <1>3, <1>6
  <2>3. QED
    BY <1>5, <1>6, <2>1, <2>2
<1>7. /\ fut' \in [Futures -> FutureStates] /\ fut'[f] = "dropped"
      /\ \A g \in Futures \ {f} : fut'[g] = fut[g]
  BY DEF DropFuture, UringInv, UringTypes, FutureStates
<1>8. op' = [op EXCEPT ![f] = None]
  BY DEF DropFuture
<1>9. Retires(f)
  BY <1>3, <1>5, <1>6, <1>7, <1>8 DEF Retires
<1>10. QED
  BY <1>9, RetireStep

LEMMA RetireActions ==
    ASSUME UringInv, NEW f \in Futures,
           PollRefused(f) \/ Cancel(f) \/ CloseTask(f) \/ (f \in Batch /\ BatchDrop(f))
    PROVE  UringInv'
<1>1. f # None
  BY UringAssumption DEF Futures, Tasks
<1>2. CASE Cancel(f) \/ CloseTask(f) \/ (f \in Batch /\ BatchDrop(f))
  <2>1. /\ fut[f] \in {"new", "queued"} /\ DropFuture(f)
        /\ UNCHANGED <<inflight, detached, installed, exec, cur>>
    BY <1>2 DEF Cancel, CloseTask, BatchDrop
  <2>2. cur # f
    BY <1>1, <1>2 DEF Cancel, CloseTask, BatchDrop, UringInv, CurInv
  <2>3. QED
    BY <2>1, <2>2, DropStep
<1>3. CASE PollRefused(f)
  <2>1. /\ cur = f /\ cur' = None
        /\ ~installed \/ (op[f] = None /\ ~HasSqe(d.ring))
        /\ d' = IF installed THEN [d EXCEPT !.ring = QueueOperation(d.ring, f)] ELSE d
        /\ fut' = [fut EXCEPT ![f] = "failed"] /\ op' = [op EXCEPT ![f] = None]
        /\ buffer' = [buffer EXCEPT ![f] = "freed"]
        /\ UNCHANGED <<inflight, detached, installed, exec>>
    BY <1>3 DEF PollRefused, Resolve
  <2>2. fut[f] \in {"new", "queued"} /\ ~Finished(f)
    BY <1>1, <2>1 DEF UringInv, CurInv, Finished
  <2>3. \A e \in Live : e.f # f
    BY <2>1, <2>2, NoneLive
  <2>4. /\ d' \in Dispatchers
        /\ d'.ring = d.ring \/ Grows(d.ring, d'.ring, None)
        /\ d'.completed = d.completed /\ d'.waiters = d.waiters /\ d'.deferred = d.deferred
    <3>1. d \in Dispatchers /\ d.ring \in Rings
      BY LiveFacts DEF UringInv, UringTypes
    <3>2. CASE installed
      <4> DEFINE q == QueueOperation(d.ring, f)
      <4>1. Grows(d.ring, q, f)
        BY <3>1, QueueFacts
      <4>2. Grows(d.ring, q, None) /\ q \in Rings
        BY <2>1, <3>2, <4>1 DEF Grows
      <4> HIDE DEF q
      <4>3. d' = [d EXCEPT !.ring = q]
        BY <2>1, <3>2 DEF q
      <4>4. QED
        BY <3>1, <4>2, <4>3 DEF Dispatchers
    <3>3. CASE ~installed
      BY <2>1, <3>1, <3>3
    <3>4. QED
      BY <3>2, <3>3
  <2>5. /\ fut' \in [Futures -> FutureStates] /\ fut'[f] = "failed"
        /\ buffer' \in [Futures -> Places] /\ buffer'[f] = "freed"
        /\ \A g \in Futures \ {f} : fut'[g] = fut[g] /\ buffer'[g] = buffer[g]
    BY <2>1 DEF UringInv, UringTypes, FutureStates, Places
  <2>6. Retires(f)
    BY <1>1, <2>1, <2>3, <2>4, <2>5 DEF Retires
  <2>7. QED
    BY <2>2, <2>6, RetireStep
<1>4. QED
  BY <1>2, <1>3

-----------------------------------------------------------------------------
(* A ring is made, and a ring goes *)

\* A new ring's ids are nobody's, as no future is left with an id of an earlier ring.
LEMMA EnterActions ==
    ASSUME UringInv, NoFutureLeft, (\E available \in BOOLEAN : Enter(available)) \/ BatchEnter
    PROVE  UringInv'
<1>1. /\ exec = "out" /\ runs < MaxRuns /\ UNCHANGED <<inflight, detached, fut, op, buffer, cur>>
      /\ d' = IF installed THEN d ELSE NewDispatcher
      /\ installed' \in BOOLEAN /\ (installed => installed')
      /\ exec' = "poll" \/ (exec' = "queue" /\ installed' /\ ~installed)
  <2>1. ASSUME NEW available \in BOOLEAN, Enter(available)
        PROVE  installed' \in BOOLEAN /\ (installed => installed') /\ exec' = "poll"
    BY <2>1 DEF Enter, UringInv, UringTypes
  <2>2. ASSUME BatchEnter PROVE installed' = TRUE /\ ~installed /\ exec' = "queue"
    BY <2>2 DEF BatchEnter
  <2>3. /\ exec = "out" /\ runs < MaxRuns /\ UNCHANGED <<inflight, detached, fut, op, buffer, cur>>
        /\ d' = IF installed THEN d ELSE NewDispatcher
    BY DEF Enter, BatchEnter, future_vars
  <2>4. QED
    BY <2>1, <2>2, <2>3
<1>2. d' = d
  BY <1>1 DEF UringInv, InstalledInv
<1>3. cur = None
  BY <1>1 DEF UringInv, CurInv
<1>4. UringTypes' /\ CurInv'
  BY <1>1, <1>2, <1>3 DEF UringInv, UringTypes, CurInv
<1>5. Live' = Live /\ RingInv' /\ (~installed => Live = {})
  BY <1>1, <1>2, NewFacts DEF UringInv, RingInv, InstalledInv, Live, Posted
<1>6. InstalledInv'
  BY <1>1, <1>2 DEF UringInv, InstalledInv
<1>7. OwnInv'
  <2>1. CASE installed
    BY <1>1, <1>2, <1>5, <2>1 DEF UringInv, OwnInv, Own
  <2>2. CASE ~installed
    BY <1>1, <2>2 DEF NoFutureLeft, OwnInv
  <2>3. QED
    BY <2>1, <2>2
<1>8. FutureInv'
  BY <1>1, <1>2 DEF UringInv, FutureInv, Finished
<1>9. BufferInv'
  <2>1. ASSUME NEW e \in Live, e.f # None PROVE InFuture(e)' \/ InDeferred(e)' \/ Leaked(e)'
    <3>1. exec' = "poll" /\ (InFuture(e) \/ InDeferred(e) \/ Leaked(e))
      BY <1>1, <1>5, <2>1 DEF UringInv, BufferInv
    <3>2. QED
      BY <1>1, <1>2, <3>1 DEF InFuture, InDeferred, Leaked, KeepsRing
  <2>2. QED
    BY <1>1, <1>5, <2>1 DEF UringInv, BufferInv, Leaked
<1>10. QED
  BY <1>4, <1>5, <1>6, <1>7, <1>8, <1>9 DEF UringInv

\* The drain of shutdown_current ends, and the one of Drop.
LEMMA DrainEndsStep ==
    ASSUME UringInv, DrainEnds
    PROVE  UringInv'
<1> DEFINE leak == ~IsIdle(d) /\ d.ring.ops # {}
           y == IF leak THEN LeakDeferredBuffers(d) ELSE d
           z == DispatchAll(y)
           lk == [f \in Futures |-> IF leak /\ \E b \in d.deferred : b.f = f THEN "leaked" ELSE buffer[f]]
<1>1. /\ exec \in {"drain", "drainwait"} /\ FinishDrain /\ UNCHANGED <<fut, op, cur>>
  BY DEF DrainEnds
<1>2. installed /\ cur = None
  BY <1>1 DEF UringInv, InstalledInv, CurInv
<1>3. d \in Dispatchers /\ d.ring.ops \subseteq Nat /\ Live \subseteq Entries
  BY LiveFacts DEF UringInv, UringTypes
<1>4. /\ y \in Dispatchers /\ y.ring = d.ring /\ y.completed = d.completed
      /\ y.deferred = IF leak THEN {} ELSE d.deferred
  BY <1>3 DEF LeakDeferredBuffers, Dispatchers
<1>5. ~leak => Live = {} /\ y = d
  BY DEF UringInv, RingInv, IsIdle, RingIdle
<1>6. /\ lk \in [Futures -> Places]
      /\ \A f \in Futures : lk[f] = IF leak /\ \E b \in d.deferred : b.f = f THEN "leaked" ELSE buffer[f]
  BY DEF UringInv, UringTypes, Places
<1>7. ASSUME round = 1
      PROVE  /\ d' = z /\ exec' = "drain" /\ UNCHANGED <<inflight, detached, installed>>
             /\ buffer' = [f \in Futures |->
                    IF (\E b \in y.deferred : b.f = f) /\ ~\E b \in z.deferred : b.f = f THEN "freed" ELSE lk[f]]
  BY <1>1, <1>7 DEF FinishDrain
<1>8. ASSUME round # 1
      PROVE  /\ installed' = FALSE /\ d' = NewDispatcher /\ exec' = "out"
             /\ detached' = detached \cup inflight /\ inflight' = {}
             /\ buffer' = [f \in Futures |-> IF \E b \in y.deferred : b.f = f THEN "freed" ELSE lk[f]]
  BY <1>1, <1>8 DEF FinishDrain
<1> HIDE DEF leak, y, lk
<1>9. ASSUME NEW f \in Futures, lk[f] = "leaked" PROVE Finished(f) /\ (leak \/ \A b \in d.deferred : b.f # f)
  BY <1>6, <1>9, SMT DEF UringInv, FutureInv
<1>10. ASSUME NEW e \in Live \cup detached, e.f # None
       PROVE  e.f \in Futures /\ lk[e.f] = "leaked" /\ \A b \in y.deferred : b.f # e.f
  <2>1. e.f \in Futures
    BY <1>3, <1>10 DEF UringInv, UringTypes, Entries
  <2>2. CASE e \in Live
    <3>1. leak /\ (InDeferred(e) \/ Leaked(e))
      BY <1>1, <1>5, <1>10, <2>2 DEF UringInv, BufferInv, InFuture, KeepsRing
    <3>2. QED
      BY <1>4, <1>6, <2>1, <3>1 DEF InDeferred, Leaked
  <2>3. CASE e \in detached
    BY <1>4, <1>6, <1>10, <2>1, <2>3 DEF UringInv, BufferInv, FutureInv, Leaked
  <2>4. QED
    BY <2>2, <2>3, <2>1, <1>10
<1>11. CASE round = 1
  <2>1. Dispatched(y, z)
    <3>1. y.ring.local \in Seq(Completions) /\ y.ring.cq \in Seq(Completions)
      BY <1>4 DEF Dispatchers, Rings
    <3>2. DrainCompletions(y.ring) \in Seq(Completions)
      BY <3>1, SMT DEF DrainCompletions
    <3>3. Len(DrainCompletions(y.ring)) \in Nat
      BY <3>2, SMT
    <3>4. QED
      BY <1>4, <3>3, DispatchFacts DEF DispatchAll
  <2> HIDE DEF z
  <2>2. /\ d' = z /\ exec' = "drain" /\ UNCHANGED <<inflight, detached, installed>>
        /\ buffer' = [f \in Futures |->
               IF (\E b \in y.deferred : b.f = f) /\ ~\E b \in z.deferred : b.f = f THEN "freed" ELSE lk[f]]
    BY <1>7, <1>11
  <2>3. Live' = Live /\ RingInv' /\ d'.ring.next = d.ring.next /\ d' \in Dispatchers
    BY <1>4, <2>1, <2>2, RingKeeps
  <2>4. d'.deferred \subseteq y.deferred /\ y.deferred \subseteq d.deferred
    BY <1>4, <2>1, <2>2 DEF Dispatched
  <2>5. UringTypes' /\ InstalledInv' /\ CurInv'
    BY <1>1, <1>2, <1>6, <2>2, <2>3 DEF UringInv, UringTypes, InstalledInv, CurInv, Places
  <2>6. OwnInv'
    BY <1>1, <1>2, <2>2, <2>3, <2>4 DEF UringInv, OwnInv, Own
  <2>7. FutureInv'
    <3>1. ASSUME NEW f \in Futures, buffer'[f] = "leaked" PROVE Finished(f)' /\ \A b \in d'.deferred : b.f # f
      <4>1. lk[f] = "leaked"
        BY <2>2, <3>1
      <4>2. Finished(f) /\ \A b \in y.deferred : b.f # f
        BY <1>4, <1>9, <4>1
      <4>3. QED
        BY <1>1, <2>4, <4>2 DEF Finished
    <3>2. QED
      BY <1>1, <2>4, <3>1 DEF UringInv, FutureInv, Finished
  <2>8. BufferInv'
    <3>1. ASSUME NEW e \in Live \cup detached, e.f # None PROVE Leaked(e)'
      BY <1>10, <2>2, <3>1 DEF Leaked
    <3>2. QED
      BY <2>2, <2>3, <3>1 DEF BufferInv
  <2>9. QED
    BY <2>3, <2>5, <2>6, <2>7, <2>8 DEF UringInv
<1>12. CASE round # 1
  <2>1. /\ installed' = FALSE /\ d' = NewDispatcher /\ exec' = "out"
        /\ detached' = detached \cup inflight /\ inflight' = {}
        /\ buffer' = [f \in Futures |-> IF \E b \in y.deferred : b.f = f THEN "freed" ELSE lk[f]]
    BY <1>8, <1>12
  <2>2. Live' = {} /\ Posted(d') = {} /\ d' \in Dispatchers
    BY <2>1, NewFacts DEF Live
  <2>3. d'.ring.next = 1 /\ d'.completed = {} /\ d'.deferred = {} /\ Members(d'.ring.sq) = {}
    BY <2>1, NewFacts DEF NewDispatcher, NewRing
  <2>4. RingInv'
    BY <2>1, <2>2, <2>3, SMT DEF RingInv
  <2>5. UringTypes' /\ InstalledInv' /\ CurInv' /\ OwnInv'
    <3>1. detached' \subseteq Entries /\ buffer' \in [Futures -> Places]
      BY <1>6, <2>1 DEF UringInv, UringTypes, Places
    <3>2. QED
      BY <1>1, <1>2, <2>1, <2>2, <3>1 DEF UringInv, UringTypes, InstalledInv, CurInv, OwnInv
  <2>6. FutureInv'
    <3>1. ASSUME NEW f \in Futures, buffer'[f] = "leaked" PROVE Finished(f)'
      BY <1>1, <1>9, <2>1, <3>1 DEF Finished
    <3>2. QED
      BY <1>1, <2>3, <3>1 DEF UringInv, FutureInv
  <2>7. BufferInv'
    <3>1. ASSUME NEW e \in detached', e.f # None PROVE Leaked(e)'
      <4>1. e \in Live \cup detached
        BY <2>1, <3>1 DEF Live
      <4>2. QED
        BY <1>10, <2>1, <3>1, <4>1 DEF Leaked
    <3>2. QED
      BY <2>2, <3>1 DEF BufferInv
  <2>8. QED
    BY <2>4, <2>5, <2>6, <2>7 DEF UringInv
<1>13. QED
  BY <1>11, <1>12

-----------------------------------------------------------------------------
(* The theorems *)

LEMMA UringStep ==
    ASSUME UringInv, NoFutureLeft, [Next]_vars
    PROVE  UringInv'
<1>1. CASE UNCHANGED vars
  <2>1. /\ UNCHANGED <<ring_vars, future_vars, exec, cur>> /\ cur \in Futures \cup {None} /\ CurInv'
    BY <1>1 DEF vars, ring_vars, future_vars, UringInv, UringTypes, CurInv
  <2>2. QED
    BY <2>1, MoveStep DEF SameRegion
<1>2. CASE Kernel \/ \E e \in detached : KernelEnds(e)
  BY <1>2, KernelActions
<1>3. ASSUME NEW f \in Futures, Spawn(f) \/ Poll(f) \/ Cancel(f) \/ CloseTask(f) PROVE UringInv'
  BY <1>3, QuietActions, DispatchActions, CompletionActions, QueueActions, RetireActions DEF Poll
<1>4. CASE \E available \in BOOLEAN : Enter(available)
  BY <1>4, EnterActions
<1>5. CASE DriveReadyWork \/ WakeUp \/ Return \/ CloseRing
  BY <1>5, DispatchActions
<1>6. CASE Again \/ Close \/ \E fs \in SUBSET Tasks : OtherWork(fs)
  BY <1>6, QuietActions
<1>7. CASE Sleep
  BY <1>7, SubmitActions
<1>8. CASE DrainStep \/ DrainEnds
  BY <1>8, SubmitActions, DispatchActions, DrainEndsStep DEF DrainStep
<1>9. CASE BatchEnter
  BY <1>9, EnterActions
<1>10. CASE BatchStep \/ BatchReturn
  <2>1. ASSUME NEW f \in Batch, BatchQueue(f) \/ BatchPoll(f) \/ BatchCompleted(f) \/ BatchDrop(f)
        PROVE  UringInv'
    <3>1. f \in Futures
      BY DEF Futures
    <3>2. QED
      BY <2>1, <3>1, QueueActions, QuietActions, CompletionActions, RetireActions
  <2>2. CASE BatchRefused \/ BatchStart \/ BatchWait \/ BatchWake \/ BatchReturn \/ BatchRelease
    BY <2>2, QueueActions, QuietActions, SubmitActions, DispatchActions
  <2>3. QED
    BY <1>10, <2>1, <2>2 DEF BatchStep
<1>11. QED
  BY <1>1, <1>2, <1>3, <1>4, <1>5, <1>6, <1>7, <1>8, <1>9, <1>10 DEF Next

LEMMA UringInit ==
    ASSUME Init
    PROVE  UringInv
<1>1. /\ d = NewDispatcher /\ inflight = {} /\ detached = {} /\ installed = FALSE /\ cur = None
      /\ fut = [f \in Futures |-> "none"] /\ op = [f \in Futures |-> None]
      /\ buffer = [f \in Futures |-> "future"] /\ exec = "out"
  BY DEF Init, InitAt
<1>2. d \in Dispatchers /\ Posted(d) = {} /\ Live = {} /\ Members(d.ring.sq) = {}
  BY <1>1, NewFacts DEF Live
<1>3. d.ring.next = 1 /\ d.completed = {} /\ d.deferred = {}
  BY <1>1 DEF NewDispatcher, NewRing
<1>4. UringTypes
  BY <1>1, <1>2 DEF UringTypes, FutureStates, Places, None
<1>5. RingInv
  BY <1>1, <1>2, <1>3, SMT DEF RingInv
<1>6. InstalledInv /\ OwnInv /\ CurInv
  BY <1>1 DEF InstalledInv, OwnInv, CurInv
<1>7. FutureInv /\ BufferInv
  BY <1>1, <1>2, <1>3 DEF FutureInv, BufferInv
<1>8. QED
  BY <1>4, <1>5, <1>6, <1>7 DEF UringInv

\* A live entry's buffer is where the property wants it.
LEMMA UringOutlives ==
    ASSUME UringInv
    PROVE  BufferOutlivesOperation
  BY DEF UringInv, BufferInv, BufferOutlivesOperation, Live, InFuture, InDeferred, Leaked

\* The memory of an operation outlives it (DeferredUringBuffer, shutdown_drain and
\* leak_deferred_buffers of os/uring.rs), in any number of runs of the executor and of
\* batches, as long as no new ring is made while a future holds the id of an earlier one.
THEOREM BuffersOutlive == Spec /\ []NoFutureLeft => []BufferOutlivesOperation
<1>1. Init => UringInv
  BY UringInit
<1>2. UringInv /\ NoFutureLeft /\ [Next]_vars => UringInv'
  BY UringStep
<1>3. UringInv => BufferOutlivesOperation
  BY UringOutlives
<1>4. QED
  BY <1>1, <1>2, <1>3, PTL DEF Spec

\* Before the first run there is no ring and nothing is queued.
Fresh ==
    /\ runs \in Nat
    /\ runs = 0 => ~installed /\ exec = "out" /\ cur = None /\ \A f \in Futures : fut[f] \in {"none", "new", "dropped"}

LEMMA FreshStep ==
    ASSUME Fresh, [Next]_vars, fut \in [Futures -> FutureStates]
    PROVE  Fresh'
<1>1. runs' = runs \/ runs' = runs + 1
  BY ZenonT(30) DEF Next, vars, Kernel, KernelCompletes, KernelEnds, Spawn, Poll, PollTask, PollRefused, EnsureQueuedRead,
     EnsureQueuedWrite, Queued, PollPending, PollError, PollReady, Returned, ReadExact, WriteAll, Cancel, CloseTask,
     Enter, DriveReadyWork, Again, Sleep, WakeUp, Return, OtherWork, Close, CloseRing, DrainStep, DrainSubmit,
     DrainWake, DrainEnds, BatchEnter, BatchStep, BatchQueue, BatchPoll, BatchCompleted, BatchDrop, BatchRefused,
     BatchStart, BatchWait, BatchWake, BatchReturn, BatchRelease
<1>2. CASE runs # 0
  BY <1>1, <1>2, SMT DEF Fresh
<1>3. CASE runs = 0
  <2>1. ~installed /\ exec = "out" /\ cur = None /\ \A f \in Futures : fut[f] \in {"none", "new", "dropped"}
    BY <1>3 DEF Fresh
  <2>2. \A f \in Futures : f # None
    BY UringAssumption DEF Futures, Tasks
  <2>3. \/ runs' = 1
        \/ UNCHANGED <<installed, exec, cur, fut>>
        \/ /\ \E f \in Futures : Spawn(f) \/ CloseTask(f)
           /\ UNCHANGED <<installed, exec, cur>>
    <3>1. ASSUME NEW f \in Futures, Poll(f) \/ Cancel(f) PROVE FALSE
      BY <2>1, <2>2, <3>1 DEF Poll, PollTask, PollRefused, EnsureQueuedRead, EnsureQueuedWrite, PollPending,
         PollError, ReadExact, WriteAll, Cancel
    <3>2. ASSUME NEW f \in Futures, Spawn(f) \/ CloseTask(f) PROVE UNCHANGED <<installed, exec, cur>>
      BY <3>2 DEF Spawn, CloseTask, ring_vars
    <3>3. ASSUME Kernel \/ (\E e \in detached : KernelEnds(e)) \/ Close PROVE UNCHANGED <<installed, exec, cur, fut>>
      BY <3>3 DEF Kernel, KernelCompletes, KernelEnds, Close, future_vars, ring_vars
    <3>4. ASSUME (\E available \in BOOLEAN : Enter(available)) \/ BatchEnter PROVE runs' = 1
      BY <1>3, <3>4, SMT DEF Enter, BatchEnter
    <3>5. ASSUME \/ DriveReadyWork \/ Again \/ Sleep \/ WakeUp \/ Return \/ CloseRing \/ DrainStep \/ DrainEnds
                 \/ \E fs \in SUBSET Tasks : OtherWork(fs)
          PROVE  FALSE
      BY <2>1, <3>5 DEF DriveReadyWork, Again, Sleep, WakeUp, Return, CloseRing, DrainStep, DrainSubmit, DrainWake,
         DrainEnds, OtherWork
    <3>6. ASSUME BatchStep \/ BatchReturn PROVE FALSE
      <4>1. \A f \in Batch : f # None
        BY UringAssumption
      <4>2. QED
        BY <2>1, <3>6, <4>1 DEF BatchStep, BatchQueue, BatchPoll, BatchCompleted, BatchDrop, BatchRefused, BatchStart,
           BatchWait, BatchWake, BatchReturn, BatchRelease, PassDone
    <3>7. CASE UNCHANGED vars
      BY <3>7 DEF vars
    <3>8. QED
      BY <3>1, <3>2, <3>3, <3>4, <3>5, <3>6, <3>7 DEF Next
  <2>4. CASE \E f \in Futures : Spawn(f) \/ CloseTask(f)
    <3>1. PICK f \in Futures : Spawn(f) \/ CloseTask(f)
      BY <2>4
    <3>2. fut' = [fut EXCEPT ![f] = "new"] \/ fut' = [fut EXCEPT ![f] = "dropped"]
      BY <3>1 DEF Spawn, CloseTask, DropFuture
    <3>3. \A g \in Futures : fut'[g] \in {"none", "new", "dropped"}
      BY <2>1, <3>2
    <3>4. UNCHANGED <<installed, exec, cur, runs>>
      BY <3>1 DEF Spawn, CloseTask, ring_vars
    <3>5. QED
      BY <1>3, <2>1, <3>3, <3>4 DEF Fresh
  <2>5. CASE runs' = 1 \/ UNCHANGED <<installed, exec, cur, fut>>
    BY <1>1, <1>3, <2>1, <2>5, SMT DEF Fresh
  <2>6. QED
    BY <2>3, <2>4, <2>5
<1>4. QED
  BY <1>2, <1>3

\* In one run, or one batch, that needs no hypothesis: no ring follows the first.
THEOREM BuffersOutliveOneRun ==
    ASSUME MaxRuns = 1
    PROVE  Spec => []BufferOutlivesOperation
<1>1. Init => UringInv /\ Fresh
  <2>1. Init => Fresh
    BY SMT DEF Init, InitAt, Fresh
  <2>2. QED
    BY <2>1, UringInit
<1>2. Fresh => NoFutureLeft
  BY SMT DEF Fresh, NoFutureLeft
<1>3. UringInv /\ Fresh /\ [Next]_vars => Fresh'
  BY FreshStep DEF UringInv, UringTypes
<1>4. UringInv /\ NoFutureLeft /\ [Next]_vars => UringInv'
  BY UringStep
<1>5. UringInv => BufferOutlivesOperation
  BY UringOutlives
<1>6. QED
  BY <1>1, <1>2, <1>3, <1>4, <1>5, PTL DEF Spec

-----------------------------------------------------------------------------
(* The executor does not sleep on a completion *)

\* Operation i is queued, with the kernel or posted; nobody has given it up and its completion
\* is to come or is stored.
Due(x, taken, i) == i \in Posted(x) \/ \E e \in taken \cup Members(x.ring.sq) : e.id = i
Tended(x, taken, i) == i \notin x.abandoned /\ (Due(x, taken, i) \/ Completion(x, i) # {})

\* The executor is in run, or between two runs.
Running == exec \in {"out", "poll", "check", "sleep"}

\* The task of a queued future is in the ready queue, is being polled, or has registered its
\* waker for an operation that is owed.
Awaited(f) ==
    /\ op[f] # None => Tended(d, inflight, op[f])
    /\ ~ready[f] /\ cur # f => op[f] # None /\ op[f] \in d.waiters /\ Due(d, inflight, op[f])

\* With a ring, nothing is left of what was drained, and before a wait all that is queued is
\* submitted.  Without one, no future is queued.
SleepInv ==
    Running =>
      /\ installed => /\ d.ring.local = <<>>
                      /\ \A i \in d.abandoned : i < d.ring.next
                      /\ exec = "sleep" => d.ring.sq = <<>>
                      /\ \A f \in Tasks : fut[f] = "queued" => Awaited(f)
      /\ ~installed /\ exec # "out" => \A f \in Tasks : fut[f] # "queued"

\* One dispatch within the budget takes all that is posted.
BudgetCovers == Len(DrainCompletions(d.ring)) <= Budget

\* What becomes of the operations of x in y when some completions are dispatched
Tends(x, y, taken) ==
    /\ y.abandoned \subseteq x.abandoned
    /\ \A i \in Nat : Tended(x, taken, i) =>
         Tended(y, taken, i) /\ (i \in y.waiters /\ Due(x, taken, i) => Due(y, taken, i))

\* dispatch_available_limit stores the completion of an operation that was not given up, and
\* takes its waker.
LEMMA DispatchTends ==
    ASSUME NEW x \in Dispatchers, NEW limit \in Nat, NEW taken
    PROVE  /\ Tends(x, Dispatch(x, limit), taken)
           /\ Len(DrainCompletions(x.ring)) <= limit => Dispatch(x, limit).ring.local = <<>>
<1> DEFINE all == DrainCompletions(x.ring)
           n == IF Len(all) < limit THEN Len(all) ELSE limit
           batch == {all[i] : i \in 1 .. n}
           ids == {c.id : c \in batch}
           kept == {c \in batch : c.id \notin x.abandoned}
           rest == SubSeq(all, n + 1, Len(all))
           r == TakeCompletions(x.ring, n)
           y == Dispatch(x, limit)
<1>1. x.ring \in Rings /\ x.ring.local \in Seq(Completions) /\ x.ring.cq \in Seq(Completions)
  BY DEF Dispatchers, Rings
<1>2. /\ all \in Seq(Completions) /\ Members(all) = Members(x.ring.local) \cup Members(x.ring.cq)
      /\ Members(all) = {all[i] : i \in 1 .. Len(all)}
  <2>1. all \in Seq(Completions) /\ Members(all) = Members(x.ring.local) \cup Members(x.ring.cq)
    BY <1>1, MemberFacts, SMT DEF DrainCompletions
  <2>2. QED
    BY <2>1, MemberFacts, SMT
<1>3. Posted(x) = {c.id : c \in Members(all)}
  BY <1>2 DEF Posted
<1>4. /\ r = [x.ring EXCEPT !.cq = <<>>, !.local = rest, !.ops = @ \ {all[i].id : i \in 1 .. n}]
      /\ y = [x EXCEPT !.ring = r, !.abandoned = @ \ ids, !.deferred = {b \in @ : b.id \notin ids},
                       !.completed = {c \in @ : c.id \notin {k.id : k \in kept}} \cup kept,
                       !.waiters = @ \ {c.id : c \in kept}]
  BY DEF Dispatch, TakeCompletions
<1>5. Len(all) \in Nat /\ n \in 0 .. Len(all) /\ (Len(all) <= limit => n = Len(all))
  BY <1>2, SMT
<1>6. Len(all) <= limit => rest = <<>>
  <2> SUFFICES ASSUME Len(all) <= limit PROVE rest = <<>>
    OBVIOUS
  <2>1. rest = SubSeq(all, Len(all) + 1, Len(all))
    BY <1>5
  <2> HIDE DEF rest, all, n
  <2>2. rest \in Seq(Completions) /\ Len(rest) = 0
    BY <1>2, <1>5, <2>1, SMTT(30)
  <2>3. QED
    BY <2>2, SMT
<1>7. \A c \in Members(all) : c \in batch \/ c \in Members(rest)
  <2> SUFFICES ASSUME NEW i \in 1 .. Len(all) PROVE all[i] \in batch \/ all[i] \in Members(rest)
    BY <1>2
  <2>1. CASE i <= n
    BY <1>5, <2>1, SMT
  <2>2. CASE i > n
    <3>1. i - n \in DOMAIN rest /\ rest[i - n] = all[i]
      BY <1>2, <1>5, <2>2, SMT
    <3>2. QED
      BY <3>1 DEF Members
  <2>3. QED
    BY <1>5, <2>1, <2>2, SMT
<1> HIDE DEF all, n, r, y, rest, batch
<1>8. /\ r.sq = x.ring.sq /\ r.local = rest
      /\ y.ring = r /\ y.abandoned = x.abandoned \ ids
      /\ y.completed = {c \in x.completed : c.id \notin {k.id : k \in kept}} \cup kept
      /\ y.waiters = x.waiters \ {c.id : c \in kept}
  <2>1. r.sq = x.ring.sq /\ r.local = rest
    BY <1>1, <1>4 DEF Rings
  <2>2. QED
    BY <1>4, <2>1 DEF Dispatchers
<1>9. ASSUME NEW i \in Nat, Tended(x, taken, i)
      PROVE  Tended(y, taken, i) /\ (i \in y.waiters /\ Due(x, taken, i) => Due(y, taken, i))
  <2>1. i \notin x.abandoned /\ i \notin y.abandoned
    BY <1>8, <1>9 DEF Tended
  <2>2. CASE i \in ids
    <3>1. PICK c \in kept : c.id = i
      BY <2>1, <2>2
    <3>2. c \in Completion(y, i) /\ i \notin y.waiters
      BY <1>8, <3>1 DEF Completion
    <3>3. QED
      BY <2>1, <3>2 DEF Tended
  <2>3. CASE i \notin ids
    <3>1. Due(x, taken, i) => Due(y, taken, i)
      <4>1. i \in Posted(x) => i \in Posted(y)
        BY <1>3, <1>7, <1>8, <2>3 DEF Posted
      <4>2. QED
        BY <1>8, <4>1 DEF Due
    <3>2. Completion(x, i) # {} => Completion(y, i) # {}
      BY <1>8, <2>3 DEF Completion
    <3>3. QED
      BY <1>9, <2>1, <3>1, <3>2 DEF Tended
  <2>4. QED
    BY <2>2, <2>3
<1>10. QED
  BY <1>6, <1>8, <1>9 DEF Tends, all, y

\* take_completion, for another operation
LEMMA TakeTends ==
    ASSUME NEW x \in Dispatchers, NEW j \in Nat, NEW taken
    PROVE  /\ TakeCompletion(x, j).abandoned = x.abandoned /\ TakeCompletion(x, j).ring = x.ring
           /\ TakeCompletion(x, j).waiters = x.waiters
           /\ \A i \in Nat \ {j} : Tended(x, taken, i) => Tended(TakeCompletion(x, j), taken, i)
           /\ \A i \in Nat : Due(x, taken, i) => Due(TakeCompletion(x, j), taken, i)
<1> DEFINE t == TakeCompletion(x, j)
<1>1. /\ t.abandoned = x.abandoned /\ t.ring = x.ring /\ t.waiters = x.waiters
      /\ t.completed = x.completed \ Completion(x, j)
  BY DEF TakeCompletion, Dispatchers
<1> HIDE DEF t
<1>2. \A i \in Nat : Due(x, taken, i) => Due(t, taken, i)
  BY <1>1 DEF Due, Posted
<1>3. \A i \in Nat \ {j} : Completion(x, i) # {} => Completion(t, i) # {}
  BY <1>1 DEF Completion
<1>4. QED
  BY <1>1, <1>2, <1>3 DEF Tended, t

\* An operation that is added to a ring disturbs no other.
LEMMA GrowTends ==
    ASSUME NEW x \in Dispatchers, NEW y, NEW f \in Futures \cup {None}, Grows(x.ring, y.ring, f), NEW taken
    PROVE  /\ y.ring.local = x.ring.local /\ y.ring.next = x.ring.next + 1
           /\ \A i \in Nat : Due(x, taken, i) => Due(y, taken, i)
<1>1. x.ring.sq \in Seq(Entries) /\ x.ring.next \in Nat
  BY DEF Dispatchers, Rings
<1>2. Members(x.ring.sq) \subseteq Members(y.ring.sq)
  <2>1. CASE HasSqe(x.ring)
    <3>1. PICK e : e = [id |-> x.ring.next, f |-> f] /\ y.ring.sq = Append(x.ring.sq, e)
      BY <2>1 DEF Grows
    <3>2. e \in Entries
      BY <1>1, <3>1 DEF Entries
    <3>3. Members(Append(x.ring.sq, e)) = Members(x.ring.sq) \cup {e}
      BY <1>1, <3>2, MemberFacts, SMT
    <3>4. QED
      BY <3>1, <3>3
  <2>2. CASE ~HasSqe(x.ring)
    BY <2>2 DEF Grows
  <2>3. QED
    BY <2>1, <2>2
<1>3. Posted(y) = Posted(x)
  BY DEF Grows, Posted
<1>4. QED
  BY <1>2, <1>3 DEF Due, Grows

\* What becomes of the operations of x in z when j is given up
Defers(x, z, j, taken) ==
    /\ z.ring.local = x.ring.local /\ z.waiters = x.waiters \ {j}
    /\ j < x.ring.next /\ (\A i \in x.abandoned : i < x.ring.next) => \A i \in z.abandoned : i < z.ring.next
    /\ \A i \in Nat : Due(x, taken, i) => Due(z, taken, i)
    /\ \A i \in Nat : i < x.ring.next /\ i # j /\ Tended(x, taken, i) => Tended(z, taken, i)

\* defer_buffer_drop gives one operation up and may add a request to cancel it.
LEMMA DeferTends ==
    ASSUME NEW x \in Dispatchers, NEW j \in Nat, NEW f \in Futures, NEW taken
    PROVE  Defers(x, DeferBufferDrop(x, j, f), j, taken)
<1> DEFINE r == QueueCancelOperation(x.ring)
           cancel == IF HasSqe(x.ring) THEN {x.ring.next} ELSE {}
           y == [TakeCompletion(x, j) EXCEPT !.waiters = @ \ {j}]
           w == [y EXCEPT !.abandoned = @ \cup {j} \cup cancel, !.ring = r]
           a == Abandon(x, j)
           z == DeferBufferDrop(x, j, f)
<1>1. /\ x.ring \in Rings /\ x.ring.next \in Nat /\ x.abandoned \subseteq Nat
  BY DEF Dispatchers, Rings
<1>2. Grows(x.ring, r, None)
  BY <1>1, QueueFacts DEF QueueCancelOperation
<1>3. /\ y.ring = x.ring /\ y.abandoned = x.abandoned
      /\ y.completed = x.completed \ Completion(x, j)
      /\ DOMAIN y = {"ring", "waiters", "completed", "abandoned", "deferred"}
  BY DEF TakeCompletion, Dispatchers
<1>4. a = y \/ a = w
  BY DEF Abandon
<1> HIDE DEF y, r, cancel
<1>5. /\ w.ring = r /\ w.abandoned = x.abandoned \cup {j} \cup cancel
      /\ w.completed = x.completed \ Completion(x, j)
      /\ DOMAIN w = {"ring", "waiters", "completed", "abandoned", "deferred"}
  BY <1>3
<1> HIDE DEF w, a
<1>6. /\ a.completed = x.completed \ Completion(x, j)
      /\ \/ a.ring = x.ring /\ a.abandoned = x.abandoned
         \/ Grows(x.ring, a.ring, None) /\ a.abandoned = x.abandoned \cup {j} \cup cancel
      /\ DOMAIN a = {"ring", "waiters", "completed", "abandoned", "deferred"}
  BY <1>2, <1>3, <1>4, <1>5
<1>7. /\ z.completed = x.completed \ Completion(x, j)
      /\ \/ z.ring = x.ring /\ z.abandoned = x.abandoned
         \/ Grows(x.ring, z.ring, None) /\ z.abandoned = x.abandoned \cup {j} \cup cancel
  <2>1. z = a \/ \E s : z = [a EXCEPT !.deferred = s]
    BY DEF DeferBufferDrop, a
  <2>2. CASE \E s : z = [a EXCEPT !.deferred = s]
    <3>1. z.completed = a.completed /\ z.ring = a.ring /\ z.abandoned = a.abandoned
      BY <1>6, <2>2
    <3>2. QED
      BY <1>6, <3>1
  <2>3. QED
    BY <1>6, <2>1, <2>2
<1>8. z.waiters = x.waiters \ {j}
  BY DeferFacts DEF GivenUp
<1> HIDE DEF z
<1> SUFFICES Defers(x, z, j, taken)
  BY DEF z
<1>9. CASE z.ring = x.ring /\ z.abandoned = x.abandoned
  <2>1. \A i \in Nat : Due(x, taken, i) => Due(z, taken, i)
    BY <1>9 DEF Due, Posted
  <2>2. \A i \in Nat : i # j /\ Completion(x, i) # {} => Completion(z, i) # {}
    BY <1>7 DEF Completion
  <2>3. QED
    BY <1>8, <1>9, <2>1, <2>2 DEF Tended, Defers
<1>10. CASE Grows(x.ring, z.ring, None) /\ z.abandoned = x.abandoned \cup {j} \cup cancel
  <2>1. /\ z.ring.local = x.ring.local /\ z.ring.next = x.ring.next + 1
        /\ \A i \in Nat : Due(x, taken, i) => Due(z, taken, i)
    BY <1>10, GrowTends
  <2>2. \A i \in Nat : i # j /\ Completion(x, i) # {} => Completion(z, i) # {}
    BY <1>7 DEF Completion
  <2>3. \A i \in cancel : i = x.ring.next
    BY DEF cancel
  <2>4. \A i \in Nat : i < x.ring.next /\ i # j => (i \in z.abandoned <=> i \in x.abandoned)
    BY <1>1, <1>10, <2>3, SMT
  <2>5. j < x.ring.next /\ (\A i \in x.abandoned : i < x.ring.next) =>
          \A i \in z.abandoned : i < z.ring.next
    BY <1>1, <1>10, <2>1, <2>3, SMT
  <2>6. QED
    BY <1>8, <2>1, <2>2, <2>4, <2>5 DEF Tended, Defers
<1>11. QED
  BY <1>7, <1>9, <1>10

-----------------------------------------------------------------------------
(* The steps *)

\* A step leaves the wait of f alone: it takes the waker only to make the task ready.
Follows(f) ==
    /\ op'[f] = op[f]
    /\ ~ready'[f] /\ cur' # f => ~ready[f] /\ cur # f
    /\ installed /\ Tended(d, inflight, op[f]) =>
         /\ Tended(d', inflight', op[f])
         /\ ~ready'[f] /\ op[f] # None /\ op[f] \in d.waiters /\ Due(d, inflight, op[f]) =>
              op[f] \in d'.waiters /\ Due(d', inflight', op[f])

\* The ring when no completion is being dispatched
Tidy ==
    /\ d.ring.local = <<>>
    /\ \A i \in d.abandoned : i < d.ring.next
    /\ exec = "sleep" => d.ring.sq = <<>>

LEMMA FollowsKeeps ==
    ASSUME NEW f, Follows(f), installed, Awaited(f)
    PROVE  Awaited(f)'
<1>1. op'[f] = op[f]
  BY DEF Follows
<1>2. op[f] # None => Tended(d', inflight', op[f])
  BY DEF Follows, Awaited
<1>3. ASSUME ~ready'[f], cur' # f
      PROVE  op[f] # None /\ op[f] \in d'.waiters /\ Due(d', inflight', op[f])
  BY <1>3 DEF Follows, Awaited
<1>4. QED
  BY <1>1, <1>2, <1>3 DEF Awaited, Tended, Due

\* A step of the executor that runs: every wait is left alone or newly begun.
LEMMA RunStep ==
    ASSUME SleepInv, installed' = installed, Running,
           exec' # "out" => exec # "out",
           installed => Tidy',
           \A f \in Tasks : fut'[f] = "queued" => (fut[f] = "queued" /\ Follows(f)) \/ (installed /\ Awaited(f)')
    PROVE  SleepInv'
<1>1. CASE installed
  <2>1. \A f \in Tasks : fut'[f] = "queued" => Awaited(f)'
    BY <1>1, FollowsKeeps DEF SleepInv
  <2>2. QED
    BY <1>1, <2>1 DEF SleepInv, Tidy
<1>2. CASE ~installed
  BY <1>2 DEF SleepInv
<1>3. QED
  BY <1>1, <1>2

\* The executor does not run, or it has returned and has no ring.
LEMMA NotRunning ==
    ASSUME ~Running' \/ (exec' = "out" /\ ~installed')
    PROVE  SleepInv'
BY DEF SleepInv, Running

LEMMA TidyNow ==
    ASSUME SleepInv, Running, installed
    PROVE  Tidy
BY DEF SleepInv, Tidy

ReadyType == ready \in [Futures -> BOOLEAN]

LEMMA ReadyStep ==
    ASSUME ReadyType, [Next]_vars
    PROVE  ReadyType'
<1> DEFINE Set(r) == r \in [Futures -> BOOLEAN]
<1>1. /\ \A fs : Set(Wake(fs)) /\ Set(Pass)
      /\ \A fs : Set([f \in Futures |-> ready[f] \/ (f \in fs /\ fut[f] = "queued")])
  BY DEF ReadyType, Wake, Pass
<1>2. \A f \in Futures : Set([ready EXCEPT ![f] = TRUE]) /\ Set([ready EXCEPT ![f] = FALSE])
  BY DEF ReadyType
<1>3. ASSUME NEW f \in Futures, Spawn(f) \/ Poll(f) \/ Cancel(f) \/ CloseTask(f) PROVE Set(ready')
  <2>1. CASE Spawn(f) \/ PollTask(f) \/ Cancel(f) \/ CloseTask(f)
    BY <1>2, <2>1 DEF Spawn, PollTask, Cancel, CloseTask, DropFuture
  <2>2. CASE PollRefused(f) \/ EnsureQueuedRead(f) \/ EnsureQueuedWrite(f)
    BY <2>2 DEF ReadyType, PollRefused, EnsureQueuedRead, EnsureQueuedWrite, Queued
  <2>3. CASE PollPending(f) \/ PollError(f) \/ ReadExact(f) \/ WriteAll(f)
    <3>1. ready' = Wake(Woken(d, DispatchAll(d)))
      BY <2>3 DEF PollPending, PollError, PollReady, Returned, ReadExact, WriteAll
    <3>2. QED
      BY <1>1, <3>1
  <2>4. QED
    BY <1>3, <2>1, <2>2, <2>3 DEF Poll
<1>4. ASSUME NEW f \in Batch, BatchQueue(f) \/ BatchPoll(f) \/ BatchCompleted(f) \/ BatchDrop(f) PROVE Set(ready')
  <2>1. f \in Futures
    BY DEF Futures
  <2>2. CASE BatchQueue(f)
    BY <2>2 DEF ReadyType, BatchQueue, Queued
  <2>3. CASE BatchPoll(f) \/ BatchDrop(f)
    BY <1>2, <2>1, <2>3 DEF BatchPoll, BatchDrop, DropFuture
  <2>4. CASE BatchCompleted(f)
    <3>1. ready' = Wake(Woken(d, DispatchAll(d)))
      BY <2>4 DEF BatchCompleted, Returned, PollReady
    <3>2. QED
      BY <1>1, <3>1
  <2>5. QED
    BY <1>4, <2>2, <2>3, <2>4
<1>5. CASE Kernel \/ (\E e \in detached : KernelEnds(e)) \/ (\E available \in BOOLEAN : Enter(available))
  BY <1>5 DEF ReadyType, Kernel, KernelCompletes, KernelEnds, Enter
<1>6. CASE \/ DriveReadyWork \/ Again \/ Sleep \/ WakeUp \/ Return \/ Close \/ CloseRing
           \/ \E fs \in SUBSET Tasks : OtherWork(fs)
  BY <1>1, <1>6 DEF ReadyType, DriveReadyWork, Again, Sleep, WakeUp, Return, Close, CloseRing, ShutdownCurrent,
     OtherWork
<1>7. CASE DrainStep \/ DrainEnds
  BY <1>7 DEF ReadyType, DrainStep, DrainSubmit, DrainWake, DrainEnds
<1>8. CASE BatchEnter \/ BatchRefused \/ BatchStart \/ BatchWait \/ BatchWake \/ BatchReturn \/ BatchRelease
  BY <1>1, <1>8 DEF ReadyType, BatchEnter, BatchRefused, BatchStart, BatchWait, BatchWake, BatchReturn, BatchRelease
<1>9. CASE UNCHANGED vars
  BY <1>9 DEF ReadyType, vars
<1>10. QED
  BY <1>3, <1>4, <1>5, <1>6, <1>7, <1>8, <1>9 DEF Next, BatchStep, ReadyType

\* Steps that leave the ring as it is
LEMMA StillStep ==
    ASSUME UringInv, SleepInv, ReadyType,
           \/ \E e \in detached : KernelEnds(e)
           \/ \E f \in Futures : Spawn(f) \/ PollTask(f)
           \/ Again \/ Close \/ \E fs \in SUBSET Tasks : OtherWork(fs)
    PROVE  SleepInv'
<1>1. UNCHANGED <<d, inflight, installed, op>>
  BY DEF KernelEnds, Spawn, PollTask, Again, Close, OtherWork, ring_vars, future_vars
<1>2. exec' = exec \/ (exec \in {"check", "sleep"} /\ exec' = "poll")
  BY DEF KernelEnds, Spawn, PollTask, Again, Close, OtherWork
<1>3. \A g \in Tasks : fut'[g] = "queued" => fut[g] = "queued"
  <2>1. fut' = fut \/ \E f \in Futures : fut' = [fut EXCEPT ![f] = "new"]
    BY DEF KernelEnds, Spawn, PollTask, Again, Close, OtherWork, future_vars
  <2>2. fut \in [Futures -> FutureStates] /\ Tasks \subseteq Futures
    BY DEF UringInv, UringTypes, Futures
  <2>3. QED
    BY <2>1, <2>2
<1>4. \A g \in Tasks : ~ready'[g] /\ cur' # g => ~ready[g] /\ cur # g
  <2>1. Tasks \subseteq Futures /\ \A g \in Tasks : g # None
    BY UringAssumption DEF Futures, Tasks
  <2>2. CASE \E f \in Futures : PollTask(f)
    <3>1. PICK f \in Futures : cur = None /\ cur' = f /\ ready' = [ready EXCEPT ![f] = FALSE]
      BY <2>2 DEF PollTask
    <3>2. QED
      BY <2>1, <3>1 DEF ReadyType
  <2>3. CASE \E f \in Futures : Spawn(f)
    <3>1. PICK f \in Futures : cur' = cur /\ ready' = [ready EXCEPT ![f] = TRUE]
      BY <2>3 DEF Spawn
    <3>2. QED
      BY <2>1, <3>1 DEF ReadyType
  <2>4. CASE \E fs \in SUBSET Tasks : OtherWork(fs)
    <3>1. PICK fs \in SUBSET Tasks :
            cur' = cur /\ ready' = [f \in Futures |-> ready[f] \/ (f \in fs /\ fut[f] = "queued")]
      BY <2>4 DEF OtherWork
    <3>2. QED
      BY <2>1, <3>1 DEF ReadyType
  <2>5. CASE (\E e \in detached : KernelEnds(e)) \/ Again \/ Close
    BY <2>5 DEF KernelEnds, Again, Close
  <2>6. QED
    BY <2>2, <2>3, <2>4, <2>5
<1>5. \A g \in Tasks : fut'[g] = "queued" => fut[g] = "queued" /\ Follows(g)
  BY <1>1, <1>3, <1>4 DEF Follows, Tended, Due
<1>6. CASE Running
  <2>1. installed => Tidy'
    BY <1>1, <1>2, <1>6, TidyNow DEF Tidy
  <2>2. QED
    BY <1>1, <1>2, <1>5, <1>6, <2>1, RunStep
<1>7. CASE ~Running
  BY <1>2, <1>7, NotRunning DEF Running
<1>8. QED
  BY <1>6, <1>7

\* The kernel posts the completion of an operation it had.
LEMMA PostStep ==
    ASSUME UringInv, SleepInv, NEW e \in inflight, NEW n \in -1 .. ReadLength, KernelCompletes(e, n)
    PROVE  SleepInv'
<1> DEFINE c == [id |-> e.id, n |-> n]
           r == [d.ring EXCEPT !.cq = Append(@, c)]
<1>1. /\ inflight' = inflight \ {e} /\ d' = [d EXCEPT !.ring.cq = Append(@, c)]
      /\ UNCHANGED <<installed, fut, op, ready, exec, cur>>
  BY DEF KernelCompletes, future_vars
<1>2. d \in Dispatchers /\ d.ring \in Rings /\ d.ring.cq \in Seq(Completions) /\ e \in Entries
  BY LiveFacts DEF UringInv, UringTypes
<1>3. c \in Completions /\ c.id = e.id
  BY <1>2, UringAssumption, SMT DEF Entries, Completions
<1> HIDE DEF c
<1>4. Members(Append(d.ring.cq, c)) = Members(d.ring.cq) \cup {c}
  BY <1>2, <1>3, MemberFacts, SMT
<1>5. r.sq = d.ring.sq /\ r.cq = Append(d.ring.cq, c) /\ r.local = d.ring.local /\ r.next = d.ring.next
  BY <1>2 DEF Rings
<1>6. d' = [d EXCEPT !.ring = r]
  BY <1>1, <1>2 DEF Dispatchers
<1> HIDE DEF r
<1>7. d'.ring = r /\ d'.waiters = d.waiters /\ d'.completed = d.completed /\ d'.abandoned = d.abandoned
  BY <1>2, <1>6 DEF Dispatchers
<1>8. Posted(d') = Posted(d) \cup {e.id}
  BY <1>3, <1>4, <1>5, <1>7, ZenonT(30) DEF Posted
<1>9. \A i \in Nat : Due(d, inflight, i) => Due(d', inflight', i)
  BY <1>1, <1>5, <1>7, <1>8 DEF Due
<1>10. \A i \in Nat : Tended(d, inflight, i) => Tended(d', inflight', i)
  BY <1>7, <1>9 DEF Tended, Completion
<1>11. \A g \in Tasks : Follows(g)
  <2>1. \A g \in Tasks : op[g] \in Nat
    BY DEF UringInv, UringTypes, Futures
  <2>2. QED
    BY <1>1, <1>7, <1>9, <1>10, <2>1 DEF Follows
<1>12. CASE Running
  <2>1. installed => Tidy'
    BY <1>1, <1>5, <1>7, <1>12, TidyNow DEF Tidy
  <2>2. QED
    BY <1>1, <1>11, <1>12, <2>1, RunStep
<1>13. CASE ~Running
  BY <1>1, <1>13, NotRunning DEF Running
<1>14. QED
  BY <1>12, <1>13

\* submit_pending comes before the wait.
LEMMA FallAsleep ==
    ASSUME UringInv, SleepInv, Sleep
    PROVE  SleepInv'
<1>1. /\ exec = "check" /\ exec' = "sleep" /\ UNCHANGED <<installed, fut, op, ready, cur>>
      /\ IF installed THEN Submit ELSE UNCHANGED <<d, inflight>>
  BY DEF Sleep, future_vars
<1>2. Running /\ \A g \in Tasks : op[g] \in Nat
  BY <1>1 DEF Running, UringInv, UringTypes, Futures
<1>3. CASE installed
  <2> DEFINE r == SubmitPending(d.ring)
  <2>1. d \in Dispatchers /\ d.ring \in Rings
    BY LiveFacts DEF UringInv, UringTypes
  <2>2. r.sq = <<>> /\ r.cq = d.ring.cq /\ r.local = d.ring.local /\ r.next = d.ring.next
    BY <2>1 DEF SubmitPending, Rings
  <2>3. d' = [d EXCEPT !.ring = r] /\ inflight' = inflight \cup Members(d.ring.sq)
    BY <1>1, <1>3 DEF Submit
  <2> HIDE DEF r
  <2>4. d'.ring = r /\ d'.waiters = d.waiters /\ d'.completed = d.completed /\ d'.abandoned = d.abandoned
    BY <2>1, <2>3 DEF Dispatchers
  <2>5. \A i \in Nat : Due(d, inflight, i) => Due(d', inflight', i)
    BY <2>2, <2>3, <2>4 DEF Due, Posted
  <2>6. \A i \in Nat : Tended(d, inflight, i) => Tended(d', inflight', i)
    BY <2>4, <2>5 DEF Tended, Completion
  <2>7. \A g \in Tasks : Follows(g)
    BY <1>1, <1>2, <2>4, <2>5, <2>6 DEF Follows
  <2>8. Tidy'
    BY <1>1, <1>2, <1>3, <2>2, <2>4, TidyNow DEF Tidy
  <2>9. QED
    BY <1>1, <1>2, <2>7, <2>8, RunStep
<1>4. CASE ~installed
  BY <1>1, <1>4 DEF SleepInv, Running
<1>5. QED
  BY <1>3, <1>4

\* A waker that a dispatch takes is called: its task is ready.
LEMMA WokenFollows ==
    ASSUME UringInv, ReadyType, NEW y, Tends(d, y, inflight), NEW g \in Tasks, inflight' = inflight, op'[g] = op[g],
           ready' = Wake(Woken(d, y)), cur = g => cur' = g,
           Tended(y, inflight, op[g]) => Tended(d', inflight, op[g]),
           op[g] \in y.waiters => op[g] \in d'.waiters,
           Due(y, inflight, op[g]) => Due(d', inflight, op[g])
    PROVE  Follows(g)
<1>1. op[g] \in Nat /\ g \in Futures
  BY DEF UringInv, UringTypes, Futures
<1>2. ready[g] => ready'[g]
  BY <1>1 DEF Wake
<1>3. ~ready'[g] /\ op[g] # None /\ op[g] \in d.waiters => op[g] \in y.waiters
  BY <1>1 DEF Wake, Woken
<1>4. QED
  BY <1>1, <1>2, <1>3 DEF Follows, Tends

\* What a dispatch of all completions, or of as many as the budget allows, does to the waits
LEMMA DispatchTidies ==
    ASSUME UringInv, NEW y, y = DispatchAll(d) \/ (BudgetCovers /\ y = Dispatch(d, Budget))
    PROVE  /\ y \in Dispatchers /\ Tends(d, y, inflight) /\ y.ring.local = <<>>
           /\ y.ring.next = d.ring.next /\ y.ring.sq = d.ring.sq
<1>1. d \in Dispatchers /\ Budget \in Nat
  BY UringAssumption DEF UringInv, UringTypes
<1>2. Len(DrainCompletions(d.ring)) \in Nat
  <2>1. DrainCompletions(d.ring) \in Seq(Completions)
    BY LiveFacts, SMT DEF UringInv, DrainCompletions
  <2>2. QED
    BY <2>1, SMT
<1>3. Dispatched(d, y)
  BY DispatchAllFacts DEF UringInv
<1>4. Tends(d, y, inflight) /\ y.ring.local = <<>>
  <2>1. CASE y = DispatchAll(d)
    <3>1. Len(DrainCompletions(d.ring)) <= Len(DrainCompletions(d.ring))
      BY <1>2, SMT
    <3>2. QED
      BY <1>1, <1>2, <2>1, <3>1, DispatchTends DEF DispatchAll
  <2>2. CASE BudgetCovers /\ y = Dispatch(d, Budget)
    BY <1>1, <2>2, DispatchTends DEF BudgetCovers
  <2>3. QED
    BY <2>1, <2>2
<1>5. QED
  BY <1>3, <1>4 DEF Dispatched

\* The executor dispatches before it looks for ready tasks, and after a wait.
LEMMA DriveStep ==
    ASSUME UringInv, SleepInv, ReadyType, BudgetCovers, DriveReadyWork \/ WakeUp
    PROVE  SleepInv'
<1>1. PICK y : /\ y = d \/ (installed /\ y = Dispatch(d, Budget))
               /\ d' = y /\ ready' = Wake(Woken(d, y))
               /\ UNCHANGED <<inflight, installed, fut, op, cur>>
               /\ exec \in {"poll", "sleep"} /\ exec' \in {"check", "poll"}
  <2>1. CASE DriveReadyWork
    BY <2>1 DEF DriveReadyWork
  <2>2. CASE WakeUp
    BY <2>2 DEF WakeUp, RingReadable, ShouldWait
  <2>3. QED
    BY <2>1, <2>2
<1>2. Running /\ exec # "out" /\ exec' # "sleep"
  BY <1>1 DEF Running
<1>3. Tends(d, y, inflight)
  BY <1>1, DispatchTidies DEF Tends
<1>4. \A g \in Tasks : Follows(g)
  BY <1>1, <1>3, WokenFollows
<1>5. installed => Tidy'
  <2>1. CASE y = d
    BY <1>1, <1>2, <2>1, TidyNow DEF Tidy
  <2>2. CASE installed /\ y = Dispatch(d, Budget)
    <3>1. y.ring.local = <<>> /\ y.ring.next = d.ring.next /\ y.abandoned \subseteq d.abandoned
      BY <2>2, DispatchTidies DEF Tends
    <3>2. QED
      BY <1>1, <1>2, <2>2, <3>1, TidyNow DEF Tidy
  <2>3. QED
    BY <1>1, <2>1, <2>2
<1>6. QED
  BY <1>1, <1>2, <1>4, <1>5, RunStep

\* The task whose future is polled runs in the polling phase.
LEMMA PolledTask ==
    ASSUME UringInv, NEW f \in Futures, cur = f
    PROVE  f # None /\ (f \in Tasks => exec = "poll") /\ (f \notin Tasks => ~Running)
<1>1. f # None
  BY UringAssumption DEF Futures, Tasks
<1>2. QED
  BY <1>1, UringAssumption DEF UringInv, CurInv, Running, Futures, Tasks

\* poll_operation without a completion: the operation is owed, and the waker is registered.
LEMMA PendingStep ==
    ASSUME UringInv, SleepInv, ReadyType, NEW f \in Futures, PollPending(f)
    PROVE  SleepInv'
<1> DEFINE y == DispatchAll(d)
<1>1. /\ cur = f /\ op[f] # None /\ installed /\ Completion(y, op[f]) = {}
      /\ d' = RegisterWaker(y, op[f]) /\ ready' = Wake(Woken(d, y)) /\ cur' = None
      /\ UNCHANGED <<inflight, installed, fut, op, exec>>
  BY DEF PollPending
<1>2. /\ y \in Dispatchers /\ Tends(d, y, inflight) /\ y.ring.local = <<>>
      /\ y.ring.next = d.ring.next /\ y.ring.sq = d.ring.sq
  BY DispatchTidies
<1> HIDE DEF y
<1>3. /\ d'.ring = y.ring /\ d'.abandoned = y.abandoned /\ d'.completed = y.completed
      /\ d'.waiters = y.waiters \cup {op[f]}
  BY <1>1, <1>2 DEF RegisterWaker, Dispatchers
<1>4. \A i \in Nat : /\ Due(y, inflight, i) => Due(d', inflight, i)
                     /\ Tended(y, inflight, i) => Tended(d', inflight, i)
  BY <1>3 DEF Due, Tended, Posted, Completion
<1>5. CASE f \in Tasks
  <2>1. exec = "poll" /\ Running /\ f # None /\ op \in [Futures -> Nat] /\ Tasks \subseteq Futures
    BY <1>1, <1>5, PolledTask DEF Running, UringInv, UringTypes, Futures
  <2>2. \A g \in Tasks \ {f} : Follows(g)
    BY <1>1, <1>2, <1>3, <1>4, <2>1, WokenFollows
  <2>3. fut[f] = "queued" => Awaited(f)'
    <3>1. SUFFICES ASSUME fut[f] = "queued" PROVE Awaited(f)'
      OBVIOUS
    <3>2. Tended(d, inflight, op[f])
      BY <1>1, <1>5, <2>1, <3>1 DEF SleepInv, Awaited
    <3>3. Tended(y, inflight, op[f]) /\ op[f] \in Nat
      BY <1>2, <2>1, <3>2 DEF Tends
    <3>4. Due(y, inflight, op[f])
      BY <1>1, <3>3 DEF Tended
    <3>5. Tended(d', inflight, op[f]) /\ Due(d', inflight, op[f]) /\ op[f] \in d'.waiters
      BY <1>3, <1>4, <3>3, <3>4
    <3>6. inflight' = inflight /\ op' = op
      BY <1>1
    <3>7. QED
      BY <1>1, <3>5, <3>6 DEF Awaited, Tended, Due
  <2>4. Tidy'
    BY <1>1, <1>2, <1>3, <2>1, TidyNow DEF Tidy, Tends
  <2>5. QED
    BY <1>1, <2>1, <2>2, <2>3, <2>4, RunStep
<1>6. CASE f \notin Tasks
  BY <1>1, <1>6, PolledTask, NotRunning DEF Running
<1>7. QED
  BY <1>5, <1>6

\* Queued futures have operations of their own, with numbers that were given out.
LEMMA OtherOperation ==
    ASSUME UringInv, installed, NEW g \in Tasks, fut[g] = "queued"
    PROVE  /\ op[g] \in Nat /\ op[g] < d.ring.next
           /\ \A f \in Futures \ {g} : op[f] # None => op[f] # op[g]
<1>1. g \in Futures /\ op[g] \in Nat /\ 0 < d.ring.next
  BY DEF Futures, UringInv, UringTypes, RingInv
<1>2. CASE op[g] = None
  BY <1>1, <1>2 DEF None
<1>3. CASE op[g] # None
  <2>1. Own(g)
    BY <1>1, <1>3 DEF UringInv, OwnInv
  <2>2. \A f \in Futures : op[f] # None => fut[f] = "queued"
    BY DEF UringInv, FutureInv
  <2>3. QED
    BY <1>1, <2>1, <2>2 DEF Own
<1>4. QED
  BY <1>2, <1>3

\* A future takes its completion: it resolves, or goes on without an operation.
LEMMA TakenStep ==
    ASSUME UringInv, SleepInv, ReadyType, NEW f \in Tasks, cur = f, NEW c \in Completed(f), PollReady(f),
           op' = [op EXCEPT ![f] = None],
           \/ d' = TakeCompletion(DispatchAll(d), c.id)
           \/ d' = DeferBufferDrop(TakeCompletion(DispatchAll(d), c.id), c.id, f),
           (\E s \in {"failed", "done"} : fut' = [fut EXCEPT ![f] = s] /\ cur' = None) \/ UNCHANGED <<fut, cur>>
    PROVE  SleepInv'
<1> DEFINE y == DispatchAll(d)
           t == TakeCompletion(y, c.id)
<1>1. ready' = Wake(Woken(d, y)) /\ UNCHANGED <<inflight, installed, exec>>
  BY DEF PollReady
<1>2. f \in Futures /\ installed /\ op[f] # None /\ c.id = op[f] /\ c.id \in Nat /\ fut[f] = "queued"
  BY CompletedFacts DEF Futures
<1>3. /\ y \in Dispatchers /\ Tends(d, y, inflight) /\ y.ring.local = <<>> /\ y.ring.next = d.ring.next
  BY DispatchTidies
<1>4. t \in Dispatchers
  BY <1>3 DEF TakeCompletion, Dispatchers
<1> HIDE DEF y
<1>5. /\ t.abandoned = y.abandoned /\ t.ring = y.ring /\ t.waiters = y.waiters
      /\ \A i \in Nat \ {c.id} : Tended(y, inflight, i) => Tended(t, inflight, i)
      /\ \A i \in Nat : Due(y, inflight, i) => Due(t, inflight, i)
  BY <1>2, <1>3, TakeTends
<1> HIDE DEF t
<1>6. Running /\ exec = "poll" /\ f # None /\ Tidy /\ op[f] < d.ring.next
  BY <1>2, PolledTask, TidyNow, OtherOperation DEF Running
<1>7. \A i \in t.abandoned : i < t.ring.next
  BY <1>3, <1>5, <1>6 DEF Tidy, Tends
<1>8. /\ d'.ring.local = <<>> /\ \A i \in d'.abandoned : i < d'.ring.next
      /\ \A i \in Nat : i < d.ring.next /\ i # c.id =>
           /\ Tended(y, inflight, i) => Tended(d', inflight, i)
           /\ Due(y, inflight, i) => Due(d', inflight, i)
           /\ i \in y.waiters => i \in d'.waiters
  <2>1. CASE d' = t
    BY <1>3, <1>5, <1>7, <2>1
  <2>2. CASE d' = DeferBufferDrop(t, c.id, f)
    <3>1. c.id < t.ring.next
      BY <1>2, <1>3, <1>5, <1>6
    <3>2. Defers(t, d', c.id, inflight)
      BY <1>2, <1>4, <2>2, DeferTends
    <3>3. QED
      BY <1>3, <1>5, <1>7, <3>1, <3>2 DEF Defers
  <2>3. QED
    BY <2>1, <2>2 DEF t, y
<1>9. op \in [Futures -> Nat] /\ fut \in [Futures -> FutureStates] /\ Tasks \subseteq Futures
  BY DEF UringInv, UringTypes, Futures
<1>10. ASSUME NEW g \in Tasks, g # f, fut'[g] = "queued" PROVE fut[g] = "queued" /\ Follows(g)
  <2>1. fut[g] = "queued" /\ op'[g] = op[g] /\ cur # g
    BY <1>9, <1>10
  <2>2. op[g] \in Nat /\ op[g] < d.ring.next /\ op[g] # c.id
    BY <1>2, <1>10, <2>1, OtherOperation
  <2>3. QED
    BY <1>1, <1>3, <1>8, <2>1, <2>2, WokenFollows
<1>11. fut'[f] = "queued" => Awaited(f)'
  <2>1. op'[f] = None
    BY <1>2, <1>9
  <2>2. fut'[f] = "queued" => cur' = f
    BY <1>2, <1>9
  <2>3. QED
    BY <2>1, <2>2 DEF Awaited
<1>12. Tidy'
  BY <1>1, <1>6, <1>8 DEF Tidy
<1>13. QED
  BY <1>1, <1>2, <1>6, <1>10, <1>11, <1>12, RunStep

LEMMA CompletionSteps ==
    ASSUME UringInv, SleepInv, ReadyType, NEW f \in Futures, PollError(f) \/ ReadExact(f) \/ WriteAll(f)
    PROVE  SleepInv'
<1>1. CASE ReadExact(f) \/ WriteAll(f)
  <2>1. f \in Tasks /\ cur = f
    BY <1>1 DEF ReadExact, WriteAll, Tasks
  <2>2. PICK c \in Completed(f) :
          /\ Returned(f, c)
          /\ IF c.n > 0 /\ c.n < left[f] THEN op' = [op EXCEPT ![f] = None] /\ UNCHANGED <<fut, cur>>
             ELSE Resolve(f, IF c.n = 0 THEN "failed" ELSE "done")
    BY <1>1 DEF ReadExact, WriteAll
  <2>3. PollReady(f) /\ d' = TakeCompletion(DispatchAll(d), c.id)
    BY <2>2 DEF Returned
  <2>4. QED
    BY <2>1, <2>2, <2>3, TakenStep DEF Resolve
<1>2. CASE PollError(f)
  <2>1. PICK c \in Completed(f) :
          /\ PollReady(f) /\ Resolve(f, "failed")
          /\ d' = DeferBufferDrop(TakeCompletion(DispatchAll(d), c.id), c.id, f)
    BY <1>2 DEF PollError
  <2>2. f \in Tasks /\ cur = f
    BY <1>2 DEF PollError
  <2>3. QED
    BY <2>1, <2>2, TakenStep DEF Resolve
<1>3. QED
  BY <1>1, <1>2

\* ensure_queued: the future is being polled, and its new operation is in the submission queue.
LEMMA EnsureQueuedStep ==
    ASSUME UringInv, SleepInv, NEW f \in Futures, EnsureQueuedRead(f) \/ EnsureQueuedWrite(f)
    PROVE  SleepInv'
<1> DEFINE r == QueueOperation(d.ring, f)
           n == d.ring.next
           e == [id |-> n, f |-> f]
<1>1. /\ f \in Tasks /\ cur = f /\ installed /\ HasSqe(d.ring) /\ d' = [d EXCEPT !.ring = r]
      /\ op' = [op EXCEPT ![f] = n] /\ fut' = [fut EXCEPT ![f] = "queued"]
      /\ UNCHANGED <<inflight, installed, ready, exec, cur>>
  BY DEF EnsureQueuedRead, EnsureQueuedWrite, Queued, QueueReadOperation, QueueWriteOperation, Tasks
<1>2. /\ d \in Dispatchers /\ d.ring \in Rings /\ d.ring.sq \in Seq(Entries) /\ n \in Nat /\ 0 < n
      /\ op \in [Futures -> Nat] /\ fut \in [Futures -> FutureStates] /\ Tasks \subseteq Futures
  BY LiveFacts DEF UringInv, UringTypes, RingInv, Futures
<1>3. Grows(d.ring, r, f)
  BY <1>2, QueueFacts
<1> HIDE DEF r
<1>4. d'.ring = r /\ d'.waiters = d.waiters /\ d'.completed = d.completed /\ d'.abandoned = d.abandoned
  BY <1>1, <1>2 DEF Dispatchers
<1>5. /\ d'.ring.local = d.ring.local /\ d'.ring.next = n + 1
      /\ \A i \in Nat : Due(d, inflight, i) => Due(d', inflight, i)
  <2>1. PICK y : y = d'
    OBVIOUS
  <2>2. Grows(d.ring, y.ring, f)
    BY <1>3, <1>4, <2>1
  <2>3. QED
    BY <1>2, <2>1, <2>2, GrowTends
<1>6. \A i \in Nat : Tended(d, inflight, i) => Tended(d', inflight, i)
  BY <1>4, <1>5 DEF Tended, Completion
<1>7. Running /\ exec = "poll" /\ f # None /\ Tidy
  BY <1>1, PolledTask, TidyNow DEF Running
<1>8. Tended(d', inflight, n)
  <2>1. e \in Entries /\ r.sq = Append(d.ring.sq, e)
    BY <1>1, <1>2, <1>3 DEF Grows, Entries
  <2>2. e.id = n
    OBVIOUS
  <2> HIDE DEF e
  <2>3. Members(Append(d.ring.sq, e)) = Members(d.ring.sq) \cup {e}
    BY <1>2, <2>1, MemberFacts, SMT
  <2>4. n \notin d.abandoned
    BY <1>2, <1>7, SMT DEF Tidy
  <2>5. QED
    BY <1>4, <2>1, <2>2, <2>3, <2>4 DEF Tended, Due
<1>9. fut'[f] = "queued" => Awaited(f)'
  <2>1. op'[f] = n
    BY <1>1, <1>2
  <2>2. Tended(d', inflight', op'[f])
    BY <1>1, <1>8, <2>1
  <2>3. QED
    BY <1>1, <2>2 DEF Awaited, Tended, Due
<1>10. \A g \in Tasks : g # f /\ fut'[g] = "queued" => fut[g] = "queued" /\ Follows(g)
  <2> SUFFICES ASSUME NEW g \in Tasks, g # f, fut'[g] = "queued" PROVE fut[g] = "queued" /\ Follows(g)
    OBVIOUS
  <2>1. fut[g] = "queued" /\ op'[g] = op[g] /\ op[g] \in Nat
    BY <1>1, <1>2
  <2>2. QED
    BY <1>1, <1>4, <1>5, <1>6, <2>1 DEF Follows
<1>11. Tidy'
  <2>1. \A i \in d'.abandoned : i < d'.ring.next
    <3>1. d.abandoned \subseteq Nat
      BY <1>2 DEF Dispatchers
    <3>2. QED
      BY <1>2, <1>4, <1>5, <1>7, <3>1, SMT DEF Tidy
  <2>2. QED
    BY <1>1, <1>5, <1>7, <2>1 DEF Tidy
<1>12. QED
  BY <1>1, <1>7, <1>9, <1>10, <1>11, RunStep

\* A step after which a queued task has kept its operation, its waker and its place
LEMMA KeptFollows ==
    ASSUME NEW g, op'[g] = op[g], ready'[g] = ready[g], cur' = cur \/ cur # g, inflight' = inflight,
           Tended(d, inflight, op[g]) => Tended(d', inflight, op[g]),
           op[g] \in d.waiters => op[g] \in d'.waiters,
           Due(d, inflight, op[g]) => Due(d', inflight, op[g])
    PROVE  Follows(g)
BY DEF Follows

\* The future that is refused an operation resolves; at most a number is given out.
LEMMA RefusedStep ==
    ASSUME UringInv, SleepInv, NEW f \in Futures, PollRefused(f)
    PROVE  SleepInv'
<1> DEFINE r == QueueOperation(d.ring, f)
<1>1. /\ cur = f /\ d' = (IF installed THEN [d EXCEPT !.ring = r] ELSE d)
      /\ fut' = [fut EXCEPT ![f] = "failed"] /\ op' = [op EXCEPT ![f] = None] /\ cur' = None
      /\ UNCHANGED <<inflight, installed, ready, exec>>
  BY DEF PollRefused, Resolve
<1>2. /\ d \in Dispatchers /\ d.ring \in Rings /\ d.ring.next \in Nat /\ d.abandoned \subseteq Nat
      /\ op \in [Futures -> Nat] /\ fut \in [Futures -> FutureStates] /\ Tasks \subseteq Futures
  BY LiveFacts DEF UringInv, UringTypes, Futures, Dispatchers
<1>3. Grows(d.ring, r, f)
  BY <1>2, QueueFacts
<1> HIDE DEF r
<1>4. /\ d'.waiters = d.waiters /\ d'.completed = d.completed /\ d'.abandoned = d.abandoned
      /\ IF installed THEN d'.ring = r ELSE d'.ring = d.ring
  BY <1>1, <1>2 DEF Dispatchers
<1>5. /\ d'.ring.local = d.ring.local
      /\ d'.ring.next = (IF installed THEN d.ring.next + 1 ELSE d.ring.next)
      /\ \A i \in Nat : Due(d, inflight, i) => Due(d', inflight, i)
  <2>1. CASE installed
    <3>1. PICK y : y = d'
      OBVIOUS
    <3>2. Grows(d.ring, y.ring, f)
      BY <1>3, <1>4, <2>1, <3>1
    <3>3. QED
      BY <1>2, <2>1, <3>1, <3>2, GrowTends
  <2>2. CASE ~installed
    BY <1>1, <2>2
  <2>3. QED
    BY <2>1, <2>2
<1>6. \A i \in Nat : Tended(d, inflight, i) => Tended(d', inflight, i)
  BY <1>4, <1>5 DEF Tended, Completion
<1>7. CASE f \in Tasks
  <2>1. Running /\ exec = "poll" /\ f # None
    BY <1>1, <1>7, PolledTask DEF Running
  <2>2. ASSUME NEW g \in Tasks, fut'[g] = "queued" PROVE fut[g] = "queued" /\ Follows(g)
    <3>1. g # f /\ fut[g] = "queued" /\ op'[g] = op[g] /\ op[g] \in Nat
      BY <1>1, <1>2, <2>2
    <3>2. QED
      BY <1>1, <1>4, <1>5, <1>6, <3>1, KeptFollows
  <2>3. installed => Tidy'
    <3>1. SUFFICES ASSUME installed PROVE Tidy'
      OBVIOUS
    <3>2. Tidy
      BY <2>1, <3>1, TidyNow
    <3>3. \A i \in d'.abandoned : i < d'.ring.next
      BY <1>2, <1>4, <1>5, <3>1, <3>2, SMT DEF Tidy
    <3>4. QED
      BY <1>1, <1>5, <2>1, <3>2, <3>3 DEF Tidy
  <2>4. QED
    BY <1>1, <2>1, <2>2, <2>3, RunStep
<1>8. CASE f \notin Tasks
  BY <1>1, <1>8, PolledTask, NotRunning DEF Running
<1>9. QED
  BY <1>7, <1>8

\* A future is dropped while it is not polled: its operation is given up.
LEMMA GiveUpStep ==
    ASSUME UringInv, SleepInv, ReadyType, NEW f \in Futures, Cancel(f) \/ CloseTask(f)
    PROVE  SleepInv'
<1>1. /\ exec \in {"out", "poll"} /\ fut' = [fut EXCEPT ![f] = "dropped"] /\ op' = [op EXCEPT ![f] = None]
      /\ ready' = [ready EXCEPT ![f] = FALSE]
      /\ d' = (IF op[f] # None /\ installed THEN DeferBufferDrop(d, op[f], f) ELSE d)
      /\ UNCHANGED <<inflight, installed, exec, cur>>
  BY DEF Cancel, CloseTask, DropFuture
<1>2. /\ d \in Dispatchers /\ op \in [Futures -> Nat] /\ fut \in [Futures -> FutureStates]
      /\ Tasks \subseteq Futures /\ Running
  BY <1>1 DEF UringInv, UringTypes, Futures, Running
<1>3. op[f] # None /\ installed => Defers(d, d', op[f], inflight)
  <2> SUFFICES ASSUME op[f] # None, installed PROVE Defers(d, d', op[f], inflight)
    OBVIOUS
  <2>1. op[f] \in Nat /\ d' = DeferBufferDrop(d, op[f], f)
    BY <1>1, <1>2
  <2>2. PICK j : j = op[f]
    OBVIOUS
  <2>3. Defers(d, DeferBufferDrop(d, j, f), j, inflight)
    BY <1>2, <2>1, <2>2, DeferTends
  <2>4. QED
    BY <2>1, <2>2, <2>3
<1>4. ASSUME NEW g \in Tasks, fut'[g] = "queued" PROVE fut[g] = "queued" /\ Follows(g)
  <2>1. g # f /\ fut[g] = "queued" /\ op'[g] = op[g] /\ op[g] \in Nat /\ ready'[g] = ready[g]
    BY <1>1, <1>2, <1>4 DEF ReadyType
  <2>2. CASE op[f] # None /\ installed
    <3>1. op[g] < d.ring.next /\ op[g] # op[f]
      BY <2>1, <2>2, OtherOperation
    <3>2. /\ Tended(d, inflight, op[g]) => Tended(d', inflight, op[g])
          /\ op[g] \in d.waiters => op[g] \in d'.waiters
          /\ Due(d, inflight, op[g]) => Due(d', inflight, op[g])
      BY <1>3, <2>1, <2>2, <3>1 DEF Defers
    <3>3. QED
      BY <1>1, <2>1, <3>2, KeptFollows
  <2>3. CASE ~(op[f] # None /\ installed)
    BY <1>1, <2>1, <2>3, KeptFollows
  <2>4. QED
    BY <2>2, <2>3
<1>5. installed => Tidy'
  <2>1. SUFFICES ASSUME installed PROVE Tidy'
    OBVIOUS
  <2>2. Tidy
    BY <1>2, <2>1, TidyNow
  <2>3. CASE op[f] # None
    <3>1. op[f] < d.ring.next
      BY <2>1, <2>3 DEF UringInv, OwnInv, FutureInv, Own
    <3>2. QED
      BY <1>1, <1>3, <2>1, <2>2, <2>3, <3>1 DEF Tidy, Defers
  <2>4. CASE op[f] = None
    BY <1>1, <2>2, <2>4 DEF Tidy
  <2>5. QED
    BY <2>3, <2>4
<1>6. QED
  BY <1>1, <1>2, <1>4, <1>5, RunStep

\* A run finds the ring that the last one kept, or makes a new one: then no future is left.
LEMMA EnterStep ==
    ASSUME SleepInv, NoFutureLeft, NEW available \in BOOLEAN, Enter(available)
    PROVE  SleepInv'
<1>1. /\ exec = "out" /\ exec' = "poll" /\ runs < MaxRuns /\ UNCHANGED <<fut, op, inflight, ready, cur>>
      /\ installed' = (installed \/ available) /\ d' = (IF installed THEN d ELSE NewDispatcher)
  BY DEF Enter, future_vars
<1>2. CASE installed
  <2>1. UNCHANGED <<d, installed>> /\ Running
    BY <1>1, <1>2 DEF Running
  <2>2. \A f \in Tasks : fut'[f] = "queued" => Awaited(f)'
    BY <1>1, <1>2, <2>1 DEF SleepInv, Awaited, Tended, Due
  <2>3. QED
    BY <1>1, <1>2, <2>1, <2>2 DEF SleepInv
<1>3. CASE ~installed
  <2>1. \A f \in Tasks : fut'[f] # "queued"
    BY <1>1, <1>3 DEF NoFutureLeft, Futures
  <2>2. d'.ring.local = <<>> /\ d'.abandoned = {}
    BY <1>1, <1>3 DEF NewDispatcher, NewRing
  <2>3. QED
    BY <1>1, <2>1, <2>2 DEF SleepInv
<1>4. QED
  BY <1>2, <1>3

\* shutdown_current keeps the ring with all that is registered, or begins to drain it.
LEMMA ReturnStep ==
    ASSUME SleepInv, Return \/ CloseRing
    PROVE  SleepInv'
<1>1. /\ exec \in {"out", "poll", "check"} /\ ShutdownCurrent
      /\ UNCHANGED <<inflight, installed, fut, op, cur>>
  BY DEF Return, CloseRing
<1>2. CASE exec' = "out" /\ UNCHANGED <<d, ready>>
  <2>1. \A g \in Tasks : fut'[g] = "queued" => fut[g] = "queued" /\ Follows(g)
    BY <1>1, <1>2, KeptFollows
  <2>2. Running /\ (installed => Tidy')
    <3>1. Running
      BY <1>1 DEF Running
    <3>2. QED
      BY <1>2, <3>1, TidyNow DEF Tidy
  <2>3. QED
    BY <1>1, <1>2, <2>1, <2>2, RunStep
<1>3. CASE exec' = "drain"
  BY <1>3, NotRunning DEF Running
<1>4. QED
  BY <1>1, <1>2, <1>3 DEF ShutdownCurrent

\* While the ring is drained, and while a batch runs, the executor does not.
LEMMA ElsewhereStep ==
    ASSUME UringInv, DrainStep \/ DrainEnds \/ BatchEnter \/ BatchStep \/ BatchReturn
    PROVE  SleepInv'
<1>1. CASE DrainStep \/ DrainEnds
  <2>1. exec' \in {"drain", "drainwait"} \/ (exec' = "out" /\ ~installed')
    BY <1>1 DEF DrainStep, DrainSubmit, DrainWake, DrainEnds, FinishDrain
  <2>2. QED
    BY <2>1, NotRunning DEF Running
<1>2. ASSUME NEW f \in Batch, BatchCompleted(f) PROVE SleepInv'
  <2>1. f \in Futures /\ f \notin Tasks /\ cur = f
    BY <1>2, UringAssumption DEF Futures, Tasks, BatchCompleted
  <2>2. exec' = exec
    BY <1>2 DEF BatchCompleted, Returned, PollReady
  <2>3. QED
    BY <2>1, <2>2, PolledTask, NotRunning DEF Running
<1>3. CASE BatchEnter \/ BatchRefused \/ BatchStart \/ BatchWait \/ BatchWake \/ BatchReturn \/ BatchRelease
  <2>1. exec' \in {"queue", "release", "batch", "batchwait", "drain"}
    BY <1>3 DEF BatchEnter, BatchRefused, BatchStart, BatchWait, BatchWake, BatchReturn, BatchRelease
  <2>2. QED
    BY <2>1, NotRunning DEF Running
<1>4. CASE \E f \in Batch : BatchQueue(f) \/ BatchPoll(f) \/ BatchDrop(f)
  <2>1. exec \in {"queue", "batch", "release"} /\ exec' = exec
    BY <1>4 DEF BatchQueue, Queued, BatchPoll, BatchDrop
  <2>2. QED
    BY <2>1, NotRunning DEF Running
<1>5. QED
  BY <1>1, <1>2, <1>3, <1>4 DEF BatchStep

LEMMA SleepStep ==
    ASSUME UringInv, SleepInv, ReadyType, NoFutureLeft, BudgetCovers, [Next]_vars
    PROVE  SleepInv'
<1>1. CASE UNCHANGED vars
  <2>1. UNCHANGED <<d, inflight, installed, fut, op, ready, exec, cur>>
    BY <1>1 DEF vars
  <2>2. \A f \in Tasks : Awaited(f)' <=> Awaited(f)
    BY <2>1 DEF Awaited, Tended, Due
  <2>3. QED
    BY <2>1, <2>2 DEF SleepInv, Running
<1>2. CASE Kernel
  BY <1>2, PostStep DEF Kernel
<1>3. CASE \/ \E e \in detached : KernelEnds(e)
           \/ Again \/ Close \/ \E fs \in SUBSET Tasks : OtherWork(fs)
  BY <1>3, StillStep
<1>4. ASSUME NEW f \in Futures, Spawn(f) \/ Poll(f) \/ Cancel(f) \/ CloseTask(f) PROVE SleepInv'
  <2>1. CASE Spawn(f) \/ PollTask(f)
    BY <2>1, StillStep
  <2>2. CASE Cancel(f) \/ CloseTask(f)
    BY <2>2, GiveUpStep
  <2>3. CASE PollRefused(f) \/ EnsureQueuedRead(f) \/ EnsureQueuedWrite(f)
    BY <2>3, RefusedStep, EnsureQueuedStep
  <2>4. CASE PollPending(f) \/ PollError(f) \/ ReadExact(f) \/ WriteAll(f)
    BY <2>4, PendingStep, CompletionSteps
  <2>5. QED
    BY <1>4, <2>1, <2>2, <2>3, <2>4 DEF Poll
<1>5. CASE \E available \in BOOLEAN : Enter(available)
  BY <1>5, EnterStep
<1>6. CASE DriveReadyWork \/ WakeUp
  BY <1>6, DriveStep
<1>7. CASE Sleep
  BY <1>7, FallAsleep
<1>8. CASE Return \/ CloseRing
  BY <1>8, ReturnStep
<1>9. CASE DrainStep \/ DrainEnds \/ BatchEnter \/ BatchStep \/ BatchReturn
  BY <1>9, ElsewhereStep
<1>10. QED
  BY <1>1, <1>2, <1>3, <1>4, <1>5, <1>6, <1>7, <1>8, <1>9 DEF Next

\* What SleepInv says of an executor that waits
LEMMA AsleepFacts ==
    ASSUME UringInv, SleepInv
    PROVE  NoSleepOnCompletion
<1> SUFFICES ASSUME exec = "sleep", NEW f \in Tasks, fut[f] = "queued", ~ready[f]
             PROVE  /\ op[f] \in d.waiters
                    /\ \/ \E e \in inflight : e.id = op[f]
                       \/ \E i \in 1 .. Len(d.ring.cq) : d.ring.cq[i].id = op[f]
  BY DEF NoSleepOnCompletion
<1>1. installed /\ d.ring.local = <<>> /\ d.ring.sq = <<>> /\ Awaited(f)
  BY DEF SleepInv, Running
<1>2. cur # f
  BY UringAssumption DEF UringInv, CurInv, Tasks
<1>3. op[f] \in d.waiters /\ Due(d, inflight, op[f])
  BY <1>1, <1>2 DEF Awaited
<1>4. /\ d.ring.cq \in Seq(Completions) /\ Members(d.ring.cq) = {d.ring.cq[i] : i \in 1 .. Len(d.ring.cq)}
      /\ Members(d.ring.local) = {} /\ Members(d.ring.sq) = {}
  <2>1. d.ring.cq \in Seq(Completions)
    BY LiveFacts DEF UringInv
  <2>2. Members(d.ring.cq) = {d.ring.cq[i] : i \in 1 .. Len(d.ring.cq)}
    BY <2>1, MemberFacts, SMT
  <2>3. Members(d.ring.local) = {} /\ Members(d.ring.sq) = {}
    BY <1>1, SMT DEF Members
  <2>4. QED
    BY <2>1, <2>2, <2>3
<1>5. QED
  BY <1>3, <1>4 DEF Due, Posted

LEMMA SleepInit ==
    ASSUME Init
    PROVE  SleepInv /\ ReadyType
<1>1. exec = "out" /\ ~installed /\ ready = [f \in Futures |-> FALSE]
  BY DEF Init, InitAt
<1>2. QED
  BY <1>1 DEF SleepInv, ReadyType

\* The executor does not sleep past a completion (wait_for_reactor_event, submit_pending and
\* dispatch_available): if a dispatch within the budget takes all that is posted, and a new ring
\* finds no future of an earlier one, then while the executor waits the operation of every
\* waiting task is with the kernel or in the queue it waits on, with the task's waker registered.
THEOREM NeverSleepsOnCompletion ==
    Spec /\ []NoFutureLeft /\ []BudgetCovers => []NoSleepOnCompletion
<1>1. Init => UringInv /\ SleepInv /\ ReadyType
  BY UringInit, SleepInit
<1>2. UringInv /\ NoFutureLeft /\ [Next]_vars => UringInv'
  BY UringStep
<1>3. ReadyType /\ [Next]_vars => ReadyType'
  BY ReadyStep
<1>4. UringInv /\ SleepInv /\ ReadyType /\ NoFutureLeft /\ BudgetCovers /\ [Next]_vars => SleepInv'
  BY SleepStep
<1>5. UringInv /\ SleepInv => NoSleepOnCompletion
  BY AsleepFacts
<1>6. QED
  BY <1>1, <1>2, <1>3, <1>4, <1>5, PTL DEF Spec
=============================================================================
