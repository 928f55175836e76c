--------------------------- MODULE ServiceProofs ---------------------------
(***************************************************************************)
(* Proofs about ShardService for any number of shards, clients and         *)
(* commands, any capacity, and any service, and the proof that ShardedKv,  *)
(* built on it, implements one map.                                        *)
(***************************************************************************)
EXTENDS KvService, TLAPS

\* A leaf is first-order reasoning, Zenon's, unless it cites another prover.
USE Zenon

\* The head and the tail of a queue that is not empty, position by position.
LEMMA HeadAndTail ==
    ASSUME NEW S, NEW q \in Seq(S), q # <<>>
    PROVE  /\ 1 \in DOMAIN q /\ Head(q) = q[1]
           /\ Len(q) \in Nat /\ Len(Tail(q)) = Len(q) - 1
           /\ \A i \in DOMAIN Tail(q) : /\ i \in Nat /\ i + 1 \in DOMAIN q
                                        /\ Tail(q)[i] = q[i + 1]
           /\ \A j \in DOMAIN q : j # 1 => /\ j - 1 \in DOMAIN Tail(q)
                                           /\ Tail(q)[j - 1] = q[j]
<1>1. Len(q) \in Nat /\ Len(q) > 0 /\ DOMAIN q = 1 .. Len(q) /\ Head(q) = q[1]
  BY SMT
<1>2. Tail(q) \in Seq(S) /\ Len(Tail(q)) = Len(q) - 1 /\ DOMAIN Tail(q) = 1 .. (Len(q) - 1)
  BY <1>1, SMT
<1>3. \A i \in 1 .. (Len(q) - 1) : Tail(q)[i] = q[i + 1]
  BY <1>1, SMT
<1>4. 1 \in DOMAIN q
  BY <1>1, SMT
<1>5. \A i \in DOMAIN Tail(q) : i \in Nat /\ i + 1 \in DOMAIN q /\ Tail(q)[i] = q[i + 1]
  BY <1>1, <1>2, <1>3, SMT
<1>6. ASSUME NEW j \in DOMAIN q, j # 1
      PROVE  j - 1 \in DOMAIN Tail(q) /\ Tail(q)[j - 1] = q[j]
  <2>1. j \in Nat /\ j - 1 \in 1 .. (Len(q) - 1) /\ (j - 1) + 1 = j
    BY <1>1, <1>6, SMT
  <2>2. QED
    BY <1>2, <1>3, <2>1
<1>7. QED
  BY <1>1, <1>2, <1>4, <1>5, <1>6

Spots == {"recv", "run", "notify", "last_notify", "close", "drain", "drain_notify", "done"}
Phases == {"idle", "submit", "wait", "asleep", "join", "down"}
CallSet == Calls \cup {NoCall, StopAll}

Answers == {NoValue} \cup {Result(m, c) : m \in States, c \in Commands}
Replies == [value : Answers, sender_alive : BOOLEAN, waker : BOOLEAN]

\* The types on the side of the shards: where a shard works on an entry, it has one.
ShardTypes ==
    /\ mailbox \in [Shards -> Seq(Entries)]
    /\ spc \in [Shards -> Spots]
    /\ cur \in [Shards -> Entries \cup {NoEntry}]
    /\ waking \in [Shards -> BOOLEAN]
    /\ state \in [Shards -> States]
    /\ reply \in [Tickets -> Replies]
    /\ \A s \in Shards : spc[s] = "run" \/ Notifying(s) => cur[s] \in Entries

\* How far a process is in its call: while it submits a command is left to be sent, while it
\* waits one is left to be answered, and the owner has at most one underway.
Shape(p, ph, k, ts, m, n) ==
    /\ n <= m /\ m <= Len(ts)
    /\ Len(ts) = Len(k.commands)
    /\ ph = "submit" => m < Len(ts)
    /\ ph \in {"wait", "asleep"} => n < m /\ (p # Owner => m = Len(ts))
    /\ (p = Owner /\ ph # "idle") => k = StopAll
    /\ (p = Owner /\ ph = "submit") => m = n
    /\ (p = Owner /\ ph \in {"wait", "asleep"}) => m = n + 1

\* The types on the side of the callers.
ProcTypes ==
    /\ phase \in [Procs -> Phases]
    /\ call \in [Procs -> CallSet]
    /\ tickets \in [Procs -> Seq(Tickets)]
    /\ sent \in [Procs -> Nat]
    /\ taken \in [Procs -> Nat]
    /\ \A p \in Procs : Shape(p, phase[p], call[p], tickets[p], sent[p], taken[p])

TypeInv == ShardTypes /\ ProcTypes /\ stopped \in BOOLEAN /\ issued \in 0 .. MaxTickets

-----------------------------------------------------------------------------
\* Appending and removing the head keep a sequence over its set.
LEMMA SeqSteps ==
    ASSUME NEW S, NEW q \in Seq(S)
    PROVE  /\ Len(q) \in Nat
           /\ \A x \in S : Append(q, x) \in Seq(S)
           /\ q # <<>> => Tail(q) \in Seq(S) /\ Head(q) \in S
           /\ \A i \in 1 .. Len(q) : q[i] \in S
BY SMT

\* The calls that are made, and their lengths.
LEMMA CallShapes ==
    /\ \A k \in CallSet : k.commands \in Seq(Commands) /\ k.waits \in Waits
    /\ Len(NoCall.commands) = 0
    /\ StopAll.commands = [i \in 1 .. ShardCount |-> Stop(i - 1)]
    /\ Len(StopAll.commands) = ShardCount
    /\ StopAll.waits = "block"
<1>1. ShardCount \in Nat
  BY ServiceAssumption
<1>2. \A i \in 1 .. ShardCount : Stop(i - 1) \in Commands
  <2>1. SUFFICES ASSUME NEW i \in 1 .. ShardCount PROVE Stop(i - 1) \in Commands
    OBVIOUS
  <2>2. i - 1 \in Shards
    BY <1>1, SMT DEF Shards
  <2>3. QED
    BY <2>2, ServiceAssumption
<1>3. [i \in 1 .. ShardCount |-> Stop(i - 1)] \in Seq(Commands)
      /\ Len([i \in 1 .. ShardCount |-> Stop(i - 1)]) = ShardCount
  BY <1>1, <1>2, SMT
<1>4. StopAll.commands = [i \in 1 .. ShardCount |-> Stop(i - 1)] /\ StopAll.waits = "block"
  BY DEF StopAll, Call
<1>5. NoCall.commands = <<>> /\ NoCall.waits = "block"
  BY DEF NoCall, Call
<1>6. <<>> \in Seq(Commands) /\ Len(<<>>) = 0
  BY SMT
<1>7. \A k \in Calls : k.commands \in Seq(Commands) /\ k.waits \in Waits
  BY ServiceAssumption
<1>8. QED
  BY <1>3, <1>4, <1>5, <1>6, <1>7 DEF CallSet, Waits

\* A function that is given the value it already has does not change.
LEMMA Same == ASSUME NEW S, NEW T, NEW f \in [S -> T], NEW x \in S
              PROVE  [f EXCEPT ![x] = f[x]] = f
OBVIOUS

\* A step of one process keeps the types if its own new values have the shape.
LEMMA ProcStepTypes ==
    ASSUME ProcTypes, NEW p \in Procs, NEW ph \in Phases, NEW k \in CallSet,
           NEW ts \in Seq(Tickets), NEW m \in Nat, NEW n \in Nat,
           Shape(p, ph, k, ts, m, n),
           phase' = [phase EXCEPT ![p] = ph],
           call' = [call EXCEPT ![p] = k],
           tickets' = [tickets EXCEPT ![p] = ts],
           sent' = [sent EXCEPT ![p] = m],
           taken' = [taken EXCEPT ![p] = n]
    PROVE  ProcTypes'
<1>1. /\ phase' \in [Procs -> Phases]
      /\ call' \in [Procs -> CallSet]
      /\ tickets' \in [Procs -> Seq(Tickets)]
      /\ sent' \in [Procs -> Nat]
      /\ taken' \in [Procs -> Nat]
  BY DEF ProcTypes
<1>2. ASSUME NEW q \in Procs
      PROVE  Shape(q, phase'[q], call'[q], tickets'[q], sent'[q], taken'[q])
  <2>1. CASE q = p
    <3>1. phase'[q] = ph /\ call'[q] = k /\ tickets'[q] = ts /\ sent'[q] = m /\ taken'[q] = n
      BY <2>1 DEF ProcTypes
    <3>2. QED
      BY <2>1, <3>1
  <2>2. CASE q # p
    <3>1. phase'[q] = phase[q] /\ call'[q] = call[q] /\ tickets'[q] = tickets[q]
          /\ sent'[q] = sent[q] /\ taken'[q] = taken[q]
      BY <2>2 DEF ProcTypes
    <3>2. QED
      BY <3>1 DEF ProcTypes
  <2>3. QED
    BY <2>1, <2>2
<1>3. QED
  BY <1>1, <1>2 DEF ProcTypes

\* Entering a call keeps the types (reply_channel, once per command).
LEMMA EnterTypes ==
    ASSUME TypeInv, NEW p \in Procs, NEW k \in CallSet, Enter(p, k), k.commands # <<>>,
           p = Owner => k = StopAll
    PROVE  ProcTypes' /\ issued' \in 0 .. MaxTickets
<1> DEFINE ts == [i \in 1 .. Len(k.commands) |-> issued + i]
<1>1. MaxTickets \in Nat /\ issued \in Nat
  BY ServiceAssumption, SMT DEF TypeInv
<1>2. k.commands \in Seq(Commands) /\ Len(k.commands) \in Nat /\ Len(k.commands) > 0
  <2>1. k.commands \in Seq(Commands)
    BY CallShapes
  <2>2. QED
    BY <2>1, SMT
<1>3. issued + Len(k.commands) <= MaxTickets
  BY DEF Enter
<1>4. \A i \in 1 .. Len(k.commands) : issued + i \in Tickets
  BY <1>1, <1>2, <1>3, SMT DEF Tickets
<1>5. ts \in Seq(Tickets) /\ Len(ts) = Len(k.commands)
  BY <1>2, <1>4, SMT
<1>6. Shape(p, "submit", k, ts, 0, 0)
  BY <1>2, <1>5, SMT DEF Shape
<1> HIDE DEF ts
<1>7. ProcTypes'
  <2>1. /\ phase' = [phase EXCEPT ![p] = "submit"]
        /\ call' = [call EXCEPT ![p] = k]
        /\ tickets' = [tickets EXCEPT ![p] = ts]
        /\ sent' = [sent EXCEPT ![p] = 0]
        /\ taken' = [taken EXCEPT ![p] = 0]
    BY DEF Enter, ts
  <2>2. "submit" \in Phases /\ 0 \in Nat
    BY DEF Phases
  <2>3. QED
    BY <1>5, <1>6, <2>1, <2>2, ProcStepTypes DEF TypeInv
<1>8. QED
  BY <1>1, <1>2, <1>3, <1>7, SMT DEF Enter

\* Leaving a call keeps the types.
LEMMA LeaveTypes ==
    ASSUME TypeInv, NEW p \in Procs, Leave(p)
    PROVE  ProcTypes'
<1>1. "idle" \in Phases /\ NoCall \in CallSet /\ <<>> \in Seq(Tickets) /\ 0 \in Nat
  BY SMT DEF Phases, CallSet
<1>2. Shape(p, "idle", NoCall, <<>>, 0, 0)
  BY CallShapes, SMT DEF Shape
<1>3. QED
  BY <1>1, <1>2, ProcStepTypes DEF TypeInv, Leave

\* Going on with the next shard, or to the join, keeps the types (stop_and_join).
LEMMA NextStopTypes ==
    ASSUME TypeInv, phase[Owner] \in {"submit", "wait", "asleep"}, NextStop(taken[Owner] + 1)
    PROVE  ProcTypes'
<1> DEFINE n == taken[Owner] + 1
           ph == IF n = ShardCount THEN "join" ELSE "submit"
<1>1. Owner \in Procs
  BY DEF Procs
<1>2. /\ taken[Owner] \in Nat /\ sent[Owner] \in Nat
      /\ call[Owner] \in CallSet /\ tickets[Owner] \in Seq(Tickets)
      /\ Shape(Owner, phase[Owner], call[Owner], tickets[Owner], sent[Owner], taken[Owner])
  BY <1>1 DEF TypeInv, ProcTypes
<1>3. call[Owner] = StopAll /\ Len(tickets[Owner]) = ShardCount /\ ShardCount \in Nat
  BY <1>2, CallShapes, ServiceAssumption DEF Shape
<1>4. n \in Nat /\ n <= ShardCount
  BY <1>2, <1>3, SMT DEF Shape
<1>5. ph \in Phases
  BY DEF Phases
<1>6. Shape(Owner, ph, call[Owner], tickets[Owner], n, n)
  BY <1>2, <1>3, <1>4, SMT DEF Shape
<1>7. call = [call EXCEPT ![Owner] = call[Owner]]
      /\ tickets = [tickets EXCEPT ![Owner] = tickets[Owner]]
  BY <1>1, Same DEF TypeInv, ProcTypes
<1>8. /\ phase' = [phase EXCEPT ![Owner] = ph]
      /\ call' = [call EXCEPT ![Owner] = call[Owner]]
      /\ tickets' = [tickets EXCEPT ![Owner] = tickets[Owner]]
      /\ sent' = [sent EXCEPT ![Owner] = n]
      /\ taken' = [taken EXCEPT ![Owner] = n]
  BY <1>7 DEF NextStop
<1> HIDE DEF n, ph
<1>9. QED
  BY <1>1, <1>2, <1>4, <1>5, <1>6, <1>8, ProcStepTypes DEF TypeInv

\* So does the end of a command that failed.
LEMMA FailTypes ==
    ASSUME TypeInv, NEW p \in Procs, phase[p] \in {"submit", "wait", "asleep"}, Fail(p)
    PROVE  ProcTypes'
BY LeaveTypes, NextStopTypes DEF Fail

\* What the types say of one process.
LEMMA ProcFacts ==
    ASSUME TypeInv, NEW p \in Procs
    PROVE  /\ phase[p] \in Phases
           /\ call[p] \in CallSet
           /\ tickets[p] \in Seq(Tickets)
           /\ sent[p] \in Nat
           /\ taken[p] \in Nat
           /\ Len(tickets[p]) \in Nat
           /\ Shape(p, phase[p], call[p], tickets[p], sent[p], taken[p])
BY SMT DEF TypeInv, ProcTypes

\* The reply that a waiting process awaits is one of its own.
LEMMA AwaitedType ==
    ASSUME TypeInv, NEW p \in Procs, phase[p] \in {"wait", "asleep"}
    PROVE  /\ Awaited(p) \in Tickets
           /\ taken[p] + 1 \in taken[p] + 1 .. sent[p]
<1>1. taken[p] + 1 \in 1 .. Len(tickets[p]) /\ taken[p] + 1 <= sent[p]
  BY ProcFacts, SMT DEF Shape
<1>2. QED
  BY <1>1, ProcFacts, SMT DEF Awaited

\* A process that only changes its phase keeps the types, if the shape allows it.
LEMMA PhaseTypes ==
    ASSUME TypeInv, NEW p \in Procs, NEW ph \in Phases,
           Shape(p, ph, call[p], tickets[p], sent[p], taken[p]),
           phase' = [phase EXCEPT ![p] = ph], UNCHANGED <<call, tickets, sent, taken>>
    PROVE  ProcTypes'
<1>1. phase' \in [Procs -> Phases]
  BY DEF TypeInv, ProcTypes
<1>2. ASSUME NEW q \in Procs
      PROVE  Shape(q, phase'[q], call[q], tickets[q], sent[q], taken[q])
  <2>1. phase'[q] = IF q = p THEN ph ELSE phase[q]
    BY DEF TypeInv, ProcTypes
  <2>2. QED
    BY <2>1, ProcFacts
<1>3. QED
  BY <1>1, <1>2 DEF TypeInv, ProcTypes

\* Sending a command keeps the callers' types.
LEMMA SubmitTypes ==
    ASSUME TypeInv, NEW p \in Procs, Submit(p)
    PROVE  ProcTypes'
<1> DEFINE i == sent[p] + 1
           ph == IF p = Owner \/ i = Len(call[p].commands) THEN "wait" ELSE phase[p]
<1>1. phase[p] = "submit" /\ ph \in Phases /\ i \in Nat
  <2>1. phase[p] = "submit" /\ sent[p] \in Nat
    BY ProcFacts DEF Submit
  <2>2. QED
    BY <2>1, SMT DEF Phases
<1>2. Shape(p, ph, call[p], tickets[p], i, taken[p])
  BY <1>1, ProcFacts, SMT DEF Shape
<1>3. /\ call' = [call EXCEPT ![p] = call[p]]
      /\ tickets' = [tickets EXCEPT ![p] = tickets[p]]
      /\ taken' = [taken EXCEPT ![p] = taken[p]]
  BY Same DEF TypeInv, ProcTypes, Submit
<1>4. sent' = [sent EXCEPT ![p] = i] /\ phase' = [phase EXCEPT ![p] = ph]
  <2>1. phase \in [Procs -> Phases]
    BY DEF TypeInv, ProcTypes
  <2>2. QED
    BY <2>1 DEF Submit
<1> HIDE DEF i, ph
<1>5. ProcTypes /\ call[p] \in CallSet /\ tickets[p] \in Seq(Tickets)
      /\ sent[p] \in Nat /\ taken[p] \in Nat
  BY ProcFacts DEF TypeInv
<1>6. QED
  BY <1>1, <1>2, <1>3, <1>4, <1>5, ProcStepTypes

\* Receiving an answer keeps the callers' types.
LEMMA TakeTypes ==
    ASSUME TypeInv, NEW p \in Procs, Take(p)
    PROVE  ProcTypes'
<1> DEFINE n == taken[p] + 1
<1>1. phase[p] = "wait"
  BY DEF Take
<1>2. CASE p = Owner
  BY <1>1, <1>2, NextStopTypes DEF Take
<1>3. CASE p # Owner /\ n = Len(call[p].commands)
  BY <1>3, LeaveTypes DEF Take
<1>4. CASE p # Owner /\ n # Len(call[p].commands)
  <2>1. taken' = [taken EXCEPT ![p] = n] /\ UNCHANGED <<phase, call, tickets, sent>>
    BY <1>4 DEF Take
  <2>2. Shape(p, phase[p], call[p], tickets[p], sent[p], n) /\ n \in Nat
    BY <1>1, <1>4, ProcFacts, SMT DEF Shape
  <2>3. taken' \in [Procs -> Nat]
    BY <2>1, <2>2 DEF TypeInv, ProcTypes
  <2>4. ASSUME NEW q \in Procs
        PROVE  Shape(q, phase[q], call[q], tickets[q], sent[q], taken'[q])
    <3>1. taken'[q] = IF q = p THEN n ELSE taken[q]
      BY <2>1 DEF TypeInv, ProcTypes
    <3>2. QED
      BY <2>2, <3>1, ProcFacts
  <2>5. QED
    BY <2>1, <2>3, <2>4 DEF TypeInv, ProcTypes
<1>5. QED
  BY <1>2, <1>3, <1>4

\* Being woken keeps the callers' types, for all that are woken at once.
LEMMA NotifyTypes ==
    ASSUME TypeInv, NEW s \in Shards, Notify(s)
    PROVE  ProcTypes'
<1>1. phase' \in [Procs -> Phases] /\ UNCHANGED <<call, tickets, sent, taken>>
  BY DEF TypeInv, ProcTypes, Notify, Phases
<1>2. ASSUME NEW q \in Procs
      PROVE  Shape(q, phase'[q], call[q], tickets[q], sent[q], taken[q])
  <2>1. phase'[q] = phase[q] \/ (phase[q] = "asleep" /\ phase'[q] = "wait")
    BY DEF Notify, Wakes
  <2>2. QED
    BY <2>1, ProcFacts DEF Shape
<1>3. QED
  BY <1>1, <1>2 DEF TypeInv, ProcTypes

-----------------------------------------------------------------------------
\* What a service answers is an answer, and never no value.
LEMMA AnswerType ==
    /\ NoValue \in Answers
    /\ \A m \in States, c \in Commands : Result(m, c) \in Answers /\ Result(m, c) # NoValue
BY ServiceAssumption, SMT DEF Answers

\* Settling a reply keeps the replies and the wakers typed (ReplySender::send and drop).
LEMMA SettleTypes ==
    ASSUME ShardTypes, NEW s \in Shards, NEW t \in Tickets, NEW v \in Answers, Settle(s, t, v)
    PROVE  reply' \in [Tickets -> Replies] /\ waking' \in [Shards -> BOOLEAN]
<1>1. [value |-> v, sender_alive |-> FALSE, waker |-> FALSE] \in Replies
  BY DEF Replies
<1>2. reply[t].waker \in BOOLEAN
  BY DEF ShardTypes, Replies
<1>3. QED
  BY <1>1, <1>2 DEF ShardTypes, Settle

\* Sending a command keeps the shards' types.
LEMMA SubmitShardTypes ==
    ASSUME TypeInv, NEW p \in Procs, Submit(p)
    PROVE  ShardTypes'
<1> DEFINE i == sent[p] + 1
           c == call[p].commands[i]
           e == [command |-> c, ticket |-> tickets[p][i]]
<1>1. i \in 1 .. Len(tickets[p]) /\ i \in 1 .. Len(call[p].commands)
  <2>1. phase[p] = "submit"
    BY DEF Submit
  <2>2. QED
    BY <2>1, ProcFacts, SMT DEF Shape
<1>2. call[p].commands \in Seq(Commands)
  BY ProcFacts, CallShapes
<1>3. e \in Entries
  BY <1>1, <1>2, ProcFacts, SMT DEF Entries
<1>4. c.shard \in Shards /\ mailbox' = [mailbox EXCEPT ![c.shard] = Append(@, e)]
      /\ UNCHANGED <<spc, cur, waking, state, reply>>
  BY DEF Submit
<1> HIDE DEF c, e
<1>5. mailbox' \in [Shards -> Seq(Entries)]
  BY <1>3, <1>4, SMT DEF TypeInv, ShardTypes
<1>6. QED
  BY <1>4, <1>5 DEF TypeInv, ShardTypes, Notifying

\* Receiving an answer keeps the shards' types.
LEMMA TakeShardTypes ==
    ASSUME TypeInv, NEW p \in Procs, Take(p)
    PROVE  ShardTypes'
<1>1. Awaited(p) \in Tickets
  BY AwaitedType DEF Take
<1>2. reply' = [reply EXCEPT ![Awaited(p)].value = NoValue] /\ UNCHANGED shardVars
  BY DEF Take
<1>3. reply' \in [Tickets -> Replies]
  BY <1>1, <1>2, AnswerType DEF TypeInv, ShardTypes, Replies
<1>4. QED
  BY <1>2, <1>3 DEF TypeInv, ShardTypes, shardVars, Notifying

\* Leaving a waker keeps the shards' types.
LEMMA SleepShardTypes ==
    ASSUME TypeInv, NEW p \in Procs, Sleep(p)
    PROVE  ShardTypes'
<1>1. Awaited(p) \in Tickets
  BY AwaitedType DEF Sleep
<1>2. reply' = [reply EXCEPT ![Awaited(p)].waker = @ \/ call[p].waits = "async"]
      /\ UNCHANGED shardVars
  BY DEF Sleep
<1>3. reply' \in [Tickets -> Replies]
  BY <1>1, <1>2 DEF TypeInv, ShardTypes, Replies
<1>4. QED
  BY <1>2, <1>3 DEF TypeInv, ShardTypes, shardVars, Notifying

\* The steps of a shard keep its types: it takes an entry from its mailbox,
LEMMA RecvTypes ==
    ASSUME TypeInv, NEW s \in Shards, Recv(s)
    PROVE  ShardTypes'
<1>1. mailbox[s] \in Seq(Entries) /\ mailbox[s] # <<>>
  BY DEF TypeInv, ShardTypes, Recv
<1>2. Head(mailbox[s]) \in Entries /\ Tail(mailbox[s]) \in Seq(Entries)
  BY <1>1, SMT
<1>3. mailbox' \in [Shards -> Seq(Entries)] /\ cur' \in [Shards -> Entries \cup {NoEntry}]
  BY <1>2 DEF TypeInv, ShardTypes, Recv
<1>4. spc' \in [Shards -> Spots]
  BY DEF TypeInv, ShardTypes, Recv, Spots
<1>5. \A q \in Shards : spc'[q] = "run" \/ Notifying(q)' => cur'[q] \in Entries
  BY <1>2 DEF TypeInv, ShardTypes, Recv, Notifying
<1>6. QED
  BY <1>3, <1>4, <1>5 DEF TypeInv, ShardTypes, Recv

\* works on it,
LEMMA RunTypes ==
    ASSUME TypeInv, NEW s \in Shards, Run(s)
    PROVE  ShardTypes'
<1> DEFINE c == cur[s].command
           t == cur[s].ticket
           v == IF Panics(state[s], c) THEN NoValue ELSE Result(state[s], c)
<1>1. cur[s] \in Entries /\ state[s] \in States
  BY DEF TypeInv, ShardTypes, Run
<1>2. c \in Commands /\ t \in Tickets
  BY <1>1 DEF Entries
<1>3. v \in Answers
  BY <1>1, <1>2, AnswerType
<1>4. Settle(s, t, v)
  BY DEF Run
<1>5. Effect(state[s], c) \in States
  BY <1>1, <1>2, ServiceAssumption
<1>6. state' \in [Shards -> States]
  BY <1>1, <1>5 DEF TypeInv, ShardTypes, Run
<1> HIDE DEF v, t
<1>7. reply' \in [Tickets -> Replies] /\ waking' \in [Shards -> BOOLEAN]
  BY <1>2, <1>3, <1>4, SettleTypes DEF TypeInv
<1>8. spc' \in [Shards -> Spots]
  BY DEF TypeInv, ShardTypes, Run, Spots
<1>9. \A q \in Shards : spc'[q] = "run" \/ Notifying(q)' => cur'[q] \in Entries
  BY <1>1 DEF TypeInv, ShardTypes, Run, Notifying
<1>10. QED
  BY <1>6, <1>7, <1>8, <1>9 DEF TypeInv, ShardTypes, Run

\* tells the one who waits,
LEMMA NotifyShardTypes ==
    ASSUME TypeInv, NEW s \in Shards, Notify(s)
    PROVE  ShardTypes'
<1>1. cur' \in [Shards -> Entries \cup {NoEntry}] /\ waking' \in [Shards -> BOOLEAN]
  BY DEF TypeInv, ShardTypes, Notify
<1>2. spc' \in [Shards -> Spots]
  BY DEF TypeInv, ShardTypes, Notify, Spots
<1>3. \A q \in Shards : spc'[q] = "run" \/ Notifying(q)' => cur'[q] \in Entries
  BY DEF TypeInv, ShardTypes, Notify, Notifying
<1>4. QED
  BY <1>1, <1>2, <1>3 DEF TypeInv, ShardTypes, Notify

\* leaves its loop, and ends.
LEMMA CloseTypes ==
    ASSUME TypeInv, NEW s \in Shards, Close(s) \/ ThreadEnds(s)
    PROVE  ShardTypes'
<1>1. spc' \in [Shards -> Spots] /\ UNCHANGED <<mailbox, cur, waking, state, reply>>
  BY DEF TypeInv, ShardTypes, Close, ThreadEnds, Spots
<1>2. \A q \in Shards : spc'[q] = "run" \/ Notifying(q)' => cur'[q] \in Entries
  BY DEF TypeInv, ShardTypes, Close, ThreadEnds, Notifying
<1>3. QED
  BY <1>1, <1>2 DEF TypeInv, ShardTypes

\* Dropping a queued command keeps the types.
LEMMA DrainTypes ==
    ASSUME TypeInv, NEW s \in Shards, Drain(s)
    PROVE  ShardTypes'
<1>1. mailbox[s] \in Seq(Entries) /\ mailbox[s] # <<>>
  BY DEF TypeInv, ShardTypes, Drain
<1>2. Head(mailbox[s]) \in Entries /\ Tail(mailbox[s]) \in Seq(Entries)
  BY <1>1, SMT
<1>3. Head(mailbox[s]).ticket \in Tickets
  BY <1>2 DEF Entries
<1>4. reply' \in [Tickets -> Replies] /\ waking' \in [Shards -> BOOLEAN]
  BY <1>3, AnswerType, SettleTypes DEF TypeInv, Drain
<1>5. mailbox' \in [Shards -> Seq(Entries)] /\ cur' \in [Shards -> Entries \cup {NoEntry}]
  BY <1>2 DEF TypeInv, ShardTypes, Drain
<1>6. spc' \in [Shards -> Spots]
  BY DEF TypeInv, ShardTypes, Drain, Spots
<1>7. \A q \in Shards : spc'[q] = "run" \/ Notifying(q)' => cur'[q] \in Entries
  BY <1>2 DEF TypeInv, ShardTypes, Drain, Notifying
<1>8. QED
  BY <1>4, <1>5, <1>6, <1>7 DEF TypeInv, ShardTypes, Drain

\* Who only looks at a reply, or gives up on it, changes nothing of the shards.
LEMMA SameShards ==
    ASSUME ShardTypes, UNCHANGED <<shardVars, reply>>
    PROVE  ShardTypes'
BY DEF ShardTypes, shardVars, Notifying

LEMMA SameProcs ==
    ASSUME ProcTypes, UNCHANGED procVars
    PROVE  ProcTypes'
BY DEF ProcTypes, procVars

LEMMA TypesInit == Init => TypeInv
<1> SUFFICES ASSUME Init PROVE TypeInv
  OBVIOUS
<1>1. [value |-> NoValue, sender_alive |-> TRUE, waker |-> FALSE] \in Replies
  BY AnswerType DEF Replies
<1>2. ShardTypes
  BY <1>1, ServiceAssumption, SMT DEF Init, ShardTypes, Spots, Notifying
<1>3. \A p \in Procs : Shape(p, "idle", NoCall, <<>>, 0, 0)
  BY CallShapes, SMT DEF Shape
<1>4. ProcTypes
  BY <1>3, SMT DEF Init, ProcTypes, Phases, CallSet
<1>5. stopped \in BOOLEAN /\ issued \in 0 .. MaxTickets
  <2>1. stopped \in BOOLEAN
    BY DEF Init
  <2>2. MaxTickets \in Nat /\ issued = 0
    BY ServiceAssumption DEF Init
  <2>3. issued \in 0 .. MaxTickets
    BY <2>2, SMT
  <2>4. QED
    BY <2>1, <2>3
<1>6. QED
  BY <1>2, <1>4, <1>5 DEF TypeInv

\* Every step keeps the types, one case per action.
LEMMA TypesStep == TypeInv /\ [Next]_vars => TypeInv'
<1> SUFFICES ASSUME TypeInv, [Next]_vars PROVE TypeInv'
  OBVIOUS
<1> USE DEF TypeInv
<1>1. ASSUME NEW c \in Clients, NEW k \in Calls, Begin(c, k) PROVE TypeInv'
  <2>1. c \in Procs /\ c # Owner /\ k \in CallSet /\ k.commands # <<>>
    BY ServiceAssumption DEF Procs, CallSet
  <2>2. Enter(c, k) /\ UNCHANGED stopped
    BY <1>1 DEF Begin
  <2>3. ProcTypes' /\ issued' \in 0 .. MaxTickets
    BY <2>1, <2>2, EnterTypes
  <2>4. ShardTypes'
    BY <2>2, SameShards DEF Enter
  <2>5. QED
    BY <2>2, <2>3, <2>4
<1>2. ASSUME NEW p \in Procs, Submit(p) PROVE TypeInv'
  BY <1>2, SubmitTypes, SubmitShardTypes DEF Submit
<1>3. ASSUME NEW p \in Procs, Refuse(p) PROVE TypeInv'
  BY <1>3, FailTypes, SameShards DEF Refuse
<1>4. ASSUME NEW p \in Procs, Take(p) PROVE TypeInv'
  BY <1>4, TakeTypes, TakeShardTypes DEF Take
<1>5. ASSUME NEW p \in Procs, ReplyFailed(p) PROVE TypeInv'
  BY <1>5, FailTypes, SameShards DEF ReplyFailed
<1>6. ASSUME NEW p \in Procs, Sleep(p) PROVE TypeInv'
  <2>1. phase[p] = "wait" /\ phase' = [phase EXCEPT ![p] = "asleep"]
        /\ UNCHANGED <<call, tickets, sent, taken, stopped, issued>>
    BY <1>6 DEF Sleep
  <2>2. Shape(p, "asleep", call[p], tickets[p], sent[p], taken[p]) /\ "asleep" \in Phases
    BY <2>1, ProcFacts DEF Shape, Phases
  <2>3. ProcTypes'
    BY <2>1, <2>2, PhaseTypes
  <2>4. QED
    BY <1>6, <2>1, <2>3, SleepShardTypes
<1>7. ASSUME NEW p \in Procs, Stir(p) PROVE TypeInv'
  <2>1. phase[p] = "asleep" /\ phase' = [phase EXCEPT ![p] = "wait"]
        /\ UNCHANGED <<shardVars, reply, call, tickets, sent, taken, stopped, issued>>
    BY <1>7 DEF Stir
  <2>2. Shape(p, "wait", call[p], tickets[p], sent[p], taken[p]) /\ "wait" \in Phases
    BY <2>1, ProcFacts DEF Shape, Phases
  <2>3. ProcTypes'
    BY <2>1, <2>2, PhaseTypes
  <2>4. QED
    BY <2>1, <2>3, SameShards
<1>8. ASSUME NEW p \in Procs, TimeOut(p) PROVE TypeInv'
  BY <1>8, FailTypes, SameShards DEF TimeOut
<1>9. ASSUME NEW c \in Clients, DropReply(c) PROVE TypeInv'
  BY <1>9, LeaveTypes, SameShards DEF DropReply, Procs
<1>10. ASSUME NEW s \in Shards, Recv(s) PROVE TypeInv'
  BY <1>10, RecvTypes, SameProcs DEF Recv
<1>11. ASSUME NEW s \in Shards, Run(s) PROVE TypeInv'
  BY <1>11, RunTypes, SameProcs DEF Run
<1>12. ASSUME NEW s \in Shards, Notify(s) PROVE TypeInv'
  BY <1>12, NotifyTypes, NotifyShardTypes DEF Notify
<1>13. ASSUME NEW s \in Shards, Close(s) \/ ThreadEnds(s) PROVE TypeInv'
  BY <1>13, CloseTypes, SameProcs DEF Close, ThreadEnds
<1>14. ASSUME NEW s \in Shards, Drain(s) PROVE TypeInv'
  BY <1>14, DrainTypes, SameProcs DEF Drain
<1>15. ASSUME Shutdown PROVE TypeInv'
  <2>1. Owner \in Procs /\ StopAll \in CallSet
    BY DEF Procs, CallSet
  <2>2. StopAll.commands # <<>>
    BY CallShapes, ServiceAssumption
  <2>3. Enter(Owner, StopAll) /\ stopped' = TRUE
    BY <1>15 DEF Shutdown
  <2>4. ProcTypes' /\ issued' \in 0 .. MaxTickets
    BY <2>1, <2>2, <2>3, EnterTypes
  <2>5. QED
    BY <2>3, <2>4, SameShards DEF Enter
<1>16. ASSUME Join PROVE TypeInv'
  <2>1. Owner \in Procs /\ phase[Owner] = "join" /\ phase' = [phase EXCEPT ![Owner] = "down"]
        /\ UNCHANGED <<shardVars, reply, call, tickets, sent, taken, stopped, issued>>
    BY <1>16 DEF Join, Procs
  <2>2. Shape(Owner, "down", call[Owner], tickets[Owner], sent[Owner], taken[Owner])
        /\ "down" \in Phases
    BY <2>1, ProcFacts DEF Shape, Phases
  <2>3. ProcTypes'
    BY <2>1, <2>2, PhaseTypes
  <2>4. QED
    BY <2>1, <2>3, SameShards
<1>17. ASSUME UNCHANGED vars PROVE TypeInv'
  BY <1>17, SameShards, SameProcs DEF vars, procVars
<1>18. QED
  BY <1>1, <1>2, <1>3, <1>4, <1>5, <1>6, <1>7, <1>8, <1>9, <1>10, <1>11, <1>12, <1>13,
     <1>14, <1>15, <1>16, <1>17 DEF Next, ProcStep, ShardStep

LEMMA TypesHold == Spec => []TypeInv
BY TypesInit, TypesStep, PTL DEF Spec

\* The types of the reply channels, the mailboxes and the callers hold in every state, and no
\* call awaits a reply whose command it did not send.
THEOREM TypeCorrect == Spec => []TypeOK
<1>1. TypeInv => TypeOK
  <2> SUFFICES ASSUME TypeInv PROVE TypeOK
    OBVIOUS
  <2>1. \A t \in Tickets : /\ DOMAIN reply[t] = {"value", "sender_alive", "waker"}
                           /\ reply[t].sender_alive \in BOOLEAN
                           /\ reply[t].waker \in BOOLEAN
    BY DEF TypeInv, ShardTypes, Replies
  <2>2. \A p \in Procs : taken[p] <= sent[p] /\ sent[p] <= Len(tickets[p])
    BY ProcFacts DEF Shape
  <2>3. QED
    BY <2>1, <2>2 DEF TypeOK, TypeInv, ShardTypes, ProcTypes, Spots, Phases, CallSet
<1>2. QED
  BY <1>1, TypesHold, PTL

-----------------------------------------------------------------------------
(* Shutdown *)

\* Only the shutdown stops shards, and nothing panics.
NoEarlyStop ==
    /\ \A k \in Calls : \A i \in DOMAIN k.commands : k.commands[i].op # "stop"
    /\ \A m \in States, c \in Commands : ~Panics(m, c)

\* The owner starts with the first shard, and clients do not send once it has started.
OwnerFirst == ~stopped => phase[Owner] = "idle" /\ sent[Owner] = 0
ClientsQuiet ==
    \A c \in Clients : call[c] \in Calls \cup {NoCall} /\ (stopped => phase[c] # "submit")

IsStop(e) == e.command.op = "stop"

\* Shard s has not been told to stop,
Untold(s) ==
    /\ \A i \in DOMAIN mailbox[s] : ~IsStop(mailbox[s][i])
    /\ spc[s] \in {"recv", "run", "notify"}
    /\ spc[s] = "run" => ~IsStop(cur[s])

\* or has a stop command at the end of its mailbox,
StopAtEnd(s) == \A i \in DOMAIN mailbox[s] : IsStop(mailbox[s][i]) => i = Len(mailbox[s])

\* or has taken it from there.
Stopping(s) == (spc[s] = "run" /\ IsStop(cur[s])) \/ spc[s] \notin {"recv", "run", "notify"}

ShardStop(s) ==
    /\ s >= sent[Owner] => Untold(s)
    /\ StopAtEnd(s)
    /\ Stopping(s) => mailbox[s] = <<>>

StopInv == OwnerFirst /\ ClientsQuiet /\ \A s \in Shards : ShardStop(s)

\* What a step of a caller other than sending changes for shutdown: the owner counts on, and
\* no client begins to send.
CallersQuiet ==
    /\ OwnerFirst'
    /\ ClientsQuiet'
    /\ sent'[Owner] \in Nat /\ sent'[Owner] >= sent[Owner]

LEMMA CallersStop ==
    ASSUME TypeInv, StopInv, CallersQuiet, UNCHANGED <<mailbox, spc, cur>>
    PROVE  StopInv'
<1>1. sent[Owner] \in Nat
  BY ProcFacts DEF Procs
<1>2. ASSUME NEW s \in Shards PROVE ShardStop(s)'
  <2>1. ShardStop(s) /\ s \in Int
    BY SMT DEF StopInv, Shards
  <2>2. s >= sent'[Owner] => s >= sent[Owner]
    BY <1>1, <2>1, SMT DEF CallersQuiet
  <2>3. QED
    BY <2>1, <2>2 DEF ShardStop, Untold, StopAtEnd, Stopping, IsStop
<1>3. QED
  BY <1>2 DEF StopInv, CallersQuiet

\* A client that leaves its call, and the owner that goes on, are quiet.
LEMMA LeaveQuiet ==
    ASSUME TypeInv, StopInv, NEW c \in Clients, Leave(c), UNCHANGED stopped
    PROVE  CallersQuiet
<1>1. c # Owner /\ c \in Procs /\ Owner \in Procs
  BY ServiceAssumption DEF Procs
<1>2. sent'[Owner] = sent[Owner] /\ phase'[Owner] = phase[Owner] /\ sent[Owner] \in Nat
  BY <1>1, ProcFacts DEF Leave, TypeInv, ProcTypes
<1>3. OwnerFirst'
  BY <1>2 DEF StopInv, OwnerFirst
<1>4. ClientsQuiet'
  BY <1>1 DEF StopInv, ClientsQuiet, Leave, TypeInv, ProcTypes, Procs
<1>5. QED
  BY <1>2, <1>3, <1>4, SMT DEF CallersQuiet

LEMMA NextStopQuiet ==
    ASSUME TypeInv, StopInv, phase[Owner] \in {"submit", "wait", "asleep"},
           NextStop(taken[Owner] + 1), UNCHANGED stopped
    PROVE  CallersQuiet
<1>1. Owner \in Procs /\ Owner \notin Clients
  BY ServiceAssumption DEF Procs
<1>2. stopped
  BY DEF StopInv, OwnerFirst
<1>3. sent'[Owner] \in Nat /\ sent'[Owner] >= sent[Owner]
  <2>1. sent'[Owner] = taken[Owner] + 1
    BY <1>1 DEF NextStop, TypeInv, ProcTypes
  <2>2. sent[Owner] <= taken[Owner] + 1
    BY <1>1, ProcFacts, SMT DEF Shape
  <2>3. QED
    BY <1>1, <2>1, <2>2, ProcFacts, SMT
<1>4. ClientsQuiet'
  BY <1>1 DEF StopInv, ClientsQuiet, NextStop, TypeInv, ProcTypes, Procs
<1>5. QED
  BY <1>2, <1>3, <1>4 DEF CallersQuiet, OwnerFirst

LEMMA FailQuiet ==
    ASSUME TypeInv, StopInv, NEW p \in Procs, phase[p] \in {"submit", "wait", "asleep"},
           Fail(p), UNCHANGED stopped
    PROVE  CallersQuiet
<1>1. CASE p = Owner
  BY <1>1, NextStopQuiet DEF Fail
<1>2. CASE p # Owner
  BY <1>2, LeaveQuiet DEF Fail, Procs
<1>3. QED
  BY <1>1, <1>2

\* A process that only changes its phase, and not to submit, is quiet.
LEMMA PhaseQuiet ==
    ASSUME TypeInv, StopInv, NEW p \in Procs, NEW ph, ph # "submit", phase[p] # "idle",
           phase' = [phase EXCEPT ![p] = ph], UNCHANGED <<call, sent, stopped>>
    PROVE  CallersQuiet
<1>1. Owner \in Procs /\ sent[Owner] \in Nat
  BY ProcFacts DEF Procs
<1>2. OwnerFirst'
  BY <1>1 DEF StopInv, OwnerFirst, TypeInv, ProcTypes
<1>3. ClientsQuiet'
  BY DEF StopInv, ClientsQuiet, TypeInv, ProcTypes, Procs
<1>4. QED
  BY <1>1, <1>2, <1>3, SMT DEF CallersQuiet

\* A step of shard s leaves the callers and the other shards alone.
LEMMA ShardAlone ==
    ASSUME TypeInv, StopInv, NEW s \in Shards, UNCHANGED <<call, sent, stopped>>,
           \A q \in Procs : phase'[q] = phase[q] \/ (phase[q] = "asleep" /\ phase'[q] = "wait"),
           \A r \in Shards \ {s} : /\ mailbox'[r] = mailbox[r]
                                   /\ spc'[r] = spc[r] /\ cur'[r] = cur[r],
           ShardStop(s)'
    PROVE  StopInv'
<1>1. OwnerFirst' /\ ClientsQuiet'
  BY DEF StopInv, OwnerFirst, ClientsQuiet, Procs
<1>2. ASSUME NEW r \in Shards, r # s PROVE ShardStop(r)'
  <2>1. ShardStop(r) /\ mailbox'[r] = mailbox[r] /\ spc'[r] = spc[r] /\ cur'[r] = cur[r]
    BY <1>2 DEF StopInv
  <2>2. QED
    BY <2>1 DEF ShardStop, Untold, StopAtEnd, Stopping, IsStop
<1>3. QED
  BY <1>1, <1>2 DEF StopInv

\* Sending: a client sends only while no shard has been told to stop, and never a stop
\* command; the owner's goes to a shard that has not been told.
LEMMA SubmitStop ==
    ASSUME NoEarlyStop, TypeInv, StopInv, NEW p \in Procs, Submit(p)
    PROVE  StopInv'
<1> DEFINE i == sent[p] + 1
           c == call[p].commands[i]
           sh == c.shard
           e == [command |-> c, ticket |-> tickets[p][i]]
<1>1. /\ phase[p] = "submit" /\ sh \in Shards
      /\ mailbox' = [mailbox EXCEPT ![sh] = Append(@, e)]
      /\ sent' = [sent EXCEPT ![p] = i]
      /\ \A q \in Procs \ {p} : phase'[q] = phase[q]
      /\ UNCHANGED <<spc, cur, call, stopped>>
  BY DEF Submit, TypeInv, ProcTypes
<1>2. /\ i \in 1 .. Len(tickets[p]) /\ i \in 1 .. Len(call[p].commands)
      /\ call[p].commands \in Seq(Commands) /\ sent[p] \in Nat
  <2>1. phase[p] = "submit"
    BY <1>1
  <2>2. i \in 1 .. Len(tickets[p]) /\ i \in 1 .. Len(call[p].commands)
    BY <2>1, ProcFacts, SMT DEF Shape
  <2>3. QED
    BY <2>2, ProcFacts, CallShapes
<1>3. Owner \in Procs /\ Owner \notin Clients /\ sent[Owner] \in Nat
  BY ServiceAssumption, ProcFacts DEF Procs
<1>4. CASE p = Owner
  <2>1. call[p] = StopAll /\ stopped
    BY <1>1, <1>4, ProcFacts DEF Shape, StopInv, OwnerFirst
  <2>2. c = Stop(sent[Owner])
    <3>1. i \in 1 .. ShardCount
      BY <1>2, <2>1, CallShapes
    <3>2. c = Stop(i - 1)
      BY <2>1, <3>1, CallShapes
    <3>3. i - 1 = sent[Owner]
      BY <1>2, <1>4, SMT
    <3>4. QED
      BY <3>2, <3>3
  <2>3. sh = sent[Owner] /\ sent'[Owner] = sent[Owner] + 1
    <3>1. sh = sent[Owner]
      BY <2>2, SMT DEF Stop
    <3>2. sent \in [Procs -> Nat] /\ i = sent[Owner] + 1
      BY <1>4 DEF TypeInv, ProcTypes
    <3>3. sent'[Owner] = i
      BY <1>1, <1>3, <1>4, <3>2
    <3>4. QED
      BY <3>1, <3>2, <3>3
  <2> HIDE DEF sh, c
  <2>4. OwnerFirst' /\ ClientsQuiet'
    BY <1>1, <1>3, <1>4, <2>1 DEF StopInv, OwnerFirst, ClientsQuiet, Procs
  <2>5. ASSUME NEW s \in Shards, s # sh PROVE ShardStop(s)'
    <3>1. ShardStop(s) /\ mailbox'[s] = mailbox[s] /\ s \in Int
      BY <1>1, <2>5, SMT DEF StopInv, TypeInv, ShardTypes, Shards
    <3>2. s >= sent'[Owner] => s >= sent[Owner]
      BY <1>3, <2>3, <3>1, SMT
    <3>3. QED
      BY <1>1, <3>1, <3>2 DEF ShardStop, Untold, StopAtEnd, Stopping, IsStop
  <2>6. ASSUME NEW s \in Shards, s = sh PROVE ShardStop(s)'
    <3>1. Untold(sh)
      BY <1>1, <1>3, <2>3, SMT DEF StopInv, ShardStop
    <3>2. mailbox'[sh] = Append(mailbox[sh], e) /\ mailbox[sh] \in Seq(Entries)
      BY <1>1 DEF TypeInv, ShardTypes
    <3>3. ~(sh >= sent'[Owner])
      BY <1>3, <2>3, SMT
    <3> HIDE DEF e
    <3>4. \A j \in DOMAIN mailbox'[sh] : IsStop(mailbox'[sh][j]) => j = Len(mailbox'[sh])
      BY <3>1, <3>2, SMT DEF Untold
    <3>5. \A r \in Shards : spc'[r] = spc[r] /\ cur'[r] = cur[r]
      BY <1>1
    <3>6. ~(spc'[sh] = "run" /\ IsStop(cur'[sh])) /\ spc'[sh] \in {"recv", "run", "notify"}
      BY <1>1, <3>1, <3>5 DEF Untold
    <3>7. QED
      BY <2>6, <3>3, <3>4, <3>6 DEF ShardStop, StopAtEnd, Stopping, IsStop
  <2>7. QED
    BY <2>4, <2>5, <2>6 DEF StopInv
<1>5. CASE p # Owner
  <2>1. p \in Clients
    BY <1>5 DEF Procs
  <2>2. ~stopped
    BY <1>1, <2>1 DEF StopInv, ClientsQuiet
  <2>3. sent[Owner] = 0 /\ phase[Owner] = "idle"
    BY <2>2 DEF StopInv, OwnerFirst
  <2>4. c.op # "stop"
    <3>1. call[p] \in Calls \cup {NoCall}
      BY <2>1 DEF StopInv, ClientsQuiet
    <3>2. call[p] # NoCall
      BY <1>2, CallShapes, SMT
    <3>3. QED
      BY <1>2, <3>1, <3>2, SMT DEF NoEarlyStop
  <2>5. ~IsStop(e)
    BY <2>4 DEF IsStop
  <2> HIDE DEF sh, c, e
  <2>6. sent'[Owner] = 0
    BY <1>1, <1>3, <1>5, <2>3 DEF TypeInv, ProcTypes
  <2>7. OwnerFirst' /\ ClientsQuiet'
    BY <1>1, <1>3, <1>5, <2>2, <2>3, <2>6 DEF StopInv, OwnerFirst, ClientsQuiet
  <2>8. ASSUME NEW s \in Shards PROVE ShardStop(s)'
    <3>1. ShardStop(s) /\ s >= sent[Owner]
      BY <2>3, SMT DEF StopInv, Shards
    <3>2. Untold(s)
      BY <3>1 DEF ShardStop
    <3>3. \A j \in DOMAIN mailbox'[s] : ~IsStop(mailbox'[s][j])
      <4>1. CASE s # sh
        BY <1>1, <3>2, <4>1 DEF Untold, TypeInv, ShardTypes
      <4>2. CASE s = sh
        <5>1. mailbox'[s] = Append(mailbox[s], e) /\ mailbox[s] \in Seq(Entries)
          BY <1>1, <4>2 DEF TypeInv, ShardTypes
        <5>2. QED
          BY <2>5, <3>2, <5>1, SMT DEF Untold
      <4>3. QED
        BY <4>1, <4>2
    <3>4. spc'[s] = spc[s] /\ cur'[s] = cur[s]
      BY <1>1
    <3>5. Untold(s)'
      BY <3>2, <3>3, <3>4 DEF Untold, IsStop
    <3>6. QED
      BY <3>5 DEF ShardStop, Untold, StopAtEnd, Stopping
  <2>9. QED
    BY <2>7, <2>8 DEF StopInv
<1>6. QED
  BY <1>4, <1>5

\* Every step keeps the invariant on shutdown, one case per action.
LEMMA StopStep ==
    ASSUME NoEarlyStop
    PROVE  TypeInv /\ StopInv /\ [Next]_vars => StopInv'
<1> SUFFICES ASSUME TypeInv, StopInv, [Next]_vars PROVE StopInv'
  OBVIOUS
<1>0. Owner \in Procs /\ Owner \notin Clients /\ sent[Owner] \in Nat
  BY ServiceAssumption, ProcFacts DEF Procs
<1>1. ASSUME NEW c \in Clients, NEW k \in Calls, Begin(c, k) PROVE StopInv'
  <2>1. c \in Procs /\ c # Owner /\ ~stopped /\ Enter(c, k) /\ UNCHANGED stopped
    BY <1>0, <1>1 DEF Begin, Procs
  <2>2. sent'[Owner] = sent[Owner] /\ phase'[Owner] = phase[Owner]
    BY <1>0, <2>1 DEF Enter, TypeInv, ProcTypes
  <2>3. ClientsQuiet'
    BY <2>1 DEF StopInv, ClientsQuiet, Enter, TypeInv, ProcTypes, Procs
  <2>4. CallersQuiet
    <3>1. OwnerFirst'
      BY <2>1, <2>2 DEF StopInv, OwnerFirst
    <3>2. sent'[Owner] \in Nat /\ sent'[Owner] >= sent[Owner]
      BY <1>0, <2>2, SMT
    <3>3. QED
      BY <2>3, <3>1, <3>2 DEF CallersQuiet
  <2>5. QED
    BY <2>1, <2>4, CallersStop DEF Enter, shardVars
<1>2. ASSUME NEW p \in Procs, Submit(p) PROVE StopInv'
  BY <1>2, SubmitStop
<1>3. ASSUME NEW p \in Procs, Refuse(p) \/ ReplyFailed(p) \/ TimeOut(p) PROVE StopInv'
  <2>1. /\ Fail(p) /\ phase[p] \in {"submit", "wait", "asleep"}
        /\ UNCHANGED <<shardVars, stopped>>
    BY <1>3 DEF Refuse, ReplyFailed, TimeOut
  <2>2. CallersQuiet
    BY <2>1, FailQuiet
  <2>3. QED
    BY <2>1, <2>2, CallersStop DEF shardVars
<1>4. ASSUME NEW p \in Procs, Take(p) PROVE StopInv'
  <2>1. phase[p] = "wait" /\ UNCHANGED <<shardVars, stopped>>
    BY <1>4 DEF Take
  <2>2. CallersQuiet
    <3>1. CASE p = Owner
      BY <1>4, <2>1, <3>1, NextStopQuiet DEF Take
    <3>2. CASE p # Owner /\ taken[p] + 1 = Len(call[p].commands)
      BY <1>4, <2>1, <3>2, LeaveQuiet DEF Take, Procs
    <3>3. CASE p # Owner /\ taken[p] + 1 # Len(call[p].commands)
      <4>1. UNCHANGED <<phase, call, sent, stopped>>
        BY <1>4, <3>3 DEF Take
      <4>2. QED
        BY <1>0, <4>1, SMT DEF StopInv, CallersQuiet, OwnerFirst, ClientsQuiet
    <3>4. QED
      BY <3>1, <3>2, <3>3
  <2>3. QED
    BY <2>1, <2>2, CallersStop DEF shardVars
<1>5. ASSUME NEW p \in Procs, Sleep(p) \/ Stir(p) PROVE StopInv'
  <2>1. /\ phase[p] # "idle" /\ UNCHANGED <<shardVars, call, sent, stopped>>
        /\ \E ph \in {"asleep", "wait"} : phase' = [phase EXCEPT ![p] = ph]
    BY <1>5 DEF Sleep, Stir
  <2>2. CallersQuiet
    BY <2>1, PhaseQuiet
  <2>3. QED
    BY <2>1, <2>2, CallersStop DEF shardVars
<1>6. ASSUME NEW c \in Clients, DropReply(c) PROVE StopInv'
  <2>1. Leave(c) /\ UNCHANGED <<shardVars, stopped>>
    BY <1>6 DEF DropReply
  <2>2. QED
    BY <2>1, LeaveQuiet, CallersStop DEF shardVars
<1>7. ASSUME Shutdown PROVE StopInv'
  <2>1. /\ \A c \in Clients : phase[c] # "submit"
        /\ ~stopped /\ stopped' /\ UNCHANGED shardVars
        /\ sent' = [sent EXCEPT ![Owner] = 0] /\ call' = [call EXCEPT ![Owner] = StopAll]
        /\ phase' = [phase EXCEPT ![Owner] = "submit"]
    BY <1>7 DEF Shutdown, Enter, Borrows
  <2>2. sent[Owner] = 0 /\ sent'[Owner] = 0
    BY <1>0, <2>1 DEF StopInv, OwnerFirst, TypeInv, ProcTypes
  <2>3. ClientsQuiet'
    BY <1>0, <2>1 DEF StopInv, ClientsQuiet, TypeInv, ProcTypes, Procs
  <2>4. CallersQuiet
    BY <2>1, <2>2, <2>3, SMT DEF CallersQuiet, OwnerFirst
  <2>5. QED
    BY <2>1, <2>4, CallersStop DEF shardVars
<1>8. ASSUME Join PROVE StopInv'
  <2>1. phase[Owner] # "idle" /\ phase' = [phase EXCEPT ![Owner] = "down"]
        /\ UNCHANGED <<shardVars, call, sent, stopped>>
    BY <1>8 DEF Join
  <2>2. CallersQuiet
    BY <1>0, <2>1, PhaseQuiet
  <2>3. QED
    BY <2>1, <2>2, CallersStop DEF shardVars
<1>9. ASSUME UNCHANGED vars PROVE StopInv'
  <2>1. UNCHANGED <<shardVars, phase, call, sent, stopped>>
    BY <1>9 DEF vars, procVars
  <2>2. CallersQuiet
    BY <1>0, <2>1, SMT DEF StopInv, CallersQuiet, OwnerFirst, ClientsQuiet
  <2>3. QED
    BY <2>1, <2>2, CallersStop DEF shardVars
<1>10. ASSUME NEW s \in Shards, Recv(s) PROVE StopInv'
  <2>1. /\ mailbox[s] \in Seq(Entries) /\ mailbox[s] # <<>>
        /\ cur'[s] = Head(mailbox[s]) /\ mailbox'[s] = Tail(mailbox[s])
        /\ spc[s] = "recv" /\ spc'[s] = "run" /\ UNCHANGED <<phase, call, sent, stopped>>
        /\ \A r \in Shards \ {s} : /\ mailbox'[r] = mailbox[r]
                                   /\ spc'[r] = spc[r] /\ cur'[r] = cur[r]
    BY <1>10 DEF Recv, procVars, TypeInv, ShardTypes
  <2>2. ShardStop(s)
    BY DEF StopInv
  <2>3. /\ Head(mailbox[s]) = mailbox[s][1] /\ 1 \in DOMAIN mailbox[s]
        /\ Len(Tail(mailbox[s])) = Len(mailbox[s]) - 1 /\ Len(mailbox[s]) \in Nat
        /\ \A i \in DOMAIN Tail(mailbox[s]) : /\ i + 1 \in DOMAIN mailbox[s] /\ i \in Nat
                                              /\ Tail(mailbox[s])[i] = mailbox[s][i + 1]
    BY <2>1, HeadAndTail
  <2>4. StopAtEnd(s)'
    BY <2>1, <2>2, <2>3, SMT DEF ShardStop, StopAtEnd, IsStop
  <2>5. IsStop(Head(mailbox[s])) => Tail(mailbox[s]) = <<>>
    <3>1. IsStop(Head(mailbox[s])) => Len(mailbox[s]) = 1
      BY <2>2, <2>3 DEF ShardStop, StopAtEnd
    <3>2. Tail(mailbox[s]) \in Seq(Entries)
      BY <2>1, SMT
    <3>3. QED
      BY <2>3, <3>1, <3>2, SMT
  <2>6. Untold(s) => Untold(s)'
    BY <2>1, <2>3, SMT DEF Untold, IsStop
  <2>7. Stopping(s)' => mailbox'[s] = <<>>
    BY <2>1, <2>5 DEF Stopping, IsStop
  <2>8. ShardStop(s)'
    BY <2>1, <2>2, <2>4, <2>6, <2>7 DEF ShardStop
  <2>9. QED
    BY <2>1, <2>8, ShardAlone
<1>11. ASSUME NEW s \in Shards, Run(s) PROVE StopInv'
  <2>1. /\ cur[s] \in Entries /\ state[s] \in States /\ spc[s] = "run"
        /\ UNCHANGED <<mailbox, cur, phase, call, sent, stopped>>
        /\ spc'[s] = IF Panics(state[s], cur[s].command) \/ cur[s].command.op = "stop"
                     THEN "last_notify" ELSE "notify"
        /\ \A r \in Shards \ {s} : spc'[r] = spc[r]
    BY <1>11 DEF Run, procVars, TypeInv, ShardTypes
  <2>2. ~Panics(state[s], cur[s].command)
    BY <2>1 DEF NoEarlyStop, Entries
  <2>3. ShardStop(s)
    BY DEF StopInv
  <2>4. ShardStop(s)'
    BY <2>1, <2>2, <2>3 DEF ShardStop, Untold, StopAtEnd, Stopping, IsStop
  <2>5. QED
    BY <2>1, <2>4, ShardAlone
<1>12. ASSUME NEW s \in Shards, Notify(s) PROVE StopInv'
  <2>1. /\ Notifying(s) /\ UNCHANGED <<mailbox, call, sent, stopped>>
        /\ spc'[s] = CASE spc[s] = "notify" -> "recv"
                       [] spc[s] = "last_notify" -> "close"
                       [] OTHER -> "drain"
        /\ \A q \in Procs : phase'[q] = phase[q] \/ (phase[q] = "asleep" /\ phase'[q] = "wait")
        /\ \A r \in Shards \ {s} : spc'[r] = spc[r] /\ cur'[r] = cur[r]
    BY <1>12 DEF Notify, Notifying, Wakes, TypeInv, ShardTypes
  <2>2. ShardStop(s)
    BY DEF StopInv
  <2>3. ShardStop(s)'
    BY <2>1, <2>2 DEF ShardStop, Untold, StopAtEnd, Stopping, IsStop, Notifying
  <2>4. QED
    BY <2>1, <2>3, ShardAlone
<1>13. ASSUME NEW s \in Shards, Close(s) \/ ThreadEnds(s) PROVE StopInv'
  <2>1. /\ spc[s] \in {"close", "drain"} /\ spc'[s] \in {"drain", "done"}
        /\ UNCHANGED <<mailbox, cur, phase, call, sent, stopped>>
        /\ \A r \in Shards \ {s} : spc'[r] = spc[r]
    BY <1>13 DEF Close, ThreadEnds, procVars, TypeInv, ShardTypes
  <2>2. ShardStop(s)
    BY DEF StopInv
  <2>3. ShardStop(s)'
    BY <2>1, <2>2 DEF ShardStop, Untold, StopAtEnd, Stopping, IsStop
  <2>4. QED
    BY <2>1, <2>3, ShardAlone
<1>14. ASSUME NEW s \in Shards, Drain(s) PROVE StopInv'
  <2>1. spc[s] = "drain" /\ mailbox[s] # <<>>
    BY <1>14 DEF Drain
  <2>2. FALSE
    BY <2>1 DEF StopInv, ShardStop, Stopping
  <2>3. QED
    BY <2>2
<1>15. QED
  BY <1>1, <1>2, <1>3, <1>4, <1>5, <1>6, <1>7, <1>8, <1>9, <1>10, <1>11, <1>12, <1>13, <1>14
     DEF Next, ProcStep, ShardStep

LEMMA StopInit == Init => StopInv
<1> SUFFICES ASSUME Init PROVE StopInv
  OBVIOUS
<1>1. OwnerFirst /\ ClientsQuiet
  BY DEF Init, OwnerFirst, ClientsQuiet, Procs
<1>2. ASSUME NEW s \in Shards PROVE ShardStop(s)
  BY SMT DEF Init, ShardStop, Untold, StopAtEnd, Stopping
<1>3. QED
  BY <1>1, <1>2 DEF StopInv

\* Shutdown overtakes nothing (stop_and_join): if only shutdown stops shards and nothing
\* panics, a shard's thread leaves its loop with an empty mailbox.
THEOREM StopOvertakesNothing ==
    ASSUME NoEarlyStop
    PROVE  Spec => []StopIsLast
<1>1. TypeInv /\ StopInv /\ [Next]_vars => StopInv'
  BY StopStep
<1>2. StopInv => StopIsLast
  BY DEF StopInv, ShardStop, Stopping, StopIsLast
<1>3. QED
  BY <1>1, <1>2, StopInit, TypesHold, PTL DEF Spec

-----------------------------------------------------------------------------
(* Replies: none is lost, and none is left without a sender *)

\* Replies.  An answer is in place only after its sender is gone;
Spent == \A t \in Tickets : reply[t].value # NoValue => ~reply[t].sender_alive

\* a task asleep on a reply that can still be settled has left its waker in it;
WakerLeft(p) ==
    call[p].waits = "async" /\ reply[Awaited(p)].sender_alive => reply[Awaited(p)].waker

\* and whoever sleeps on a settled reply is about to be told.
Told(p) ==
    reply[Awaited(p)].value # NoValue \/ ~reply[Awaited(p)].sender_alive
        => \E s \in Shards : Notifying(s) /\ Wakes(s, p)

ReplyInv == Spent /\ \A p \in Procs : phase[p] = "asleep" => WakerLeft(p) /\ Told(p)

\* The process of every sleeper is where it was.
SleepersStay ==
    \A q \in Procs : phase'[q] = "asleep" =>
        /\ phase[q] = "asleep"
        /\ call'[q] = call[q]
        /\ tickets'[q] = tickets[q]
        /\ taken'[q] = taken[q]

\* The steps of a call, but for falling asleep, leave the other processes where they are and
\* do not end asleep.
LEMMA LeaveStays == ASSUME TypeInv, NEW p \in Procs, Leave(p) PROVE SleepersStay
BY DEF SleepersStay, Leave, TypeInv, ProcTypes

LEMMA EnterStays == ASSUME TypeInv, NEW p \in Procs, NEW k, Enter(p, k) PROVE SleepersStay
BY DEF SleepersStay, Enter, TypeInv, ProcTypes

LEMMA NextStopStays == ASSUME TypeInv, NEW n, NextStop(n) PROVE SleepersStay
BY DEF SleepersStay, NextStop, TypeInv, ProcTypes, Procs

LEMMA FailStays == ASSUME TypeInv, NEW p \in Procs, Fail(p) PROVE SleepersStay
BY LeaveStays, NextStopStays DEF Fail

\* A step that settles no reply and puts no one to sleep keeps the invariant.
LEMMA QuietKeepsReplies ==
    ASSUME TypeInv, ReplyInv, SleepersStay, UNCHANGED <<spc, cur, waking, reply>>
    PROVE  ReplyInv'
<1>1. Spent'
  BY DEF ReplyInv, Spent
<1>2. ASSUME NEW q \in Procs, phase'[q] = "asleep"
      PROVE  WakerLeft(q)' /\ Told(q)'
  <2>1. /\ phase[q] = "asleep" /\ call'[q] = call[q] /\ tickets'[q] = tickets[q]
        /\ taken'[q] = taken[q]
    BY <1>2 DEF SleepersStay
  <2>2. WakerLeft(q) /\ Told(q)
    BY <2>1 DEF ReplyInv
  <2>3. Awaited(q)' = Awaited(q)
    BY <2>1 DEF Awaited
  <2>4. WakerLeft(q)'
    BY <2>1, <2>2, <2>3 DEF WakerLeft
  <2>5. \A s \in Shards : Notifying(s) /\ Wakes(s, q) => Notifying(s)' /\ Wakes(s, q)'
    BY <1>2, <2>1, <2>3 DEF Notifying, Wakes
  <2>6. QED
    BY <2>2, <2>3, <2>4, <2>5 DEF Told
<1>3. QED
  BY <1>1, <1>2 DEF ReplyInv

\* A shard that settles a reply and goes on to notify keeps the invariant: sleepers on this
\* reply are told by it, and the others by whoever told them before.
LEMMA SettleKeepsReplies ==
    ASSUME TypeInv, ReplyInv, NEW s \in Shards, NEW t \in Tickets, NEW v \in Answers,
           Settle(s, t, v), ~Notifying(s), Notifying(s)', cur'[s].ticket = t,
           \A r \in Shards \ {s} : spc'[r] = spc[r] /\ cur'[r] = cur[r],
           UNCHANGED procVars
    PROVE  ReplyInv'
<1>1. reply' = [reply EXCEPT ![t] = [value |-> v, sender_alive |-> FALSE, waker |-> FALSE]]
      /\ waking' = [waking EXCEPT ![s] = reply[t].waker]
  BY DEF Settle
<1>2. reply \in [Tickets -> Replies] /\ waking \in [Shards -> BOOLEAN]
  BY DEF TypeInv, ShardTypes
<1>3. ~reply'[t].sender_alive /\ \A u \in Tickets \ {t} : reply'[u] = reply[u]
  BY <1>1, <1>2
<1>4. waking'[s] = reply[t].waker /\ \A r \in Shards \ {s} : waking'[r] = waking[r]
  BY <1>1, <1>2
<1>5. Spent'
  BY <1>3 DEF ReplyInv, Spent
<1>6. ASSUME NEW q \in Procs, phase'[q] = "asleep"
      PROVE  WakerLeft(q)' /\ Told(q)'
  <2>1. phase[q] = "asleep" /\ Awaited(q)' = Awaited(q) /\ call'[q] = call[q]
    BY <1>6 DEF procVars, Awaited
  <2>2. WakerLeft(q) /\ Told(q)
    BY <2>1 DEF ReplyInv
  <2>3. Awaited(q) \in Tickets
    BY <2>1, AwaitedType
  <2>4. WakerLeft(q)'
    BY <1>3, <2>1, <2>2, <2>3, SMT DEF WakerLeft
  <2>5. \A r \in Shards : Notifying(r) /\ Wakes(r, q) => Notifying(r)' /\ Wakes(r, q)'
    BY <1>4, <1>6, <2>1 DEF Notifying, Wakes
  <2>6. CASE Awaited(q) # t
    BY <1>3, <2>1, <2>2, <2>3, <2>4, <2>5, <2>6, SMT DEF Told
  <2>7. CASE Awaited(q) = t /\ ~reply[t].sender_alive
    BY <2>2, <2>4, <2>5, <2>7 DEF Told
  <2>8. CASE Awaited(q) = t /\ reply[t].sender_alive
    <3>1. call[q].waits = "async" => reply[t].waker
      BY <2>2, <2>8 DEF WakerLeft
    <3>2. Wakes(s, q)'
      BY <1>4, <1>6, <2>1, <2>8, <3>1 DEF Wakes
    <3>3. QED
      BY <2>4, <3>2 DEF Told
  <2>9. QED
    BY <2>6, <2>7, <2>8
<1>7. QED
  BY <1>5, <1>6 DEF ReplyInv

LEMMA RepliesInit == Init => ReplyInv
BY SMT DEF Init, ReplyInv, Spent

\* Every step keeps the invariant on replies, one case per action.
LEMMA RepliesStep == TypeInv /\ ReplyInv /\ [Next]_vars => ReplyInv'
<1> SUFFICES ASSUME TypeInv, ReplyInv, [Next]_vars PROVE ReplyInv'
  OBVIOUS
<1>1. ASSUME NEW c \in Clients, NEW k \in Calls, Begin(c, k) PROVE ReplyInv'
  <2>1. c \in Procs /\ Enter(c, k) /\ UNCHANGED <<shardVars, reply>>
    BY <1>1 DEF Begin, Enter, Procs
  <2>2. SleepersStay
    BY <2>1, EnterStays
  <2>3. QED
    BY <2>1, <2>2, QuietKeepsReplies DEF shardVars
<1>2. ASSUME NEW p \in Procs, Submit(p) PROVE ReplyInv'
  <2>1. SleepersStay
    BY <1>2 DEF Submit, SleepersStay, TypeInv, ProcTypes
  <2>2. QED
    BY <1>2, <2>1, QuietKeepsReplies DEF Submit
<1>3. ASSUME NEW p \in Procs, Refuse(p) \/ ReplyFailed(p) \/ TimeOut(p) PROVE ReplyInv'
  <2>1. Fail(p) /\ UNCHANGED <<shardVars, reply>>
    BY <1>3 DEF Refuse, ReplyFailed, TimeOut
  <2>2. SleepersStay
    BY <2>1, FailStays
  <2>3. QED
    BY <2>1, <2>2, QuietKeepsReplies DEF shardVars
<1>4. ASSUME NEW p \in Procs, Take(p) PROVE ReplyInv'
  <2> DEFINE t == Awaited(p)
  <2>1. /\ t \in Tickets /\ reply[t].value # NoValue /\ phase[p] = "wait"
        /\ reply' = [reply EXCEPT ![t].value = NoValue] /\ UNCHANGED shardVars
    BY <1>4, AwaitedType DEF Take
  <2>2. SleepersStay
    <3>1. CASE p = Owner
      BY <1>4, <3>1, NextStopStays DEF Take
    <3>2. CASE p # Owner /\ taken[p] + 1 = Len(call[p].commands)
      BY <1>4, <3>2, LeaveStays DEF Take
    <3>3. CASE p # Owner /\ taken[p] + 1 # Len(call[p].commands)
      BY <1>4, <3>3 DEF Take, SleepersStay, TypeInv, ProcTypes
    <3>4. QED
      BY <3>1, <3>2, <3>3
  <2> HIDE DEF t
  <2>3. \A u \in Tickets : /\ reply'[u].sender_alive = reply[u].sender_alive
                           /\ reply'[u].waker = reply[u].waker
                           /\ u # t => reply'[u].value = reply[u].value
    BY <2>1 DEF TypeInv, ShardTypes, Replies
  <2>4. reply'[t].value = NoValue /\ ~reply[t].sender_alive
    BY <2>1 DEF TypeInv, ShardTypes, Replies, ReplyInv, Spent
  <2>5. Spent'
    BY <2>3, <2>4 DEF ReplyInv, Spent
  <2>6. ASSUME NEW q \in Procs, phase'[q] = "asleep"
        PROVE  WakerLeft(q)' /\ Told(q)'
    <3>1. /\ phase[q] = "asleep" /\ call'[q] = call[q] /\ tickets'[q] = tickets[q]
          /\ taken'[q] = taken[q]
      BY <2>2, <2>6 DEF SleepersStay
    <3>2. WakerLeft(q) /\ Told(q) /\ Awaited(q) \in Tickets
      BY <3>1, AwaitedType DEF ReplyInv
    <3>3. Awaited(q)' = Awaited(q)
      BY <3>1 DEF Awaited
    <3>4. WakerLeft(q)'
      BY <2>3, <3>1, <3>2, <3>3 DEF WakerLeft
    <3>5. \A s \in Shards : Notifying(s) /\ Wakes(s, q) => Notifying(s)' /\ Wakes(s, q)'
      BY <2>1, <2>6, <3>1, <3>3 DEF Notifying, Wakes, shardVars
    <3>6. Told(q)'
      BY <2>3, <2>4, <3>2, <3>3, <3>5 DEF Told
    <3>7. QED
      BY <3>4, <3>6
  <2>7. QED
    BY <2>5, <2>6 DEF ReplyInv
<1>5. ASSUME NEW p \in Procs, Sleep(p) PROVE ReplyInv'
  <2> DEFINE t == Awaited(p)
  <2>1. /\ t \in Tickets /\ phase[p] = "wait" /\ phase' = [phase EXCEPT ![p] = "asleep"]
        /\ reply[t].value = NoValue /\ reply[t].sender_alive
        /\ reply' = [reply EXCEPT ![t].waker = @ \/ call[p].waits = "async"]
        /\ UNCHANGED <<shardVars, call, tickets, sent, taken>>
    BY <1>5, AwaitedType DEF Sleep
  <2>2. \A q \in Procs : Awaited(q)' = Awaited(q)
    BY <2>1 DEF Awaited
  <2> HIDE DEF t
  <2>3. \A u \in Tickets : /\ reply'[u].sender_alive = reply[u].sender_alive
                           /\ reply'[u].value = reply[u].value
                           /\ reply[u].waker => reply'[u].waker
    BY <2>1 DEF TypeInv, ShardTypes, Replies
  <2>4. call[p].waits = "async" => reply'[t].waker
    BY <2>1 DEF TypeInv, ShardTypes, Replies
  <2>5. Spent'
    BY <2>3 DEF ReplyInv, Spent
  <2>6. WakerLeft(p)' /\ Told(p)'
    BY <2>1, <2>2, <2>3, <2>4 DEF WakerLeft, Told, t
  <2>7. ASSUME NEW q \in Procs, q # p, phase'[q] = "asleep"
        PROVE  WakerLeft(q)' /\ Told(q)'
    <3>1. phase[q] = "asleep"
      BY <2>1, <2>7 DEF TypeInv, ProcTypes
    <3>2. WakerLeft(q) /\ Told(q) /\ Awaited(q) \in Tickets
      BY <3>1, AwaitedType DEF ReplyInv
    <3>3. WakerLeft(q)'
      BY <2>1, <2>2, <2>3, <3>2 DEF WakerLeft
    <3>4. \A s \in Shards : Notifying(s) /\ Wakes(s, q) => Notifying(s)' /\ Wakes(s, q)'
      BY <2>1, <2>2, <2>7 DEF Notifying, Wakes, shardVars
    <3>5. Told(q)'
      BY <2>2, <2>3, <3>2, <3>4 DEF Told
    <3>6. QED
      BY <3>3, <3>5
  <2>8. QED
    BY <2>5, <2>6, <2>7 DEF ReplyInv
<1>6. ASSUME NEW p \in Procs, Stir(p) PROVE ReplyInv'
  <2>1. SleepersStay
    BY <1>6 DEF Stir, SleepersStay, TypeInv, ProcTypes
  <2>2. QED
    BY <1>6, <2>1, QuietKeepsReplies DEF Stir, shardVars
<1>7. ASSUME NEW c \in Clients, DropReply(c) PROVE ReplyInv'
  <2>1. SleepersStay
    BY <1>7, LeaveStays DEF DropReply, Procs
  <2>2. QED
    BY <1>7, <2>1, QuietKeepsReplies DEF DropReply, shardVars
<1>8. ASSUME NEW s \in Shards, Recv(s) \/ Close(s) \/ ThreadEnds(s) PROVE ReplyInv'
  <2>1. /\ ~Notifying(s) /\ UNCHANGED <<waking, reply, procVars>>
        /\ \A r \in Shards \ {s} : spc'[r] = spc[r] /\ cur'[r] = cur[r]
    BY <1>8 DEF Recv, Close, ThreadEnds, Notifying, TypeInv, ShardTypes
  <2>2. Spent'
    BY <2>1 DEF ReplyInv, Spent
  <2>3. ASSUME NEW q \in Procs, phase'[q] = "asleep"
        PROVE  WakerLeft(q)' /\ Told(q)'
    <3>1. phase[q] = "asleep" /\ Awaited(q)' = Awaited(q) /\ call'[q] = call[q]
      BY <2>1, <2>3 DEF procVars, Awaited
    <3>2. WakerLeft(q) /\ Told(q)
      BY <3>1 DEF ReplyInv
    <3>3. \A r \in Shards : Notifying(r) /\ Wakes(r, q) => Notifying(r)' /\ Wakes(r, q)'
      BY <2>1, <2>3, <3>1 DEF Notifying, Wakes
    <3>4. WakerLeft(q)'
      BY <2>1, <3>1, <3>2 DEF WakerLeft
    <3>5. QED
      BY <2>1, <3>1, <3>2, <3>3, <3>4 DEF Told
  <2>4. QED
    BY <2>2, <2>3 DEF ReplyInv
<1>9. ASSUME NEW s \in Shards, Run(s) PROVE ReplyInv'
  <2> DEFINE v == IF Panics(state[s], cur[s].command) THEN NoValue
                  ELSE Result(state[s], cur[s].command)
  <2>1. cur[s] \in Entries /\ state[s] \in States
    BY <1>9 DEF Run, TypeInv, ShardTypes
  <2>2. cur[s].ticket \in Tickets /\ v \in Answers
    BY <2>1, AnswerType DEF Entries
  <2>3. Settle(s, cur[s].ticket, v)
    BY <1>9 DEF Run
  <2>4. /\ ~Notifying(s) /\ Notifying(s)' /\ UNCHANGED <<cur, procVars>>
        /\ \A r \in Shards \ {s} : spc'[r] = spc[r]
    BY <1>9 DEF Run, Notifying, TypeInv, ShardTypes
  <2> HIDE DEF v
  <2>5. QED
    BY <2>2, <2>3, <2>4, SettleKeepsReplies
<1>10. ASSUME NEW s \in Shards, Drain(s) PROVE ReplyInv'
  <2> DEFINE t == Head(mailbox[s]).ticket
  <2>1. mailbox[s] \in Seq(Entries) /\ mailbox[s] # <<>>
    BY <1>10 DEF Drain, TypeInv, ShardTypes
  <2>2. Head(mailbox[s]) \in Entries
    BY <2>1, SMT
  <2>3. t \in Tickets /\ NoValue \in Answers
    BY <2>2, AnswerType DEF Entries
  <2>4. Settle(s, t, NoValue) /\ cur'[s].ticket = t
    BY <1>10 DEF Drain, TypeInv, ShardTypes
  <2>5. /\ ~Notifying(s) /\ Notifying(s)' /\ UNCHANGED procVars
        /\ \A r \in Shards \ {s} : spc'[r] = spc[r] /\ cur'[r] = cur[r]
    BY <1>10 DEF Drain, Notifying, TypeInv, ShardTypes
  <2> HIDE DEF t
  <2>6. QED
    BY <2>3, <2>4, <2>5, SettleKeepsReplies
<1>11. ASSUME NEW s \in Shards, Notify(s) PROVE ReplyInv'
  <2>1. /\ UNCHANGED <<reply, call, tickets, taken>>
        /\ \A q \in Procs : phase'[q] = IF Wakes(s, q) THEN "wait" ELSE phase[q]
        /\ \A r \in Shards \ {s} : spc'[r] = spc[r] /\ cur'[r] = cur[r] /\ waking'[r] = waking[r]
    BY <1>11 DEF Notify, TypeInv, ShardTypes
  <2>2. Spent'
    BY <2>1 DEF ReplyInv, Spent
  <2>3. ASSUME NEW q \in Procs, phase'[q] = "asleep"
        PROVE  WakerLeft(q)' /\ Told(q)'
    <3>1. phase[q] = "asleep" /\ ~Wakes(s, q) /\ Awaited(q)' = Awaited(q)
      BY <2>1, <2>3 DEF Awaited
    <3>2. WakerLeft(q) /\ Told(q)
      BY <3>1 DEF ReplyInv
    <3>3. \A r \in Shards : Notifying(r) /\ Wakes(r, q) => Notifying(r)' /\ Wakes(r, q)'
      <4>1. \A r \in Shards : Wakes(r, q) => r # s
        BY <3>1
      <4>2. QED
        BY <2>1, <2>3, <3>1, <4>1 DEF Notifying, Wakes
    <3>4. WakerLeft(q)'
      BY <2>1, <3>1, <3>2 DEF WakerLeft
    <3>5. QED
      BY <2>1, <3>1, <3>2, <3>3, <3>4 DEF Told
  <2>4. QED
    BY <2>2, <2>3 DEF ReplyInv
<1>12. ASSUME Shutdown PROVE ReplyInv'
  <2>1. Owner \in Procs /\ Enter(Owner, StopAll) /\ UNCHANGED <<shardVars, reply>>
    BY <1>12 DEF Shutdown, Enter, Procs
  <2>2. SleepersStay
    BY <2>1, EnterStays
  <2>3. QED
    BY <2>1, <2>2, QuietKeepsReplies DEF shardVars
<1>13. ASSUME Join PROVE ReplyInv'
  <2>1. SleepersStay
    BY <1>13 DEF Join, SleepersStay, TypeInv, ProcTypes
  <2>2. QED
    BY <1>13, <2>1, QuietKeepsReplies DEF Join, shardVars
<1>14. ASSUME UNCHANGED vars PROVE ReplyInv'
  <2>1. SleepersStay
    BY <1>14 DEF SleepersStay, vars, procVars
  <2>2. QED
    BY <1>14, <2>1, QuietKeepsReplies DEF vars, shardVars
<1>15. QED
  BY <1>1, <1>2, <1>3, <1>4, <1>5, <1>6, <1>7, <1>8, <1>9, <1>10, <1>11, <1>12, <1>13, <1>14
     DEF Next, ProcStep, ShardStep

\* No reply is lost: whoever sleeps on a reply that has been settled (ReplySender::send, or its
\* drop) is about to be woken by the shard that settled it.
THEOREM NoReplyLost == Spec => []ReplyNotLost
<1>1. ReplyInv => ReplyNotLost
  BY DEF ReplyInv, Told, ReplyNotLost
<1>2. QED
  BY <1>1, TypesHold, RepliesInit, RepliesStep, PTL DEF Spec

-----------------------------------------------------------------------------
\* The replies that p has sent commands for and not received.
Due(p) == {tickets[p][i] : i \in taken[p] + 1 .. sent[p]}

\* Each of them has been settled or is in a command that is queued or worked on.  What is
\* awaited alone is not enough: the other replies of a call are awaited later.
OrphanInv == \A p \in Procs : \A t \in Due(p) : reply[t].sender_alive => Outstanding(t)

LEMMA DueTypes == ASSUME TypeInv, NEW p \in Procs PROVE Due(p) \subseteq Tickets
<1>1. taken[p] + 1 .. sent[p] \subseteq 1 .. Len(tickets[p])
  BY ProcFacts, SMT DEF Shape
<1>2. QED
  BY <1>1, ProcFacts, SMT DEF Due

\* A step keeps the invariant if it adds nothing to what is due, revives no sender and lets
\* go of a command only with its reply settled.
LEMMA NothingDue ==
    ASSUME TypeInv, OrphanInv,
           \A p \in Procs : Due(p)' \subseteq Due(p),
           \A t \in Tickets : reply'[t].sender_alive => reply[t].sender_alive,
           \A t \in Tickets : reply'[t].sender_alive /\ Outstanding(t) => Outstanding(t)'
    PROVE  OrphanInv'
BY DueTypes DEF OrphanInv

\* Leaving a call, entering one and going on with the next shard leave nothing due.
LEMMA LeaveDue == ASSUME TypeInv, NEW p \in Procs, Leave(p)
                  PROVE  \A q \in Procs : Due(q)' \subseteq Due(q)
<1>1. taken'[p] = 0 /\ sent'[p] = 0
  BY DEF Leave, TypeInv, ProcTypes
<1>2. Due(p)' = {}
  BY <1>1, SMT DEF Due
<1>3. \A q \in Procs \ {p} : Due(q)' = Due(q)
  BY DEF Leave, Due, TypeInv, ProcTypes
<1>4. QED
  BY <1>2, <1>3

LEMMA EnterDue == ASSUME TypeInv, NEW p \in Procs, NEW k, Enter(p, k)
                  PROVE  \A q \in Procs : Due(q)' \subseteq Due(q)
<1>1. taken'[p] = 0 /\ sent'[p] = 0
  BY DEF Enter, TypeInv, ProcTypes
<1>2. Due(p)' = {}
  BY <1>1, SMT DEF Due
<1>3. \A q \in Procs \ {p} : Due(q)' = Due(q)
  BY DEF Enter, Due, TypeInv, ProcTypes
<1>4. QED
  BY <1>2, <1>3

LEMMA NextStopDue == ASSUME TypeInv, NEW n \in Nat, NextStop(n)
                     PROVE  \A q \in Procs : Due(q)' \subseteq Due(q)
<1>1. taken'[Owner] = n /\ sent'[Owner] = n
  BY DEF NextStop, TypeInv, ProcTypes, Procs
<1>2. Due(Owner)' = {}
  BY <1>1, SMT DEF Due
<1>3. \A q \in Procs \ {Owner} : Due(q)' = Due(q)
  BY DEF NextStop, Due, TypeInv, ProcTypes
<1>4. QED
  BY <1>2, <1>3

LEMMA FailDue == ASSUME TypeInv, NEW p \in Procs, Fail(p)
                 PROVE  \A q \in Procs : Due(q)' \subseteq Due(q)
<1>1. taken[p] + 1 \in Nat
  BY ProcFacts, SMT
<1>2. QED
  BY <1>1, LeaveDue, NextStopDue DEF Fail

\* A step that leaves the mailboxes and the replies alone keeps the invariant.
LEMMA SameCommands ==
    ASSUME TypeInv, OrphanInv, UNCHANGED <<mailbox, spc, cur, reply>>,
           \A q \in Procs : Due(q)' \subseteq Due(q)
    PROVE  OrphanInv'
<1>1. \A t \in Tickets : Outstanding(t)' = Outstanding(t)
  BY DEF Outstanding
<1>2. QED
  BY <1>1, NothingDue

LEMMA SameDue == ASSUME UNCHANGED <<tickets, sent, taken>>
                 PROVE  \A q \in Procs : Due(q)' \subseteq Due(q)
BY DEF Due

\* Every step keeps the invariant on what is due, one case per action.
LEMMA OrphanStep == TypeInv /\ OrphanInv /\ [Next]_vars => OrphanInv'
<1> SUFFICES ASSUME TypeInv, OrphanInv, [Next]_vars PROVE OrphanInv'
  OBVIOUS
<1>1. ASSUME NEW c \in Clients, NEW k \in Calls, Begin(c, k) PROVE OrphanInv'
  <2>1. c \in Procs /\ Enter(c, k) /\ UNCHANGED <<shardVars, reply>>
    BY <1>1 DEF Begin, Enter, Procs
  <2>2. \A q \in Procs : Due(q)' \subseteq Due(q)
    BY <2>1, EnterDue
  <2>3. QED
    BY <2>1, <2>2, SameCommands DEF shardVars
<1>2. ASSUME NEW p \in Procs, Submit(p) PROVE OrphanInv'
  <2> DEFINE i == sent[p] + 1
             sh == call[p].commands[i].shard
             e == [command |-> call[p].commands[i], ticket |-> tickets[p][i]]
  <2>1. /\ sh \in Shards
        /\ mailbox' = [mailbox EXCEPT ![sh] = Append(@, e)]
        /\ sent' = [sent EXCEPT ![p] = i]
        /\ UNCHANGED <<spc, cur, reply, tickets, taken>>
    BY <1>2 DEF Submit
  <2>2. i \in 1 .. Len(tickets[p]) /\ i \in 1 .. Len(call[p].commands)
    <3>1. phase[p] = "submit"
      BY <1>2 DEF Submit
    <3>2. QED
      BY <3>1, ProcFacts, SMT DEF Shape
  <2>3. e \in Entries
    <3>1. call[p].commands \in Seq(Commands)
      BY ProcFacts, CallShapes
    <3>2. QED
      BY <2>2, <3>1, ProcFacts, SMT DEF Entries
  <2> HIDE DEF sh
  <2>4. /\ mailbox[sh] \in Seq(Entries) /\ mailbox'[sh] = Append(mailbox[sh], e)
        /\ \A s \in Shards \ {sh} : mailbox'[s] = mailbox[s]
    BY <2>1 DEF TypeInv, ShardTypes
  <2>5. ASSUME NEW t \in Tickets, Outstanding(t) PROVE Outstanding(t)'
    <3>1. PICK s \in Shards : \/ spc[s] = "run" /\ cur[s].ticket = t
                              \/ \E j \in DOMAIN mailbox[s] : mailbox[s][j].ticket = t
      BY <2>5 DEF Outstanding
    <3>2. \A j \in DOMAIN mailbox[sh] : j \in DOMAIN mailbox'[sh]
                                        /\ mailbox'[sh][j] = mailbox[sh][j]
      BY <2>3, <2>4, SMT
    <3>3. QED
      BY <2>1, <2>4, <3>1, <3>2, SMT DEF Outstanding
  <2>6. ASSUME NEW t \in Tickets, t = tickets[p][i] PROVE Outstanding(t)'
    <3>1. Len(mailbox[sh]) + 1 \in DOMAIN mailbox'[sh]
          /\ mailbox'[sh][Len(mailbox[sh]) + 1] = e
      BY <2>3, <2>4, SMT
    <3>2. e.ticket = t
      BY <2>6
    <3> HIDE DEF e
    <3>3. QED
      BY <2>1, <3>1, <3>2 DEF Outstanding
  <2>7. \A q \in Procs : \A t \in Due(q)' : t \in Due(q) \/ t = tickets[p][i]
    <3>1. \A q \in Procs \ {p} : Due(q)' = Due(q)
      BY <2>1 DEF Due, TypeInv, ProcTypes
    <3>2. sent'[p] = i /\ sent[p] \in Nat /\ taken[p] \in Nat
      BY <2>1, ProcFacts DEF TypeInv, ProcTypes
    <3>3. \A j \in taken[p] + 1 .. sent'[p] : j \in taken[p] + 1 .. sent[p] \/ j = i
      BY <3>2, SMT
    <3>4. \A t \in Due(p)' : t \in Due(p) \/ t = tickets[p][i]
      BY <2>1, <3>3 DEF Due
    <3>5. QED
      BY <3>1, <3>4
  <2> HIDE DEF i, e
  <2>8. tickets[p][i] \in Tickets
    BY <2>2, ProcFacts, SMT
  <2>9. ASSUME NEW q \in Procs, NEW t \in Due(q)', reply'[t].sender_alive
        PROVE  Outstanding(t)'
    BY <2>1, <2>5, <2>6, <2>7, <2>8, <2>9, DueTypes DEF OrphanInv
  <2>10. QED
    BY <2>9 DEF OrphanInv
<1>3. ASSUME NEW p \in Procs, Refuse(p) \/ ReplyFailed(p) \/ TimeOut(p) PROVE OrphanInv'
  <2>1. Fail(p) /\ UNCHANGED <<shardVars, reply>>
    BY <1>3 DEF Refuse, ReplyFailed, TimeOut
  <2>2. \A q \in Procs : Due(q)' \subseteq Due(q)
    BY <2>1, FailDue
  <2>3. QED
    BY <2>1, <2>2, SameCommands DEF shardVars
<1>4. ASSUME NEW p \in Procs, Take(p) PROVE OrphanInv'
  <2>1. taken[p] \in Nat /\ taken[p] + 1 \in Nat /\ sent[p] \in Nat /\ Awaited(p) \in Tickets
    BY <1>4, ProcFacts, AwaitedType, SMT DEF Take
  <2>2. \A q \in Procs : Due(q)' \subseteq Due(q)
    <3>1. CASE p = Owner
      BY <1>4, <2>1, <3>1, NextStopDue DEF Take
    <3>2. CASE p # Owner /\ taken[p] + 1 = Len(call[p].commands)
      BY <1>4, <3>2, LeaveDue DEF Take
    <3>3. CASE p # Owner /\ taken[p] + 1 # Len(call[p].commands)
      <4>1. taken' = [taken EXCEPT ![p] = taken[p] + 1] /\ UNCHANGED <<tickets, sent>>
        BY <1>4, <3>3 DEF Take
      <4>2. \A q \in Procs : taken'[q] + 1 .. sent[q] \subseteq taken[q] + 1 .. sent[q]
        BY <2>1, <4>1, SMT DEF TypeInv, ProcTypes
      <4>3. QED
        BY <4>1, <4>2 DEF Due
    <3>4. QED
      BY <3>1, <3>2, <3>3
  <2>3. reply' = [reply EXCEPT ![Awaited(p)].value = NoValue] /\ UNCHANGED shardVars
    BY <1>4 DEF Take
  <2>4. \A t \in Tickets : reply'[t].sender_alive = reply[t].sender_alive
    BY <2>1, <2>3 DEF TypeInv, ShardTypes, Replies
  <2>5. \A t \in Tickets : Outstanding(t)' = Outstanding(t)
    BY <2>3 DEF Outstanding, shardVars
  <2>6. QED
    BY <2>2, <2>4, <2>5, NothingDue
<1>5. ASSUME NEW p \in Procs, Sleep(p) PROVE OrphanInv'
  <2>1. Awaited(p) \in Tickets
    BY <1>5, AwaitedType DEF Sleep
  <2>2. reply' = [reply EXCEPT ![Awaited(p)].waker = @ \/ call[p].waits = "async"]
        /\ UNCHANGED <<shardVars, tickets, sent, taken>>
    BY <1>5 DEF Sleep
  <2>3. \A t \in Tickets : reply'[t].sender_alive = reply[t].sender_alive
    BY <2>1, <2>2 DEF TypeInv, ShardTypes, Replies
  <2>4. \A t \in Tickets : Outstanding(t)' = Outstanding(t)
    BY <2>2 DEF Outstanding, shardVars
  <2>5. \A q \in Procs : Due(q)' \subseteq Due(q)
    BY <2>2, SameDue
  <2>6. QED
    BY <2>3, <2>4, <2>5, NothingDue
<1>6. ASSUME NEW p \in Procs, Stir(p) PROVE OrphanInv'
  BY <1>6, SameDue, SameCommands DEF Stir, shardVars
<1>7. ASSUME NEW c \in Clients, DropReply(c) PROVE OrphanInv'
  <2>1. c \in Procs /\ Leave(c) /\ UNCHANGED <<shardVars, reply>>
    BY <1>7 DEF DropReply, Procs
  <2>2. QED
    BY <2>1, LeaveDue, SameCommands DEF shardVars
<1>8. ASSUME NEW s \in Shards, Recv(s) PROVE OrphanInv'
  <2>1. /\ mailbox[s] \in Seq(Entries) /\ mailbox[s] # <<>>
        /\ cur'[s] = Head(mailbox[s]) /\ mailbox'[s] = Tail(mailbox[s])
        /\ spc[s] = "recv" /\ spc'[s] = "run" /\ UNCHANGED <<reply, tickets, sent, taken>>
        /\ \A r \in Shards \ {s} : /\ spc'[r] = spc[r] /\ cur'[r] = cur[r]
                                   /\ mailbox'[r] = mailbox[r]
    BY <1>8 DEF Recv, procVars, TypeInv, ShardTypes
  <2>2. ASSUME NEW t \in Tickets, Outstanding(t) PROVE Outstanding(t)'
    <3>1. PICK r \in Shards : \/ spc[r] = "run" /\ cur[r].ticket = t
                              \/ \E j \in DOMAIN mailbox[r] : mailbox[r][j].ticket = t
      BY <2>2 DEF Outstanding
    <3>2. CASE r # s
      BY <2>1, <3>1, <3>2 DEF Outstanding
    <3>3. CASE r = s
      <4>1. PICK j \in DOMAIN mailbox[s] : mailbox[s][j].ticket = t
        BY <2>1, <3>1, <3>3
      <4>2. j = 1 => mailbox[s][j] = Head(mailbox[s])
        BY <2>1, <4>1, SMT
      <4>3. j # 1 => j - 1 \in DOMAIN Tail(mailbox[s])
                     /\ Tail(mailbox[s])[j - 1] = mailbox[s][j]
        BY <2>1, <4>1, SMT
      <4>4. QED
        BY <2>1, <4>1, <4>2, <4>3, ZenonT(30) DEF Outstanding
    <3>4. QED
      BY <3>2, <3>3
  <2>3. \A q \in Procs : Due(q)' \subseteq Due(q)
    BY <2>1, SameDue
  <2>4. QED
    BY <2>1, <2>2, <2>3, NothingDue
<1>9. ASSUME NEW s \in Shards, Run(s) PROVE OrphanInv'
  <2>1. /\ cur[s] \in Entries /\ reply \in [Tickets -> Replies]
        /\ \A r \in Shards \ {s} : spc'[r] = spc[r]
        /\ UNCHANGED <<mailbox, cur, tickets, sent, taken>>
    BY <1>9 DEF Run, procVars, TypeInv, ShardTypes
  <2>2. cur[s].ticket \in Tickets
    BY <2>1 DEF Entries
  <2>3. /\ ~reply'[cur[s].ticket].sender_alive
        /\ \A t \in Tickets : t # cur[s].ticket => reply'[t] = reply[t]
    BY <1>9, <2>1, <2>2 DEF Run, Settle
  <2>4. \A t \in Tickets : Outstanding(t) /\ t # cur[s].ticket => Outstanding(t)'
    BY <2>1 DEF Outstanding
  <2>5. \A q \in Procs : Due(q)' \subseteq Due(q)
    BY <2>1, SameDue
  <2>6. QED
    BY <2>3, <2>4, <2>5, NothingDue
<1>10. ASSUME NEW s \in Shards, Notify(s) PROVE OrphanInv'
  <2>1. /\ UNCHANGED <<mailbox, reply, tickets, sent, taken>> /\ spc[s] # "run"
        /\ \A r \in Shards \ {s} : spc'[r] = spc[r] /\ cur'[r] = cur[r]
    BY <1>10 DEF Notify, TypeInv, ShardTypes
  <2>2. \A t \in Tickets : Outstanding(t) => Outstanding(t)'
    BY <2>1 DEF Outstanding
  <2>3. QED
    BY <2>1, <2>2, SameDue, NothingDue
<1>11. ASSUME NEW s \in Shards, Close(s) \/ ThreadEnds(s) PROVE OrphanInv'
  <2>1. /\ UNCHANGED <<mailbox, cur, reply, tickets, sent, taken>> /\ spc[s] # "run"
        /\ \A r \in Shards \ {s} : spc'[r] = spc[r]
    BY <1>11 DEF Close, ThreadEnds, procVars, TypeInv, ShardTypes
  <2>2. \A t \in Tickets : Outstanding(t) => Outstanding(t)'
    BY <2>1 DEF Outstanding
  <2>3. QED
    BY <2>1, <2>2, SameDue, NothingDue
<1>12. ASSUME NEW s \in Shards, Drain(s) PROVE OrphanInv'
  <2> DEFINE u == Head(mailbox[s]).ticket
  <2>1. /\ mailbox[s] \in Seq(Entries) /\ mailbox[s] # <<>>
        /\ mailbox'[s] = Tail(mailbox[s])
        /\ spc[s] = "drain" /\ UNCHANGED <<tickets, sent, taken>>
        /\ \A r \in Shards \ {s} : /\ spc'[r] = spc[r] /\ cur'[r] = cur[r]
                                   /\ mailbox'[r] = mailbox[r]
    BY <1>12 DEF Drain, procVars, TypeInv, ShardTypes
  <2>2. Head(mailbox[s]) \in Entries
    BY <2>1, SMT
  <2>3. /\ ~reply'[u].sender_alive
        /\ \A t \in Tickets : t # u => reply'[t] = reply[t]
    BY <1>12, <2>2 DEF Drain, Settle, Entries, TypeInv, ShardTypes
  <2>4. ASSUME NEW t \in Tickets, Outstanding(t), t # u PROVE Outstanding(t)'
    <3>1. PICK r \in Shards : \/ spc[r] = "run" /\ cur[r].ticket = t
                              \/ \E j \in DOMAIN mailbox[r] : mailbox[r][j].ticket = t
      BY <2>4 DEF Outstanding
    <3>2. CASE r # s
      BY <2>1, <3>1, <3>2, SMT DEF Outstanding
    <3>3. CASE r = s
      <4>1. PICK j \in DOMAIN mailbox[s] : mailbox[s][j].ticket = t
        BY <2>1, <3>1, <3>3
      <4>2. j # 1
        <5>1. Head(mailbox[s]) = mailbox[s][1]
          BY <2>1, HeadAndTail
        <5>2. QED
          BY <2>4, <4>1, <5>1
      <4>3. j - 1 \in DOMAIN Tail(mailbox[s]) /\ Tail(mailbox[s])[j - 1] = mailbox[s][j]
        BY <2>1, <4>1, <4>2, HeadAndTail, SMT
      <4>4. QED
        BY <2>1, <4>1, <4>3 DEF Outstanding
    <3>4. QED
      BY <3>2, <3>3
  <2>5. \A q \in Procs : Due(q)' \subseteq Due(q)
    BY <2>1, SameDue
  <2> HIDE DEF u
  <2>6. QED
    BY <2>3, <2>4, <2>5, NothingDue
<1>13. ASSUME Shutdown PROVE OrphanInv'
  <2>1. Owner \in Procs /\ Enter(Owner, StopAll) /\ UNCHANGED <<shardVars, reply>>
    BY <1>13 DEF Shutdown, Enter, Procs
  <2>2. QED
    BY <2>1, EnterDue, SameCommands DEF shardVars
<1>14. ASSUME Join \/ UNCHANGED vars PROVE OrphanInv'
  <2>1. UNCHANGED <<shardVars, reply, tickets, sent, taken>>
    BY <1>14 DEF Join, vars, procVars
  <2>2. QED
    BY <2>1, SameDue, SameCommands DEF shardVars
<1>15. QED
  BY <1>1, <1>2, <1>3, <1>4, <1>5, <1>6, <1>7, <1>8, <1>9, <1>10, <1>11, <1>12, <1>13, <1>14
     DEF Next, ProcStep, ShardStep

\* No reply is orphaned: what is awaited and not settled is in a command that a shard will
\* answer or drop, also after a panic or a stop (the receiver is dropped with its queue).
THEOREM NoReplyOrphaned == Spec => []ReplyNotOrphaned
<1>1. Init => OrphanInv
  <2> SUFFICES ASSUME Init PROVE OrphanInv
    OBVIOUS
  <2>1. \A p \in Procs : Due(p) = {}
    BY SMT DEF Init, Due
  <2>2. QED
    BY <2>1 DEF OrphanInv
<1>2. TypeInv /\ OrphanInv => ReplyNotOrphaned
  <2> SUFFICES ASSUME TypeInv, OrphanInv, NEW p \in Procs, phase[p] \in {"wait", "asleep"},
                      reply[Awaited(p)].sender_alive
               PROVE  Outstanding(Awaited(p))
    BY DEF ReplyNotOrphaned
  <2>1. Awaited(p) \in Due(p)
    BY AwaitedType DEF Due, Awaited
  <2>2. QED
    BY <2>1 DEF OrphanInv
<1>3. QED
  BY <1>1, <1>2, TypesHold, OrphanStep, PTL DEF Spec

-----------------------------------------------------------------------------
(* What a shard has pending *)

INSTANCE SequenceTheorems

\* A queue behind its first element.
LEMMA FirstAndRest ==
    ASSUME NEW S, NEW q \in Seq(S), NEW x \in S
    PROVE  /\ <<x>> \o q \in Seq(S) /\ <<x>> \o q # <<>>
           /\ Head(<<x>> \o q) = x /\ Tail(<<x>> \o q) = q
           /\ \A y \in S : Append(<<x>> \o q, y) = <<x>> \o Append(q, y)
<1>1. <<x>> \in Seq(S) /\ Len(<<x>>) = 1 /\ <<x>>[1] = x
  BY SMT
<1> DEFINE r == <<x>> \o q
<1>2. /\ r \in Seq(S) /\ Len(r) = 1 + Len(q) /\ Len(q) \in Nat
      /\ r[1] = x /\ \A i \in 1 .. Len(q) : r[i + 1] = q[i]
  BY <1>1, ConcatProperties, SMT
<1> HIDE DEF r
<1>3. r # <<>> /\ Head(r) = x
  BY <1>2, SMT
<1>4. Tail(r) = q
  <2>1. Tail(r) \in Seq(S) /\ Len(Tail(r)) = Len(q)
        /\ \A i \in 1 .. Len(Tail(r)) : Tail(r)[i] = q[i]
    BY <1>2, <1>3, HeadTailProperties, SMTT(30)
  <2>2. QED
    BY <2>1, SeqEqual
<1>5. ASSUME NEW y \in S PROVE Append(r, y) = <<x>> \o Append(q, y)
  <2>1. <<y>> \in Seq(S) /\ Append(r, y) = r \o <<y>> /\ Append(q, y) = q \o <<y>>
    BY <1>2, AppendIsConcat, SMT
  <2>2. QED
    BY <1>1, <2>1, ConcatAssociative, SMTT(30) DEF r
<1>6. QED
  BY <1>2, <1>3, <1>4, <1>5 DEF r

\* A queue is its head and its tail.
LEMMA HeadThenTail ==
    ASSUME NEW S, NEW q \in Seq(S), q # <<>>
    PROVE  <<Head(q)>> \o Tail(q) = q
<1>1. Len(q) \in Nat /\ 1 \in 1 .. Len(q) /\ Len(q) \in 1 .. Len(q) /\ Head(q) = q[1]
  BY SMT
<1>2. SubSeq(q, 1, Len(q)) = <<q[1]>> \o SubSeq(q, 1 + 1, Len(q))
  BY <1>1, SubSeqRecursiveFirst
<1>3. SubSeq(q, 1, Len(q)) = q /\ Tail(q) = SubSeq(q, 2, Len(q)) /\ 1 + 1 = 2
  BY SubSeqFull, TailIsSubSeq, SMT
<1>4. QED
  BY <1>1, <1>2, <1>3


\* What a shard has pending is the entry it works on and its mailbox.
LEMMA PendingFacts ==
    ASSUME TypeInv, NEW s \in Shards
    PROVE  /\ Pending \in [Shards -> Seq(Entries)]
           /\ spc[s] = "run" => /\ Pending[s] = <<cur[s]>> \o mailbox[s] /\ Pending[s] # <<>>
                                /\ Head(Pending[s]) = cur[s] /\ Tail(Pending[s]) = mailbox[s]
                                /\ cur[s] \in Entries
           /\ spc[s] # "run" => Pending[s] = mailbox[s]
<1>1. ASSUME NEW r \in Shards
      PROVE  /\ mailbox[r] \in Seq(Entries)
             /\ spc[r] = "run" => cur[r] \in Entries
  BY DEF TypeInv, ShardTypes
<1>2. ASSUME NEW r \in Shards
      PROVE  /\ spc[r] = "run" => Pending[r] = <<cur[r]>> \o mailbox[r]
             /\ spc[r] # "run" => Pending[r] = <<>> \o mailbox[r]
  BY DEF Pending
<1>3. ASSUME NEW r \in Shards, spc[r] = "run"
      PROVE  /\ Pending[r] \in Seq(Entries) /\ Pending[r] # <<>>
             /\ Head(Pending[r]) = cur[r] /\ Tail(Pending[r]) = mailbox[r]
  <2>1. mailbox[r] \in Seq(Entries) /\ cur[r] \in Entries /\ Pending[r] = <<cur[r]>> \o mailbox[r]
    BY <1>1, <1>2, <1>3
  <2>2. QED
    BY <2>1, FirstAndRest, SMT
<1>4. ASSUME NEW r \in Shards, spc[r] # "run"
      PROVE  Pending[r] = mailbox[r]
  BY <1>1, <1>2, <1>4, ConcatEmptySeq
<1>5. \A r \in Shards : Pending[r] \in Seq(Entries)
  BY <1>1, <1>3, <1>4
<1>6. Pending = [r \in Shards |-> Pending[r]]
  BY DEF Pending
<1>7. Pending \in [Shards -> Seq(Entries)]
  BY <1>5, <1>6
<1>8. QED
  BY <1>1, <1>2, <1>3, <1>4, <1>7

\* Two functions on the shards that agree everywhere are equal.
LEMMA SamePending ==
    ASSUME \A s \in Shards : Pending'[s] = Pending[s]
    PROVE  Pending' = Pending
<1>1. Pending = [r \in Shards |-> Pending[r]] /\ Pending' = [r \in Shards |-> Pending'[r]]
  BY DEF Pending
<1>2. QED
  BY <1>1

\* A step that begins or ends no command and leaves the mailboxes alone changes nothing.
LEMMA QuietPending ==
    ASSUME UNCHANGED mailbox,
           \A s \in Shards : /\ spc'[s] = "run" <=> spc[s] = "run"
                             /\ spc[s] = "run" => cur'[s] = cur[s]
    PROVE  Pending' = Pending
<1>1. \A s \in Shards : Pending'[s] = Pending[s]
  BY DEF Pending
<1>2. QED
  BY <1>1, SamePending

\* Taking a command out of the mailbox to work on it changes nothing.
LEMMA RecvPending ==
    ASSUME TypeInv, NEW s \in Shards, Recv(s)
    PROVE  Pending' = Pending
<1>1. /\ mailbox[s] \in Seq(Entries) /\ mailbox[s] # <<>>
      /\ cur'[s] = Head(mailbox[s]) /\ mailbox'[s] = Tail(mailbox[s])
      /\ spc[s] = "recv" /\ spc'[s] = "run"
      /\ \A r \in Shards \ {s} : /\ mailbox'[r] = mailbox[r]
                                 /\ spc'[r] = spc[r] /\ cur'[r] = cur[r]
  BY DEF Recv, TypeInv, ShardTypes
<1>2. Pending'[s] = <<Head(mailbox[s])>> \o Tail(mailbox[s]) /\ Pending[s] = mailbox[s]
  BY <1>1, PendingFacts DEF Pending
<1>3. Pending'[s] = Pending[s]
  BY <1>1, <1>2, HeadThenTail
<1>4. \A r \in Shards \ {s} : Pending'[r] = Pending[r]
  BY <1>1 DEF Pending
<1>5. QED
  BY <1>3, <1>4, SamePending

\* Working on a command takes it from the front.
LEMMA RunPending ==
    ASSUME TypeInv, NEW s \in Shards, Run(s)
    PROVE  Pending' = [Pending EXCEPT ![s] = Tail(@)]
<1>1. /\ spc[s] = "run" /\ spc'[s] # "run" /\ UNCHANGED <<mailbox, cur>>
      /\ \A r \in Shards \ {s} : spc'[r] = spc[r]
  BY DEF Run, TypeInv, ShardTypes
<1>2. mailbox[s] \in Seq(Entries) /\ Tail(Pending[s]) = mailbox[s]
  BY <1>1, PendingFacts DEF TypeInv, ShardTypes
<1>3. Pending'[s] = <<>> \o mailbox[s]
  BY <1>1 DEF Pending
<1>4. Pending'[s] = Tail(Pending[s])
  BY <1>2, <1>3, ConcatEmptySeq
<1>5. \A r \in Shards \ {s} : Pending'[r] = Pending[r]
  BY <1>1 DEF Pending
<1>6. Pending = [r \in Shards |-> Pending[r]] /\ Pending' = [r \in Shards |-> Pending'[r]]
  BY DEF Pending
<1>7. QED
  BY <1>4, <1>5, <1>6

\* A command is put into a mailbox.
Arrives(sh, e) == mailbox' = [mailbox EXCEPT ![sh] = Append(@, e)] /\ UNCHANGED <<spc, cur>>

\* It is pending behind the others.
LEMMA AppendPending ==
    ASSUME TypeInv, NEW sh \in Shards, NEW e \in Entries, Arrives(sh, e)
    PROVE  Pending' = [Pending EXCEPT ![sh] = Append(@, e)]
<1>1. /\ mailbox[sh] \in Seq(Entries) /\ mailbox'[sh] = Append(mailbox[sh], e)
      /\ Append(mailbox[sh], e) \in Seq(Entries)
      /\ \A r \in Shards \ {sh} : mailbox'[r] = mailbox[r]
      /\ UNCHANGED <<spc, cur>>
  BY AppendProperties DEF Arrives, TypeInv, ShardTypes
<1>2. \A r \in Shards \ {sh} : Pending'[r] = Pending[r]
  BY <1>1 DEF Pending
<1>3. Pending'[sh] = Append(Pending[sh], e)
  <2>1. CASE spc[sh] = "run"
    <3>1. Pending'[sh] = <<cur[sh]>> \o Append(mailbox[sh], e)
      BY <1>1, <2>1 DEF Pending
    <3>2. Pending[sh] = <<cur[sh]>> \o mailbox[sh] /\ cur[sh] \in Entries
      BY <2>1, PendingFacts
    <3>3. Append(<<cur[sh]>> \o mailbox[sh], e) = <<cur[sh]>> \o Append(mailbox[sh], e)
      <4>1. \A y \in Entries : Append(<<cur[sh]>> \o mailbox[sh], y) = <<cur[sh]>> \o Append(mailbox[sh], y)
        BY <1>1, <3>2, FirstAndRest
      <4>2. QED
        BY <4>1
    <3>4. QED
      BY <3>1, <3>2, <3>3
  <2>2. CASE spc[sh] # "run"
    <3>1. Pending'[sh] = <<>> \o Append(mailbox[sh], e)
      BY <1>1, <2>2 DEF Pending
    <3>2. Pending[sh] = mailbox[sh]
      BY <2>2, PendingFacts
    <3>3. QED
      BY <1>1, <3>1, <3>2, ConcatEmptySeq
  <2>3. QED
    BY <2>1, <2>2
<1>4. Pending = [r \in Shards |-> Pending[r]] /\ Pending' = [r \in Shards |-> Pending'[r]]
  BY DEF Pending
<1>5. QED
  BY <1>2, <1>3, <1>4

\* Sending a command puts it at the end.
LEMMA SubmitFacts ==
    ASSUME TypeInv, NEW p \in Procs, Submit(p)
    PROVE  LET i == sent[p] + 1
               c == call[p].commands[i]
           IN  /\ i \in 1 .. Len(tickets[p]) /\ i > sent[p] /\ tickets[p][i] \in Tickets
               /\ c \in Commands /\ c.shard \in Shards
               /\ [command |-> c, ticket |-> tickets[p][i]] \in Entries
               /\ Pending' = [Pending EXCEPT ![c.shard] =
                                 Append(@, [command |-> c, ticket |-> tickets[p][i]])]
               /\ sent' = [sent EXCEPT ![p] = i]
               /\ UNCHANGED <<spc, cur, state, reply, tickets, issued>>
<1> DEFINE i == sent[p] + 1
           c == call[p].commands[i]
<1>1. /\ phase[p] = "submit" /\ c.shard \in Shards
      /\ mailbox' = [mailbox EXCEPT ![c.shard] =
                        Append(@, [command |-> c, ticket |-> tickets[p][i]])]
      /\ sent' = [sent EXCEPT ![p] = i]
      /\ UNCHANGED <<spc, cur, state, reply, tickets, issued>>
  BY DEF Submit
<1>2. i \in 1 .. Len(tickets[p]) /\ i > sent[p] /\ i \in 1 .. Len(call[p].commands)
  <2>1. phase[p] = "submit"
    BY <1>1
  <2>2. QED
    BY <2>1, ProcFacts, SMT DEF Shape
<1>3. call[p].commands \in Seq(Commands) /\ tickets[p] \in Seq(Tickets)
  BY ProcFacts, CallShapes
<1>4. c \in Commands /\ tickets[p][i] \in Tickets
  BY <1>2, <1>3, SMT
<1> HIDE DEF c, i
<1>5. mailbox[c.shard] \in Seq(Entries) /\ [command |-> c, ticket |-> tickets[p][i]] \in Entries
  BY <1>1, <1>4 DEF Entries, TypeInv, ShardTypes
<1>6. Pending' = [Pending EXCEPT ![c.shard] =
                    Append(@, [command |-> c, ticket |-> tickets[p][i]])]
  BY <1>1, <1>5, AppendPending DEF Arrives
<1>7. QED
  BY <1>1, <1>2, <1>4, <1>5, <1>6 DEF c, i

-----------------------------------------------------------------------------
(* Reply channels *)

\* Nobody has answered on this one, and no pending command carries it.
Unused(t) ==
    /\ Answered[t] = NoValue
    /\ \A s \in Shards : \A i \in DOMAIN Pending[s] : Pending[s][i].ticket # t

\* This one is for a command that is not sent yet, or has yet to be made.
ToCome(t) ==
    \/ t > issued
    \/ \E p \in Procs : \E i \in 1 .. Len(tickets[p]) : i > sent[p] /\ tickets[p][i] = t

\* A reply channel belongs to one command of one call, and is not in use before that is sent.
TicketInv ==
    /\ \A t \in Tickets : ToCome(t) => Unused(t)
    /\ \A p \in Procs : \A i \in 1 .. Len(tickets[p]) : tickets[p][i] <= issued
    /\ \A p, q \in Procs : \A i \in 1 .. Len(tickets[p]), j \in 1 .. Len(tickets[q]) :
         tickets[p][i] = tickets[q][j] => p = q /\ i = j

\* A step brings no reply channel into use.
KeepsUnused == \A t \in Tickets : Unused(t) => Unused(t)'

\* Every process keeps its reply channels, having sent no fewer commands, or drops them.
FewerTickets ==
    \A q \in Procs : tickets'[q] = <<>> \/ (tickets'[q] = tickets[q] /\ sent'[q] >= sent[q])

\* A step that issues no reply channel and brings none into use keeps the invariant.
LEMMA QuietTickets ==
    ASSUME TypeInv, TypeInv', TicketInv, KeepsUnused, FewerTickets, UNCHANGED issued
    PROVE  TicketInv'
<1>1. ASSUME NEW p \in Procs, NEW i \in 1 .. Len(tickets'[p])
      PROVE  /\ tickets'[p] = tickets[p] /\ sent'[p] >= sent[p]
             /\ i \in 1 .. Len(tickets[p])
  <2>1. tickets'[p] # <<>>
    BY <1>1, SMT
  <2>2. tickets'[p] = tickets[p] /\ sent'[p] >= sent[p]
    BY <2>1 DEF FewerTickets
  <2>3. QED
    BY <1>1, <2>2
<1>2. sent \in [Procs -> Nat] /\ sent' \in [Procs -> Nat]
  BY DEF TypeInv, ProcTypes
<1>3. ASSUME NEW t \in Tickets, ToCome(t)' PROVE Unused(t)'
  <2>1. ToCome(t)
    BY <1>1, <1>2, <1>3, SMTT(30) DEF ToCome
  <2>2. QED
    BY <2>1 DEF TicketInv, KeepsUnused
<1>4. ASSUME NEW p \in Procs, NEW q \in Procs,
             NEW i \in 1 .. Len(tickets'[p]), NEW j \in 1 .. Len(tickets'[q]),
             tickets'[p][i] = tickets'[q][j]
      PROVE  p = q /\ i = j
  BY <1>1, <1>4, SMT DEF TicketInv
<1>5. \A p \in Procs : \A i \in 1 .. Len(tickets'[p]) : tickets'[p][i] <= issued'
  BY <1>1 DEF TicketInv
<1>6. QED
  BY <1>3, <1>4, <1>5 DEF TicketInv

\* Entering a call issues the reply channels after the last one issued.
LEMMA EnterTickets ==
    ASSUME TypeInv, TypeInv', TicketInv, NEW p \in Procs, NEW k \in CallSet, Enter(p, k)
    PROVE  TicketInv'
<1> DEFINE n == Len(k.commands)
           ts == [i \in 1 .. n |-> issued + i]
<1>1. /\ tickets' = [tickets EXCEPT ![p] = ts] /\ sent' = [sent EXCEPT ![p] = 0]
      /\ issued' = issued + n /\ UNCHANGED <<mailbox, spc, cur, reply>>
  BY DEF Enter, shardVars
<1>2. n \in Nat /\ issued \in Nat /\ issued' \in Nat /\ MaxTickets \in Nat /\ issued' <= MaxTickets
  BY <1>1, CallShapes, ServiceAssumption, SMTT(30) DEF TypeInv
<1>3. Len(ts) = n /\ \A i \in 1 .. n : ts[i] = issued + i /\ ts[i] > issued /\ ts[i] <= issued'
                                       /\ ts[i] \in Tickets
  BY <1>1, <1>2, SMT DEF Tickets
<1>4. tickets'[p] = ts /\ sent'[p] = 0
      /\ \A q \in Procs \ {p} : tickets'[q] = tickets[q] /\ sent'[q] = sent[q]
  BY <1>1 DEF TypeInv, ProcTypes
<1> HIDE DEF n, ts
<1>5. \A t \in Tickets : Unused(t)' = Unused(t)
  <2>1. Pending' = Pending /\ Answered' = Answered
    BY <1>1, QuietPending DEF Answered
  <2>2. QED
    BY <2>1 DEF Unused
<1>6. ASSUME NEW q \in Procs, NEW i \in 1 .. Len(tickets[q])
      PROVE  tickets[q][i] \in Nat /\ tickets[q][i] <= issued /\ tickets[q][i] <= issued'
  <2>1. tickets[q][i] \in Tickets /\ tickets[q][i] <= issued
    BY ProcFacts, SMT DEF TicketInv
  <2>2. QED
    BY <1>1, <1>2, <2>1, SMTT(30) DEF Tickets
<1>7. ASSUME NEW t \in Tickets, ToCome(t)' PROVE Unused(t)'
  <2>1. t > issued' => t > issued
    BY <1>1, <1>2, SMT DEF Tickets
  <2>2. \A i \in 1 .. Len(tickets'[p]) : tickets'[p][i] = t => t > issued
    BY <1>3, <1>4
  <2>3. ToCome(t)
    BY <1>4, <1>7, <2>1, <2>2 DEF ToCome
  <2>4. QED
    BY <1>5, <2>3 DEF TicketInv
<1>8. \A q \in Procs : \A i \in 1 .. Len(tickets'[q]) : tickets'[q][i] <= issued'
  BY <1>3, <1>4, <1>6
<1>11. ASSUME NEW i \in 1 .. n, NEW q \in Procs, NEW j \in 1 .. Len(tickets[q])
       PROVE  ts[i] # tickets[q][j]
  <2>1. issued + i > issued /\ tickets[q][j] <= issued /\ tickets[q][j] \in Nat
    BY <1>2, <1>6, SMT
  <2>2. QED
    BY <1>2, <1>3, <2>1, SMTT(30)
<1>9. ASSUME NEW q \in Procs, NEW r \in Procs,
             NEW i \in 1 .. Len(tickets'[q]), NEW j \in 1 .. Len(tickets'[r]),
             tickets'[q][i] = tickets'[r][j]
      PROVE  q = r /\ i = j
  <2>1. CASE q = p /\ r = p
    BY <1>2, <1>3, <1>4, <1>9, <2>1, SMTT(30)
  <2>2. CASE q # p /\ r # p
    BY <1>4, <1>9, <2>2, SMTT(30) DEF TicketInv
  <2>3. CASE q = p /\ r # p
    BY <1>3, <1>4, <1>9, <1>11, <2>3, SMTT(30)
  <2>4. CASE q # p /\ r = p
    BY <1>3, <1>4, <1>9, <1>11, <2>4, SMTT(30)
  <2>5. QED
    BY <2>1, <2>2, <2>3, <2>4
<1>10. QED
  BY <1>7, <1>8, <1>9 DEF TicketInv

\* Sending a command brings its own reply channel into use, and no other.
LEMMA SubmitTickets ==
    ASSUME TypeInv, TypeInv', TicketInv, NEW p \in Procs, Submit(p)
    PROVE  TicketInv'
<1> DEFINE i == sent[p] + 1
           sh == call[p].commands[i].shard
           u == tickets[p][i]
           e == [command |-> call[p].commands[i], ticket |-> u]
<1>1. /\ i \in 1 .. Len(tickets[p]) /\ i > sent[p] /\ sh \in Shards
      /\ e \in Entries
      /\ Pending' = [Pending EXCEPT ![sh] = Append(@, e)]
      /\ sent' = [sent EXCEPT ![p] = i]
      /\ UNCHANGED <<reply, tickets, issued>>
  BY SubmitFacts
<1>2. e.ticket = u
  OBVIOUS
<1> HIDE DEF e, sh
<1>3. /\ Pending[sh] \in Seq(Entries) /\ Pending'[sh] = Append(Pending[sh], e)
      /\ \A s \in Shards \ {sh} : Pending'[s] = Pending[s]
  BY <1>1, PendingFacts
<1>4. \A j \in DOMAIN Pending'[sh] :
         Pending'[sh][j] = e \/ (j \in DOMAIN Pending[sh] /\ Pending'[sh][j] = Pending[sh][j])
  BY <1>1, <1>3, SMT
<1>5. ASSUME NEW t \in Tickets, t # u, Unused(t) PROVE Unused(t)'
  <2>1. Answered' = Answered
    BY <1>1 DEF Answered
  <2>2. QED
    BY <1>2, <1>3, <1>4, <1>5, <2>1, ZenonT(30) DEF Unused
<1>6. sent'[p] = i /\ \A q \in Procs \ {p} : sent'[q] = sent[q]
  BY <1>1 DEF TypeInv, ProcTypes
<1>7. i \in Nat /\ sent[p] \in Nat /\ u <= issued /\ u \in Nat /\ issued \in Nat
  <2>1. sent[p] \in Nat /\ tickets[p] \in Seq(Tickets)
    BY ProcFacts
  <2>2. u \in Tickets /\ u <= issued
    BY <1>1, <2>1, SMT DEF TicketInv
  <2>3. QED
    BY <2>1, <2>2, SMTT(30) DEF Tickets, TypeInv
<1>8. ASSUME NEW t \in Tickets, ToCome(t)' PROVE Unused(t)'
  <2>1. ToCome(t)
    BY <1>1, <1>6, <1>7, <1>8, SMTT(30) DEF ToCome
  <2>2. t # u
    <3>1. CASE t > issued
      BY <1>7, <3>1, SMTT(30)
    <3>2. CASE ~(t > issued)
      <4>1. PICK q \in Procs : \E j \in 1 .. Len(tickets[q]) : j > sent'[q] /\ tickets[q][j] = t
        BY <1>1, <1>8, <3>2 DEF ToCome
      <4>2. PICK j \in 1 .. Len(tickets[q]) : j > sent'[q] /\ tickets[q][j] = t
        BY <4>1
      <4>3. ~(q = p /\ j = i)
        BY <1>6, <1>7, <4>2, SMTT(30)
      <4>4. QED
        BY <1>1, <4>2, <4>3, SMTT(30) DEF TicketInv
    <3>3. QED
      BY <3>1, <3>2
  <2>3. QED
    BY <1>5, <2>1, <2>2 DEF TicketInv
<1>9. QED
  BY <1>1, <1>8, SMT DEF TicketInv

-----------------------------------------------------------------------------
(* Steps that the store does not see *)

StoreQuiet == UNCHANGED <<state, Pending, Answered>>

\* Only sending a command, receiving an answer and working on a command are seen; shutdown
\* drops nothing that is pending.
LEMMA QuietStep ==
    ASSUME TypeInv, StopInv, [Next]_vars
    PROVE  \/ \E p \in Procs : Submit(p) \/ Take(p)
           \/ \E s \in Shards : Run(s)
           \/ StoreQuiet
<1>1. ASSUME UNCHANGED <<shardVars, reply>> PROVE StoreQuiet
  <2>1. UNCHANGED <<mailbox, spc, cur, state, reply>>
    BY <1>1 DEF shardVars
  <2>2. QED
    BY <2>1, QuietPending DEF StoreQuiet, Answered
<1>2. ASSUME NEW c \in Clients, NEW k \in Calls, Begin(c, k) PROVE StoreQuiet
  BY <1>1, <1>2 DEF Begin, Enter
<1>3. ASSUME NEW p \in Procs, Refuse(p) \/ ReplyFailed(p) \/ TimeOut(p) \/ Stir(p) PROVE StoreQuiet
  BY <1>1, <1>3 DEF Refuse, ReplyFailed, TimeOut, Stir
<1>4. ASSUME NEW p \in Procs, Sleep(p) PROVE StoreQuiet
  <2>1. /\ UNCHANGED <<mailbox, spc, cur, state>> /\ Awaited(p) \in Tickets
        /\ reply' = [reply EXCEPT ![Awaited(p)].waker = @ \/ call[p].waits = "async"]
    BY <1>4, AwaitedType DEF Sleep, shardVars
  <2>2. \A t \in Tickets : reply'[t].value = reply[t].value
    BY <2>1 DEF TypeInv, ShardTypes, Replies
  <2>3. Pending' = Pending /\ Answered' = Answered
    BY <2>1, <2>2, QuietPending DEF Answered
  <2>4. QED
    BY <2>1, <2>3 DEF StoreQuiet
<1>5. ASSUME NEW c \in Clients, DropReply(c) PROVE StoreQuiet
  BY <1>1, <1>5 DEF DropReply
<1>6. ASSUME NEW s \in Shards, Recv(s) PROVE StoreQuiet
  BY <1>6, RecvPending DEF Recv, StoreQuiet, Answered
<1>7. ASSUME NEW s \in Shards, Notify(s) \/ Close(s) \/ ThreadEnds(s) PROVE StoreQuiet
  <2>1. /\ UNCHANGED <<mailbox, state, reply>> /\ spc[s] # "run" /\ spc'[s] # "run"
        /\ \A r \in Shards \ {s} : spc'[r] = spc[r] /\ cur'[r] = cur[r]
    BY <1>7 DEF Notify, Close, ThreadEnds, TypeInv, ShardTypes
  <2>2. Pending' = Pending
    BY <2>1, QuietPending
  <2>3. QED
    BY <2>1, <2>2 DEF StoreQuiet, Answered
<1>8. ASSUME NEW s \in Shards, Drain(s) PROVE FALSE
  <2>1. spc[s] = "drain" /\ mailbox[s] # <<>>
    BY <1>8 DEF Drain
  <2>2. QED
    BY <2>1 DEF StopInv, ShardStop, Stopping
<1>9. ASSUME Shutdown \/ Join \/ UNCHANGED vars PROVE StoreQuiet
  BY <1>1, <1>9 DEF Shutdown, Enter, Join, vars
<1>10. QED
  BY <1>2, <1>3, <1>4, <1>5, <1>6, <1>7, <1>8, <1>9 DEF Next, ProcStep, ShardStep

\* Receiving an answer empties its reply channel.
LEMMA TakeFacts ==
    ASSUME TypeInv, NEW p \in Procs, Take(p)
    PROVE  /\ Awaited(p) \in Tickets /\ Answered[Awaited(p)] # NoValue
           /\ Answered' = [Answered EXCEPT ![Awaited(p)] = NoValue]
           /\ UNCHANGED <<state, Pending>>
<1>1. /\ Awaited(p) \in Tickets /\ reply[Awaited(p)].value # NoValue
      /\ reply' = [reply EXCEPT ![Awaited(p)].value = NoValue]
      /\ UNCHANGED <<mailbox, spc, cur, state>>
  BY AwaitedType DEF Take, shardVars
<1>2. \A t \in Tickets : reply'[t].value = IF t = Awaited(p) THEN NoValue ELSE reply[t].value
  BY <1>1 DEF TypeInv, ShardTypes, Replies
<1>3. Answered' = [Answered EXCEPT ![Awaited(p)] = NoValue]
  BY <1>1, <1>2 DEF Answered
<1>4. QED
  BY <1>1, <1>3, QuietPending DEF Answered

-----------------------------------------------------------------------------
(* The operations *)

KeyOps == {"get", "put", "compare_and_put", "get_or_put", "delete"}

\* A command with a key goes to the shard that the placement names; the others have no key.
LEMMA CommandFacts ==
    ASSUME NEW c \in Commands
    PROVE  /\ c.op \in KeyOps \cup {"len", "keys", "stop"}
           /\ c.op \in KeyOps => c.key \in Keys /\ Place[c.key] = c.shard
<1>1. c \in KvCommands
  BY KvCommandsAssumption
<1>2. CASE \E k \in Keys : c = Get(k) \/ c = Delete(k)
  BY <1>2, SMT DEF KeyOps, Get, Delete
<1>3. CASE \E k \in Keys, v \in Values : c = Put(k, v) \/ c = GetOrPut(k, v)
  BY <1>3, SMT DEF KeyOps, Put, GetOrPut
<1>4. CASE \E k \in Keys, e \in Values \cup {None}, v \in Values : c = CompareAndPut(k, e, v)
  BY <1>4, SMT DEF KeyOps, CompareAndPut
<1>5. CASE c \in [op : {"len", "keys"}, shard : Nat]
  BY <1>5 DEF KeyOps
<1>6. CASE \E s \in Shards : c = Stop(s)
  BY <1>6, SMT DEF KeyOps, Stop
<1>7. QED
  BY <1>1, <1>2, <1>3, <1>4, <1>5, <1>6, SMTT(30) DEF KvCommands

\* The map after a command differs at most at its key, and there depends on what the key had.
LEMMA EffectLocal ==
    ASSUME NEW c \in Commands, NEW m \in Maps, NEW n \in Maps,
           c.op \in KeyOps => m[c.key] = n[c.key]
    PROVE  /\ KvEffect(m, c) = [k \in Keys |-> KvEffect(m, c)[k]]
           /\ \A k \in Keys : Place[k] # c.shard => KvEffect(m, c)[k] = m[k]
           /\ \A k \in Keys : m[k] = n[k] => KvEffect(m, c)[k] = KvEffect(n, c)[k]
<1>1. CASE c.op = "put"
  BY <1>1, CommandFacts DEF KvEffect, Maps, KeyOps
<1>2. CASE c.op = "compare_and_put"
  BY <1>2, CommandFacts DEF KvEffect, Maps, KeyOps
<1>3. CASE c.op = "get_or_put"
  BY <1>3, CommandFacts DEF KvEffect, Maps, KeyOps
<1>4. CASE c.op = "delete"
  BY <1>4, CommandFacts DEF KvEffect, Maps, KeyOps
<1>5. CASE c.op \in {"get", "len", "keys", "stop"}
  BY <1>5 DEF KvEffect, Maps
<1>6. QED
  BY <1>1, <1>2, <1>3, <1>4, <1>5, CommandFacts DEF KeyOps

\* So does the answer to a command with a key.
LEMMA ResultLocal ==
    ASSUME NEW c \in Commands, NEW m \in Maps, NEW n \in Maps, c.op \notin {"len", "keys"},
           c.op \in KeyOps => m[c.key] = n[c.key]
    PROVE  KvResult(m, c) = KvResult(n, c)
BY CommandFacts DEF KvResult, KeyOps

\* Working on a command has the effect and gives the answer of KvService.
LEMMA RunFacts ==
    ASSUME TypeInv, NEW s \in Shards, Run(s)
    PROVE  /\ cur[s] \in Entries /\ state \in [Shards -> Maps]
           /\ Pending[s] # <<>> /\ Head(Pending[s]) = cur[s]
           /\ Pending' = [Pending EXCEPT ![s] = Tail(@)]
           /\ state' = [state EXCEPT ![s] = KvEffect(state[s], cur[s].command)]
           /\ Answered' = [Answered EXCEPT ![cur[s].ticket] = KvResult(state[s], cur[s].command)]
<1>1. /\ spc[s] = "run" /\ cur[s] \in Entries /\ state \in [Shards -> Maps]
      /\ reply \in [Tickets -> Replies]
  BY KvServiceAssumption DEF Run, TypeInv, ShardTypes
<1>2. cur[s].command \in Commands /\ cur[s].ticket \in Tickets /\ state[s] \in States
  BY <1>1, KvServiceAssumption DEF Entries
<1>3. /\ Effect(state[s], cur[s].command) = KvEffect(state[s], cur[s].command)
      /\ Result(state[s], cur[s].command) = KvResult(state[s], cur[s].command)
      /\ ~Panics(state[s], cur[s].command)
  BY <1>2, KvServiceAssumption
<1>4. state' = [state EXCEPT ![s] = KvEffect(state[s], cur[s].command)]
  BY <1>3 DEF Run
<1>5. reply' = [reply EXCEPT ![cur[s].ticket] = [value |-> KvResult(state[s], cur[s].command),
                                                 sender_alive |-> FALSE, waker |-> FALSE]]
  BY <1>3 DEF Run, Settle
<1>6. \A t \in Tickets : reply'[t].value = IF t = cur[s].ticket
                                          THEN KvResult(state[s], cur[s].command)
                                          ELSE reply[t].value
  BY <1>1, <1>2, <1>5
<1>7. Answered' = [Answered EXCEPT ![cur[s].ticket] = KvResult(state[s], cur[s].command)]
  BY <1>2, <1>6 DEF Answered
<1>8. QED
  BY <1>1, <1>4, <1>7, PendingFacts, RunPending

-----------------------------------------------------------------------------
(* The invariants *)

\* Nobody gets reply channels but by entering a call.
LEMMA FewerStep ==
    ASSUME TypeInv, [Next]_vars
    PROVE  \/ \E p \in Procs : Submit(p) \/ \E k \in CallSet : Enter(p, k)
           \/ FewerTickets /\ UNCHANGED issued
<1>0. \A q \in Procs : sent[q] \in Nat /\ sent[q] >= sent[q]
  BY ProcFacts, SMT
<1>1. ASSUME UNCHANGED <<tickets, sent>> PROVE FewerTickets
  BY <1>0, <1>1 DEF FewerTickets
<1>2. ASSUME NEW p \in Procs, Leave(p) PROVE FewerTickets
  BY <1>0, <1>2 DEF FewerTickets, Leave, TypeInv, ProcTypes
<1>3. ASSUME phase[Owner] \in {"submit", "wait", "asleep"}, NextStop(taken[Owner] + 1)
      PROVE  FewerTickets
  <2>1. Owner \in Procs
    BY DEF Procs
  <2>2. sent[Owner] <= taken[Owner] + 1
    BY <1>3, <2>1, ProcFacts, SMT DEF Shape
  <2>3. sent'[Owner] = taken[Owner] + 1 /\ UNCHANGED tickets
        /\ \A q \in Procs \ {Owner} : sent'[q] = sent[q]
    BY <1>3, <2>1 DEF NextStop, TypeInv, ProcTypes
  <2>4. sent'[Owner] >= sent[Owner]
    BY <1>0, <2>1, <2>2, <2>3, ProcFacts
  <2>5. QED
    BY <1>0, <2>3, <2>4 DEF FewerTickets
<1>4. ASSUME NEW p \in Procs, Refuse(p) \/ ReplyFailed(p) \/ TimeOut(p)
      PROVE  FewerTickets /\ UNCHANGED issued
  <2>1. Fail(p) /\ phase[p] \in {"submit", "wait", "asleep"} /\ UNCHANGED issued
    BY <1>4 DEF Refuse, ReplyFailed, TimeOut
  <2>2. QED
    BY <1>2, <1>3, <2>1 DEF Fail
<1>5. ASSUME NEW p \in Procs, Take(p) PROVE FewerTickets /\ UNCHANGED issued
  <2>1. phase[p] = "wait" /\ UNCHANGED issued
    BY <1>5 DEF Take
  <2>2. (NextStop(taken[p] + 1) /\ p = Owner) \/ Leave(p) \/ UNCHANGED <<tickets, sent>>
    BY <1>5 DEF Take
  <2>3. QED
    BY <1>1, <1>2, <1>3, <2>1, <2>2
<1>6. ASSUME NEW p \in Procs, Sleep(p) \/ Stir(p) PROVE FewerTickets /\ UNCHANGED issued
  BY <1>1, <1>6 DEF Sleep, Stir
<1>7. ASSUME NEW c \in Clients, DropReply(c) PROVE FewerTickets /\ UNCHANGED issued
  BY <1>2, <1>7 DEF DropReply, Procs
<1>8. ASSUME NEW s \in Shards, ShardStep(s) PROVE FewerTickets /\ UNCHANGED issued
  <2>1. UNCHANGED <<tickets, sent, issued>>
    BY <1>8 DEF ShardStep, Recv, Run, Notify, Close, Drain, ThreadEnds, procVars
  <2>2. QED
    BY <1>1, <2>1
<1>9. ASSUME Join \/ UNCHANGED vars PROVE FewerTickets /\ UNCHANGED issued
  BY <1>1, <1>9 DEF Join, vars, procVars
<1>10. ASSUME NEW c \in Clients, NEW k \in Calls, Begin(c, k)
       PROVE  c \in Procs /\ k \in CallSet /\ Enter(c, k)
  BY <1>10 DEF Begin, Procs, CallSet
<1>11. ASSUME Shutdown PROVE Owner \in Procs /\ StopAll \in CallSet /\ Enter(Owner, StopAll)
  BY <1>11 DEF Shutdown, Procs, CallSet
<1>12. QED
  BY <1>4, <1>5, <1>6, <1>7, <1>8, <1>9, <1>10, <1>11 DEF Next, ProcStep

\* Every step keeps the invariant on reply channels.
LEMMA TicketStep ==
    ASSUME TypeInv, TypeInv', StopInv, TicketInv, [Next]_vars
    PROVE  TicketInv'
<1>1. ASSUME NEW p \in Procs, Submit(p) PROVE TicketInv'
  BY <1>1, SubmitTickets
<1>2. ASSUME NEW p \in Procs, NEW k \in CallSet, Enter(p, k) PROVE TicketInv'
  BY <1>2, EnterTickets
<1>3. ASSUME StoreQuiet PROVE KeepsUnused
  BY <1>3 DEF StoreQuiet, KeepsUnused, Unused
<1>4. ASSUME NEW p \in Procs, Take(p) PROVE KeepsUnused
  <2>1. \A t \in Tickets : Answered[t] = NoValue => Answered'[t] = NoValue
    BY <1>4, TakeFacts DEF Answered
  <2>2. QED
    BY <1>4, <2>1, TakeFacts DEF KeepsUnused, Unused
<1>5. ASSUME NEW s \in Shards, Run(s) PROVE KeepsUnused
  <2>1. /\ Pending[s] \in Seq(Entries) /\ Pending[s] # <<>> /\ Head(Pending[s]) = cur[s]
        /\ Pending'[s] = Tail(Pending[s])
        /\ \A r \in Shards \ {s} : Pending'[r] = Pending[r]
    BY <1>5, PendingFacts, RunFacts
  <2>2. /\ 1 \in DOMAIN Pending[s] /\ Pending[s][1] = cur[s]
        /\ \A i \in DOMAIN Pending'[s] : /\ i + 1 \in DOMAIN Pending[s]
                                         /\ Pending'[s][i] = Pending[s][i + 1]
    BY <2>1, HeadAndTail, SMT
  <2>3. \A t \in Tickets : t # cur[s].ticket => Answered'[t] = Answered[t]
    BY <1>5, RunFacts, ZenonT(30) DEF Answered
  <2>4. ASSUME NEW t \in Tickets, Unused(t) PROVE Unused(t)'
    <3>1. t # cur[s].ticket
      BY <2>2, <2>4 DEF Unused
    <3>2. \A i \in DOMAIN Pending'[s] : Pending'[s][i].ticket # t
      BY <2>2, <2>4 DEF Unused
    <3>3. QED
      BY <2>1, <2>3, <2>4, <3>1, <3>2, ZenonT(30) DEF Unused
  <2>5. QED
    BY <2>4 DEF KeepsUnused
<1>6. QED
  BY <1>1, <1>2, <1>3, <1>4, <1>5, QuietStep, FewerStep, QuietTickets

\* Every command is pending at the shard it names, and a shard's map has only keys that the
\* placement gives it.
RouteInv ==
    \A s \in Shards :
        /\ \A i \in DOMAIN Pending[s] : Pending[s][i].command.shard = s
        /\ \A k \in Keys : Place[k] # s => state[s][k] = None

LEMMA RouteStep ==
    ASSUME TypeInv, StopInv, RouteInv, [Next]_vars
    PROVE  RouteInv'
<1>1. ASSUME NEW p \in Procs, Submit(p) PROVE RouteInv'
  <2> DEFINE i == sent[p] + 1
             sh == call[p].commands[i].shard
             e == [command |-> call[p].commands[i], ticket |-> tickets[p][i]]
  <2>1. /\ sh \in Shards /\ e \in Entries /\ UNCHANGED state
        /\ Pending' = [Pending EXCEPT ![sh] = Append(@, e)]
    BY <1>1, SubmitFacts
  <2>2. e.command.shard = sh
    OBVIOUS
  <2> HIDE DEF e, sh
  <2>3. /\ Pending[sh] \in Seq(Entries) /\ Pending'[sh] = Append(Pending[sh], e)
        /\ \A s \in Shards \ {sh} : Pending'[s] = Pending[s]
    BY <2>1, PendingFacts
  <2>4. \A j \in DOMAIN Pending'[sh] :
           Pending'[sh][j] = e \/ (j \in DOMAIN Pending[sh] /\ Pending'[sh][j] = Pending[sh][j])
    BY <2>1, <2>3, SMTT(30)
  <2>5. \A j \in DOMAIN Pending'[sh] : Pending'[sh][j].command.shard = sh
    BY <2>1, <2>2, <2>4, SMT DEF RouteInv
  <2>6. QED
    BY <2>1, <2>3, <2>5 DEF RouteInv
<1>2. ASSUME UNCHANGED <<state, Pending>> PROVE RouteInv'
  BY <1>2 DEF RouteInv
<1>3. ASSUME NEW s \in Shards, Run(s) PROVE RouteInv'
  <2> DEFINE c == cur[s].command
  <2>1. /\ Pending[s] \in Seq(Entries) /\ Pending[s] # <<>> /\ Head(Pending[s]) = cur[s]
        /\ Pending'[s] = Tail(Pending[s])
        /\ \A r \in Shards \ {s} : Pending'[r] = Pending[r]
    BY <1>3, PendingFacts, RunFacts
  <2>2. /\ 1 \in DOMAIN Pending[s] /\ Pending[s][1] = cur[s]
        /\ \A i \in DOMAIN Pending'[s] : /\ i + 1 \in DOMAIN Pending[s]
                                         /\ Pending'[s][i] = Pending[s][i + 1]
    BY <2>1, HeadAndTail, SMTT(30)
  <2>3. c.shard = s /\ c \in Commands /\ state[s] \in Maps
    BY <1>3, <2>2, RunFacts, SMTT(30) DEF RouteInv, Entries
  <2>4. \A k \in Keys : Place[k] # s => KvEffect(state[s], c)[k] = state[s][k]
    BY <2>3, EffectLocal
  <2>5. state'[s] = KvEffect(state[s], c) /\ \A r \in Shards \ {s} : state'[r] = state[r]
    BY <1>3, RunFacts
  <2> HIDE DEF c
  <2>6. \A j \in DOMAIN Pending'[s] : Pending'[s][j].command.shard = s
    BY <2>2, SMT DEF RouteInv
  <2>7. \A k \in Keys : Place[k] # s => state'[s][k] = None
    BY <2>4, <2>5 DEF RouteInv
  <2>8. QED
    <3>1. ASSUME NEW r \in Shards, r # s
          PROVE  /\ \A j \in DOMAIN Pending'[r] : Pending'[r][j].command.shard = r
                 /\ \A k \in Keys : Place[k] # r => state'[r][k] = None
      BY <2>1, <2>5, <3>1, SMT DEF RouteInv
    <3>2. QED
      BY <2>6, <2>7, <3>1 DEF RouteInv
<1>4. QED
  BY <1>1, <1>2, <1>3, QuietStep, TakeFacts DEF StoreQuiet

-----------------------------------------------------------------------------
(* The refinement *)

\* Sending a command is acceptance by the store, on a reply channel that is free.
LEMMA SubmitAccepts ==
    ASSUME TypeInv, TicketInv, NEW p \in Procs, Submit(p)
    PROVE  Store!StoreNext
<1> DEFINE i == sent[p] + 1
           c == call[p].commands[i]
           t == tickets[p][i]
<1>1. /\ i \in 1 .. Len(tickets[p]) /\ i > sent[p] /\ t \in Tickets
      /\ c \in Commands /\ c.shard \in Shards
      /\ Pending' = [Pending EXCEPT ![c.shard] = Append(@, [command |-> c, ticket |-> t])]
      /\ UNCHANGED <<state, reply>>
  BY SubmitFacts
<1>2. Unused(t)
  BY <1>1 DEF TicketInv, ToCome
<1>3. UNCHANGED <<Map, Answered>>
  BY <1>1 DEF Map, Answered
<1> HIDE DEF c, t
<1>4. Store!Free(t) /\ Store!Accept(c, t)
  BY <1>1, <1>2, <1>3 DEF Unused, Store!Free, Store!Accept
<1>5. QED
  BY <1>1, <1>4 DEF Store!StoreNext

\* The map of a shard and the whole map agree on the keys of the shard.
LEMMA MapFacts ==
    ASSUME TypeInv, NEW s \in Shards
    PROVE  /\ Map \in Maps /\ state[s] \in Maps
           /\ \A k \in Keys : Place[k] = s => Map[k] = state[s][k]
<1>1. state \in [Shards -> Maps]
  BY KvServiceAssumption DEF TypeInv, ShardTypes
<1>2. \A k \in Keys : Map[k] \in Values \cup {None}
  BY <1>1 DEF Map, Maps
<1>3. QED
  BY <1>1, <1>2 DEF Map, Maps

\* The store and the service have the same operations.
LEMMA SameOperations ==
    ASSUME NEW m, NEW c
    PROVE  Store!KvEffect(m, c) = KvEffect(m, c) /\ Store!KvResult(m, c) = KvResult(m, c)
<1>1. Store!KvEffect(m, c) = KvEffect(m, c)
  BY DEF KvEffect, Store!KvEffect
<1>2. Store!Present(m) = Present(m)
  BY DEF Present, Store!Present
<1>3. Store!KvResult(m, c) = KvResult(m, c)
  BY <1>2, SMT DEF KvResult, Store!KvResult
<1>4. QED
  BY <1>1, <1>3

\* Working on a command is execution by the store: the effect on the shard's map is the
\* effect on the whole map, and the answer is the same.
LEMMA RunExecutes ==
    ASSUME TypeInv, RouteInv, NEW s \in Shards, Run(s)
    PROVE  Store!Execute(s)
<1> DEFINE c == cur[s].command
<1>1. /\ Pending[s] \in Seq(Entries) /\ Pending[s] # <<>> /\ Head(Pending[s]) = cur[s]
      /\ Pending' = [Pending EXCEPT ![s] = Tail(@)]
      /\ state \in [Shards -> Maps] /\ c \in Commands
      /\ state' = [state EXCEPT ![s] = KvEffect(state[s], c)]
      /\ Answered' = [Answered EXCEPT ![cur[s].ticket] = KvResult(state[s], c)]
  BY PendingFacts, RunFacts DEF Entries
<1>2. c.shard = s
  BY <1>1, HeadAndTail, SMT DEF RouteInv
<1>3. /\ Map \in Maps /\ state[s] \in Maps
      /\ \A k \in Keys : Place[k] = s => Map[k] = state[s][k]
  BY MapFacts
<1>4. c.op \in KeyOps => Map[c.key] = state[s][c.key]
  BY <1>1, <1>2, <1>3, CommandFacts
<1> HIDE DEF c
<1>5. Map' = KvEffect(Map, c)
  <2>1. /\ KvEffect(Map, c) = [k \in Keys |-> KvEffect(Map, c)[k]]
        /\ \A k \in Keys : Place[k] # s => KvEffect(Map, c)[k] = Map[k]
        /\ \A k \in Keys : Map[k] = state[s][k] => KvEffect(Map, c)[k] = KvEffect(state[s], c)[k]
    BY <1>1, <1>2, <1>3, <1>4, EffectLocal, SMTT(30)
  <2>2. state'[s] = KvEffect(state[s], c) /\ \A r \in Shards \ {s} : state'[r] = state[r]
    BY <1>1
  <2>3. ASSUME NEW k \in Keys PROVE Map'[k] = KvEffect(Map, c)[k]
    <3>1. CASE Place[k] = s
      BY <1>3, <2>1, <2>2, <3>1 DEF Map
    <3>2. CASE Place[k] # s
      BY <2>1, <2>2, <3>2 DEF Map
    <3>3. QED
      BY <3>1, <3>2
  <2>4. Map' = [k \in Keys |-> Map'[k]]
    BY DEF Map
  <2>5. QED
    BY <2>1, <2>3, <2>4
<1>6. KvResult(Store!View(c), c) = KvResult(state[s], c)
  <2>1. CASE c.op \in {"len", "keys"}
    <3>1. Store!View(c) = [k \in Keys |-> IF Place[k] = c.shard THEN Map[k] ELSE None]
      BY <2>1 DEF Store!View
    <3>2. \A k \in Keys : Store!View(c)[k] = state[s][k]
      BY <1>2, <1>3, <3>1, SMTT(30) DEF RouteInv
    <3>3. Store!View(c) = state[s]
      BY <1>3, <3>1, <3>2, SMTT(30) DEF Maps
    <3>4. QED
      BY <3>3
  <2>2. CASE c.op \notin {"len", "keys"}
    <3>1. Store!View(c) = Map
      BY <2>2 DEF Store!View
    <3>2. QED
      BY <1>1, <1>3, <1>4, <2>2, <3>1, ResultLocal
  <2>3. QED
    BY <2>1, <2>2
<1>7. Head(Pending[s]).command = c /\ Head(Pending[s]).ticket = cur[s].ticket
  BY <1>1 DEF c
<1>8. QED
  BY <1>1, <1>5, <1>6, <1>7, SameOperations DEF Store!Execute

\* Receiving an answer is collection by the store.
LEMMA TakeCollects ==
    ASSUME TypeInv, NEW p \in Procs, Take(p)
    PROVE  Store!StoreNext
<1>1. /\ Awaited(p) \in Tickets /\ Answered[Awaited(p)] # NoValue
      /\ Answered' = [Answered EXCEPT ![Awaited(p)] = NoValue]
      /\ UNCHANGED <<state, Pending>>
  BY TakeFacts
<1>2. UNCHANGED Map
  BY <1>1 DEF Map
<1>3. Store!Collect(Awaited(p))
  BY <1>1, <1>2 DEF Store!Collect
<1>4. QED
  BY <1>1, <1>3 DEF Store!StoreNext

\* Every step of the service is a step of the store or none.
LEMMA StoreStep ==
    TypeInv /\ StopInv /\ TicketInv /\ RouteInv /\ [Next]_vars
        => [Store!StoreNext]_(Store!storeVars)
<1> SUFFICES ASSUME TypeInv, StopInv, TicketInv, RouteInv, [Next]_vars
             PROVE  Store!StoreNext \/ UNCHANGED <<Map, Pending, Answered>>
  BY DEF Store!storeVars
<1>1. ASSUME NEW s \in Shards, Run(s) PROVE Store!StoreNext
  BY <1>1, RunExecutes DEF Store!StoreNext
<1>2. ASSUME StoreQuiet PROVE UNCHANGED <<Map, Pending, Answered>>
  BY <1>2 DEF StoreQuiet, Map
<1>3. QED
  BY <1>1, <1>2, SubmitAccepts, TakeCollects, QuietStep

\* ShardedKv behaves like one map, for any number of shards, clients, keys and calls, any
\* placement and any capacity, also across shutdown.
THEOREM KvImplementsStore == Spec => ImplementsStore
<1>1. NoEarlyStop
  BY KvServiceAssumption DEF NoEarlyStop
<1>2. Init => TicketInv /\ RouteInv /\ Store!StoreInit
  <2> SUFFICES ASSUME Init PROVE TicketInv /\ RouteInv /\ Store!StoreInit
    OBVIOUS
  <2>1. /\ \A s \in Shards : spc[s] = "recv" /\ mailbox[s] = <<>> /\ state[s] = EmptyMap
        /\ \A t \in Tickets : reply[t].value = NoValue
        /\ \A p \in Procs : tickets[p] = <<>>
    BY KvServiceAssumption DEF Init
  <2>2. \A s \in Shards : Pending[s] = <<>>
    BY <2>1, SMT DEF Pending
  <2>3. Pending = [s \in Shards |-> <<>>] /\ Answered = [t \in Tickets |-> NoValue]
    BY <2>1, <2>2 DEF Pending, Answered
  <2>4. Map = EmptyMap
    BY <2>1 DEF Map, EmptyMap
  <2>5. TicketInv
    BY <2>1, <2>2, <2>3, SMTT(30) DEF TicketInv, Unused
  <2>6. RouteInv
    BY <2>1, <2>2, SMTT(30) DEF RouteInv, EmptyMap
  <2>7. Store!StoreInit
    BY <2>3, <2>4 DEF Store!StoreInit, EmptyMap, Store!EmptyMap
  <2>8. QED
    BY <2>5, <2>6, <2>7
<1>3. TypeInv /\ TypeInv' /\ StopInv /\ TicketInv /\ [Next]_vars => TicketInv'
  BY TicketStep
<1>4. TypeInv /\ StopInv /\ RouteInv /\ [Next]_vars => RouteInv'
  BY RouteStep
<1>5. TypeInv /\ StopInv /\ [Next]_vars => StopInv'
  BY <1>1, StopStep
<1>6. QED
  BY <1>2, <1>3, <1>4, <1>5, TypesHold, StopInit, StoreStep, PTL
     DEF Spec, ImplementsStore, Store!StoreSpec

=============================================================================
