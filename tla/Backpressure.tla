---------------------------- MODULE Backpressure ----------------------------
(***************************************************************************)
(* BackpressureGuard (executor/backpressure.rs): an atomic count of        *)
(* permits in flight, taken by compare-and-exchange, and a mutex-guarded   *)
(* list of the wakers of acquirers that found the guard full.  A step is   *)
(* one atomic access or one critical section of the list.  The wakers a    *)
(* released permit takes from the list are wake_due after the unlock: `wake_due` *)
(* holds from the moment they are taken.                                   *)
(***************************************************************************)
EXTENDS Naturals, FiniteSets

CONSTANTS
    Acquirers,   \* tasks that acquire, each one permit at a time
    PermitCapacity     \* capacity

ASSUME CapacityAssumption ==
    /\ IsFiniteSet(Acquirers)
    /\ PermitCapacity \in Nat \ {0}

VARIABLES
    in_flight,
    waiters,      \* acquirers whose waker is in the list
    registered,   \* AcquirePermit.registered
    acquiring,           \* where each acquirer is
    current,      \* the count it loaded
    wake_due         \* a task with an AcquirePermit is due to poll it

permitVars == <<in_flight, waiters, registered, acquiring, current, wake_due>>

PermitInit ==
    /\ in_flight = 0
    /\ waiters = {}
    /\ registered = [a \in Acquirers |-> FALSE]
    /\ acquiring = [a \in Acquirers |-> "idle"]
    /\ current = [a \in Acquirers |-> 0]
    /\ wake_due = [a \in Acquirers |-> FALSE]

Goto(a, l) == acquiring' = [acquiring EXCEPT ![a] = l]

-----------------------------------------------------------------------------
(* A definition marked "fault" is the one that follows it with a mistake in it; PermitNext    *)
(* uses none of them.                                                                  *)

\* try_acquire is called
TryAcquire(a) ==
    /\ acquiring[a] = "idle"
    /\ Goto(a, "try_load")
    /\ UNCHANGED <<in_flight, waiters, registered, current, wake_due>>

\* acquire() makes the future, due for its first poll
Acquire(a) ==
    /\ acquiring[a] = "idle"
    /\ Goto(a, "waiting")
    /\ registered' = [registered EXCEPT ![a] = FALSE]
    /\ wake_due' = [wake_due EXCEPT ![a] = TRUE]
    /\ UNCHANGED <<in_flight, waiters, current>>

\* AcquirePermit::poll is entered
Poll(a) ==
    /\ acquiring[a] = "waiting"
    /\ wake_due[a]
    /\ Goto(a, "load")
    /\ wake_due' = [wake_due EXCEPT ![a] = FALSE]
    /\ UNCHANGED <<in_flight, waiters, registered, current>>

\* the load of in_flight, and the branch on it
Load(a) ==
    /\ acquiring[a] \in {"load", "try_load"}
    /\ current' = [current EXCEPT ![a] = in_flight]
    /\ LET try == acquiring[a] = "try_load" IN
       IF in_flight < PermitCapacity THEN Goto(a, IF try THEN "try_swap" ELSE "swap")
                               ELSE Goto(a, IF try THEN "idle" ELSE "full")
    /\ UNCHANGED <<in_flight, waiters, registered, wake_due>>

\* fault: the exchange does not compare
SwapBlindly(a) ==
    /\ acquiring[a] \in {"swap", "try_swap"}
    /\ in_flight' = current[a] + 1
    /\ Goto(a, IF acquiring[a] = "try_swap" THEN "holding" ELSE "resolved")
    /\ UNCHANGED <<waiters, registered, current, wake_due>>

\* the compare-and-exchange: a permit, or round the loop
Swap(a) ==
    /\ acquiring[a] \in {"swap", "try_swap"}
    /\ LET try == acquiring[a] = "try_swap" IN
       IF in_flight = current[a]
         THEN /\ in_flight' = current[a] + 1
              /\ Goto(a, IF try THEN "holding" ELSE "resolved")
         ELSE /\ Goto(a, IF try THEN "try_load" ELSE "load")
              /\ UNCHANGED in_flight
    /\ UNCHANGED <<waiters, registered, current, wake_due>>

\* the guard was full: the waker is added on the first such poll, Pending
RegisterWaiter(a) ==
    /\ acquiring[a] = "full"
    /\ waiters' = IF registered[a] THEN waiters ELSE waiters \cup {a}
    /\ registered' = [registered EXCEPT ![a] = TRUE]
    /\ Goto(a, "waiting")
    /\ UNCHANGED <<in_flight, current, wake_due>>

\* Drop for AcquirePermit: it has yielded its permit, or it is cancelled
DropFuture(a) ==
    /\ acquiring[a] \in {"resolved", "waiting"}
    /\ waiters' = IF registered[a] THEN waiters \ {a} ELSE waiters
    /\ registered' = [registered EXCEPT ![a] = FALSE]
    /\ Goto(a, IF acquiring[a] = "resolved" THEN "holding" ELSE "idle")
    /\ wake_due' = [wake_due EXCEPT ![a] = FALSE]
    /\ UNCHANGED <<in_flight, current>>

\* Drop for Permit: the count first ...
Release(a) ==
    /\ acquiring[a] = "holding"
    /\ in_flight' = in_flight - 1
    /\ Goto(a, "released")
    /\ UNCHANGED <<waiters, registered, current, wake_due>>

\* ... then every waker in the list
TakeWaiters(a) ==
    /\ acquiring[a] = "released"
    /\ waiters' = {}
    /\ wake_due' = [b \in Acquirers |->
                   wake_due[b] \/ (b \in waiters /\ acquiring[b] \in {"waiting", "load", "swap", "full"})]
    /\ Goto(a, "idle")
    /\ UNCHANGED <<in_flight, registered, current>>

\* the task is wake_due by something else and polls its future again
WakeAcquirer(a) ==
    /\ acquiring[a] = "waiting"
    /\ wake_due' = [wake_due EXCEPT ![a] = TRUE]
    /\ UNCHANGED <<in_flight, waiters, registered, acquiring, current>>

\* acquirers that are wake_due by the guard alone
GuardedNext ==
    \E a \in Acquirers :
      \/ TryAcquire(a)
      \/ Acquire(a)
      \/ Poll(a)
      \/ Load(a)
      \/ Swap(a)
      \/ RegisterWaiter(a)
      \/ DropFuture(a)
      \/ Release(a)
      \/ TakeWaiters(a)

PermitNext ==
    \/ GuardedNext
    \/ \E a \in Acquirers : WakeAcquirer(a)

PermitSpec == PermitInit /\ [][PermitNext]_permitVars

GuardedSpec == PermitInit /\ [][GuardedNext]_permitVars

-----------------------------------------------------------------------------
(* Properties *)

Labels == {"idle", "waiting", "load", "swap", "full", "resolved", "try_load", "try_swap",
           "holding", "released"}

\* Every variable keeps the shape of the field or local it stands for.
PermitTypeOK ==
    /\ in_flight \in Nat
    /\ waiters \in SUBSET Acquirers
    /\ registered \in [Acquirers -> BOOLEAN]
    /\ acquiring \in [Acquirers -> Labels]
    /\ current \in [Acquirers -> Nat]
    /\ wake_due \in [Acquirers -> BOOLEAN]

\* Acquirers that have a Permit
Holders == {a \in Acquirers : acquiring[a] \in {"resolved", "holding"}}

\* The count is the number of permits out, and never exceeds the capacity, however loads,
\* exchanges and releases interleave.
PermitsExact ==
    /\ in_flight = Cardinality(Holders)
    /\ in_flight \leq PermitCapacity

\* A permit is on its way back and has yet to take the wakers.
Releasing == \E b \in Acquirers : acquiring[b] = "released"

Asleep(a) == acquiring[a] = "waiting" /\ ~wake_due[a]

\* "`acquire()` returns a future that resolves when capacity is available": no acquirer is
\* left asleep beside a free permit (poll loads the count before it registers its waker
\* and does not look again).
AcquirersSeeCapacity ==
    \A a \in Acquirers : Asleep(a) /\ in_flight < PermitCapacity => Releasing

=============================================================================
