---------------------------- MODULE OwnedChannel ----------------------------
(***************************************************************************)
(* What a typed channel between shards promises to the code that uses it,  *)
(* whatever its wakers and locks do: a bounded queue of owned messages,    *)
(* delivered once each and in the order they were accepted; closing stops  *)
(* the intake; and the receiver is told of the end only when nothing it    *)
(* was owed is left.                                                       *)
(***************************************************************************)
EXTENDS Naturals, Sequences

CONSTANTS Messages, Bound

VARIABLES
    buffer,      \* accepted and not yet delivered
    out,         \* delivered so far
    open,        \* messages may still be accepted
    told         \* the receiver has been told that the channel is closed

Init ==
    /\ buffer = <<>>
    /\ out = <<>>
    /\ open = TRUE
    /\ told = FALSE

Accept ==
    /\ open
    /\ Len(buffer) < Bound
    /\ \E m \in Messages : buffer' = Append(buffer, m)
    /\ UNCHANGED <<out, open, told>>

Deliver ==
    /\ buffer # <<>>
    /\ out' = Append(out, Head(buffer))
    /\ buffer' = Tail(buffer)
    /\ UNCHANGED <<open, told>>

Shut ==
    /\ open' = FALSE
    /\ UNCHANGED <<buffer, out, told>>

Tell ==
    /\ ~open
    /\ buffer = <<>>
    /\ told' = TRUE
    /\ UNCHANGED <<buffer, out, open>>

Next == Accept \/ Deliver \/ Shut \/ Tell

Spec == Init /\ [][Next]_<<buffer, out, open, told>>
=============================================================================
