------------------------------- MODULE MCUring -------------------------------
(***************************************************************************)
(* Small instances of UringExecutor and DirectRing: an executor and a      *)
(* batch that share a host, or a ring used by one thread.                  *)
(***************************************************************************)
EXTENDS UringExecutor, DirectRing

allVars == <<vars, directVars>>

\* The instance that is not checked has nothing left to do.
MCInit ==
    \/ Init /\ DirectInit(MaxOperations + 1, UserData)
    \/ InitAt(TRUE) /\ DirectInit(1, {})

MCNext ==
    \/ Next /\ UNCHANGED directVars
    \/ DirectNext /\ UNCHANGED vars

MCSpec == MCInit /\ [][MCNext]_allVars /\ Fairness
==============================================================================
