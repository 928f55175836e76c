---------------------------- MODULE KvOperations ----------------------------
(***************************************************************************)
(* The operations of KvService (kv_service.rs) on a map.  A map gives      *)
(* every key a value or None.                                              *)
(***************************************************************************)
EXTENDS Naturals, FiniteSets

CONSTANTS Keys, Values, None

Maps == [Keys -> Values \cup {None}]
EmptyMap == [k \in Keys |-> None]

\* The keys that are present.
Present(m) == {k \in Keys : m[k] # None}

\* The map after a command.
KvEffect(m, c) ==
    CASE c.op = "put" -> [m EXCEPT ![c.key] = c.value]
      [] c.op = "compare_and_put" -> [m EXCEPT ![c.key] = IF @ = c.expected THEN c.value ELSE @]
      [] c.op = "get_or_put" -> [m EXCEPT ![c.key] = IF @ = None THEN c.value ELSE @]
      [] c.op = "delete" -> [m EXCEPT ![c.key] = None]
      [] OTHER -> m

\* What the reply carries.  keys are sorted in the code, which as a set they are not.
KvResult(m, c) ==
    CASE c.op \in {"get", "delete"} -> m[c.key]
      [] c.op = "compare_and_put" -> m[c.key] = c.expected
      [] c.op = "get_or_put" -> IF m[c.key] = None THEN c.value ELSE m[c.key]
      [] c.op = "len" -> Cardinality(Present(m))
      [] c.op = "keys" -> Present(m)
      [] OTHER -> "done"
=============================================================================
