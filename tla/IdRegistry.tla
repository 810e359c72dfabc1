----------------------------- MODULE IdRegistry -----------------------------
(***************************************************************************)
(* What create_instrument() and add_view() promise their callers: a name   *)
(* gets one identifier, identifiers count up from zero without a gap, and  *)
(* neither is ever given back before the meter is destroyed.               *)
(***************************************************************************)
EXTENDS Integers, FiniteSets

CONSTANT Keys

VARIABLES ids, open

Init == /\ ids = [k \in {} |-> 0]
        /\ open = TRUE

\* A new name takes the next identifier.
Assign(k) == /\ open
             /\ k \notin DOMAIN ids
             /\ ids' = [x \in DOMAIN ids \cup {k} |-> IF x = k THEN Cardinality(DOMAIN ids)
                                                      ELSE ids[x]]
             /\ UNCHANGED open

Close == /\ open
         /\ ids' = [k \in {} |-> 0]
         /\ open' = FALSE

Next == Close \/ \E k \in Keys : Assign(k)

Spec == Init /\ [][Next]_<<ids, open>>
=============================================================================
