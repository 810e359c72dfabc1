------------------------------- MODULE MCHeap -------------------------------
(***************************************************************************)
(* The containers, and the debug allocator below them.  They share no      *)
(* variable, so a behaviour drives one of the two: interleaving them would *)
(* only multiply their states.                                             *)
(***************************************************************************)
EXTENDS Containers, DbgMalloc, TLC

VARIABLE part

HeapInit == ContainersInit /\ Init /\ part \in {"containers", "allocator"}
HeapNext == \/ part = "containers" /\ ContainersNext /\ UNCHANGED <<part, vars>>
            \/ part = "allocator" /\ Next /\ UNCHANGED <<part, containersVars>>
HeapSpec == HeapInit /\ [][HeapNext]_<<part, containersVars, vars>>

Symmetry == Permutations(Threads) \cup Permutations(Bases)
=============================================================================
