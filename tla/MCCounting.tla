----------------------------- MODULE MCCounting -----------------------------
(***************************************************************************)
(* A counting processor's counters, and the pointer the status call finds  *)
(* the newest processor by.  They share no variable, so a behaviour drives *)
(* one of the two.                                                         *)
(***************************************************************************)
EXTENDS BatchCounters, CountingInstance, TLC

VARIABLE part

CountingInit == Init /\ InstanceInit /\ part \in {"counters", "instance"}
CountingNext == \/ part = "counters" /\ Next /\ UNCHANGED <<part, instanceVars>>
                \/ part = "instance" /\ InstanceNext /\ UNCHANGED <<part, vars>>
CountingSpec == CountingInit /\ [][CountingNext]_<<part, vars, instanceVars>>

Symmetry == Permutations(Producers) \cup Permutations(Threads) \cup Permutations(Processors)
=============================================================================
