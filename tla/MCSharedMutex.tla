--------------------------- MODULE MCSharedMutex ---------------------------
(* The instance of SharedMutex for TLC: the configuration names its threads. *)
EXTENDS SharedMutex
=============================================================================
