-------------------------- MODULE MCMeterRegistry --------------------------
(* A small meter for TLC: two spellings of one name, two instrument types, one view. *)
EXTENDS MeterRegistry

MCNames    == {"a", "A", "b"}
MCFold     == [n \in MCNames |-> IF n = "b" THEN "b" ELSE "a"]
MCRequests == {[name |-> "a", type |-> "counter"], [name |-> "A", type |-> "counter"],
               [name |-> "a", type |-> "observable"]}
MCViews    == {[name |-> "a", type |-> "histogram", aggregation |-> "default", bounds |-> "some"],
               [name |-> "A", type |-> "counter", aggregation |-> "drop", bounds |-> "null"],
               [name |-> "b", type |-> "counter", aggregation |-> "sum", bounds |-> "missing"]}
=============================================================================
