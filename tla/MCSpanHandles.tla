--------------------------- MODULE MCSpanHandles ---------------------------
(* The model values of the runs of SpanHandles are in their configurations. *)
EXTENDS SpanHandles
=============================================================================
