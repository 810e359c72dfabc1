---------------------------- MODULE MCSpanData ----------------------------
(* Two spans and a context, each in a shard of its own.  The lists: none, one that is whole,
   and one each with a null, an empty and an untyped value after a string. *)
EXTENDS SpanData
CONSTANTS s1, s2, c1
MCLists == {<<>>, <<[key |-> "k", val |-> "text"]>>, <<[key |-> "j", val |-> "other"], [key |-> "k", val |-> "null"]>>,
            <<[key |-> "k", val |-> "other"], [key |-> "j", val |-> ""]>>,
            <<[key |-> "k", val |-> "other"], [key |-> "j", val |-> "number"], [key |-> "k", val |-> "bad"]>>}
MCShard == [x \in Spans \cup Contexts |-> x]
=============================================================================
