------------------------------ MODULE SpanData ------------------------------
(***************************************************************************)
(* What the operations of a span write and read (src/span.cpp): status,    *)
(* attributes, events, links and baggage, the carrier a span is injected   *)
(* into, and the context extracted from it (src/tracer.cpp).               *)
(*                                                                         *)
(* SpanHandles has the handle maps themselves.  An operation holds its     *)
(* handle's shard mutex throughout and is one step; add_link() and         *)
(* get_baggage_var() do not, and are several.  The SDK span is external:   *)
(* it takes what it is given while it records, and is exported by its end. *)
(***************************************************************************)
EXTENDS Integers, Sequences, FiniteSets, FiniteSetsExt

CONSTANTS Threads, Spans, Contexts, None,
          Keys,      \* attribute, event and baggage keys
          Lists,     \* key-value arguments: sequences of [key, val] records
          Shard,     \* the shard of a span's or a context's handle
          MaxCalls   \* bound: calls in a behaviour

Text   == {"text", "other"}                  \* strings and strings in data, not empty
Values == Text \cup {"", "number", "null"}   \* what an attribute may have; "bad" is no type

ASSUME SpanDataAssumption ==
    /\ Lists \subseteq Seq([key : Keys, val : Values \cup {"bad"}])
    /\ Spans \cup Contexts \subseteq DOMAIN Shard
    /\ Spans \cap Contexts = {}
    /\ MaxCalls \in Nat

VARIABLES
    span,       \* span[s]: the SDK span and its handle
    exported,   \* exported[s]: the record End() handed to the processors
    ctx,        \* ctx[c]: an extracted context
    carrier,    \* the caller's text map
    mutex,      \* mutex[k]: the holder of shard k across steps
    call,       \* the call a thread is in
    maps,       \* text maps get_baggage_var() has allocated and not released
    calls,      \* calls made, up to MaxCalls
    returned,   \* history: text maps returned to callers
    promised    \* history: <<s, target>> of links the callers were told of

vars == <<span, exported, ctx, carrier, mutex, call, maps, calls, returned, promised>>

Nothing   == [k \in Keys |-> None]
NoSpan    == [state |-> "unborn", recording |-> FALSE, name |-> None, status |-> "unset",
              attrs |-> Nothing, events |-> <<>>, links |-> <<>>, baggage |-> Nothing]
NoContext == [state |-> "unborn", baggage |-> Nothing, from |-> Nothing]
Empty     == [span |-> None, baggage |-> Nothing, from |-> Nothing]
Idle      == [pc |-> "idle"]

Init ==
    /\ span = [s \in Spans |-> NoSpan]
    /\ exported = [s \in Spans |-> None]
    /\ ctx = [c \in Contexts |-> NoContext]
    /\ carrier = [Empty EXCEPT !.baggage = [k \in Keys |-> "text"]]   \* an earlier use left something
    /\ mutex = [k \in {Shard[x] : x \in DOMAIN Shard} |-> None]
    /\ call = [th \in Threads |-> Idle]
    /\ maps = 0 /\ calls = 0 /\ returned = 0
    /\ promised = {}

At(th, pc)   == call[th].pc = pc
Enter(th, c) == call' = [call EXCEPT ![th] = c]
Return(th)   == Enter(th, Idle)
Unlocked(x)  == mutex[Shard[x]] = None
Live(s)      == span[s].state = "live"

\* A call is made; one on handle x takes the mutex of its shard.
Call(th)      == At(th, "idle") /\ calls < MaxCalls /\ calls' = calls + 1
CallOn(th, x) == Call(th) /\ Unlocked(x)

\* How many entries of l come before the first with such a value.
Before(l, stop) == LET at == {i \in DOMAIN l : l[i].val \in stop}
                   IN  IF at = {} THEN Len(l) ELSE Min(at) - 1

\* The leading entries of l whose value has a type.
Typed(l) == Before(l, {"bad"})

\* f with the first n entries of l written over it, in order.
Written(f, l, n) ==
    [k \in Keys |-> LET at == {i \in 1..n : l[i].key = k} IN IF at = {} THEN f[k] ELSE l[Max(at)].val]

-----------------------------------------------------------------------------
(* start_span_with_options; end, end_with_options, destroy *)

\* The handle takes over the parent's baggage.
Start(th, s, parent) ==
    /\ Call(th)
    /\ span[s].state = "unborn"
    /\ parent \in Spans => Live(parent) /\ Unlocked(parent)
    /\ parent \in Contexts => ctx[parent].state = "live" /\ Unlocked(parent)
    /\ \E sampled \in BOOLEAN :
         span' = [span EXCEPT ![s] = [NoSpan EXCEPT
                     !.state = "live", !.recording = sampled,
                     !.baggage = IF parent = None THEN Nothing
                                 ELSE IF parent \in Spans THEN span[parent].baggage ELSE ctx[parent].baggage]]
    /\ UNCHANGED <<exported, ctx, carrier, mutex, call, maps, returned, promised>>

\* The status first, if one was given; then the SDK span ends and its handle goes.
End(th, s, status) ==
    /\ CallOn(th, s)
    /\ Live(s)
    /\ LET last == IF status = None \/ ~span[s].recording THEN span[s] ELSE [span[s] EXCEPT !.status = status]
       IN  /\ span' = [span EXCEPT ![s] = [last EXCEPT !.state = "ended"]]
           /\ exported' = [exported EXCEPT ![s] = IF span[s].recording THEN last ELSE None]
    /\ UNCHANGED <<ctx, carrier, mutex, call, maps, returned, promised>>

-----------------------------------------------------------------------------
(* Single-step operations of a live span *)

Modify(th, s, new) ==
    /\ CallOn(th, s)
    /\ Live(s)
    /\ span' = [span EXCEPT ![s] = new]
    /\ UNCHANGED <<exported, ctx, carrier, mutex, call, maps, returned, promised>>

\* A span that does not record takes no name; the SDK sees to it.
SetOperationName(th, s, name) ==
    span[s].recording /\ Modify(th, s, [span[s] EXCEPT !.name = name])

SetStatus(th, s, status) ==
    span[s].recording /\ Modify(th, s, [span[s] EXCEPT !.status = status])

\* set_attribute_kv_n and its variants: one by one, up to the first that has no type.
SetAttributes(th, s, l) ==
    /\ span[s].recording /\ l # <<>>
    /\ Modify(th, s, [span[s] EXCEPT !.attrs = Written(@, l, Typed(l))])

\* The attributes of an event are gathered before it is added.
Gathered(l) == Written(Nothing, l, Len(l))

\* add_event_kv_n and its variants.
AddEvent(th, s, l) ==
    /\ span[s].recording /\ Typed(l) = Len(l)
    /\ Modify(th, s, [span[s] EXCEPT !.events = Append(@, <<"event", Gathered(l)>>)])

\* An exception is an event of that name, with type, message and stack trace before l.
RecordException(th, s, l) ==
    /\ span[s].recording /\ Typed(l) = Len(l)
    /\ Modify(th, s, [span[s] EXCEPT !.events = Append(@, <<"exception", Gathered(l)>>)])

\* A copy of the baggage takes the first n entries of l, strings and not empty ones, and
\* replaces the handle's in the end; any other entry among them refuses the call.
UpdateBaggage(th, s, l, n) ==
    /\ n > 0 /\ \A i \in 1..n : l[i].val \in Text
    /\ Modify(th, s, [span[s] EXCEPT !.baggage = Written(@, l, n)])

\* set_baggage, set_baggage_kv_var, set_baggage_kv_n: every entry, a null value is refused.
SetBaggage(th, s, l) == UpdateBaggage(th, s, l, Len(l))

\* Faulty variant: an empty value ends the list, too.
EndsAtEmpty(l) == Before(l, {"", "null"})

\* The loop of set_baggage_var ends at a null value as at the null key of the terminator.
Pairs(l) == Before(l, {"null"})

\* set_baggage_var: its arguments are strings; what follows a null value is not read.
SetBaggageVar(th, s, l) ==
    /\ \A i \in DOMAIN l : l[i].val \in Text \cup {"", "null"}
    /\ UpdateBaggage(th, s, l, Pairs(l))

-----------------------------------------------------------------------------
(* inject_text_map, inject_http_headers, extract_carrier *)

\* The old content is released; a failure on the way leaves the map empty.
Inject(th, s) ==
    /\ CallOn(th, s)
    /\ Live(s)
    /\ \/ carrier' = [span |-> s, baggage |-> span[s].baggage, from |-> span[s].baggage]
       \/ carrier' = Empty
    /\ UNCHANGED <<span, exported, ctx, mutex, call, maps, returned, promised>>

\* The context of a valid carrier has its span and its baggage.
Extract(th, c) ==
    /\ Call(th)
    /\ Unlocked(c)
    /\ ctx[c].state = "unborn"
    /\ carrier.span # None
    /\ ctx' = [ctx EXCEPT ![c] = [state |-> "live", baggage |-> carrier.baggage, from |-> carrier.from]]
    /\ UNCHANGED <<span, exported, carrier, mutex, call, maps, returned, promised>>

DestroyContext(th, c) ==
    /\ CallOn(th, c)
    /\ ctx[c].state = "live"
    /\ ctx' = [ctx EXCEPT ![c].state = "ended"]
    /\ UNCHANGED <<span, exported, carrier, mutex, call, maps, returned, promised>>

-----------------------------------------------------------------------------
(* get_baggage_var *)

\* The map is allocated before the mutex is taken.
GetBaggage(th, s) ==
    /\ Call(th)
    /\ span[s].state # "unborn"
    /\ maps' = maps + 1
    /\ Enter(th, [pc |-> "lookup", s |-> s])
    /\ UNCHANGED <<span, exported, ctx, carrier, mutex, returned, promised>>

\* The entries found are copied; a span that is gone, or a failed copy, releases the map.
Lookup(th) ==
    /\ At(th, "lookup")
    /\ Unlocked(call[th].s)
    /\ \/ Live(call[th].s) /\ returned' = returned + 1 /\ UNCHANGED maps
       \/ maps' = maps - 1 /\ UNCHANGED returned
    /\ Return(th)
    /\ UNCHANGED <<span, exported, ctx, carrier, mutex, calls, promised>>

-----------------------------------------------------------------------------
(* add_link: three sections of their own *)

\* is_recording(): no lock is held afterwards.  A span that does not record discards the
\* link; one that is gone is noticed in the end.
AddLink(th, s, target, l) ==
    /\ CallOn(th, s)
    /\ span[s].state # "unborn"
    /\ Live(s) => span[s].recording
    /\ Typed(l) = Len(l)
    /\ Enter(th, [pc |-> "target", s |-> s, target |-> target])
    /\ UNCHANGED <<span, exported, ctx, carrier, mutex, maps, returned, promised>>

TargetLive(t) == IF t \in Spans THEN Live(t) ELSE ctx[t].state = "live"

\* The linked span's or context's handle, under its mutex.
LockTarget(th) ==
    /\ At(th, "target")
    /\ Unlocked(call[th].target)
    /\ mutex' = [mutex EXCEPT ![Shard[call[th].target]] = th]
    /\ Enter(th, [call[th] EXCEPT !.pc = "resolve"])
    /\ UNCHANGED <<span, exported, ctx, carrier, maps, calls, returned, promised>>

\* Faulty variant: the guard lives until the link is added.
UnlockTargetLate(th) ==
    /\ At(th, "resolve")
    /\ IF TargetLive(call[th].target)
       THEN Enter(th, [call[th] EXCEPT !.pc = "link"]) /\ UNCHANGED mutex
       ELSE Return(th) /\ mutex' = [mutex EXCEPT ![Shard[call[th].target]] = None]
    /\ UNCHANGED <<span, exported, ctx, carrier, maps, calls, returned, promised>>

UnlockTarget(th) ==
    /\ At(th, "resolve")
    /\ mutex' = [mutex EXCEPT ![Shard[call[th].target]] = None]
    /\ \/ TargetLive(call[th].target) /\ Enter(th, [call[th] EXCEPT !.pc = "link"])
       \/ ~TargetLive(call[th].target) /\ Return(th)
    /\ UNCHANGED <<span, exported, ctx, carrier, maps, calls, returned, promised>>

\* Faulty variant: a span that ended meanwhile is no error.
LinkQuietly(th) ==
    /\ At(th, "link")
    /\ Unlocked(call[th].s)
    /\ span' = IF Live(call[th].s) THEN [span EXCEPT ![call[th].s].links = Append(@, call[th].target)] ELSE span
    /\ promised' = promised \cup {<<call[th].s, call[th].target>>}
    /\ Return(th)
    /\ UNCHANGED <<exported, ctx, carrier, mutex, maps, calls, returned>>

\* The span's own handle is looked up again.
Link(th) ==
    /\ At(th, "link")
    /\ LET s == call[th].s IN
         /\ Unlocked(s)
         /\ \/ /\ Live(s)
               /\ span' = [span EXCEPT ![s].links = Append(@, call[th].target)]
               /\ promised' = promised \cup {<<s, call[th].target>>}
            \/ ~Live(s) /\ UNCHANGED <<span, promised>>
    /\ Return(th)
    /\ UNCHANGED <<exported, ctx, carrier, mutex, maps, calls, returned>>

-----------------------------------------------------------------------------
Begin(th) ==
    \/ \E s \in Spans :
         \/ \E p \in Spans \cup Contexts \cup {None} : Start(th, s, p)
         \/ \E status \in {None, "error"} : End(th, s, status)
         \/ SetOperationName(th, s, "name") \/ SetStatus(th, s, "ok")
         \/ Inject(th, s) \/ GetBaggage(th, s)
         \/ \E l \in Lists : \/ SetAttributes(th, s, l)
                             \/ SetBaggage(th, s, l) \/ SetBaggageVar(th, s, l)
                             \/ AddEvent(th, s, l) \/ RecordException(th, s, l)
                             \/ \E t \in Spans \cup Contexts : AddLink(th, s, t, l)
    \/ \E c \in Contexts : Extract(th, c) \/ DestroyContext(th, c)

Continue(th) == Lookup(th) \/ LockTarget(th) \/ UnlockTarget(th) \/ Link(th)

Next == \E th \in Threads : Begin(th) \/ Continue(th)

Spec == Init /\ [][Next]_vars

\* A thread inside a call goes on; a mutex that is free again and again is granted.
FairSpec == Spec /\ \A th \in Threads : SF_vars(Continue(th))

-----------------------------------------------------------------------------
(* Properties *)

\* The shape of spans, of contexts and of calls.
TypeOK ==
    /\ \A s \in Spans : /\ span[s].state \in {"unborn", "live", "ended"}
                        /\ span[s].attrs \in [Keys -> Values \cup {None}]
                        /\ span[s].baggage \in [Keys -> Text \cup {None}]
    /\ \A c \in Contexts : ctx[c].baggage \in [Keys -> Text \cup {None}]
    /\ maps \in Nat /\ calls \in 0..MaxCalls /\ returned \in 0..MaxCalls
    /\ \A th \in Threads : call[th].pc \in {"idle", "lookup", "target", "resolve", "link"}

\* What was exported is what the span held when it ended: no operation that checked the
\* span earlier, as add_link() did, writes into it afterwards.
Record(s) == [span[s] EXCEPT !.state = "live"]
EndIsFinal == \A s \in Spans : exported[s] # None => exported[s] = Record(s)

\* add_link() answers OK only for a link the span holds, although it ends, or its target
\* goes, between the sections of the call.
NoLinkLost == \A p \in promised : \E i \in DOMAIN span[p[1]].links : span[p[1]].links[i] = p[2]

\* A baggage that crossed a carrier is the one the injecting span had, whatever was in the
\* carrier before ("Release the content a previous inject left in the writer's map").
BaggageCrosses == \A c \in Contexts : ctx[c].state = "live" => ctx[c].baggage = ctx[c].from

\* Every text map allocated for a get_baggage_var() is returned to its caller, released,
\* or still in a call, although the span may end before its baggage is read.
MapsAccounted == maps = returned + Cardinality({th \in Threads : At(th, "lookup")})

\* What the spans, the contexts and the callers hold, between the sections of any calls.
SpanInv == TypeOK /\ EndIsFinal /\ NoLinkLost /\ BaggageCrosses /\ MapsAccounted

\* The first n entries of l are strings, and are all of l or all before a null value.
SavedPart(l, n) ==
    /\ \A i \in 1..n : l[i].val \in Text
    /\ n = Len(l) \/ l[n + 1].val = "null"

\* A live span's baggage takes a list as a whole or not at all, but for one that has a null
\* value: set_baggage_var() stores the pairs before it, although the documentation forbids
\* such a value ("neither the name nor the value may be a null pointer").  No pair of a list
\* that is refused for an empty value, or one that is no string, is seen by a child or a carrier.
BaggageCutOnlyAtNull ==
    [][\A s \in Spans : Live(s) /\ span'[s].baggage # span[s].baggage =>
         \E l \in Lists : \E n \in 1..Len(l) :
           SavedPart(l, n) /\ span'[s].baggage = Written(span[s].baggage, l, n)]_vars

\* Two threads that link their spans to each other both return: add_link() holds one shard
\* mutex at a time ("the span lock must not be held while the link target is looked up").
CallsReturn == \A th \in Threads : []<>At(th, "idle")

-----------------------------------------------------------------------------
(* The inductive strengthening the proofs use *)

Attributes == [Keys -> Values \cup {None}]
Baggage    == [Keys -> Text \cup {None}]
SpanRecord == [state : {"unborn", "live", "ended"}, recording : BOOLEAN, name : {None, "name"},
               status : {"unset", "ok", "error"}, attrs : Attributes,
               events : Seq({"event", "exception"} \X Attributes), links : Seq(Spans \cup Contexts),
               baggage : Baggage]

InLookup == {th \in Threads : At(th, "lookup")}

Lookups  == [pc : {"lookup"}, s : Spans]
Linkings == [pc : {"target", "resolve", "link"}, s : Spans, target : Spans \cup Contexts]

\* What the variables hold; a call keeps the handles its later sections look up again.
DataShape ==
    /\ span \in [Spans -> SpanRecord]
    /\ exported \in [Spans -> SpanRecord \cup {None}]
    /\ ctx \in [Contexts -> [state : {"unborn", "live", "ended"}, baggage : Baggage, from : Baggage]]
    /\ carrier \in [span : Spans \cup {None}, baggage : Baggage, from : Baggage]
    /\ promised \subseteq Spans \X (Spans \cup Contexts)
    /\ call \in [Threads -> {Idle} \cup Lookups \cup Linkings]

\* A text map is allocated by a call that counts.
MapsCounted == IsFiniteSet(InLookup) /\ maps <= calls

\* Nothing is exported, linked or told of a span before it began, nor exported before its end.
StatesInOrder ==
    /\ \A s \in Spans : exported[s] # None => span[s].state = "ended"
    /\ \A p \in promised : span[p[1]].state # "unborn"

\* A carrier that a span was injected into holds what the span had.
CarrierWhole == carrier.span # None => carrier.baggage = carrier.from

DataInv == SpanInv /\ DataShape /\ MapsCounted /\ StatesInOrder /\ CarrierWhole
=============================================================================
