--------------------------- MODULE SpanData_proofs ---------------------------
(***************************************************************************)
(* Theorems about SpanData, for any sets of threads, spans, contexts and   *)
(* keys and any key-value lists: SpanInv holds, and a live span's baggage  *)
(* takes a list whole, or up to a null value, or not at all.  DataInv is   *)
(* inductive: SpanStep says the four ways in which a step may touch a span *)
(* (it begins, is written, takes a link, or ends), each but the first only *)
(* while it is live, and the parts of the invariant follow from that; the  *)
(* text maps are counted against the threads inside get_baggage_var()'s    *)
(* lookup.                                                                 *)
(***************************************************************************)
EXTENDS SpanData, TLAPS, FiniteSetTheorems, WellFoundedInduction

-----------------------------------------------------------------------------
(* Least and greatest elements; the lists a call is given *)

\* Every set of numbers that is not empty has its Min: the intervals below its elements are
\* finite sets, which strict inclusion orders well.
LEMMA HasMin == ASSUME NEW at \in SUBSET Nat, at # {}
                PROVE  Min(at) \in at /\ \A j \in at : Min(at) <= j
<1> DEFINE below == {0..i : i \in at}
<1>1. below \subseteq FiniteSubsetsOf(Nat) /\ below # {}
  <2>1. ASSUME NEW i \in at PROVE 0..i \in SUBSET Nat /\ IsFiniteSet(0..i)
    BY FS_Interval
  <2> QED
    BY <2>1 DEF FiniteSubsetsOf
<1>2. PICK least \in below : \A b \in below : <<b, least>> \notin StrictSubsetOrdering(Nat)
  <2> HIDE DEF below
  <2> QED
    BY <1>1, WFMin, FS_StrictSubsetOrderingWellFounded, Zenon
<1>3. PICK i \in at : least = 0..i
  BY <1>2
<1>4. ASSUME NEW j \in at, j < i PROVE FALSE
  <2>1. 0..j \in SUBSET Nat /\ 0..i \in SUBSET Nat /\ 0..j \subseteq 0..i /\ 0..j # 0..i
    <3>1. i \in 0..i /\ i \notin 0..j
      BY <1>4
    <3> QED
      BY <1>4, <3>1
  <2>2. <<0..j, 0..i>> \in StrictSubsetOrdering(Nat)
    BY <2>1 DEF StrictSubsetOrdering
  <2> QED
    BY <1>2, <1>3, <2>2
<1>5. \A j \in at : i <= j
  BY <1>4
<1> QED
  BY <1>5 DEF Min

\* And every one that is bounded its Max: the Min of the distances from the bound.
LEMMA HasMax == ASSUME NEW n \in Nat, NEW at \in SUBSET (1..n), at # {}
                PROVE  Max(at) \in at
<1> DEFINE up == {n - i : i \in at}
<1>1. up \in SUBSET Nat /\ up # {}
  <2>1. \A i \in at : n - i \in Nat
    OBVIOUS
  <2> QED
    BY <2>1
<1>2. PICK k \in up : \A j \in up : k <= j
  BY <1>1, HasMin
<1>3. PICK i \in at : k = n - i
  BY <1>2
<1>4. ASSUME NEW j \in at PROVE j <= i
  <2>1. n - j \in up /\ i \in 1..n /\ j \in 1..n
    OBVIOUS
  <2>2. k <= n - j
    BY <1>2, <2>1
  <2> QED
    BY <1>3, <2>1, <2>2
<1> QED
  BY <1>4 DEF Max

\* What a sequence is, for any set of elements.
LEMMA Elements == ASSUME NEW S, NEW l \in Seq(S)
                  PROVE  Len(l) \in Nat /\ DOMAIN l = 1..Len(l) /\ \A i \in 1..Len(l) : l[i] \in S
OBVIOUS

\* The entries of an argument.
LEMMA EntriesOf == ASSUME SpanDataAssumption, NEW l \in Lists
                   PROVE  /\ Len(l) \in Nat /\ DOMAIN l = 1..Len(l)
                          /\ \A i \in 1..Len(l) : l[i].key \in Keys /\ l[i].val \in Values \cup {"bad"}
<1> DEFINE Entry == [key : Keys, val : Values \cup {"bad"}]
<1>1. l \in Seq(Entry)
  BY DEF SpanDataAssumption
<1>2. Len(l) \in Nat /\ DOMAIN l = 1..Len(l) /\ \A i \in 1..Len(l) : l[i] \in Entry
  <2> HIDE DEF Entry
  <2> QED
    BY <1>1, Elements
<1> QED
  BY <1>2

\* Before(l, stop) is all of l, or ends at the first entry with such a value.
LEMMA BeforeStop ==
  ASSUME SpanDataAssumption, NEW l \in Lists, NEW stop
  PROVE  /\ Before(l, stop) \in 0..Len(l)
         /\ \A i \in 1..Before(l, stop) : l[i].val \notin stop
         /\ Before(l, stop) = Len(l) \/ l[Before(l, stop) + 1].val \in stop
<1> DEFINE at == {i \in DOMAIN l : l[i].val \in stop}
<1>1. Len(l) \in Nat /\ DOMAIN l = 1..Len(l)
  BY EntriesOf
<1>2. CASE at = {}
  <2>1. Before(l, stop) = Len(l)
    BY <1>2 DEF Before
  <2> QED
    BY <1>1, <1>2, <2>1
<1>3. CASE at # {}
  <2>1. Min(at) \in at /\ \A j \in at : Min(at) <= j
    <3>1. at \in SUBSET Nat
      BY <1>1
    <3> QED
      BY <1>3, <3>1, HasMin
  <2>2. Before(l, stop) = Min(at) - 1
    BY <1>3 DEF Before
  <2>3. Min(at) \in 1..Len(l) /\ l[Min(at)].val \in stop
    BY <1>1, <2>1
  <2>4. ASSUME NEW i \in 1..Before(l, stop) PROVE i \in 1..Len(l) /\ i \notin at
    <3> HIDE DEF at
    <3> QED
      BY <1>1, <2>1, <2>2, <2>3
  <2>5. Before(l, stop) \in 0..Len(l) /\ Before(l, stop) + 1 = Min(at)
    <3> HIDE DEF at
    <3> QED
      BY <1>1, <2>2, <2>3
  <2> QED
    BY <1>1, <2>3, <2>4, <2>5
<1> QED
  BY <1>2, <1>3

\* Typed(l) stops before the first entry that has no type.
LEMMA TypedPrefix ==
  ASSUME SpanDataAssumption, NEW l \in Lists
  PROVE  /\ Typed(l) \in 0..Len(l)
         /\ \A i \in 1..Typed(l) : l[i].key \in Keys /\ l[i].val \in Values
<1>1. Len(l) \in Nat /\ \A i \in 1..Len(l) : l[i].key \in Keys /\ l[i].val \in Values \cup {"bad"}
  BY EntriesOf
<1>2. Typed(l) \in 0..Len(l) /\ \A i \in 1..Typed(l) : l[i].val \notin {"bad"}
  BY BeforeStop DEF Typed
<1> QED
  BY <1>1, <1>2

\* What is written over f are values of the list, for any set of values both are in.
LEMMA WrittenIn ==
  ASSUME NEW S, NEW f \in [Keys -> S], NEW l, NEW n \in Nat, \A i \in 1..n : l[i].val \in S
  PROVE  Written(f, l, n) \in [Keys -> S]
<1>1. ASSUME NEW k \in Keys
      PROVE  (LET at == {i \in 1..n : l[i].key = k} IN IF at = {} THEN f[k] ELSE l[Max(at)].val) \in S
  <2> DEFINE at == {i \in 1..n : l[i].key = k}
  <2>1. CASE at = {}
    BY <2>1
  <2>2. CASE at # {}
    <3>1. Max(at) \in at
      BY <2>2, HasMax
    <3> QED
      BY <2>2, <3>1
  <2> QED
    BY <2>1, <2>2
<1> QED
  BY <1>1 DEF Written

-----------------------------------------------------------------------------
(* What a step does to a span *)

USE DEF vars, Call, CallOn, At, Enter, Return, Live, Idle, NoSpan, Nothing, Modify

\* A handle for it is made.
Begins(s, new) ==
    /\ span[s].state = "unborn" /\ new.state = "live"
    /\ exported' = exported /\ promised' = promised

\* Its name, status, attributes, events or baggage are written.
Writes(s, new) ==
    /\ Live(s) /\ new.state = "live"
    /\ new.links = span[s].links
    /\ \/ new.baggage = span[s].baggage
       \/ \E l \in Lists : \E n \in 1..Len(l) :
            SavedPart(l, n) /\ new.baggage = Written(span[s].baggage, l, n)
    /\ exported' = exported /\ promised' = promised

\* It takes a link, and the caller is told so.
Links(s, new) ==
    /\ Live(s) /\ new.state = "live"
    /\ new.baggage = span[s].baggage
    /\ \E t \in Spans \cup Contexts : /\ new.links = Append(span[s].links, t)
                                      /\ promised' = promised \cup {<<s, t>>}
    /\ exported' = exported

\* It ends, and is exported as it is unless it does not record.
Ends(s, new) ==
    /\ Live(s) /\ new.state = "ended"
    /\ new.links = span[s].links /\ new.baggage = span[s].baggage
    /\ exported' \in {[exported EXCEPT ![s] = None], [exported EXCEPT ![s] = [new EXCEPT !.state = "live"]]}
    /\ promised' = promised

Changes(s, new) ==
    /\ span' = [span EXCEPT ![s] = new]
    /\ Begins(s, new) \/ Writes(s, new) \/ Links(s, new) \/ Ends(s, new)

SpanSteps ==
    \/ span' = span /\ exported' = exported /\ promised' = promised
    \/ \E s \in Spans, new \in SpanRecord : Changes(s, new)

\* Attributes, events and baggage as the calls write them.
LEMMA WrittenAttributes ==
  ASSUME SpanDataAssumption, NEW f \in Attributes, NEW l \in Lists
  PROVE  Written(f, l, Typed(l)) \in Attributes
<1>1. Len(l) \in Nat /\ Typed(l) \in 0..Len(l) /\ \A i \in 1..Typed(l) : l[i].val \in Values
  BY TypedPrefix, EntriesOf
<1>2. Typed(l) \in Nat /\ \A i \in 1..Typed(l) : l[i].val \in Values \cup {None}
  BY <1>1
<1> QED
  BY <1>2, WrittenIn DEF Attributes

LEMMA GatheredAttributes ==
  ASSUME SpanDataAssumption, NEW l \in Lists, Typed(l) = Len(l)
  PROVE  Gathered(l) \in Attributes
<1>1. Nothing \in Attributes
  BY DEF Attributes
<1> QED
  BY <1>1, WrittenAttributes DEF Gathered

LEMMA WrittenBaggage ==
  ASSUME SpanDataAssumption, NEW f \in Baggage, NEW l \in Lists, NEW n \in 1..Len(l), SavedPart(l, n)
  PROVE  Written(f, l, n) \in Baggage
<1>1. n \in Nat /\ \A i \in 1..n : l[i].val \in Text \cup {None}
  BY EntriesOf DEF SavedPart
<1> QED
  BY <1>1, WrittenIn DEF Baggage

\* A call that sets baggage is a call on a live span, and writes nothing else.
LEMMA BaggageCall ==
  ASSUME NEW th, NEW s, NEW l, SetBaggage(th, s, l) \/ SetBaggageVar(th, s, l)
  PROVE  /\ calls < MaxCalls /\ calls' = calls + 1
         /\ UNCHANGED <<exported, ctx, carrier, mutex, call, maps, returned, promised>>
<1>1. PICK n : UpdateBaggage(th, s, l, n)
  BY DEF SetBaggage, SetBaggageVar
<1>2. PICK new : Modify(th, s, new)
  BY <1>1 DEF UpdateBaggage
<1> QED
  BY <1>2

\* A sequence with one more element, for any set of elements.
LEMMA OneMore == ASSUME NEW S, NEW q \in Seq(S), NEW x \in S PROVE Append(q, x) \in Seq(S)
OBVIOUS

\* A span with one more event.
LEMMA MoreEvents ==
  ASSUME NEW r \in SpanRecord, NEW kind \in {"event", "exception"}, NEW a \in Attributes
  PROVE  [r EXCEPT !.events = Append(@, <<kind, a>>)] \in SpanRecord
<1> DEFINE Event == {"event", "exception"} \X Attributes
<1>1. r.events \in Seq(Event) /\ <<kind, a>> \in Event
  BY DEF SpanRecord
<1>2. Append(r.events, <<kind, a>>) \in Seq(Event)
  <2> HIDE DEF Event
  <2> QED
    BY <1>1, OneMore
<1> QED
  BY <1>2 DEF SpanRecord

\* A span with one more link.
LEMMA MoreLinks ==
  ASSUME NEW r \in SpanRecord, NEW t \in Spans \cup Contexts
  PROVE  [r EXCEPT !.links = Append(@, t)] \in SpanRecord
<1> DEFINE Target == Spans \cup Contexts
<1>1. r.links \in Seq(Target) /\ t \in Target
  BY DEF SpanRecord
<1>2. Append(r.links, t) \in Seq(Target)
  <2> HIDE DEF Target
  <2> QED
    BY <1>1, OneMore
<1> QED
  BY <1>2 DEF SpanRecord

\* No span is written, linked or ended but while it is live, and none begins twice.
LEMMA SpanStep == ASSUME SpanDataAssumption, DataShape, [Next]_vars PROVE SpanSteps
<1> SUFFICES ASSUME Next PROVE SpanSteps
  BY DEF SpanSteps
<1>0. span \in [Spans -> SpanRecord]
  BY DEF DataShape
<1>1. ASSUME NEW th \in Threads, NEW s \in Spans, NEW p \in Spans \cup Contexts \cup {None}, Start(th, s, p)
      PROVE  SpanSteps
  <2> DEFINE given == IF p = None THEN Nothing
                      ELSE IF p \in Spans THEN span[p].baggage ELSE ctx[p].baggage
  <2>1. PICK sampled \in BOOLEAN :
          span' = [span EXCEPT ![s] = [NoSpan EXCEPT !.state = "live", !.recording = sampled, !.baggage = given]]
    BY <1>1 DEF Start
  <2> DEFINE new == [NoSpan EXCEPT !.state = "live", !.recording = sampled, !.baggage = given]
  <2>2. given \in Baggage
    BY DEF DataShape, Baggage, SpanRecord
  <2>3. <<>> \in Seq({"event", "exception"} \X Attributes) /\ <<>> \in Seq(Spans \cup Contexts)
    OBVIOUS
  <2>4. Nothing \in Attributes
    BY DEF Attributes
  <2>5. new \in SpanRecord /\ new.state = "live"
    BY <2>2, <2>3, <2>4 DEF SpanRecord
  <2>6. Changes(s, new)
    BY <1>1, <2>1, <2>5 DEF Start, Changes, Begins
  <2> QED
    BY <2>5, <2>6 DEF SpanSteps
<1>2. ASSUME NEW th \in Threads, NEW s \in Spans, NEW status \in {None, "error"}, End(th, s, status)
      PROVE  SpanSteps
  <2> DEFINE last == IF status = None \/ ~span[s].recording THEN span[s]
                     ELSE [span[s] EXCEPT !.status = status]
             new == [last EXCEPT !.state = "ended"]
  <2>1. span[s] \in SpanRecord /\ span[s].state = "live"
    BY <1>0, <1>2 DEF End
  <2>2. last \in SpanRecord /\ last.state = "live" /\ last.links = span[s].links /\ last.baggage = span[s].baggage
    BY <2>1 DEF SpanRecord
  <2>3. new \in SpanRecord /\ new.state = "ended" /\ last = [new EXCEPT !.state = "live"]
        /\ new.links = last.links /\ new.baggage = last.baggage
    <3> HIDE DEF last
    <3> QED
      BY <2>2 DEF SpanRecord
  <2>4. span' = [span EXCEPT ![s] = new] /\ promised' = promised
        /\ exported' \in {[exported EXCEPT ![s] = None], [exported EXCEPT ![s] = last]}
    BY <1>2 DEF End
  <2>5. Changes(s, new)
    <3> HIDE DEF new, last
    <3> QED
      BY <2>1, <2>2, <2>3, <2>4 DEF Changes, Ends
  <2> QED
    BY <2>3, <2>5 DEF SpanSteps
<1>3. ASSUME NEW th \in Threads, NEW s \in Spans, NEW new \in SpanRecord, Modify(th, s, new),
             new.state = span[s].state, new.links = span[s].links,
             \/ new.baggage = span[s].baggage
             \/ \E l \in Lists : \E n \in 1..Len(l) :
                  SavedPart(l, n) /\ new.baggage = Written(span[s].baggage, l, n)
      PROVE  SpanSteps
  <2>1. Changes(s, new)
    BY <1>3 DEF Changes, Writes
  <2> QED
    BY <2>1 DEF SpanSteps
<1>4. ASSUME NEW th \in Threads, NEW s \in Spans, SetOperationName(th, s, "name") PROVE SpanSteps
  <2>1. [span[s] EXCEPT !.name = "name"] \in SpanRecord
    BY <1>0 DEF SpanRecord
  <2> QED
    BY <1>0, <1>3, <1>4, <2>1 DEF SetOperationName, SpanRecord
<1>5. ASSUME NEW th \in Threads, NEW s \in Spans, SetStatus(th, s, "ok") PROVE SpanSteps
  <2>1. [span[s] EXCEPT !.status = "ok"] \in SpanRecord
    BY <1>0 DEF SpanRecord
  <2> QED
    BY <1>0, <1>3, <1>5, <2>1 DEF SetStatus, SpanRecord
<1>6. ASSUME NEW th \in Threads, NEW s \in Spans, NEW l \in Lists, SetAttributes(th, s, l)
      PROVE SpanSteps
  <2> DEFINE new == [span[s] EXCEPT !.attrs = Written(@, l, Typed(l))]
  <2>1. Written(span[s].attrs, l, Typed(l)) \in Attributes
    BY <1>0, WrittenAttributes DEF SpanRecord
  <2>2. new \in SpanRecord /\ new.state = span[s].state /\ new.links = span[s].links
        /\ new.baggage = span[s].baggage
    BY <1>0, <2>1 DEF SpanRecord
  <2>3. Modify(th, s, new)
    BY <1>6 DEF SetAttributes
  <2> QED
    BY <1>3, <2>2, <2>3
<1>7. ASSUME NEW th \in Threads, NEW s \in Spans, NEW l \in Lists,
             SetBaggage(th, s, l) \/ SetBaggageVar(th, s, l)
      PROVE SpanSteps
  <2>1. PICK n \in 1..Len(l) : SavedPart(l, n) /\ UpdateBaggage(th, s, l, n)
    <3>1. CASE SetBaggage(th, s, l)
      <4>1. Len(l) \in Nat /\ UpdateBaggage(th, s, l, Len(l))
        BY <3>1, EntriesOf DEF SetBaggage
      <4>2. Len(l) \in 1..Len(l) /\ SavedPart(l, Len(l))
        BY <4>1 DEF UpdateBaggage, SavedPart
      <4> QED
        BY <4>1, <4>2
    <3>2. CASE SetBaggageVar(th, s, l)
      <4>1. /\ Pairs(l) \in 0..Len(l)
            /\ Pairs(l) = Len(l) \/ l[Pairs(l) + 1].val = "null"
        BY BeforeStop DEF Pairs
      <4>2. Pairs(l) > 0 /\ (\A i \in 1..Pairs(l) : l[i].val \in Text) /\ UpdateBaggage(th, s, l, Pairs(l))
        BY <3>2 DEF SetBaggageVar, UpdateBaggage
      <4> QED
        BY <4>1, <4>2, EntriesOf DEF SavedPart
    <3> QED
      BY <1>7, <3>1, <3>2
  <2> DEFINE new == [span[s] EXCEPT !.baggage = Written(@, l, n)]
  <2>2. Written(span[s].baggage, l, n) \in Baggage
    BY <1>0, <2>1, WrittenBaggage DEF SpanRecord
  <2>3. new \in SpanRecord /\ new.state = span[s].state /\ new.links = span[s].links
        /\ new.baggage = Written(span[s].baggage, l, n)
    BY <1>0, <2>2 DEF SpanRecord
  <2>4. Modify(th, s, new)
    BY <2>1 DEF UpdateBaggage
  <2> QED
    BY <1>3, <2>1, <2>3, <2>4
<1>8. ASSUME NEW th \in Threads, NEW s \in Spans, NEW l \in Lists, NEW kind \in {"event", "exception"},
             Typed(l) = Len(l), Modify(th, s, [span[s] EXCEPT !.events = Append(@, <<kind, Gathered(l)>>)])
      PROVE  SpanSteps
  <2> DEFINE new == [span[s] EXCEPT !.events = Append(@, <<kind, Gathered(l)>>)]
  <2>1. Gathered(l) \in Attributes
    BY <1>8, GatheredAttributes
  <2>2. new \in SpanRecord
    BY <1>0, <2>1, MoreEvents
  <2>3. new.state = span[s].state /\ new.links = span[s].links /\ new.baggage = span[s].baggage
    BY <1>0 DEF SpanRecord
  <2> QED
    BY <1>3, <1>8, <2>2, <2>3
<1>9. ASSUME NEW th \in Threads, Link(th) PROVE SpanSteps
  <2> DEFINE s == call[th].s
             t == call[th].target
             new == [span[s] EXCEPT !.links = Append(@, t)]
  <2>1. s \in Spans /\ t \in Spans \cup Contexts
    BY <1>9 DEF Link, DataShape, Lookups, Linkings
  <2>2. CASE ~Live(s)
    BY <1>9, <2>2 DEF Link, SpanSteps
  <2>3. CASE Live(s)
    <3>1. span' = [span EXCEPT ![s] = new] /\ promised' = promised \cup {<<s, t>>} /\ exported' = exported
      BY <1>9, <2>3 DEF Link
    <3>2. new \in SpanRecord
      BY <1>0, <2>1, MoreLinks
    <3>3. new.state = "live" /\ new.baggage = span[s].baggage /\ new.links = Append(span[s].links, t)
      BY <1>0, <2>1, <2>3 DEF SpanRecord
    <3>4. Changes(s, new)
      <4> HIDE DEF new, s, t
      <4> QED
        BY <2>1, <2>3, <3>1, <3>3 DEF Changes, Links
    <3> QED
      BY <2>1, <3>2, <3>4 DEF SpanSteps
  <2> QED
    BY <2>2, <2>3
<1>10. ASSUME NEW th \in Threads, UNCHANGED <<span, exported, promised>> PROVE SpanSteps
  BY <1>10 DEF SpanSteps
<1>11. ASSUME NEW th \in Threads, Begin(th) PROVE SpanSteps
  <2>1. CASE \E s \in Spans : \E p \in Spans \cup Contexts \cup {None} : Start(th, s, p)
    BY <2>1, <1>1
  <2>2. CASE \E s \in Spans : \E status \in {None, "error"} : End(th, s, status)
    BY <2>2, <1>2
  <2>3. CASE \E s \in Spans : SetOperationName(th, s, "name") \/ SetStatus(th, s, "ok")
    BY <2>3, <1>4, <1>5
  <2>4. CASE \E s \in Spans : Inject(th, s) \/ GetBaggage(th, s)
    BY <2>4, <1>10 DEF Inject, GetBaggage
  <2>5. CASE \E s \in Spans, l \in Lists : \/ SetAttributes(th, s, l)
                                        \/ SetBaggage(th, s, l) \/ SetBaggageVar(th, s, l)
    BY <2>5, <1>6, <1>7
  <2>6. CASE \E s \in Spans, l \in Lists : AddEvent(th, s, l) \/ RecordException(th, s, l)
    BY <2>6, <1>8 DEF AddEvent, RecordException
  <2>7. CASE \E s \in Spans, l \in Lists, t \in Spans \cup Contexts : AddLink(th, s, t, l)
    BY <2>7, <1>10 DEF AddLink
  <2>8. CASE \E c \in Contexts : Extract(th, c) \/ DestroyContext(th, c)
    BY <2>8, <1>10 DEF Extract, DestroyContext
  <2> QED
    BY <1>11, <2>1, <2>2, <2>3, <2>4, <2>5, <2>6, <2>7, <2>8 DEF Begin
<1>12. ASSUME NEW th \in Threads, Continue(th) PROVE SpanSteps
  BY <1>9, <1>10, <1>12 DEF Continue, Lookup, LockTarget, UnlockTarget
<1> QED
  BY <1>11, <1>12 DEF Next

-----------------------------------------------------------------------------
(* Each part of the invariant is preserved *)

\* The spans and their records keep their shape: SpanStep says what a step may write.
LEMMA SpansShape == ASSUME SpanDataAssumption, DataShape, [Next]_vars
  PROVE  /\ span' \in [Spans -> SpanRecord]
         /\ exported' \in [Spans -> SpanRecord \cup {None}]
         /\ promised' \subseteq Spans \X (Spans \cup Contexts)
<1> USE DEF DataShape
<1>1. CASE span' = span /\ exported' = exported /\ promised' = promised
  BY <1>1
<1>2. ASSUME NEW s \in Spans, NEW new \in SpanRecord, Changes(s, new)
      PROVE  /\ span' \in [Spans -> SpanRecord]
             /\ exported' \in [Spans -> SpanRecord \cup {None}]
             /\ promised' \subseteq Spans \X (Spans \cup Contexts)
  <2>1. span' \in [Spans -> SpanRecord]
    BY <1>2 DEF Changes
  <2>2. exported' \in [Spans -> SpanRecord \cup {None}]
    <3>1. CASE exported' = exported
      BY <3>1
    <3>2. CASE Ends(s, new)
      <4>1. [new EXCEPT !.state = "live"] \in SpanRecord
        BY DEF SpanRecord
      <4> QED
        BY <3>2, <4>1 DEF Ends
    <3> QED
      BY <1>2, <3>1, <3>2 DEF Changes, Begins, Writes, Links
  <2>3. promised' \subseteq Spans \X (Spans \cup Contexts)
    BY <1>2 DEF Changes, Begins, Writes, Links, Ends
  <2> QED
    BY <2>1, <2>2, <2>3
<1> QED
  BY <1>1, <1>2, SpanStep DEF SpanSteps

\* The contexts, the carrier and the calls keep theirs.
LEMMA CallsShape == ASSUME SpanDataAssumption, DataShape, [Next]_vars
  PROVE  /\ ctx' \in [Contexts -> [state : {"unborn", "live", "ended"}, baggage : Baggage, from : Baggage]]
         /\ carrier' \in [span : Spans \cup {None}, baggage : Baggage, from : Baggage]
         /\ call' \in [Threads -> {Idle} \cup Lookups \cup Linkings]
<1> DEFINE Shaped ==
      /\ ctx' \in [Contexts -> [state : {"unborn", "live", "ended"}, baggage : Baggage, from : Baggage]]
      /\ carrier' \in [span : Spans \cup {None}, baggage : Baggage, from : Baggage]
      /\ call' \in [Threads -> {Idle} \cup Lookups \cup Linkings]
<1> USE DEF DataShape
<1> USE DEF Lookups, Linkings
<1>1. ASSUME UNCHANGED <<ctx, carrier, call>> PROVE Shaped
  BY <1>1
<1>2. ASSUME NEW th \in Threads, NEW s \in Spans, Inject(th, s) PROVE Shaped
  <2>1. span[s].baggage \in Baggage
    BY DEF SpanRecord
  <2>2. Nothing \in Baggage
    BY DEF Baggage
  <2> QED
    BY <1>2, <2>1, <2>2 DEF Inject, Empty
<1>3. ASSUME NEW th \in Threads, NEW c \in Contexts, Extract(th, c) PROVE Shaped
  BY <1>3 DEF Extract
<1>4. ASSUME NEW th \in Threads, NEW c \in Contexts, DestroyContext(th, c) PROVE Shaped
  BY <1>4 DEF DestroyContext
<1>5. ASSUME NEW th \in Threads, NEW s \in Spans, GetBaggage(th, s) PROVE Shaped
  BY <1>5 DEF GetBaggage
<1>6. ASSUME NEW th \in Threads, Lookup(th) PROVE Shaped
  BY <1>6 DEF Lookup
<1>7. ASSUME NEW th \in Threads, NEW s \in Spans, NEW t \in Spans \cup Contexts, NEW l \in Lists,
             AddLink(th, s, t, l)
      PROVE  Shaped
  BY <1>7 DEF AddLink
<1>8. ASSUME NEW th \in Threads, LockTarget(th) PROVE Shaped
  BY <1>8 DEF LockTarget
<1>9. ASSUME NEW th \in Threads, UnlockTarget(th) PROVE Shaped
  <2>1. /\ UNCHANGED <<ctx, carrier>>
        /\ call[th] \in Linkings
        /\ \/ call' = [call EXCEPT ![th] = Idle]
           \/ call' = [call EXCEPT ![th] = [call[th] EXCEPT !.pc = "link"]]
    BY <1>9 DEF UnlockTarget
  <2>2. [call[th] EXCEPT !.pc = "link"] \in Linkings
    BY <2>1
  <2> QED
    BY <2>1, <2>2
<1>10. ASSUME NEW th \in Threads, Link(th) PROVE Shaped
  BY <1>10 DEF Link
<1>11. ASSUME NEW th \in Threads, Begin(th) PROVE Shaped
  <2> HIDE DEF Shaped, DataShape
  <2> QED
    BY <1>1, <1>2, <1>3, <1>4, <1>5, <1>7, <1>11, BaggageCall
    DEF Begin, Start, End, SetOperationName, SetStatus, SetAttributes, AddEvent, RecordException
<1> QED
  BY <1>1, <1>6, <1>8, <1>9, <1>10, <1>11 DEF Next, Continue

\* What was exported is final: an ended span takes nothing more.
LEMMA EndIsFinalStep == ASSUME SpanDataAssumption, DataShape, StatesInOrder, EndIsFinal, [Next]_vars
  PROVE  EndIsFinal'
<1> USE DEF EndIsFinal, Record, StatesInOrder
<1> SUFFICES ASSUME NEW x \in Spans, exported'[x] # None
             PROVE  exported'[x] = [span'[x] EXCEPT !.state = "live"]
  OBVIOUS
<1>1. CASE span' = span /\ exported' = exported
  BY <1>1
<1>2. ASSUME NEW s \in Spans, NEW new \in SpanRecord, Changes(s, new)
      PROVE  exported'[x] = [span'[x] EXCEPT !.state = "live"]
  <2>1. CASE x # s
    BY <1>2, <2>1 DEF Changes, Begins, Writes, Links, Ends, DataShape
  <2>2. CASE x = s
    <3>1. Ends(s, new)
      BY <1>2, <2>2 DEF Changes, Begins, Writes, Links
    <3> QED
      BY <1>2, <2>2, <3>1 DEF Changes, Ends, DataShape
  <2> QED
    BY <2>1, <2>2
<1> QED
  BY <1>1, <1>2, SpanStep DEF SpanSteps

\* A link the caller was told of stays: a live span's links only grow.
LEMMA NoLinkLostStep == ASSUME SpanDataAssumption, DataShape, StatesInOrder, NoLinkLost, [Next]_vars
  PROVE  NoLinkLost'
<1> USE DEF NoLinkLost
<1>1. CASE span' = span /\ promised' = promised
  BY <1>1
<1>2. ASSUME NEW s \in Spans, NEW new \in SpanRecord, Changes(s, new) PROVE NoLinkLost'
  <2> DEFINE has == span[s].links
  <2>1. Len(has) \in Nat /\ DOMAIN has = 1..Len(has)
    BY Elements DEF DataShape, SpanRecord
  <2>2. \A t : /\ DOMAIN Append(has, t) = 1..(Len(has) + 1)
               /\ \A i \in DOMAIN has : Append(has, t)[i] = has[i]
               /\ Append(has, t)[Len(has) + 1] = t
    <3>1. has \in Seq(Spans \cup Contexts)
      BY DEF DataShape, SpanRecord
    <3> QED
      BY <2>1, <3>1
  <2>3. span'[s] = new /\ \A x \in Spans : x # s => span'[x] = span[x]
    BY <1>2 DEF Changes, DataShape
  <2>4. \A p \in promised : p[1] \in Spans
    BY DEF DataShape
  <2> SUFFICES ASSUME NEW p \in promised'
               PROVE  \E i \in DOMAIN span'[p[1]].links : span'[p[1]].links[i] = p[2]
    OBVIOUS
  <2>5. CASE p \in promised /\ p[1] # s
    BY <2>3, <2>4, <2>5
  <2>6. CASE p \in promised /\ p[1] = s
    <3>1. ~Begins(s, new)
      BY <2>6 DEF StatesInOrder, Begins
    <3>2. \A i \in DOMAIN has : i \in DOMAIN new.links /\ new.links[i] = has[i]
      <4>1. CASE new.links = has
        BY <4>1
      <4>2. ASSUME NEW t \in Spans \cup Contexts, new.links = Append(has, t)
            PROVE  \A i \in DOMAIN has : i \in DOMAIN new.links /\ new.links[i] = has[i]
        <5> HIDE DEF has
        <5> QED
          BY <4>2, <2>1, <2>2
      <4> QED
        BY <1>2, <3>1, <4>1, <4>2 DEF Changes, Writes, Links, Ends
    <3> QED
      BY <2>3, <2>6, <3>2
  <2>7. CASE p \notin promised
    <3>1. PICK t \in Spans \cup Contexts : p = <<s, t>> /\ new.links = Append(has, t)
      BY <1>2, <2>7 DEF Changes, Begins, Writes, Links, Ends
    <3>2. Len(has) + 1 \in DOMAIN new.links /\ new.links[Len(has) + 1] = t
      <4> HIDE DEF has
      <4> QED
        BY <3>1, <2>1, <2>2
    <3> QED
      BY <2>3, <3>1, <3>2
  <2> QED
    BY <2>5, <2>6, <2>7
<1> QED
  BY <1>1, <1>2, SpanStep DEF SpanSteps

\* Exported means ended, and promised means begun.
LEMMA StatesInOrderStep == ASSUME SpanDataAssumption, DataShape, StatesInOrder, [Next]_vars
  PROVE  StatesInOrder'
<1> USE DEF StatesInOrder
<1>1. CASE span' = span /\ exported' = exported /\ promised' = promised
  BY <1>1
<1>2. ASSUME NEW s \in Spans, NEW new \in SpanRecord, Changes(s, new) PROVE StatesInOrder'
  <2>1. span'[s] = new /\ \A x \in Spans : x # s => span'[x] = span[x]
    BY <1>2 DEF Changes, DataShape
  <2>2. \A x \in Spans : exported'[x] # None => span'[x].state = "ended"
    <3> SUFFICES ASSUME NEW x \in Spans, exported'[x] # None PROVE span'[x].state = "ended"
      OBVIOUS
    <3>1. CASE Ends(s, new)
      BY <2>1, <3>1 DEF Ends, DataShape
    <3>2. CASE ~Ends(s, new)
      BY <1>2, <2>1, <3>2 DEF Changes, Begins, Writes, Links
    <3> QED
      BY <3>1, <3>2
  <2>3. \A p \in promised' : span'[p[1]].state # "unborn"
    <3>1. new.state # "unborn"
      BY <1>2 DEF Changes, Begins, Writes, Links, Ends
    <3>2. \A p \in promised' : p[1] = s \/ p \in promised
      BY <1>2 DEF Changes, Begins, Writes, Links, Ends
    <3>3. \A p \in promised : p[1] \in Spans
      BY DEF DataShape
    <3> QED
      BY <2>1, <3>1, <3>2, <3>3
  <2> QED
    BY <2>2, <2>3
<1> QED
  BY <1>1, <1>2, SpanStep DEF SpanSteps

\* The carrier holds what was injected, and a context what it was extracted from.
LEMMA CarrierStep == ASSUME SpanDataAssumption, DataShape, CarrierWhole, BaggageCrosses, [Next]_vars
  PROVE  CarrierWhole' /\ BaggageCrosses'
<1> USE DEF CarrierWhole, BaggageCrosses
<1>1. ASSUME UNCHANGED <<ctx, carrier>> PROVE CarrierWhole' /\ BaggageCrosses'
  BY <1>1
<1>2. ASSUME NEW th \in Threads, NEW s \in Spans, Inject(th, s)
      PROVE CarrierWhole' /\ BaggageCrosses'
  BY <1>2 DEF Inject, Empty
<1>3. ASSUME NEW th \in Threads, NEW c \in Contexts, Extract(th, c)
      PROVE CarrierWhole' /\ BaggageCrosses'
  BY <1>3 DEF Extract, DataShape
<1>4. ASSUME NEW th \in Threads, NEW c \in Contexts, DestroyContext(th, c)
      PROVE  CarrierWhole' /\ BaggageCrosses'
  BY <1>4 DEF DestroyContext, DataShape
<1>5. ASSUME NEW th \in Threads, Begin(th) PROVE CarrierWhole' /\ BaggageCrosses'
  <2> HIDE DEF CarrierWhole, BaggageCrosses
  <2> QED
    BY <1>1, <1>2, <1>3, <1>4, <1>5, BaggageCall
    DEF Begin, Start, End, SetOperationName, SetStatus, SetAttributes, AddEvent, RecordException,
        GetBaggage, AddLink
<1> QED
  BY <1>1, <1>5 DEF Next, Continue, Lookup, LockTarget, UnlockTarget, Link

\* How a step changes who is in a lookup, and the counts of maps, calls and returns.
LookupSteps ==
    \/ InLookup' = InLookup /\ maps' = maps /\ returned' = returned
    \/ \E th \in Threads : /\ th \notin InLookup /\ InLookup' = InLookup \cup {th}
                           /\ maps' = maps + 1 /\ calls' = calls + 1 /\ returned' = returned
    \/ \E th \in Threads : /\ th \in InLookup /\ InLookup' = InLookup \ {th}
                           /\ \/ maps' = maps /\ returned' = returned + 1
                              \/ maps' = maps - 1 /\ returned' = returned

\* Only get_baggage_var() allocates, and its lookup gives the map up one way or the other.
LEMMA LookupStep == ASSUME SpanDataAssumption, DataShape, [Next]_vars PROVE LookupSteps
<1> USE DEF InLookup, LookupSteps, Lookups, Linkings
<1>1. ASSUME UNCHANGED <<call, maps, returned>> PROVE LookupSteps
  BY <1>1
<1>2. ASSUME NEW th \in Threads, NEW s \in Spans, GetBaggage(th, s) PROVE LookupSteps
  <2>1. InLookup' = InLookup \cup {th}
    BY <1>2 DEF GetBaggage, DataShape
  <2> QED
    BY <1>2, <2>1 DEF GetBaggage
<1>3. ASSUME NEW th \in Threads, NEW s \in Spans, NEW t \in Spans \cup Contexts, NEW l \in Lists,
             AddLink(th, s, t, l)
      PROVE  LookupSteps
  <2>1. InLookup' = InLookup
    BY <1>3 DEF AddLink, DataShape
  <2> QED
    BY <1>3, <2>1 DEF AddLink
<1>4. ASSUME NEW th \in Threads, Lookup(th) PROVE LookupSteps
  <2>1. th \in InLookup /\ InLookup' = InLookup \ {th}
    BY <1>4 DEF Lookup, DataShape
  <2> QED
    BY <1>4, <2>1 DEF Lookup
<1>5. ASSUME NEW th \in Threads, LockTarget(th) \/ UnlockTarget(th) \/ Link(th) PROVE LookupSteps
  <2>1. InLookup' = InLookup
    <3>1. /\ call[th].pc \in {"target", "resolve", "link"}
          /\ call[th] \in Linkings
      BY <1>5 DEF LockTarget, UnlockTarget, Link, DataShape
    <3>2. \E c : call' = [call EXCEPT ![th] = c] /\ c.pc \in {"idle", "resolve", "link"}
      <4>1. CASE LockTarget(th)
        <5>1. call' = [call EXCEPT ![th] = [call[th] EXCEPT !.pc = "resolve"]]
          BY <4>1 DEF LockTarget
        <5>2. [call[th] EXCEPT !.pc = "resolve"].pc = "resolve"
          BY <3>1
        <5> QED
          BY <5>1, <5>2
      <4>2. CASE UnlockTarget(th)
        BY <3>1, <4>2 DEF UnlockTarget
      <4>3. CASE Link(th)
        <5>1. call' = [call EXCEPT ![th] = Idle] /\ Idle.pc = "idle"
          BY <4>3 DEF Link
        <5> QED
          BY <5>1
      <4> QED
        BY <1>5, <4>1, <4>2, <4>3
    <3> QED
      BY <3>1, <3>2 DEF DataShape
  <2> QED
    BY <1>5, <2>1 DEF LockTarget, UnlockTarget, Link
<1>6. ASSUME NEW th \in Threads, Begin(th) PROVE LookupSteps
  <2> HIDE DEF LookupSteps
  <2> QED
    BY <1>1, <1>2, <1>3, <1>6, BaggageCall
    DEF Begin, Start, End, SetOperationName, SetStatus, SetAttributes, AddEvent, RecordException,
        Inject, Extract, DestroyContext
<1> QED
  BY <1>1, <1>4, <1>5, <1>6 DEF Next, Continue

\* Calls are counted, up to MaxCalls.
LEMMA CallsCounted == ASSUME SpanDataAssumption, calls \in 0..MaxCalls, [Next]_vars
  PROVE  calls' \in calls..MaxCalls
<1>1. ASSUME NEW th \in Threads, Begin(th) PROVE calls < MaxCalls /\ calls' = calls + 1
  BY <1>1, BaggageCall DEF Begin, Start, End, SetOperationName, SetStatus, SetAttributes, AddEvent,
     RecordException, Inject, Extract, DestroyContext, GetBaggage, AddLink
<1>2. MaxCalls \in Nat
  BY DEF SpanDataAssumption
<1>3. ASSUME NEW th \in Threads, Continue(th) PROVE calls' = calls
  BY <1>3 DEF Continue, Lookup, LockTarget, UnlockTarget, Link
<1> QED
  BY <1>1, <1>2, <1>3 DEF Next

\* The maps in being are those returned and those of the lookups under way.
LEMMA MapsStep ==
  ASSUME SpanDataAssumption, DataShape, MapsCounted, MapsAccounted,
         maps \in Nat, calls \in 0..MaxCalls, returned \in Nat, [Next]_vars
  PROVE  /\ MapsCounted' /\ MapsAccounted'
         /\ maps' \in Nat /\ calls' \in 0..MaxCalls /\ returned' \in 0..MaxCalls
<1>1. MaxCalls \in Nat /\ calls' \in calls..MaxCalls
  BY CallsCounted DEF SpanDataAssumption
<1>2. IsFiniteSet(InLookup) /\ maps <= calls /\ maps = returned + Cardinality(InLookup)
  BY DEF MapsCounted, MapsAccounted, InLookup
<1>3. Cardinality(InLookup) \in Nat
  BY <1>2, FS_CardinalityType
<1> DEFINE Counted ==
      /\ IsFiniteSet(InLookup') /\ Cardinality(InLookup') \in Nat
      /\ maps' \in Nat /\ maps' <= calls' /\ returned' \in Nat
      /\ maps' = returned' + Cardinality(InLookup')
<1>4. Counted
  <2>1. CASE InLookup' = InLookup /\ maps' = maps /\ returned' = returned
    BY <1>1, <1>2, <1>3, <2>1
  <2>2. ASSUME NEW th \in Threads, th \notin InLookup, InLookup' = InLookup \cup {th},
               maps' = maps + 1, calls' = calls + 1, returned' = returned
        PROVE  Counted
    <3>1. IsFiniteSet(InLookup') /\ Cardinality(InLookup') = Cardinality(InLookup) + 1
      BY <1>2, <2>2, FS_AddElement
    <3> QED
      BY <1>1, <1>2, <1>3, <2>2, <3>1
  <2>3. ASSUME NEW th \in Threads, th \in InLookup, InLookup' = InLookup \ {th},
               \/ maps' = maps /\ returned' = returned + 1
               \/ maps' = maps - 1 /\ returned' = returned
        PROVE  Counted
    <3>1. IsFiniteSet(InLookup') /\ Cardinality(InLookup') = Cardinality(InLookup) - 1
      BY <1>2, <2>3, FS_RemoveElement
    <3>2. Cardinality(InLookup') \in Nat
      BY <3>1, FS_CardinalityType
    <3> QED
      BY <1>1, <1>2, <1>3, <2>3, <3>1, <3>2
  <2> QED
    BY <2>1, <2>2, <2>3, LookupStep DEF LookupSteps
<1> QED
  BY <1>1, <1>4 DEF MapsCounted, MapsAccounted, InLookup

-----------------------------------------------------------------------------
(* The theorems *)

\* DataInv holds in the initial state...
LEMMA DataInit == ASSUME SpanDataAssumption, Init PROVE DataInv
<1> USE DEF Init
<1>1. Nothing \in Baggage /\ Nothing \in Attributes /\ [k \in Keys |-> "text"] \in Baggage
  BY DEF Baggage, Attributes, Text
<1>2. <<>> \in Seq({"event", "exception"} \X Attributes) /\ <<>> \in Seq(Spans \cup Contexts)
  OBVIOUS
<1>3. NoSpan \in SpanRecord
  BY <1>1, <1>2 DEF SpanRecord
<1>4. DataShape
  BY <1>1, <1>3 DEF DataShape, NoContext, Empty
<1>5. InLookup = {}
  BY DEF InLookup
<1>6. MapsCounted /\ MapsAccounted
  <2>1. IsFiniteSet(InLookup) /\ Cardinality(InLookup) = 0
    BY <1>5, FS_EmptySet
  <2> QED
    BY <2>1 DEF MapsCounted, MapsAccounted, InLookup
<1>7. EndIsFinal /\ NoLinkLost /\ BaggageCrosses /\ StatesInOrder /\ CarrierWhole
  BY DEF EndIsFinal, NoLinkLost, BaggageCrosses, StatesInOrder, CarrierWhole, NoContext, Empty
<1>8. TypeOK
  BY <1>1 DEF TypeOK, Baggage, Attributes, NoContext, SpanDataAssumption
<1> QED
  BY <1>4, <1>6, <1>7, <1>8 DEF DataInv, SpanInv

\* ...and every step preserves it.
LEMMA DataStep == ASSUME SpanDataAssumption, DataInv, [Next]_vars PROVE DataInv'
<1> USE DEF DataInv, SpanInv
<1>0. MaxCalls \in Nat /\ maps \in Nat /\ calls \in 0..MaxCalls /\ returned \in Nat
  BY DEF SpanDataAssumption, TypeOK
<1>1. DataShape'
  BY SpansShape, CallsShape DEF DataShape
<1>2. /\ MapsCounted' /\ MapsAccounted'
      /\ maps' \in Nat /\ calls' \in 0..MaxCalls /\ returned' \in 0..MaxCalls
  BY <1>0, MapsStep
<1>3. TypeOK'
  <2>1. /\ \A s \in Spans : span'[s] \in SpanRecord
        /\ \A c \in Contexts : ctx'[c].baggage \in Baggage
        /\ \A th \in Threads : call'[th].pc \in {"idle", "lookup", "target", "resolve", "link"}
    BY <1>1 DEF DataShape, Lookups, Linkings
  <2> QED
    BY <1>2, <2>1 DEF TypeOK, SpanRecord, Attributes, Baggage
<1>4. EndIsFinal' /\ NoLinkLost' /\ StatesInOrder'
  BY EndIsFinalStep, NoLinkLostStep, StatesInOrderStep
<1>5. CarrierWhole' /\ BaggageCrosses'
  BY CarrierStep
<1> QED
  BY <1>1, <1>2, <1>3, <1>4, <1>5

\* What the proofs rest on: what the variables hold, in what order a span's states come.
THEOREM DataInvariant == ASSUME SpanDataAssumption PROVE Spec => []DataInv
<1>1. Init => DataInv
  BY DataInit
<1>2. DataInv /\ [Next]_vars => DataInv'
  BY DataStep
<1> QED
  BY <1>1, <1>2, PTL DEF Spec

\* What spans, contexts and callers hold, whatever sections of other calls come between.
THEOREM SpansKeepWhatTheyTook == ASSUME SpanDataAssumption PROVE Spec => []SpanInv
<1>1. DataInv => SpanInv
  BY DEF DataInv
<1> QED
  BY <1>1, DataInvariant, PTL

\* A live span's baggage takes a list of strings whole, or the part before a null value (the
\* loop of otel_span_set_baggage_var(), src/span.cpp), and nothing of a list that is refused.
THEOREM BaggageIsCutOnlyAtNull == ASSUME SpanDataAssumption PROVE Spec => BaggageCutOnlyAtNull
<1>1. ASSUME DataInv, [Next]_vars
      PROVE  [\A s \in Spans : Live(s) /\ span'[s].baggage # span[s].baggage =>
                \E l \in Lists : \E n \in 1..Len(l) :
                  SavedPart(l, n) /\ span'[s].baggage = Written(span[s].baggage, l, n)]_vars
  <2> SUFFICES ASSUME NEW s \in Spans, Live(s), span'[s].baggage # span[s].baggage
               PROVE  \E l \in Lists : \E n \in 1..Len(l) :
                        SavedPart(l, n) /\ span'[s].baggage = Written(span[s].baggage, l, n)
    OBVIOUS
  <2>1. PICK x \in Spans, new \in SpanRecord : Changes(x, new)
    BY <1>1, SpanStep DEF SpanSteps, DataInv
  <2>2. x = s /\ span'[s] = new
    BY <1>1, <2>1 DEF Changes, DataInv, DataShape
  <2> QED
    BY <2>1, <2>2 DEF Changes, Begins, Writes, Links, Ends
<1> QED
  BY <1>1, DataInvariant, PTL DEF Spec, BaggageCutOnlyAtNull
=============================================================================
