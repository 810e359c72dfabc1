--------------------------- MODULE BatchCounters ---------------------------
(***************************************************************************)
(* The counting layer around the SDK's batch span processor                *)
(* (src/processor.cpp): otel_counting_span_processor guesses, from its own *)
(* produced_ and consumed_ counters, what the SDK does with each span.     *)
(* The log processor and exporter are the same code for log records.       *)
(*                                                                         *)
(* Every atomic load and fetch_add is one step.  The orderings are relaxed *)
(* in the code; the model interleaves them, which is all that separate     *)
(* counters show on hardware that does not delay a thread's own loads.     *)
(* The SDK's queue and worker thread are external.                         *)
(***************************************************************************)
EXTENDS Integers, FiniteSets

CONSTANTS Producers,  \* threads that end spans
          MaxQueue,   \* max_queue_size
          MaxBatch,   \* max_export_batch_size
          MaxSpans,   \* bound: spans ended in a behaviour
          Wrap        \* what a uint64_t counts modulo, 2^64 in the code

\* otel_tracer_processor_create() refuses a queue smaller than a batch.
ASSUME CounterAssumption == /\ IsFiniteSet(Producers) /\ Producers # {}
                            /\ MaxBatch \in Nat \ {0} /\ MaxQueue \in Nat
                            /\ MaxBatch <= MaxQueue
                            /\ MaxSpans \in Nat /\ Wrap \in Nat

VARIABLES
    produced, consumed,      \* produced_, *consumed_
    dropped,                 \* dropped_count_
    recordsOk, recordsFail,  \* records_ok_, records_fail_
    pc, prod, cons,          \* each producer's place in OnEnd() and its two loads
    queue,                   \* SDK: spans in the circular buffer
    batch, worker,           \* SDK: spans taken out of it, and the worker's place
    stopped,                 \* SDK: Shutdown() was called
    refused, ignored         \* history: spans the full, or the stopped, SDK refused

wrapperVars == <<produced, consumed, dropped, recordsOk, recordsFail, pc, prod, cons>>
sdkVars     == <<queue, batch, worker, stopped, refused, ignored>>
vars        == <<wrapperVars, sdkVars>>

Init == /\ produced = 0 /\ consumed = 0 /\ dropped = 0
        /\ recordsOk = 0 /\ recordsFail = 0
        /\ pc = [p \in Producers |-> "idle"]
        /\ prod = [p \in Producers |-> 0]
        /\ cons = [p \in Producers |-> 0]
        /\ queue = 0 /\ batch = 0 /\ worker = "waiting"
        /\ stopped = FALSE
        /\ refused = 0 /\ ignored = 0

Goto(p, place) == pc' = [pc EXCEPT ![p] = place]
Undecided      == {p \in Producers : pc[p] \in {"loaded", "deciding"}}
Counted        == {p \in Producers : pc[p] = "handing"}

\* The bound on the number of OnEnd() calls.
MayEnd == produced + dropped + Cardinality(Undecided) < MaxSpans

-----------------------------------------------------------------------------
(* otel_counting_span_processor::OnEnd *)

LoadProduced(p) ==
    /\ pc[p] = "idle"
    /\ MayEnd
    /\ prod' = [prod EXCEPT ![p] = produced]
    /\ Goto(p, "loaded")
    /\ UNCHANGED <<produced, consumed, dropped, recordsOk, recordsFail, cons, sdkVars>>

LoadConsumed(p) ==
    /\ pc[p] = "loaded"
    /\ cons' = [cons EXCEPT ![p] = consumed]
    /\ Goto(p, "deciding")
    /\ UNCHANGED <<produced, consumed, dropped, recordsOk, recordsFail, prod, sdkVars>>

\* uint64_t subtraction.
Minus(a, b) == IF a >= b THEN a - b ELSE Wrap + a - b

\* Faulty variants: no guard against wraparound; full one span too late.
LooksFullUnguarded(p) == Minus(prod[p], cons[p]) >= MaxQueue
LooksFullLate(p)      == prod[p] > cons[p] /\ Minus(prod[p], cons[p]) > MaxQueue

\* The difference is looked at only where it cannot have wrapped around.
LooksFull(p) == prod[p] > cons[p] /\ Minus(prod[p], cons[p]) >= MaxQueue

Count(p) ==
    /\ pc[p] = "deciding"
    /\ IF LooksFull(p)
       THEN dropped' = dropped + 1 /\ UNCHANGED produced
       ELSE produced' = produced + 1 /\ UNCHANGED dropped
    /\ Goto(p, "handing")
    /\ UNCHANGED <<consumed, recordsOk, recordsFail, prod, cons, sdkVars>>

\* inner_->OnEnd(): the SDK decides for itself, whatever the wrapper counted.
Hand(p) ==
    /\ pc[p] = "handing"
    /\ \/ stopped /\ ignored' = ignored + 1 /\ UNCHANGED <<queue, refused>>
       \/ ~stopped /\ queue >= MaxQueue /\ refused' = refused + 1 /\ UNCHANGED <<queue, ignored>>
       \/ ~stopped /\ queue < MaxQueue /\ queue' = queue + 1 /\ UNCHANGED <<refused, ignored>>
    /\ Goto(p, "idle")
    /\ UNCHANGED <<produced, consumed, dropped, recordsOk, recordsFail, prod, cons,
                   batch, worker, stopped>>

-----------------------------------------------------------------------------
(* The SDK worker and otel_counting_span_exporter::Export *)

\* The worker moves a batch out of the buffer; its slots are free from here on.
TakeBatch ==
    /\ worker = "waiting"
    /\ queue > 0
    /\ batch' = IF queue < MaxBatch THEN queue ELSE MaxBatch
    /\ queue' = queue - batch'
    /\ worker' = "taken"
    /\ UNCHANGED <<wrapperVars, stopped, refused, ignored>>

\* Export() counts the batch before it exports it.
CountConsumed ==
    /\ worker = "taken"
    /\ consumed' = consumed + batch
    /\ worker' = "exporting"
    /\ UNCHANGED <<produced, dropped, recordsOk, recordsFail, pc, prod, cons,
                   queue, batch, stopped, refused, ignored>>

\* The result of the wrapped exporter decides which totals grow.
CountRecords ==
    \/ recordsOk' = recordsOk + batch /\ UNCHANGED recordsFail
    \/ recordsFail' = recordsFail + batch /\ UNCHANGED recordsOk

Exported ==
    /\ worker = "exporting"
    /\ CountRecords
    /\ batch' = 0
    /\ worker' = "waiting"
    /\ UNCHANGED <<produced, consumed, dropped, pc, prod, cons, queue, stopped, refused, ignored>>

\* Shutdown(): the SDK takes no more spans; its worker drains what it has.
Shutdown ==
    /\ ~stopped
    /\ stopped' = TRUE
    /\ UNCHANGED <<wrapperVars, queue, batch, worker, refused, ignored>>

-----------------------------------------------------------------------------
OnEnd(p) == LoadProduced(p) \/ LoadConsumed(p) \/ Count(p) \/ Hand(p)
Worker   == TakeBatch \/ CountConsumed \/ Exported
Next     == (\E p \in Producers : OnEnd(p)) \/ Worker \/ Shutdown

Spec == Init /\ [][Next]_vars

-----------------------------------------------------------------------------
(* Properties *)

\* Every variable has its type and its bound.
TypeOK ==
    /\ produced \in 0..MaxSpans /\ consumed \in 0..MaxSpans /\ dropped \in 0..MaxSpans
    /\ recordsOk \in 0..MaxSpans /\ recordsFail \in 0..MaxSpans
    /\ refused \in 0..MaxSpans /\ ignored \in 0..MaxSpans
    /\ pc \in [Producers -> {"idle", "loaded", "deciding", "handing"}]
    /\ prod \in [Producers -> 0..MaxSpans]
    /\ cons \in [Producers -> 0..MaxSpans]
    /\ queue \in 0..MaxQueue
    /\ batch \in 0..MaxBatch
    /\ worker \in {"waiting", "taken", "exporting"}
    /\ stopped \in BOOLEAN

\* queue_depth()
Depth == IF produced > consumed THEN produced - consumed ELSE 0

\* However stale the two loads of OnEnd() are, the reported depth exceeds the capacity
\* by less than one span per thread that ends spans.
DepthBounded == Depth <= MaxQueue + Cardinality(Producers) - 1

\* The drop count and the SDK's own refusals stay within a fixed distance however long
\* the processor runs: the counters self-correct (processor.cpp:151-154).
UnseenRefusals == Cardinality(Producers) - 1
FalseDrops     == MaxBatch + Cardinality(Producers)
DropsTracked   == ~stopped => /\ refused - dropped <= UnseenRefusals
                              /\ dropped - refused <= FalseDrops

\* util.h:157, "Records dropped because the batch queue was full": with no call in
\* progress, every span counted as dropped was refused by the full queue.
DroppedWereRefused == Undecided \cup Counted = {} => dropped <= refused

-----------------------------------------------------------------------------
(* The inductive strengthening the proofs use *)

\* Taken by the worker and not counted as consumed; exported and not yet recorded.
Uncounted  == IF worker = "taken" THEN batch ELSE 0
Unrecorded == IF worker = "exporting" THEN batch ELSE 0

\* Every span the wrapper counted went somewhere.
SpansBalance ==
    /\ produced + dropped = consumed + Uncounted + queue + refused + ignored + Cardinality(Counted)
    /\ consumed = recordsOk + recordsFail + Unrecorded
    /\ produced + dropped + Cardinality(Undecided) <= MaxSpans
    /\ ~stopped => ignored = 0

\* A load is never ahead of its counter.
LoadsBehind == \A p \in Producers : prod[p] <= produced /\ cons[p] <= consumed

\* Those that, if consumed stood at c, would count their span as produced; those that
\* have decided to count it as dropped.
Condemned  == {p \in Producers : pc[p] = "deciding" /\ LooksFull(p)}
Passing(c) == {p \in Undecided \ Condemned : prod[p] < c + MaxQueue}

\* Once the queue looks full at c, each thread still passing adds at most one: to pass
\* again it must load a produced that stops it.
Overshoot ==
    \A c \in 0..MaxSpans : c >= consumed /\ produced >= c + MaxQueue =>
        produced + Cardinality(Passing(c)) <= c + MaxQueue + Cardinality(Producers) - 1

\* A thread condemns its span only when the SDK, its worker and the threads about to hand
\* a span over hold a full queue between them, so the buffer lacks no more than the rest.
FalseDropsBounded ==
    ~stopped => dropped + Cardinality(Condemned) <= refused + FalseDrops

CounterInv == /\ TypeOK /\ SpansBalance /\ LoadsBehind /\ Overshoot
              /\ FalseDropsBounded /\ refused - dropped <= UnseenRefusals
=============================================================================
