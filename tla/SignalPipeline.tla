---------------------------- MODULE SignalPipeline ----------------------------
(***************************************************************************)
(* The export pipeline of one tracer: start, repeated start, shutdown and  *)
(* destroy (tracer.cpp), with the exporters that own files (exporter.cpp). *)
(* A pipeline has one batch processor with a worker thread per exporter;   *)
(* the processors, their workers and the non-file exporters belong to the  *)
(* SDK.  The callers keep the contract of start and destroy: no operation  *)
(* on the tracer overlaps them and its spans have ended.                   *)
(***************************************************************************)
EXTENDS Integers, FiniteSets

CONSTANTS
    N,          \* the exporters of a pipeline are 1 .. N, as configured
    Files,      \* the files of the file system
    FileOf,     \* the file an exporter writes, or None for a remote exporter
    None,
    Records,    \* the spans that will be ended
    Earlier,    \* what a file held before the program started
    Configured, \* the flush_timeout key of the configuration, or None
    Timeouts,   \* the flush timeouts that set_flush_timeout is given, in milliseconds
    MaxStarts   \* bound: the calls of start

Exporters == 1 .. N

ASSUME PipelineAssumption ==
    /\ N \in Nat \ {0}
    /\ None \notin Files
    /\ FileOf \in [Exporters -> Files \cup {None}]
    /\ Earlier \notin Records
    /\ Timeouts \subseteq Nat
    /\ Configured \in Nat \cup {None}
    /\ MaxStarts \in Nat

VARIABLES
    op,           \* the operation in progress: "none", "start", "shutdown" or "destroy"
    pc, at,       \* its next step, and the exporter that step is for
    flushTimeout, \* tracer->flush_timeout
    spent,        \* the milliseconds the flush in progress has taken
    made,         \* the pipelines whose start was called
    gen,          \* impl->provider: the pipeline installed, 0 if none
    tracked,      \* impl->exporters: the pipeline whose exporters it lists, 0 if empty
    queue, batch, \* of each installed processor: spans queued, and spans being exported
    closed,       \* the installed processors that were shut down
    shut,         \* the installed exporters that were shut down
    file,         \* the records in each file
    origin,       \* the pipeline each record was ended on, 0 while the span is not ended
    out, lost,    \* history: what each exporter wrote, and what it was handed once shut down
    unflushed     \* history: the installed processors no flush was completed for

callVars == <<op, pc, at, spent>>
implVars == <<gen, tracked, flushTimeout, made>>
sdkVars  == <<queue, batch, closed, shut, origin>>
history  == <<out, lost, unflushed>>
vars     == <<callVars, implVars, sdkVars, file, history>>

Each(x) == [e \in Exporters |-> x]
Drained(e) == queue[e] = {} /\ batch[e] = {}

Init ==
    /\ op = "none" /\ pc = "idle" /\ at = 1 /\ spent = 0
    /\ flushTimeout \in Timeouts
    /\ made = 0 /\ gen = 0 /\ tracked = 0
    /\ queue = Each({}) /\ batch = Each({}) /\ closed = {} /\ shut = {}
    /\ file = [f \in Files |-> {Earlier}]
    /\ origin = [r \in Records |-> 0]
    /\ out = Each({}) /\ lost = Each({}) /\ unflushed = {}

-----------------------------------------------------------------------------
(* Control of the calling thread *)

Goto(step)   == pc' = step /\ at' = 1 /\ UNCHANGED op
Return       == pc' = "idle" /\ at' = 1 /\ op' = "none"
Then(step)   == \/ at < N /\ at' = at + 1 /\ UNCHANGED <<op, pc>>
                \/ at = N /\ Goto(step)
Begin(o, step) == op' = o /\ pc' = step /\ at' = 1 /\ spent' = 0

-----------------------------------------------------------------------------
(* Spans, and the workers of the processors *)

\* A span of the tracer ends: every processor that still takes spans queues it.
EndSpan(r) ==
    /\ pc = "idle"
    /\ gen # 0
    /\ origin[r] = 0
    /\ origin' = [origin EXCEPT ![r] = gen]
    /\ queue' = [e \in Exporters |-> IF e \in closed THEN queue[e] ELSE queue[e] \cup {r}]
    /\ UNCHANGED <<callVars, implVars, batch, closed, shut, file, history>>

\* The worker takes a batch.
TakeBatch(e) ==
    /\ batch[e] = {}
    /\ \E S \in (SUBSET queue[e]) \ {{}} :
          /\ batch' = [batch EXCEPT ![e] = S]
          /\ queue' = [queue EXCEPT ![e] = @ \ S]
    /\ UNCHANGED <<callVars, implVars, closed, shut, origin, file, history>>

\* The worker exports it: written and pushed to the file at once, or refused.
Export(e) ==
    /\ batch[e] # {}
    /\ batch' = [batch EXCEPT ![e] = {}]
    /\ \/ /\ e \in shut
          /\ lost' = [lost EXCEPT ![e] = @ \cup batch[e]]
          /\ UNCHANGED <<out, file>>
       \/ /\ e \notin shut
          /\ out' = [out EXCEPT ![e] = @ \cup batch[e]]
          /\ file' = [f \in Files |-> IF f = FileOf[e] THEN file[f] \cup batch[e] ELSE file[f]]
          /\ UNCHANGED lost
    /\ UNCHANGED <<callVars, implVars, queue, closed, shut, origin, unflushed>>

-----------------------------------------------------------------------------
(* The flush of the installed provider *)

\* Faulty variants of the share: not divided, and without the floor.
FlushBudgetWhole(timeout, count)   == timeout
FlushBudgetNoFloor(timeout, count) == IF count > 1 THEN timeout \div count ELSE timeout

\* otel_tracer_flush_budget(): the share of one processor, at least a millisecond.
FlushBudget(timeout, count) ==
    LET share == IF count > 1 THEN timeout \div count ELSE timeout
    IN  IF share < 1 THEN 1 ELSE share

Count == IF tracked = 0 THEN 0 ELSE N
Share == FlushBudget(flushTimeout, Count)

\* Faulty variant: the result of the SDK, which is always true, is believed.
FlagFlushedSdk(elapsed) == TRUE

\* The SDK result starts as true; only the elapsed time tells a timed-out flush.
FlagFlushed(elapsed) == elapsed < flushTimeout

(***************************************************************************)
(* ForceFlush of one processor after the other.  A processor that drains   *)
(* within its share goes on at once; another takes its whole share.  The   *)
(* SDK takes a share of zero for no limit.                                 *)
(***************************************************************************)
Flush ==
    /\ pc = "flush"
    /\ \/ Drained(at) /\ spent' \in {spent} \cup (spent .. spent + Share - 1)
       \/ Share > 0 /\ spent' = spent + Share
    /\ unflushed' = IF Drained(at) THEN unflushed ELSE unflushed \cup {at}
    /\ \/ at < N /\ at' = at + 1 /\ UNCHANGED <<op, pc>>
       \/ at = N /\ op = "start" /\ Goto("build")
       \/ at = N /\ op = "destroy" /\ Goto(IF FlagFlushed(spent') THEN "release" ELSE "shutdown")
    /\ UNCHANGED <<implVars, sdkVars, file, out, lost>>

-----------------------------------------------------------------------------
(* otel_tracer_start *)

SetFlushTimeout(n) ==
    /\ pc = "idle"
    /\ flushTimeout # n
    /\ flushTimeout' = n
    /\ UNCHANGED <<callVars, gen, tracked, made, sdkVars, file, history>>

NewTimeout == IF Configured = None THEN flushTimeout ELSE Configured

\* Faulty variant: the previous pipeline is not flushed.
StartUnflushed ==
    /\ pc = "idle"
    /\ made < MaxStarts
    /\ made' = made + 1
    /\ flushTimeout' = NewTimeout
    /\ Begin("start", "build")
    /\ unflushed' = {}
    /\ UNCHANGED <<gen, tracked, sdkVars, file, out, lost>>

(***************************************************************************)
(* A start reads the configuration, which may end it, perhaps only after   *)
(* the timeout was taken over; then the previous pipeline is flushed       *)
(* within a positive budget.                                               *)
(***************************************************************************)
Start ==
    LET flush == gen # 0 /\ flushTimeout' > 0
    IN  /\ pc = "idle"
        /\ made < MaxStarts
        /\ made' = made + 1
        /\ \/ /\ flushTimeout' \in {flushTimeout, NewTimeout}
              /\ UNCHANGED <<callVars, unflushed>>
           \/ /\ flushTimeout' = NewTimeout
              /\ Begin("start", IF flush THEN "flush" ELSE "build")
              /\ unflushed' = IF gen # 0 /\ ~flush THEN Exporters ELSE {}
        /\ UNCHANGED <<gen, tracked, sdkVars, file, out, lost>>

\* Exporters, processors, provider and propagator: all built, or all given up.
Build ==
    /\ pc = "build"
    /\ Goto("open") \/ Return
    /\ UNCHANGED <<spent, implVars, sdkVars, file, history>>

AfterOpen == IF tracked = 0 THEN "truncate" ELSE "shutdown"

\* Faulty variant: opening a file empties it.
OpenTruncates ==
    /\ pc = "open"
    /\ \/ FileOf[at] = None /\ Then(AfterOpen) /\ UNCHANGED file
       \/ FileOf[at] # None /\ Then(AfterOpen) /\ file' = [file EXCEPT ![FileOf[at]] = {}]
       \/ FileOf[at] # None /\ Return /\ UNCHANGED file
    /\ UNCHANGED <<spent, implVars, sdkVars, history>>

\* otel_exporter_files_open(): in append mode; the first failure ends the start.
Open ==
    /\ pc = "open"
    /\ \/ Then(AfterOpen)
       \/ FileOf[at] # None /\ Return
    /\ UNCHANGED <<spent, implVars, sdkVars, file, history>>

\* Faulty variant: a start leaves the previous exporters running.
ShutdownOnDestroy ==
    /\ pc = "shutdown"
    /\ shut' = IF op = "start" THEN shut ELSE shut \cup {at}
    /\ Then(IF op = "start" THEN "truncate" ELSE "release")
    /\ UNCHANGED <<spent, implVars, queue, batch, closed, origin, file, history>>

\* Shutdown() of an exporter in impl->exporters; the mutex orders it after an Export.
Shutdown ==
    /\ pc = "shutdown"
    /\ shut' = shut \cup {at}
    /\ Then(IF op = "start" THEN "truncate" ELSE "release")
    /\ UNCHANGED <<spent, implVars, queue, batch, closed, origin, file, history>>

\* otel_exporter_files_truncate().
Truncate ==
    /\ pc = "truncate"
    /\ file' = [f \in Files |-> IF f = FileOf[at] THEN {} ELSE file[f]]
    /\ Then(IF gen = 0 THEN "install" ELSE "release")
    /\ UNCHANGED <<spent, implVars, sdkVars, history>>

\* The state of a provider with nothing recorded yet, or of no provider.
NewPipeline == /\ queue' = Each({}) /\ batch' = Each({}) /\ closed' = {} /\ shut' = {}
               /\ unflushed' = {}
               /\ UNCHANGED origin

\* Faulty variant: a failed installation leaves the exporters of the old pipeline listed.
InstallKeepsExporters ==
    /\ pc = "install"
    /\ \/ gen' = made /\ tracked' = made
       \/ gen' = 0 /\ UNCHANGED tracked
    /\ NewPipeline
    /\ Return
    /\ UNCHANGED <<spent, flushTimeout, made, file, out, lost>>

\* The new state is installed; an exception leaves nothing installed.
Install ==
    /\ pc = "install"
    /\ \/ gen' = made /\ tracked' = made
       \/ gen' = 0 /\ tracked' = 0
    /\ NewPipeline
    /\ Return
    /\ UNCHANGED <<spent, flushTimeout, made, file, out, lost>>

-----------------------------------------------------------------------------
(* Shutdown and destroy *)

\* Releasing a provider, or Shutdown() of it: each processor drains, then its exporter stops.
Release ==
    /\ pc = "release"
    /\ Drained(at)
    /\ closed' = closed \cup {at}
    /\ shut' = shut \cup {at}
    /\ \/ at < N /\ at' = at + 1 /\ UNCHANGED <<op, pc>>
       \/ at = N /\ op = "start" /\ Goto("install")
       \/ at = N /\ op = "destroy" /\ Goto("delete")
       \/ at = N /\ op = "shutdown" /\ Return
    /\ UNCHANGED <<spent, implVars, queue, batch, origin, file, history>>

ShutdownProvider ==
    /\ pc = "idle"
    /\ gen # 0
    /\ Begin("shutdown", "release")
    /\ UNCHANGED <<implVars, sdkVars, file, history>>

\* Faulty variant: without a budget the exporters are left running.
DestroyDrains ==
    /\ pc = "idle"
    /\ Begin("destroy", IF gen # 0 /\ flushTimeout > 0 THEN "flush"
                        ELSE IF gen # 0 THEN "release" ELSE "delete")
    /\ unflushed' = IF gen # 0 /\ flushTimeout = 0 THEN Exporters ELSE {}
    /\ UNCHANGED <<implVars, sdkVars, file, out, lost>>

\* otel_tracer_destroy(): flush within a positive budget, or shut the exporters down.
Destroy ==
    /\ pc = "idle"
    /\ Begin("destroy", IF gen # 0 /\ flushTimeout > 0 THEN "flush"
                        ELSE IF tracked # 0 THEN "shutdown" ELSE "delete")
    /\ unflushed' = IF gen # 0 /\ flushTimeout = 0 THEN Exporters ELSE {}
    /\ UNCHANGED <<implVars, sdkVars, file, out, lost>>

Delete ==
    /\ pc = "delete"
    /\ pc' = "gone" /\ op' = "none" /\ at' = 1
    /\ gen' = 0 /\ tracked' = 0
    /\ NewPipeline
    /\ UNCHANGED <<spent, flushTimeout, made, file, out, lost>>

-----------------------------------------------------------------------------
Proceed == \/ Flush \/ Build \/ Open \/ Shutdown \/ Truncate \/ Install
           \/ Release \/ Delete

Next == \/ \E r \in Records : EndSpan(r)
        \/ \E e \in Exporters : TakeBatch(e) \/ Export(e)
        \/ \E n \in Timeouts : SetFlushTimeout(n)
        \/ Start \/ ShutdownProvider \/ Destroy \/ Proceed

Spec == Init /\ [][Next]_vars

(***************************************************************************)
(* Threads of the library and of the SDK that can run do run.  Writing to  *)
(* a file returns, and so does the export of an exporter that was shut     *)
(* down; the export of a remote exporter need not.                         *)
(***************************************************************************)
Fairness == /\ WF_vars(Proceed)
            /\ \A e \in Exporters :
                  /\ WF_vars(TakeBatch(e))
                  /\ WF_vars((e \in shut \/ FileOf[e] # None) /\ Export(e))

FairSpec == Spec /\ Fairness

-----------------------------------------------------------------------------
(* Properties *)

Steps == {"idle", "flush", "build", "open", "shutdown", "truncate", "release", "install",
          "delete", "gone"}

\* The state has the shape of tracer->impl, the SDK objects behind it and the files.
TypeOK ==
    /\ op \in {"none", "start", "shutdown", "destroy"}
    /\ pc \in Steps
    /\ at \in Exporters
    /\ flushTimeout \in Nat /\ spent \in Nat
    /\ made \in 0 .. MaxStarts
    /\ gen \in 0 .. made /\ tracked \in 0 .. made
    /\ queue \in [Exporters -> SUBSET Records]
    /\ batch \in [Exporters -> SUBSET Records]
    /\ closed \subseteq Exporters /\ shut \subseteq Exporters /\ unflushed \subseteq Exporters
    /\ file \in [Files -> SUBSET (Records \cup {Earlier})]
    /\ origin \in [Records -> 0 .. made]
    /\ out \in [Exporters -> SUBSET Records]
    /\ lost \in [Exporters -> SUBSET Records]

\* impl->exporters holds raw pointers (tracer.cpp:1352, 1457): the exporters listed are
\* always those of the provider installed, never of one that was released or failed.
TrackedExportersLive == tracked = gen

\* The records of the pipeline installed.
Own == {r \in Records : origin[r] = gen}

\* "so nothing of it lands in the emptied file" (README, ostream exporter): a file of the
\* pipeline installed holds records of that pipeline only, although the workers of the
\* previous one run on until its provider is released.
FilesHoldOwnRecords ==
    gen # 0 => \A e \in Exporters : FileOf[e] # None => file[FileOf[e]] \subseteq Own

\* "a start that fails before that last step leaves it untouched" (README, ostream
\* exporter): what the pipeline installed has written stays in its file until its
\* exporters are shut down for a replacement.
Replacing == op = "start" /\ pc \in {"truncate", "release", "install"}
WrittenStays ==
    gen # 0 /\ ~Replacing =>
        \A e \in Exporters : FileOf[e] # None => out[e] \cap Own \subseteq file[FileOf[e]]

\* A repeated start or a destroy drops records of an exporter only when the flush of its
\* processor did not complete (tracer.cpp:1183-1188): the early shutdown of the exporters
\* costs nothing that a completed flush has not already delivered.
LossNeedsTimeout == \A e \in Exporters : lost[e] \cap Own # {} => e \in unflushed

\* otel_tracer_destroy's comment (tracer.cpp:1396-1400): the provider is released only
\* with exporters that drained or were shut down, so the drain does not block.
DrainIsBounded ==
    pc = "release" /\ op \in {"start", "destroy"} =>
        \A e \in Exporters : Drained(e) \/ e \in shut

\* The flushes of all processors together stay within the timeout, rounded up to a
\* millisecond each (otel_tracer_flush_budget).
FlushWithinTimeout ==
    pc \notin {"idle", "gone"} => spent <= flushTimeout \/ spent <= N

\* A start returns, whether or not the exporters it replaces ever answer.
StartReturns == op = "start" ~> op # "start"

\* So does a destroy of a tracer.
DestroyReturns == op = "destroy" ~> pc = "gone"

-----------------------------------------------------------------------------
(* The inductive strengthening the proofs use *)

\* Which operation each step belongs to, and that only a start runs without a provider.
CallShape ==
    /\ (op = "none") <=> (pc \in {"idle", "gone"})
    /\ pc \in {"build", "open", "truncate", "install"} => op = "start"
    /\ pc \in {"flush", "shutdown"} => op \in {"start", "destroy"}
    /\ pc = "delete" => op = "destroy"
    /\ pc \in {"flush", "shutdown", "release"} => gen # 0

\* What is queued or being exported was recorded on the pipeline installed.
PendingOwn ==
    \A e \in Exporters : /\ queue[e] \cup batch[e] \subseteq Own
                         /\ gen = 0 => Drained(e)

\* The pipeline a start builds has recorded nothing.
StartFresh == op = "start" => gen < made /\ \A r \in Records : origin[r] < made

\* Only spans that ended were exported.
ExportedEnded == \A e \in Exporters : \A r \in out[e] \cup lost[e] : origin[r] # 0

\* The exporters to be replaced are shut down before the files are emptied ...
AllShut ==
    op = "start" /\ gen # 0 =>
        /\ pc = "shutdown" => \A e \in Exporters : e < at => e \in shut
        /\ pc \in {"truncate", "release", "install"} => shut = Exporters

\* ... and the files stay empty until the installation.
FilesEmptied ==
    op = "start" =>
        \A e \in Exporters :
            /\ FileOf[e] # None
            /\ (pc = "truncate" /\ e < at) \/ pc \in {"release", "install"}
            => file[FileOf[e]] = {}

\* The steps that leave nothing of the pipeline installed.
Ending == op \in {"start", "destroy"}
          /\ pc \in {"shutdown", "truncate", "release", "install", "delete"}

\* After its flush, only a processor the flush gave up on has spans left.
FlushedOrNoted ==
    op \in {"start", "destroy"} =>
        \A e \in Exporters : pc # "flush" \/ e < at => Drained(e) \/ e \in unflushed

\* Exporters are shut down with their processors, or early by a start or destroy.
ShutSettled ==
    \A e \in Exporters : /\ e \in closed => Drained(e)
                         /\ e \in shut => e \in closed \/ Ending
                         /\ lost[e] \cap Own # {} => Ending

PipelineInv ==
    /\ TypeOK /\ TrackedExportersLive /\ CallShape
    /\ PendingOwn /\ StartFresh /\ ExportedEnded
    /\ AllShut /\ FilesEmptied /\ FilesHoldOwnRecords /\ WrittenStays
    /\ FlushedOrNoted /\ ShutSettled /\ LossNeedsTimeout

\* No flush has taken more than the shares of the processors it has asked.
SharesAddUp == pc = "flush" => flushTimeout > 0 /\ spent <= (at - 1) * Share

\* With one exporter the elapsed time does tell whether its flush was completed.
BudgetInv == SharesAddUp /\ FlushWithinTimeout /\ (N = 1 => DrainIsBounded)
=============================================================================
