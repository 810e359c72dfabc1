------------------------ MODULE SignalPipeline_proofs ------------------------
(***************************************************************************)
(* Theorems about SignalPipeline, for any number of exporters and starts   *)
(* and any assignment of files to exporters.  PipelineInv is inductive:    *)
(* the exporters replaced are all shut down before a file is emptied, so   *)
(* the files stay empty until the new pipeline, which has recorded nothing *)
(* yet, is installed; and a processor that still holds spans when its      *)
(* exporter is shut down is one whose flush was given up.  BudgetInv adds  *)
(* the time a flush takes.                                                 *)
(***************************************************************************)
EXTENDS SignalPipeline, TLAPS

USE PipelineAssumption
    DEF vars, callVars, implVars, sdkVars, history, Steps, Goto, Return, Then, Begin, Each,
        Exporters

LEMMA InitInv == Init => PipelineInv
BY DEF Init, TypeOK, TrackedExportersLive, CallShape, PendingOwn, StartFresh, ExportedEnded,
   AllShut, FilesEmptied, FilesHoldOwnRecords, WrittenStays, FlushedOrNoted, ShutSettled,
   LossNeedsTimeout, Own, Drained, Replacing, Ending, PipelineInv

\* A processor gets a share of at least a millisecond.
LEMMA BudgetTyped ==
  ASSUME NEW timeout \in Nat, NEW count \in Nat
  PROVE  FlushBudget(timeout, count) \in Nat \ {0}
BY DEF FlushBudget

LEMMA ShareTyped == ASSUME TypeOK PROVE Share \in Nat \ {0}
BY BudgetTyped DEF TypeOK, Share, Count

-----------------------------------------------------------------------------
(* One lemma for each action: a step for each part of the invariant that it can disturb,
   and one for the parts whose variables it leaves alone. *)

LEMMA EndSpanStep == ASSUME PipelineInv, NEW r \in Records, EndSpan(r) PROVE PipelineInv'
<1> USE DEF PipelineInv, TypeOK, TrackedExportersLive, EndSpan
<1>a. Own' = Own \cup {r} /\ \A e \in Exporters : r \notin out[e] \cup lost[e]
  BY DEF Own, ExportedEnded
<1>1. TypeOK'
  OBVIOUS
<1>2. PendingOwn'
  BY DEF PendingOwn, Own, Drained
<1>3. StartFresh'
  BY DEF StartFresh, CallShape
<1>4. ExportedEnded'
  BY DEF ExportedEnded, PendingOwn, Own, Drained
<1>5. FilesHoldOwnRecords'
  BY DEF FilesHoldOwnRecords, PendingOwn, Own, Drained
<1>6. WrittenStays'
  BY <1>a DEF WrittenStays, Replacing
<1>7. FlushedOrNoted'
  BY DEF FlushedOrNoted, CallShape, PendingOwn, Drained
<1>8. ShutSettled'
  BY <1>a DEF ShutSettled, CallShape, Ending, Drained
<1>9. LossNeedsTimeout'
  BY <1>a DEF LossNeedsTimeout
<1>10. (TrackedExportersLive /\ CallShape /\ AllShut /\ FilesEmptied)'
  BY DEF CallShape, AllShut, FilesEmptied
<1> QED
  BY <1>1, <1>2, <1>3, <1>4, <1>5, <1>6, <1>7, <1>8, <1>9, <1>10

LEMMA TakeBatchStep == ASSUME PipelineInv, NEW x \in Exporters, TakeBatch(x) PROVE PipelineInv'
<1> USE DEF PipelineInv, TypeOK, TrackedExportersLive, TakeBatch
<1>a. PICK S \in (SUBSET queue[x]) \ {{}} : /\ batch' = [batch EXCEPT ![x] = S]
                                          /\ queue' = [queue EXCEPT ![x] = @ \ S]
  OBVIOUS
<1>b. ~Drained(x)
  <2> HIDE DEF PipelineInv, TakeBatch
  <2>1. S # {} /\ S \subseteq queue[x]
    BY <1>a
  <2> QED
    BY <2>1 DEF Drained
<1>c. \A e \in Exporters : e # x => (Drained(e)' <=> Drained(e))
  BY <1>a DEF Drained
<1>d. Own' = Own /\ Ending' = Ending
  BY DEF Own, Ending
<1>1. TypeOK'
  OBVIOUS
<1>2. PendingOwn'
  BY DEF PendingOwn, Own, Drained
<1>3. FlushedOrNoted'
  BY DEF FlushedOrNoted, CallShape, PendingOwn, Drained
<1>4. ShutSettled'
  BY <1>b, <1>c, <1>d, Zenon DEF ShutSettled
<1>5. (TrackedExportersLive /\ CallShape /\ StartFresh /\ ExportedEnded /\ AllShut /\
      FilesEmptied /\ FilesHoldOwnRecords /\ WrittenStays /\ LossNeedsTimeout)'
  BY DEF CallShape, StartFresh, ExportedEnded, AllShut, FilesEmptied,
         FilesHoldOwnRecords, WrittenStays, LossNeedsTimeout, Own, Replacing
<1> QED
  BY <1>1, <1>2, <1>3, <1>4, <1>5

LEMMA ExportStep == ASSUME PipelineInv, NEW x \in Exporters, Export(x) PROVE PipelineInv'
<1> USE DEF PipelineInv, TypeOK, TrackedExportersLive, Export
<1>a. Own' = Own
  BY DEF Own
<1>b. x \in shut => x \in unflushed
  BY DEF ShutSettled, FlushedOrNoted, Ending, Drained
<1>1. TypeOK'
  <2>1. batch[x] \in SUBSET Records /\ batch' \in [Exporters -> SUBSET Records]
    OBVIOUS
  <2>2. CASE x \in shut
    <3>1. lost' \in [Exporters -> SUBSET Records] /\ out' = out /\ file' = file
      BY <2>1, <2>2
    <3> QED
      BY <2>1, <3>1
  <2>3. CASE x \notin shut
    <3>1. out' \in [Exporters -> SUBSET Records] /\ lost' = lost
      BY <2>1, <2>3
    <3>2. file' = [f \in Files |-> IF f = FileOf[x] THEN file[f] \cup batch[x] ELSE file[f]]
      BY <2>3
    <3>3. file' \in [Files -> SUBSET (Records \cup {Earlier})]
      BY <2>1, <3>2
    <3> QED
      BY <2>1, <3>1, <3>3
  <2> QED
    BY <2>2, <2>3
<1>2. PendingOwn'
  BY DEF PendingOwn, Own, Drained
<1>3. ExportedEnded'
  BY DEF ExportedEnded, PendingOwn, Own, Drained
<1>4. FilesEmptied'
  BY DEF FilesEmptied, CallShape, AllShut, PendingOwn, Drained
<1>5. FilesHoldOwnRecords'
  BY SMTT(20) DEF FilesHoldOwnRecords, PendingOwn, Own, Drained
<1>6. WrittenStays'
  BY DEF WrittenStays, Replacing, PendingOwn, Own, Drained
<1>7. FlushedOrNoted'
  BY DEF FlushedOrNoted, CallShape, PendingOwn, Drained
<1>8. ShutSettled'
  BY DEF ShutSettled, CallShape, Ending, Own, Drained
<1>9. LossNeedsTimeout'
  BY <1>a, <1>b DEF LossNeedsTimeout
<1>10. (TrackedExportersLive /\ CallShape /\ StartFresh /\ AllShut)'
  BY DEF CallShape, StartFresh, AllShut
<1> QED
  BY <1>1, <1>2, <1>3, <1>4, <1>5, <1>6, <1>7, <1>8, <1>9, <1>10

LEMMA SetFlushTimeoutStep == ASSUME PipelineInv, NEW n \in Timeouts, SetFlushTimeout(n)
                            PROVE PipelineInv'
<1> USE DEF PipelineInv, TypeOK, TrackedExportersLive, SetFlushTimeout
<1>1. TypeOK'
  OBVIOUS
<1>2. (TrackedExportersLive /\ CallShape /\ PendingOwn /\ StartFresh /\ ExportedEnded /\
      AllShut /\ FilesEmptied /\ FilesHoldOwnRecords /\ WrittenStays /\ FlushedOrNoted /\
      ShutSettled /\ LossNeedsTimeout)'
  BY DEF CallShape, PendingOwn, StartFresh, ExportedEnded, AllShut, FilesEmptied,
         FilesHoldOwnRecords, WrittenStays, FlushedOrNoted, ShutSettled,
         LossNeedsTimeout, Own, Drained, Replacing, Ending
<1> QED
  BY <1>1, <1>2

LEMMA StartStep == ASSUME PipelineInv, Start PROVE PipelineInv'
<1> USE DEF PipelineInv, TypeOK, TrackedExportersLive, Start, NewTimeout
<1>1. TypeOK'
  <2>1. flushTimeout' \in Nat /\ made' \in 1 .. MaxStarts
    OBVIOUS
  <2>2. spent' \in Nat /\ at' \in Exporters
    OBVIOUS
  <2>5. unflushed' \subseteq Exporters
    OBVIOUS
  <2>3. op' \in {"none", "start", "shutdown", "destroy"} /\ pc' \in Steps
    OBVIOUS
  <2>4. gen' \in 0 .. made' /\ tracked' \in 0 .. made' /\ origin' \in [Records -> 0 .. made']
    OBVIOUS
  <2> QED
    BY <2>1, <2>2, <2>3, <2>4, <2>5
<1>2. CallShape'
  BY DEF CallShape
<1>3. StartFresh'
  BY DEF StartFresh, CallShape
<1>4. AllShut'
  BY DEF AllShut, CallShape
<1>5. FilesEmptied'
  BY DEF FilesEmptied, CallShape, AllShut, PendingOwn, Drained
<1>6. WrittenStays'
  BY DEF WrittenStays, Replacing, PendingOwn, Own, Drained
<1>7. FlushedOrNoted'
  BY DEF FlushedOrNoted, CallShape, PendingOwn, Drained
<1>8. ShutSettled'
  BY DEF ShutSettled, CallShape, Ending, Own, Drained
<1>9. LossNeedsTimeout'
  BY DEF LossNeedsTimeout, ShutSettled, Ending, Own
<1>10. (TrackedExportersLive /\ PendingOwn /\ ExportedEnded /\ FilesHoldOwnRecords)'
  BY DEF PendingOwn, ExportedEnded, FilesHoldOwnRecords, Own, Drained
<1> QED
  BY <1>1, <1>2, <1>3, <1>4, <1>5, <1>6, <1>7, <1>8, <1>9, <1>10

LEMMA ShutdownProviderStep == ASSUME PipelineInv, ShutdownProvider PROVE PipelineInv'
<1> USE DEF PipelineInv, TypeOK, TrackedExportersLive, ShutdownProvider
<1>1. TypeOK'
  OBVIOUS
<1>2. CallShape'
  BY DEF CallShape
<1>3. StartFresh'
  BY DEF StartFresh, CallShape
<1>4. AllShut'
  BY DEF AllShut, CallShape
<1>5. FilesEmptied'
  BY DEF FilesEmptied, CallShape, AllShut, PendingOwn, Drained
<1>6. WrittenStays'
  BY DEF WrittenStays, Replacing, PendingOwn, Own, Drained
<1>7. FlushedOrNoted'
  BY DEF FlushedOrNoted, CallShape, PendingOwn, Drained
<1>8. ShutSettled'
  BY DEF ShutSettled, CallShape, Ending, Own, Drained
<1>9. (TrackedExportersLive /\ PendingOwn /\ ExportedEnded /\ FilesHoldOwnRecords /\
      LossNeedsTimeout)'
  BY DEF PendingOwn, ExportedEnded, FilesHoldOwnRecords, LossNeedsTimeout, Own, Drained
<1> QED
  BY <1>1, <1>2, <1>3, <1>4, <1>5, <1>6, <1>7, <1>8, <1>9

LEMMA DestroyStep == ASSUME PipelineInv, Destroy PROVE PipelineInv'
<1> USE DEF PipelineInv, TypeOK, TrackedExportersLive, Destroy
<1>1. TypeOK'
  OBVIOUS
<1>2. CallShape'
  BY DEF CallShape
<1>3. StartFresh'
  BY DEF StartFresh, CallShape
<1>4. AllShut'
  BY DEF AllShut, CallShape
<1>5. FilesEmptied'
  BY DEF FilesEmptied, CallShape, AllShut, PendingOwn, Drained
<1>6. WrittenStays'
  BY DEF WrittenStays, Replacing, PendingOwn, Own, Drained
<1>7. FlushedOrNoted'
  BY DEF FlushedOrNoted, CallShape, PendingOwn, Drained
<1>8. ShutSettled'
  BY DEF ShutSettled, CallShape, Ending, Own, Drained
<1>9. LossNeedsTimeout'
  BY DEF LossNeedsTimeout, ShutSettled, Ending, Own
<1>10. (TrackedExportersLive /\ PendingOwn /\ ExportedEnded /\ FilesHoldOwnRecords)'
  BY DEF PendingOwn, ExportedEnded, FilesHoldOwnRecords, Own, Drained
<1> QED
  BY <1>1, <1>2, <1>3, <1>4, <1>5, <1>6, <1>7, <1>8, <1>9, <1>10

LEMMA FlushStep == ASSUME PipelineInv, Flush PROVE PipelineInv'
<1> USE DEF PipelineInv, TypeOK, TrackedExportersLive, Flush
<1>1. TypeOK'
  <2>1. Share \in Nat \ {0}
    BY ShareTyped
  <2>2. spent' \in Nat
    BY <2>1
  <2>3. unflushed' \subseteq Exporters
    OBVIOUS
  <2> QED
    BY <2>2, <2>3
<1>2. CallShape'
  BY DEF CallShape
<1>3. StartFresh'
  BY DEF StartFresh, CallShape
<1>4. AllShut'
  BY DEF AllShut, CallShape
<1>5. FilesEmptied'
  BY DEF FilesEmptied, CallShape, AllShut, PendingOwn, Drained
<1>6. WrittenStays'
  BY DEF WrittenStays, Replacing, PendingOwn, Own, Drained
<1>7. FlushedOrNoted'
  BY DEF FlushedOrNoted, CallShape, PendingOwn, Drained
<1>8. ShutSettled'
  BY DEF ShutSettled, CallShape, Ending, Own, Drained
<1>9. LossNeedsTimeout'
  BY DEF LossNeedsTimeout, ShutSettled, Own, Drained
<1>10. (TrackedExportersLive /\ PendingOwn /\ ExportedEnded /\ FilesHoldOwnRecords)'
  BY DEF PendingOwn, ExportedEnded, FilesHoldOwnRecords, Own, Drained
<1> QED
  BY <1>1, <1>2, <1>3, <1>4, <1>5, <1>6, <1>7, <1>8, <1>9, <1>10

LEMMA BuildStep == ASSUME PipelineInv, Build PROVE PipelineInv'
<1> USE DEF PipelineInv, TypeOK, TrackedExportersLive, Build
<1>1. TypeOK'
  OBVIOUS
<1>2. CallShape'
  BY DEF CallShape
<1>3. StartFresh'
  BY DEF StartFresh, CallShape
<1>4. AllShut'
  BY DEF AllShut, CallShape
<1>5. FilesEmptied'
  BY DEF FilesEmptied, CallShape, AllShut, PendingOwn, Drained
<1>6. WrittenStays'
  BY DEF WrittenStays, Replacing, PendingOwn, Own, Drained
<1>7. FlushedOrNoted'
  BY DEF FlushedOrNoted, CallShape, PendingOwn, Drained
<1>8. ShutSettled'
  BY DEF ShutSettled, CallShape, Ending, Own, Drained
<1>9. (TrackedExportersLive /\ PendingOwn /\ ExportedEnded /\ FilesHoldOwnRecords /\
      LossNeedsTimeout)'
  BY DEF PendingOwn, ExportedEnded, FilesHoldOwnRecords, LossNeedsTimeout, Own, Drained
<1> QED
  BY <1>1, <1>2, <1>3, <1>4, <1>5, <1>6, <1>7, <1>8, <1>9

LEMMA OpenStep == ASSUME PipelineInv, Open PROVE PipelineInv'
<1> USE DEF PipelineInv, TypeOK, TrackedExportersLive, Open, AfterOpen
<1>1. TypeOK'
  OBVIOUS
<1>2. CallShape'
  BY DEF CallShape
<1>3. StartFresh'
  BY DEF StartFresh, CallShape
<1>4. AllShut'
  BY DEF AllShut, CallShape
<1>5. FilesEmptied'
  BY DEF FilesEmptied, CallShape, AllShut, PendingOwn, Drained
<1>6. WrittenStays'
  BY DEF WrittenStays, Replacing, PendingOwn, Own, Drained
<1>7. FlushedOrNoted'
  BY DEF FlushedOrNoted, CallShape, PendingOwn, Drained
<1>8. ShutSettled'
  BY DEF ShutSettled, CallShape, Ending, Own, Drained
<1>9. (TrackedExportersLive /\ PendingOwn /\ ExportedEnded /\ FilesHoldOwnRecords /\
      LossNeedsTimeout)'
  BY DEF PendingOwn, ExportedEnded, FilesHoldOwnRecords, LossNeedsTimeout, Own, Drained
<1> QED
  BY <1>1, <1>2, <1>3, <1>4, <1>5, <1>6, <1>7, <1>8, <1>9

LEMMA ShutdownStep == ASSUME PipelineInv, Shutdown PROVE PipelineInv'
<1> USE DEF PipelineInv, TypeOK, TrackedExportersLive, Shutdown
<1>1. TypeOK'
  OBVIOUS
<1>2. CallShape'
  BY DEF CallShape
<1>3. StartFresh'
  BY DEF StartFresh, CallShape
<1>4. AllShut'
  <2>1. \A e \in Exporters : e < at => e \in shut \/ op # "start"
    BY DEF AllShut, CallShape
  <2>2. CASE at < N
    BY <2>1, <2>2 DEF AllShut
  <2>3. CASE at = N
    <3>0. \A e \in Exporters : e < at \/ e = at
      BY <2>3
    <3>1. op = "start" => shut' = Exporters
      BY <2>1, <3>0, Zenon
    <3> QED
      BY <2>3, <3>1 DEF AllShut
  <2> QED
    BY <2>2, <2>3
<1>5. FilesEmptied'
  BY DEF FilesEmptied, CallShape, AllShut, PendingOwn, Drained
<1>6. WrittenStays'
  BY DEF WrittenStays, Replacing, PendingOwn, Own, Drained
<1>7. FlushedOrNoted'
  BY DEF FlushedOrNoted, CallShape, PendingOwn, Drained
<1>8. ShutSettled'
  BY DEF ShutSettled, CallShape, Ending, Own, Drained
<1>9. (TrackedExportersLive /\ PendingOwn /\ ExportedEnded /\ FilesHoldOwnRecords /\
      LossNeedsTimeout)'
  BY DEF PendingOwn, ExportedEnded, FilesHoldOwnRecords, LossNeedsTimeout, Own, Drained
<1> QED
  BY <1>1, <1>2, <1>3, <1>4, <1>5, <1>6, <1>7, <1>8, <1>9

LEMMA TruncateStep == ASSUME PipelineInv, Truncate PROVE PipelineInv'
<1> USE DEF PipelineInv, TypeOK, TrackedExportersLive, Truncate
<1>1. TypeOK'
  OBVIOUS
<1>2. CallShape'
  BY DEF CallShape
<1>3. StartFresh'
  BY DEF StartFresh, CallShape
<1>4. AllShut'
  BY DEF AllShut, CallShape
<1>5. FilesEmptied'
  BY DEF FilesEmptied, CallShape, AllShut, PendingOwn, Drained
<1>6. FilesHoldOwnRecords'
  BY DEF FilesHoldOwnRecords, PendingOwn, Own, Drained
<1>7. WrittenStays'
  BY DEF WrittenStays, Replacing, CallShape
<1>8. FlushedOrNoted'
  BY DEF FlushedOrNoted, CallShape, PendingOwn, Drained
<1>9. ShutSettled'
  BY DEF ShutSettled, CallShape, Ending, Own, Drained
<1>10. (TrackedExportersLive /\ PendingOwn /\ ExportedEnded /\ LossNeedsTimeout)'
  BY DEF PendingOwn, ExportedEnded, LossNeedsTimeout, Own, Drained
<1> QED
  BY <1>1, <1>2, <1>3, <1>4, <1>5, <1>6, <1>7, <1>8, <1>9, <1>10

LEMMA InstallStep == ASSUME PipelineInv, Install PROVE PipelineInv'
<1> USE DEF PipelineInv, TypeOK, TrackedExportersLive, Install, NewPipeline
<1>a. \A e \in Exporters : (out[e] \cup lost[e]) \cap Own' = {}
  <2>1. op = "start" /\ gen' \in {0, made} /\ origin' = origin
    BY DEF CallShape
  <2>2. \A r \in Records : origin[r] < made
    BY <2>1 DEF StartFresh
  <2>3. \A r \in Records : origin[r] # made
    BY <2>2
  <2>4. \A r \in Records : origin[r] = gen' => origin[r] = 0
    BY <2>1, <2>3
  <2> QED
    BY <2>1, <2>4 DEF Own, ExportedEnded
<1>b. \A e \in Exporters : FileOf[e] # None => file[FileOf[e]] = {}
  BY DEF CallShape, FilesEmptied
<1>1. TypeOK'
  OBVIOUS
<1>2. TrackedExportersLive'
  OBVIOUS
<1>3. CallShape'
  BY DEF CallShape
<1>4. PendingOwn'
  BY DEF PendingOwn, Own, Drained
<1>5. StartFresh'
  BY DEF StartFresh, CallShape
<1>6. ExportedEnded'
  BY DEF ExportedEnded, PendingOwn, Own, Drained
<1>7. AllShut'
  BY DEF AllShut, CallShape
<1>8. FilesEmptied'
  BY DEF FilesEmptied, CallShape, AllShut, PendingOwn, Drained
<1>9. FilesHoldOwnRecords'
  BY <1>b DEF FilesHoldOwnRecords
<1>10. WrittenStays'
  BY <1>a DEF WrittenStays
<1>11. FlushedOrNoted'
  BY DEF FlushedOrNoted, CallShape, PendingOwn, Drained
<1>12. ShutSettled'
  BY <1>a DEF ShutSettled, Drained
<1>13. LossNeedsTimeout'
  BY <1>a DEF LossNeedsTimeout
<1> QED
  BY <1>1, <1>2, <1>3, <1>4, <1>5, <1>6, <1>7, <1>8, <1>9, <1>10, <1>11, <1>12, <1>13

LEMMA ReleaseStep == ASSUME PipelineInv, Release PROVE PipelineInv'
<1> USE DEF PipelineInv, TypeOK, TrackedExportersLive, Release
<1>1. TypeOK'
  <2>1. closed' \subseteq Exporters /\ shut' \subseteq Exporters
    OBVIOUS
  <2>2. pc' \in Steps /\ at' \in Exporters /\ op' \in {"none", "start", "shutdown", "destroy"}
    OBVIOUS
  <2> QED
    BY <2>1, <2>2
<1>2. CallShape'
  BY DEF CallShape
<1>3. StartFresh'
  BY DEF StartFresh, CallShape
<1>4. AllShut'
  BY DEF AllShut, CallShape
<1>5. FilesEmptied'
  BY DEF FilesEmptied, CallShape, AllShut, PendingOwn, Drained
<1>6. WrittenStays'
  BY DEF WrittenStays, Replacing, PendingOwn, Own, Drained
<1>7. FlushedOrNoted'
  BY DEF FlushedOrNoted, CallShape, PendingOwn, Drained
<1>8. ShutSettled'
  BY DEF ShutSettled, CallShape, Ending, Own, Drained
<1>9. (TrackedExportersLive /\ PendingOwn /\ ExportedEnded /\ FilesHoldOwnRecords /\
      LossNeedsTimeout)'
  BY DEF PendingOwn, ExportedEnded, FilesHoldOwnRecords, LossNeedsTimeout, Own, Drained
<1> QED
  BY <1>1, <1>2, <1>3, <1>4, <1>5, <1>6, <1>7, <1>8, <1>9

LEMMA DeleteStep == ASSUME PipelineInv, Delete PROVE PipelineInv'
<1> USE DEF PipelineInv, TypeOK, TrackedExportersLive, Delete, NewPipeline
<1>a. \A e \in Exporters : lost[e] \cap Own' = {}
  BY DEF Own, ExportedEnded
<1>1. TypeOK'
  OBVIOUS
<1>2. TrackedExportersLive'
  OBVIOUS
<1>3. CallShape'
  BY DEF CallShape
<1>4. PendingOwn'
  BY DEF PendingOwn, Own, Drained
<1>5. StartFresh'
  BY DEF StartFresh, CallShape
<1>6. ExportedEnded'
  BY DEF ExportedEnded, PendingOwn, Own, Drained
<1>7. AllShut'
  BY DEF AllShut, CallShape
<1>8. FilesEmptied'
  BY DEF FilesEmptied, CallShape, AllShut, PendingOwn, Drained
<1>9. FilesHoldOwnRecords'
  BY DEF FilesHoldOwnRecords, PendingOwn, Own, Drained
<1>10. WrittenStays'
  BY DEF WrittenStays, Replacing, PendingOwn, Own, Drained
<1>11. FlushedOrNoted'
  BY DEF FlushedOrNoted, CallShape, PendingOwn, Drained
<1>12. ShutSettled'
  BY <1>a DEF ShutSettled, Drained
<1>13. LossNeedsTimeout'
  BY <1>a DEF LossNeedsTimeout
<1> QED
  BY <1>1, <1>2, <1>3, <1>4, <1>5, <1>6, <1>7, <1>8, <1>9, <1>10, <1>11, <1>12, <1>13

LEMMA NextInv == ASSUME PipelineInv, [Next]_vars PROVE PipelineInv'
<1>1. CASE UNCHANGED vars
  BY <1>1 DEF PipelineInv, TypeOK, TrackedExportersLive, CallShape, PendingOwn, StartFresh,
              ExportedEnded, AllShut, FilesEmptied, FilesHoldOwnRecords, WrittenStays,
              FlushedOrNoted, ShutSettled, LossNeedsTimeout, Own, Drained, Replacing, Ending
<1>2. CASE Next
  BY <1>2, EndSpanStep, TakeBatchStep, ExportStep, SetFlushTimeoutStep, StartStep,
     ShutdownProviderStep, DestroyStep, FlushStep, BuildStep, OpenStep, ShutdownStep,
     TruncateStep, InstallStep, ReleaseStep, DeleteStep DEF Next, Proceed
<1> QED
  BY <1>1, <1>2

\* The invariant holds in every run, whatever the configuration and however many starts.
THEOREM PipelineInvariant == Spec => []PipelineInv
<1>1. Init => PipelineInv
  BY InitInv
<1>2. PipelineInv /\ [Next]_vars => PipelineInv'
  BY NextInv
<1> QED
  BY <1>1, <1>2, PTL DEF Spec

\* The raw pointers of impl->exporters never outlive the provider that owns the exporters.
THEOREM ExportersStayLive == Spec => []TrackedExportersLive
<1>1. PipelineInv => TrackedExportersLive
  BY DEF PipelineInv
<1> QED
  BY <1>1, PipelineInvariant, PTL

\* Nothing of a previous pipeline is ever in a file of the pipeline installed.
THEOREM FilesHoldOwn == Spec => []FilesHoldOwnRecords
<1>1. PipelineInv => FilesHoldOwnRecords
  BY DEF PipelineInv
<1> QED
  BY <1>1, PipelineInvariant, PTL

\* What the pipeline installed has written stays in its files until it is replaced.
THEOREM WrittenRecordsStay == Spec => []WrittenStays
<1>1. PipelineInv => WrittenStays
  BY DEF PipelineInv
<1> QED
  BY <1>1, PipelineInvariant, PTL

\* Records are dropped only by an exporter whose flush did not complete.
THEOREM LossOnlyOnTimeout == Spec => []LossNeedsTimeout
<1>1. PipelineInv => LossNeedsTimeout
  BY DEF PipelineInv
<1> QED
  BY <1>1, PipelineInvariant, PTL

-----------------------------------------------------------------------------
\* Shares of more than the floor add up to no more than the timeout.
LEMMA SharesFit ==
  ASSUME NEW timeout \in Nat, NEW count \in Nat \ {0}
  PROVE  \/ count * FlushBudget(timeout, count) <= timeout
         \/ FlushBudget(timeout, count) = 1
<1>1. count * (timeout \div count) <= timeout
  OBVIOUS
<1> QED
  BY <1>1 DEF FlushBudget

LEMMA BudgetInit == Init => BudgetInv
BY DEF Init, BudgetInv, SharesAddUp, FlushWithinTimeout, DrainIsBounded

\* While an operation is in progress only its own flush takes time.
LEMMA BudgetStep == ASSUME PipelineInv, BudgetInv, [Next]_vars PROVE BudgetInv'
<1> USE DEF PipelineInv, TypeOK, TrackedExportersLive, CallShape
<1>1. CASE Flush
  <2>1. Count = N /\ Share = FlushBudget(flushTimeout, N) /\ Share' = Share
    BY <1>1 DEF Flush, Count, Share
  <2>2. Share \in Nat \ {0}
    BY ShareTyped
  <2>3. spent <= (at - 1) * Share /\ flushTimeout > 0
    BY <1>1 DEF Flush, BudgetInv, SharesAddUp
  <2>4. spent' \in Nat /\ spent' <= spent + Share
    BY <1>1, <2>2 DEF Flush
  <2>5. spent' <= at * Share
    BY <2>2, <2>3, <2>4
  <2>6. at * Share <= N * Share
    BY <2>2
  <2>7. SharesAddUp'
    BY <1>1, <2>1, <2>2, <2>3, <2>5 DEF Flush, SharesAddUp
  <2>8. FlushWithinTimeout'
    BY <1>1, <2>1, <2>2, <2>4, <2>5, <2>6, SharesFit, SMTT(20) DEF Flush, FlushWithinTimeout
  <2>9. (N = 1 => DrainIsBounded)'
    <3>1. CASE N = 1
      <4>1. Share = flushTimeout /\ spent = 0 /\ at = 1
        BY <2>1, <2>3, <3>1 DEF FlushBudget
      <4>2. CASE Drained(1)
        BY <1>1, <3>1, <4>1, <4>2 DEF Flush, DrainIsBounded, Drained
      <4>3. CASE ~Drained(1)
        <5>1. pc' # "release"
          BY <1>1, <3>1, <4>1, <4>3 DEF Flush, FlagFlushed
        <5> QED
          BY <5>1 DEF DrainIsBounded
      <4> QED
        BY <4>2, <4>3
    <3> QED
      BY <3>1
  <2> QED
    BY <2>7, <2>8, <2>9 DEF BudgetInv
<1>2. CASE UNCHANGED vars
  BY <1>2 DEF BudgetInv, SharesAddUp, Share, Count, FlushWithinTimeout, DrainIsBounded, Drained
<1>3. CASE Start \/ Destroy \/ ShutdownProvider
  <2>0. flushTimeout' \in Nat
    BY <1>3, NextInv
  <2>1. SharesAddUp'
    <3>1. Share' \in Nat
      BY <2>0, BudgetTyped DEF Share, Count
    <3>2. pc' = "flush" => flushTimeout' > 0 /\ at' = 1 /\ spent' = 0
      BY <1>3 DEF Start, Destroy, ShutdownProvider
    <3>3. ASSUME pc' = "flush" PROVE spent' <= (at' - 1) * Share'
      <4>1. spent' = 0 /\ at' - 1 = 0
        BY <3>2, <3>3
      <4>2. \A y \in Nat : 0 <= 0 * y
        OBVIOUS
      <4>3. 0 <= 0 * Share'
        BY <3>1, <4>2, Zenon
      <4> QED
        BY <4>1, <4>3
    <3> QED
      BY <3>2, <3>3 DEF SharesAddUp
  <2>2. FlushWithinTimeout'
    BY <1>3 DEF Start, Destroy, ShutdownProvider, FlushWithinTimeout
  <2>3. DrainIsBounded'
    BY <1>3 DEF Start, Destroy, ShutdownProvider, DrainIsBounded
  <2> QED
    BY <2>1, <2>2, <2>3 DEF BudgetInv
<1>4. CASE \/ \E r \in Records : EndSpan(r)
           \/ \E n \in Timeouts : SetFlushTimeout(n)
  BY <1>4 DEF EndSpan, SetFlushTimeout, BudgetInv, SharesAddUp, FlushWithinTimeout,
              DrainIsBounded
<1>5. CASE \E e \in Exporters : TakeBatch(e) \/ Export(e)
  BY <1>5 DEF TakeBatch, Export, BudgetInv, SharesAddUp, Share, Count, FlushWithinTimeout,
              DrainIsBounded, Drained
<1>6. CASE Build \/ Open \/ Truncate \/ Install \/ Delete
  BY <1>6 DEF Build, Open, AfterOpen, Truncate, Install, Delete, NewPipeline, AllShut,
     BudgetInv,
              SharesAddUp, FlushWithinTimeout, DrainIsBounded
<1>7. CASE Shutdown
  BY <1>7 DEF Shutdown, BudgetInv, SharesAddUp, FlushWithinTimeout, DrainIsBounded, Drained
<1>8. CASE Release
  BY <1>8 DEF Release, BudgetInv, SharesAddUp, FlushWithinTimeout, DrainIsBounded, Drained
<1> QED
  BY <1>1, <1>2, <1>3, <1>4, <1>5, <1>6, <1>7, <1>8 DEF Next, Proceed

\* The time of a flush is the sum of the shares, in every run.
THEOREM BudgetInvariant == Spec => []BudgetInv
<1>1. Init => BudgetInv
  BY BudgetInit
<1>2. PipelineInv /\ BudgetInv /\ [Next]_vars => BudgetInv'
  BY BudgetStep
<1> QED
  BY <1>1, <1>2, PipelineInvariant, PTL DEF Spec

\* The flush of a provider takes the flush timeout, or a millisecond a processor.
THEOREM FlushStaysWithinTimeout == Spec => []FlushWithinTimeout
<1>1. BudgetInv => FlushWithinTimeout
  BY DEF BudgetInv
<1> QED
  BY <1>1, BudgetInvariant, PTL

\* With a single exporter, a destroy never waits for an exporter that is still running.
THEOREM SingleDrainIsBounded == ASSUME N = 1 PROVE Spec => []DrainIsBounded
<1>1. BudgetInv => DrainIsBounded
  BY DEF BudgetInv
<1> QED
  BY <1>1, BudgetInvariant, PTL
=============================================================================
