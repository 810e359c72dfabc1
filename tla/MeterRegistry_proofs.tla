------------------------ MODULE MeterRegistry_proofs ------------------------
(***************************************************************************)
(* Theorems about MeterRegistry, for any number of threads, any requests,  *)
(* views and callbacks, and any folding of names.  MeterInv is inductive:  *)
(* the index leads to the instruments and the map holds these and at most  *)
(* the one being inserted, because only the call that has the instrument   *)
(* lock can be between the two insertions; what a provider knows about a   *)
(* view is what the map records, because no view is recorded while a start *)
(* registers them.  From it: the index matches the map whenever the lock   *)
(* is free, a key has one identifier, a callback is called only while it   *)
(* is registered, the provider knows its views, and both maps implement    *)
(* IdRegistry.                                                             *)
(***************************************************************************)
EXTENDS MeterRegistry, FiniteSetTheorems, TLAPS

USE DEF vars, meterVars, lockVars, readerVars, histVars, At, Enter, Goto, Return, Idle, Maps,
        Reader, Unlocked, Free, Lock, Unlock, MayCall, Answer,
        CreatePoints, ViewPoints, UsePoints, StartPoints

-----------------------------------------------------------------------------
(* What the helpers do *)

\* otelc_meter_add_callback and _remove_callback change the callbacks of one instrument
\* and nothing else of it.
LEMMA CallbackEffect ==
  ASSUME TypeOK, NEW i \in DOMAIN instrument, NEW d \in Descriptors,
         AddCallback(i, d) \/ RemoveCallback(i, d)
  PROVE  /\ DOMAIN instrument' = DOMAIN instrument
         /\ \A j \in DOMAIN instrument :
              /\ instrument'[j] \in [key : Keys, pipe : Nat, cbs : SUBSET Descriptors]
              /\ instrument'[j].key = instrument[j].key /\ instrument'[j].pipe = instrument[j].pipe
              /\ j # i => instrument'[j].cbs = instrument[j].cbs
<1>1. ASSUME NEW S \in SUBSET Descriptors, instrument' = [instrument EXCEPT ![i].cbs = S]
      PROVE  /\ DOMAIN instrument' = DOMAIN instrument
             /\ \A j \in DOMAIN instrument :
                  /\ instrument'[j] \in [key : Keys, pipe : Nat, cbs : SUBSET Descriptors]
                  /\ instrument'[j].key = instrument[j].key /\ instrument'[j].pipe = instrument[j].pipe
                  /\ j # i => instrument'[j].cbs = instrument[j].cbs
  BY <1>1 DEF TypeOK
<1>2. instrument[i].cbs \cup {d} \in SUBSET Descriptors /\ instrument[i].cbs \ {d} \in SUBSET Descriptors
  BY DEF TypeOK
<1> QED
  BY <1>1, <1>2 DEF AddCallback, RemoveCallback

\* View names are unique, so a view is recorded at most once.
LEMMA RecordedOnce == ASSUME ViewsKnown, NEW v
                      PROVE  Cardinality({i \in DOMAIN view : view[i] = v}) = Recorded(v)
<1> DEFINE S == {i \in DOMAIN view : view[i] = v}
<1>1. CASE S = {}
  <2>1. ~\E i \in DOMAIN view : view[i] = v
    BY <1>1
  <2> QED
    BY <1>1, <2>1, FS_EmptySet DEF Recorded
<1>2. ASSUME NEW i \in S PROVE Cardinality(S) = Recorded(v)
  <2>1. S = {i}
    BY <1>2 DEF ViewsKnown
  <2>2. Cardinality({i}) = 1
    BY FS_Singleton
  <2>3. \E j \in DOMAIN view : view[j] = v
    BY <1>2
  <2> QED
    BY <2>1, <2>2, <2>3 DEF Recorded
<1> QED
  BY <1>1, <1>2

\* A start registers each recorded view with the new provider exactly once.
LEMMA RegisterRecordedOnce == ASSUME ViewsKnown
                              PROVE  /\ RegisterRecorded \in [Views -> Nat]
                                     /\ \A v \in Views : RegisterRecorded[v] = Recorded(v)
<1>1. \A v \in Views : Cardinality({i \in DOMAIN view : view[i] = v}) = Recorded(v)
  BY RecordedOnce
<1>2. \A v : Recorded(v) \in Nat
  BY DEF Recorded
<1> QED
  BY <1>1, <1>2 DEF RegisterRecorded

-----------------------------------------------------------------------------
(* Each part of the invariant is preserved: one step for each action *)

\* A call keeps the arguments that its later steps read.
LEMMA ShapeStep == ASSUME MeterAssumption, MeterInv, [Next]_vars PROVE CallShape'
<1> USE DEF MeterInv, CallShape, TypeOK
<1>1. ASSUME NEW th \in Threads, NEW r \in Requests, GetInstrument(th, r) PROVE CallShape'
  BY <1>1 DEF GetInstrument
<1>2. ASSUME NEW th \in Threads, NEW r \in Requests, NEW d \in Descriptors \cup {None},
             Create(th, r, d)
      PROVE CallShape'
  BY <1>2 DEF Create
<1>3. ASSUME NEW th \in Threads, NEW i \in DOMAIN instrument, UseInstrument(th, i, None, "update")
      PROVE CallShape'
  BY <1>3 DEF UseInstrument
<1>4. ASSUME NEW th \in Threads, NEW i \in DOMAIN instrument, NEW d \in Descriptors,
             UseInstrument(th, i, d, "add") \/ UseInstrument(th, i, d, "remove")
      PROVE CallShape'
  BY <1>4 DEF UseInstrument
<1>5. ASSUME NEW th \in Threads, NEW v \in Views, AddView(th, v) PROVE CallShape'
  BY <1>5 DEF AddView
<1>6. ASSUME NEW th \in Threads, Start(th) PROVE CallShape'
  BY <1>6 DEF Start
<1>7. ASSUME NEW th \in Threads, Destroy(th) PROVE CallShape'
  BY <1>7 DEF Destroy
<1>8. ASSUME NEW th \in Threads, NEW on \in BOOLEAN, SetEnabled(th, on) PROVE CallShape'
  BY <1>8 DEF SetEnabled
<1>9. ASSUME NEW th \in Threads, Probe(th) PROVE CallShape'
  BY <1>9 DEF Probe
<1>10. ASSUME NEW th \in Threads, LockCreate(th) PROVE CallShape'
  BY <1>10 DEF LockCreate
<1>11. ASSUME NEW th \in Threads, Recheck(th) PROVE CallShape'
  BY <1>11 DEF Recheck
<1>12. ASSUME NEW th \in Threads, EmplaceInstrument(th) PROVE CallShape'
  BY <1>12 DEF EmplaceInstrument
<1>13. ASSUME NEW th \in Threads, FirstCallback(th) PROVE CallShape'
  BY <1>13 DEF FirstCallback
<1>14. ASSUME NEW th \in Threads, IndexInstrument(th) PROVE CallShape'
  BY <1>14 DEF IndexInstrument
<1>15. ASSUME NEW th \in Threads, IndexThrows(th) PROVE CallShape'
  BY <1>15 DEF IndexThrows
<1>16. ASSUME NEW th \in Threads, DoAddCallback(th) PROVE CallShape'
  BY <1>16 DEF DoAddCallback
<1>17. ASSUME NEW th \in Threads, DoRemoveCallback(th) PROVE CallShape'
  BY <1>17 DEF DoRemoveCallback
<1>18. ASSUME NEW th \in Threads, DoUpdate(th) PROVE CallShape'
  BY <1>18 DEF DoUpdate
<1>19. ASSUME NEW th \in Threads, RecheckView(th) PROVE CallShape'
  BY <1>19 DEF RecheckView
<1>20. ASSUME NEW th \in Threads, InsertView(th) PROVE CallShape'
  BY <1>20 DEF InsertView
<1>21. ASSUME NEW th \in Threads, Build(th) PROVE CallShape'
  BY <1>21, RegisterRecordedOnce DEF Build
<1>22. ASSUME NEW th \in Threads, Install(th) PROVE CallShape'
  BY <1>22 DEF Install
<1>23. ASSUME CollectBegin PROVE CallShape'
  BY <1>23 DEF CollectBegin
<1>24. ASSUME CallbackBegin PROVE CallShape'
  BY <1>24 DEF CallbackBegin
<1>25. ASSUME CallbackEnd PROVE CallShape'
  BY <1>25 DEF CallbackEnd
<1>26. ASSUME CollectEnd PROVE CallShape'
  BY <1>26 DEF CollectEnd
<1>27. ASSUME UNCHANGED vars PROVE CallShape'
  BY <1>27
<1> QED
  BY <1>1, <1>2, <1>3, <1>4, <1>5, <1>6, <1>7, <1>8, <1>9, <1>10, <1>11, <1>12, <1>13, <1>14,
     <1>15, <1>16, <1>17, <1>18, <1>19, <1>20, <1>21, <1>22, <1>23, <1>24, <1>25, <1>26, <1>27
  DEF Next, Collect, Invoke, Continue

\* Every step preserves the types.
LEMMA TypeStep == ASSUME MeterAssumption, MeterInv, [Next]_vars PROVE TypeOK'
<1> USE DEF MeterAssumption, MeterInv, TypeOK, CallShape, Keys
<1>1. ASSUME NEW th \in Threads, NEW r \in Requests, GetInstrument(th, r) PROVE TypeOK'
  BY <1>1 DEF GetInstrument
<1>2. ASSUME NEW th \in Threads, NEW r \in Requests, NEW d \in Descriptors \cup {None},
             Create(th, r, d)
      PROVE TypeOK'
  BY <1>2 DEF Create
<1>3. ASSUME NEW th \in Threads, NEW i \in DOMAIN instrument, UseInstrument(th, i, None, "update")
      PROVE TypeOK'
  BY <1>3 DEF UseInstrument
<1>4. ASSUME NEW th \in Threads, NEW i \in DOMAIN instrument, NEW d \in Descriptors,
             UseInstrument(th, i, d, "add") \/ UseInstrument(th, i, d, "remove")
      PROVE TypeOK'
  BY <1>4 DEF UseInstrument
<1>5. ASSUME NEW th \in Threads, NEW v \in Views, AddView(th, v) PROVE TypeOK'
  BY <1>5 DEF AddView
<1>6. ASSUME NEW th \in Threads, Start(th) PROVE TypeOK'
  BY <1>6 DEF Start
<1>7. ASSUME NEW th \in Threads, Destroy(th) PROVE TypeOK'
  <2>1. DOMAIN instrument' = {} /\ DOMAIN index' = {} /\ DOMAIN view' = {}
    BY <1>7 DEF Destroy, Empty
  <2>2. installed' = 0 /\ installed' \in 0..built'
    BY <1>7 DEF Destroy
  <2> QED
    BY <1>7, <2>1, <2>2 DEF Destroy
<1>8. ASSUME NEW th \in Threads, NEW on \in BOOLEAN, SetEnabled(th, on) PROVE TypeOK'
  BY <1>8 DEF SetEnabled
<1>9. ASSUME NEW th \in Threads, Probe(th) PROVE TypeOK'
  BY <1>9 DEF Probe
<1>10. ASSUME NEW th \in Threads, LockCreate(th) PROVE TypeOK'
  BY <1>10 DEF LockCreate
<1>11. ASSUME NEW th \in Threads, Recheck(th) PROVE TypeOK'
  BY <1>11 DEF Recheck
<1>12. ASSUME NEW th \in Threads, EmplaceInstrument(th) PROVE TypeOK'
  BY <1>12 DEF EmplaceInstrument, Insert, InstrumentKey
<1>13. ASSUME NEW th \in Threads, FirstCallback(th) PROVE TypeOK'
  BY <1>13 DEF FirstCallback, AddCallback
<1>14. ASSUME NEW th \in Threads, IndexInstrument(th) PROVE TypeOK'
  BY <1>14 DEF IndexInstrument, Insert, InstrumentKey
<1>15. ASSUME NEW th \in Threads, IndexThrows(th) PROVE TypeOK'
  BY <1>15 DEF IndexThrows, Remove
<1>16. ASSUME NEW th \in Threads, DoAddCallback(th) PROVE TypeOK'
  <2>1. CASE UNCHANGED instrument
    BY <1>16, <2>1 DEF DoAddCallback
  <2>2. CASE AddCallback(call[th].i, call[th].d)
    <3>1. call[th].i \in DOMAIN instrument /\ call[th].d \in Descriptors
      BY <1>16 DEF DoAddCallback, HandleStaysWhileUsed
    <3>2. /\ DOMAIN instrument' = DOMAIN instrument
          /\ \A j \in DOMAIN instrument : instrument'[j] \in [key : Keys, pipe : Nat, cbs : SUBSET Descriptors]
      <4> HIDE DEF MeterInv, TypeOK, Keys
      <4> QED
        BY <2>2, <3>1, CallbackEffect DEF MeterInv
    <3> QED
      BY <1>16, <3>2 DEF DoAddCallback
  <2> QED
    BY <1>16, <2>1, <2>2 DEF DoAddCallback
<1>17. ASSUME NEW th \in Threads, DoRemoveCallback(th) PROVE TypeOK'
  <2>1. CASE UNCHANGED instrument
    BY <1>17, <2>1 DEF DoRemoveCallback
  <2>2. CASE RemoveCallback(call[th].i, call[th].d)
    <3>1. call[th].i \in DOMAIN instrument /\ call[th].d \in Descriptors
      BY <1>17 DEF DoRemoveCallback, HandleStaysWhileUsed
    <3>2. /\ DOMAIN instrument' = DOMAIN instrument
          /\ \A j \in DOMAIN instrument : instrument'[j] \in [key : Keys, pipe : Nat, cbs : SUBSET Descriptors]
      <4> HIDE DEF MeterInv, TypeOK, Keys
      <4> QED
        BY <2>2, <3>1, CallbackEffect DEF MeterInv
    <3> QED
      BY <1>17, <3>2 DEF DoRemoveCallback
  <2> QED
    BY <1>17, <2>1, <2>2 DEF DoRemoveCallback
<1>18. ASSUME NEW th \in Threads, DoUpdate(th) PROVE TypeOK'
  BY <1>18 DEF DoUpdate
<1>19. ASSUME NEW th \in Threads, RecheckView(th) PROVE TypeOK'
  BY <1>19 DEF RecheckView
<1>20. ASSUME NEW th \in Threads, InsertView(th) PROVE TypeOK'
  BY <1>20 DEF InsertView, Insert, ViewRegister
<1>21. ASSUME NEW th \in Threads, Build(th) PROVE TypeOK'
  BY <1>21 DEF Build, StartsAlone
<1>22. ASSUME NEW th \in Threads, Install(th) PROVE TypeOK'
  BY <1>22 DEF Install
<1>23. ASSUME CollectBegin PROVE TypeOK'
  BY <1>23 DEF CollectBegin
<1>24. ASSUME CallbackBegin PROVE TypeOK'
  BY <1>24 DEF CallbackBegin
<1>25. ASSUME CallbackEnd PROVE TypeOK'
  BY <1>25 DEF CallbackEnd
<1>26. ASSUME CollectEnd PROVE TypeOK'
  BY <1>26 DEF CollectEnd
<1>27. ASSUME UNCHANGED vars PROVE TypeOK'
  BY <1>27
<1> QED
  BY <1>1, <1>2, <1>3, <1>4, <1>5, <1>6, <1>7, <1>8, <1>9, <1>10, <1>11, <1>12, <1>13, <1>14,
     <1>15, <1>16, <1>17, <1>18, <1>19, <1>20, <1>21, <1>22, <1>23, <1>24, <1>25, <1>26, <1>27
  DEF Next, Collect, Invoke, Continue

\* Every step leaves each lock with the calls that are between taking and releasing it.
LEMMA LocksStep == ASSUME MeterAssumption, MeterInv, [Next]_vars PROVE LocksMatchCalls'
<1> USE DEF MeterAssumption, MeterInv, TypeOK, CallShape, LocksMatchCalls
<1>1. ASSUME NEW th \in Threads, NEW r \in Requests, GetInstrument(th, r) PROVE LocksMatchCalls'
  BY <1>1 DEF GetInstrument
<1>2. ASSUME NEW th \in Threads, NEW r \in Requests, NEW d \in Descriptors \cup {None},
             Create(th, r, d)
      PROVE LocksMatchCalls'
  BY <1>2 DEF Create
<1>3. ASSUME NEW th \in Threads, NEW i \in DOMAIN instrument, UseInstrument(th, i, None, "update")
      PROVE LocksMatchCalls'
  BY <1>3 DEF UseInstrument
<1>4. ASSUME NEW th \in Threads, NEW i \in DOMAIN instrument, NEW d \in Descriptors,
             UseInstrument(th, i, d, "add") \/ UseInstrument(th, i, d, "remove")
      PROVE LocksMatchCalls'
  BY <1>4 DEF UseInstrument
<1>5. ASSUME NEW th \in Threads, NEW v \in Views, AddView(th, v) PROVE LocksMatchCalls'
  BY <1>5 DEF AddView
<1>6. ASSUME NEW th \in Threads, Start(th) PROVE LocksMatchCalls'
  BY <1>6 DEF Start
<1>7. ASSUME NEW th \in Threads, Destroy(th) PROVE LocksMatchCalls'
  BY <1>7 DEF Destroy
<1>8. ASSUME NEW th \in Threads, NEW on \in BOOLEAN, SetEnabled(th, on) PROVE LocksMatchCalls'
  BY <1>8 DEF SetEnabled
<1>9. ASSUME NEW th \in Threads, Probe(th) PROVE LocksMatchCalls'
  BY <1>9 DEF Probe
<1>10. ASSUME NEW th \in Threads, LockCreate(th) PROVE LocksMatchCalls'
  BY <1>10 DEF LockCreate
<1>11. ASSUME NEW th \in Threads, Recheck(th) PROVE LocksMatchCalls'
  BY <1>11 DEF Recheck
<1>12. ASSUME NEW th \in Threads, EmplaceInstrument(th) PROVE LocksMatchCalls'
  BY <1>12 DEF EmplaceInstrument
<1>13. ASSUME NEW th \in Threads, FirstCallback(th) PROVE LocksMatchCalls'
  BY <1>13 DEF FirstCallback
<1>14. ASSUME NEW th \in Threads, IndexInstrument(th) PROVE LocksMatchCalls'
  BY <1>14 DEF IndexInstrument
<1>15. ASSUME NEW th \in Threads, IndexThrows(th) PROVE LocksMatchCalls'
  BY <1>15 DEF IndexThrows
<1>16. ASSUME NEW th \in Threads, DoAddCallback(th) PROVE LocksMatchCalls'
  BY <1>16 DEF DoAddCallback
<1>17. ASSUME NEW th \in Threads, DoRemoveCallback(th) PROVE LocksMatchCalls'
  BY <1>17 DEF DoRemoveCallback
<1>18. ASSUME NEW th \in Threads, DoUpdate(th) PROVE LocksMatchCalls'
  BY <1>18 DEF DoUpdate
<1>19. ASSUME NEW th \in Threads, RecheckView(th) PROVE LocksMatchCalls'
  BY <1>19 DEF RecheckView
<1>20. ASSUME NEW th \in Threads, InsertView(th) PROVE LocksMatchCalls'
  BY <1>20 DEF InsertView
<1>21. ASSUME NEW th \in Threads, Build(th) PROVE LocksMatchCalls'
  BY <1>21 DEF Build
<1>22. ASSUME NEW th \in Threads, Install(th) PROVE LocksMatchCalls'
  BY <1>22 DEF Install
<1>23. ASSUME CollectBegin PROVE LocksMatchCalls'
  BY <1>23 DEF CollectBegin
<1>24. ASSUME CallbackBegin PROVE LocksMatchCalls'
  BY <1>24 DEF CallbackBegin
<1>25. ASSUME CallbackEnd PROVE LocksMatchCalls'
  BY <1>25 DEF CallbackEnd
<1>26. ASSUME CollectEnd PROVE LocksMatchCalls'
  BY <1>26 DEF CollectEnd
<1>27. ASSUME UNCHANGED vars PROVE LocksMatchCalls'
  BY <1>27
<1> QED
  BY <1>1, <1>2, <1>3, <1>4, <1>5, <1>6, <1>7, <1>8, <1>9, <1>10, <1>11, <1>12, <1>13, <1>14,
     <1>15, <1>16, <1>17, <1>18, <1>19, <1>20, <1>21, <1>22, <1>23, <1>24, <1>25, <1>26, <1>27
  DEF Next, Collect, Invoke, Continue

\* No step begins a call while a start runs, or on a meter that was destroyed.
LEMMA StartsStep == ASSUME MeterAssumption, MeterInv, [Next]_vars PROVE StartsAlone'
<1> USE DEF MeterAssumption, MeterInv, TypeOK, CallShape, LocksMatchCalls, StartsAlone, Drained
<1>1. ASSUME NEW th \in Threads, NEW r \in Requests, GetInstrument(th, r) PROVE StartsAlone'
  BY <1>1 DEF GetInstrument
<1>2. ASSUME NEW th \in Threads, NEW r \in Requests, NEW d \in Descriptors \cup {None},
             Create(th, r, d)
      PROVE StartsAlone'
  BY <1>2 DEF Create
<1>3. ASSUME NEW th \in Threads, NEW i \in DOMAIN instrument, UseInstrument(th, i, None, "update")
      PROVE StartsAlone'
  BY <1>3 DEF UseInstrument
<1>4. ASSUME NEW th \in Threads, NEW i \in DOMAIN instrument, NEW d \in Descriptors,
             UseInstrument(th, i, d, "add") \/ UseInstrument(th, i, d, "remove")
      PROVE StartsAlone'
  BY <1>4 DEF UseInstrument
<1>5. ASSUME NEW th \in Threads, NEW v \in Views, AddView(th, v) PROVE StartsAlone'
  BY <1>5 DEF AddView
<1>6. ASSUME NEW th \in Threads, Start(th) PROVE StartsAlone'
  BY <1>6 DEF Start
<1>7. ASSUME NEW th \in Threads, Destroy(th) PROVE StartsAlone'
  BY <1>7 DEF Destroy
<1>8. ASSUME NEW th \in Threads, NEW on \in BOOLEAN, SetEnabled(th, on) PROVE StartsAlone'
  BY <1>8 DEF SetEnabled
<1>9. ASSUME NEW th \in Threads, Probe(th) PROVE StartsAlone'
  BY <1>9 DEF Probe
<1>10. ASSUME NEW th \in Threads, LockCreate(th) PROVE StartsAlone'
  BY <1>10 DEF LockCreate
<1>11. ASSUME NEW th \in Threads, Recheck(th) PROVE StartsAlone'
  BY <1>11 DEF Recheck
<1>12. ASSUME NEW th \in Threads, EmplaceInstrument(th) PROVE StartsAlone'
  BY <1>12 DEF EmplaceInstrument
<1>13. ASSUME NEW th \in Threads, FirstCallback(th) PROVE StartsAlone'
  BY <1>13 DEF FirstCallback
<1>14. ASSUME NEW th \in Threads, IndexInstrument(th) PROVE StartsAlone'
  BY <1>14 DEF IndexInstrument
<1>15. ASSUME NEW th \in Threads, IndexThrows(th) PROVE StartsAlone'
  BY <1>15 DEF IndexThrows
<1>16. ASSUME NEW th \in Threads, DoAddCallback(th) PROVE StartsAlone'
  BY <1>16 DEF DoAddCallback
<1>17. ASSUME NEW th \in Threads, DoRemoveCallback(th) PROVE StartsAlone'
  BY <1>17 DEF DoRemoveCallback
<1>18. ASSUME NEW th \in Threads, DoUpdate(th) PROVE StartsAlone'
  BY <1>18 DEF DoUpdate
<1>19. ASSUME NEW th \in Threads, RecheckView(th) PROVE StartsAlone'
  BY <1>19 DEF RecheckView
<1>20. ASSUME NEW th \in Threads, InsertView(th) PROVE StartsAlone'
  BY <1>20 DEF InsertView
<1>21. ASSUME NEW th \in Threads, Build(th) PROVE StartsAlone'
  BY <1>21 DEF Build
<1>22. ASSUME NEW th \in Threads, Install(th) PROVE StartsAlone'
  BY <1>22 DEF Install
<1>23. ASSUME CollectBegin PROVE StartsAlone'
  BY <1>23 DEF CollectBegin
<1>24. ASSUME CallbackBegin PROVE StartsAlone'
  BY <1>24 DEF CallbackBegin
<1>25. ASSUME CallbackEnd PROVE StartsAlone'
  BY <1>25 DEF CallbackEnd
<1>26. ASSUME CollectEnd PROVE StartsAlone'
  BY <1>26 DEF CollectEnd
<1>27. ASSUME UNCHANGED vars PROVE StartsAlone'
  BY <1>27
<1> QED
  BY <1>1, <1>2, <1>3, <1>4, <1>5, <1>6, <1>7, <1>8, <1>9, <1>10, <1>11, <1>12, <1>13, <1>14,
     <1>15, <1>16, <1>17, <1>18, <1>19, <1>20, <1>21, <1>22, <1>23, <1>24, <1>25, <1>26, <1>27
  DEF Next, Collect, Invoke, Continue

\* Every step keeps the index leading to the instruments of the map.
LEMMA IndexStep == ASSUME MeterAssumption, MeterInv, [Next]_vars PROVE IndexLeads'
<1> USE DEF MeterAssumption, MeterInv, TypeOK, CallShape, LocksMatchCalls, IndexLeads,
   InstrumentKey
<1>1. ASSUME NEW th \in Threads, NEW r \in Requests, GetInstrument(th, r) PROVE IndexLeads'
  BY <1>1 DEF GetInstrument
<1>2. ASSUME NEW th \in Threads, NEW r \in Requests, NEW d \in Descriptors \cup {None},
             Create(th, r, d)
      PROVE IndexLeads'
  BY <1>2 DEF Create
<1>3. ASSUME NEW th \in Threads, NEW i \in DOMAIN instrument, UseInstrument(th, i, None, "update")
      PROVE IndexLeads'
  BY <1>3 DEF UseInstrument
<1>4. ASSUME NEW th \in Threads, NEW i \in DOMAIN instrument, NEW d \in Descriptors,
             UseInstrument(th, i, d, "add") \/ UseInstrument(th, i, d, "remove")
      PROVE IndexLeads'
  BY <1>4 DEF UseInstrument
<1>5. ASSUME NEW th \in Threads, NEW v \in Views, AddView(th, v) PROVE IndexLeads'
  BY <1>5 DEF AddView
<1>6. ASSUME NEW th \in Threads, Start(th) PROVE IndexLeads'
  BY <1>6 DEF Start
<1>7. ASSUME NEW th \in Threads, Destroy(th) PROVE IndexLeads'
  BY <1>7 DEF Destroy, Empty, Drained
<1>8. ASSUME NEW th \in Threads, NEW on \in BOOLEAN, SetEnabled(th, on) PROVE IndexLeads'
  BY <1>8 DEF SetEnabled
<1>9. ASSUME NEW th \in Threads, Probe(th) PROVE IndexLeads'
  BY <1>9 DEF Probe
<1>10. ASSUME NEW th \in Threads, LockCreate(th) PROVE IndexLeads'
  BY <1>10 DEF LockCreate
<1>11. ASSUME NEW th \in Threads, Recheck(th) PROVE IndexLeads'
  BY <1>11 DEF Recheck
<1>12. ASSUME NEW th \in Threads, EmplaceInstrument(th) PROVE IndexLeads'
  BY <1>12 DEF EmplaceInstrument, Insert
<1>13. ASSUME NEW th \in Threads, FirstCallback(th) PROVE IndexLeads'
  BY <1>13 DEF FirstCallback, AddCallback
<1>14. ASSUME NEW th \in Threads, IndexInstrument(th) PROVE IndexLeads'
  <2> DEFINE i == nextId["instrument"]
             k == InstrumentKey(call[th].r)
  <2>1. /\ DOMAIN index' = DOMAIN index \cup {k} /\ index'[k] = i
        /\ \A l \in DOMAIN index : l # k /\ index'[l] = index[l]
    BY <1>14 DEF IndexInstrument, Insert
  <2>2. nextId'["instrument"] = i + 1 /\ instrument' = instrument /\ excl'["instrument"] = None
    BY <1>14 DEF IndexInstrument
  <2>3. i \in DOMAIN instrument /\ instrument[i].key = k
    BY <1>14 DEF IndexInstrument
  <2>4. \A u \in Threads : call'[u].pc \notin {"insert", "firstCallback", "index"}
    BY <1>14 DEF IndexInstrument
  <2> QED
    BY <2>1, <2>2, <2>3, <2>4
<1>15. ASSUME NEW th \in Threads, IndexThrows(th) PROVE IndexLeads'
  BY <1>15 DEF IndexThrows, Remove
<1>16. ASSUME NEW th \in Threads, DoAddCallback(th) PROVE IndexLeads'
  BY <1>16 DEF DoAddCallback, AddCallback
<1>17. ASSUME NEW th \in Threads, DoRemoveCallback(th) PROVE IndexLeads'
  BY <1>17 DEF DoRemoveCallback, RemoveCallback
<1>18. ASSUME NEW th \in Threads, DoUpdate(th) PROVE IndexLeads'
  BY <1>18 DEF DoUpdate
<1>19. ASSUME NEW th \in Threads, RecheckView(th) PROVE IndexLeads'
  BY <1>19 DEF RecheckView
<1>20. ASSUME NEW th \in Threads, InsertView(th) PROVE IndexLeads'
  BY <1>20 DEF InsertView
<1>21. ASSUME NEW th \in Threads, Build(th) PROVE IndexLeads'
  BY <1>21 DEF Build
<1>22. ASSUME NEW th \in Threads, Install(th) PROVE IndexLeads'
  BY <1>22 DEF Install
<1>23. ASSUME CollectBegin PROVE IndexLeads'
  BY <1>23 DEF CollectBegin
<1>24. ASSUME CallbackBegin PROVE IndexLeads'
  BY <1>24 DEF CallbackBegin
<1>25. ASSUME CallbackEnd PROVE IndexLeads'
  BY <1>25 DEF CallbackEnd
<1>26. ASSUME CollectEnd PROVE IndexLeads'
  BY <1>26 DEF CollectEnd
<1>27. ASSUME UNCHANGED vars PROVE IndexLeads'
  BY <1>27
<1> HIDE DEF IndexLeads
<1> QED
  BY <1>1, <1>2, <1>3, <1>4, <1>5, <1>6, <1>7, <1>8, <1>9, <1>10, <1>11, <1>12, <1>13, <1>14,
     <1>15, <1>16, <1>17, <1>18, <1>19, <1>20, <1>21, <1>22, <1>23, <1>24, <1>25, <1>26, <1>27
  DEF Next, Collect, Invoke, Continue

\* No step takes back an identifier a caller was given.
LEMMA AnswersStep == ASSUME MeterAssumption, MeterInv, [Next]_vars PROVE AnswersIndexed'
<1> USE DEF MeterAssumption, MeterInv, TypeOK, CallShape, AnswersIndexed, InstrumentKey
<1>1. ASSUME NEW th \in Threads, NEW r \in Requests, GetInstrument(th, r) PROVE AnswersIndexed'
  BY <1>1 DEF GetInstrument
<1>2. ASSUME NEW th \in Threads, NEW r \in Requests, NEW d \in Descriptors \cup {None},
             Create(th, r, d)
      PROVE AnswersIndexed'
  BY <1>2 DEF Create
<1>3. ASSUME NEW th \in Threads, NEW i \in DOMAIN instrument, UseInstrument(th, i, None, "update")
      PROVE AnswersIndexed'
  BY <1>3 DEF UseInstrument
<1>4. ASSUME NEW th \in Threads, NEW i \in DOMAIN instrument, NEW d \in Descriptors,
             UseInstrument(th, i, d, "add") \/ UseInstrument(th, i, d, "remove")
      PROVE AnswersIndexed'
  BY <1>4 DEF UseInstrument
<1>5. ASSUME NEW th \in Threads, NEW v \in Views, AddView(th, v) PROVE AnswersIndexed'
  BY <1>5 DEF AddView
<1>6. ASSUME NEW th \in Threads, Start(th) PROVE AnswersIndexed'
  BY <1>6 DEF Start
<1>7. ASSUME NEW th \in Threads, Destroy(th) PROVE AnswersIndexed'
  BY <1>7 DEF Destroy
<1>8. ASSUME NEW th \in Threads, NEW on \in BOOLEAN, SetEnabled(th, on) PROVE AnswersIndexed'
  BY <1>8 DEF SetEnabled
<1>9. ASSUME NEW th \in Threads, Probe(th) PROVE AnswersIndexed'
  BY <1>9 DEF Probe
<1>10. ASSUME NEW th \in Threads, LockCreate(th) PROVE AnswersIndexed'
  BY <1>10 DEF LockCreate
<1>11. ASSUME NEW th \in Threads, Recheck(th) PROVE AnswersIndexed'
  BY <1>11 DEF Recheck
<1>12. ASSUME NEW th \in Threads, EmplaceInstrument(th) PROVE AnswersIndexed'
  BY <1>12 DEF EmplaceInstrument
<1>13. ASSUME NEW th \in Threads, FirstCallback(th) PROVE AnswersIndexed'
  BY <1>13 DEF FirstCallback
<1>14. ASSUME NEW th \in Threads, IndexInstrument(th) PROVE AnswersIndexed'
  BY <1>14 DEF IndexInstrument, Insert, IndexLeads
<1>15. ASSUME NEW th \in Threads, IndexThrows(th) PROVE AnswersIndexed'
  BY <1>15 DEF IndexThrows
<1>16. ASSUME NEW th \in Threads, DoAddCallback(th) PROVE AnswersIndexed'
  BY <1>16 DEF DoAddCallback
<1>17. ASSUME NEW th \in Threads, DoRemoveCallback(th) PROVE AnswersIndexed'
  BY <1>17 DEF DoRemoveCallback
<1>18. ASSUME NEW th \in Threads, DoUpdate(th) PROVE AnswersIndexed'
  BY <1>18 DEF DoUpdate
<1>19. ASSUME NEW th \in Threads, RecheckView(th) PROVE AnswersIndexed'
  BY <1>19 DEF RecheckView
<1>20. ASSUME NEW th \in Threads, InsertView(th) PROVE AnswersIndexed'
  BY <1>20 DEF InsertView
<1>21. ASSUME NEW th \in Threads, Build(th) PROVE AnswersIndexed'
  BY <1>21 DEF Build
<1>22. ASSUME NEW th \in Threads, Install(th) PROVE AnswersIndexed'
  BY <1>22 DEF Install
<1>23. ASSUME CollectBegin PROVE AnswersIndexed'
  BY <1>23 DEF CollectBegin
<1>24. ASSUME CallbackBegin PROVE AnswersIndexed'
  BY <1>24 DEF CallbackBegin
<1>25. ASSUME CallbackEnd PROVE AnswersIndexed'
  BY <1>25 DEF CallbackEnd
<1>26. ASSUME CollectEnd PROVE AnswersIndexed'
  BY <1>26 DEF CollectEnd
<1>27. ASSUME UNCHANGED vars PROVE AnswersIndexed'
  BY <1>27
<1> QED
  BY <1>1, <1>2, <1>3, <1>4, <1>5, <1>6, <1>7, <1>8, <1>9, <1>10, <1>11, <1>12, <1>13, <1>14,
     <1>15, <1>16, <1>17, <1>18, <1>19, <1>20, <1>21, <1>22, <1>23, <1>24, <1>25, <1>26, <1>27
  DEF Next, Collect, Invoke, Continue

\* No step takes an instrument away under a call that uses it.
LEMMA HandlesStep == ASSUME MeterAssumption, MeterInv, [Next]_vars PROVE HandleStaysWhileUsed'
<1> USE DEF MeterAssumption, MeterInv, TypeOK, CallShape, LocksMatchCalls, HandleStaysWhileUsed
<1>1. ASSUME NEW th \in Threads, NEW r \in Requests, GetInstrument(th, r)
      PROVE HandleStaysWhileUsed'
  BY <1>1 DEF GetInstrument
<1>2. ASSUME NEW th \in Threads, NEW r \in Requests, NEW d \in Descriptors \cup {None},
             Create(th, r, d)
      PROVE HandleStaysWhileUsed'
  BY <1>2 DEF Create
<1>3. ASSUME NEW th \in Threads, NEW i \in DOMAIN instrument, UseInstrument(th, i, None, "update")
      PROVE HandleStaysWhileUsed'
  BY <1>3 DEF UseInstrument
<1>4. ASSUME NEW th \in Threads, NEW i \in DOMAIN instrument, NEW d \in Descriptors,
             UseInstrument(th, i, d, "add") \/ UseInstrument(th, i, d, "remove")
      PROVE HandleStaysWhileUsed'
  BY <1>4 DEF UseInstrument
<1>5. ASSUME NEW th \in Threads, NEW v \in Views, AddView(th, v) PROVE HandleStaysWhileUsed'
  BY <1>5 DEF AddView
<1>6. ASSUME NEW th \in Threads, Start(th) PROVE HandleStaysWhileUsed'
  BY <1>6 DEF Start
<1>7. ASSUME NEW th \in Threads, Destroy(th) PROVE HandleStaysWhileUsed'
  BY <1>7 DEF Destroy, Drained
<1>8. ASSUME NEW th \in Threads, NEW on \in BOOLEAN, SetEnabled(th, on)
      PROVE HandleStaysWhileUsed'
  BY <1>8 DEF SetEnabled
<1>9. ASSUME NEW th \in Threads, Probe(th) PROVE HandleStaysWhileUsed'
  BY <1>9 DEF Probe
<1>10. ASSUME NEW th \in Threads, LockCreate(th) PROVE HandleStaysWhileUsed'
  BY <1>10 DEF LockCreate
<1>11. ASSUME NEW th \in Threads, Recheck(th) PROVE HandleStaysWhileUsed'
  BY <1>11 DEF Recheck
<1>12. ASSUME NEW th \in Threads, EmplaceInstrument(th) PROVE HandleStaysWhileUsed'
  BY <1>12 DEF EmplaceInstrument, Insert
<1>13. ASSUME NEW th \in Threads, FirstCallback(th) PROVE HandleStaysWhileUsed'
  BY <1>13 DEF FirstCallback, AddCallback
<1>14. ASSUME NEW th \in Threads, IndexInstrument(th) PROVE HandleStaysWhileUsed'
  BY <1>14 DEF IndexInstrument
<1>15. ASSUME NEW th \in Threads, IndexThrows(th) PROVE HandleStaysWhileUsed'
  BY <1>15 DEF IndexThrows, Remove
<1>16. ASSUME NEW th \in Threads, DoAddCallback(th) PROVE HandleStaysWhileUsed'
  BY <1>16 DEF DoAddCallback, AddCallback
<1>17. ASSUME NEW th \in Threads, DoRemoveCallback(th) PROVE HandleStaysWhileUsed'
  BY <1>17 DEF DoRemoveCallback, RemoveCallback
<1>18. ASSUME NEW th \in Threads, DoUpdate(th) PROVE HandleStaysWhileUsed'
  BY <1>18 DEF DoUpdate
<1>19. ASSUME NEW th \in Threads, RecheckView(th) PROVE HandleStaysWhileUsed'
  BY <1>19 DEF RecheckView
<1>20. ASSUME NEW th \in Threads, InsertView(th) PROVE HandleStaysWhileUsed'
  BY <1>20 DEF InsertView
<1>21. ASSUME NEW th \in Threads, Build(th) PROVE HandleStaysWhileUsed'
  BY <1>21 DEF Build
<1>22. ASSUME NEW th \in Threads, Install(th) PROVE HandleStaysWhileUsed'
  BY <1>22 DEF Install
<1>23. ASSUME CollectBegin PROVE HandleStaysWhileUsed'
  BY <1>23 DEF CollectBegin
<1>24. ASSUME CallbackBegin PROVE HandleStaysWhileUsed'
  BY <1>24 DEF CallbackBegin
<1>25. ASSUME CallbackEnd PROVE HandleStaysWhileUsed'
  BY <1>25 DEF CallbackEnd
<1>26. ASSUME CollectEnd PROVE HandleStaysWhileUsed'
  BY <1>26 DEF CollectEnd
<1>27. ASSUME UNCHANGED vars PROVE HandleStaysWhileUsed'
  BY <1>27
<1> QED
  BY <1>1, <1>2, <1>3, <1>4, <1>5, <1>6, <1>7, <1>8, <1>9, <1>10, <1>11, <1>12, <1>13, <1>14,
     <1>15, <1>16, <1>17, <1>18, <1>19, <1>20, <1>21, <1>22, <1>23, <1>24, <1>25, <1>26, <1>27
  DEF Next, Collect, Invoke, Continue

\* No instrument gains a callback that no caller gave.
LEMMA CallbacksStep == ASSUME MeterAssumption, MeterInv, [Next]_vars PROVE CallbacksGiven'
<1> USE DEF MeterAssumption, MeterInv, TypeOK, CallShape, LocksMatchCalls, CallbacksGiven
<1>1. ASSUME NEW th \in Threads, NEW r \in Requests, GetInstrument(th, r) PROVE CallbacksGiven'
  BY <1>1 DEF GetInstrument
<1>2. ASSUME NEW th \in Threads, NEW r \in Requests, NEW d \in Descriptors \cup {None},
             Create(th, r, d)
      PROVE CallbacksGiven'
  BY <1>2 DEF Create
<1>3. ASSUME NEW th \in Threads, NEW i \in DOMAIN instrument, UseInstrument(th, i, None, "update")
      PROVE CallbacksGiven'
  BY <1>3 DEF UseInstrument
<1>4. ASSUME NEW th \in Threads, NEW i \in DOMAIN instrument, NEW d \in Descriptors,
             UseInstrument(th, i, d, "add") \/ UseInstrument(th, i, d, "remove")
      PROVE CallbacksGiven'
  BY <1>4 DEF UseInstrument
<1>5. ASSUME NEW th \in Threads, NEW v \in Views, AddView(th, v) PROVE CallbacksGiven'
  BY <1>5 DEF AddView
<1>6. ASSUME NEW th \in Threads, Start(th) PROVE CallbacksGiven'
  BY <1>6 DEF Start
<1>7. ASSUME NEW th \in Threads, Destroy(th) PROVE CallbacksGiven'
  BY <1>7 DEF Destroy, Empty, Drained
<1>8. ASSUME NEW th \in Threads, NEW on \in BOOLEAN, SetEnabled(th, on) PROVE CallbacksGiven'
  BY <1>8 DEF SetEnabled
<1>9. ASSUME NEW th \in Threads, Probe(th) PROVE CallbacksGiven'
  BY <1>9 DEF Probe
<1>10. ASSUME NEW th \in Threads, LockCreate(th) PROVE CallbacksGiven'
  BY <1>10 DEF LockCreate
<1>11. ASSUME NEW th \in Threads, Recheck(th) PROVE CallbacksGiven'
  BY <1>11 DEF Recheck
<1>12. ASSUME NEW th \in Threads, EmplaceInstrument(th) PROVE CallbacksGiven'
  BY <1>12 DEF EmplaceInstrument, Insert, IndexLeads
<1>13. ASSUME NEW th \in Threads, FirstCallback(th) PROVE CallbacksGiven'
  BY <1>13 DEF FirstCallback, AddCallback, IndexLeads
<1>14. ASSUME NEW th \in Threads, IndexInstrument(th) PROVE CallbacksGiven'
  BY <1>14 DEF IndexInstrument, IndexLeads
<1>15. ASSUME NEW th \in Threads, IndexThrows(th) PROVE CallbacksGiven'
  BY <1>15 DEF IndexThrows, Remove
<1>16. ASSUME NEW th \in Threads, DoAddCallback(th) PROVE CallbacksGiven'
  BY <1>16 DEF DoAddCallback, AddCallback, IndexLeads
<1>17. ASSUME NEW th \in Threads, DoRemoveCallback(th) PROVE CallbacksGiven'
  BY <1>17 DEF DoRemoveCallback, RemoveCallback, IndexLeads
<1>18. ASSUME NEW th \in Threads, DoUpdate(th) PROVE CallbacksGiven'
  BY <1>18 DEF DoUpdate
<1>19. ASSUME NEW th \in Threads, RecheckView(th) PROVE CallbacksGiven'
  BY <1>19 DEF RecheckView
<1>20. ASSUME NEW th \in Threads, InsertView(th) PROVE CallbacksGiven'
  BY <1>20 DEF InsertView
<1>21. ASSUME NEW th \in Threads, Build(th) PROVE CallbacksGiven'
  BY <1>21 DEF Build
<1>22. ASSUME NEW th \in Threads, Install(th) PROVE CallbacksGiven'
  BY <1>22 DEF Install
<1>23. ASSUME CollectBegin PROVE CallbacksGiven'
  BY <1>23 DEF CollectBegin
<1>24. ASSUME CallbackBegin PROVE CallbacksGiven'
  BY <1>24 DEF CallbackBegin
<1>25. ASSUME CallbackEnd PROVE CallbacksGiven'
  BY <1>25 DEF CallbackEnd
<1>26. ASSUME CollectEnd PROVE CallbacksGiven'
  BY <1>26 DEF CollectEnd
<1>27. ASSUME UNCHANGED vars PROVE CallbacksGiven'
  BY <1>27
<1> QED
  BY <1>1, <1>2, <1>3, <1>4, <1>5, <1>6, <1>7, <1>8, <1>9, <1>10, <1>11, <1>12, <1>13, <1>14,
     <1>15, <1>16, <1>17, <1>18, <1>19, <1>20, <1>21, <1>22, <1>23, <1>24, <1>25, <1>26, <1>27
  DEF Next, Collect, Invoke, Continue

\* No step removes a callback that a collection is about to call.
LEMMA CollectedStep == ASSUME MeterAssumption, MeterInv, [Next]_vars PROVE CollectedRegistered'
<1> USE DEF MeterAssumption, MeterInv, TypeOK, CallShape, CollectedRegistered
<1>1. ASSUME NEW th \in Threads, NEW r \in Requests, GetInstrument(th, r)
      PROVE CollectedRegistered'
  BY <1>1 DEF GetInstrument
<1>2. ASSUME NEW th \in Threads, NEW r \in Requests, NEW d \in Descriptors \cup {None},
             Create(th, r, d)
      PROVE CollectedRegistered'
  BY <1>2 DEF Create
<1>3. ASSUME NEW th \in Threads, NEW i \in DOMAIN instrument, UseInstrument(th, i, None, "update")
      PROVE CollectedRegistered'
  BY <1>3 DEF UseInstrument
<1>4. ASSUME NEW th \in Threads, NEW i \in DOMAIN instrument, NEW d \in Descriptors,
             UseInstrument(th, i, d, "add") \/ UseInstrument(th, i, d, "remove")
      PROVE CollectedRegistered'
  BY <1>4 DEF UseInstrument
<1>5. ASSUME NEW th \in Threads, NEW v \in Views, AddView(th, v) PROVE CollectedRegistered'
  BY <1>5 DEF AddView
<1>6. ASSUME NEW th \in Threads, Start(th) PROVE CollectedRegistered'
  BY <1>6 DEF Start
<1>7. ASSUME NEW th \in Threads, Destroy(th) PROVE CollectedRegistered'
  BY <1>7 DEF Destroy
<1>8. ASSUME NEW th \in Threads, NEW on \in BOOLEAN, SetEnabled(th, on) PROVE CollectedRegistered'
  BY <1>8 DEF SetEnabled
<1>9. ASSUME NEW th \in Threads, Probe(th) PROVE CollectedRegistered'
  BY <1>9 DEF Probe
<1>10. ASSUME NEW th \in Threads, LockCreate(th) PROVE CollectedRegistered'
  BY <1>10 DEF LockCreate
<1>11. ASSUME NEW th \in Threads, Recheck(th) PROVE CollectedRegistered'
  BY <1>11 DEF Recheck
<1>12. ASSUME NEW th \in Threads, EmplaceInstrument(th) PROVE CollectedRegistered'
  BY <1>12 DEF EmplaceInstrument, Insert, IndexLeads
<1>13. ASSUME NEW th \in Threads, FirstCallback(th) PROVE CollectedRegistered'
  BY <1>13 DEF FirstCallback, AddCallback
<1>14. ASSUME NEW th \in Threads, IndexInstrument(th) PROVE CollectedRegistered'
  BY <1>14 DEF IndexInstrument
<1>15. ASSUME NEW th \in Threads, IndexThrows(th) PROVE CollectedRegistered'
  BY <1>15 DEF IndexThrows, Remove, RegistryFree
<1>16. ASSUME NEW th \in Threads, DoAddCallback(th) PROVE CollectedRegistered'
  BY <1>16 DEF DoAddCallback, AddCallback
<1>17. ASSUME NEW th \in Threads, DoRemoveCallback(th) PROVE CollectedRegistered'
  BY <1>17 DEF DoRemoveCallback, RemoveCallback, RegistryFree
<1>18. ASSUME NEW th \in Threads, DoUpdate(th) PROVE CollectedRegistered'
  BY <1>18 DEF DoUpdate
<1>19. ASSUME NEW th \in Threads, RecheckView(th) PROVE CollectedRegistered'
  BY <1>19 DEF RecheckView
<1>20. ASSUME NEW th \in Threads, InsertView(th) PROVE CollectedRegistered'
  BY <1>20 DEF InsertView
<1>21. ASSUME NEW th \in Threads, Build(th) PROVE CollectedRegistered'
  BY <1>21 DEF Build
<1>22. ASSUME NEW th \in Threads, Install(th) PROVE CollectedRegistered'
  BY <1>22 DEF Install
<1>23. ASSUME CollectBegin PROVE CollectedRegistered'
  BY <1>23 DEF CollectBegin
<1>24. ASSUME CallbackBegin PROVE CollectedRegistered'
  BY <1>24 DEF CallbackBegin
<1>25. ASSUME CallbackEnd PROVE CollectedRegistered'
  BY <1>25 DEF CallbackEnd
<1>26. ASSUME CollectEnd PROVE CollectedRegistered'
  BY <1>26 DEF CollectEnd
<1>27. ASSUME UNCHANGED vars PROVE CollectedRegistered'
  BY <1>27
<1> QED
  BY <1>1, <1>2, <1>3, <1>4, <1>5, <1>6, <1>7, <1>8, <1>9, <1>10, <1>11, <1>12, <1>13, <1>14,
     <1>15, <1>16, <1>17, <1>18, <1>19, <1>20, <1>21, <1>22, <1>23, <1>24, <1>25, <1>26, <1>27
  DEF Next, Collect, Invoke, Continue

\* Every step keeps the provider and the map of views in agreement.
LEMMA ViewsStep == ASSUME MeterAssumption, MeterInv, [Next]_vars PROVE ViewsKnown'
<1> USE DEF MeterAssumption, MeterInv, TypeOK, CallShape, LocksMatchCalls, StartsAlone,
   ViewsKnown, Recorded, ViewsNamed
<1>1. ASSUME NEW th \in Threads, NEW r \in Requests, GetInstrument(th, r) PROVE ViewsKnown'
  BY <1>1 DEF GetInstrument
<1>2. ASSUME NEW th \in Threads, NEW r \in Requests, NEW d \in Descriptors \cup {None},
             Create(th, r, d)
      PROVE ViewsKnown'
  BY <1>2 DEF Create
<1>3. ASSUME NEW th \in Threads, NEW i \in DOMAIN instrument, UseInstrument(th, i, None, "update")
      PROVE ViewsKnown'
  BY <1>3 DEF UseInstrument
<1>4. ASSUME NEW th \in Threads, NEW i \in DOMAIN instrument, NEW d \in Descriptors,
             UseInstrument(th, i, d, "add") \/ UseInstrument(th, i, d, "remove")
      PROVE ViewsKnown'
  BY <1>4 DEF UseInstrument
<1>5. ASSUME NEW th \in Threads, NEW v \in Views, AddView(th, v) PROVE ViewsKnown'
  BY <1>5 DEF AddView
<1>6. ASSUME NEW th \in Threads, Start(th) PROVE ViewsKnown'
  BY <1>6 DEF Start
<1>7. ASSUME NEW th \in Threads, Destroy(th) PROVE ViewsKnown'
  BY <1>7 DEF Destroy, Empty
<1>8. ASSUME NEW th \in Threads, NEW on \in BOOLEAN, SetEnabled(th, on) PROVE ViewsKnown'
  BY <1>8 DEF SetEnabled
<1>9. ASSUME NEW th \in Threads, Probe(th) PROVE ViewsKnown'
  BY <1>9 DEF Probe
<1>10. ASSUME NEW th \in Threads, LockCreate(th) PROVE ViewsKnown'
  BY <1>10 DEF LockCreate
<1>11. ASSUME NEW th \in Threads, Recheck(th) PROVE ViewsKnown'
  BY <1>11 DEF Recheck
<1>12. ASSUME NEW th \in Threads, EmplaceInstrument(th) PROVE ViewsKnown'
  BY <1>12 DEF EmplaceInstrument
<1>13. ASSUME NEW th \in Threads, FirstCallback(th) PROVE ViewsKnown'
  BY <1>13 DEF FirstCallback
<1>14. ASSUME NEW th \in Threads, IndexInstrument(th) PROVE ViewsKnown'
  BY <1>14 DEF IndexInstrument
<1>15. ASSUME NEW th \in Threads, IndexThrows(th) PROVE ViewsKnown'
  BY <1>15 DEF IndexThrows
<1>16. ASSUME NEW th \in Threads, DoAddCallback(th) PROVE ViewsKnown'
  BY <1>16 DEF DoAddCallback
<1>17. ASSUME NEW th \in Threads, DoRemoveCallback(th) PROVE ViewsKnown'
  BY <1>17 DEF DoRemoveCallback
<1>18. ASSUME NEW th \in Threads, DoUpdate(th) PROVE ViewsKnown'
  BY <1>18 DEF DoUpdate
<1>19. ASSUME NEW th \in Threads, RecheckView(th) PROVE ViewsKnown'
  BY <1>19 DEF RecheckView
<1>20. ASSUME NEW th \in Threads, InsertView(th) PROVE ViewsKnown'
  <2> DEFINE v == call[th].v
             i == nextId["view"]
  <2>1. CASE UNCHANGED <<view, nextId, known>>
    BY <1>20, <2>1 DEF InsertView
  <2>2. CASE view' = Insert(view, i, v) /\ ViewRegister(v) /\ nextId' = [nextId EXCEPT !["view"] = i + 1]
    <3>1. /\ v \in Views /\ installed > 0 /\ ViewsNamed(v.name) = {}
          /\ \A u \in Threads : call'[u].pc \notin {"insertView", "install"}
      BY <1>20 DEF InsertView
    <3>2. /\ DOMAIN view' = DOMAIN view \cup {i} /\ view'[i] = v /\ i \notin DOMAIN view
          /\ \A j \in DOMAIN view : view'[j] = view[j]
      BY <2>2 DEF Insert
    <3>3. ASSUME installed > 0, open, NEW w \in Views PROVE known'[w] = Recorded(w)'
      <4>1. CASE w = v
        <5>1. known[v] = 0
          BY <3>1, <3>3
        <5> QED
          BY <2>2, <3>1, <3>2, <4>1, <5>1 DEF ViewRegister
      <4>2. CASE w # v
        BY <2>2, <3>1, <3>2, <3>3, <4>2 DEF ViewRegister
      <4> QED
        BY <4>1, <4>2
    <3>4. \A j, l \in DOMAIN view' : Fold[view'[j].name] = Fold[view'[l].name] => j = l
      BY <3>1, <3>2
    <3>5. \A j \in DOMAIN view' : j < nextId'["view"]
      BY <2>2, <3>2
    <3>6. UNCHANGED <<installed, open>>
      BY <1>20 DEF InsertView
    <3> QED
      BY <3>1, <3>3, <3>4, <3>5, <3>6
  <2> QED
    BY <1>20, <2>1, <2>2 DEF InsertView
<1>21. ASSUME NEW th \in Threads, Build(th) PROVE ViewsKnown'
  BY <1>21, RegisterRecordedOnce DEF Build
<1>22. ASSUME NEW th \in Threads, Install(th) PROVE ViewsKnown'
  BY <1>22 DEF Install
<1>23. ASSUME CollectBegin PROVE ViewsKnown'
  BY <1>23 DEF CollectBegin
<1>24. ASSUME CallbackBegin PROVE ViewsKnown'
  BY <1>24 DEF CallbackBegin
<1>25. ASSUME CallbackEnd PROVE ViewsKnown'
  BY <1>25 DEF CallbackEnd
<1>26. ASSUME CollectEnd PROVE ViewsKnown'
  BY <1>26 DEF CollectEnd
<1>27. ASSUME UNCHANGED vars PROVE ViewsKnown'
  BY <1>27
<1> QED
  BY <1>1, <1>2, <1>3, <1>4, <1>5, <1>6, <1>7, <1>8, <1>9, <1>10, <1>11, <1>12, <1>13, <1>14,
     <1>15, <1>16, <1>17, <1>18, <1>19, <1>20, <1>21, <1>22, <1>23, <1>24, <1>25, <1>26, <1>27
  DEF Next, Collect, Invoke, Continue

\* The names of the views are a function of the map.
LEMMA NamesKept == ASSUME view' = view PROVE ViewNames' = ViewNames
BY DEF ViewNames

\* The next identifier of a map stays the number of its names.
LEMMA CountStep == ASSUME MeterAssumption, MeterInv, [Next]_vars PROVE IdsCount'
<1> USE DEF IdsCount
<1>1. ASSUME NEW th \in Threads, NEW r \in Requests, GetInstrument(th, r) PROVE IdsCount'
  BY <1>1, NamesKept DEF GetInstrument, MeterInv
<1>2. ASSUME NEW th \in Threads, NEW r \in Requests, NEW d \in Descriptors \cup {None},
             Create(th, r, d)
      PROVE IdsCount'
  BY <1>2, NamesKept DEF Create, MeterInv
<1>3. ASSUME NEW th \in Threads, NEW i \in DOMAIN instrument, UseInstrument(th, i, None, "update")
      PROVE IdsCount'
  BY <1>3, NamesKept DEF UseInstrument, MeterInv
<1>4. ASSUME NEW th \in Threads, NEW i \in DOMAIN instrument, NEW d \in Descriptors,
             UseInstrument(th, i, d, "add") \/ UseInstrument(th, i, d, "remove")
      PROVE IdsCount'
  BY <1>4, NamesKept DEF UseInstrument, MeterInv
<1>5. ASSUME NEW th \in Threads, NEW v \in Views, AddView(th, v) PROVE IdsCount'
  BY <1>5, NamesKept DEF AddView, MeterInv
<1>6. ASSUME NEW th \in Threads, Start(th) PROVE IdsCount'
  BY <1>6, NamesKept DEF Start, MeterInv
<1>7. ASSUME NEW th \in Threads, Destroy(th) PROVE IdsCount'
  BY <1>7, NamesKept DEF Destroy, MeterInv
<1>8. ASSUME NEW th \in Threads, NEW on \in BOOLEAN, SetEnabled(th, on) PROVE IdsCount'
  BY <1>8, NamesKept DEF SetEnabled, MeterInv
<1>9. ASSUME NEW th \in Threads, Probe(th) PROVE IdsCount'
  BY <1>9, NamesKept DEF Probe, MeterInv
<1>10. ASSUME NEW th \in Threads, LockCreate(th) PROVE IdsCount'
  BY <1>10, NamesKept DEF LockCreate, MeterInv
<1>11. ASSUME NEW th \in Threads, Recheck(th) PROVE IdsCount'
  BY <1>11, NamesKept DEF Recheck, MeterInv
<1>12. ASSUME NEW th \in Threads, EmplaceInstrument(th) PROVE IdsCount'
  BY <1>12, NamesKept DEF EmplaceInstrument, MeterInv
<1>13. ASSUME NEW th \in Threads, FirstCallback(th) PROVE IdsCount'
  BY <1>13, NamesKept DEF FirstCallback, MeterInv
<1>14. ASSUME NEW th \in Threads, IndexInstrument(th) PROVE IdsCount'
  <2> DEFINE k == InstrumentKey(call[th].r)
  <2>1. open /\ k \notin DOMAIN index
    BY <1>14 DEF IndexInstrument, MeterInv, StartsAlone, IndexLeads
  <2>2. DOMAIN index' = DOMAIN index \cup {k} /\ nextId' = [nextId EXCEPT !["instrument"] = nextId["instrument"] + 1]
    BY <1>14 DEF IndexInstrument, Insert
  <2>3. IsFiniteSet(DOMAIN index') /\ Cardinality(DOMAIN index') = Cardinality(DOMAIN index) + 1
    BY <2>1, <2>2, FS_AddElement DEF MeterInv
  <2> QED
    BY <1>14, <2>1, <2>2, <2>3, NamesKept DEF IndexInstrument, MeterInv, TypeOK
<1>15. ASSUME NEW th \in Threads, IndexThrows(th) PROVE IdsCount'
  BY <1>15, NamesKept DEF IndexThrows, MeterInv
<1>16. ASSUME NEW th \in Threads, DoAddCallback(th) PROVE IdsCount'
  BY <1>16, NamesKept DEF DoAddCallback, MeterInv
<1>17. ASSUME NEW th \in Threads, DoRemoveCallback(th) PROVE IdsCount'
  BY <1>17, NamesKept DEF DoRemoveCallback, MeterInv
<1>18. ASSUME NEW th \in Threads, DoUpdate(th) PROVE IdsCount'
  BY <1>18, NamesKept DEF DoUpdate, MeterInv
<1>19. ASSUME NEW th \in Threads, RecheckView(th) PROVE IdsCount'
  BY <1>19, NamesKept DEF RecheckView, MeterInv
<1>20. ASSUME NEW th \in Threads, InsertView(th) PROVE IdsCount'
  <2>1. CASE view' = Insert(view, nextId["view"], call[th].v) /\ nextId' = [nextId EXCEPT !["view"] = nextId["view"] + 1]
    <3> DEFINE n == Fold[call[th].v.name]
    <3>1. open /\ n \notin ViewNames
      BY <1>20 DEF InsertView, MeterInv, StartsAlone, ViewsKnown, ViewsNamed, ViewNames
    <3>2. ViewNames' = ViewNames \cup {n}
      <4> DEFINE i == nextId["view"]
      <4>1. i \notin DOMAIN view
        BY DEF MeterInv, TypeOK, ViewsKnown
      <4>2. DOMAIN view' = DOMAIN view \cup {i} /\ view'[i] = call[th].v
        BY <2>1 DEF Insert
      <4>3. \A j \in DOMAIN view : view'[j] = view[j]
        BY <2>1, <4>1 DEF Insert
      <4> QED
        BY <4>2, <4>3 DEF ViewNames
    <3>3. IsFiniteSet(ViewNames') /\ Cardinality(ViewNames') = Cardinality(ViewNames) + 1
      BY <3>1, <3>2, FS_AddElement DEF MeterInv
    <3> QED
      BY <1>20, <2>1, <3>1, <3>3 DEF InsertView, MeterInv, TypeOK
  <2>2. CASE UNCHANGED <<view, nextId>>
    BY <1>20, <2>2, NamesKept DEF InsertView, MeterInv
  <2> QED
    BY <1>20, <2>1, <2>2 DEF InsertView
<1>21. ASSUME NEW th \in Threads, Build(th) PROVE IdsCount'
  BY <1>21, NamesKept DEF Build, MeterInv
<1>22. ASSUME NEW th \in Threads, Install(th) PROVE IdsCount'
  BY <1>22, NamesKept DEF Install, MeterInv
<1>23. ASSUME CollectBegin PROVE IdsCount'
  BY <1>23, NamesKept DEF CollectBegin, MeterInv
<1>24. ASSUME CallbackBegin PROVE IdsCount'
  BY <1>24, NamesKept DEF CallbackBegin, MeterInv
<1>25. ASSUME CallbackEnd PROVE IdsCount'
  BY <1>25, NamesKept DEF CallbackEnd, MeterInv
<1>26. ASSUME CollectEnd PROVE IdsCount'
  BY <1>26, NamesKept DEF CollectEnd, MeterInv
<1>27. ASSUME UNCHANGED vars PROVE IdsCount'
  BY <1>27, NamesKept DEF MeterInv
<1> QED
  BY <1>1, <1>2, <1>3, <1>4, <1>5, <1>6, <1>7, <1>8, <1>9, <1>10, <1>11, <1>12, <1>13, <1>14,
     <1>15, <1>16, <1>17, <1>18, <1>19, <1>20, <1>21, <1>22, <1>23, <1>24, <1>25, <1>26, <1>27
  DEF Next, Collect, Invoke, Continue

-----------------------------------------------------------------------------
-----------------------------------------------------------------------------
(* The invariant and what follows from it *)

\* A new meter satisfies the invariant.
LEMMA MeterInit == ASSUME MeterAssumption, Init PROVE MeterInv
<1>1. TypeOK
  <2>1. DOMAIN instrument = {} /\ DOMAIN index = {} /\ DOMAIN view = {}
    BY DEF Init, Empty
  <2>2. installed \in 0..built /\ built \in 0..MaxStarts
    BY DEF Init, MeterAssumption
  <2> QED
    BY <2>1, <2>2 DEF Init, TypeOK
<1>4. CallShape /\ LocksMatchCalls /\ StartsAlone /\ HandleStaysWhileUsed
  BY DEF MeterAssumption, Init, CallShape, LocksMatchCalls, StartsAlone, HandleStaysWhileUsed
<1>2. IndexLeads /\ AnswersIndexed /\ CallbacksGiven /\ CollectedRegistered /\ ViewsKnown
  BY DEF Init, Empty, IndexLeads, AnswersIndexed, CallbacksGiven, CollectedRegistered, ViewsKnown
<1>3. IdsCount
  <2>1. DOMAIN index = {} /\ ViewNames = {}
    BY DEF Init, Empty, ViewNames
  <2>2. IsFiniteSet({}) /\ Cardinality({}) = 0
    BY FS_EmptySet
  <2> QED
    BY <2>1, <2>2 DEF IdsCount, Init
<1> QED
  BY <1>1, <1>2, <1>3, <1>4 DEF MeterInv

\* Every step preserves the invariant.
LEMMA MeterStep == ASSUME MeterAssumption, MeterInv, [Next]_vars PROVE MeterInv'
BY ShapeStep, TypeStep, LocksStep, StartsStep, IndexStep, AnswersStep, HandlesStep, CallbacksStep,
   CollectedStep,
   ViewsStep, CountStep DEF MeterInv

\* Every reachable state of the meter satisfies the inductive invariant.
THEOREM MeterInvariant == Spec => []MeterInv
<1> USE MeterAssumption
<1>1. Init => MeterInv
  BY MeterInit
<1>2. MeterInv /\ [Next]_vars => MeterInv'
  BY MeterStep
<1> QED
  BY <1>1, <1>2, PTL DEF Spec

\* Whenever nobody has the instrument lock, the index by name and the map by identifier hold
\* the same instruments: an insertion that throws half way (instrument_insert) leaves nothing.
THEOREM RegistryConsistent == Spec => []RegistryInv
<1>1. MeterInv => RegistryInv
  <2> SUFFICES ASSUME MeterInv PROVE IndexMatchesMap
    BY DEF MeterInv, RegistryInv
  <2> SUFFICES ASSUME Unlocked("instrument") PROVE IndexMatchesMap
    BY DEF IndexMatchesMap
  <2>1. \A k \in DOMAIN index : index[k] \in DOMAIN instrument /\ instrument[index[k]].key = k
    BY DEF MeterInv, IndexLeads
  <2>2. \A i \in DOMAIN instrument : \E k \in DOMAIN index : index[k] = i
    BY DEF MeterInv, IndexLeads
  <2> QED
    BY <2>1, <2>2 DEF IndexMatchesMap
<1> QED
  BY <1>1, MeterInvariant, PTL

\* Two creations are answered with the same identifier exactly when they name the same
\* instrument, however their probes, rechecks and insertions interleave.
THEOREM OneIdForEachKey == Spec => []OneIdPerKey
<1>1. MeterInv => OneIdPerKey
  <2> SUFFICES ASSUME MeterInv PROVE OneIdPerKey
    OBVIOUS
  <2>1. \A k, l \in DOMAIN index : index[k] = index[l] => k = l
    BY DEF MeterInv, IndexLeads
  <2>2. \A a, b \in answers : InstrumentKey(a[1]) = InstrumentKey(b[1]) <=> a[2] = b[2]
    BY <2>1 DEF MeterInv, AnswersIndexed
  <2>3. \A a \in answers : a[2] \in DOMAIN instrument
    BY DEF MeterInv, AnswersIndexed, IndexLeads
  <2> QED
    BY <2>2, <2>3 DEF OneIdPerKey, InstrumentKey
<1> QED
  BY <1>1, MeterInvariant, PTL

\* The collection thread calls a callback only while it is registered with an instrument of
\* the installed pipeline, and only with an instrument that a caller gave it to.
THEOREM CallbacksOnlyWhileGiven == Spec => []CalledOnlyWhileGiven
<1>1. MeterInv => CalledOnlyWhileGiven
  <2> SUFFICES ASSUME MeterInv, running # None PROVE CalledOnlyWhileGiven
    BY DEF CalledOnlyWhileGiven
  <2> DEFINE i == running[1]
             d == running[2]
  <2>1. running = <<i, d>> /\ i \in DOMAIN instrument /\ d \in instrument[i].cbs
    BY DEF MeterInv, CollectedRegistered
  <2>2. CASE i # nextId["instrument"]
    BY <2>1, <2>2 DEF MeterInv, CallbacksGiven, CalledOnlyWhileGiven
  <2>3. CASE i = nextId["instrument"]
    <3>1. PICK th \in Threads : excl["instrument"] = th
      BY <2>1, <2>3 DEF MeterInv, TypeOK, IndexLeads
    <3> QED
      BY <2>1, <2>3, <3>1 DEF MeterInv, LocksMatchCalls, CallbacksGiven, CalledOnlyWhileGiven
  <2> QED
    BY <2>2, <2>3
<1> QED
  BY <1>1, MeterInvariant, PTL

\* The installed provider has registered exactly the recorded views, each once, also when
\* a restart replaces the provider.
THEOREM ProviderKnowsItsViews == Spec => []ProviderKnowsViews
<1>1. MeterInv => ProviderKnowsViews
  BY DEF MeterInv, ViewsKnown, Recorded, ProviderKnowsViews
<1> QED
  BY <1>1, MeterInvariant, PTL

-----------------------------------------------------------------------------
(* The two maps implement IdRegistry *)

\* An instance has a cardinality operator of its own.
LEMMA SameCardinality == ASSUME NEW S
                         PROVE  /\ Instruments!Cardinality(S) = Cardinality(S)
                                /\ ViewIds!Cardinality(S) = Cardinality(S)
BY Zenon DEF Cardinality, Instruments!Cardinality, ViewIds!Cardinality

\* The instrument index implements the abstract registry: the next identifier is the number
\* of keys, an entry never changes, and destroying the meter is the only way out.
THEOREM InstrumentsAreIds == Spec => Instruments!Spec
<1>1. Init => Instruments!Init
  BY DEF Init, Empty, Instruments!Init
<1>2. MeterInv /\ [Next]_vars => [Instruments!Next]_<<index, open>>
  <2> SUFFICES ASSUME MeterInv, [Next]_vars, ~UNCHANGED <<index, open>> PROVE Instruments!Next
    OBVIOUS
  <2>1. (\E th \in Threads : IndexInstrument(th)) \/ (\E th \in Threads : Destroy(th))
    <3>1. ~Collect
      BY DEF Collect, CollectBegin, CallbackBegin, CallbackEnd, CollectEnd
    <3>2. ASSUME NEW th \in Threads, Invoke(th) PROVE Destroy(th)
      BY <3>2 DEF Invoke, GetInstrument, Create, UseInstrument, AddView, Start, SetEnabled
    <3>3. ASSUME NEW th \in Threads, Continue(th) PROVE IndexInstrument(th)
      BY <3>3 DEF Continue, Probe, LockCreate, Recheck, EmplaceInstrument, FirstCallback,
         IndexThrows, DoAddCallback, DoRemoveCallback, DoUpdate, RecheckView, InsertView, Build,
         Install
    <3> QED
      BY <3>1, <3>2, <3>3 DEF Next
  <2>2. ASSUME NEW th \in Threads, IndexInstrument(th) PROVE Instruments!Next
    <3> DEFINE k == InstrumentKey(call[th].r)
    <3>1. k \in Keys
      BY <2>2 DEF IndexInstrument, MeterInv, CallShape, Keys, InstrumentKey
    <3>2. open /\ k \notin DOMAIN index /\ nextId["instrument"] = Cardinality(DOMAIN index)
      BY <2>2 DEF IndexInstrument, MeterInv, StartsAlone, IndexLeads, IdsCount
    <3>3. Instruments!Assign(k)
      <4> HIDE DEF k
      <4>1. index' = Insert(index, k, nextId["instrument"]) /\ open' = open
        BY <2>2 DEF IndexInstrument, k
      <4>2. index' = [x \in DOMAIN index \cup {k} |-> IF x = k THEN Cardinality(DOMAIN index) ELSE index[x]]
        BY <4>1, <3>2 DEF Insert
      <4> QED
        BY <4>1, <4>2, <3>2, SameCardinality DEF Instruments!Assign
    <3> QED
      BY <3>1, <3>3 DEF Instruments!Next
  <2>3. ASSUME NEW th \in Threads, Destroy(th) PROVE Instruments!Next
    BY <2>3 DEF Destroy, Empty, Instruments!Next, Instruments!Close
  <2> QED
    BY <2>1, <2>2, <2>3
<1> QED
  BY <1>1, <1>2, MeterInvariant, PTL DEF Spec, Instruments!Spec

\* The views, looked up by their folded names, implement the abstract registry as well.
THEOREM ViewsAreIds == Spec => ViewIds!Spec
<1> USE MeterAssumption
<1>1. Init => ViewIds!Init
  BY DEF Init, Empty, ViewIds!Init, ViewIndex, ViewNames
<1>2. MeterInv /\ [Next]_vars => [ViewIds!Next]_<<ViewIndex, open>>
  <2> SUFFICES ASSUME MeterInv, [Next]_vars, ~UNCHANGED <<ViewIndex, open>> PROVE ViewIds!Next
    OBVIOUS
  <2>1. (\E th \in Threads : InsertView(th)) \/ (\E th \in Threads : Destroy(th))
    <3>0. UNCHANGED <<view, open>> => UNCHANGED <<ViewIndex, open>>
      BY DEF ViewIndex, IdIn, ViewNames
    <3>1. ~Collect
      BY <3>0 DEF Collect, CollectBegin, CallbackBegin, CallbackEnd, CollectEnd
    <3>2. ASSUME NEW th \in Threads, Invoke(th) PROVE Destroy(th)
      BY <3>0, <3>2 DEF Invoke, GetInstrument, Create, UseInstrument, AddView, Start, SetEnabled
    <3>3. ASSUME NEW th \in Threads, Continue(th) PROVE InsertView(th)
      BY <3>0, <3>3 DEF Continue, Probe, LockCreate, Recheck, EmplaceInstrument, FirstCallback,
         IndexInstrument, IndexThrows, DoAddCallback, DoRemoveCallback, DoUpdate, RecheckView,
         Build, Install
    <3> QED
      BY <3>0, <3>1, <3>2, <3>3 DEF Next
  <2>2. ASSUME NEW th \in Threads, InsertView(th) PROVE ViewIds!Next
    <3> DEFINE v == call[th].v
               i == nextId["view"]
               n == Fold[v.name]
    <3>1. open /\ n \notin ViewNames /\ i = Cardinality(ViewNames) /\ v \in Views /\ i \notin DOMAIN view
      BY <2>2 DEF InsertView, MeterInv, StartsAlone, CallShape, ViewsKnown, ViewsNamed, ViewNames,
         IdsCount, TypeOK
    <3>2. view' = Insert(view, i, v) /\ open' = open
      <4>1. UNCHANGED <<view, open>> => UNCHANGED <<ViewIndex, open>>
        BY DEF ViewIndex, IdIn, ViewNames
      <4> QED
        BY <2>2, <4>1 DEF InsertView
    <3>3. DOMAIN view' = DOMAIN view \cup {i} /\ view'[i] = v /\ \A j \in DOMAIN view : view'[j] = view[j]
      BY <3>1, <3>2 DEF Insert
    <3>4. ViewNames' = ViewNames \cup {n}
      BY <3>3 DEF ViewNames
    <3>5. IdIn(view', n) = i
      <4>1. \A j \in DOMAIN view' : Fold[view'[j].name] = n <=> j = i
        BY <3>1, <3>3 DEF ViewNames
      <4> QED
        BY <3>3, <4>1 DEF IdIn
    <3>6. ASSUME NEW m \in ViewNames PROVE IdIn(view', m) = IdIn(view, m)
      <4>1. m # n
        BY <3>1
      <4>2. PICK j \in DOMAIN view : Fold[view[j].name] = m
        BY DEF ViewNames
      <4>3. \A l \in DOMAIN view : Fold[view[l].name] = m => l = j
        BY <4>2 DEF MeterInv, ViewsKnown
      <4>4. IdIn(view, m) = j
        BY <4>2, <4>3 DEF IdIn
      <4>5. IdIn(view', m) = j
        BY <3>3, <4>1, <4>2, <4>3 DEF IdIn
      <4> QED
        BY <4>4, <4>5
    <3>7. ViewIndex' = [x \in ViewNames \cup {n} |-> IF x = n THEN Cardinality(ViewNames) ELSE ViewIndex[x]]
      <4>1. ViewIndex' = [x \in ViewNames \cup {n} |-> IdIn(view', x)]
        BY <3>4 DEF ViewIndex
      <4>2. \A x \in ViewNames \cup {n} : IdIn(view', x) = IF x = n THEN Cardinality(ViewNames) ELSE ViewIndex[x]
        BY <3>1, <3>5, <3>6 DEF ViewIndex
      <4> QED
        BY <4>1, <4>2
    <3>8. DOMAIN ViewIndex = ViewNames
      BY DEF ViewIndex
    <3>9. n \in FoldedNames
      BY <3>1 DEF MeterAssumption, FoldedNames
    <3>10. ViewIds!Assign(n)
      <4> HIDE DEF n
      <4> QED
        BY <3>1, <3>2, <3>7, <3>8, SameCardinality DEF ViewIds!Assign
    <3> HIDE DEF n
    <3> QED
      BY <3>9, <3>10 DEF ViewIds!Next
  <2>3. ASSUME NEW th \in Threads, Destroy(th) PROVE ViewIds!Next
    BY <2>3 DEF Destroy, Empty, ViewIds!Next, ViewIds!Close, ViewIndex, ViewNames
  <2> QED
    BY <2>1, <2>2, <2>3
<1> QED
  BY <1>1, <1>2, MeterInvariant, PTL DEF Spec, ViewIds!Spec

\* Both registries of a meter implement the abstract one.
THEOREM MeterImplementsIds == Spec => ImplementsIds
BY InstrumentsAreIds, ViewsAreIds DEF ImplementsIds
=============================================================================
