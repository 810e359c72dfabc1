------------------------- MODULE SpanHandles_proofs -------------------------
(***************************************************************************)
(* Theorems about SpanHandles, for any sets of threads, tracers and        *)
(* handles: type correctness, that a handle's index never finds the object *)
(* of another handle, and that no SDK span is lost unended.  The inductive *)
(* invariant is HandleInv; each of its conjuncts is preserved by a lemma   *)
(* of its own, with one step per action.                                   *)
(*                                                                         *)
(* Then the maps themselves: they follow the tracer count, a map pointer   *)
(* read without a lock stays good for the whole call, and the maps         *)
(* implement the registry of SpanRegistry.  MapInv is inductive with       *)
(* HandleInv: the count is the number of registered tracers, only the last *)
(* tracer's teardown holds the count mutex with the count at zero, and a   *)
(* call on a handle has a tracer up for as long as it runs, or releases a  *)
(* leftover that no create or destroy runs beside.                         *)
(***************************************************************************)
EXTENDS SpanHandles, TLAPS, FiniteSetTheorems

\* The names a proof about one step always expands.
USE DEF vars, mapVars, handleVars, Handles, Kinds, KindOf, OfKind, Call, Idle, Goto, Return, At,
        Busy, SetTracer, Fail, SlotsTyped

-----------------------------------------------------------------------------
(* What the helpers do *)

LEMMA LookupOwn == ASSUME HandleAssumption, HandleInv, NEW h \in Handles
                   PROVE Lookup(h) \in {h, None}
BY DEF HandleAssumption, HandleInv, TypeOK, IndexesDrawnOnce, SlotsOwned, Lookup

LEMMA UnusedHasNoUser == ASSUME HandleAssumption, HandleInv, NEW h \in Handles, hstate[h] = "unused"
                   PROVE \A u \in Threads : call[u].h # h
BY DEF HandleAssumption, HandleInv, TypeOK, CallShape, CallHandles, Points, CreationPoints,
   ReleasePoints, TracerPoints

LEMMA DestroyEffect ==
  ASSUME HandleAssumption, HandleInv, NEW h \in Handles, NolockDestroy(h)
  PROVE  /\ hstate' = [hstate EXCEPT ![h] = "freed"]
         /\ \/ /\ idx[h] \in DOMAIN slots[KindOf(h)]
               /\ slots' = [slots EXCEPT ![KindOf(h)] = Erase(slots[KindOf(h)], idx[h])]
               /\ sdk' = [sdk EXCEPT ![h] = IF h \in Spans THEN "ended" ELSE sdk[h]]
            \/ /\ idx[h] \notin DOMAIN slots[KindOf(h)]
               /\ slots' = slots
               /\ sdk' = sdk
<1>1. CASE idx[h] \in DOMAIN slots[KindOf(h)]
  <2>1. map[KindOf(h)] # 0
    BY <1>1 DEF HandleInv, SlotsOwned
  <2>2. Lookup(h) = h
    BY <1>1, LookupOwn DEF HandleAssumption, HandleInv, TypeOK, Lookup
  <2> QED
    BY <2>1, <2>2, <1>1 DEF NolockDestroy, HandleAssumption
<1>2. CASE idx[h] \notin DOMAIN slots[KindOf(h)]
  BY <1>2 DEF NolockDestroy, Lookup
<1> QED
  BY <1>1, <1>2

Recorded == \A s \in Spans : (sdk[s] = "recording") <=>
    (idx[s] \in DOMAIN slots["span"] \/ \E th \in Threads : At(th, "emplace") /\ call[th].h = s)

LEMMA FoundIffIndexed ==
  ASSUME HandleAssumption, TypeOK, IndexesDrawnOnce, SlotsOwned
  PROVE  NoLostSpan <=> Recorded
<1>1. ASSUME NEW s \in Spans PROVE Lookup(s) = s <=> idx[s] \in DOMAIN slots["span"]
  BY DEF HandleAssumption, TypeOK, IndexesDrawnOnce, SlotsOwned, Lookup
<1> QED
  BY <1>1 DEF NoLostSpan, Recorded

LEMMA FoundIffIndexedNext ==
  ASSUME HandleAssumption, TypeOK', IndexesDrawnOnce', SlotsOwned'
  PROVE  NoLostSpan' <=> Recorded'
<1>1. ASSUME NEW s \in Spans PROVE Lookup(s)' = s <=> idx'[s] \in DOMAIN slots'["span"]
  BY DEF HandleAssumption, TypeOK, IndexesDrawnOnce, SlotsOwned, Lookup
<1> QED
  BY <1>1 DEF NoLostSpan, Recorded


LEMMA InsertEffect ==
  ASSUME DOMAIN slots = Kinds, NEW k \in Kinds, NEW i, NEW h, i \notin DOMAIN slots[k],
         slots' = [slots EXCEPT ![k] = Insert(slots[k], i, h)]
  PROVE  \A l \in Kinds :
            /\ DOMAIN slots'[l] = DOMAIN slots[l] \cup (IF l = k THEN {i} ELSE {})
            /\ \A j \in DOMAIN slots[l] : slots'[l][j] = slots[l][j]
            /\ l = k => slots'[l][i] = h
BY DEF Insert

LEMMA EraseEffect ==
  ASSUME DOMAIN slots = Kinds, NEW k \in Kinds, NEW i,
         slots' = [slots EXCEPT ![k] = Erase(slots[k], i)]
  PROVE  \A l \in Kinds :
            /\ DOMAIN slots'[l] = DOMAIN slots[l] \ (IF l = k THEN {i} ELSE {})
            /\ \A j \in DOMAIN slots'[l] : slots'[l][j] = slots[l][j]
BY DEF Erase

LEMMA AllocateEffect ==
  ASSUME HandleInv, NEW k \in Kinds, AllocateMap(k)
  PROVE  \A l \in Kinds :
            /\ DOMAIN slots'[l] = DOMAIN slots[l]
            /\ \A j \in DOMAIN slots'[l] : slots'[l][j] = slots[l][j]
            /\ map'[l] = 0 => map[l] = 0
BY DEF HandleInv, TypeOK, SlotsOwned, AllocateMap, AllocateFrom, Empty


\* h leaves or never was in the map: what both ways out of the nolock functions do.
LEMMA EraseKeepsSlotsOwned ==
  ASSUME HandleAssumption, HandleInv, NEW h \in Handles, NolockDestroy(h), idx' = idx, map' = map
  PROVE  SlotsOwned'
<1> DEFINE k == KindOf(h)
<1>1. k \in Kinds /\ DOMAIN slots = Kinds
  BY DEF HandleInv, TypeOK
<1>2. hstate' = [hstate EXCEPT ![h] = "freed"]
  BY DestroyEffect
<1>3. \A l \in Kinds : \A i \in DOMAIN slots[l] : slots[l][i] = h => l = k /\ i = idx[h]
  BY DEF HandleInv, SlotsOwned, TypeOK, HandleAssumption
<1>4. \A l \in Kinds : /\ DOMAIN slots'[l] \subseteq DOMAIN slots[l]
                      /\ \A i \in DOMAIN slots'[l] : slots'[l][i] = slots[l][i] /\ slots[l][i] # h
  <2>1. CASE slots' = [slots EXCEPT ![k] = Erase(slots[k], idx[h])]
    <3>1. \A l \in Kinds : /\ DOMAIN slots'[l] = DOMAIN slots[l] \ (IF l = k THEN {idx[h]} ELSE {})
                          /\ \A j \in DOMAIN slots'[l] : slots'[l][j] = slots[l][j]
      BY <1>1, <2>1, EraseEffect, Zenon
    <3> QED
      BY <1>3, <3>1
  <2>2. CASE slots' = slots /\ idx[h] \notin DOMAIN slots[k]
    BY <1>3, <2>2
  <2> QED
    BY <2>1, <2>2, DestroyEffect
<1>5. \A l \in Kinds : \A i \in DOMAIN slots[l] : slots[l][i] \in Handles
  BY DEF HandleInv, TypeOK
<1> QED
  BY <1>2, <1>4, <1>5 DEF HandleInv, SlotsOwned, TypeOK

LEMMA InsertKeepsSlotsOwned ==
  ASSUME HandleAssumption, HandleInv, NEW h \in Handles, NEW k \in Kinds, map[k] # 0,
         h \in OfKind(k), hstate[h] = "building", idx[h] \notin DOMAIN slots[k],
         slots' = [slots EXCEPT ![k] = Insert(slots[k], idx[h], h)],
         hstate' = [hstate EXCEPT ![h] = "held"], idx' = idx, map' = map
  PROVE  SlotsOwned'
<1>1. DOMAIN slots = Kinds /\ \A l \in Kinds : \A i \in DOMAIN slots[l] : slots[l][i] \in Handles
  BY DEF HandleInv, TypeOK
<1>2. \A l \in Kinds :
            /\ DOMAIN slots'[l] = DOMAIN slots[l] \cup (IF l = k THEN {idx[h]} ELSE {})
            /\ \A j \in DOMAIN slots[l] : slots'[l][j] = slots[l][j]
            /\ l = k => slots'[l][idx[h]] = h
  BY <1>1, InsertEffect, ZenonT(30)
<1>3. hstate'[h] = "held" /\ \A g \in Handles \ {h} : hstate'[g] = hstate[g]
  BY DEF HandleInv, TypeOK
<1> QED
  BY <1>1, <1>2, <1>3 DEF HandleInv, SlotsOwned

LEMMA FreshIndex ==
  ASSUME HandleAssumption, HandleInv, NEW k \in Kinds, map[k] # 0
  PROVE  nextId[k] \notin DOMAIN slots[k]
<1> SUFFICES ASSUME nextId[k] \in DOMAIN slots[k] PROVE FALSE
  OBVIOUS
<1>1. slots[k][nextId[k]] \in OfKind(k) /\ idx[slots[k][nextId[k]]] = nextId[k]
  BY DEF HandleInv, TypeOK, SlotsOwned
<1>2. idx[slots[k][nextId[k]]] < nextId[k]
  BY <1>1 DEF HandleAssumption, HandleInv, TypeOK, IndexesDrawnOnce, NextIndex
<1> QED
  BY <1>1, <1>2 DEF HandleInv, TypeOK

\* Of the spans, a release takes exactly its own out of the map, and ends it.
LEMMA DestroyEndsOwn ==
  ASSUME HandleAssumption, HandleInv, NEW h \in Handles, NolockDestroy(h),
         NEW s \in Spans
  PROVE  /\ idx[s] \in DOMAIN slots'["span"] <=> (idx[s] \in DOMAIN slots["span"] /\ s # h)
         /\ sdk'[s] = IF s = h /\ idx[h] \in DOMAIN slots["span"] THEN "ended" ELSE sdk[s]
<1> DEFINE k == KindOf(h)
<1>1. k \in Kinds /\ DOMAIN slots = Kinds
  BY DEF HandleInv, TypeOK
<1>2. s # h /\ k = "span" => idx[s] # idx[h] \/ idx[s] \notin DOMAIN slots["span"]
  BY DEF HandleAssumption, HandleInv, TypeOK, IndexesDrawnOnce
<1>3. CASE /\ idx[h] \in DOMAIN slots[k]
           /\ slots' = [slots EXCEPT ![k] = Erase(slots[k], idx[h])]
           /\ sdk' = [sdk EXCEPT ![h] = IF h \in Spans THEN "ended" ELSE sdk[h]]
  <2>1. DOMAIN slots'["span"] = DOMAIN slots["span"] \ (IF "span" = k THEN {idx[h]} ELSE {})
    BY <1>1, <1>3, EraseEffect
  <2>2. s = h => k = "span"
    OBVIOUS
  <2> QED
    BY <1>2, <1>3, <2>1, <2>2 DEF HandleInv, TypeOK
<1>4. CASE idx[h] \notin DOMAIN slots[k] /\ slots' = slots /\ sdk' = sdk
  BY <1>4
<1> QED
  BY <1>3, <1>4, DestroyEffect

LEMMA DestroyKeepsTypes ==
  ASSUME HandleAssumption, HandleInv, NEW h \in Handles, NolockDestroy(h)
  PROVE  SlotsTyped' /\ sdk' \in [Handles -> {"none", "recording", "ended"}]
<1> DEFINE k == KindOf(h)
<1>1. k \in Kinds /\ DOMAIN slots = Kinds
  BY DEF HandleInv, TypeOK
<1>2. sdk' \in [Handles -> {"none", "recording", "ended"}]
  BY DestroyEffect DEF HandleInv, TypeOK
<1>3. CASE slots' = [slots EXCEPT ![k] = Erase(slots[k], idx[h])]
  <2>1. DOMAIN slots' = Kinds
    BY <1>1, <1>3
  <2>2. \A l \in Kinds : /\ DOMAIN slots'[l] \subseteq DOMAIN slots[l]
                        /\ \A j \in DOMAIN slots'[l] : slots'[l][j] = slots[l][j]
    <3> HIDE DEF k
    <3> QED
      BY <1>1, <1>3, EraseEffect, ZenonT(30)
  <2> QED
    BY <1>2, <2>1, <2>2 DEF HandleInv, TypeOK
<1>4. CASE slots' = slots
  BY <1>2, <1>4 DEF HandleInv, TypeOK
<1> QED
  BY <1>3, <1>4, DestroyEffect

LEMMA InsertKeepsTypes ==
  ASSUME HandleInv, NEW k \in Kinds, NEW h \in OfKind(k), NEW i \in Nat, i \notin DOMAIN slots[k],
         slots' = [slots EXCEPT ![k] = Insert(slots[k], i, h)]
  PROVE  SlotsTyped'
<1>1. DOMAIN slots = Kinds /\ DOMAIN slots' = Kinds
  BY DEF HandleInv, TypeOK
<1>2. \A l \in Kinds :
            /\ DOMAIN slots'[l] = DOMAIN slots[l] \cup (IF l = k THEN {i} ELSE {})
            /\ \A j \in DOMAIN slots[l] : slots'[l][j] = slots[l][j]
            /\ l = k => slots'[l][i] = h
  BY <1>1, InsertEffect, ZenonT(30)
<1> QED
  BY <1>1, <1>2 DEF HandleInv, TypeOK

-----------------------------------------------------------------------------
(* The invariant holds initially and is preserved *)

LEMMA HandleInit == ASSUME HandleAssumption, Init PROVE HandleInv
BY DEF HandleAssumption, Init, HandleInv, TypeOK, CallShape, CallHandles, IndexesDrawnOnce,
       SlotsOwned, NoLostSpan, Lookup, Empty, Points, TracerStates, CreationPoints,
       ReleasePoints, TracerPoints, NextIndex

LEMMA TypeStep == ASSUME HandleAssumption, HandleInv, [Next]_vars PROVE TypeOK'
<1> USE DEF HandleAssumption, HandleInv, TypeOK, TracerStates, CallShape, CreationPoints,
  ReleasePoints, TracerPoints, Points
<1>1. ASSUME NEW th \in Threads, NEW t \in Tracers, Create(th, t) PROVE TypeOK'
  BY <1>1 DEF Create
<1>2. ASSUME NEW th \in Threads, Register(th) PROVE TypeOK'
  BY <1>2 DEF Register
<1>3. ASSUME NEW th \in Threads, InitSpanMap(th) PROVE TypeOK'
  <2>1. CASE AllocateMap("span")
    <3>1. SlotsTyped'
      <4>1. DOMAIN slots' = Kinds
        BY <2>1 DEF AllocateMap, AllocateFrom
      <4>2. \A l \in Kinds : /\ DOMAIN slots'[l] = DOMAIN slots[l]
                            /\ \A j \in DOMAIN slots'[l] : slots'[l][j] = slots[l][j]
        BY <2>1, AllocateEffect
      <4> QED
        BY <4>1, <4>2
    <3>2. /\ map' \in [Kinds -> Nat] /\ made' \in [Kinds -> Nat]
          /\ nextId' \in [Kinds -> Nat] /\ base' \in [Kinds -> Nat]
      BY <2>1 DEF AllocateMap, AllocateFrom
    <3> QED
      BY <1>3, <3>1, <3>2 DEF InitSpanMap
  <2>2. CASE UNCHANGED mapVars
    BY <1>3, <2>2 DEF InitSpanMap
  <2> QED
    BY <1>3, <2>1, <2>2 DEF InitSpanMap
<1>4. ASSUME NEW th \in Threads, InitContextMap(th) PROVE TypeOK'
  <2>1. CASE AllocateMap("context")
    <3>1. SlotsTyped'
      <4>1. DOMAIN slots' = Kinds
        BY <2>1 DEF AllocateMap, AllocateFrom
      <4>2. \A l \in Kinds : /\ DOMAIN slots'[l] = DOMAIN slots[l]
                            /\ \A j \in DOMAIN slots'[l] : slots'[l][j] = slots[l][j]
        BY <2>1, AllocateEffect
      <4> QED
        BY <4>1, <4>2
    <3>2. /\ map' \in [Kinds -> Nat] /\ made' \in [Kinds -> Nat]
          /\ nextId' \in [Kinds -> Nat] /\ base' \in [Kinds -> Nat]
      BY <2>1 DEF AllocateMap, AllocateFrom
    <3> QED
      BY <1>4, <3>1, <3>2 DEF InitContextMap
  <2>2. CASE UNCHANGED mapVars
    BY <1>4, <2>2 DEF InitContextMap
  <2> QED
    BY <1>4, <2>1, <2>2 DEF InitContextMap
<1>5. ASSUME NEW th \in Threads, Resolve(th) PROVE TypeOK'
  BY <1>5 DEF Resolve
<1>6. ASSUME NEW th \in Threads, NEW t \in Tracers, Destroy(th, t) PROVE TypeOK'
  BY <1>6 DEF Destroy
<1>7. ASSUME NEW th \in Threads, Unregister(th) PROVE TypeOK'
  BY <1>7 DEF Unregister
<1>8. ASSUME NEW th \in Threads, ClearContexts(th) PROVE TypeOK'
  BY <1>8 DEF ClearContexts, DeleteMap, Empty
<1>9. ASSUME NEW th \in Threads, ClearSpans(th) PROVE TypeOK'
  BY <1>9 DEF ClearSpans, DeleteMap, Empty
<1>10. ASSUME NEW th \in Threads, NEW t \in Tracers, NEW s \in Spans, StartSpan(th, t, s) PROVE TypeOK'
  BY <1>10 DEF StartSpan
<1>11. ASSUME NEW th \in Threads, NEW t \in Tracers, NEW c \in Contexts, ExtractContext(th, t, c) PROVE TypeOK'
  BY <1>11 DEF ExtractContext
<1>12. ASSUME NEW th \in Threads, NEW c \in Contexts, CreateContext(th, c) PROVE TypeOK'
  BY <1>12 DEF CreateContext
<1>13. ASSUME NEW th \in Threads, NewHandle(th) PROVE TypeOK'
  BY <1>13 DEF NewHandle
<1>14. ASSUME NEW th \in Threads, StartSdkSpan(th) PROVE TypeOK'
  BY <1>14 DEF StartSdkSpan
<1>15. ASSUME NEW th \in Threads, WrapContext(th) PROVE TypeOK'
  BY <1>15 DEF WrapContext
<1>16. ASSUME NEW th \in Threads, Emplace(th) PROVE TypeOK'
  <2> DEFINE h == call[th].h
  <2>1. h \in Handles /\ KindOf(h) \in Kinds /\ idx[h] \in Nat
    BY <1>16 DEF Emplace, CallHandles
  <2>2. CASE /\ idx[h] \notin DOMAIN slots[KindOf(h)]
             /\ slots' = [slots EXCEPT ![KindOf(h)] = Insert(slots[KindOf(h)], idx[h], h)]
             /\ sdk' = sdk /\ hstate' = [hstate EXCEPT ![h] = "held"]
    <3>1. SlotsTyped'
      <4> DEFINE k == KindOf(h)
      <4>1. h \in OfKind(k) /\ k \in Kinds
        BY <2>1
      <4> HIDE DEF h, k, HandleInv
      <4> QED
        BY <2>1, <2>2, <4>1, InsertKeepsTypes
    <3>2. sdk' \in [Handles -> {"none", "recording", "ended"}]
      BY <2>2
    <3>3. hstate' \in [Handles -> {"unused", "building", "held", "freed"}]
      BY <2>2
    <3>4. call' \in [Threads -> [pc : Points, t : Tracers \cup {None}, h : Handles \cup {None}, seen : Nat]]
      BY <1>16 DEF Emplace
    <3> QED
      BY <1>16, <3>1, <3>2, <3>3, <3>4 DEF Emplace
  <2>3. CASE slots' = slots
    BY <2>1, <2>3, <1>16, SMTT(20) DEF Emplace
  <2> QED
    BY <1>16, <2>2, <2>3 DEF Emplace
<1>17. ASSUME NEW th \in Threads, Undo(th) PROVE TypeOK'
  <2>1. call[th].h \in Handles /\ NolockDestroy(call[th].h)
    BY <1>17 DEF Undo
  <2>2. SlotsTyped' /\ sdk' \in [Handles -> {"none", "recording", "ended"}]
    BY <2>1, DestroyKeepsTypes
  <2> QED
    BY <1>17, <2>1, <2>2, DestroyEffect DEF Undo
<1>18. ASSUME NEW th \in Threads, NEW h \in Handles, Release(th, h) PROVE TypeOK'
  BY <1>18 DEF Release
<1>19. ASSUME NEW th \in Threads, FinishRelease(th) PROVE TypeOK'
  <2>1. call[th].h \in Handles /\ NolockDestroy(call[th].h)
    BY <1>19 DEF FinishRelease
  <2>2. SlotsTyped' /\ sdk' \in [Handles -> {"none", "recording", "ended"}]
    BY <2>1, DestroyKeepsTypes
  <2> QED
    BY <1>19, <2>1, <2>2, DestroyEffect DEF FinishRelease
<1>20. ASSUME NEW th \in Threads, NEW h \in Handles, Read(th, h) PROVE TypeOK'
  BY <1>20 DEF Read
<1>21. ASSUME NEW th \in Threads, FinishRead(th) PROVE TypeOK'
  BY <1>21 DEF FinishRead
<1>22. CASE UNCHANGED vars
  BY <1>22
<1> QED
  BY <1>1, <1>2, <1>3, <1>4, <1>5, <1>6, <1>7, <1>8, <1>9, <1>10, <1>11, <1>12, <1>13, <1>14,
     <1>15, <1>16, <1>17, <1>18, <1>19, <1>20, <1>21, <1>22 DEF Next, Begin, Continue

LEMMA ShapeStep == ASSUME HandleAssumption, HandleInv, [Next]_vars PROVE CallShape'
<1> USE DEF CallShape, CreationPoints, ReleasePoints, TracerPoints, Points
<1>0. /\ call \in [Threads -> [pc : Points, t : Tracers \cup {None}, h : Handles \cup {None},
                              seen : Nat]]
      /\ CallShape
  BY DEF HandleInv, TypeOK
<1>1. ASSUME NEW th \in Threads, NEW t \in Tracers, Create(th, t) PROVE CallShape'
  BY <1>0, <1>1 DEF Create
<1>2. ASSUME NEW th \in Threads, Register(th) PROVE CallShape'
  BY <1>0, <1>2 DEF Register
<1>3. ASSUME NEW th \in Threads, InitSpanMap(th) PROVE CallShape'
  BY <1>0, <1>3 DEF InitSpanMap
<1>4. ASSUME NEW th \in Threads, InitContextMap(th) PROVE CallShape'
  BY <1>0, <1>4 DEF InitContextMap
<1>5. ASSUME NEW th \in Threads, Resolve(th) PROVE CallShape'
  BY <1>0, <1>5 DEF Resolve
<1>6. ASSUME NEW th \in Threads, NEW t \in Tracers, Destroy(th, t) PROVE CallShape'
  BY <1>0, <1>6 DEF Destroy
<1>7. ASSUME NEW th \in Threads, Unregister(th) PROVE CallShape'
  BY <1>0, <1>7 DEF Unregister
<1>8. ASSUME NEW th \in Threads, ClearContexts(th) PROVE CallShape'
  BY <1>0, <1>8 DEF ClearContexts
<1>9. ASSUME NEW th \in Threads, ClearSpans(th) PROVE CallShape'
  BY <1>0, <1>9 DEF ClearSpans
<1>10. ASSUME NEW th \in Threads, NEW t \in Tracers, NEW s \in Spans, StartSpan(th, t, s) PROVE CallShape'
  BY <1>0, <1>10 DEF StartSpan
<1>11. ASSUME NEW th \in Threads, NEW t \in Tracers, NEW c \in Contexts, ExtractContext(th, t, c) PROVE CallShape'
  BY <1>0, <1>11 DEF ExtractContext
<1>12. ASSUME NEW th \in Threads, NEW c \in Contexts, CreateContext(th, c) PROVE CallShape'
  BY <1>0, <1>12 DEF CreateContext
<1>13. ASSUME NEW th \in Threads, NewHandle(th) PROVE CallShape'
  BY <1>0, <1>13 DEF NewHandle
<1>14. ASSUME NEW th \in Threads, StartSdkSpan(th) PROVE CallShape'
  BY <1>0, <1>14 DEF StartSdkSpan
<1>15. ASSUME NEW th \in Threads, WrapContext(th) PROVE CallShape'
  BY <1>0, <1>15 DEF WrapContext
<1>16. ASSUME NEW th \in Threads, Emplace(th) PROVE CallShape'
  BY <1>0, <1>16 DEF Emplace
<1>17. ASSUME NEW th \in Threads, Undo(th) PROVE CallShape'
  BY <1>0, <1>17 DEF Undo
<1>18. ASSUME NEW th \in Threads, NEW h \in Handles, Release(th, h) PROVE CallShape'
  BY <1>0, <1>18 DEF Release
<1>19. ASSUME NEW th \in Threads, FinishRelease(th) PROVE CallShape'
  BY <1>0, <1>19 DEF FinishRelease
<1>20. ASSUME NEW th \in Threads, NEW h \in Handles, Read(th, h) PROVE CallShape'
  BY <1>0, <1>20 DEF Read
<1>21. ASSUME NEW th \in Threads, FinishRead(th) PROVE CallShape'
  BY <1>0, <1>21 DEF FinishRead
<1>22. CASE UNCHANGED vars
  BY <1>0, <1>22
<1> QED
  BY <1>1, <1>2, <1>3, <1>4, <1>5, <1>6, <1>7, <1>8, <1>9, <1>10, <1>11, <1>12, <1>13, <1>14,
     <1>15, <1>16, <1>17, <1>18, <1>19, <1>20, <1>21, <1>22 DEF Next, Begin, Continue

LEMMA CallHandlesStep == ASSUME HandleAssumption, HandleInv, [Next]_vars PROVE CallHandles'
<1> USE DEF HandleAssumption, HandleInv, TypeOK, CallShape, CallHandles, IndexesDrawnOnce,
  SlotsOwned, CreationPoints, ReleasePoints, TracerPoints, Points
<1>1. ASSUME NEW th \in Threads, NEW t \in Tracers, Create(th, t) PROVE CallHandles'
  BY <1>1 DEF Create
<1>2. ASSUME NEW th \in Threads, Register(th) PROVE CallHandles'
  BY <1>2 DEF Register
<1>3. ASSUME NEW th \in Threads, InitSpanMap(th) PROVE CallHandles'
  BY <1>3, SMTT(20) DEF InitSpanMap
<1>4. ASSUME NEW th \in Threads, InitContextMap(th) PROVE CallHandles'
  BY <1>4, SMTT(20) DEF InitContextMap
<1>5. ASSUME NEW th \in Threads, Resolve(th) PROVE CallHandles'
  BY <1>5 DEF Resolve
<1>6. ASSUME NEW th \in Threads, NEW t \in Tracers, Destroy(th, t) PROVE CallHandles'
  BY <1>6 DEF Destroy
<1>7. ASSUME NEW th \in Threads, Unregister(th) PROVE CallHandles'
  BY <1>7 DEF Unregister
<1>8. ASSUME NEW th \in Threads, ClearContexts(th) PROVE CallHandles'
  BY <1>8 DEF ClearContexts
<1>9. ASSUME NEW th \in Threads, ClearSpans(th) PROVE CallHandles'
  BY <1>9 DEF ClearSpans
<1>10. ASSUME NEW th \in Threads, NEW t \in Tracers, NEW s \in Spans, StartSpan(th, t, s) PROVE CallHandles'
  BY <1>10, UnusedHasNoUser DEF StartSpan
<1>11. ASSUME NEW th \in Threads, NEW t \in Tracers, NEW c \in Contexts, ExtractContext(th, t, c) PROVE CallHandles'
  BY <1>11, UnusedHasNoUser DEF ExtractContext
<1>12. ASSUME NEW th \in Threads, NEW c \in Contexts, CreateContext(th, c) PROVE CallHandles'
  BY <1>12, UnusedHasNoUser DEF CreateContext
<1>13. ASSUME NEW th \in Threads, NewHandle(th) PROVE CallHandles'
  BY <1>13, SMTT(20) DEF NewHandle
<1>14. ASSUME NEW th \in Threads, StartSdkSpan(th) PROVE CallHandles'
  BY <1>14 DEF StartSdkSpan
<1>15. ASSUME NEW th \in Threads, WrapContext(th) PROVE CallHandles'
  BY <1>15, SMTT(20) DEF WrapContext
<1>16. ASSUME NEW th \in Threads, Emplace(th) PROVE CallHandles'
  <2>1. call[th].h \in Handles /\ \A u \in Threads \ {th} : call[u].h # call[th].h
    BY <1>16 DEF Emplace
  <2>2. \A h \in Handles \ {call[th].h} : hstate'[h] = hstate[h] /\ sdk'[h] = sdk[h]
    BY <2>1, <1>16 DEF Emplace
  <2>3. idx' = idx /\ call' = [call EXCEPT ![th] = Idle]
    BY <1>16 DEF Emplace
  <2> QED
    BY <2>1, <2>2, <2>3
<1>17. ASSUME NEW th \in Threads, Undo(th) PROVE CallHandles'
  <2>1. call[th].h \in Handles /\ NolockDestroy(call[th].h)
    BY <1>17 DEF Undo
  <2>2. hstate' = [hstate EXCEPT ![call[th].h] = "freed"]
    BY <2>1, DestroyEffect
  <2>3. \A h \in Handles : sdk'[h] # sdk[h] => h = call[th].h
    BY <2>1, DestroyEffect
  <2> QED
    BY <1>17, <2>1, <2>2, <2>3 DEF Undo
<1>18. ASSUME NEW th \in Threads, NEW h \in Handles, Release(th, h) PROVE CallHandles'
  BY <1>18 DEF Release, Users
<1>19. ASSUME NEW th \in Threads, FinishRelease(th) PROVE CallHandles'
  <2>1. call[th].h \in Handles /\ NolockDestroy(call[th].h)
    BY <1>19 DEF FinishRelease
  <2>2. hstate' = [hstate EXCEPT ![call[th].h] = "freed"]
    BY <2>1, DestroyEffect
  <2>3. \A h \in Handles : sdk'[h] # sdk[h] => h = call[th].h
    BY <2>1, DestroyEffect
  <2> QED
    BY <1>19, <2>1, <2>2, <2>3 DEF FinishRelease
<1>20. ASSUME NEW th \in Threads, NEW h \in Handles, Read(th, h) PROVE CallHandles'
  BY <1>20 DEF Read, Users, Releasing
<1>21. ASSUME NEW th \in Threads, FinishRead(th) PROVE CallHandles'
  BY <1>21 DEF FinishRead
<1>22. CASE UNCHANGED vars
  BY <1>22
<1> QED
  BY <1>1, <1>2, <1>3, <1>4, <1>5, <1>6, <1>7, <1>8, <1>9, <1>10, <1>11, <1>12, <1>13, <1>14,
     <1>15, <1>16, <1>17, <1>18, <1>19, <1>20, <1>21, <1>22, SMTT(20) DEF Next, Begin, Continue

LEMMA IndexStep == ASSUME HandleAssumption, HandleInv, [Next]_vars PROVE IndexesDrawnOnce'
<1> USE DEF HandleAssumption, HandleInv, TypeOK, CallShape, CallHandles, IndexesDrawnOnce,
  SlotsOwned, NextIndex, CreationPoints, ReleasePoints, TracerPoints, Points
<1>1. ASSUME NEW th \in Threads, NEW t \in Tracers, Create(th, t) PROVE IndexesDrawnOnce'
  BY <1>1 DEF Create
<1>2. ASSUME NEW th \in Threads, Register(th) PROVE IndexesDrawnOnce'
  BY <1>2 DEF Register
<1>3. ASSUME NEW th \in Threads, InitSpanMap(th) PROVE IndexesDrawnOnce'
  BY <1>3 DEF InitSpanMap, AllocateMap, AllocateFrom
<1>4. ASSUME NEW th \in Threads, InitContextMap(th) PROVE IndexesDrawnOnce'
  BY <1>4 DEF InitContextMap, AllocateMap, AllocateFrom
<1>5. ASSUME NEW th \in Threads, Resolve(th) PROVE IndexesDrawnOnce'
  BY <1>5 DEF Resolve
<1>6. ASSUME NEW th \in Threads, NEW t \in Tracers, Destroy(th, t) PROVE IndexesDrawnOnce'
  BY <1>6 DEF Destroy
<1>7. ASSUME NEW th \in Threads, Unregister(th) PROVE IndexesDrawnOnce'
  BY <1>7 DEF Unregister
<1>8. ASSUME NEW th \in Threads, ClearContexts(th) PROVE IndexesDrawnOnce'
  BY <1>8 DEF ClearContexts, DeleteMap
<1>9. ASSUME NEW th \in Threads, ClearSpans(th) PROVE IndexesDrawnOnce'
  BY <1>9 DEF ClearSpans, DeleteMap
<1>10. ASSUME NEW th \in Threads, NEW t \in Tracers, NEW s \in Spans, StartSpan(th, t, s) PROVE IndexesDrawnOnce'
  BY <1>10 DEF StartSpan
<1>11. ASSUME NEW th \in Threads, NEW t \in Tracers, NEW c \in Contexts, ExtractContext(th, t, c) PROVE IndexesDrawnOnce'
  BY <1>11 DEF ExtractContext
<1>12. ASSUME NEW th \in Threads, NEW c \in Contexts, CreateContext(th, c) PROVE IndexesDrawnOnce'
  BY <1>12 DEF CreateContext
<1>13. ASSUME NEW th \in Threads, NewHandle(th) PROVE IndexesDrawnOnce'
  BY <1>13 DEF NewHandle
<1>14. ASSUME NEW th \in Threads, StartSdkSpan(th) PROVE IndexesDrawnOnce'
  BY <1>14 DEF StartSdkSpan
<1>15. ASSUME NEW th \in Threads, WrapContext(th) PROVE IndexesDrawnOnce'
  BY <1>15 DEF WrapContext
<1>16. ASSUME NEW th \in Threads, Emplace(th) PROVE IndexesDrawnOnce'
  BY <1>16 DEF Emplace
<1>17. ASSUME NEW th \in Threads, Undo(th) PROVE IndexesDrawnOnce'
  <2>1. call[th].h \in Handles /\ NolockDestroy(call[th].h)
    BY <1>17 DEF Undo
  <2>2. UNCHANGED <<map, base, nextId, idx>>
    BY <1>17 DEF Undo
  <2>3. \A h \in Handles : hstate'[h] = "unused" => h # call[th].h /\ hstate[h] = "unused" /\ sdk'[h] = sdk[h]
    BY <2>1, DestroyEffect
  <2> QED
    BY <2>2, <2>3
<1>18. ASSUME NEW th \in Threads, NEW h \in Handles, Release(th, h) PROVE IndexesDrawnOnce'
  BY <1>18 DEF Release
<1>19. ASSUME NEW th \in Threads, FinishRelease(th) PROVE IndexesDrawnOnce'
  <2>1. call[th].h \in Handles /\ NolockDestroy(call[th].h)
    BY <1>19 DEF FinishRelease
  <2>2. UNCHANGED <<map, base, nextId, idx>>
    BY <1>19 DEF FinishRelease
  <2>3. \A h \in Handles : hstate'[h] = "unused" => h # call[th].h /\ hstate[h] = "unused" /\ sdk'[h] = sdk[h]
    BY <2>1, DestroyEffect
  <2> QED
    BY <2>2, <2>3
<1>20. ASSUME NEW th \in Threads, NEW h \in Handles, Read(th, h) PROVE IndexesDrawnOnce'
  BY <1>20 DEF Read
<1>21. ASSUME NEW th \in Threads, FinishRead(th) PROVE IndexesDrawnOnce'
  BY <1>21 DEF FinishRead
<1>22. CASE UNCHANGED vars
  BY <1>22
<1> QED
  BY <1>1, <1>2, <1>3, <1>4, <1>5, <1>6, <1>7, <1>8, <1>9, <1>10, <1>11, <1>12, <1>13, <1>14,
     <1>15, <1>16, <1>17, <1>18, <1>19, <1>20, <1>21, <1>22 DEF Next, Begin, Continue

LEMMA SlotsStep == ASSUME HandleAssumption, HandleInv, [Next]_vars PROVE SlotsOwned'
<1> USE DEF HandleAssumption, HandleInv, TypeOK, CallShape, CallHandles, IndexesDrawnOnce,
  SlotsOwned, CreationPoints, ReleasePoints, TracerPoints, Points
<1>1. ASSUME NEW th \in Threads, NEW t \in Tracers, Create(th, t) PROVE SlotsOwned'
  BY <1>1 DEF Create
<1>2. ASSUME NEW th \in Threads, Register(th) PROVE SlotsOwned'
  BY <1>2 DEF Register
<1>3. ASSUME NEW th \in Threads, InitSpanMap(th) PROVE SlotsOwned'
  <2>1. CASE AllocateMap("span")
    <3>1. UNCHANGED <<idx, hstate>>
      BY <1>3 DEF InitSpanMap
    <3> QED
      BY <2>1, <3>1, AllocateEffect
  <2>2. CASE UNCHANGED mapVars
    BY <1>3, <2>2 DEF InitSpanMap
  <2> QED
    BY <1>3, <2>1, <2>2 DEF InitSpanMap
<1>4. ASSUME NEW th \in Threads, InitContextMap(th) PROVE SlotsOwned'
  <2>1. CASE AllocateMap("context")
    <3>1. UNCHANGED <<idx, hstate>>
      BY <1>4 DEF InitContextMap
    <3> QED
      BY <2>1, <3>1, AllocateEffect
  <2>2. CASE UNCHANGED mapVars
    BY <1>4, <2>2 DEF InitContextMap
  <2> QED
    BY <1>4, <2>1, <2>2 DEF InitContextMap
<1>5. ASSUME NEW th \in Threads, Resolve(th) PROVE SlotsOwned'
  BY <1>5 DEF Resolve
<1>6. ASSUME NEW th \in Threads, NEW t \in Tracers, Destroy(th, t) PROVE SlotsOwned'
  BY <1>6 DEF Destroy
<1>7. ASSUME NEW th \in Threads, Unregister(th) PROVE SlotsOwned'
  BY <1>7 DEF Unregister
<1>8. ASSUME NEW th \in Threads, ClearContexts(th) PROVE SlotsOwned'
  BY <1>8 DEF ClearContexts, DeleteMap, Empty
<1>9. ASSUME NEW th \in Threads, ClearSpans(th) PROVE SlotsOwned'
  BY <1>9 DEF ClearSpans, DeleteMap, Empty
<1>10. ASSUME NEW th \in Threads, NEW t \in Tracers, NEW s \in Spans, StartSpan(th, t, s) PROVE SlotsOwned'
  BY <1>10 DEF StartSpan
<1>11. ASSUME NEW th \in Threads, NEW t \in Tracers, NEW c \in Contexts, ExtractContext(th, t, c) PROVE SlotsOwned'
  BY <1>11 DEF ExtractContext
<1>12. ASSUME NEW th \in Threads, NEW c \in Contexts, CreateContext(th, c) PROVE SlotsOwned'
  BY <1>12 DEF CreateContext
<1>13. ASSUME NEW th \in Threads, NewHandle(th) PROVE SlotsOwned'
  BY <1>13 DEF NewHandle
<1>14. ASSUME NEW th \in Threads, StartSdkSpan(th) PROVE SlotsOwned'
  BY <1>14 DEF StartSdkSpan
<1>15. ASSUME NEW th \in Threads, WrapContext(th) PROVE SlotsOwned'
  BY <1>15 DEF WrapContext
<1>16. ASSUME NEW th \in Threads, Emplace(th) PROVE SlotsOwned'
  <2> DEFINE h == call[th].h
             k == KindOf(h)
  <2>1. /\ h \in Handles /\ k \in Kinds /\ h \in OfKind(k) /\ hstate[h] = "building"
        /\ map[k] # 0 /\ UNCHANGED <<idx, map>>
    BY <1>16 DEF Emplace
  <2>2. CASE /\ idx[h] \notin DOMAIN slots[k]
             /\ slots' = [slots EXCEPT ![k] = Insert(slots[k], idx[h], h)]
             /\ hstate' = [hstate EXCEPT ![h] = "held"]
    <3> HIDE DEF h, k, HandleInv, HandleAssumption, SlotsOwned
    <3> QED
      BY <2>1, <2>2, InsertKeepsSlotsOwned
  <2>3. CASE slots' = slots /\ hstate' = [hstate EXCEPT ![h] = "freed"]
    BY <2>1, <2>3
  <2> QED
    BY <1>16, <2>2, <2>3 DEF Emplace
<1>17. ASSUME NEW th \in Threads, Undo(th) PROVE SlotsOwned'
  <2>1. call[th].h \in Handles /\ NolockDestroy(call[th].h) /\ UNCHANGED <<idx, map>>
    BY <1>17 DEF Undo
  <2> QED
    BY <2>1, EraseKeepsSlotsOwned
<1>18. ASSUME NEW th \in Threads, NEW h \in Handles, Release(th, h) PROVE SlotsOwned'
  BY <1>18 DEF Release
<1>19. ASSUME NEW th \in Threads, FinishRelease(th) PROVE SlotsOwned'
  <2>1. call[th].h \in Handles /\ NolockDestroy(call[th].h) /\ UNCHANGED <<idx, map>>
    BY <1>19 DEF FinishRelease
  <2> QED
    BY <2>1, EraseKeepsSlotsOwned
<1>20. ASSUME NEW th \in Threads, NEW h \in Handles, Read(th, h) PROVE SlotsOwned'
  BY <1>20 DEF Read
<1>21. ASSUME NEW th \in Threads, FinishRead(th) PROVE SlotsOwned'
  BY <1>21 DEF FinishRead
<1>22. CASE UNCHANGED vars
  BY <1>22
<1> QED
  BY <1>1, <1>2, <1>3, <1>4, <1>5, <1>6, <1>7, <1>8, <1>9, <1>10, <1>11, <1>12, <1>13, <1>14,
     <1>15, <1>16, <1>17, <1>18, <1>19, <1>20, <1>21, <1>22 DEF Next, Begin, Continue

LEMMA LostStep == ASSUME HandleAssumption, HandleInv, Recorded, [Next]_vars PROVE Recorded'
<1> USE DEF HandleAssumption, HandleInv, TypeOK, CallShape, CallHandles, IndexesDrawnOnce,
  SlotsOwned, Recorded, CreationPoints, ReleasePoints, TracerPoints, Points
<1>1. ASSUME NEW th \in Threads, NEW t \in Tracers, Create(th, t) PROVE Recorded'
  BY <1>1 DEF Create
<1>2. ASSUME NEW th \in Threads, Register(th) PROVE Recorded'
  BY <1>2 DEF Register
<1>3. ASSUME NEW th \in Threads, InitSpanMap(th) PROVE Recorded'
  <2>1. CASE AllocateMap("span")
    <3>1. UNCHANGED <<idx, sdk>> /\ \A u \in Threads : At(u, "emplace")' <=> At(u, "emplace")
      BY <1>3 DEF InitSpanMap
    <3>2. \A u \in Threads : call'[u].h = call[u].h
      BY <1>3 DEF InitSpanMap
    <3>3. DOMAIN slots'["span"] = DOMAIN slots["span"]
      BY <2>1, AllocateEffect
    <3> QED
      BY <3>1, <3>2, <3>3
  <2>2. CASE UNCHANGED mapVars
    <3>1. UNCHANGED <<slots, idx, sdk>> /\ \A u \in Threads : At(u, "emplace")' <=> At(u, "emplace")
      BY <1>3, <2>2 DEF InitSpanMap
    <3>2. \A u \in Threads : call'[u].h = call[u].h
      BY <1>3 DEF InitSpanMap
    <3> QED
      BY <3>1, <3>2
  <2> QED
    BY <1>3, <2>1, <2>2 DEF InitSpanMap
<1>4. ASSUME NEW th \in Threads, InitContextMap(th) PROVE Recorded'
  <2>1. CASE AllocateMap("context")
    <3>1. UNCHANGED <<idx, sdk>> /\ \A u \in Threads : At(u, "emplace")' <=> At(u, "emplace")
      BY <1>4 DEF InitContextMap
    <3>2. \A u \in Threads : call'[u].h = call[u].h
      BY <1>4 DEF InitContextMap
    <3>3. DOMAIN slots'["span"] = DOMAIN slots["span"]
      BY <2>1, AllocateEffect
    <3> QED
      BY <3>1, <3>2, <3>3
  <2>2. CASE UNCHANGED mapVars
    <3>1. UNCHANGED <<slots, idx, sdk>> /\ \A u \in Threads : At(u, "emplace")' <=> At(u, "emplace")
      BY <1>4, <2>2 DEF InitContextMap
    <3>2. \A u \in Threads : call'[u].h = call[u].h
      BY <1>4 DEF InitContextMap
    <3> QED
      BY <3>1, <3>2
  <2> QED
    BY <1>4, <2>1, <2>2 DEF InitContextMap
<1>5. ASSUME NEW th \in Threads, Resolve(th) PROVE Recorded'
  BY <1>5, SMTT(20) DEF Resolve
<1>6. ASSUME NEW th \in Threads, NEW t \in Tracers, Destroy(th, t) PROVE Recorded'
  BY <1>6 DEF Destroy
<1>7. ASSUME NEW th \in Threads, Unregister(th) PROVE Recorded'
  BY <1>7 DEF Unregister
<1>8. ASSUME NEW th \in Threads, ClearContexts(th) PROVE Recorded'
  BY <1>8 DEF ClearContexts, DeleteMap, Empty
<1>9. ASSUME NEW th \in Threads, ClearSpans(th) PROVE Recorded'
  BY <1>9 DEF ClearSpans, DeleteMap, Empty
<1>10. ASSUME NEW th \in Threads, NEW t \in Tracers, NEW s \in Spans, StartSpan(th, t, s) PROVE Recorded'
  BY <1>10 DEF StartSpan
<1>11. ASSUME NEW th \in Threads, NEW t \in Tracers, NEW c \in Contexts, ExtractContext(th, t, c) PROVE Recorded'
  BY <1>11 DEF ExtractContext
<1>12. ASSUME NEW th \in Threads, NEW c \in Contexts, CreateContext(th, c) PROVE Recorded'
  BY <1>12 DEF CreateContext
<1>13. ASSUME NEW th \in Threads, NewHandle(th) PROVE Recorded'
  <2>1. call[th].h \in Handles /\ slots' = slots /\ sdk' = sdk /\ idx[call[th].h] \notin DOMAIN slots["span"]
    BY <1>13 DEF NewHandle
  <2>2. \A u \in Threads : At(u, "emplace")' <=> At(u, "emplace")
    BY <1>13 DEF NewHandle
  <2>3. \A u \in Threads : At(u, "emplace") => call'[u].h = call[u].h
    BY <1>13 DEF NewHandle
  <2>4. \A s \in Spans : idx'[s] \in DOMAIN slots["span"] <=> idx[s] \in DOMAIN slots["span"]
    BY <1>13, <2>1, FreshIndex DEF NewHandle
  <2> QED
    BY <2>1, <2>2, <2>3, <2>4
<1>14. ASSUME NEW th \in Threads, StartSdkSpan(th) PROVE Recorded'
  BY <1>14, SMTT(20) DEF StartSdkSpan
<1>15. ASSUME NEW th \in Threads, WrapContext(th) PROVE Recorded'
  BY <1>15, SMTT(20) DEF WrapContext
<1>16. ASSUME NEW th \in Threads, Emplace(th) PROVE Recorded'
  <2> DEFINE h == call[th].h
  <2>1. h \in Handles /\ KindOf(h) \in Kinds /\ DOMAIN slots = Kinds
    BY <1>16 DEF Emplace
  <2>2. idx' = idx /\ \A u \in Threads : call'[u] = IF u = th THEN Idle ELSE call[u]
    BY <1>16 DEF Emplace
  <2>3. At(th, "emplace") /\ \A u \in Threads \ {th} : call[u].h # h
    BY <1>16 DEF Emplace
  <2>4. CASE /\ idx[h] \notin DOMAIN slots[KindOf(h)] /\ sdk' = sdk
             /\ slots' = [slots EXCEPT ![KindOf(h)] = Insert(slots[KindOf(h)], idx[h], h)]
    <3>1. DOMAIN slots'["span"] = DOMAIN slots["span"] \cup (IF "span" = KindOf(h) THEN {idx[h]} ELSE {})
      BY <2>1, <2>4, InsertEffect, Zenon
    <3>2. idx[h] # -1
      BY <1>16 DEF Emplace
    <3>3. \A s \in Spans : s # h => KindOf(h) = "context" \/ idx[s] # idx[h]
      BY <2>1, <3>2
    <3>4. \A s \in Spans : s = h => KindOf(h) = "span"
      OBVIOUS
    <3>5. \A s \in Spans : idx[s] \in DOMAIN slots'["span"] <=> (idx[s] \in DOMAIN slots["span"] \/ s = h)
      BY <3>1, <3>3, <3>4
    <3>6. ASSUME NEW s \in Spans, s # h
          PROVE  (\E u \in Threads : At(u, "emplace") /\ call[u].h = s)
                  <=> (\E u \in Threads : At(u, "emplace")' /\ call'[u].h = s)
      BY <2>2, <3>6
    <3>7. ASSUME NEW s \in Spans, s = h PROVE sdk'[s] = "recording"
      BY <2>3, <2>4, <3>7
    <3>8. \A s \in Spans : sdk'[s] = sdk[s]
      BY <2>4
    <3>9. ASSUME NEW s \in Spans, s = h
          PROVE  (sdk'[s] = "recording") <=>
                   (idx'[s] \in DOMAIN slots'["span"] \/ \E u \in Threads : At(u, "emplace")' /\ call'[u].h = s)
      BY <2>2, <3>5, <3>7, <3>9
    <3>10. ASSUME NEW s \in Spans, s # h
           PROVE  (sdk'[s] = "recording") <=>
                   (idx'[s] \in DOMAIN slots'["span"] \/ \E u \in Threads : At(u, "emplace")' /\ call'[u].h = s)
      <4>1. (sdk[s] = "recording") <=>
              (idx[s] \in DOMAIN slots["span"] \/ \E u \in Threads : At(u, "emplace") /\ call[u].h = s)
        BY DEF Recorded
      <4> QED
        BY <2>2, <3>5, <3>6, <3>8, <3>10, <4>1
    <3> QED
      BY <3>9, <3>10
  <2>5. CASE slots' = slots /\ sdk' = [sdk EXCEPT ![h] = IF h \in Spans THEN "ended" ELSE @]
    <3>1. hstate[h] = "building"
      BY <1>16 DEF Emplace
    <3>2. \A s \in Spans : s = h => idx[s] \notin DOMAIN slots'["span"]
      BY <3>1, <2>5
    <3>3. \A s \in Spans : sdk'[s] = IF s = h THEN "ended" ELSE sdk[s]
      BY <2>5
    <3> QED
      BY <2>2, <2>3, <2>5, <3>2, <3>3, SMTT(20)
  <2> QED
    BY <1>16, <2>4, <2>5 DEF Emplace
<1>17. ASSUME NEW th \in Threads, Undo(th) PROVE Recorded'
  <2>1. call[th].h \in Handles /\ NolockDestroy(call[th].h)
    BY <1>17 DEF Undo
  <2>2. \A s \in Spans :
           /\ idx[s] \in DOMAIN slots'["span"] <=> (idx[s] \in DOMAIN slots["span"] /\ s # call[th].h)
           /\ sdk'[s] = IF s = call[th].h /\ idx[call[th].h] \in DOMAIN slots["span"] THEN "ended" ELSE sdk[s]
    BY <2>1, DestroyEndsOwn
  <2>3. idx' = idx /\ \A u \in Threads : call'[u] = IF u = th THEN Idle ELSE call[u]
    BY <1>17 DEF Undo
  <2>4. ~At(th, "emplace") /\ \A u \in Threads : At(u, "emplace") => call[u].h # call[th].h
    BY <1>17 DEF Undo
  <2>5. idx[call[th].h] \notin DOMAIN slots["span"] => \A s \in Spans : s = call[th].h => sdk[s] # "recording"
    BY <2>1, <2>4
  <2> QED
    BY <2>2, <2>3, <2>4, <2>5
<1>18. ASSUME NEW th \in Threads, NEW h \in Handles, Release(th, h) PROVE Recorded'
  BY <1>18 DEF Release
<1>19. ASSUME NEW th \in Threads, FinishRelease(th) PROVE Recorded'
  <2>1. call[th].h \in Handles /\ NolockDestroy(call[th].h)
    BY <1>19 DEF FinishRelease
  <2>2. \A s \in Spans :
           /\ idx[s] \in DOMAIN slots'["span"] <=> (idx[s] \in DOMAIN slots["span"] /\ s # call[th].h)
           /\ sdk'[s] = IF s = call[th].h /\ idx[call[th].h] \in DOMAIN slots["span"] THEN "ended" ELSE sdk[s]
    BY <2>1, DestroyEndsOwn
  <2>3. idx' = idx /\ \A u \in Threads : call'[u] = IF u = th THEN Idle ELSE call[u]
    BY <1>19 DEF FinishRelease
  <2>4. ~At(th, "emplace") /\ \A u \in Threads : At(u, "emplace") => call[u].h # call[th].h
    BY <1>19 DEF FinishRelease
  <2>5. idx[call[th].h] \notin DOMAIN slots["span"] => \A s \in Spans : s = call[th].h => sdk[s] # "recording"
    BY <2>1, <2>4
  <2> QED
    BY <2>2, <2>3, <2>4, <2>5
<1>20. ASSUME NEW th \in Threads, NEW h \in Handles, Read(th, h) PROVE Recorded'
  BY <1>20 DEF Read
<1>21. ASSUME NEW th \in Threads, FinishRead(th) PROVE Recorded'
  BY <1>21 DEF FinishRead
<1>22. CASE UNCHANGED vars
  BY <1>22
<1> QED
  BY <1>1, <1>2, <1>3, <1>4, <1>5, <1>6, <1>7, <1>8, <1>9, <1>10, <1>11, <1>12, <1>13, <1>14,
     <1>15, <1>16, <1>17, <1>18, <1>19, <1>20, <1>21, <1>22 DEF Next, Begin, Continue

LEMMA HandleStep == ASSUME HandleAssumption, HandleInv, [Next]_vars PROVE HandleInv'
<1>1. TypeOK' /\ CallShape' /\ CallHandles' /\ IndexesDrawnOnce' /\ SlotsOwned'
  BY TypeStep, ShapeStep, CallHandlesStep, IndexStep, SlotsStep
<1>2. Recorded
  BY FoundIffIndexed DEF HandleInv
<1>3. NoLostSpan'
  BY <1>1, <1>2, LostStep, FoundIffIndexedNext
<1> QED
  BY <1>1, <1>3 DEF HandleInv

-----------------------------------------------------------------------------
(* Theorems *)

\* HandleInv is an invariant of the handle maps.
THEOREM HandleInvariant == Spec => []HandleInv
<1>1. Init => HandleInv
  BY HandleInit, HandleAssumption
<1>2. HandleInv /\ [Next]_vars => HandleInv'
  BY HandleStep, HandleAssumption
<1> QED
  BY <1>1, <1>2, PTL DEF Spec

\* Every variable keeps its type, whatever the threads, tracers and handles.
THEOREM TypeCorrect == Spec => []TypeOK
<1>1. HandleInv => TypeOK
  BY DEF HandleInv
<1> QED
  BY <1>1, HandleInvariant, PTL

\* No handle, of this map generation or a destroyed one, ever finds the object of another:
\* numbering goes on across generations (tracer.cpp:46-54, 167-191, 343-371).
THEOREM LookupsFaithful == Spec => []LookupFaithful
<1>1. HandleInv => LookupFaithful
  BY LookupOwn, HandleAssumption DEF LookupFaithful
<1> QED
  BY <1>1, HandleInvariant, PTL

\* An SDK span is recording exactly while the map, or the start_span() in progress, can
\* still end it, on every failure path and through every teardown.
THEOREM NoSpanLost == Spec => []NoLostSpan
<1>1. HandleInv => NoLostSpan
  BY DEF HandleInv
<1> QED
  BY <1>1, HandleInvariant, PTL

-----------------------------------------------------------------------------
(* The count *)

\* Finitely many tracers, finitely many registered ones.
LEMMA FinitelyRegistered == ASSUME HandleAssumption PROVE IsFiniteSet(Registered)
BY FS_Subset DEF HandleAssumption, Registered

\* otel_tracer_count is zero when nobody is registered, and only then.
LEMMA CountZero == ASSUME HandleAssumption, CountBalanced
                   PROVE  count = 0 <=> Registered = {}
BY FinitelyRegistered, FS_EmptySet DEF CountBalanced

-----------------------------------------------------------------------------
(* Each part of the invariant is preserved: one step for each action *)

\* No two calls create or destroy the same tracer.
LEMMA TracerCallsStep == ASSUME HandleAssumption, HandleInv, MapInv, [Next]_vars
  PROVE TracerCalls'
<1> USE DEF HandleInv, MapInv, TypeOK, CallShape, TracerCalls, TracerStates, CreationPoints,
   ReleasePoints, TracerPoints
<1>1. ASSUME NEW th \in Threads, NEW t \in Tracers, Create(th, t) PROVE TracerCalls'
  BY <1>1 DEF Create
<1>2. ASSUME NEW th \in Threads, Register(th) PROVE TracerCalls'
  BY <1>2 DEF Register
<1>3. ASSUME NEW th \in Threads, InitSpanMap(th) PROVE TracerCalls'
  BY <1>3 DEF InitSpanMap, AllocateMap, AllocateFrom
<1>4. ASSUME NEW th \in Threads, InitContextMap(th) PROVE TracerCalls'
  BY <1>4 DEF InitContextMap, AllocateMap, AllocateFrom
<1>5. ASSUME NEW th \in Threads, Resolve(th) PROVE TracerCalls'
  BY <1>5 DEF Resolve
<1>6. ASSUME NEW th \in Threads, NEW t \in Tracers, Destroy(th, t) PROVE TracerCalls'
  BY <1>6 DEF Destroy
<1>7. ASSUME NEW th \in Threads, Unregister(th) PROVE TracerCalls'
  BY <1>7 DEF Unregister
<1>8. ASSUME NEW th \in Threads, ClearContexts(th) PROVE TracerCalls'
  BY <1>8 DEF ClearContexts, DeleteMap
<1>9. ASSUME NEW th \in Threads, ClearSpans(th) PROVE TracerCalls'
  BY <1>9 DEF ClearSpans, DeleteMap
<1>10. ASSUME NEW th \in Threads, NEW t \in Tracers, NEW s \in Spans, StartSpan(th, t, s)
       PROVE TracerCalls'
  BY <1>10 DEF StartSpan
<1>11. ASSUME NEW th \in Threads, NEW t \in Tracers, NEW c \in Contexts, ExtractContext(th, t, c)
       PROVE TracerCalls'
  BY <1>11 DEF ExtractContext
<1>12. ASSUME NEW th \in Threads, NEW c \in Contexts, CreateContext(th, c) PROVE TracerCalls'
  BY <1>12 DEF CreateContext
<1>13. ASSUME NEW th \in Threads, NewHandle(th) PROVE TracerCalls'
  BY <1>13 DEF NewHandle
<1>14. ASSUME NEW th \in Threads, StartSdkSpan(th) PROVE TracerCalls'
  BY <1>14 DEF StartSdkSpan
<1>15. ASSUME NEW th \in Threads, WrapContext(th) PROVE TracerCalls'
  BY <1>15 DEF WrapContext
<1>16. ASSUME NEW th \in Threads, Emplace(th) PROVE TracerCalls'
  <2>1. tstate' = tstate /\ call' = [call EXCEPT ![th] = Idle]
    BY <1>16 DEF Emplace
  <2> QED
    BY <2>1
<1>17. ASSUME NEW th \in Threads, Undo(th) PROVE TracerCalls'
  BY <1>17 DEF Undo
<1>18. ASSUME NEW th \in Threads, NEW h \in Handles, Release(th, h) PROVE TracerCalls'
  BY <1>18 DEF Release
<1>19. ASSUME NEW th \in Threads, FinishRelease(th) PROVE TracerCalls'
  BY <1>19 DEF FinishRelease
<1>20. ASSUME NEW th \in Threads, NEW h \in Handles, Read(th, h) PROVE TracerCalls'
  BY <1>20 DEF Read
<1>21. ASSUME NEW th \in Threads, FinishRead(th) PROVE TracerCalls'
  BY <1>21 DEF FinishRead
<1>22. ASSUME UNCHANGED vars PROVE TracerCalls'
  BY <1>22
<1> QED
  BY <1>1, <1>2, <1>3, <1>4, <1>5, <1>6, <1>7, <1>8, <1>9, <1>10, <1>11, <1>12, <1>13, <1>14,
     <1>15, <1>16, <1>17, <1>18, <1>19, <1>20, <1>21, <1>22
  DEF Next, Begin, Continue

\* Every way out of otel_tracer_register() and _unregister() releases the count mutex.
LEMMA LockStep == ASSUME HandleAssumption, HandleInv, MapInv, [Next]_vars PROVE LockMatchesCalls'
<1> USE DEF HandleAssumption, HandleInv, MapInv, TypeOK, CallShape, LockMatchesCalls, TracerPoints
<1>1. ASSUME NEW th \in Threads, NEW t \in Tracers, Create(th, t) PROVE LockMatchesCalls'
  BY <1>1 DEF Create
<1>2. ASSUME NEW th \in Threads, Register(th) PROVE LockMatchesCalls'
  BY <1>2 DEF Register
<1>3. ASSUME NEW th \in Threads, InitSpanMap(th) PROVE LockMatchesCalls'
  BY <1>3 DEF InitSpanMap, AllocateMap, AllocateFrom
<1>4. ASSUME NEW th \in Threads, InitContextMap(th) PROVE LockMatchesCalls'
  BY <1>4 DEF InitContextMap, AllocateMap, AllocateFrom
<1>5. ASSUME NEW th \in Threads, Resolve(th) PROVE LockMatchesCalls'
  BY <1>5 DEF Resolve
<1>6. ASSUME NEW th \in Threads, NEW t \in Tracers, Destroy(th, t) PROVE LockMatchesCalls'
  BY <1>6 DEF Destroy
<1>7. ASSUME NEW th \in Threads, Unregister(th) PROVE LockMatchesCalls'
  BY <1>7 DEF Unregister
<1>8. ASSUME NEW th \in Threads, ClearContexts(th) PROVE LockMatchesCalls'
  BY <1>8 DEF ClearContexts, DeleteMap
<1>9. ASSUME NEW th \in Threads, ClearSpans(th) PROVE LockMatchesCalls'
  BY <1>9 DEF ClearSpans, DeleteMap
<1>10. ASSUME NEW th \in Threads, NEW t \in Tracers, NEW s \in Spans, StartSpan(th, t, s)
       PROVE LockMatchesCalls'
  BY <1>10 DEF StartSpan
<1>11. ASSUME NEW th \in Threads, NEW t \in Tracers, NEW c \in Contexts, ExtractContext(th, t, c)
       PROVE LockMatchesCalls'
  BY <1>11 DEF ExtractContext
<1>12. ASSUME NEW th \in Threads, NEW c \in Contexts, CreateContext(th, c) PROVE LockMatchesCalls'
  BY <1>12 DEF CreateContext
<1>13. ASSUME NEW th \in Threads, NewHandle(th) PROVE LockMatchesCalls'
  BY <1>13 DEF NewHandle
<1>14. ASSUME NEW th \in Threads, StartSdkSpan(th) PROVE LockMatchesCalls'
  BY <1>14 DEF StartSdkSpan
<1>15. ASSUME NEW th \in Threads, WrapContext(th) PROVE LockMatchesCalls'
  BY <1>15 DEF WrapContext
<1>16. ASSUME NEW th \in Threads, Emplace(th) PROVE LockMatchesCalls'
  BY <1>16 DEF Emplace
<1>17. ASSUME NEW th \in Threads, Undo(th) PROVE LockMatchesCalls'
  BY <1>17 DEF Undo
<1>18. ASSUME NEW th \in Threads, NEW h \in Handles, Release(th, h) PROVE LockMatchesCalls'
  BY <1>18 DEF Release
<1>19. ASSUME NEW th \in Threads, FinishRelease(th) PROVE LockMatchesCalls'
  BY <1>19 DEF FinishRelease
<1>20. ASSUME NEW th \in Threads, NEW h \in Handles, Read(th, h) PROVE LockMatchesCalls'
  BY <1>20 DEF Read
<1>21. ASSUME NEW th \in Threads, FinishRead(th) PROVE LockMatchesCalls'
  BY <1>21 DEF FinishRead
<1>22. ASSUME UNCHANGED vars PROVE LockMatchesCalls'
  BY <1>22
<1> QED
  BY <1>1, <1>2, <1>3, <1>4, <1>5, <1>6, <1>7, <1>8, <1>9, <1>10, <1>11, <1>12, <1>13, <1>14,
     <1>15, <1>16, <1>17, <1>18, <1>19, <1>20, <1>21, <1>22
  DEF Next, Begin, Continue

\* A tracer is counted once and uncounted once, on every failure path.
LEMMA CountStep == ASSUME HandleAssumption, HandleInv, MapInv, [Next]_vars PROVE CountBalanced'
<1> USE DEF HandleInv, MapInv, TypeOK, CallShape, TracerCalls, TracerPoints
<1>1. ASSUME NEW th \in Threads, NEW t \in Tracers, Create(th, t) PROVE CountBalanced'
  <2>1. Registered' = Registered /\ count' = count
    BY <1>1 DEF Create, Registered
  <2> QED
    BY <2>1 DEF CountBalanced, MapsFollowCount
<1>2. ASSUME NEW th \in Threads, Register(th) PROVE CountBalanced'
  <2> DEFINE t == call[th].t
  <2>1. t \in Tracers /\ t \notin Registered
    BY <1>2 DEF Register, Registered
  <2>2. Registered' = Registered \cup {t}
    BY <1>2 DEF Register, Registered, TracerStates
  <2>3. Cardinality(Registered \cup {t}) = Cardinality(Registered) + 1
    BY <2>1, FinitelyRegistered, FS_AddElement
  <2> QED
    BY <1>2, <2>2, <2>3 DEF Register, CountBalanced, MapsFollowCount
<1>3. ASSUME NEW th \in Threads, InitSpanMap(th) PROVE CountBalanced'
  <2>1. Registered' = Registered /\ count' = count
    BY <1>3 DEF InitSpanMap, AllocateMap, AllocateFrom, Registered
  <2> QED
    BY <2>1 DEF CountBalanced, MapsFollowCount
<1>4. ASSUME NEW th \in Threads, InitContextMap(th) PROVE CountBalanced'
  <2>1. Registered' = Registered /\ count' = count
    BY <1>4 DEF InitContextMap, AllocateMap, AllocateFrom, Registered
  <2> QED
    BY <2>1 DEF CountBalanced, MapsFollowCount
<1>5. ASSUME NEW th \in Threads, Resolve(th) PROVE CountBalanced'
  <2>1. Registered' = Registered /\ count' = count
    BY <1>5 DEF Resolve, Registered
  <2> QED
    BY <2>1 DEF CountBalanced, MapsFollowCount
<1>6. ASSUME NEW th \in Threads, NEW t \in Tracers, Destroy(th, t) PROVE CountBalanced'
  <2>1. Registered' = Registered /\ count' = count
    BY <1>6 DEF Destroy, Registered
  <2> QED
    BY <2>1 DEF CountBalanced, MapsFollowCount
<1>7. ASSUME NEW th \in Threads, Unregister(th) PROVE CountBalanced'
  <2> DEFINE t == call[th].t
  <2>1. t \in Registered
    BY <1>7 DEF Unregister, Registered
  <2>2. Registered' = Registered \ {t}
    BY <1>7 DEF Unregister, Registered, TracerStates
  <2>3. Cardinality(Registered \ {t}) = Cardinality(Registered) - 1
    <3> HIDE DEF t
    <3> QED
      BY <2>1, FinitelyRegistered, FS_RemoveElement
  <2> QED
    BY <1>7, <2>2, <2>3 DEF Unregister, CountBalanced, MapsFollowCount
<1>8. ASSUME NEW th \in Threads, ClearContexts(th) PROVE CountBalanced'
  <2>1. Registered' = Registered /\ count' = count
    BY <1>8 DEF ClearContexts, DeleteMap, Registered
  <2> QED
    BY <2>1 DEF CountBalanced, MapsFollowCount
<1>9. ASSUME NEW th \in Threads, ClearSpans(th) PROVE CountBalanced'
  <2>1. Registered' = Registered /\ count' = count
    BY <1>9 DEF ClearSpans, DeleteMap, Registered
  <2> QED
    BY <2>1 DEF CountBalanced, MapsFollowCount
<1>10. ASSUME NEW th \in Threads, NEW t \in Tracers, NEW s \in Spans, StartSpan(th, t, s)
       PROVE CountBalanced'
  <2>1. Registered' = Registered /\ count' = count
    BY <1>10 DEF StartSpan, Registered
  <2> QED
    BY <2>1 DEF CountBalanced, MapsFollowCount
<1>11. ASSUME NEW th \in Threads, NEW t \in Tracers, NEW c \in Contexts, ExtractContext(th, t, c)
       PROVE CountBalanced'
  <2>1. Registered' = Registered /\ count' = count
    BY <1>11 DEF ExtractContext, Registered
  <2> QED
    BY <2>1 DEF CountBalanced, MapsFollowCount
<1>12. ASSUME NEW th \in Threads, NEW c \in Contexts, CreateContext(th, c) PROVE CountBalanced'
  <2>1. Registered' = Registered /\ count' = count
    BY <1>12 DEF CreateContext, Registered
  <2> QED
    BY <2>1 DEF CountBalanced, MapsFollowCount
<1>13. ASSUME NEW th \in Threads, NewHandle(th) PROVE CountBalanced'
  <2>1. Registered' = Registered /\ count' = count
    BY <1>13 DEF NewHandle, Registered
  <2> QED
    BY <2>1 DEF CountBalanced, MapsFollowCount
<1>14. ASSUME NEW th \in Threads, StartSdkSpan(th) PROVE CountBalanced'
  <2>1. Registered' = Registered /\ count' = count
    BY <1>14 DEF StartSdkSpan, Registered
  <2> QED
    BY <2>1 DEF CountBalanced, MapsFollowCount
<1>15. ASSUME NEW th \in Threads, WrapContext(th) PROVE CountBalanced'
  <2>1. Registered' = Registered /\ count' = count
    BY <1>15 DEF WrapContext, Registered
  <2> QED
    BY <2>1 DEF CountBalanced, MapsFollowCount
<1>16. ASSUME NEW th \in Threads, Emplace(th) PROVE CountBalanced'
  <2>1. Registered' = Registered /\ count' = count
    BY <1>16 DEF Emplace, Registered
  <2> QED
    BY <2>1 DEF CountBalanced, MapsFollowCount
<1>17. ASSUME NEW th \in Threads, Undo(th) PROVE CountBalanced'
  <2>1. Registered' = Registered /\ count' = count
    BY <1>17 DEF Undo, Registered
  <2> QED
    BY <2>1 DEF CountBalanced, MapsFollowCount
<1>18. ASSUME NEW th \in Threads, NEW h \in Handles, Release(th, h) PROVE CountBalanced'
  <2>1. Registered' = Registered /\ count' = count
    BY <1>18 DEF Release, Registered
  <2> QED
    BY <2>1 DEF CountBalanced, MapsFollowCount
<1>19. ASSUME NEW th \in Threads, FinishRelease(th) PROVE CountBalanced'
  <2>1. Registered' = Registered /\ count' = count
    BY <1>19 DEF FinishRelease, Registered
  <2> QED
    BY <2>1 DEF CountBalanced, MapsFollowCount
<1>20. ASSUME NEW th \in Threads, NEW h \in Handles, Read(th, h) PROVE CountBalanced'
  <2>1. Registered' = Registered /\ count' = count
    BY <1>20 DEF Read, Registered
  <2> QED
    BY <2>1 DEF CountBalanced, MapsFollowCount
<1>21. ASSUME NEW th \in Threads, FinishRead(th) PROVE CountBalanced'
  <2>1. Registered' = Registered /\ count' = count
    BY <1>21 DEF FinishRead, Registered
  <2> QED
    BY <2>1 DEF CountBalanced, MapsFollowCount
<1>22. ASSUME UNCHANGED vars PROVE CountBalanced'
  BY <1>22 DEF CountBalanced, MapsFollowCount, Registered
<1> QED
  BY <1>1, <1>2, <1>3, <1>4, <1>5, <1>6, <1>7, <1>8, <1>9, <1>10, <1>11, <1>12, <1>13, <1>14,
     <1>15, <1>16, <1>17, <1>18, <1>19, <1>20, <1>21, <1>22
  DEF Next, Begin, Continue

\* No other call moves the maps while one has the count mutex.
LEMMA UnderwayStep == ASSUME HandleAssumption, HandleInv, MapInv, [Next]_vars PROVE MapsUnderway'
<1> USE DEF HandleAssumption, HandleInv, MapInv, TypeOK, CallShape, MapsUnderway,
   LockMatchesCalls, TracerCalls, MapsFollowCount, TracerPoints
<1>1. ASSUME NEW th \in Threads, NEW t \in Tracers, Create(th, t) PROVE MapsUnderway'
  BY <1>1 DEF Create
<1>2. ASSUME NEW th \in Threads, Register(th) PROVE MapsUnderway'
  BY <1>2 DEF Register
<1>3. ASSUME NEW th \in Threads, InitSpanMap(th) PROVE MapsUnderway'
  BY <1>3 DEF InitSpanMap, AllocateMap, AllocateFrom
<1>4. ASSUME NEW th \in Threads, InitContextMap(th) PROVE MapsUnderway'
  BY <1>4 DEF InitContextMap, AllocateMap, AllocateFrom
<1>5. ASSUME NEW th \in Threads, Resolve(th) PROVE MapsUnderway'
  BY <1>5 DEF Resolve
<1>6. ASSUME NEW th \in Threads, NEW t \in Tracers, Destroy(th, t) PROVE MapsUnderway'
  BY <1>6 DEF Destroy
<1>7. ASSUME NEW th \in Threads, Unregister(th) PROVE MapsUnderway'
  BY <1>7 DEF Unregister
<1>8. ASSUME NEW th \in Threads, ClearContexts(th) PROVE MapsUnderway'
  <2>1. count = 0 <=> Registered = {}
    BY CountZero DEF MapInv, MapsFollowCount
  <2> QED
    BY <1>8, <2>1 DEF ClearContexts, DeleteMap, Registered
<1>9. ASSUME NEW th \in Threads, ClearSpans(th) PROVE MapsUnderway'
  <2>1. count = 0 <=> Registered = {}
    BY CountZero DEF MapInv, MapsFollowCount
  <2> QED
    BY <1>9, <2>1 DEF ClearSpans, DeleteMap, Registered
<1>10. ASSUME NEW th \in Threads, NEW t \in Tracers, NEW s \in Spans, StartSpan(th, t, s)
       PROVE MapsUnderway'
  BY <1>10 DEF StartSpan
<1>11. ASSUME NEW th \in Threads, NEW t \in Tracers, NEW c \in Contexts, ExtractContext(th, t, c)
       PROVE MapsUnderway'
  BY <1>11 DEF ExtractContext
<1>12. ASSUME NEW th \in Threads, NEW c \in Contexts, CreateContext(th, c) PROVE MapsUnderway'
  BY <1>12 DEF CreateContext
<1>13. ASSUME NEW th \in Threads, NewHandle(th) PROVE MapsUnderway'
  BY <1>13 DEF NewHandle
<1>14. ASSUME NEW th \in Threads, StartSdkSpan(th) PROVE MapsUnderway'
  BY <1>14 DEF StartSdkSpan
<1>15. ASSUME NEW th \in Threads, WrapContext(th) PROVE MapsUnderway'
  BY <1>15 DEF WrapContext
<1>16. ASSUME NEW th \in Threads, Emplace(th) PROVE MapsUnderway'
  BY <1>16 DEF Emplace
<1>17. ASSUME NEW th \in Threads, Undo(th) PROVE MapsUnderway'
  BY <1>17 DEF Undo
<1>18. ASSUME NEW th \in Threads, NEW h \in Handles, Release(th, h) PROVE MapsUnderway'
  BY <1>18 DEF Release
<1>19. ASSUME NEW th \in Threads, FinishRelease(th) PROVE MapsUnderway'
  BY <1>19 DEF FinishRelease
<1>20. ASSUME NEW th \in Threads, NEW h \in Handles, Read(th, h) PROVE MapsUnderway'
  BY <1>20 DEF Read
<1>21. ASSUME NEW th \in Threads, FinishRead(th) PROVE MapsUnderway'
  BY <1>21 DEF FinishRead
<1>22. ASSUME UNCHANGED vars PROVE MapsUnderway'
  BY <1>22
<1> QED
  BY <1>1, <1>2, <1>3, <1>4, <1>5, <1>6, <1>7, <1>8, <1>9, <1>10, <1>11, <1>12, <1>13, <1>14,
     <1>15, <1>16, <1>17, <1>18, <1>19, <1>20, <1>21, <1>22
  DEF Next, Begin, Continue

\* Maps are made before a tracer is up, and go when the count is back to zero.
LEMMA FollowStep == ASSUME HandleAssumption, HandleInv, MapInv, [Next]_vars PROVE MapsFollowCount'
<1> USE DEF HandleAssumption, HandleInv, MapInv, TypeOK, CallShape, MapsUnderway,
   LockMatchesCalls, TracerCalls, TracerPoints, TracerStates, MapsFollowCount, Up
<1>1. ASSUME NEW th \in Threads, NEW t \in Tracers, Create(th, t) PROVE MapsFollowCount'
  BY <1>1, CountStep DEF Create
<1>2. ASSUME NEW th \in Threads, Register(th) PROVE MapsFollowCount'
  BY <1>2, CountStep DEF Register
<1>3. ASSUME NEW th \in Threads, InitSpanMap(th) PROVE MapsFollowCount'
  <2>1. count = 0 <=> Registered = {}
    BY CountZero
  <2> QED
    BY <1>3, <2>1, CountStep DEF InitSpanMap, AllocateMap, AllocateFrom, Registered
<1>4. ASSUME NEW th \in Threads, InitContextMap(th) PROVE MapsFollowCount'
  <2>1. count = 0 <=> Registered = {}
    BY CountZero
  <2> QED
    BY <1>4, <2>1, CountStep DEF InitContextMap, AllocateMap, AllocateFrom, Registered
<1>5. ASSUME NEW th \in Threads, Resolve(th) PROVE MapsFollowCount'
  BY <1>5, CountStep DEF Resolve
<1>6. ASSUME NEW th \in Threads, NEW t \in Tracers, Destroy(th, t) PROVE MapsFollowCount'
  BY <1>6, CountStep DEF Destroy
<1>7. ASSUME NEW th \in Threads, Unregister(th) PROVE MapsFollowCount'
  BY <1>7, CountStep DEF Unregister
<1>8. ASSUME NEW th \in Threads, ClearContexts(th) PROVE MapsFollowCount'
  <2>1. count = 0 <=> Registered = {}
    BY CountZero
  <2> QED
    BY <1>8, <2>1, CountStep DEF ClearContexts, DeleteMap, Registered
<1>9. ASSUME NEW th \in Threads, ClearSpans(th) PROVE MapsFollowCount'
  <2>1. count = 0 <=> Registered = {}
    BY CountZero
  <2> QED
    BY <1>9, <2>1, CountStep DEF ClearSpans, DeleteMap, Registered
<1>10. ASSUME NEW th \in Threads, NEW t \in Tracers, NEW s \in Spans, StartSpan(th, t, s)
       PROVE MapsFollowCount'
  BY <1>10, CountStep DEF StartSpan
<1>11. ASSUME NEW th \in Threads, NEW t \in Tracers, NEW c \in Contexts, ExtractContext(th, t, c)
       PROVE MapsFollowCount'
  BY <1>11, CountStep DEF ExtractContext
<1>12. ASSUME NEW th \in Threads, NEW c \in Contexts, CreateContext(th, c) PROVE MapsFollowCount'
  BY <1>12, CountStep DEF CreateContext
<1>13. ASSUME NEW th \in Threads, NewHandle(th) PROVE MapsFollowCount'
  BY <1>13, CountStep DEF NewHandle
<1>14. ASSUME NEW th \in Threads, StartSdkSpan(th) PROVE MapsFollowCount'
  BY <1>14, CountStep DEF StartSdkSpan
<1>15. ASSUME NEW th \in Threads, WrapContext(th) PROVE MapsFollowCount'
  BY <1>15, CountStep DEF WrapContext
<1>16. ASSUME NEW th \in Threads, Emplace(th) PROVE MapsFollowCount'
  BY <1>16, CountStep DEF Emplace
<1>17. ASSUME NEW th \in Threads, Undo(th) PROVE MapsFollowCount'
  BY <1>17, CountStep DEF Undo
<1>18. ASSUME NEW th \in Threads, NEW h \in Handles, Release(th, h) PROVE MapsFollowCount'
  BY <1>18, CountStep DEF Release
<1>19. ASSUME NEW th \in Threads, FinishRelease(th) PROVE MapsFollowCount'
  BY <1>19, CountStep DEF FinishRelease
<1>20. ASSUME NEW th \in Threads, NEW h \in Handles, Read(th, h) PROVE MapsFollowCount'
  BY <1>20, CountStep DEF Read
<1>21. ASSUME NEW th \in Threads, FinishRead(th) PROVE MapsFollowCount'
  BY <1>21, CountStep DEF FinishRead
<1>22. ASSUME UNCHANGED vars PROVE MapsFollowCount'
  BY <1>22, CountStep
<1> QED
  BY <1>1, <1>2, <1>3, <1>4, <1>5, <1>6, <1>7, <1>8, <1>9, <1>10, <1>11, <1>12, <1>13, <1>14,
     <1>15, <1>16, <1>17, <1>18, <1>19, <1>20, <1>21, <1>22
  DEF Next, Begin, Continue

\* No destroy takes the last tracer from under a call on a handle.
LEMMA HaveTracerStep == ASSUME HandleAssumption, HandleInv, MapInv, [Next]_vars
  PROVE CallsHaveTracer'
<1> USE DEF HandleAssumption, HandleInv, MapInv, TypeOK, CallShape, TracerCalls, CallsHaveTracer,
   InHandleCall, Up, TracerStates, Points, CreationPoints, ReleasePoints, TracerPoints
<1>1. ASSUME NEW th \in Threads, NEW t \in Tracers, Create(th, t) PROVE CallsHaveTracer'
  BY <1>1 DEF Create, MayCreate
<1>2. ASSUME NEW th \in Threads, Register(th) PROVE CallsHaveTracer'
  BY <1>2 DEF Register
<1>3. ASSUME NEW th \in Threads, InitSpanMap(th) PROVE CallsHaveTracer'
  BY <1>3 DEF InitSpanMap, AllocateMap, AllocateFrom
<1>4. ASSUME NEW th \in Threads, InitContextMap(th) PROVE CallsHaveTracer'
  BY <1>4 DEF InitContextMap, AllocateMap, AllocateFrom
<1>5. ASSUME NEW th \in Threads, Resolve(th) PROVE CallsHaveTracer'
  BY <1>5 DEF Resolve
<1>6. ASSUME NEW th \in Threads, NEW t \in Tracers, Destroy(th, t) PROVE CallsHaveTracer'
  BY <1>6 DEF Destroy, Drained
<1>7. ASSUME NEW th \in Threads, Unregister(th) PROVE CallsHaveTracer'
  BY <1>7 DEF Unregister
<1>8. ASSUME NEW th \in Threads, ClearContexts(th) PROVE CallsHaveTracer'
  BY <1>8 DEF ClearContexts, DeleteMap
<1>9. ASSUME NEW th \in Threads, ClearSpans(th) PROVE CallsHaveTracer'
  BY <1>9 DEF ClearSpans, DeleteMap
<1>10. ASSUME NEW th \in Threads, NEW t \in Tracers, NEW s \in Spans, StartSpan(th, t, s)
       PROVE CallsHaveTracer'
  BY <1>10 DEF StartSpan
<1>11. ASSUME NEW th \in Threads, NEW t \in Tracers, NEW c \in Contexts, ExtractContext(th, t, c)
       PROVE CallsHaveTracer'
  BY <1>11 DEF ExtractContext
<1>12. ASSUME NEW th \in Threads, NEW c \in Contexts, CreateContext(th, c) PROVE CallsHaveTracer'
  BY <1>12 DEF CreateContext
<1>13. ASSUME NEW th \in Threads, NewHandle(th) PROVE CallsHaveTracer'
  BY <1>13 DEF NewHandle
<1>14. ASSUME NEW th \in Threads, StartSdkSpan(th) PROVE CallsHaveTracer'
  BY <1>14 DEF StartSdkSpan
<1>15. ASSUME NEW th \in Threads, WrapContext(th) PROVE CallsHaveTracer'
  BY <1>15 DEF WrapContext
<1>16. ASSUME NEW th \in Threads, Emplace(th) PROVE CallsHaveTracer'
  BY <1>16 DEF Emplace
<1>17. ASSUME NEW th \in Threads, Undo(th) PROVE CallsHaveTracer'
  BY <1>17 DEF Undo
<1>18. ASSUME NEW th \in Threads, NEW h \in Handles, Release(th, h) PROVE CallsHaveTracer'
  BY <1>18 DEF Release, MayRelease, InState
<1>19. ASSUME NEW th \in Threads, FinishRelease(th) PROVE CallsHaveTracer'
  BY <1>19 DEF FinishRelease
<1>20. ASSUME NEW th \in Threads, NEW h \in Handles, Read(th, h) PROVE CallsHaveTracer'
  BY <1>20 DEF Read
<1>21. ASSUME NEW th \in Threads, FinishRead(th) PROVE CallsHaveTracer'
  BY <1>21 DEF FinishRead
<1>22. ASSUME UNCHANGED vars PROVE CallsHaveTracer'
  BY <1>22
<1> QED
  BY <1>1, <1>2, <1>3, <1>4, <1>5, <1>6, <1>7, <1>8, <1>9, <1>10, <1>11, <1>12, <1>13, <1>14,
     <1>15, <1>16, <1>17, <1>18, <1>19, <1>20, <1>21, <1>22
  DEF Next, Begin, Continue

\* While a call on a handle runs, nobody makes or deletes its map, provided that callers
\* keep leftover releases apart from creates.
LEMMA GuardStep == ASSUME HandleAssumption, LeftoversAlone, HandleInv, MapInv, [Next]_vars
  PROVE GuardedMapSurvives'
<1> USE DEF HandleAssumption, HandleInv, MapInv, TypeOK, CallShape, TracerCalls, MapsFollowCount,
   MapsUnderway, LockMatchesCalls, CallsHaveTracer, InHandleCall, Up, TracerStates, Points,
   GuardedMapSurvives, CreationPoints, ReleasePoints, TracerPoints
<1>1. ASSUME NEW th \in Threads, NEW t \in Tracers, Create(th, t) PROVE GuardedMapSurvives'
  BY <1>1 DEF Create
<1>2. ASSUME NEW th \in Threads, Register(th) PROVE GuardedMapSurvives'
  BY <1>2 DEF Register
<1>3. ASSUME NEW th \in Threads, InitSpanMap(th) PROVE GuardedMapSurvives'
  BY <1>3 DEF InitSpanMap, AllocateMap, AllocateFrom
<1>4. ASSUME NEW th \in Threads, InitContextMap(th) PROVE GuardedMapSurvives'
  BY <1>4 DEF InitContextMap, AllocateMap, AllocateFrom
<1>5. ASSUME NEW th \in Threads, Resolve(th) PROVE GuardedMapSurvives'
  BY <1>5 DEF Resolve
<1>6. ASSUME NEW th \in Threads, NEW t \in Tracers, Destroy(th, t) PROVE GuardedMapSurvives'
  BY <1>6 DEF Destroy
<1>7. ASSUME NEW th \in Threads, Unregister(th) PROVE GuardedMapSurvives'
  BY <1>7 DEF Unregister
<1>8. ASSUME NEW th \in Threads, ClearContexts(th) PROVE GuardedMapSurvives'
  <2>1. Up = {}
    <3>1. Registered = {}
      BY <1>8, CountZero DEF ClearContexts
    <3> QED
      BY <3>1 DEF Registered
  <2>2. call[th].t \in Tracers /\ tstate[call[th].t] = "leaving"
    BY <1>8 DEF ClearContexts
  <2>3. InHandleCall = {}
    BY <2>1, <2>2 DEF CallsHaveTracer
  <2>4. \A u \in Threads : call'[u].h = call[u].h
    BY <1>8 DEF ClearContexts
  <2> QED
    BY <2>3, <2>4
<1>9. ASSUME NEW th \in Threads, ClearSpans(th) PROVE GuardedMapSurvives'
  <2>1. Up = {}
    <3>1. Registered = {}
      BY <1>9, CountZero DEF ClearSpans
    <3> QED
      BY <3>1 DEF Registered
  <2>2. call[th].t \in Tracers /\ tstate[call[th].t] = "leaving"
    BY <1>9 DEF ClearSpans
  <2>3. InHandleCall = {}
    BY <2>1, <2>2 DEF CallsHaveTracer
  <2>4. \A u \in Threads : call'[u].h = None
    BY <2>3, <1>9 DEF ClearSpans
  <2> QED
    BY <2>4
<1>10. ASSUME NEW th \in Threads, NEW t \in Tracers, NEW s \in Spans, StartSpan(th, t, s)
       PROVE GuardedMapSurvives'
  BY <1>10 DEF StartSpan
<1>11. ASSUME NEW th \in Threads, NEW t \in Tracers, NEW c \in Contexts, ExtractContext(th, t, c)
       PROVE GuardedMapSurvives'
  BY <1>11 DEF ExtractContext
<1>12. ASSUME NEW th \in Threads, NEW c \in Contexts, CreateContext(th, c)
       PROVE GuardedMapSurvives'
  BY <1>12 DEF CreateContext
<1>13. ASSUME NEW th \in Threads, NewHandle(th) PROVE GuardedMapSurvives'
  BY <1>13 DEF NewHandle
<1>14. ASSUME NEW th \in Threads, StartSdkSpan(th) PROVE GuardedMapSurvives'
  BY <1>14 DEF StartSdkSpan
<1>15. ASSUME NEW th \in Threads, WrapContext(th) PROVE GuardedMapSurvives'
  BY <1>15 DEF WrapContext
<1>16. ASSUME NEW th \in Threads, Emplace(th) PROVE GuardedMapSurvives'
  BY <1>16 DEF Emplace
<1>17. ASSUME NEW th \in Threads, Undo(th) PROVE GuardedMapSurvives'
  BY <1>17 DEF Undo
<1>18. ASSUME NEW th \in Threads, NEW h \in Handles, Release(th, h) PROVE GuardedMapSurvives'
  BY <1>18 DEF Release
<1>19. ASSUME NEW th \in Threads, FinishRelease(th) PROVE GuardedMapSurvives'
  BY <1>19 DEF FinishRelease
<1>20. ASSUME NEW th \in Threads, NEW h \in Handles, Read(th, h) PROVE GuardedMapSurvives'
  BY <1>20 DEF Read
<1>21. ASSUME NEW th \in Threads, FinishRead(th) PROVE GuardedMapSurvives'
  BY <1>21 DEF FinishRead
<1>22. ASSUME UNCHANGED vars PROVE GuardedMapSurvives'
  BY <1>22
<1> QED
  BY <1>1, <1>2, <1>3, <1>4, <1>5, <1>6, <1>7, <1>8, <1>9, <1>10, <1>11, <1>12, <1>13, <1>14,
     <1>15, <1>16, <1>17, <1>18, <1>19, <1>20, <1>21, <1>22
  DEF Next, Begin, Continue

-----------------------------------------------------------------------------
(* The invariant and what follows from it *)

\* The library starts with no tracer, no call and no map.
LEMMA MapInit == ASSUME HandleAssumption, Init PROVE MapInv
<1> USE DEF HandleAssumption, Init
<1>1. CountBalanced
  <2>1. Registered = {}
    BY DEF Registered
  <2> QED
    BY <2>1, FS_EmptySet DEF CountBalanced
<1>2. MapsFollowCount
  BY <1>1 DEF MapsFollowCount, Up
<1> QED
  BY <1>2 DEF MapInv, TracerCalls, TracerPoints, LockMatchesCalls, MapsUnderway, CallsHaveTracer,
     InHandleCall, GuardedMapSurvives

\* Every step preserves the invariant.
LEMMA MapStep == ASSUME HandleAssumption, HandleInv, MapInv, [Next]_vars PROVE MapInv'
<1>1. LeftoversAlone => GuardedMapSurvives'
  BY GuardStep
<1> QED
  BY <1>1, TracerCallsStep, LockStep, UnderwayStep, FollowStep, HaveTracerStep DEF MapInv

\* Every reachable state of the handle maps satisfies the inductive invariant.
THEOREM MapInvariant == Spec => []MapInv
<1> USE HandleAssumption
<1>1. Init => MapInv
  BY MapInit
<1>2. HandleInv /\ MapInv /\ [Next]_vars => MapInv'
  BY MapStep
<1> QED
  BY <1>1, <1>2, HandleInvariant, PTL DEF Spec

\* The count is balanced, a tracer the caller holds has both maps, and once the count is back
\* to zero neither map is left behind, on every path through otel_tracer_register(),
\* _unregister() and _handle_init() (tracer.cpp).
THEOREM MapsFollowTheCount == Spec => []MapsFollowCount
<1>1. MapInv => MapsFollowCount
  BY DEF MapInv
<1> QED
  BY <1>1, MapInvariant, PTL

\* The unlocked look at a map pointer stays true to the end of the call: the shard that is
\* locked afterwards belongs to a live map. Callers that release leftovers beside a create
\* do not have this promise.
THEOREM GuardedMapsSurvive == ASSUME LeftoversAlone PROVE Spec => []GuardedMapSurvives
<1>1. MapInv => GuardedMapSurvives
  BY DEF MapInv
<1> QED
  BY <1>1, MapInvariant, PTL

-----------------------------------------------------------------------------
(* The handle maps implement SpanRegistry *)

\* The handles whose index is in its map.
Present == {h \in Handles : idx[h] \in DOMAIN slots[KindOf(h)]}

\* A lookup finds a handle's object when its index is in the map.
LEMMA MembersPresent == ASSUME HandleAssumption, HandleInv PROVE Members = Present
<1>1. ASSUME NEW h \in Handles PROVE Lookup(h) = h <=> idx[h] \in DOMAIN slots[KindOf(h)]
  BY DEF HandleAssumption, HandleInv, TypeOK, IndexesDrawnOnce, SlotsOwned, Lookup
<1> QED
  BY <1>1 DEF Members, Present

\* The same of the next state.
LEMMA MembersPresentNext == ASSUME HandleAssumption, HandleInv' PROVE Members' = Present'
<1>1. ASSUME NEW h \in Handles PROVE Lookup(h)' = h <=> idx'[h] \in DOMAIN slots'[KindOf(h)]
  BY DEF HandleAssumption, HandleInv, TypeOK, IndexesDrawnOnce, SlotsOwned, Lookup
<1> QED
  BY <1>1 DEF Members, Present

\* What the map holds belongs to a caller.
LEMMA PresentHeld == ASSUME HandleAssumption, HandleInv, NEW h \in Present
  PROVE hstate[h] = "held"
BY DEF HandleAssumption, HandleInv, TypeOK, IndexesDrawnOnce, SlotsOwned, Present

\* Freeing a C structure whose object leaves the map retires it.
LEMMA RetireEffect ==
  ASSUME HandleAssumption, HandleInv, HandleInv', NEW h \in Handles, hstate[h] # "freed",
         hstate' = [hstate EXCEPT ![h] = "freed"], Present' = Present \ {h}, tstate' = tstate
  PROVE  Registry!Next
<1>1. Members' = Members \ {h}
  BY MembersPresent, MembersPresentNext
<1>2. Freed' = Freed \cup {h} /\ h \notin Freed
  BY DEF Freed, HandleInv, TypeOK
<1>3. Dropped' = Dropped \ {h}
  BY <1>1 DEF Dropped, HandleInv, TypeOK
<1>4. Registered' = Registered
  BY DEF Registered
<1> QED
  BY <1>1, <1>2, <1>3, <1>4 DEF Registry!Next, Registry!Retire

\* A handle that stays held, stays freed, or stays neither.
SameRole(h) == \A st \in {"held", "freed"} : hstate'[h] = st <=> hstate[h] = st

\* A step that changes neither the map nor who holds what is invisible to the registry.
LEMMA QuietEffect ==
  ASSUME HandleAssumption, HandleInv, HandleInv', UNCHANGED <<slots, idx>>,
         Registered' = Registered, \A h \in Handles : SameRole(h)
  PROVE  UNCHANGED <<Registered, Members, Dropped, Freed>>
<1>1. Members' = Members
  BY MembersPresent, MembersPresentNext DEF Present
<1> QED
  BY <1>1 DEF Dropped, Freed, SameRole

\* A release takes its own object out of the map and no other.
LEMMA DestroyTakesOwn ==
  ASSUME HandleAssumption, HandleInv, NEW h \in Handles, NolockDestroy(h), idx' = idx
  PROVE  Present' = Present \ {h}
<1> DEFINE k == KindOf(h)
<1>1. k \in Kinds /\ DOMAIN slots = Kinds
  BY DEF HandleInv, TypeOK
<1>2. CASE idx[h] \in DOMAIN slots[k] /\ slots' = [slots EXCEPT ![k] = Erase(slots[k], idx[h])]
  <2>1. \A l \in Kinds : DOMAIN slots'[l] = DOMAIN slots[l] \ (IF l = k THEN {idx[h]} ELSE {})
    <3> HIDE DEF k
    <3> QED
      BY <1>1, <1>2, EraseEffect
  <2>2. \A g \in Handles : KindOf(g) = k /\ idx[g] = idx[h] /\ idx[h] \in DOMAIN slots[k] => g = h
    BY DEF HandleInv, TypeOK, IndexesDrawnOnce
  <2>3. ASSUME NEW g \in Handles PROVE g \in Present' <=> g \in Present /\ g # h
    BY <1>2, <2>1, <2>2 DEF Present
  <2> QED
    BY <2>3 DEF Present
<1>3. CASE idx[h] \notin DOMAIN slots[k] /\ slots' = slots
  BY <1>3 DEF Present
<1> QED
  BY <1>2, <1>3, DestroyEffect

\* Deleting a map while nobody is registered drops its objects together.
LEMMA DropEffect ==
  ASSUME HandleAssumption, HandleInv, HandleInv', NEW k \in Kinds, Registered = {},
         slots' = [slots EXCEPT ![k] = Empty], UNCHANGED <<idx, hstate>>, Registered' = Registered
  PROVE  Registry!Next
<1> DEFINE S == {h \in Present : KindOf(h) = k}
<1>1. Present' = Present \ S
  BY DEF Present, HandleInv, TypeOK, Empty
<1>2. Members' = Members \ S /\ S \subseteq Members
  BY <1>1, MembersPresent, MembersPresentNext
<1>3. \A h \in S : hstate[h] = "held" /\ h \in Handles
  BY PresentHeld DEF Present
<1>4. Dropped' = Dropped \cup S /\ Freed' = Freed
  BY <1>2, <1>3 DEF Dropped, Freed
<1> HIDE DEF S
<1> QED
  BY <1>2, <1>4 DEF Registry!Next, Registry!Drop

\* Every step is a step of the registry, or invisible to it.
LEMMA RegistryStep == ASSUME HandleAssumption, HandleInv, HandleInv', MapInv, [Next]_vars
  PROVE Registry!Next \/ UNCHANGED <<Registered, Members, Dropped, Freed>>
<1>1. ASSUME NEW th \in Threads, NEW t \in Tracers, Create(th, t)
      PROVE Registry!Next \/ UNCHANGED <<Registered, Members, Dropped, Freed>>
  <2>1. UNCHANGED <<slots, idx>> /\ Registered' = Registered
    BY <1>1 DEF Create, Registered, HandleInv, TypeOK
  <2>2. \A h \in Handles : SameRole(h)
    BY <1>1 DEF Create, SameRole, HandleInv, TypeOK, CallHandles, CallShape, CreationPoints
  <2> QED
    BY <2>1, <2>2, QuietEffect
<1>2. ASSUME NEW th \in Threads, Register(th)
      PROVE Registry!Next \/ UNCHANGED <<Registered, Members, Dropped, Freed>>
  <2> DEFINE t == call[th].t
  <2>1. t \in Tracers /\ Registered' = Registered \cup {t}
    BY <1>2 DEF Register, Registered, HandleInv, TypeOK, CallShape, TracerPoints, TracerStates,
       MapInv, TracerCalls
  <2>2. UNCHANGED <<slots, idx, hstate>>
    BY <1>2 DEF Register
  <2>3. Members' = Members
    BY <2>2, MembersPresent, MembersPresentNext DEF Present
  <2> QED
    BY <2>1, <2>2, <2>3 DEF Dropped, Freed, Registry!Next, Registry!Join
<1>3. ASSUME NEW th \in Threads, InitSpanMap(th)
      PROVE Registry!Next \/ UNCHANGED <<Registered, Members, Dropped, Freed>>
  <2>1. UNCHANGED <<idx, hstate>> /\ Registered' = Registered
    BY <1>3 DEF InitSpanMap, AllocateMap, AllocateFrom, Registered, HandleInv, TypeOK
  <2>2. \A k \in Kinds : DOMAIN slots'[k] = DOMAIN slots[k]
    BY <1>3, AllocateEffect DEF InitSpanMap, InitContextMap
  <2>3. Members' = Members
    BY <2>1, <2>2, MembersPresent, MembersPresentNext DEF Present
  <2> QED
    BY <2>1, <2>3 DEF Dropped, Freed
<1>4. ASSUME NEW th \in Threads, InitContextMap(th)
      PROVE Registry!Next \/ UNCHANGED <<Registered, Members, Dropped, Freed>>
  <2>1. UNCHANGED <<idx, hstate>> /\ Registered' = Registered
    BY <1>4 DEF InitContextMap, AllocateMap, AllocateFrom, Registered, HandleInv, TypeOK
  <2>2. \A k \in Kinds : DOMAIN slots'[k] = DOMAIN slots[k]
    BY <1>4, AllocateEffect DEF InitSpanMap, InitContextMap
  <2>3. Members' = Members
    BY <2>1, <2>2, MembersPresent, MembersPresentNext DEF Present
  <2> QED
    BY <2>1, <2>3 DEF Dropped, Freed
<1>5. ASSUME NEW th \in Threads, Resolve(th)
      PROVE Registry!Next \/ UNCHANGED <<Registered, Members, Dropped, Freed>>
  <2>1. UNCHANGED <<slots, idx>> /\ Registered' = Registered
    BY <1>5 DEF Resolve, Registered, HandleInv, TypeOK, CallShape, TracerPoints, MapInv,
       TracerCalls
  <2>2. \A h \in Handles : SameRole(h)
    BY <1>5 DEF Resolve, SameRole, HandleInv, TypeOK, CallHandles, CallShape, CreationPoints
  <2> QED
    BY <2>1, <2>2, QuietEffect
<1>6. ASSUME NEW th \in Threads, NEW t \in Tracers, Destroy(th, t)
      PROVE Registry!Next \/ UNCHANGED <<Registered, Members, Dropped, Freed>>
  <2>1. UNCHANGED <<slots, idx>> /\ Registered' = Registered
    BY <1>6 DEF Destroy, Registered, HandleInv, TypeOK
  <2>2. \A h \in Handles : SameRole(h)
    BY <1>6 DEF Destroy, SameRole, HandleInv, TypeOK, CallHandles, CallShape, CreationPoints
  <2> QED
    BY <2>1, <2>2, QuietEffect
<1>7. ASSUME NEW th \in Threads, Unregister(th)
      PROVE Registry!Next \/ UNCHANGED <<Registered, Members, Dropped, Freed>>
  <2> DEFINE t == call[th].t
  <2>1. t \in Tracers /\ Registered' = Registered \ {t}
    BY <1>7 DEF Unregister, Registered, HandleInv, TypeOK, CallShape, TracerPoints, TracerStates,
       MapInv, TracerCalls
  <2>2. UNCHANGED <<slots, idx, hstate>>
    BY <1>7 DEF Unregister
  <2>3. Members' = Members
    BY <2>2, MembersPresent, MembersPresentNext DEF Present
  <2> QED
    BY <2>1, <2>2, <2>3 DEF Dropped, Freed, Registry!Next, Registry!Part
<1>8. ASSUME NEW th \in Threads, ClearContexts(th)
      PROVE Registry!Next \/ UNCHANGED <<Registered, Members, Dropped, Freed>>
  <2>1. Registered = {} /\ Registered' = Registered
    BY <1>8, CountZero DEF ClearContexts, Registered, HandleInv, TypeOK, CallShape, MapInv,
       MapsUnderway, MapsFollowCount, TracerCalls
  <2>2. slots' = [slots EXCEPT !["context"] = Empty] /\ UNCHANGED <<idx, hstate>>
    BY <1>8 DEF ClearContexts, DeleteMap
  <2> QED
    BY <2>1, <2>2, DropEffect
<1>9. ASSUME NEW th \in Threads, ClearSpans(th)
      PROVE Registry!Next \/ UNCHANGED <<Registered, Members, Dropped, Freed>>
  <2>1. Registered = {} /\ Registered' = Registered
    BY <1>9, CountZero DEF ClearSpans, Registered, HandleInv, TypeOK, CallShape, MapInv,
       MapsUnderway, MapsFollowCount, TracerCalls
  <2>2. slots' = [slots EXCEPT !["span"] = Empty] /\ UNCHANGED <<idx, hstate>>
    BY <1>9 DEF ClearSpans, DeleteMap
  <2> QED
    BY <2>1, <2>2, DropEffect
<1>10. ASSUME NEW th \in Threads, NEW t \in Tracers, NEW s \in Spans, StartSpan(th, t, s)
       PROVE Registry!Next \/ UNCHANGED <<Registered, Members, Dropped, Freed>>
  <2>1. UNCHANGED <<slots, idx>> /\ Registered' = Registered
    BY <1>10 DEF StartSpan, Registered, HandleInv, TypeOK
  <2>2. \A h \in Handles : SameRole(h)
    BY <1>10 DEF StartSpan, SameRole, HandleInv, TypeOK, CallHandles, CallShape, CreationPoints
  <2> QED
    BY <2>1, <2>2, QuietEffect
<1>11. ASSUME NEW th \in Threads, NEW t \in Tracers, NEW c \in Contexts, ExtractContext(th, t, c)
       PROVE Registry!Next \/ UNCHANGED <<Registered, Members, Dropped, Freed>>
  <2>1. UNCHANGED <<slots, idx>> /\ Registered' = Registered
    BY <1>11 DEF ExtractContext, Registered, HandleInv, TypeOK
  <2>2. \A h \in Handles : SameRole(h)
    BY <1>11 DEF ExtractContext, SameRole, HandleInv, TypeOK, CallHandles, CallShape,
       CreationPoints
  <2> QED
    BY <2>1, <2>2, QuietEffect
<1>12. ASSUME NEW th \in Threads, NEW c \in Contexts, CreateContext(th, c)
       PROVE Registry!Next \/ UNCHANGED <<Registered, Members, Dropped, Freed>>
  <2>1. UNCHANGED <<slots, idx>> /\ Registered' = Registered
    BY <1>12 DEF CreateContext, Registered, HandleInv, TypeOK
  <2>2. \A h \in Handles : SameRole(h)
    BY <1>12 DEF CreateContext, SameRole, HandleInv, TypeOK, CallHandles, CallShape,
       CreationPoints
  <2> QED
    BY <2>1, <2>2, QuietEffect
<1>13. ASSUME NEW th \in Threads, NewHandle(th)
       PROVE Registry!Next \/ UNCHANGED <<Registered, Members, Dropped, Freed>>
  <2> DEFINE h == call[th].h
  <2>1. h \in Handles /\ hstate[h] = "building" /\ idx[h] = -1 /\ UNCHANGED <<slots, tstate>>
    BY <1>13 DEF NewHandle, HandleInv, TypeOK, CallShape, CallHandles, CreationPoints
  <2>2. CASE hstate' = hstate /\ idx' = [idx EXCEPT ![h] = nextId[KindOf(h)]]
    <3>1. nextId[KindOf(h)] \notin DOMAIN slots[KindOf(h)]
      BY <1>13, <2>1, FreshIndex DEF NewHandle
    <3>2. Present' = Present
      BY <2>1, <2>2, <3>1 DEF Present, HandleInv, TypeOK
    <3>3. Members' = Members /\ Registered' = Registered
      BY <2>1, <3>2, MembersPresent, MembersPresentNext DEF Registered
    <3> QED
      BY <2>2, <3>3 DEF Dropped, Freed
  <2>3. CASE hstate' = [hstate EXCEPT ![h] = "freed"] /\ idx' = idx
    <3>1. h \notin Present
      BY <2>1, PresentHeld
    <3>2. Present' = Present
      BY <2>1, <2>3 DEF Present
    <3> HIDE DEF h
    <3> QED
      BY <2>1, <2>3, <3>1, <3>2, RetireEffect
  <2> QED
    BY <1>13, <2>2, <2>3 DEF NewHandle
<1>14. ASSUME NEW th \in Threads, StartSdkSpan(th)
       PROVE Registry!Next \/ UNCHANGED <<Registered, Members, Dropped, Freed>>
  <2>1. UNCHANGED <<slots, idx>> /\ Registered' = Registered
    BY <1>14 DEF StartSdkSpan, Registered, HandleInv, TypeOK
  <2>2. \A h \in Handles : SameRole(h)
    BY <1>14 DEF StartSdkSpan, SameRole, HandleInv, TypeOK, CallHandles, CallShape, CreationPoints
  <2> QED
    BY <2>1, <2>2, QuietEffect
<1>15. ASSUME NEW th \in Threads, WrapContext(th)
       PROVE Registry!Next \/ UNCHANGED <<Registered, Members, Dropped, Freed>>
  <2>1. UNCHANGED <<slots, idx>> /\ Registered' = Registered
    BY <1>15 DEF WrapContext, Registered, HandleInv, TypeOK
  <2>2. \A h \in Handles : SameRole(h)
    BY <1>15 DEF WrapContext, SameRole, HandleInv, TypeOK, CallHandles, CallShape, CreationPoints
  <2> QED
    BY <2>1, <2>2, QuietEffect
<1>16. ASSUME NEW th \in Threads, Emplace(th)
       PROVE Registry!Next \/ UNCHANGED <<Registered, Members, Dropped, Freed>>
  <2> DEFINE h == call[th].h
             k == KindOf(h)
  <2>0. h \in Handles /\ hstate[h] = "building" /\ UNCHANGED <<idx, tstate>>
    BY <1>16 DEF Emplace, HandleInv, TypeOK, CallShape, CallHandles, CreationPoints
  <2>1. k \in Kinds /\ DOMAIN slots = Kinds
    BY DEF HandleInv, TypeOK
  <2>2. h \notin Present /\ idx[h] \notin DOMAIN slots[k]
    BY <2>0, PresentHeld DEF Present
  <2>3. CASE slots' = [slots EXCEPT ![k] = Insert(slots[k], idx[h], h)] /\ hstate' = [hstate EXCEPT ![h] = "held"]
    <3>1. \A l \in Kinds : DOMAIN slots'[l] = DOMAIN slots[l] \cup (IF l = k THEN {idx[h]} ELSE {})
      <4> HIDE DEF k, h
      <4> QED
        BY <2>1, <2>2, <2>3, InsertEffect
    <3>2. \A g \in Handles : KindOf(g) = k /\ idx[g] = idx[h] => g = h
      BY <1>16, <2>0 DEF Emplace, HandleInv, TypeOK, CallHandles, IndexesDrawnOnce
    <3>3. ASSUME NEW g \in Handles PROVE g \in Present' <=> g \in Present \/ g = h
      BY <2>0, <2>1, <3>1, <3>2 DEF Present
    <3>4. Present' = Present \cup {h}
      BY <2>0, <3>3 DEF Present
    <3>5. Members' = Members \cup {h} /\ h \notin Members \cup Dropped \cup Freed
      BY <2>0, <2>2, <3>4, MembersPresent, MembersPresentNext DEF Dropped, Freed, HandleInv,
         TypeOK
    <3>6. Registered # {} /\ Registered' = Registered
      BY <1>16, <2>0 DEF Emplace, Registered, CreationPoints, MapInv, CallsHaveTracer,
         InHandleCall, Up, ReleasePoints, HandleAssumption
    <3>7. Dropped' = Dropped /\ Freed' = Freed
      BY <2>0, <2>3, <3>5 DEF Dropped, Freed, HandleInv, TypeOK
    <3> HIDE DEF h
    <3> QED
      BY <2>0, <3>5, <3>6, <3>7 DEF Registry!Next, Registry!Enter
  <2>4. CASE hstate' = [hstate EXCEPT ![h] = "freed"] /\ slots' = slots
    <3>1. Present' = Present \ {h}
      BY <2>0, <2>2, <2>4 DEF Present
    <3> HIDE DEF h
    <3> QED
      BY <2>0, <2>4, <3>1, RetireEffect
  <2> QED
    BY <1>16, <2>0, <2>3, <2>4 DEF Emplace
<1>17. ASSUME NEW th \in Threads, Undo(th)
       PROVE Registry!Next \/ UNCHANGED <<Registered, Members, Dropped, Freed>>
  <2>1. call[th].h \in Handles /\ NolockDestroy(call[th].h) /\ UNCHANGED <<idx, tstate>>
    BY <1>17 DEF Undo, HandleInv, TypeOK, CallShape, CallHandles, CreationPoints, ReleasePoints
  <2>2. hstate[call[th].h] # "freed" /\ hstate' = [hstate EXCEPT ![call[th].h] = "freed"]
    BY <1>17, <2>1, DestroyEffect DEF Undo, HandleInv, TypeOK, CallShape, CallHandles,
       CreationPoints, ReleasePoints
  <2> QED
    BY <2>1, <2>2, DestroyTakesOwn, RetireEffect
<1>18. ASSUME NEW th \in Threads, NEW h \in Handles, Release(th, h)
       PROVE Registry!Next \/ UNCHANGED <<Registered, Members, Dropped, Freed>>
  <2>1. UNCHANGED <<slots, idx>> /\ Registered' = Registered
    BY <1>18 DEF Release, Registered, HandleInv, TypeOK
  <2>2. \A k \in Handles : SameRole(k)
    BY <1>18 DEF Release, SameRole, HandleInv, TypeOK, CallHandles, CallShape, CreationPoints
  <2> QED
    BY <2>1, <2>2, QuietEffect
<1>19. ASSUME NEW th \in Threads, FinishRelease(th)
       PROVE Registry!Next \/ UNCHANGED <<Registered, Members, Dropped, Freed>>
  <2>1. call[th].h \in Handles /\ NolockDestroy(call[th].h) /\ UNCHANGED <<idx, tstate>>
    BY <1>19 DEF FinishRelease, HandleInv, TypeOK, CallShape, CallHandles, CreationPoints,
       ReleasePoints
  <2>2. hstate[call[th].h] # "freed" /\ hstate' = [hstate EXCEPT ![call[th].h] = "freed"]
    BY <1>19, <2>1, DestroyEffect DEF FinishRelease, HandleInv, TypeOK, CallShape, CallHandles,
       CreationPoints, ReleasePoints
  <2> QED
    BY <2>1, <2>2, DestroyTakesOwn, RetireEffect
<1>20. ASSUME NEW th \in Threads, NEW h \in Handles, Read(th, h)
       PROVE Registry!Next \/ UNCHANGED <<Registered, Members, Dropped, Freed>>
  <2>1. UNCHANGED <<slots, idx>> /\ Registered' = Registered
    BY <1>20 DEF Read, Registered, HandleInv, TypeOK
  <2>2. \A k \in Handles : SameRole(k)
    BY <1>20 DEF Read, SameRole, HandleInv, TypeOK, CallHandles, CallShape, CreationPoints
  <2> QED
    BY <2>1, <2>2, QuietEffect
<1>21. ASSUME NEW th \in Threads, FinishRead(th)
       PROVE Registry!Next \/ UNCHANGED <<Registered, Members, Dropped, Freed>>
  <2>1. UNCHANGED <<slots, idx>> /\ Registered' = Registered
    BY <1>21 DEF FinishRead, Registered, HandleInv, TypeOK
  <2>2. \A h \in Handles : SameRole(h)
    BY <1>21 DEF FinishRead, SameRole, HandleInv, TypeOK, CallHandles, CallShape, CreationPoints
  <2> QED
    BY <2>1, <2>2, QuietEffect
<1>22. ASSUME UNCHANGED vars
       PROVE Registry!Next \/ UNCHANGED <<Registered, Members, Dropped, Freed>>
  BY <1>22 DEF Registered, Members, Lookup, Dropped, Freed
<1> QED
  BY <1>1, <1>2, <1>3, <1>4, <1>5, <1>6, <1>7, <1>8, <1>9, <1>10, <1>11, <1>12, <1>13, <1>14,
     <1>15, <1>16, <1>17, <1>18, <1>19, <1>20, <1>21, <1>22
  DEF Next, Begin, Continue

\* Reference counts, generations, indexes and locks implement the registry: while a tracer is
\* registered an object stays until its own handle is released, and none ever comes back.
THEOREM MapsImplementRegistry == Spec => ImplementsRegistry
<1> USE HandleAssumption
<1>1. Init => Registry!Init
  <2> SUFFICES ASSUME Init PROVE Registry!Init
    OBVIOUS
  <2>1. Registered = {} /\ Freed = {}
    BY DEF Init, Registered, Freed
  <2>2. Members = {} /\ Dropped = {}
    BY HandleInit, MembersPresent DEF Init, Present, Empty, Dropped
  <2> QED
    BY <2>1, <2>2 DEF Registry!Init
<1>2. HandleInv /\ HandleInv' /\ MapInv /\ [Next]_vars
        => [Registry!Next]_<<Registered, Members, Dropped, Freed>>
  BY RegistryStep
<1> QED
  BY <1>1, <1>2, HandleInvariant, MapInvariant, PTL DEF Spec, ImplementsRegistry, Registry!Spec,
     Registry!vars
=============================================================================

