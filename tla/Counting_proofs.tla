--------------------------- MODULE Counting_proofs ---------------------------
(***************************************************************************)
(* Theorems about the two parts that MCCounting composes.  BatchCounters,  *)
(* for any number of producers, any queue and batch size and runs of any   *)
(* length: the reported depth and drop count stay within fixed bounds of   *)
(* the truth, because CounterInv is inductive.  CountingInstance, for any  *)
(* threads and processors: InstanceInv is inductive, since a reader holds  *)
(* the mutex, so the pointer it loaded stays, and a destructor has         *)
(* deregistered its processor before the members go.                       *)
(***************************************************************************)
EXTENDS BatchCounters, CountingInstance, TLAPS, FiniteSetTheorems

-----------------------------------------------------------------------------
(* BatchCounters *)

USE CounterAssumption DEF wrapperVars, sdkVars, vars, Goto, UnseenRefusals, FalseDrops

\* Sets of producers are finite, and no two disjoint ones outnumber all producers.
LEMMA ProducerSets ==
  ASSUME NEW S \in SUBSET Producers
  PROVE  /\ IsFiniteSet(S) /\ Cardinality(S) \in Nat
         /\ Cardinality(S) <= Cardinality(Producers) /\ Cardinality(Producers) \in Nat
         /\ \A T \in SUBSET S : Cardinality(T) <= Cardinality(S)
         /\ \A T \in SUBSET Producers :
               S \cap T = {} => Cardinality(S) + Cardinality(T) <= Cardinality(Producers)
         /\ \A p \in S : Cardinality(S \ {p}) = Cardinality(S) - 1
         /\ \A p \in Producers \ S : Cardinality(S \cup {p}) = Cardinality(S) + 1
<1>1. IsFiniteSet(S) /\ Cardinality(S) <= Cardinality(Producers)
  BY FS_Subset
<1>2. Cardinality(S) \in Nat /\ Cardinality(Producers) \in Nat
  BY <1>1, FS_CardinalityType
<1>3. \A T \in SUBSET S : Cardinality(T) <= Cardinality(S)
  BY <1>1, FS_Subset
<1>4. ASSUME NEW T \in SUBSET Producers, S \cap T = {}
      PROVE  Cardinality(S) + Cardinality(T) <= Cardinality(Producers)
  <2>1. IsFiniteSet(T) /\ Cardinality(T) \in Nat
    BY FS_Subset, FS_CardinalityType
  <2>2. Cardinality(S \cup T) = Cardinality(S) + Cardinality(T)
    <3>1. Cardinality(S \cup T) = Cardinality(S) + Cardinality(T) - Cardinality(S \cap T)
      BY <1>1, <2>1, FS_Union
    <3>2. Cardinality(S \cap T) = 0
      BY <1>4, FS_EmptySet
    <3> QED
      BY <1>2, <2>1, <3>1, <3>2
  <2>3. Cardinality(S \cup T) <= Cardinality(Producers)
    BY FS_Subset
  <2> QED
    BY <2>2, <2>3
<1>5. \A p \in S : Cardinality(S \ {p}) = Cardinality(S) - 1
  BY <1>1, FS_RemoveElement
<1>6. \A p \in Producers \ S : Cardinality(S \cup {p}) = Cardinality(S) + 1
  BY <1>1, FS_AddElement
<1> QED
  BY <1>1, <1>2, <1>3, <1>4, <1>5, <1>6

LEMMA InitInv == Init => CounterInv
<1> SUFFICES ASSUME Init PROVE CounterInv
  OBVIOUS
<1>1. Undecided = {} /\ Counted = {} /\ Condemned = {}
  BY DEF Init, Undecided, Counted, Condemned
<1>2. Cardinality({}) = 0 /\ Cardinality(Producers) \in Nat \ {0}
  BY FS_EmptySet, FS_CardinalityType
<1>3. TypeOK
  <2>1. /\ pc \in [Producers -> {"idle", "loaded", "deciding", "handing"}]
        /\ prod \in [Producers -> 0..MaxSpans] /\ cons \in [Producers -> 0..MaxSpans]
    BY DEF Init
  <2>2. queue \in 0..MaxQueue /\ batch \in 0..MaxBatch
    BY DEF Init
  <2> QED
    BY <2>1, <2>2 DEF Init, TypeOK
<1>7. LoadsBehind
  BY DEF Init, LoadsBehind
<1>4. SpansBalance
  BY <1>1, <1>2 DEF Init, SpansBalance, Uncounted, Unrecorded
<1>5. Overshoot
  BY DEF Init, Overshoot
<1>6. FalseDropsBounded
  BY <1>1, <1>2 DEF Init, FalseDropsBounded
<1> QED
  BY <1>2, <1>3, <1>4, <1>5, <1>6, <1>7 DEF Init, CounterInv

\* The three sets are made of producers, and no thread is in two of them.
LEMMA Places ==
  /\ Undecided \in SUBSET Producers /\ Counted \in SUBSET Producers
  /\ Condemned \in SUBSET Producers /\ Condemned \cap Counted = {}
  /\ \A c : Passing(c) \in SUBSET Producers
BY DEF Undecided, Counted, Condemned, Passing

\* What the invariant says in numbers, for the steps that do arithmetic on it.
LEMMA Numbers ==
  ASSUME CounterInv
  PROVE  /\ Cardinality(Undecided) \in Nat /\ Cardinality(Counted) \in Nat
         /\ Cardinality(Condemned) \in Nat /\ Cardinality(Producers) \in Nat
         /\ \A c : Cardinality(Passing(c)) \in Nat
         /\ Cardinality(Condemned) + Cardinality(Counted) <= Cardinality(Producers)
         /\ Uncounted \in 0..MaxBatch /\ Unrecorded \in 0..MaxBatch
BY Places, ProducerSets DEF CounterInv, TypeOK, Uncounted, Unrecorded

LEMMA LoadProducedStep ==
  ASSUME CounterInv, NEW p \in Producers, LoadProduced(p) PROVE CounterInv'
<1> USE DEF LoadProduced
<1>1. TypeOK' /\ LoadsBehind'
  BY DEF CounterInv, TypeOK, LoadsBehind
<1>2. /\ p \in Producers \ Undecided /\ Undecided' = Undecided \cup {p}
      /\ Counted' = Counted /\ Condemned' = Condemned
  BY DEF CounterInv, TypeOK, Undecided, Counted, Condemned, LooksFull, Minus
<1>3. Cardinality(Undecided') = Cardinality(Undecided) + 1
  BY <1>2, Places, ProducerSets
<1>4. SpansBalance'
  BY <1>2, <1>3, Numbers DEF CounterInv, TypeOK, SpansBalance, MayEnd, Uncounted, Unrecorded
<1>5. Overshoot'
  <2> SUFFICES ASSUME NEW c \in 0..MaxSpans, c >= consumed, produced >= c + MaxQueue
               PROVE  produced + Cardinality(Passing(c)')
                         <= c + MaxQueue + Cardinality(Producers) - 1
    BY DEF Overshoot
  <2>1. Passing(c)' = Passing(c)
    BY <1>2 DEF CounterInv, TypeOK, Passing
  <2> QED
    BY <2>1 DEF CounterInv, Overshoot
<1> QED
  BY <1>1, <1>2, <1>4, <1>5 DEF CounterInv, FalseDropsBounded

LEMMA LoadConsumedStep ==
  ASSUME CounterInv, NEW p \in Producers, LoadConsumed(p) PROVE CounterInv'
<1> USE DEF LoadConsumed
<1>1. TypeOK' /\ LoadsBehind'
  BY DEF CounterInv, TypeOK, LoadsBehind
<1>2. Undecided' = Undecided /\ Counted' = Counted /\ p \notin Condemned
  BY DEF CounterInv, TypeOK, Undecided, Counted, Condemned
<1>3. Condemned' = IF LooksFull(p)' THEN Condemned \cup {p} ELSE Condemned
  BY DEF CounterInv, TypeOK, Condemned, LooksFull, Minus
<1>4. SpansBalance'
  BY <1>2 DEF CounterInv, SpansBalance, Uncounted, Unrecorded
<1>5. Overshoot'
  <2> SUFFICES ASSUME NEW c \in 0..MaxSpans, c >= consumed, produced >= c + MaxQueue
               PROVE  produced + Cardinality(Passing(c)')
                         <= c + MaxQueue + Cardinality(Producers) - 1
    BY DEF Overshoot
  <2>1. Passing(c)' \in SUBSET Passing(c)
    BY <1>2, <1>3 DEF CounterInv, TypeOK, Passing
  <2>2. Cardinality(Passing(c)') <= Cardinality(Passing(c)) /\ Cardinality(Passing(c)') \in Nat
    BY <2>1, Places, ProducerSets
  <2> QED
    BY <2>2, Numbers DEF CounterInv, TypeOK, Overshoot
<1>6. FalseDropsBounded'
  <2> SUFFICES ASSUME ~stopped
               PROVE  dropped + Cardinality(Condemned') <= refused + FalseDrops
    BY DEF FalseDropsBounded
  <2>1. CASE ~LooksFull(p)'
    BY <1>3, <2>1 DEF CounterInv, FalseDropsBounded
  <2>2. CASE LooksFull(p)'
    <3>1. produced - consumed >= MaxQueue
      BY <2>2 DEF CounterInv, TypeOK, LoadsBehind, LooksFull, Minus
    <3>2. Cardinality(Condemned') + Cardinality(Counted) <= Cardinality(Producers)
      <4>1. Condemned' \in SUBSET Producers /\ Condemned' \cap Counted = {}
        BY <1>3, <2>2, Places DEF CounterInv, TypeOK, Counted
      <4> QED
        BY <4>1, Places, ProducerSets
    <3>3. Cardinality(Condemned') \in Nat
      BY <1>3, Places, ProducerSets
    <3> QED
      BY <3>1, <3>2, <3>3, Numbers DEF CounterInv, TypeOK, SpansBalance
  <2> QED
    BY <2>1, <2>2
<1> QED
  BY <1>1, <1>4, <1>5, <1>6 DEF CounterInv

LEMMA CountStep ==
  ASSUME CounterInv, NEW p \in Producers, Count(p) PROVE CounterInv'
<1> USE DEF Count
<1>1. /\ p \in Undecided /\ Undecided' = Undecided \ {p}
      /\ p \in Producers \ Counted /\ Counted' = Counted \cup {p}
      /\ Condemned' = Condemned \ {p} /\ (p \in Condemned <=> LooksFull(p))
  BY DEF CounterInv, TypeOK, Undecided, Counted, Condemned, LooksFull
<1>2. /\ Cardinality(Undecided') = Cardinality(Undecided) - 1 /\ Cardinality(Undecided') \in Nat
      /\ Cardinality(Counted') = Cardinality(Counted) + 1
  BY <1>1, Places, ProducerSets
<1>3. SpansBalance'
  BY <1>2, Numbers DEF CounterInv, TypeOK, SpansBalance, Uncounted, Unrecorded
<1>4. produced' \in 0..MaxSpans /\ dropped' \in 0..MaxSpans
  <2>1. produced' \in Nat /\ dropped' \in Nat
    BY DEF CounterInv, TypeOK
  <2> QED
    BY <1>2, <1>3, <2>1 DEF SpansBalance
<1>5. TypeOK'
  BY <1>4 DEF CounterInv, TypeOK
<1>6. LoadsBehind'
  BY DEF CounterInv, TypeOK, LoadsBehind
<1>7. CASE LooksFull(p)
  <2>1. Overshoot'
    <3> SUFFICES ASSUME NEW c \in 0..MaxSpans, c >= consumed, produced >= c + MaxQueue
                 PROVE  produced + Cardinality(Passing(c)')
                           <= c + MaxQueue + Cardinality(Producers) - 1
      BY <1>7 DEF Overshoot
    <3>1. Passing(c)' \in SUBSET Passing(c)
      BY <1>1, <1>7 DEF CounterInv, TypeOK, Passing
    <3>2. Cardinality(Passing(c)') <= Cardinality(Passing(c)) /\ Cardinality(Passing(c)') \in Nat
      BY <3>1, Places, ProducerSets
    <3> QED
      BY <3>2, Numbers DEF CounterInv, TypeOK, Overshoot
  <2>2. Cardinality(Condemned') = Cardinality(Condemned) - 1
    BY <1>1, <1>7, Places, ProducerSets
  <2>3. FalseDropsBounded'
    BY <1>7, <2>2, Numbers DEF CounterInv, TypeOK, FalseDropsBounded
  <2>4. (refused - dropped <= UnseenRefusals)'
    BY <1>7, Numbers DEF CounterInv, TypeOK
  <2> QED
    BY <1>3, <1>5, <1>6, <2>1, <2>3, <2>4 DEF CounterInv
<1>8. CASE ~LooksFull(p)
  <2>1. Overshoot'
    <3> SUFFICES ASSUME NEW c \in 0..MaxSpans, c >= consumed, produced + 1 >= c + MaxQueue
                 PROVE  produced + 1 + Cardinality(Passing(c)')
                           <= c + MaxQueue + Cardinality(Producers) - 1
      BY <1>8 DEF Overshoot
    <3>1. p \in Passing(c) /\ Passing(c)' = Passing(c) \ {p}
      <4>1. prod[p] < c + MaxQueue
        BY <1>8 DEF CounterInv, TypeOK, LoadsBehind, LooksFull, Minus
      <4>2. Passing(c)' = Passing(c) \ {p}
        BY <1>1 DEF Passing
      <4> QED
        BY <1>1, <1>8, <4>1, <4>2 DEF Passing
    <3>2. Cardinality(Passing(c)') = Cardinality(Passing(c)) - 1
      BY <3>1, Places, ProducerSets
    <3>3. Cardinality(Passing(c)) <= Cardinality(Producers)
      BY Places, ProducerSets
    <3> QED
      BY <3>2, <3>3, Numbers DEF CounterInv, TypeOK, Overshoot
  <2>2. Condemned' = Condemned
    BY <1>1, <1>8
  <2>3. FalseDropsBounded'
    BY <1>8, <2>2 DEF CounterInv, FalseDropsBounded
  <2> QED
    BY <1>3, <1>5, <1>6, <1>8, <2>1, <2>3 DEF CounterInv
<1> QED
  BY <1>7, <1>8

\* Where no producer moves and the counters only consume, the sets and Overshoot stay.
LEMMA QuietStep ==
  ASSUME CounterInv, UNCHANGED <<produced, pc, prod, cons>>,
         consumed' \in 0..MaxSpans, consumed' >= consumed
  PROVE  /\ Undecided' = Undecided /\ Counted' = Counted /\ Condemned' = Condemned
         /\ Overshoot' /\ LoadsBehind'
<1>1. Undecided' = Undecided /\ Counted' = Counted /\ Condemned' = Condemned
  BY DEF Undecided, Counted, Condemned, LooksFull
<1>2. \A c : Passing(c)' = Passing(c)
  BY <1>1 DEF Passing
<1>3. Overshoot'
  BY <1>2 DEF CounterInv, TypeOK, Overshoot
<1>4. LoadsBehind'
  BY DEF CounterInv, TypeOK, LoadsBehind
<1> QED
  BY <1>1, <1>3, <1>4

LEMMA HandStep ==
  ASSUME CounterInv, NEW p \in Producers, Hand(p) PROVE CounterInv'
<1> USE DEF Hand
<1>1. /\ p \in Counted /\ Counted' = Counted \ {p}
      /\ Undecided' = Undecided /\ Condemned' = Condemned
  BY DEF CounterInv, TypeOK, Undecided, Counted, Condemned, LooksFull
<1>2. Cardinality(Counted') = Cardinality(Counted) - 1 /\ Cardinality(Counted') \in Nat
  BY <1>1, Places, ProducerSets
<1>3. SpansBalance'
  BY <1>1, <1>2, Numbers DEF CounterInv, TypeOK, SpansBalance, Uncounted, Unrecorded
<1>4. /\ refused' \in 0..MaxSpans /\ ignored' \in 0..MaxSpans
      /\ queue' \in 0..MaxQueue
  BY <1>2, <1>3, Numbers DEF CounterInv, TypeOK, SpansBalance
<1>5. TypeOK' /\ LoadsBehind'
  BY <1>4 DEF CounterInv, TypeOK, LoadsBehind
<1>6. Overshoot'
  <2>1. \A c : Passing(c)' = Passing(c)
    BY <1>1 DEF CounterInv, TypeOK, Passing, Undecided
  <2> QED
    BY <2>1 DEF CounterInv, Overshoot
<1>7. FalseDropsBounded'
  BY <1>1, Numbers DEF CounterInv, TypeOK, FalseDropsBounded
<1>8. (refused - dropped <= UnseenRefusals)'
  <2>1. CASE refused' = refused
    BY <2>1 DEF CounterInv
  <2>2. CASE refused' = refused + 1 /\ ~stopped /\ queue >= MaxQueue
    <3>1. refused + 1 - dropped <= produced - consumed - MaxQueue
      BY <1>2, <2>2, Numbers DEF CounterInv, TypeOK, SpansBalance
    <3>2. CASE produced >= consumed + MaxQueue
      <4>1. produced <= consumed + MaxQueue + Cardinality(Producers) - 1
        BY <3>2, Numbers DEF CounterInv, TypeOK, Overshoot
      <4> QED
        BY <2>2, <3>1, <4>1, Numbers DEF CounterInv, TypeOK
    <3>3. CASE produced < consumed + MaxQueue
      <4>1. Cardinality(Producers) # 0
        BY FS_EmptySet
      <4> QED
        BY <2>2, <3>1, <3>3, <4>1, Numbers DEF CounterInv, TypeOK
    <3> QED
      BY <3>2, <3>3 DEF CounterInv, TypeOK
  <2> QED
    BY <2>1, <2>2
<1> QED
  BY <1>3, <1>5, <1>6, <1>7, <1>8 DEF CounterInv

\* A sum bounds its parts.
LEMMA TwoOfThree ==
  \A d \in 0..MaxSpans : \A a, b, c \in Nat :
     d = a + b + c => a \in 0..MaxSpans /\ b \in 0..MaxSpans
OBVIOUS

LEMMA WorkerStep ==
  ASSUME CounterInv, Worker \/ Shutdown PROVE CounterInv'
<1>1. /\ UNCHANGED <<produced, dropped, pc, prod, cons, refused, ignored>>
      /\ stopped => stopped'
  BY DEF Worker, TakeBatch, CountConsumed, Exported, Shutdown
<1>2. /\ consumed' \in 0..MaxSpans /\ consumed' >= consumed
      /\ queue' \in 0..MaxQueue /\ batch' \in 0..MaxBatch
      /\ consumed' + Uncounted' + queue' = consumed + Uncounted + queue
      /\ consumed' = recordsOk' + recordsFail' + Unrecorded'
      /\ worker' \in {"waiting", "taken", "exporting"} /\ stopped' \in BOOLEAN
      /\ recordsOk' \in Nat /\ recordsFail' \in Nat
  <2>1. CASE TakeBatch
    BY <2>1 DEF CounterInv, TypeOK, SpansBalance, TakeBatch, Uncounted, Unrecorded
  <2>2. CASE CountConsumed
    BY <2>2, Numbers DEF CounterInv, TypeOK, SpansBalance, CountConsumed, Uncounted, Unrecorded
  <2>3. CASE Exported
    BY <2>3 DEF CounterInv, TypeOK, SpansBalance, Exported, CountRecords, Uncounted, Unrecorded
  <2>4. CASE Shutdown
    BY <2>4 DEF CounterInv, TypeOK, SpansBalance, Shutdown, Uncounted, Unrecorded
  <2> QED
    BY <2>1, <2>2, <2>3, <2>4 DEF Worker
<1>3. /\ Undecided' = Undecided /\ Counted' = Counted /\ Condemned' = Condemned
      /\ Overshoot' /\ LoadsBehind'
  BY <1>1, <1>2, QuietStep
<1>4. Unrecorded' \in Nat
  BY <1>2 DEF Unrecorded
<1>5. SpansBalance'
  <2>1. Uncounted' \in Nat
    BY <1>2 DEF Uncounted
  <2>2. /\ produced' + dropped'
              = consumed' + Uncounted' + queue' + refused' + ignored' + Cardinality(Counted')
        /\ produced' + dropped' + Cardinality(Undecided') <= MaxSpans
    BY <1>1, <1>2, <1>3, <2>1, Numbers DEF CounterInv, TypeOK, SpansBalance
  <2>4. ~stopped' => ignored' = 0
    BY <1>1 DEF CounterInv, SpansBalance
  <2> QED
    BY <1>2, <2>2, <2>4 DEF SpansBalance
<1>6. recordsOk' \in 0..MaxSpans /\ recordsFail' \in 0..MaxSpans
  BY <1>2, <1>4, TwoOfThree, Zenon
<1>7. TypeOK'
  BY <1>1, <1>2, <1>6 DEF CounterInv, TypeOK
<1>8. FalseDropsBounded' /\ (refused - dropped <= UnseenRefusals)'
  BY <1>1, <1>3 DEF CounterInv, FalseDropsBounded
<1> QED
  BY <1>3, <1>5, <1>7, <1>8 DEF CounterInv

LEMMA NextInv == CounterInv /\ [Next]_vars => CounterInv'
<1> SUFFICES ASSUME CounterInv, [Next]_vars PROVE CounterInv'
  OBVIOUS
<1>1. CASE UNCHANGED vars
  BY <1>1 DEF CounterInv, TypeOK, SpansBalance, LoadsBehind, Overshoot, FalseDropsBounded,
              Uncounted, Unrecorded, Undecided, Counted, Condemned, Passing, LooksFull, Minus
<1>2. CASE Worker \/ Shutdown
  BY <1>2, WorkerStep
<1>3. ASSUME NEW p \in Producers, OnEnd(p) PROVE CounterInv'
  BY <1>3, LoadProducedStep, LoadConsumedStep, CountStep, HandStep DEF OnEnd
<1> QED
  BY <1>1, <1>2, <1>3 DEF Next

-----------------------------------------------------------------------------
\* CounterInv holds in every state of every behaviour.
THEOREM CounterInvariant == Spec => []CounterInv
  BY InitInv, NextInv, PTL DEF Spec

\* Every variable keeps its type and its bound.
THEOREM TypeCorrect == Spec => []TypeOK
<1>1. CounterInv => TypeOK
  BY DEF CounterInv
<1> QED
  BY <1>1, CounterInvariant, PTL

\* The depth queue_depth() reports exceeds the capacity by less than one span per thread.
THEOREM DepthStaysBounded == Spec => []DepthBounded
<1>1. CounterInv => DepthBounded
  <2> SUFFICES ASSUME CounterInv PROVE DepthBounded
    OBVIOUS
  <2>1. Cardinality(Producers) # 0
    BY FS_EmptySet
  <2>2. produced >= consumed + MaxQueue
           => produced <= consumed + MaxQueue + Cardinality(Producers) - 1
    BY Numbers DEF CounterInv, TypeOK, Overshoot
  <2> QED
    BY <2>1, <2>2, Numbers DEF CounterInv, TypeOK, DepthBounded, Depth
<1> QED
  BY <1>1, CounterInvariant, PTL

\* The drop count never strays from the number of spans the SDK refused by more than a
\* batch and a span per thread, in a run of any length.
THEOREM DropsStayTracked == Spec => []DropsTracked
<1>1. CounterInv => DropsTracked
  <2> SUFFICES ASSUME CounterInv, ~stopped
               PROVE  refused - dropped <= UnseenRefusals /\ dropped - refused <= FalseDrops
    BY DEF DropsTracked
  <2> QED
    BY Numbers DEF CounterInv, TypeOK, FalseDropsBounded
<1> QED
  BY <1>1, CounterInvariant, PTL

-----------------------------------------------------------------------------
(* CountingInstance *)

HIDE CounterAssumption DEF wrapperVars, sdkVars, vars, Goto, UnseenRefusals, FalseDrops
USE InstanceAssumption DEF instanceVars, Points, Lives, Enter, Return, Becomes

LEMMA InstanceInitInv == InstanceInit => InstanceInv
BY DEF InstanceInit, InstanceInv, InstanceTypeOK, StepShape, OneOwner, PointerValid, PointerLatest,
       LatestStaysRegistered

\* One step for each action, one part of the invariant at a time.
LEMMA ConstructStep ==
  ASSUME InstanceInv, NEW th \in Threads, NEW p \in Processors, Construct(th, p) PROVE InstanceInv'
<1> USE DEF InstanceInv, InstanceTypeOK, Construct
<1>1. InstanceTypeOK'
  BY DEF StepShape
<1>2. StepShape'
  BY DEF StepShape, OneOwner
<1>3. OneOwner'
  BY DEF StepShape, OneOwner
<1>4. PointerValid'
  BY DEF StepShape, PointerValid, OneOwner
<1>5. PointerLatest'
  BY DEF PointerLatest
<1>6. LatestStaysRegistered'
  BY DEF LatestStaysRegistered, PointerLatest, StepShape, PointerValid
<1> QED
  BY <1>1, <1>2, <1>3, <1>4, <1>5, <1>6

LEMMA RegisterStep ==
  ASSUME InstanceInv, NEW th \in Threads, Register(th) PROVE InstanceInv'
<1> USE DEF InstanceInv, InstanceTypeOK, Register
<1>1. InstanceTypeOK'
  BY DEF StepShape
<1>2. StepShape'
  BY DEF StepShape, OneOwner
<1>3. OneOwner'
  BY DEF StepShape, OneOwner
<1>4. PointerValid'
  BY DEF StepShape, PointerValid, OneOwner
<1>5. PointerLatest'
  BY DEF PointerLatest
<1>6. LatestStaysRegistered'
  BY DEF LatestStaysRegistered, PointerLatest, StepShape, PointerValid
<1> QED
  BY <1>1, <1>2, <1>3, <1>4, <1>5, <1>6

LEMMA DestructStep ==
  ASSUME InstanceInv, NEW th \in Threads, NEW p \in Processors, Destruct(th, p) PROVE InstanceInv'
<1> USE DEF InstanceInv, InstanceTypeOK, Destruct
<1>1. InstanceTypeOK'
  BY DEF StepShape
<1>2. StepShape'
  BY DEF StepShape, OneOwner
<1>3. OneOwner'
  BY DEF StepShape, OneOwner
<1>4. PointerValid'
  BY DEF StepShape, PointerValid, OneOwner
<1>5. PointerLatest'
  BY DEF PointerLatest
<1>6. LatestStaysRegistered'
  BY DEF LatestStaysRegistered, PointerLatest, StepShape, PointerValid
<1> QED
  BY <1>1, <1>2, <1>3, <1>4, <1>5, <1>6

LEMMA DeregisterStep ==
  ASSUME InstanceInv, NEW th \in Threads, Deregister(th) PROVE InstanceInv'
<1> USE DEF InstanceInv, InstanceTypeOK, Deregister
<1>1. InstanceTypeOK'
  BY DEF StepShape
<1>2. StepShape'
  BY DEF StepShape, OneOwner
<1>3. OneOwner'
  BY DEF StepShape, OneOwner
<1>4. PointerValid'
  BY DEF StepShape, PointerValid, OneOwner
<1>5. PointerLatest'
  BY DEF PointerLatest
<1>6. LatestStaysRegistered'
  BY DEF LatestStaysRegistered, PointerLatest, StepShape, PointerValid
<1> QED
  BY <1>1, <1>2, <1>3, <1>4, <1>5, <1>6

LEMMA FreeMembersStep ==
  ASSUME InstanceInv, NEW th \in Threads, FreeMembers(th) PROVE InstanceInv'
<1> USE DEF InstanceInv, InstanceTypeOK, FreeMembers
<1>1. InstanceTypeOK'
  BY DEF StepShape
<1>2. StepShape'
  BY DEF StepShape, OneOwner
<1>3. OneOwner'
  BY DEF StepShape, OneOwner
<1>4. PointerValid'
  BY DEF StepShape, PointerValid, OneOwner
<1>5. PointerLatest'
  BY DEF PointerLatest
<1>6. LatestStaysRegistered'
  BY DEF LatestStaysRegistered, PointerLatest, StepShape, PointerValid
<1> QED
  BY <1>1, <1>2, <1>3, <1>4, <1>5, <1>6

LEMMA LoadStep ==
  ASSUME InstanceInv, NEW th \in Threads, Load(th) PROVE InstanceInv'
<1> USE DEF InstanceInv, InstanceTypeOK, Load
<1>1. InstanceTypeOK'
  BY DEF StepShape
<1>2. StepShape'
  BY DEF StepShape, OneOwner
<1>3. OneOwner'
  BY DEF StepShape, OneOwner
<1>4. PointerValid'
  BY DEF StepShape, PointerValid, OneOwner
<1>5. PointerLatest'
  BY DEF PointerLatest
<1>6. LatestStaysRegistered'
  BY DEF LatestStaysRegistered, PointerLatest, StepShape, PointerValid
<1> QED
  BY <1>1, <1>2, <1>3, <1>4, <1>5, <1>6

LEMMA ReadStep ==
  ASSUME InstanceInv, NEW th \in Threads, Read(th) PROVE InstanceInv'
<1> USE DEF InstanceInv, InstanceTypeOK, Read
<1>1. InstanceTypeOK'
  BY DEF StepShape
<1>2. StepShape'
  BY DEF StepShape, OneOwner
<1>3. OneOwner'
  BY DEF StepShape, OneOwner
<1>4. PointerValid'
  BY DEF StepShape, PointerValid, OneOwner
<1>5. PointerLatest'
  BY DEF PointerLatest
<1>6. LatestStaysRegistered'
  BY DEF LatestStaysRegistered, PointerLatest, StepShape, PointerValid
<1> QED
  BY <1>1, <1>2, <1>3, <1>4, <1>5, <1>6

LEMMA InstanceNextInv == ASSUME InstanceInv, [InstanceNext]_instanceVars PROVE InstanceInv'
<1>1. CASE UNCHANGED instanceVars
  BY <1>1 DEF InstanceInv, InstanceTypeOK, StepShape, OneOwner, PointerValid, PointerLatest,
              LatestStaysRegistered
<1>2. CASE InstanceNext
  BY <1>2, ConstructStep, RegisterStep, DestructStep, DeregisterStep, FreeMembersStep,
     LoadStep, ReadStep DEF InstanceNext
<1> QED
  BY <1>1, <1>2

\* The invariant holds in every run, with any number of threads and processors.
THEOREM InstanceInvariant == InstanceSpec => []InstanceInv
<1>1. InstanceInit => InstanceInv
  BY InstanceInitInv
<1>2. InstanceInv /\ [InstanceNext]_instanceVars => InstanceInv'
  BY InstanceNextInv
<1> QED
  BY <1>1, <1>2, PTL DEF InstanceSpec

\* The status readers never dereference a processor that was destroyed.
THEOREM NoReadAfterFreeEver == InstanceSpec => []NoReadAfterFree
<1>1. InstanceInv => NoReadAfterFree
  BY DEF InstanceInv, InstanceTypeOK, StepShape, PointerValid, NoReadAfterFree
<1> QED
  BY <1>1, InstanceInvariant, PTL

\* A processor stays the one reported while it lives and none was created after it.
THEOREM LatestStays == InstanceSpec => []LatestStaysRegistered
<1>1. InstanceInv => LatestStaysRegistered
  BY DEF InstanceInv
<1> QED
  BY <1>1, InstanceInvariant, PTL
=============================================================================
