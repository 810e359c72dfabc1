------------------------- MODULE SharedMutex_proofs -------------------------
(***************************************************************************)
(* Theorems about SharedMutex, for any finite set of threads: exclusion,   *)
(* and that a waiting writer is held up only by earlier readers.  MutexInv *)
(* is inductive: the counter counts the registered writers, so a writer    *)
(* that waits keeps it above zero and no reader passes the check.          *)
(***************************************************************************)
EXTENDS SharedMutex, TLAPS, FiniteSetTheorems

USE MutexAssumption DEF vars, Points, Goto, MutexFree, MutexLock, MutexUnlock, InFlight

LEMMA InitInv == Init => MutexInv
<1> SUFFICES ASSUME Init PROVE MutexInv
  OBVIOUS
<1>1. TypeOK /\ LockHeld /\ EarlierReaders
  BY DEF Init, TypeOK, LockHeld, EarlierReaders
<1>2. Registered = {}
  BY DEF Init, Registered
<1>3. PendingCounts
  BY <1>2, FS_EmptySet DEF Init, PendingCounts
<1> QED
  BY <1>1, <1>3 DEF MutexInv

\* The counter follows the set of registered writers through its two updates.
LEMMA CountStep == ASSUME TypeOK, PendingCounts, Next PROVE PendingCounts' /\ pending' \in Nat
<1>1. IsFiniteSet(Registered)
  <2>1. Registered \subseteq Threads
    BY DEF Registered
  <2> QED
    BY <2>1, FS_Subset
<1>2. ASSUME NEW th \in Threads, Announce(th) PROVE PendingCounts' /\ pending' \in Nat
  <2>1. th \notin Registered /\ Registered' = Registered \cup {th}
    BY <1>2 DEF Announce, TypeOK, Registered
  <2>2. Cardinality(Registered \cup {th}) = Cardinality(Registered) + 1
    BY <1>1, <2>1, FS_AddElement
  <2>3. pending' = pending + 1
    BY <1>2 DEF Announce
  <2> QED
    BY <2>1, <2>2, <2>3 DEF TypeOK, PendingCounts
<1>3. ASSUME NEW th \in Threads, Withdraw(th) PROVE PendingCounts' /\ pending' \in Nat
  <2>1. th \in Registered /\ Registered' = Registered \ {th}
    BY <1>3 DEF Withdraw, TypeOK, Registered
  <2>2. pending # 0
    BY <1>1, <2>1, FS_EmptySet DEF PendingCounts
  <2>3. Cardinality(Registered \ {th}) = Cardinality(Registered) - 1
    BY <1>1, <2>1, FS_RemoveElement
  <2>4. pending' = pending - 1
    BY <1>3 DEF Withdraw
  <2> QED
    BY <2>1, <2>2, <2>3, <2>4 DEF TypeOK, PendingCounts
<1>4. ASSUME pending' = pending, Registered' = Registered PROVE PendingCounts' /\ pending' \in Nat
  BY <1>4 DEF PendingCounts, TypeOK
<1>5. ASSUME NEW th \in Threads,
             \/ LockExclusive(th) \/ UnlockExclusive(th) \/ StartShared(th) \/ CheckWriters(th)
             \/ LockShared(th) \/ Queue(th) \/ Requeue(th) \/ UnlockShared(th)
      PROVE  pending' = pending /\ Registered' = Registered
  BY <1>5 DEF TypeOK, Registered, LockExclusive, UnlockExclusive, StartShared, CheckWriters,
              LockShared, Queue, Requeue, UnlockShared
<1> QED
  BY <1>2, <1>3, <1>4, <1>5 DEF Next, Start, Proceed

\* While a writer is announced the counter is not zero.
LEMMA AnnouncedCounts ==
  ASSUME TypeOK, PendingCounts, NEW w \in Threads, pc[w] = "announced" PROVE pending # 0
<1>1. Registered \subseteq Threads /\ w \in Registered
  BY DEF Registered
<1>2. IsFiniteSet(Registered)
  BY <1>1, FS_Subset
<1> QED
  BY <1>1, <1>2, FS_EmptySet DEF PendingCounts

LEMMA NextInv == ASSUME MutexInv, [Next]_vars PROVE MutexInv'
<1> USE DEF MutexInv, TypeOK, LockHeld, EarlierReaders
<1>1. ASSUME NEW th \in Threads, Announce(th) PROVE (TypeOK /\ LockHeld /\ EarlierReaders)' \/ pending' \notin Nat
  BY <1>1 DEF Announce
<1>2. ASSUME NEW th \in Threads, LockExclusive(th) PROVE (TypeOK /\ LockHeld /\ EarlierReaders)'
  BY <1>2 DEF LockExclusive
<1>3. ASSUME NEW th \in Threads, UnlockExclusive(th) PROVE (TypeOK /\ LockHeld /\ EarlierReaders)'
  BY <1>3 DEF UnlockExclusive
<1>4. ASSUME NEW th \in Threads, Withdraw(th) PROVE (TypeOK /\ LockHeld /\ EarlierReaders)' \/ pending' \notin Nat
  BY <1>4 DEF Withdraw
<1>5. ASSUME NEW th \in Threads, StartShared(th) PROVE (TypeOK /\ LockHeld /\ EarlierReaders)'
  BY <1>5 DEF StartShared
<1>6. ASSUME NEW th \in Threads, CheckWriters(th) PROVE (TypeOK /\ LockHeld /\ EarlierReaders)'
  BY <1>6, AnnouncedCounts DEF CheckWriters
<1>7. ASSUME NEW th \in Threads, LockShared(th) PROVE (TypeOK /\ LockHeld /\ EarlierReaders)'
  BY <1>7 DEF LockShared
<1>8. ASSUME NEW th \in Threads, Queue(th) PROVE (TypeOK /\ LockHeld /\ EarlierReaders)'
  BY <1>8 DEF Queue
<1>9. ASSUME NEW th \in Threads, Requeue(th) PROVE (TypeOK /\ LockHeld /\ EarlierReaders)'
  BY <1>9 DEF Requeue
<1>10. ASSUME NEW th \in Threads, UnlockShared(th) PROVE (TypeOK /\ LockHeld /\ EarlierReaders)'
  BY <1>10 DEF UnlockShared
<1>11. CASE UNCHANGED vars
  BY <1>11 DEF PendingCounts, Registered
<1>12. CASE Next
  <2>1. PendingCounts' /\ pending' \in Nat
    BY <1>12, CountStep
  <2>2. (TypeOK /\ LockHeld /\ EarlierReaders)'
    BY <1>1, <1>2, <1>3, <1>4, <1>5, <1>6, <1>7, <1>8, <1>9, <1>10, <1>12, <2>1
       DEF Next, Start, Proceed
  <2> QED
    BY <2>1, <2>2
<1> QED
  BY <1>11, <1>12

\* MutexInv is an invariant of the mutex.
THEOREM MutexInvariant == Spec => []MutexInv
<1>1. MutexInv /\ [Next]_vars => MutexInv'
  BY NextInv
<1> QED
  BY <1>1, InitInv, PTL DEF Spec

\* The variables keep their types; writers_pending_ never goes below zero.
THEOREM TypeCorrect == Spec => []TypeOK
<1>1. MutexInv => TypeOK
  BY DEF MutexInv
<1> QED
  BY <1>1, MutexInvariant, PTL

\* A writer is alone between lock() and unlock(), for any number of threads.
THEOREM MutualExclusion == Spec => []Exclusion
<1>1. MutexInv => Exclusion
  BY DEF MutexInv, LockHeld, Exclusion, TypeOK
<1> QED
  BY <1>1, MutexInvariant, PTL

\* A waiting writer is held up only by readers that were in flight when it registered.
THEOREM BoundedWait == Spec => []WriterWaitsOnlyForEarlierReaders
<1>1. MutexInv => WriterWaitsOnlyForEarlierReaders
  BY DEF MutexInv, LockHeld, EarlierReaders, WriterWaitsOnlyForEarlierReaders, TypeOK
<1> QED
  BY <1>1, MutexInvariant, PTL
=============================================================================
