---------------------------- MODULE SharedMutex ----------------------------
(***************************************************************************)
(* otel_shared_mutex (include/util.h): writer preference added to a        *)
(* std::shared_mutex.  The wrapped lock is glibc's reader-preferring       *)
(* rwlock: it lets a reader in whenever no thread holds it exclusively,    *)
(* whoever waits.  Each atomic operation and each acquisition or release   *)
(* of the wrapped lock is one step.                                        *)
(***************************************************************************)
EXTENDS Integers, FiniteSets

CONSTANTS Threads, Nobody

ASSUME MutexAssumption == IsFiniteSet(Threads) /\ Nobody \notin Threads

VARIABLES
    pending,  \* writers_pending_
    excl,     \* the thread holding mutex_ exclusively, or Nobody
    shared,   \* the threads holding mutex_ shared
    pc,       \* pc[th]: where thread th is in its call, see Points
    ahead     \* history: the readers that were already in flight when th announced itself

vars == <<pending, excl, shared, pc, ahead>>

\* idle; announced, writing, leaving (the exclusive calls);
\* checking, entering, reading, diverted, queued (the shared calls).
Points == {"idle", "announced", "writing", "leaving",
           "checking", "entering", "reading", "diverted", "queued"}

Goto(th, p) == pc' = [pc EXCEPT ![th] = p]
InFlight    == {th \in Threads : pc[th] \in {"entering", "reading"}}

Init == /\ pending = 0
        /\ excl = Nobody
        /\ shared = {}
        /\ pc = [th \in Threads |-> "idle"]
        /\ ahead = [th \in Threads |-> {}]

\* The wrapped lock.
MutexFree          == excl = Nobody /\ shared = {}
MutexLock(th)      == MutexFree /\ excl' = th /\ UNCHANGED shared
MutexUnlock(th)    == excl' = Nobody /\ UNCHANGED shared

-----------------------------------------------------------------------------
(* lock() and unlock() *)

\* lock(): writers_pending_.fetch_add(1)
Announce(th) ==
    /\ pc[th] = "idle"
    /\ pending' = pending + 1
    /\ ahead' = [ahead EXCEPT ![th] = InFlight]
    /\ Goto(th, "announced")
    /\ UNCHANGED <<excl, shared>>

\* lock(): mutex_.lock()
LockExclusive(th) ==
    /\ pc[th] = "announced"
    /\ MutexLock(th)
    /\ Goto(th, "writing")
    /\ UNCHANGED <<pending, ahead>>

\* unlock(): mutex_.unlock()
UnlockExclusive(th) ==
    /\ pc[th] = "writing"
    /\ MutexUnlock(th)
    /\ Goto(th, "leaving")
    /\ UNCHANGED <<pending, ahead>>

\* unlock(): writers_pending_.fetch_sub(1)
Withdraw(th) ==
    /\ pc[th] = "leaving"
    /\ pending' = pending - 1
    /\ Goto(th, "idle")
    /\ UNCHANGED <<excl, shared, ahead>>

-----------------------------------------------------------------------------
(* lock_shared() and unlock_shared() *)

StartShared(th) ==
    /\ pc[th] = "idle"
    /\ Goto(th, "checking")
    /\ UNCHANGED <<pending, excl, shared, ahead>>

\* Faulty variant: a plain std::shared_mutex, no look at the pending writers.
CheckNothing(th) ==
    /\ pc[th] = "checking"
    /\ Goto(th, "entering")
    /\ UNCHANGED <<pending, excl, shared, ahead>>

\* lock_shared(): writers_pending_.load() == 0 decides the path.
CheckWriters(th) ==
    /\ pc[th] = "checking"
    /\ Goto(th, IF pending = 0 THEN "entering" ELSE "diverted")
    /\ UNCHANGED <<pending, excl, shared, ahead>>

\* Faulty variant: the check is taken for the lock.
EnterAnyway(th) ==
    /\ pc[th] = "entering"
    /\ shared' = shared \cup {th}
    /\ Goto(th, "reading")
    /\ UNCHANGED <<pending, excl, ahead>>

\* lock_shared(): mutex_.lock_shared() on the fast path.
LockShared(th) ==
    /\ pc[th] = "entering"
    /\ excl = Nobody
    /\ shared' = shared \cup {th}
    /\ Goto(th, "reading")
    /\ UNCHANGED <<pending, excl, ahead>>

\* lock_shared(): mutex_.lock() behind the writer
Queue(th) ==
    /\ pc[th] = "diverted"
    /\ MutexLock(th)
    /\ Goto(th, "queued")
    /\ UNCHANGED <<pending, ahead>>

\* lock_shared(): mutex_.unlock() and around the loop again
Requeue(th) ==
    /\ pc[th] = "queued"
    /\ MutexUnlock(th)
    /\ Goto(th, "checking")
    /\ UNCHANGED <<pending, ahead>>

\* unlock_shared(): mutex_.unlock_shared()
UnlockShared(th) ==
    /\ pc[th] = "reading"
    /\ shared' = shared \ {th}
    /\ ahead' = [w \in Threads |-> ahead[w] \ {th}]
    /\ Goto(th, "idle")
    /\ UNCHANGED <<pending, excl>>

-----------------------------------------------------------------------------
\* What a thread in a call does next without waiting for anyone, and the two waits.
Proceed(th) == \/ UnlockExclusive(th) \/ Withdraw(th) \/ CheckWriters(th)
               \/ LockShared(th) \/ Requeue(th) \/ UnlockShared(th)
Start(th)   == Announce(th) \/ StartShared(th)

Next == \E th \in Threads : Start(th) \/ Proceed(th) \/ LockExclusive(th) \/ Queue(th)

Spec == Init /\ [][Next]_vars

(***************************************************************************)
(* A critical section is left and a step that waits for nobody is taken.   *)
(* An exclusive request that finds the wrapped lock free again and again   *)
(* gets it: it may lose to another exclusive request, not to all of them.  *)
(* Nothing is assumed of a request that readers keep from ever being free. *)
(***************************************************************************)
FairSpec == /\ Spec
            /\ \A th \in Threads : /\ WF_vars(Proceed(th))
                                   /\ SF_vars(LockExclusive(th))
                                   /\ SF_vars(Queue(th))

-----------------------------------------------------------------------------
(* Properties *)

\* The variables have their types; writers_pending_ never goes below zero.
TypeOK == /\ pending \in Nat
          /\ excl \in Threads \cup {Nobody}
          /\ shared \subseteq Threads
          /\ pc \in [Threads -> Points]
          /\ ahead \in [Threads -> SUBSET Threads]

\* A thread between lock() and unlock() is alone: no second writer, no reader between
\* lock_shared() and unlock_shared(), whichever path the readers took.
Exclusion == \A w \in Threads : pc[w] = "writing" =>
                \A th \in Threads \ {w} : pc[th] \notin {"writing", "reading"}

\* "the writer only waits for the readers that were already in flight" (util.h:117-119):
\* a reader holding the lock while a writer waits had passed its check, or got its lock,
\* before that writer registered.
WriterWaitsOnlyForEarlierReaders ==
    \A w \in Threads : pc[w] = "announced" => shared \subseteq ahead[w]

\* A writer is never starved, however many readers keep coming (util.h:107-113).
WritersProgress == \A w \in Threads : pc[w] = "announced" ~> pc[w] = "writing"

-----------------------------------------------------------------------------
(* The inductive strengthening the proofs use *)

\* writers_pending_ counts the threads between its two updates.
Registered == {th \in Threads : pc[th] \in {"announced", "writing", "leaving"}}
PendingCounts == pending = Cardinality(Registered)

\* Who holds the wrapped lock, and that it is a lock.
LockHeld == /\ \A th \in Threads : /\ pc[th] \in {"writing", "queued"} <=> excl = th
                                   /\ pc[th] = "reading" <=> th \in shared
            /\ excl # Nobody => shared = {}

EarlierReaders == \A w \in Threads : pc[w] = "announced" => InFlight \subseteq ahead[w]

MutexInv == TypeOK /\ PendingCounts /\ LockHeld /\ EarlierReaders
=============================================================================
