--------------------------- MODULE CountingInstance ---------------------------
(***************************************************************************)
(* The pointer the status call follows to a counting processor             *)
(* (processor.cpp, instance_ and instance_mutex_).  Constructors register  *)
(* their processor, destructors deregister it before its members go, and   *)
(* queue_depth() and queue_capacity() read through the pointer from any    *)
(* thread, at any time.                                                    *)
(***************************************************************************)
EXTENDS Integers

CONSTANTS Threads, Processors, None

ASSUME InstanceAssumption == None \notin Threads \cup Processors

VARIABLES
    instance,   \* instance_
    mutex,      \* the holder of instance_mutex_
    life,       \* "unborn", "constructing", "live", "destructing" or "freed"
    at,         \* "idle", "constructor", "destructor", "members" or "read"
    this,       \* the processor a thread constructs, destroys or reads
    latest      \* history: the processor registered last

instanceVars == <<instance, mutex, life, at, this, latest>>

InstanceInit == /\ instance = None /\ mutex = None /\ latest = None
        /\ life = [p \in Processors |-> "unborn"]
        /\ at = [th \in Threads |-> "idle"]
        /\ this = [th \in Threads |-> None]

Enter(th, step, p) == /\ at' = [at EXCEPT ![th] = step]
                     /\ this' = [this EXCEPT ![th] = p]
Return(th) == Enter(th, "idle", None)
Becomes(p, state) == life' = [life EXCEPT ![p] = state]

-----------------------------------------------------------------------------
\* A start creates a processor: its members first.
Construct(th, p) ==
    /\ at[th] = "idle"
    /\ life[p] = "unborn"
    /\ Becomes(p, "constructing")
    /\ Enter(th, "constructor", p)
    /\ UNCHANGED <<instance, mutex, latest>>

\* The body of the constructor registers it.
Register(th) ==
    /\ at[th] = "constructor"
    /\ mutex = None
    /\ instance' = this[th]
    /\ latest' = this[th]
    /\ Becomes(this[th], "live")
    /\ Return(th)
    /\ UNCHANGED mutex

\* A failed start, a repeated one or a destroy deletes a processor.
Destruct(th, p) ==
    /\ at[th] = "idle"
    /\ life[p] = "live"
    /\ Becomes(p, "destructing")
    /\ Enter(th, "destructor", p)
    /\ UNCHANGED <<instance, mutex, latest>>

\* Faulty variants: the pointer is cleared whatever it holds, or without the mutex.
DeregisterAny(th) ==
    /\ at[th] = "destructor"
    /\ mutex = None
    /\ instance' = None
    /\ Enter(th, "members", this[th])
    /\ UNCHANGED <<mutex, life, latest>>

DeregisterUnlocked(th) ==
    /\ at[th] = "destructor"
    /\ instance' = IF instance = this[th] THEN None ELSE instance
    /\ Enter(th, "members", this[th])
    /\ UNCHANGED <<mutex, life, latest>>

\* The body of the destructor: compare_exchange_strong() under the mutex.
Deregister(th) ==
    /\ at[th] = "destructor"
    /\ mutex = None
    /\ instance' = IF instance = this[th] THEN None ELSE instance
    /\ Enter(th, "members", this[th])
    /\ UNCHANGED <<mutex, life, latest>>

\* The members follow, the batch processor among them, and the memory.
FreeMembers(th) ==
    /\ at[th] = "members"
    /\ Becomes(this[th], "freed")
    /\ Return(th)
    /\ UNCHANGED <<instance, mutex, latest>>

\* queue_depth(), queue_capacity(): the pointer is loaded with the mutex held ...
Load(th) ==
    /\ at[th] = "idle"
    /\ mutex = None
    /\ instance # None
    /\ mutex' = th
    /\ Enter(th, "read", instance)
    /\ UNCHANGED <<instance, life, latest>>

\* ... until the counters behind it are read.
Read(th) ==
    /\ at[th] = "read"
    /\ mutex' = None
    /\ Return(th)
    /\ UNCHANGED <<instance, life, latest>>

InstanceNext == \E th \in Threads :
          \/ \E p \in Processors : Construct(th, p) \/ Destruct(th, p)
          \/ Register(th) \/ Deregister(th) \/ FreeMembers(th)
          \/ Load(th) \/ Read(th)

InstanceSpec == InstanceInit /\ [][InstanceNext]_instanceVars

-----------------------------------------------------------------------------
(* Properties *)

Lives  == {"unborn", "constructing", "live", "destructing", "freed"}
Points == {"idle", "constructor", "destructor", "members", "read"}

\* The shape of the static members and of the threads.
InstanceTypeOK == /\ instance \in Processors \cup {None}
          /\ latest \in Processors \cup {None}
          /\ mutex \in Threads \cup {None}
          /\ life \in [Processors -> Lives]
          /\ at \in [Threads -> Points]
          /\ this \in [Threads -> Processors \cup {None}]

\* "queue_depth() and queue_capacity() can never dereference a processor that a
\* concurrent destroy has freed" (processor.cpp:161-163).
NoReadAfterFree ==
    \A th \in Threads : at[th] = "read" =>
        /\ this[th] \in Processors
        /\ life[this[th]] \in {"live", "destructing"}
        /\ \A other \in Threads : at[other] = "members" => this[other] # this[th]

\* The status reflects "the most recently created batch processor"
\* (opentelemetry-c-wrapper/util.h:152): while it lives, no destructor of an older one,
\* as a repeated start runs right after, takes it from the readers.
LatestStaysRegistered ==
    \A p \in Processors : latest = p /\ life[p] = "live" => instance = p

-----------------------------------------------------------------------------
(* The inductive strengthening the proofs use *)

\* A thread inside a constructor, destructor or read owns what it works on.
StepShape ==
    \A th \in Threads :
        /\ at[th] # "idle" => this[th] \in Processors
        /\ at[th] = "constructor" => life[this[th]] = "constructing"
        /\ at[th] \in {"destructor", "members"} => life[this[th]] = "destructing"
        /\ at[th] = "read" => mutex = th /\ this[th] = instance

\* No two threads construct or destroy the same processor.
OneOwner ==
    \A th, other \in Threads :
        /\ th # other
        /\ at[th] \in {"constructor", "destructor", "members"}
        /\ at[other] \in {"constructor", "destructor", "members"}
        => this[th] # this[other]

\* The pointer is null or holds a processor that no thread is past deregistering.
PointerValid ==
    instance # None =>
        /\ life[instance] \in {"live", "destructing"}
        /\ \A th \in Threads : at[th] = "members" => this[th] # instance

\* The pointer holds the latest processor or nothing.
PointerLatest == instance \in {latest, None}

InstanceInv == /\ InstanceTypeOK /\ StepShape /\ OneOwner /\ PointerValid /\ PointerLatest
               /\ LatestStaysRegistered
=============================================================================
