---------------------------- MODULE SpanHandles ----------------------------
(***************************************************************************)
(* The span and span context handle maps of the default build (dynamic     *)
(* handles shared by all threads): how tracers reference-count them        *)
(* (src/tracer.cpp), how spans and contexts enter and leave them           *)
(* (src/tracer.cpp, src/span.cpp, include/util.h).                         *)
(*                                                                         *)
(* A caller holds a C structure with an index; the C++ object lives in the *)
(* map under that index.  A member of Spans or Contexts stands for one     *)
(* successful or failed creation: it names both the C structure and the    *)
(* object created with it.  Tracers are likewise used once, which is what  *)
(* bounds every counter.  Everything done under one shard mutex is one     *)
(* step; the unlocked look at the map pointer that precedes it is another. *)
(***************************************************************************)
EXTENDS Integers, FiniteSets

CONSTANTS Threads, Tracers, Spans, Contexts,
          None,           \* no thread, tracer or handle
          LeftoversAlone  \* do callers keep leftover releases apart from creates?

ASSUME HandleAssumption == /\ Spans \cap Contexts = {}
                           /\ IsFiniteSet(Tracers)
                           /\ None \notin Threads \cup Tracers \cup Spans \cup Contexts
                           /\ LeftoversAlone \in BOOLEAN

Handles == Spans \cup Contexts
Kinds   == {"span", "context"}
KindOf(h) == IF h \in Spans THEN "span" ELSE "context"
OfKind(k) == IF k = "span" THEN Spans ELSE Contexts

VARIABLES
    countLock,  \* holder of otel_tracer_count_mutex, or None
    count,      \* otel_tracer_count
    map,        \* map[k]: 0 is a null otel_span / otel_span_context, else a generation
    made,       \* made[k]: map generations allocated so far
    slots,      \* slots[k]: the shards of map k as one function, index -> object
    nextId,     \* nextId[k]: the id member of map k
    base,       \* base[k]: otel_span_id_base / otel_span_context_id_base
    tstate,     \* life of a tracer, see TracerStates
    hstate,     \* life of a C structure: unused, building, held, freed
    idx,        \* idx[h]: the index drawn for h, -1 before
    owner,      \* owner[h]: the tracer of span h
    sdk,        \* sdk[h]: the SDK span of h: none, recording, ended
    call        \* call[th]: the API call the thread is in, and where

mapVars    == <<map, made, slots, nextId, base>>
handleVars == <<hstate, idx, owner, sdk>>
vars == <<countLock, count, mapVars, tstate, handleVars, call>>

(***************************************************************************)
(* A call is at one of these points:                                       *)
(*   register, initSpan, initContext, resolve   otelc_tracer_create        *)
(*   unregister, clearContexts, clearSpans      otel_tracer_unregister     *)
(*   new, start, emplace, undo                  creating a span or context *)
(*   free, locked                               releasing one              *)
(*   read                                       any other handle operation *)
(***************************************************************************)
Points == {"idle", "register", "initSpan", "initContext", "resolve",
           "unregister", "clearContexts", "clearSpans",
           "new", "start", "emplace", "undo", "free", "locked", "read"}
Call(pc, t, h, seen) == [pc |-> pc, t |-> t, h |-> h, seen |-> seen]
Idle == Call("idle", None, None, 0)

Goto(th, pc) == call' = [call EXCEPT ![th] = Call(pc, @.t, @.h, @.seen)]
Return(th)   == call' = [call EXCEPT ![th] = Idle]
At(th, pc)   == call[th].pc = pc

Busy(th) == ~At(th, "idle")
InHandleCall == {th \in Threads : call[th].h # None}

\* Created but not yet counted, counted, returned to the caller, in destroy,
\* uncounted as the last one, gone.
TracerStates == {"absent", "creating", "registered", "up", "closing", "leaving", "gone"}
Up         == {t \in Tracers : tstate[t] = "up"}
Registered == {t \in Tracers : tstate[t] \in {"registered", "up", "closing"}}
SetTracer(t, st) == tstate' = [tstate EXCEPT ![t] = st]

\* The object a handle's index finds: OTEL_SPAN_HANDLE, OTEL_SPAN_CONTEXT_HANDLE.
Lookup(h) == LET s == slots[KindOf(h)]
             IN  IF idx[h] \in DOMAIN s THEN s[idx[h]] ELSE None

Insert(f, i, x) == [j \in DOMAIN f \cup {i} |-> IF j = i THEN x ELSE f[j]]
Erase(f, i)     == [j \in DOMAIN f \ {i} |-> f[j]]
Empty           == [j \in {} |-> None]

Init ==
    /\ countLock = None
    /\ count = 0
    /\ map = [k \in Kinds |-> 0]
    /\ made = [k \in Kinds |-> 0]
    /\ slots = [k \in Kinds |-> Empty]
    /\ nextId = [k \in Kinds |-> 0]
    /\ base = [k \in Kinds |-> 0]
    /\ tstate = [t \in Tracers |-> "absent"]
    /\ hstate = [h \in Handles |-> "unused"]
    /\ idx = [h \in Handles |-> -1]
    /\ owner = [h \in Handles |-> None]
    /\ sdk = [h \in Handles |-> "none"]
    /\ call = [th \in Threads |-> Idle]

-----------------------------------------------------------------------------
(* otelc_tracer_create *)

\* A caller that keeps leftovers alone has finished releasing them.
MayCreate == LeftoversAlone => (Up # {} \/ InHandleCall = {})

\* A thread calls otelc_tracer_create(); a failing otel_tracer_new() leaves no trace.
Create(th, t) ==
    /\ ~Busy(th)
    /\ tstate[t] = "absent"
    /\ MayCreate
    /\ SetTracer(t, "creating")
    /\ call' = [call EXCEPT ![th] = Call("register", t, None, 0)]
    /\ UNCHANGED <<countLock, count, mapVars, handleVars>>

\* Faulty variant: counts without the mutex.
RegisterUnlocked(th) ==
    /\ At(th, "register")
    /\ countLock' = th
    /\ count' = count + 1
    /\ SetTracer(call[th].t, "registered")
    /\ Goto(th, "initSpan")
    /\ UNCHANGED <<mapVars, handleVars>>

\* otel_tracer_register() takes the count mutex and counts the tracer first.
Register(th) ==
    /\ At(th, "register")
    /\ countLock = None
    /\ countLock' = th
    /\ count' = count + 1
    /\ SetTracer(call[th].t, "registered")
    /\ Goto(th, "initSpan")
    /\ UNCHANGED <<mapVars, handleVars>>

\* A map of kind k is allocated where there is none, to number from i.
AllocateFrom(k, i) ==
    /\ map[k] = 0
    /\ made' = [made EXCEPT ![k] = @ + 1]
    /\ map' = [map EXCEPT ![k] = made[k] + 1]
    /\ slots' = [slots EXCEPT ![k] = Empty]
    /\ nextId' = [nextId EXCEPT ![k] = i]
    /\ UNCHANGED base

\* Faulty variant: a new map numbers from zero.
AllocateMapFromZero(k) == AllocateFrom(k, 0)

\* The ids of a new map go on from the base.
AllocateMap(k) == AllocateFrom(k, base[k])

\* Faulty variant: running out of memory leaves the mutex locked.
InitSpanMapKeepsLock(th) ==
    /\ At(th, "initSpan")
    /\ \/ map["span"] # 0 /\ Goto(th, "initContext") /\ UNCHANGED <<countLock, mapVars>>
       \/ AllocateMap("span") /\ Goto(th, "initContext") /\ UNCHANGED countLock
       \/ map["span"] = 0 /\ Goto(th, "unregister") /\ UNCHANGED <<countLock, mapVars>>
    /\ UNCHANGED <<count, tstate, handleVars>>

\* otel_tracer_handle_init(), the span map: kept, allocated, or out of memory.
InitSpanMap(th) ==
    /\ At(th, "initSpan")
    /\ \/ map["span"] # 0 /\ Goto(th, "initContext") /\ UNCHANGED <<countLock, mapVars>>
       \/ AllocateMap("span") /\ Goto(th, "initContext") /\ UNCHANGED countLock
       \/ map["span"] = 0 /\ Goto(th, "unregister") /\ countLock' = None /\ UNCHANGED mapVars
    /\ UNCHANGED <<count, tstate, handleVars>>

\* The context map; both ways out of otel_tracer_register() release the mutex.
InitContextMap(th) ==
    /\ At(th, "initContext")
    /\ \/ map["context"] # 0 /\ Goto(th, "resolve") /\ UNCHANGED mapVars
       \/ AllocateMap("context") /\ Goto(th, "resolve")
       \/ map["context"] = 0 /\ Goto(th, "unregister") /\ UNCHANGED mapVars
    /\ countLock' = None
    /\ UNCHANGED <<count, tstate, handleVars>>

\* yaml_resolve_prefix() decides; a failed create destroys the tracer it built.
Resolve(th) ==
    /\ At(th, "resolve")
    /\ \/ /\ SetTracer(call[th].t, "up")
          /\ Return(th)
       \/ /\ Goto(th, "unregister")
          /\ UNCHANGED tstate
    /\ UNCHANGED <<countLock, count, mapVars, handleVars>>

-----------------------------------------------------------------------------
(* otel_tracer_destroy *)

(***************************************************************************)
(* What a caller of destroy must have drained (README section 8): calls on *)
(* the tracer and on its spans.  When no other tracer is up, the maps go   *)
(* with it, and calls on contexts and leftover spans count as well.        *)
(***************************************************************************)
Drained(t) == \A th \in InHandleCall : /\ call[th].t # t
                                        /\ owner[call[th].h] # t
                                        /\ Up # {t}

\* A thread calls destroy on a drained tracer.
Destroy(th, t) ==
    /\ ~Busy(th)
    /\ tstate[t] = "up"
    /\ Drained(t)
    /\ SetTracer(t, "closing")
    /\ call' = [call EXCEPT ![th] = Call("unregister", t, None, 0)]
    /\ UNCHANGED <<countLock, count, mapVars, handleVars>>

\* Faulty variant: any tracer tears the maps down.
UnregisterAlwaysLast(th) ==
    /\ At(th, "unregister")
    /\ countLock = None
    /\ count' = count - 1
    /\ countLock' = th
    /\ SetTracer(call[th].t, "leaving")
    /\ Goto(th, "clearContexts")
    /\ UNCHANGED <<mapVars, handleVars>>

\* otel_tracer_unregister(): only the last tracer goes on to tear down the maps.
Unregister(th) ==
    /\ At(th, "unregister")
    /\ countLock = None
    /\ count' = count - 1
    /\ \/ /\ count' # 0
          /\ SetTracer(call[th].t, "gone")
          /\ Return(th)
          /\ UNCHANGED countLock
       \/ /\ count' = 0
          /\ countLock' = th
          /\ SetTracer(call[th].t, "leaving")
          /\ Goto(th, "clearContexts")
    /\ UNCHANGED <<mapVars, handleVars>>

\* clear_locked() or for_each_locked(), save the id as the next base, delete the map.
DeleteMap(k) ==
    /\ slots' = [slots EXCEPT ![k] = Empty]
    /\ base' = [base EXCEPT ![k] = IF map[k] # 0 THEN nextId[k] ELSE @]
    /\ map' = [map EXCEPT ![k] = 0]
    /\ UNCHANGED <<made, nextId>>

ClearContexts(th) ==
    /\ At(th, "clearContexts")
    /\ DeleteMap("context")
    /\ Goto(th, "clearSpans")
    /\ UNCHANGED <<countLock, count, tstate, handleVars>>

\* Faulty variant: the handles are deleted without ending their spans.
ClearSpansUnended(th) ==
    /\ At(th, "clearSpans")
    /\ DeleteMap("span")
    /\ countLock' = None
    /\ SetTracer(call[th].t, "gone")
    /\ Return(th)
    /\ UNCHANGED <<count, handleVars>>

\* Every span still in the map is ended before its handle is deleted.
ClearSpans(th) ==
    /\ At(th, "clearSpans")
    /\ DeleteMap("span")
    /\ sdk' = [h \in Handles |-> IF \E i \in DOMAIN slots["span"] : slots["span"][i] = h
                                 THEN "ended" ELSE sdk[h]]
    /\ countLock' = None
    /\ SetTracer(call[th].t, "gone")
    /\ Return(th)
    /\ UNCHANGED <<count, hstate, idx, owner>>

-----------------------------------------------------------------------------
(* Creating a span, and extracting or building a span context *)

\* A thread calls start_span() on a started, enabled tracer, with valid arguments.
StartSpan(th, t, s) ==
    /\ ~Busy(th)
    /\ tstate[t] = "up"
    /\ hstate[s] = "unused"
    /\ hstate' = [hstate EXCEPT ![s] = "building"]
    /\ owner' = [owner EXCEPT ![s] = t]
    /\ call' = [call EXCEPT ![th] = Call("new", t, s, map["span"])]
    /\ UNCHANGED <<countLock, count, mapVars, tstate, idx, sdk>>

\* extract_text_map() or extract_http_headers() found a context in the carrier.
ExtractContext(th, t, c) ==
    /\ ~Busy(th)
    /\ tstate[t] = "up"
    /\ hstate[c] = "unused"
    /\ hstate' = [hstate EXCEPT ![c] = "building"]
    /\ call' = [call EXCEPT ![th] = Call("new", t, c, map["context"])]
    /\ UNCHANGED <<countLock, count, mapVars, tstate, idx, owner, sdk>>

\* otelc_span_context_create(): needs a tracer, checks the map, belongs to no tracer.
CreateContext(th, c) ==
    /\ ~Busy(th)
    /\ Up # {}
    /\ map["context"] # 0
    /\ hstate[c] = "unused"
    /\ hstate' = [hstate EXCEPT ![c] = "building"]
    /\ call' = [call EXCEPT ![th] = Call("new", None, c, map["context"])]
    /\ UNCHANGED <<countLock, count, mapVars, tstate, idx, owner, sdk>>

\* The caller is left with no structure: freed, or never allocated.
Fail(th, h) ==
    /\ hstate' = [hstate EXCEPT ![h] = "freed"]
    /\ Return(th)

\* otel_span_new(), otel_span_context_new(): malloc, then the next index of the map.
\* This step and Emplace dereference the map; GuardedMapSurvives says it is there.
NewHandle(th) ==
    LET h == call[th].h
        k == KindOf(h)
    IN  /\ At(th, "new")
        /\ map[k] # 0
        /\ \/ /\ idx' = [idx EXCEPT ![h] = nextId[k]]
              /\ nextId' = [nextId EXCEPT ![k] = @ + 1]
              /\ Goto(th, "start")
              /\ UNCHANGED hstate
           \/ /\ Fail(th, h)
              /\ UNCHANGED <<nextId, idx>>
        /\ UNCHANGED <<countLock, count, map, made, slots, base, tstate, owner, sdk>>

\* The SDK span and the handle object that bundles it, either of which may fail.
StartSdkSpan(th) ==
    LET h == call[th].h
    IN  /\ At(th, "start")
        /\ h \in Spans
        /\ \/ sdk' = sdk /\ Goto(th, "undo")
           \/ sdk' = [sdk EXCEPT ![h] = "ended"] /\ Goto(th, "undo")
           \/ sdk' = [sdk EXCEPT ![h] = "recording"] /\ Goto(th, "emplace")
        /\ UNCHANGED <<countLock, count, mapVars, tstate, hstate, idx, owner>>

\* The handle object of a context, which owns the extracted or built Context.
WrapContext(th) ==
    /\ At(th, "start")
    /\ call[th].h \in Contexts
    /\ Goto(th, "undo") \/ Goto(th, "emplace")
    /\ UNCHANGED <<countLock, count, mapVars, tstate, handleVars>>

\* OTEL_HANDLE_EMPLACE: a duplicate index or an exception ends the span and frees all.
Emplace(th) ==
    LET h == call[th].h
        k == KindOf(h)
    IN  /\ At(th, "emplace")
        /\ map[k] # 0
        /\ \/ /\ idx[h] \notin DOMAIN slots[k]
              /\ slots' = [slots EXCEPT ![k] = Insert(@, idx[h], h)]
              /\ hstate' = [hstate EXCEPT ![h] = "held"]
              /\ Return(th)
              /\ UNCHANGED sdk
           \/ /\ sdk' = [sdk EXCEPT ![h] = IF h \in Spans THEN "ended" ELSE @]
              /\ Fail(th, h)
              /\ UNCHANGED slots
        /\ UNCHANGED <<countLock, count, map, made, nextId, base, tstate, idx, owner>>

(***************************************************************************)
(* otel_nolock_span_destroy(), otel_nolock_span_context_destroy(): delete  *)
(* what the index finds, if anything, then the C structure.  Deleting the  *)
(* handle drops the last reference to the SDK span, which ends it.         *)
(***************************************************************************)
NolockDestroy(h) ==
    LET k == KindOf(h)
        found == Lookup(h)
    IN  /\ hstate' = [hstate EXCEPT ![h] = "freed"]
        /\ IF map[k] # 0 /\ found # None
           THEN /\ slots' = [slots EXCEPT ![k] = Erase(@, idx[h])]
                /\ sdk' = [sdk EXCEPT ![found] = IF found \in Spans THEN "ended" ELSE @]
           ELSE UNCHANGED <<slots, sdk>>

\* A creation that failed after its index was drawn gives the structure back.
Undo(th) ==
    /\ At(th, "undo")
    /\ NolockDestroy(call[th].h)
    /\ Return(th)
    /\ UNCHANGED <<countLock, count, map, made, nextId, base, tstate, idx, owner>>

-----------------------------------------------------------------------------
(* Using and releasing a handle *)

Users(h)     == {th \in Threads : call[th].h = h}
Releasing(h) == \E th \in Users(h) : call[th].pc \in {"free", "locked"}
InState(S)   == \E t \in Tracers : tstate[t] \in S

\* With no tracer up, a caller starts no release during a destroy, nor, when it
\* keeps leftovers alone, during a create.
MayRelease == \/ Up # {}
              \/ /\ ~InState({"closing", "leaving"})
                 /\ LeftoversAlone => ~InState({"creating", "registered"})

\* end(), end_with_options(), destroy(): the unlocked look at the map pointer.
Release(th, h) ==
    /\ ~Busy(th)
    /\ hstate[h] = "held"
    /\ Users(h) = {}
    /\ MayRelease
    /\ call' = [call EXCEPT ![th] =
                  Call(IF map[KindOf(h)] = 0 THEN "free" ELSE "locked", None, h, map[KindOf(h)])]
    /\ UNCHANGED <<countLock, count, mapVars, tstate, handleVars>>

\* The rest of a release, under the shard lock or, for a leftover, without it.
FinishRelease(th) ==
    /\ At(th, "locked") \/ At(th, "free")
    /\ NolockDestroy(call[th].h)
    /\ Return(th)
    /\ UNCHANGED <<countLock, count, map, made, nextId, base, tstate, idx, owner>>

\* Any other operation: OTEL_SPAN_MAP_GUARD lets it go on only while there is a map.
Read(th, h) ==
    /\ ~Busy(th)
    /\ hstate[h] = "held"
    /\ ~Releasing(h)
    /\ Up # {}
    /\ map[KindOf(h)] # 0
    /\ call' = [call EXCEPT ![th] = Call("read", owner[h], h, map[KindOf(h)])]
    /\ UNCHANGED <<countLock, count, mapVars, tstate, handleVars>>

FinishRead(th) ==
    /\ At(th, "read")
    /\ Return(th)
    /\ UNCHANGED <<countLock, count, mapVars, tstate, handleVars>>

-----------------------------------------------------------------------------
Begin(th) ==
    \/ \E t \in Tracers : Create(th, t) \/ Destroy(th, t)
    \/ \E t \in Tracers, s \in Spans : StartSpan(th, t, s)
    \/ \E t \in Tracers, c \in Contexts : ExtractContext(th, t, c)
    \/ \E c \in Contexts : CreateContext(th, c)
    \/ \E h \in Handles : Release(th, h) \/ Read(th, h)

Continue(th) ==
    \/ Register(th) \/ InitSpanMap(th) \/ InitContextMap(th) \/ Resolve(th)
    \/ Unregister(th) \/ ClearContexts(th) \/ ClearSpans(th)
    \/ NewHandle(th) \/ StartSdkSpan(th) \/ WrapContext(th) \/ Emplace(th) \/ Undo(th)
    \/ FinishRelease(th) \/ FinishRead(th)

Next == \E th \in Threads : Begin(th) \/ Continue(th)

Spec == Init /\ [][Next]_vars

\* A thread inside a call keeps running; nothing obliges a caller to start one.
FairSpec == Spec /\ \A th \in Threads : WF_vars(Continue(th))

-----------------------------------------------------------------------------
(* Properties *)

SlotsTyped == /\ DOMAIN slots = Kinds
              /\ \A k \in Kinds : /\ DOMAIN slots[k] \subseteq Nat
                                  /\ \A i \in DOMAIN slots[k] : slots[k][i] \in OfKind(k)

\* Every variable has its type.
TypeOK ==
    /\ countLock \in Threads \cup {None}
    /\ count \in Int
    /\ map \in [Kinds -> Nat]
    /\ made \in [Kinds -> Nat]
    /\ nextId \in [Kinds -> Nat]
    /\ base \in [Kinds -> Nat]
    /\ SlotsTyped
    /\ tstate \in [Tracers -> TracerStates]
    /\ hstate \in [Handles -> {"unused", "building", "held", "freed"}]
    /\ idx \in [Handles -> Nat \cup {-1}]
    /\ owner \in [Handles -> Tracers \cup {None}]
    /\ sdk \in [Handles -> {"none", "recording", "ended"}]
    /\ call \in [Threads -> [pc : Points, t : Tracers \cup {None},
                            h : Handles \cup {None}, seen : Nat]]

\* A handle's index finds the handle's own object or nothing, never the object of
\* another handle, also when it was drawn from a map that has been torn down since
\* (the id bases, tracer.cpp:46-54).
LookupFaithful == \A h \in Handles : Lookup(h) \in {h, None}

\* An SDK span is recording exactly while its handle can end it: it is in the map, or
\* the start_span() that is about to put it there has not returned.  So no failure
\* path, release or teardown loses a span unended, and no ended span can be found.
NoLostSpan ==
    \A s \in Spans : (sdk[s] = "recording") <=>
        (Lookup(s) = s \/ \E th \in Threads : At(th, "emplace") /\ call[th].h = s)

\* otel_tracer_count is the number of registered tracers: every cleanup path that
\* decrements it was preceded by its increment (otelc_tracer_create's comment).
CountBalanced == count = Cardinality(Registered)

\* The count is balanced, a tracer the caller holds has both maps, and once the count is back
\* to zero and nobody is inside the count mutex, neither map is left behind (partial
\* handle_init too).
MapsFollowCount ==
    /\ CountBalanced
    /\ Up # {} => \A k \in Kinds : map[k] # 0
    /\ countLock = None /\ count = 0 => \A k \in Kinds : map[k] = 0

\* From the unlocked look at a map pointer to the end of the call, that pointer does
\* not change: a call that saw a map locks a shard of that same map, and one that saw
\* none finds none in the nolock function.
GuardedMapSurvives ==
    \A th \in Threads : call[th].h # None => map[KindOf(call[th].h)] = call[th].seen

\* The maps implement the registry the README describes.
Members == {h \in Handles : Lookup(h) = h}
Dropped == {h \in Handles : hstate[h] = "held"} \ Members
Freed   == {h \in Handles : hstate[h] = "freed"}
Registry == INSTANCE SpanRegistry
    WITH Objects <- Handles, users <- Registered, present <- Members, dropped <- Dropped,
         released <- Freed
ImplementsRegistry == Registry!Spec

\* "The maps are gone: skip the shard lock" (span.cpp:393, 1571, 2219): a release that
\* skipped the shard lock has no map to touch.
LockSkippedOnlyWithoutMap ==
    \A th \in Threads : At(th, "free") => map[KindOf(call[th].h)] = 0

\* Every call returns: no failure path keeps the count mutex, no thread waits forever.
CallsReturn == \A th \in Threads : Busy(th) ~> ~Busy(th)

-----------------------------------------------------------------------------
(* The inductive strengthening the proofs use *)

CreationPoints == {"new", "start", "emplace", "undo"}
ReleasePoints  == {"free", "locked"}
TracerPoints   == {"register", "initSpan", "initContext", "resolve",
                   "unregister", "clearContexts", "clearSpans"}

\* What a call at a point carries.
CallShape ==
    \A th \in Threads :
        /\ call[th].pc \in CreationPoints \cup ReleasePoints \cup {"read"}
              => call[th].h \in Handles
        /\ call[th].pc \in TracerPoints => call[th].t \in Tracers /\ call[th].h = None
        /\ At(th, "idle") => call[th].h = None

\* What a call in progress says of its handle, which no other call may release or build.
CallHandles ==
    \A th \in Threads : LET h == call[th].h IN
        /\ call[th].pc \in CreationPoints => hstate[h] = "building"
        /\ call[th].pc \in ReleasePoints \cup {"read"} => hstate[h] = "held"
        /\ At(th, "new") => idx[h] = -1
        /\ call[th].pc \in {"start", "emplace", "undo"} => idx[h] # -1
        /\ At(th, "new") \/ At(th, "start") => sdk[h] = "none"
        /\ At(th, "undo") => sdk[h] # "recording"
        /\ call[th].pc \in CreationPoints \cup ReleasePoints
              => \A u \in Threads \ {th} : call[u].h # h

\* The next index map k gives out, now or when it is allocated again.
NextIndex(k) == IF map[k] = 0 THEN base[k] ELSE nextId[k]

\* Indexes are drawn once, across map generations, and always lie behind the generator.
IndexesDrawnOnce ==
    /\ \A h \in Handles : /\ idx[h] < NextIndex(KindOf(h))
                          /\ hstate[h] = "unused" => idx[h] = -1 /\ sdk[h] = "none"
    /\ \A h, g \in Handles :
          KindOf(h) = KindOf(g) /\ idx[h] = idx[g] /\ idx[h] # -1 => h = g

\* The map holds objects of held handles, each under its own index.
SlotsOwned ==
    \A k \in Kinds :
        /\ map[k] = 0 => DOMAIN slots[k] = {}
        /\ \A i \in DOMAIN slots[k] : idx[slots[k][i]] = i /\ hstate[slots[k][i]] = "held"

HandleInv == TypeOK /\ CallShape /\ CallHandles /\ IndexesDrawnOnce /\ SlotsOwned /\ NoLostSpan

\* What a call says of the tracer it creates or destroys, which no other call works on.
TracerCalls ==
    \A th \in Threads : LET st == tstate[call[th].t] IN
        /\ At(th, "register") => st = "creating"
        /\ call[th].pc \in {"initSpan", "initContext", "resolve"} => st = "registered"
        /\ At(th, "unregister") => st \in {"registered", "closing"}
        /\ call[th].pc \in {"clearContexts", "clearSpans"} => st = "leaving"
        /\ call[th].pc \in TracerPoints =>
              \A u \in Threads \ {th} : call[u].pc \in TracerPoints => call[u].t # call[th].t

\* The count mutex is held from counting a tracer to its maps, and through a teardown.
LockMatchesCalls ==
    \A th \in Threads :
        countLock = th <=> call[th].pc \in {"initSpan", "initContext", "clearContexts", "clearSpans"}

\* How far a call that holds the mutex has come with the maps.
MapsUnderway ==
    \A th \in Threads :
        /\ call[th].pc \in {"clearContexts", "clearSpans"} => count = 0
        /\ At(th, "clearSpans") => map["context"] = 0
        /\ At(th, "initContext") => map["span"] # 0
        /\ At(th, "resolve") => \A k \in Kinds : map[k] # 0

\* A handle call runs while a tracer is up; the release of a leftover may also run with none,
\* and, when leftovers are kept apart, with no tracer on its way in or out.
CallsHaveTracer ==
    \A th \in InHandleCall :
        \/ Up # {}
        \/ /\ call[th].pc \in ReleasePoints
           /\ LeftoversAlone => \A t \in Tracers : tstate[t] \in {"absent", "gone"}

MapInv == /\ TracerCalls /\ LockMatchesCalls /\ MapsFollowCount /\ MapsUnderway
          /\ CallsHaveTracer
          /\ LeftoversAlone => GuardedMapSurvives
=============================================================================
