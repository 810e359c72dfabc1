--------------------------- MODULE MeterRegistry ---------------------------
(***************************************************************************)
(* The instruments, the views and the observable callbacks of one meter    *)
(* (src/meter.cpp, include/meter.h) while threads use them, its readers    *)
(* collect, and the meter is restarted and destroyed.                      *)
(*                                                                         *)
(* A lookup takes and releases its map lock with nothing in between, so it *)
(* is one step that needs the lock not held exclusively; SharedMutex has   *)
(* the lock itself.  The readers' collections of one SDK meter exclude one *)
(* another by its callback registry mutex, so one Reader stands for all.   *)
(* A call refused before it changes anything but the error text is no step.*)
(***************************************************************************)
EXTENDS Integers, FiniteSets

CONSTANTS Threads, None,
          Names, Fold,   \* Fold[n]: n with its ASCII letters in lower case
          Descriptors,   \* observable callback descriptors of the callers
          Requests,      \* the instruments asked for: [name, type] records
          Views,         \* the views asked for: records, see ViewArguments
          MaxStarts      \* bound: starts of the meter

\* A type is a counter, an observable, or a number outside the enumeration: the other
\* synchronous instruments differ from a counter in the SDK call alone.
Types == {"counter", "observable", "unknown"}

ASSUME MeterAssumption == /\ None \notin Threads \cup Descriptors \cup {"reader"}
                          /\ Fold \in [Names -> Names]
                          /\ \A n \in Names : Fold[Fold[n]] = Fold[n]
                          /\ \A r \in Requests : r.name \in Names /\ r.type \in Types
                          /\ \A v \in Views : v.name \in Names
                          /\ MaxStarts \in Nat

Keys  == {<<Fold[r.name], r.type>> : r \in Requests}
Maps  == {"instrument", "view"}

VARIABLES
    open,        \* the meter has not been destroyed
    enabled,     \* meter->enabled
    installed,   \* the pipeline in impl->provider and impl->meter, 0 for none
    built,       \* pipelines built so far
    scope,       \* meter->scope_name is set
    createLock,  \* holder of create_mutex
    excl,        \* excl[m]: holder of the exclusive lock of map m
    shared,      \* shared[m]: threads that hold the lock of m shared across steps
    registry,    \* holder of the SDK's callback registry mutex
    instrument,  \* the instrument map: id -> [key, pipe, cbs]
    index,       \* instrument_index: key -> id
    view,        \* the view map: id -> the view's record
    nextId,      \* nextId[m]: the id member of map m
    known,       \* known[v]: how often the installed provider was handed view v
    call,        \* call[th]: the call thread th is in, and where
    todo,        \* callbacks left in the collection under way
    running,     \* the callback the Reader is in: <<id, descriptor>>, or None
    given,       \* history: <<id, descriptor>> pairs the callers know to be registered
    answers      \* history: <<request, id>> pairs returned to callers

Reader == "reader"

lockVars   == <<createLock, excl, shared, registry>>
meterVars  == <<open, enabled, installed, built, scope>>
readerVars == <<todo, running>>
histVars   == <<given, answers>>
vars == <<meterVars, lockVars, instrument, index, view, nextId, known, call, readerVars, histVars>>

Idle == [pc |-> "idle"]
At(th, pc)    == call[th].pc = pc
Enter(th, c)  == call' = [call EXCEPT ![th] = c]
Goto(th, pc)  == call' = [call EXCEPT ![th].pc = pc]
Return(th)    == call' = [call EXCEPT ![th] = Idle]
\* start() and destroy() need every other call on the meter drained (README section 8).
Drained(th)   == \A u \in Threads : u # th => At(u, "idle")
MayCall(th)   == open /\ At(th, "idle") /\ \A u \in Threads : ~At(u, "build") /\ ~At(u, "install")

Insert(f, i, x) == [j \in DOMAIN f \cup {i} |-> IF j = i THEN x ELSE f[j]]
Remove(f, i)    == [j \in DOMAIN f \ {i} |-> f[j]]
Empty           == [j \in {} |-> None]

Unlocked(m)  == excl[m] = None
Free(m)      == Unlocked(m) /\ shared[m] = {}
Lock(m, th)  == excl' = [excl EXCEPT ![m] = th]
Unlock(m)    == excl' = [excl EXCEPT ![m] = None]

\* otel_meter_instrument_key(): the folded name and the type.
InstrumentKey(r) == <<Fold[r.name], r.type>>

\* The callback registry of the installed pipeline is busy while a collection runs;
\* a replaced pipeline is not collected any more.
RegistryFree(i) == instrument[i].pipe = installed => registry = None

Init ==
    /\ open = TRUE
    /\ enabled = TRUE
    /\ installed = 0
    /\ built = 0
    /\ scope = FALSE
    /\ createLock = None
    /\ excl = [m \in Maps |-> None]
    /\ shared = [m \in Maps |-> {}]
    /\ registry = None
    /\ instrument = Empty
    /\ index = Empty
    /\ view = Empty
    /\ nextId = [m \in Maps |-> 0]
    /\ known = [v \in Views |-> 0]
    /\ call = [th \in Threads |-> Idle]
    /\ todo = {}
    /\ running = None
    /\ given = {}
    /\ answers = {}

-----------------------------------------------------------------------------
(* create_instrument *)

\* The checks before any lock: enabled, and started.
Create(th, r, d) ==
    /\ MayCall(th)
    /\ enabled
    /\ installed > 0
    /\ Enter(th, [pc |-> "probe", r |-> r, d |-> d, pipe |-> installed])
    /\ UNCHANGED <<meterVars, lockVars, instrument, index, view, nextId, known, readerVars, histVars>>

\* The existing instrument of a key is the answer, whatever else was asked.
Answer(th, r) ==
    /\ InstrumentKey(r) \in DOMAIN index
    /\ answers' = answers \cup {<<r, index[InstrumentKey(r)]>>}
    /\ Return(th)

\* A new instrument has a descriptor exactly if it is observable.
DescriptorFits(r, d) == (d # None) <=> (r.type = "observable")

\* Faulty variant: the guard of the probe lives until the call returns.
ProbeKeepsLock(th) ==
    /\ At(th, "probe")
    /\ Unlocked("instrument")
    /\ LET c == call[th] k == InstrumentKey(c.r) IN
         \/ Answer(th, c.r) /\ UNCHANGED shared
         \/ k \notin DOMAIN index /\ DescriptorFits(c.r, c.d) /\ Goto(th, "create") /\ UNCHANGED answers
            /\ shared' = [shared EXCEPT !["instrument"] = @ \cup {th}]
         \/ k \notin DOMAIN index /\ Return(th) /\ UNCHANGED <<answers, shared>>
    /\ UNCHANGED <<meterVars, createLock, excl, registry, instrument, index, view, nextId, known, readerVars, given>>

\* The probe under the shared lock; a new instrument is then validated, and may fail it.
Probe(th) ==
    /\ At(th, "probe")
    /\ Unlocked("instrument")
    /\ LET c == call[th] k == InstrumentKey(c.r) IN
         \/ Answer(th, c.r)
         \/ k \notin DOMAIN index /\ DescriptorFits(c.r, c.d) /\ Goto(th, "create") /\ UNCHANGED answers
         \/ k \notin DOMAIN index /\ Return(th) /\ UNCHANGED answers
    /\ UNCHANGED <<meterVars, lockVars, instrument, index, view, nextId, known, readerVars, given>>

\* The creation mutex, for an instrument ("create") and for a view ("addView").
LockCreate(th) ==
    /\ call[th].pc \in {"create", "addView"}
    /\ createLock = None
    /\ createLock' = th
    /\ Goto(th, IF At(th, "create") THEN "recheck" ELSE "recheckView")
    /\ UNCHANGED <<meterVars, excl, shared, registry, instrument, index, view, nextId, known, readerVars, histVars>>

\* Faulty variant: the winner is taken to be the thread that got the mutex.
RecheckNothing(th) ==
    /\ At(th, "recheck")
    /\ Unlocked("instrument")
    /\ Goto(th, "insert")
    /\ UNCHANGED <<meterVars, lockVars, instrument, index, view, nextId, known, readerVars, histVars>>

\* The second probe, and the SDK instrument: made unless the type is unknown or memory
\* runs out.
Recheck(th) ==
    /\ At(th, "recheck")
    /\ Unlocked("instrument")
    /\ LET c == call[th] k == InstrumentKey(c.r) IN
         \/ Answer(th, c.r) /\ createLock' = None
         \/ k \notin DOMAIN index /\ c.r.type # "unknown" /\ Goto(th, "insert") /\ UNCHANGED <<answers, createLock>>
         \/ k \notin DOMAIN index /\ Return(th) /\ createLock' = None /\ UNCHANGED answers
    /\ UNCHANGED <<meterVars, excl, shared, registry, instrument, index, view, nextId, known, readerVars, given>>

\* The exclusive lock, and the handle under the next id; emplace may throw, which
\* deletes the handle.
EmplaceInstrument(th) ==
    /\ At(th, "insert")
    /\ Free("instrument")
    /\ LET c == call[th] IN
         \/ /\ instrument' = Insert(instrument, nextId["instrument"],
                                    [key |-> InstrumentKey(c.r), pipe |-> c.pipe, cbs |-> {}])
            /\ Lock("instrument", th)
            /\ Goto(th, IF c.d = None THEN "index" ELSE "firstCallback")
            /\ UNCHANGED createLock
         \/ /\ createLock' = None
            /\ Return(th)
            /\ UNCHANGED <<excl, instrument>>
    /\ UNCHANGED <<meterVars, shared, registry, index, view, nextId, known, readerVars, histVars>>

\* AddCallback of the SDK instrument, under the registry mutex.
AddCallback(i, d)    == instrument' = [instrument EXCEPT ![i].cbs = @ \cup {d}]
RemoveCallback(i, d) == instrument' = [instrument EXCEPT ![i].cbs = @ \ {d}]

\* The callback the instrument is created with, while the map is locked.
FirstCallback(th) ==
    /\ At(th, "firstCallback")
    /\ RegistryFree(nextId["instrument"])
    /\ AddCallback(nextId["instrument"], call[th].d)
    /\ Goto(th, "index")
    /\ UNCHANGED <<meterVars, lockVars, index, view, nextId, known, readerVars, histVars>>

\* The index entry comes last; from here the instrument exists.
IndexInstrument(th) ==
    /\ At(th, "index")
    /\ LET k == InstrumentKey(call[th].r) i == nextId["instrument"] IN
         /\ index' = Insert(index, k, i)
         /\ nextId' = [nextId EXCEPT !["instrument"] = @ + 1]
         /\ answers' = answers \cup {<<call[th].r, i>>}
         /\ given' = given \cup ({i} \X ({call[th].d} \ {None}))
    /\ Unlock("instrument")
    /\ createLock' = None
    /\ Return(th)
    /\ UNCHANGED <<meterVars, shared, registry, instrument, view, known, readerVars>>

\* Faulty variant: the handle stays in the map.
IndexThrowsKeeping(th) ==
    /\ At(th, "index")
    /\ RegistryFree(nextId["instrument"])
    /\ Unlock("instrument")
    /\ createLock' = None
    /\ Return(th)
    /\ UNCHANGED <<meterVars, shared, registry, instrument, index, view, nextId, known, readerVars, histVars>>

\* The index emplace throws: the map entry goes, and the handle with its callback.
IndexThrows(th) ==
    /\ At(th, "index")
    /\ RegistryFree(nextId["instrument"])
    /\ instrument' = Remove(instrument, nextId["instrument"])
    /\ Unlock("instrument")
    /\ createLock' = None
    /\ Return(th)
    /\ UNCHANGED <<meterVars, shared, registry, index, view, nextId, known, readerVars, histVars>>

\* get_instrument
GetInstrument(th, r) ==
    /\ MayCall(th)
    /\ Unlocked("instrument")
    /\ Answer(th, r)
    /\ UNCHANGED <<meterVars, lockVars, instrument, index, view, nextId, known, readerVars, given>>

-----------------------------------------------------------------------------
(* add_instrument_callback, remove_instrument_callback, update_instrument *)

\* OTEL_LOCK_INSTRUMENT_HANDLE: the shared lock is kept while the handle is used.
UseInstrument(th, i, d, pc) ==
    /\ MayCall(th)
    /\ Unlocked("instrument")
    /\ i \in DOMAIN instrument
    /\ shared' = [shared EXCEPT !["instrument"] = @ \cup {th}]
    /\ Enter(th, [pc |-> pc, i |-> i, d |-> d])
    /\ UNCHANGED <<meterVars, createLock, excl, registry, instrument, index, view, nextId, known, readerVars, histVars>>

\* OTEL_METER_OBSERVABLE_DISPATCH: a synchronous instrument ignores its callbacks.
Observable(i) == instrument[i].key[2] = "observable"

DoAddCallback(th) ==
    /\ At(th, "add")
    /\ LET i == call[th].i d == call[th].d IN
         \/ /\ Observable(i)
            /\ RegistryFree(i)
            /\ AddCallback(i, d)
            /\ given' = given \cup {<<i, d>>}
         \/ ~Observable(i) /\ UNCHANGED <<instrument, given>>
    /\ shared' = [shared EXCEPT !["instrument"] = @ \ {th}]
    /\ Return(th)
    /\ UNCHANGED <<meterVars, createLock, excl, registry, index, view, nextId, known, readerVars, answers>>

\* Faulty variant: the callback is forgotten without the SDK's being told.
DoRemoveCallbackLocally(th) ==
    /\ At(th, "remove")
    /\ given' = given \ {<<call[th].i, call[th].d>>}
    /\ shared' = [shared EXCEPT !["instrument"] = @ \ {th}]
    /\ Return(th)
    /\ UNCHANGED <<meterVars, createLock, excl, registry, instrument, index, view, nextId, known, readerVars, answers>>

DoRemoveCallback(th) ==
    /\ At(th, "remove")
    /\ LET i == call[th].i d == call[th].d IN
         \/ /\ Observable(i)
            /\ RegistryFree(i)
            /\ RemoveCallback(i, d)
            /\ given' = given \ {<<i, d>>}
         \/ ~Observable(i) /\ UNCHANGED <<instrument, given>>
    /\ shared' = [shared EXCEPT !["instrument"] = @ \ {th}]
    /\ Return(th)
    /\ UNCHANGED <<meterVars, createLock, excl, registry, index, view, nextId, known, readerVars, answers>>

\* update_instrument, update_instrument_kv_n: the SDK instrument takes the value, or the
\* value or an attribute is refused.
DoUpdate(th) ==
    /\ At(th, "update")
    /\ shared' = [shared EXCEPT !["instrument"] = @ \ {th}]
    /\ Return(th)
    /\ UNCHANGED <<meterVars, createLock, excl, registry, instrument, index, view, nextId, known, readerVars, histVars>>

-----------------------------------------------------------------------------
(* add_view *)

\* The argument checks of add_view(): v.bounds is "null", "empty", "some", or "missing"
\* (a count without an array).
ViewArguments(v) ==
    /\ v.bounds \in {"null", "some"}
    /\ v.bounds = "some" => v.type = "histogram" /\ v.aggregation \in {"default", "histogram"}

\* otel_meter_get_view_id(): names compare without case.
ViewsNamed(n) == {i \in DOMAIN view : Fold[view[i].name] = Fold[n]}

AddView(th, v) ==
    /\ MayCall(th)
    /\ enabled
    /\ ViewArguments(v)
    /\ Unlocked("view")
    /\ ViewsNamed(v.name) = {}
    /\ Enter(th, [pc |-> "addView", v |-> v])
    /\ UNCHANGED <<meterVars, lockVars, instrument, index, view, nextId, known, readerVars, histVars>>

\* The second probe; the scope name and the provider must be there.
RecheckView(th) ==
    /\ At(th, "recheckView")
    /\ Unlocked("view")
    /\ \/ /\ ViewsNamed(call[th].v.name) = {} /\ scope /\ installed > 0
          /\ Goto(th, "insertView")
          /\ UNCHANGED createLock
       \/ /\ ViewsNamed(call[th].v.name) # {} \/ ~scope \/ installed = 0
          /\ createLock' = None
          /\ Return(th)
    /\ UNCHANGED <<meterVars, excl, shared, registry, instrument, index, view, nextId, known, readerVars, histVars>>

\* otel_meter_view_register(): AddView can not be undone.
ViewRegister(v) == known' = [known EXCEPT ![v] = @ + 1]

\* Faulty variant: the id is drawn before the insertion can fail.
InsertViewDraws(th) ==
    /\ At(th, "insertView")
    /\ Free("view")
    /\ nextId' = [nextId EXCEPT !["view"] = @ + 1]
    /\ \/ view' = Insert(view, nextId["view"], call[th].v) /\ ViewRegister(call[th].v)
       \/ UNCHANGED <<view, known>>
    /\ createLock' = None
    /\ Return(th)
    /\ UNCHANGED <<meterVars, excl, shared, registry, instrument, index, readerVars, histVars>>

\* Under the exclusive lock: recorded, then registered; each may fail and takes the record
\* back.
InsertView(th) ==
    /\ At(th, "insertView")
    /\ Free("view")
    /\ \/ /\ view' = Insert(view, nextId["view"], call[th].v)
          /\ ViewRegister(call[th].v)
          /\ nextId' = [nextId EXCEPT !["view"] = @ + 1]
       \/ UNCHANGED <<view, nextId, known>>
    /\ createLock' = None
    /\ Return(th)
    /\ UNCHANGED <<meterVars, excl, shared, registry, instrument, index, readerVars, histVars>>

-----------------------------------------------------------------------------
(* start, set_enabled, destroy *)

\* The scope name is replaced under the creation mutex; the copy may fail, and so may the
\* configuration after it.
Start(th) ==
    /\ MayCall(th)
    /\ Drained(th)
    /\ built < MaxStarts
    /\ createLock = None
    /\ \/ scope' = FALSE /\ UNCHANGED <<createLock, call>>
       \/ scope' = TRUE /\ UNCHANGED <<createLock, call>>
       \/ scope' = TRUE /\ createLock' = th /\ Enter(th, [pc |-> "build"])
    /\ UNCHANGED <<open, enabled, installed, built, excl, shared, registry, instrument, index, view, nextId, known, readerVars, histVars>>

\* Faulty variant: a new provider is handed no view.
RegisterNothing == [v \in Views |-> 0]

\* The views a new provider is handed: the recorded ones.
RegisterRecorded == [v \in Views |-> Cardinality({i \in DOMAIN view : view[i] = v})]

\* Exporters, readers and provider are built, each recorded view is registered with the
\* new provider, and the files are opened; a failure drops what was built.
Build(th) ==
    /\ At(th, "build")
    /\ built' = built + 1
    /\ \/ Enter(th, [pc |-> "install", known |-> RegisterRecorded]) /\ UNCHANGED createLock
       \/ Return(th) /\ createLock' = None
    /\ UNCHANGED <<open, enabled, installed, scope, excl, shared, registry, instrument, index, view, nextId, known, readerVars, histVars>>

\* The new pipeline replaces the old one, whose release joins its readers.
Install(th) ==
    /\ At(th, "install")
    /\ registry = None
    /\ installed' = built
    /\ known' = call[th].known
    /\ createLock' = None
    /\ Return(th)
    /\ UNCHANGED <<open, enabled, built, scope, excl, shared, registry, instrument, index, view, nextId, readerVars, histVars>>

SetEnabled(th, on) ==
    /\ MayCall(th)
    /\ enabled' = on
    /\ UNCHANGED <<open, installed, built, scope, lockVars, instrument, index, view, nextId, known, call, readerVars, histVars>>

\* Both maps are cleared under their exclusive locks; an observable handle takes its
\* callbacks out of the registry, and the provider joins its readers.
Destroy(th) ==
    /\ MayCall(th)
    /\ Drained(th)
    /\ registry = None
    /\ open' = FALSE
    /\ installed' = 0
    /\ view' = Empty
    /\ instrument' = Empty
    /\ index' = Empty
    /\ given' = {}
    /\ answers' = {}
    /\ UNCHANGED <<enabled, built, scope, lockVars, nextId, known, call, readerVars>>

-----------------------------------------------------------------------------
(* The readers: ObservableRegistry::Observe of the installed SDK meter *)

CollectBegin ==
    /\ open
    /\ installed > 0
    /\ registry = None
    /\ registry' = Reader
    /\ todo' = UNION {{i} \X instrument[i].cbs : i \in {j \in DOMAIN instrument : instrument[j].pipe = installed}}
    /\ UNCHANGED <<meterVars, createLock, excl, shared, instrument, index, view, nextId, known, call, running, histVars>>

\* OTEL_METER_OBSERVABLE_CB: the callers' function runs, and its value is observed.
CallbackBegin ==
    /\ running = None
    /\ \E p \in todo : running' = p /\ todo' = todo \ {p}
    /\ UNCHANGED <<meterVars, lockVars, instrument, index, view, nextId, known, call, histVars>>

CallbackEnd ==
    /\ running # None
    /\ running' = None
    /\ UNCHANGED <<meterVars, lockVars, instrument, index, view, nextId, known, call, todo, histVars>>

CollectEnd ==
    /\ registry = Reader
    /\ running = None
    /\ todo = {}
    /\ registry' = None
    /\ UNCHANGED <<meterVars, createLock, excl, shared, instrument, index, view, nextId, known, call, readerVars, histVars>>

-----------------------------------------------------------------------------
Invoke(th) ==
    \/ \E r \in Requests : GetInstrument(th, r) \/ \E d \in Descriptors \cup {None} : Create(th, r, d)
    \/ \E i \in DOMAIN instrument :
         \/ UseInstrument(th, i, None, "update")
         \/ \E d \in Descriptors : UseInstrument(th, i, d, "add") \/ UseInstrument(th, i, d, "remove")
    \/ \E v \in Views : AddView(th, v)
    \/ Start(th) \/ Destroy(th)
    \/ \E on \in BOOLEAN : SetEnabled(th, on)

Continue(th) ==
    \/ Probe(th) \/ LockCreate(th) \/ Recheck(th) \/ EmplaceInstrument(th) \/ FirstCallback(th)
    \/ IndexInstrument(th) \/ IndexThrows(th)
    \/ DoAddCallback(th) \/ DoRemoveCallback(th) \/ DoUpdate(th)
    \/ RecheckView(th) \/ InsertView(th)
    \/ Build(th) \/ Install(th)

Collect == CollectBegin \/ CallbackBegin \/ CallbackEnd \/ CollectEnd

Next == Collect \/ \E th \in Threads : Invoke(th) \/ Continue(th)

Spec == Init /\ [][Next]_vars

\* A call goes on when it can: the map locks let every writer in (SharedMutex), and the
\* two mutexes are free between calls and between collections.  A collection ends.
FairSpec == /\ Spec
            /\ \A th \in Threads : SF_vars(Continue(th))
            /\ WF_vars(CallbackBegin \/ CallbackEnd \/ CollectEnd)

-----------------------------------------------------------------------------
(* Properties *)

TypeOK ==
    /\ {open, enabled, scope} \subseteq BOOLEAN
    /\ installed \in 0..built /\ built \in 0..MaxStarts
    /\ createLock \in Threads \cup {None}
    /\ excl \in [Maps -> Threads \cup {None}] /\ shared \in [Maps -> SUBSET Threads]
    /\ registry \in {None, Reader}
    /\ DOMAIN instrument \subseteq Nat
    /\ \A i \in DOMAIN instrument : instrument[i] \in [key : Keys, pipe : Nat, cbs : SUBSET Descriptors]
    /\ DOMAIN index \subseteq Keys
    /\ DOMAIN view \subseteq Nat /\ \A i \in DOMAIN view : view[i] \in Views
    /\ nextId \in [Maps -> Nat]
    /\ known \in [Views -> Nat]

\* Every caller that asked for a name and type, in whatever case and at whatever time,
\* got the same identifier, no two got one for different ones, and it is in the map: the
\* race of two create_instrument() calls between probe and insertion is decided once.
OneIdPerKey ==
    /\ \A a, b \in answers :
         (Fold[a[1].name] = Fold[b[1].name] /\ a[1].type = b[1].type) <=> (a[2] = b[2])
    /\ \A a \in answers : a[2] \in DOMAIN instrument

\* Unless an insertion is under way, the index and the map say the same, whatever step of
\* an earlier insertion failed.
IndexMatchesMap ==
    Unlocked("instrument") => /\ DOMAIN instrument = {index[k] : k \in DOMAIN index}
                              /\ \A k \in DOMAIN index : instrument[index[k]].key = k

\* A descriptor is called only between the call that hands it over and the return of the
\* call that takes it back, so its owner may then free it; a failed create hands nothing
\* over (OTEL_CATCH_SIGNAL_RETURN in create_instrument()).
CalledOnlyWhileGiven ==
    running # None => \/ running \in given
                      \/ \E th \in Threads : /\ call[th].pc \in {"index", "add", "remove"}
                                             /\ call[th].d = running[2]

\* A thread that uses an instrument under the shared lock finds it in the map throughout.
HandleStaysWhileUsed ==
    \A th \in Threads : call[th].pc \in {"add", "remove", "update"} => call[th].i \in DOMAIN instrument

\* The meter's maps at every step of every call, failed ones included.
RegistryInv == TypeOK /\ IndexMatchesMap /\ HandleStaysWhileUsed

\* The installed provider was handed every recorded view once and no other, after
\* restarts and after failures too.
ProviderKnowsViews ==
    open /\ installed > 0 =>
        /\ \A v \in Views : known[v] = IF v \in {view[i] : i \in DOMAIN view} THEN 1 ELSE 0
        /\ \A i, j \in DOMAIN view : view[i] = view[j] => i = j

\* The names of the recorded views, in lower case, and the identifier of each.
ViewNames   == {Fold[view[i].name] : i \in DOMAIN view}
IdIn(vs, n) == CHOOSE i \in DOMAIN vs : Fold[vs[i].name] = n
ViewIndex   == [n \in ViewNames |-> IdIn(view, n)]
FoldedNames == {Fold[n] : n \in Names}

Instruments == INSTANCE IdRegistry WITH ids <- index, Keys <- Keys
ViewIds     == INSTANCE IdRegistry WITH ids <- ViewIndex, Keys <- FoldedNames

\* Creating instruments, and adding views, for any number of threads and with any failures,
\* is assigning identifiers to new names one at a time, without a gap.
ImplementsIds == Instruments!Spec /\ ViewIds!Spec

\* Every call returns: no order of the creation mutex, the map locks and the SDK's
\* registry mutex, which collections hold, blocks one for good.
CallsReturn == \A th \in Threads : []<>At(th, "idle")

-----------------------------------------------------------------------------
(* The inductive strengthening the proofs use *)

CreatePoints == {"probe", "create", "recheck", "insert", "firstCallback", "index"}
ViewPoints   == {"addView", "recheckView", "insertView"}
UsePoints    == {"add", "remove", "update"}
StartPoints  == {"build", "install"}

\* What a call at a point carries.
CallShape ==
    /\ DOMAIN call = Threads
    /\ \A th \in Threads :
         /\ call[th].pc \in {"idle", "build", "install"} \cup CreatePoints \cup ViewPoints \cup UsePoints
         /\ call[th].pc \in CreatePoints =>
                call[th] \in [pc : CreatePoints, r : Requests, d : Descriptors \cup {None}, pipe : Nat]
         /\ call[th].pc \in ViewPoints => call[th] \in [pc : ViewPoints, v : Views]
         /\ call[th].pc \in UsePoints => call[th] \in [pc : UsePoints, i : Nat, d : Descriptors \cup {None}]
         /\ call[th].pc \in {"add", "remove", "firstCallback"} => call[th].d \in Descriptors
         /\ At(th, "install") => call[th] \in [pc : {"install"}, known : [Views -> Nat]]

\* Each lock is held by exactly the calls that are between taking and releasing it.
LocksMatchCalls ==
    /\ \A th \in Threads :
         /\ createLock = th <=> call[th].pc \in {"recheck", "insert", "firstCallback", "index",
                                                "recheckView", "insertView", "build", "install"}
         /\ excl["instrument"] = th <=> call[th].pc \in {"firstCallback", "index"}
         /\ th \in shared["instrument"] <=> call[th].pc \in UsePoints
    /\ excl["instrument"] # None => shared["instrument"] = {}
    /\ excl["view"] = None /\ shared["view"] = {}

\* A start runs alone, and a meter that was destroyed has no calls.
StartsAlone ==
    \A th \in Threads :
        /\ call[th].pc \in StartPoints => \A u \in Threads \ {th} : At(u, "idle")
        /\ At(th, "build") => built < MaxStarts
        /\ At(th, "insertView") => installed > 0
        /\ ~open => At(th, "idle")

\* The index leads to instruments under their keys, the map holds these and, while it is
\* locked, the one being inserted, whose key is new.
IndexLeads ==
    /\ \A k \in DOMAIN index : /\ index[k] \in DOMAIN instrument
                              /\ index[k] < nextId["instrument"]
                              /\ instrument[index[k]].key = k
    /\ \A i \in DOMAIN instrument :
         \/ instrument[i].key \in DOMAIN index /\ index[instrument[i].key] = i
         \/ excl["instrument"] # None /\ i = nextId["instrument"]
    /\ \A th \in Threads :
         /\ call[th].pc \in {"firstCallback", "index"} =>
               /\ nextId["instrument"] \in DOMAIN instrument
               /\ instrument[nextId["instrument"]].key = InstrumentKey(call[th].r)
         /\ call[th].pc \in {"insert", "firstCallback", "index"} => InstrumentKey(call[th].r) \notin DOMAIN index

\* What callers were told is what the index says.
AnswersIndexed ==
    \A a \in answers : /\ a[1] \in Requests
                       /\ InstrumentKey(a[1]) \in DOMAIN index
                       /\ a[2] = index[InstrumentKey(a[1])]

\* Callbacks of indexed instruments were given; the one being inserted has its first at most.
CallbacksGiven ==
    /\ \A i \in DOMAIN instrument \ {nextId["instrument"]} : \A d \in instrument[i].cbs : <<i, d>> \in given
    /\ \A th \in Threads :
         /\ At(th, "firstCallback") => instrument[nextId["instrument"]].cbs = {}
         /\ At(th, "index") => instrument[nextId["instrument"]].cbs \subseteq {call[th].d}

\* A collection calls callbacks that are still registered.
CollectedRegistered ==
    /\ registry = None => todo = {} /\ running = None
    /\ \A p \in todo \cup {running} :
         p # None => /\ p = <<p[1], p[2]>>
                     /\ p[1] \in DOMAIN instrument
                     /\ instrument[p[1]].pipe = installed
                     /\ p[2] \in instrument[p[1]].cbs

Recorded(v) == IF \E i \in DOMAIN view : view[i] = v THEN 1 ELSE 0

\* View names are unique, and an insertion under way has a new one; the installed provider
\* and the one about to be installed know the recorded views.
ViewsKnown ==
    /\ \A i \in DOMAIN view : i < nextId["view"]
    /\ \A i, j \in DOMAIN view : Fold[view[i].name] = Fold[view[j].name] => i = j
    /\ installed > 0 /\ open => \A v \in Views : known[v] = Recorded(v)
    /\ \A th \in Threads : /\ At(th, "insertView") => ViewsNamed(call[th].v.name) = {}
                           /\ At(th, "install") => \A v \in Views : call[th].known[v] = Recorded(v)

\* Identifiers count the names.
IdsCount ==
    open => /\ IsFiniteSet(DOMAIN index) /\ nextId["instrument"] = Cardinality(DOMAIN index)
            /\ IsFiniteSet(ViewNames) /\ nextId["view"] = Cardinality(ViewNames)

MeterInv == /\ TypeOK /\ CallShape /\ LocksMatchCalls /\ StartsAlone
            /\ IndexLeads /\ HandleStaysWhileUsed /\ AnswersIndexed
            /\ CallbacksGiven /\ CollectedRegistered /\ ViewsKnown /\ IdsCount
=============================================================================
