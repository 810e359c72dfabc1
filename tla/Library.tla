------------------------------ MODULE Library -------------------------------
(***************************************************************************)
(* Contexts and the process-wide settings (src/util.cpp, the node look-up  *)
(* of src/yaml.cpp): initialisations that may run concurrently, the check  *)
(* of a configuration, instances created against a context, the closing of *)
(* its document, and the settings otelc_lib_shutdown() resets.  Every      *)
(* allocation may fail.                                                    *)
(*                                                                         *)
(* A document is its validity, its handle_map_shards key and, per signal,  *)
(* the nodes under the section, or Nil for a section that is absent.      *)
(***************************************************************************)
EXTENDS Integers, Sequences

CONSTANTS Ctxs,            \* contexts the application holds
          Signals,
          Docs,            \* documents: [ok, shards, sections]
          Names,           \* names of a context; "" stands for none
          Counts,          \* valid shard counts
          DefaultCount,    \* OTEL_HANDLE_MAP_SHARDS
          LogAttributes,   \* attribute lists of SDK messages: sequences of types
          Nil,
          MaxLibraryCalls  \* bound: calls of a behaviour

\* Where a section of the document serves a context.
SectionPaths == {<<s>> : s \in Signals} \cup Signals \X (Names \cup {"default"})

\* Nil is none of the values it stands beside.
ASSUME LibraryAssumption ==
    /\ "traces" \in Signals
    /\ DefaultCount \notin Counts /\ MaxLibraryCalls \in Nat
    /\ \A d \in Docs : d.ok \in BOOLEAN /\ DOMAIN d.sections = Signals
    /\ Nil \notin SectionPaths \cup [prefix : SectionPaths, started : BOOLEAN] \cup Counts \cup {DefaultCount}
    /\ Nil # [op |-> "shutdown"]
    /\ LogAttributes \subseteq Seq(STRING)

VARIABLES
    contexts,      \* context -> where its otelc_init() is, its document, name and nstate
    instances,     \* context -> signal -> Nil, or the prefix and whether it was started
    heap,          \* blocks and open documents
    shards,        \* otel_handle_map_shards
    applied,       \* otel_handle_map_shards_applied
    keys,          \* history: valid keys read since the library was last shut down
    maps,          \* shard count the handle maps were built with
    hooks,         \* the callbacks installed: handler, malloc, free
    told,          \* what the last step answered
    libraryCalls

libraryVars == <<contexts, instances, heap, shards, applied, keys, maps, hooks, told, libraryCalls>>

Absent == [at |-> "none"]
DefaultHooks == [handler |-> "default", malloc |-> "default", free |-> "default"]

LibraryInit ==
    /\ contexts = [c \in Ctxs |-> Absent]
    /\ instances = [c \in Ctxs |-> [s \in Signals |-> Nil]]
    /\ heap = {} /\ shards = DefaultCount /\ applied = FALSE /\ keys = <<>> /\ maps = Nil
    /\ hooks = DefaultHooks /\ told = Nil /\ libraryCalls = 0

Instances(c) == {s \in Signals : instances[c][s] # Nil}

\* A call that starts: it counts against the bound.
Called == libraryCalls < MaxLibraryCalls /\ libraryCalls' = libraryCalls + 1

---------------------------------------------------------------------------
(* Which entry of a section serves a context. *)

Exists(doc, signal, node) == doc.sections[signal] # Nil /\ node \in doc.sections[signal]

\* yaml_probe_nstate()
Probe(doc, signal, name) ==
    LET named == name # "" IN
    IF doc.sections[signal] = Nil              THEN "ABSENT"
    ELSE IF named /\ Exists(doc, signal, name) THEN "FOUND"
    ELSE IF Exists(doc, signal, "default")     THEN IF named THEN "DEFAULT" ELSE "UNSET_DEFAULT"
    ELSE IF Exists(doc, signal, "scope_name")  THEN IF named THEN "FLAT" ELSE "UNSET_FLAT"
    ELSE IF named THEN "NOT_FOUND" ELSE "UNSET_NOT_FOUND"

ContextName(name) == IF name = "" THEN "default" ELSE name

\* Faulty variant: the default entry is looked for before the name.
ResolveDefaultFirst(doc, signal, name) ==
    IF Exists(doc, signal, "default")         THEN <<signal, "default">>
    ELSE IF Exists(doc, signal, name)         THEN <<signal, name>>
    ELSE IF Exists(doc, signal, "scope_name") THEN <<signal>>
    ELSE Nil

\* yaml_resolve_prefix(): the name, the fallback, then the layout without a naming level.
Resolve(doc, signal, name) ==
    IF Exists(doc, signal, name)              THEN <<signal, name>>
    ELSE IF Exists(doc, signal, "default")    THEN <<signal, "default">>
    ELSE IF Exists(doc, signal, "scope_name") THEN <<signal>>
    ELSE Nil

---------------------------------------------------------------------------
(* otelc_init() *)

Blocks(c) == {<<c, "context">>, <<c, "name">>, <<c, "document">>}

\* The call cannot allocate its context, or holds it.
InitBegins(c) ==
    /\ contexts[c] = Absent /\ Instances(c) = {}
    /\ Called
    /\ \E doc \in Docs, name \in Names :
           \/ /\ contexts' = [contexts EXCEPT ![c] =
                     [at |-> "name", doc |-> doc, name |-> name, open |-> FALSE, nstate |-> Nil]]
              /\ heap' = heap \cup {<<c, "context">>}
              /\ told' = Nil
           \/ /\ UNCHANGED <<contexts, heap>>
              /\ told' = [op |-> "init", doc |-> doc, ok |-> FALSE, enough |-> FALSE]
    /\ UNCHANGED <<instances, shards, applied, keys, maps, hooks>>

\* A failure of the call, which frees the blocks it is given.
InitFails(c, freed, enough) ==
    /\ contexts' = [contexts EXCEPT ![c] = Absent]
    /\ heap' = heap \ freed
    /\ told' = [op |-> "init", doc |-> contexts[c].doc, ok |-> FALSE, enough |-> enough]

InitNames(c) ==
    /\ contexts[c].at = "name"
    /\ \/ InitFails(c, {<<c, "context">>}, FALSE)
       \/ /\ contexts' = [contexts EXCEPT ![c].at = "open"]
          /\ heap' = heap \cup {<<c, "name">>}
          /\ told' = Nil
    /\ UNCHANGED <<instances, shards, applied, keys, maps, hooks, libraryCalls>>

\* yaml_open(): the file cannot be read or parsed, a key stands twice in a map, or memory is short.
InitOpens(c) ==
    /\ contexts[c].at = "open"
    /\ \/ InitFails(c, {<<c, "name">>, <<c, "context">>}, ~contexts[c].doc.ok)
       \/ /\ contexts[c].doc.ok
          /\ contexts' = [contexts EXCEPT ![c].at = "shards", ![c].open = TRUE]
          /\ heap' = heap \cup {<<c, "document">>}
          /\ told' = Nil
    /\ UNCHANGED <<instances, shards, applied, keys, maps, hooks, libraryCalls>>

BadKey(doc) == doc.shards # Nil /\ doc.shards \notin Counts

\* Faulty variant: a refused key leaves the document open.
InitRefusesLeaking(c) ==
    /\ contexts[c].at = "shards" /\ BadKey(contexts[c].doc)
    /\ InitFails(c, {<<c, "context">>, <<c, "name">>}, TRUE)
    /\ UNCHANGED <<instances, shards, applied, keys, maps, hooks, libraryCalls>>

InitRefusesKey(c) ==
    /\ contexts[c].at = "shards" /\ BadKey(contexts[c].doc)
    /\ InitFails(c, Blocks(c), TRUE)
    /\ UNCHANGED <<instances, shards, applied, keys, maps, hooks, libraryCalls>>

\* Faulty variant: every key is stored.
InitTakesAlways(c) ==
    /\ contexts[c].at = "shards" /\ ~BadKey(contexts[c].doc)
    /\ LET key == contexts[c].doc.shards IN
       /\ contexts' = [contexts EXCEPT ![c].at = IF key # Nil THEN "store" ELSE "probe"]
       /\ applied' = (applied \/ key # Nil)
       /\ keys' = IF key = Nil THEN keys ELSE Append(keys, key)
    /\ told' = Nil
    /\ UNCHANGED <<instances, heap, shards, maps, hooks, libraryCalls>>

\* The first call with a key sets the flag, and stores the count in a step of its own.
InitTakesKey(c) ==
    /\ contexts[c].at = "shards" /\ ~BadKey(contexts[c].doc)
    /\ LET key == contexts[c].doc.shards IN
       /\ contexts' = [contexts EXCEPT ![c].at = IF key # Nil /\ ~applied THEN "store" ELSE "probe"]
       /\ applied' = (applied \/ key # Nil)
       /\ keys' = IF key = Nil THEN keys ELSE Append(keys, key)
    /\ told' = Nil
    /\ UNCHANGED <<instances, heap, shards, maps, hooks, libraryCalls>>

InitStoresCount(c) ==
    /\ contexts[c].at = "store"
    /\ shards' = contexts[c].doc.shards
    /\ contexts' = [contexts EXCEPT ![c].at = "probe"]
    /\ told' = Nil
    /\ UNCHANGED <<instances, heap, applied, keys, maps, hooks, libraryCalls>>

InitReturns(c) ==
    /\ contexts[c].at = "probe"
    /\ contexts' = [contexts EXCEPT ![c].at = "live", ![c].nstate =
                       [s \in Signals |-> Probe(contexts[c].doc, s, contexts[c].name)]]
    /\ told' = [op |-> "init", doc |-> contexts[c].doc, ok |-> TRUE, enough |-> TRUE]
    /\ UNCHANGED <<instances, heap, shards, applied, keys, maps, hooks, libraryCalls>>

Live(c) == contexts[c].at = "live"

---------------------------------------------------------------------------
(* The other calls. *)

\* The checks of an initialisation and the probes of its name, on a document of its own.
CfgValidate ==
    \E doc \in Docs, name \in Names :
        /\ Called
        /\ told' = [op |-> "validate", doc |-> doc, name |-> name,
                    ok |-> /\ doc.ok /\ ~BadKey(doc)
                           /\ \A s \in Signals : Probe(doc, s, name) \notin {"NOT_FOUND", "UNSET_NOT_FOUND"}]
        /\ UNCHANGED <<contexts, instances, heap, shards, applied, keys, maps, hooks>>

CloseCfg(c) ==
    /\ Live(c) /\ Called
    /\ contexts' = [contexts EXCEPT ![c].open = FALSE]
    /\ heap' = heap \ {<<c, "document">>}
    /\ told' = Nil
    /\ UNCHANGED <<instances, shards, applied, keys, maps, hooks>>

Tracers == {c \in Ctxs : instances[c]["traces"] # Nil}

\* The first tracer builds the handle maps with the count of the moment, the last takes them down.
Built == IF Tracers = {} THEN shards ELSE maps
TornDown(c) == IF Tracers = {c} THEN Nil ELSE maps

\* The blocks of an instance: itself, its implementation and its prefix.
Instance(c, s) == {<<c, s, "instance">>, <<c, s, "impl">>, <<c, s, "prefix">>}

\* otelc_tracer_create(), otelc_meter_create() and otelc_logger_create().  A tracer
\* registers before its section is looked up; one that is then destroyed again takes the maps
\* it built with it.
CreateInstance(c, s) ==
    /\ Live(c) /\ instances[c][s] = Nil /\ Called
    /\ \E enough \in BOOLEAN :
           LET prefix == IF contexts[c].open /\ enough
                         THEN Resolve(contexts[c].doc, s, ContextName(contexts[c].name)) ELSE Nil IN
           /\ told' = [op |-> "create", ctx |-> c, signal |-> s, prefix |-> prefix,
                       enough |-> enough /\ contexts[c].open]
           /\ IF prefix = Nil THEN UNCHANGED <<instances, heap, maps>>
              ELSE /\ instances' = [instances EXCEPT ![c][s] = [prefix |-> prefix, started |-> FALSE]]
                   /\ heap' = heap \cup Instance(c, s)
                   /\ maps' = IF s = "traces" THEN Built ELSE maps
    /\ UNCHANGED <<contexts, shards, applied, keys, hooks>>

\* A start reads the document of its context, which must still be there.
StartInstance(c, s) ==
    /\ Live(c) /\ instances[c][s] # Nil /\ contexts[c].open /\ Called
    /\ instances' = [instances EXCEPT ![c][s].started = TRUE]
    /\ told' = Nil
    /\ UNCHANGED <<contexts, heap, shards, applied, keys, maps, hooks>>

\* The instances passed, then the context.
Released(c, passed, context) ==
    /\ instances' = [instances EXCEPT ![c] = [s \in Signals |-> IF s \in passed THEN Nil ELSE @[s]]]
    /\ contexts' = [contexts EXCEPT ![c] = IF context THEN Absent ELSE @]
    /\ heap' = heap \ ((UNION {Instance(c, s) : s \in passed}) \cup IF context THEN Blocks(c) ELSE {})

\* An instance that is not passed along with its context must have been started.
Deinit(c) ==
    \E passed \in SUBSET Instances(c), context \in BOOLEAN :
        /\ context => Live(c) /\ \A s \in Instances(c) \ passed : instances[c][s].started
        /\ passed # {} \/ context
        /\ Called
        /\ Released(c, passed, context)
        /\ maps' = IF "traces" \in passed THEN TornDown(c) ELSE maps
        /\ told' = Nil
        /\ UNCHANGED <<shards, applied, keys, hooks>>

---------------------------------------------------------------------------
(* Process-wide settings. *)

\* The default handler that cannot be allocated leaves an empty one; a custom handler that
\* cannot be allocated leaves the one before.
SetHandler(h, handler, enough) ==
    [h EXCEPT !.handler = IF enough THEN handler ELSE IF handler = "default" THEN "empty" ELSE @]

\* An incomplete pair is ignored: both stay the library's.
SetExt(h, malloc, free) ==
    IF "default" \in {malloc, free} THEN [h EXCEPT !.malloc = "default", !.free = "default"]
    ELSE [h EXCEPT !.malloc = malloc, !.free = free]

LogSetHandler ==
    \E handler \in {"app", "default"}, enough \in BOOLEAN :
        /\ Called
        /\ hooks' = SetHandler(hooks, handler, enough)
        /\ told' = Nil
        /\ UNCHANGED <<contexts, instances, heap, shards, applied, keys, maps>>

Unused == \A c \in Ctxs : contexts[c] = Absent /\ Instances(c) = {}

\* It has to run before anything that uses the callbacks.
ExtInit ==
    \E malloc, free \in {"app", "default"} :
        /\ Unused /\ Called
        /\ hooks' = SetExt(hooks, malloc, free)
        /\ told' = Nil
        /\ UNCHANGED <<contexts, instances, heap, shards, applied, keys, maps>>

LibShutdown ==
    /\ Unused /\ Called
    /\ \E enough \in BOOLEAN : hooks' = SetExt(SetHandler(hooks, "default", enough), "default", "default")
    /\ shards' = DefaultCount /\ applied' = FALSE /\ keys' = <<>>
    /\ told' = [op |-> "shutdown"]
    /\ UNCHANGED <<contexts, instances, heap, maps>>

Scalars == {"bool", "number", "string"}

\* An attribute is converted in the next free cell; one of a type that a cell cannot hold
\* leaves its key there and does not move on.
Placed(r, a) == [cells |-> [r.cells EXCEPT ![r.len + 1] = IF a \in Scalars THEN a ELSE "key"],
                 len   |-> IF a \in Scalars THEN r.len + 1 ELSE r.len]

\* The cells of a message with all its attributes converted, one after the other.
Converted(given) ==
    LET After[i \in 0..Len(given)] ==
            IF i = 0 THEN [cells |-> [j \in DOMAIN given |-> "blank"], len |-> 0]
            ELSE Placed(After[i - 1], given[i])
    IN  After[Len(given)]

\* A message of the SDK reaches the handler, with its attributes if there is memory for them.
Handle ==
    \E given \in LogAttributes, forward, enough \in BOOLEAN :
        /\ hooks.handler = "app" /\ Called
        /\ LET result == Converted(given) IN
           told' = [op |-> "log", given |-> IF forward /\ enough THEN given ELSE <<>>,
                    got |-> IF forward /\ enough THEN SubSeq(result.cells, 1, result.len) ELSE <<>>]
        /\ UNCHANGED <<contexts, instances, heap, shards, applied, keys, maps, hooks>>

LibraryNext ==
    \/ \E c \in Ctxs : \/ InitBegins(c) \/ InitNames(c) \/ InitOpens(c) \/ InitRefusesKey(c)
                       \/ InitTakesKey(c) \/ InitStoresCount(c) \/ InitReturns(c) \/ CloseCfg(c) \/ Deinit(c)
                       \/ \E s \in Signals : CreateInstance(c, s) \/ StartInstance(c, s)
    \/ CfgValidate \/ LogSetHandler \/ ExtInit \/ LibShutdown \/ Handle

LibrarySpec == LibraryInit /\ [][LibraryNext]_libraryVars

---------------------------------------------------------------------------
LibraryTypeOK ==
    /\ \A c \in Ctxs : contexts[c].at \in {"none", "name", "open", "shards", "store", "probe", "live"}
    /\ shards \in Counts \cup {DefaultCount} /\ applied \in BOOLEAN
    /\ maps \in IF Tracers = {} THEN {Nil} ELSE Counts \cup {DefaultCount}
    /\ hooks.handler \in {"app", "default", "empty"}
    /\ libraryCalls \in 0 .. MaxLibraryCalls

\* The entry a name state promises.
Promised(nstate, signal, name) ==
    CASE nstate = "FOUND" -> <<signal, name>>
      [] nstate \in {"DEFAULT", "UNSET_DEFAULT"} -> <<signal, "default">>
      [] nstate \in {"FLAT", "UNSET_FLAT"} -> <<signal>>
      [] OTHER -> Nil

\* The name state that otelc_init() records, possibly long before, tells what a create then
\* does: it succeeds with that entry, or fails when nothing matches, unless memory is short
\* or the document was closed (util.h:207-215, util.cpp:2127, yaml.cpp:565-646).
NStateTellsCreate ==
    told # Nil /\ told.op = "create" =>
        told.prefix = IF told.enough
                      THEN Promised(contexts[told.ctx].nstate[told.signal], told.signal, contexts[told.ctx].name)
                      ELSE Nil

\* A validated configuration is one that otelc_init() accepts and against which every
\* section that is present can be created; one that is refused fails one of them
\* (util.cpp:1995-2005, :2037-2049).
ValidateTellsInit ==
    told # Nil =>
        /\ told.op = "init" /\ told.enough => told.ok = (told.doc.ok /\ ~BadKey(told.doc))
        /\ told.op = "validate" =>
               told.ok = /\ told.doc.ok /\ ~BadKey(told.doc)
                         /\ \A s \in Signals : told.doc.sections[s] # Nil =>
                                Resolve(told.doc, s, ContextName(told.name)) # Nil

\* What the library tells of a document beforehand is what its calls then do.
ForetoldHolds == NStateTellsCreate /\ ValidateTellsInit

\* The first key read since the library was last shut down is the count, however the calls
\* that read one interleave, once its store is done; a configuration check does not consume
\* the slot (util.cpp:1974-1975, :2282-2283).
FirstKeyStays ==
    (\A c \in Ctxs : contexts[c].at # "store") =>
        shards = IF keys = <<>> THEN DefaultCount ELSE keys[1]

\* The blocks of a context, by where its otelc_init() is, and those of its instances.
ContextBlocks(c) ==
    IF contexts[c] = Absent            THEN {}
    ELSE IF contexts[c].at = "name"    THEN {<<c, "context">>}
    ELSE IF contexts[c].open           THEN Blocks(c)
    ELSE {<<c, "context">>, <<c, "name">>}
InstanceBlocks(c) == UNION {Instance(c, s) : s \in Instances(c)}

\* What is allocated belongs to a context or an instance that a deinit can still be given:
\* a call that fails part of the way leaves nothing (util.cpp:2109-2125, logger.cpp:1171).
NothingLeaks == heap = UNION {ContextBlocks(c) \cup InstanceBlocks(c) : c \in Ctxs}

\* After otelc_lib_shutdown() the library refers to no callback of the application, also when
\* the default handler could not be allocated, and a malloc is never paired with a free that
\* is not its own (util.cpp:240-249, :416-420, :2274-2275).
CallbacksReleased ==
    /\ (hooks.malloc = "app") = (hooks.free = "app")
    /\ told = [op |-> "shutdown"] => "app" \notin {hooks.handler, hooks.malloc, hooks.free}

\* The handler gets the attributes it can hold, in their order and without a gap, whatever
\* stands between them (util.cpp:303-377).
HandlerSeesWritten ==
    told # Nil /\ told.op = "log" =>
        LET held == {i \in DOMAIN told.given : told.given[i] \in Scalars} IN
        \E from \in [DOMAIN told.got -> held] :
            /\ \A i \in held : \E j \in DOMAIN told.got : from[j] = i
            /\ \A i, j \in DOMAIN told.got : i < j => from[i] < from[j]
            /\ \A j \in DOMAIN told.got : told.got[j] = told.given[from[j]]

\* Contexts, instances and messages after every call, whatever failed in it.
LibraryInv == LibraryTypeOK /\ NothingLeaks /\ CallbacksReleased /\ HandlerSeesWritten

---------------------------------------------------------------------------
(* The inductive strengthening the proofs use. *)

NStates ==
    {"ABSENT", "FOUND", "DEFAULT", "UNSET_DEFAULT", "FLAT", "UNSET_FLAT", "NOT_FOUND", "UNSET_NOT_FOUND"}
ContextRecord == [at : {"name", "open", "shards", "store", "probe", "live"}, doc : Docs, name : Names,
                  open : BOOLEAN, nstate : {Nil} \cup [Signals -> NStates]]

Hooks == [handler : {"app", "default", "empty"}, malloc : {"app", "default"}, free : {"app", "default"}]

\* What the variables hold; a document is open from yaml_open() until it is closed.
LibraryShape ==
    /\ contexts \in [Ctxs -> {Absent} \cup ContextRecord]
    /\ instances \in [Ctxs -> [Signals -> {Nil} \cup [prefix : SectionPaths, started : BOOLEAN]]]
    /\ keys \in Seq(Counts) /\ hooks \in Hooks
    /\ \A c \in Ctxs : /\ contexts[c].at \in {"name", "open"} => ~contexts[c].open
                       /\ contexts[c].at \in {"shards", "store", "probe"} => contexts[c].open

\* A context in use has the name states of its document.
StatesRecorded ==
    \A c \in Ctxs : Live(c) =>
        contexts[c].nstate = [s \in Signals |-> Probe(contexts[c].doc, s, contexts[c].name)]

\* Past its checks, the document of a call is one it accepts.
DocumentAccepted ==
    \A c \in Ctxs : /\ contexts[c].at \in {"shards", "store", "probe"} => contexts[c].doc.ok
                    /\ contexts[c].at \in {"store", "probe"} => ~BadKey(contexts[c].doc)

\* The flag is up once a key was read, and only the first one read is still to be stored.
FirstKeyPending ==
    /\ applied = (keys # <<>>)
    /\ \A c \in Ctxs : contexts[c].at = "store" =>
           /\ keys # <<>> /\ keys[1] = contexts[c].doc.shards
           /\ \A d \in Ctxs : contexts[d].at = "store" => d = c

ContextsInv == /\ LibraryTypeOK /\ NothingLeaks /\ CallbacksReleased /\ ForetoldHolds /\ FirstKeyStays
               /\ LibraryShape /\ StatesRecorded /\ DocumentAccepted /\ FirstKeyPending
=============================================================================
