--------------------------- MODULE PipelineBuild ---------------------------
(***************************************************************************)
(* How a start builds a pipeline from the configuration: exporters, the    *)
(* processors or readers that take them over, the sampler, the resource    *)
(* and the provider (src/exporter.cpp, processor.cpp, sampler.cpp,         *)
(* resource.cpp, provider.cpp, yaml.cpp and the build part of the three    *)
(* start functions).  Every allocation may fail.                           *)
(*                                                                         *)
(* A read of the configuration is the set of its results: one value, or    *)
(* none when the read is an error.                                         *)
(***************************************************************************)
EXTENDS Integers, Sequences, FiniteSets

CONSTANTS Configs,         \* entries a context may select, see ConfigsAssumption
          ExporterNodes,   \* the sections of the document: name -> node
          ProcessorNodes,
          ReaderNodes,
          SamplerNodes,
          None,
          MaxBuilds        \* bound: starts of the instance

\* The exporters of each signal, with every back end built in.
TraceExporters  == {"memory", "ostream", "otlp_file", "otlp_grpc", "otlp_http", "zipkin"}
MetricExporters == {"memory", "ostream", "otlp_file", "otlp_grpc", "otlp_http"}
LogExporters    == {"elasticsearch", "ostream", "otlp_file", "otlp_grpc", "otlp_http"}
Supported == [traces |-> TraceExporters, metrics |-> MetricExporters, logs |-> LogExporters]

\* The values that the options of a back end accept, for those that do not accept any.
CpuId    == -1 .. 4095
OtlpFile == [cpu_id |-> CpuId, flush_interval |-> 100000 .. 60000000, flush_count |-> 16 .. 8192,
             rotate_size |-> 1 .. 256]     \* and file_size, beyond TLC's integers
OtlpGrpc == [cpu_id |-> CpuId, use_ssl_credentials |-> BOOLEAN, timeout |-> 1 .. 60, max_threads |-> 1 .. 1024]
OtlpHttp == [cpu_id |-> CpuId, timeout |-> 1 .. 60, background_thread_wait_for |-> 0 .. 3600000,
             use_json_name |-> BOOLEAN, debug |-> BOOLEAN, ssl_insecure_skip_verify |-> BOOLEAN,
             content_type |-> {"", "json", "binary"}, json_bytes_mapping |-> {"", "hexid", "hex", "base64"}]
Zipkin   == [format |-> {"", "json", "protobuf"}]
InMemory == [buffer_size |-> 16 .. 65536]
Elasticsearch == [port |-> 1 .. 65535, response_timeout |-> 1 .. 3600, debug |-> BOOLEAN]
Ostream  == [filename |-> STRING]

Options(type) ==
    CASE type = "otlp_file"     -> OtlpFile
      [] type = "otlp_grpc"     -> OtlpGrpc
      [] type = "otlp_http"     -> OtlpHttp
      [] type = "zipkin"        -> Zipkin
      [] type = "memory"        -> InMemory
      [] type = "elasticsearch" -> Elasticsearch
      [] OTHER                  -> Ostream

ASSUME ConfigsAssumption ==
    /\ MaxBuilds \in Nat
    /\ \A c \in Configs :
           /\ c.signal \in DOMAIN Supported
           /\ c.multiple \in BOOLEAN              \* OTELC_USE_MULTIPLE_PROCESSORS
           /\ \A k \in {c.exporters, c.units, c.sampler} :
                  k.list \in BOOLEAN /\ k.names \in Seq(STRING) /\ (~k.list => Len(k.names) <= 1)
           /\ c.resources # None => c.resources \in Seq(STRING \X STRING)

VARIABLES
    cfg,         \* the entry the start under way reads
    step,        \* where it is
    build,       \* its number
    exporter,    \* the local exporter pointer: a set of at most one exporter
    unit,        \* the local processor or reader: a set of at most one record
    made,        \* the units pushed so far
    tracked,     \* the local vector of raw exporter pointers
    sampler,     \* the local sampler, as a set
    alive,       \* exporters not destroyed yet
    provider,    \* impl->provider: the configuration it was built from and what it owns
    listed       \* impl->exporters

buildVars == <<cfg, step, build, exporter, unit, made, tracked, sampler, alive, provider, listed>>

---------------------------------------------------------------------------
(* Reading the document. *)

\* A key that holds a scalar names one node; a list is no scalar and reads as absent.
Scalar(key) == {key.names[i] : i \in IF key.list THEN {} ELSE DOMAIN key.names}

\* An absent property keeps the default of its variable.
Number(node, field, default, lo, hi) ==
    IF field \notin DOMAIN node THEN {default} ELSE {n \in {node[field]} : n \in lo .. hi}
String(node, field, default) == IF field \notin DOMAIN node THEN default ELSE node[field]

\* The list whose length is the number of pipelines, and the list paired with it.
Lead(c)   == IF c.signal = "metrics" THEN c.exporters ELSE c.units
Follow(c) == IF c.signal = "metrics" THEN c.units ELSE c.exporters
Count(c)  == IF Lead(c).list THEN Len(Lead(c).names) ELSE 1

LeadName(c, i) == IF Lead(c).list THEN {Lead(c).names[i]} ELSE Scalar(Lead(c))

\* Faulty variant: the first entry of the shorter list is reused, and a scalar for a list.
FollowNameFirst(c, i) ==
    LET f == Follow(c) IN
    IF ~Lead(c).list \/ ~f.list THEN Scalar(f)
    ELSE {f.names[IF i <= Len(f.names) THEN i ELSE 1] : n \in DOMAIN f.names}

\* Past the end of the shorter list its last entry is reused.  An empty name is an error to
\* yaml_get_node(), except for a reader, which start then takes from the scalar key.
FollowName(c, i) ==
    LET f == Follow(c) IN
    IF ~Lead(c).list THEN Scalar(f)
    ELSE IF ~f.list THEN IF c.signal = "metrics" THEN Scalar(f) ELSE {}
    ELSE {f.names[IF i <= Len(f.names) THEN i ELSE Len(f.names)] : n \in DOMAIN f.names}

ExporterName(c, i) == IF c.signal = "metrics" THEN LeadName(c, i) ELSE FollowName(c, i)
UnitName(c, i)     == IF c.signal = "metrics" THEN FollowName(c, i) ELSE LeadName(c, i)

\* Every option of the back end that the node has is read, and one bad value refuses all.
Accepted(node) == \A o \in DOMAIN node \cap DOMAIN Options(node.type) : node[o] \in Options(node.type)[o]

\* The exporters that the configuration lets pipeline i have, by name.
Exporters(c, i) ==
    {e \in ExporterName(c, i) \cap DOMAIN ExporterNodes :
        ExporterNodes[e].type \in Supported[c.signal] /\ Accepted(ExporterNodes[e])}

\* size: what must hold one part; a batch for a processor, a collection for a reader.
Processor(name) ==
    LET n == ProcessorNodes[name] IN
    {u \in {[name |-> name, type |-> n.type, size |-> s, part |-> p] :
                s \in Number(n, "max_queue_size", 2048, 64, 65536),
                p \in Number(n, "max_export_batch_size", 512, 1, 65536)} :
        u.type = "single" \/ (u.type = "batch" /\ u.size >= u.part)}

\* Every property of a reader is optional, so an unknown name gives the defaults.
Reader(name) ==
    LET n == IF name \in DOMAIN ReaderNodes THEN ReaderNodes[name] ELSE [name |-> name] IN
    {u \in {[name |-> name, type |-> "reader", size |-> s, part |-> p] :
                s \in Number(n, "export_interval", 60000, 100, 3600000),
                p \in Number(n, "export_timeout", 30000, 100, 3600000)} : u.size > u.part}

Units(c, i) ==
    IF c.signal # "metrics" THEN UNION {Processor(n) : n \in UnitName(c, i) \cap DOMAIN ProcessorNodes}
    ELSE UNION {Reader(n) : n \in IF UnitName(c, i) = {} THEN {""} ELSE UnitName(c, i)}

\* The delegates a parent_based sampler may name, with the SDK's defaults.
Delegates == [remote_sampled |-> "always_on", remote_not_sampled |-> "always_off",
              local_sampled  |-> "always_on", local_not_sampled  |-> "always_off"]
Always == {"always_on", "always_off"}

\* The ratio is mandatory for a named sampler of type ratio, and 1.0 (100) without a name.
Ratio(names) == IF names = {} THEN {100}
                ELSE {r \in UNION {Number(SamplerNodes[n], "ratio", -1, 0, 100) : n \in names} : r >= 0}

SamplerOf(type, ratio, delegates) == [type |-> type, ratio |-> ratio, delegates |-> delegates]

\* One delegate that does not exist is an error for all of them.
Delegated(node) == {g \in {[d \in DOMAIN Delegates |-> String(node, d, Delegates[d])]} :
                       \A d \in DOMAIN g : g[d] \in Always}

SamplerNode(names) == IF names = {} THEN [type |-> "trace_id_ratio_based"]
                      ELSE SamplerNodes[CHOOSE n \in names : TRUE]

PlainSampler(type, names) ==
    IF type = "trace_id_ratio_based" THEN {SamplerOf(type, r, None) : r \in Ratio(names)}
    ELSE IF type \in Always THEN {SamplerOf(type, 100, None)} ELSE {}

ParentSampler(node, names) ==
    {SamplerOf("parent_based", s.ratio, g) :
        s \in PlainSampler(String(node, "delegate", "always_on"), names), g \in Delegated(node)}

CompositeSampler(part, names) ==
    {SamplerOf("composite", r, part) :
        r \in IF part \in Always THEN {100}
              ELSE IF part \in {"probability", "parent_threshold"} THEN Ratio(names) ELSE {}}

Sampler(names) ==
    LET node == SamplerNode(names)
    IN IF ~(names \subseteq DOMAIN SamplerNodes /\ "type" \in DOMAIN node) THEN {}
       ELSE IF node.type = "parent_based" THEN ParentSampler(node, names)
       ELSE IF node.type = "composite" THEN CompositeSampler(String(node, "composable", "probability"), names)
       ELSE PlainSampler(node.type, names)

Keys(c) == DOMAIN c.environment \cup {c.resources[i][1] : i \in DOMAIN c.resources}
LastOf(c, k) == CHOOSE i \in DOMAIN c.resources : c.resources[i][1] = k /\
                  \A j \in DOMAIN c.resources : c.resources[j][1] = k => j <= i

\* The attributes of the environment first, then those of the document over them.
Resource(c) ==
    IF c.resources = None THEN {}           \* "resources" is no sequence of maps
    ELSE {[k \in Keys(c) |-> IF \E i \in DOMAIN c.resources : c.resources[i][1] = k
                             THEN c.resources[LastOf(c, k)][2] ELSE c.environment[k]]}

---------------------------------------------------------------------------
(* One start.  An exporter is <<the start that made it, its pipeline>>. *)

BuildInit ==
    /\ cfg = None /\ step = "idle" /\ build = 0
    /\ exporter = {} /\ unit = {} /\ made = <<>> /\ tracked = <<>> /\ sampler = {}
    /\ alive = {} /\ provider = None /\ listed = <<>>

Owned(units) == {units[i].exporter : i \in DOMAIN units} \ {None}

\* What the destructors of the local variables destroy when the start returns.
Locals == exporter \cup {u.exporter : u \in unit} \cup Owned(made)

Return == /\ step' = "idle" /\ cfg' = None
          /\ exporter' = {} /\ unit' = {} /\ made' = <<>> /\ tracked' = <<>> /\ sampler' = {}

\* An error of the document, or an allocation that fails.
Fail == /\ step # "idle"
        /\ Return
        /\ alive' = alive \ Locals
        /\ UNCHANGED <<build, provider, listed>>

\* An instance belongs to one context and one build, so its signal and the build stay.
BeginBuild ==
    \E c \in Configs :
        /\ step = "idle" /\ build < MaxBuilds
        /\ provider # None => /\ c.signal = provider.cfg.signal
                              /\ c.multiple = provider.cfg.multiple
        /\ cfg' = c /\ build' = build + 1 /\ step' = "sampler"
        /\ UNCHANGED <<exporter, unit, made, tracked, sampler, alive, provider, listed>>

\* Only a tracer has one.  A delegate that cannot be allocated fails the start.
CreateSampler ==
    /\ step = "sampler"
    /\ IF cfg.signal = "traces" THEN \E s \in Sampler(Scalar(cfg.sampler)) : sampler' = {s}
       ELSE UNCHANGED sampler
    /\ step' = "exporter"
    /\ UNCHANGED <<cfg, build, exporter, unit, made, tracked, alive, provider, listed>>

Pipeline == Len(made) + 1

CreateExporter ==
    /\ step = "exporter" /\ Pipeline <= Count(cfg)
    /\ Exporters(cfg, Pipeline) # {}
    /\ exporter' = {<<build, Pipeline>>} /\ alive' = alive \cup exporter'
    /\ step' = "unit"
    /\ UNCHANGED <<cfg, build, unit, made, tracked, sampler, provider, listed>>

Unit(u) == [conf |-> u, exporter |-> <<build, Pipeline>>, of |-> Exporters(cfg, Pipeline)]

\* The counting exporter takes the exporter over before what is to own it exists: when a
\* later allocation fails, the exporter goes with it.
Wrap ==
    /\ step = "unit"
    /\ \E u \in Units(cfg, Pipeline) : unit' = {Unit(u)}
    /\ exporter' = {}
    /\ step' = "wrapped"
    /\ UNCHANGED <<cfg, build, made, tracked, sampler, alive, provider, listed>>

CreateUnit ==
    /\ step = "wrapped"
    /\ \E u \in Units(cfg, Pipeline) : unit' = {Unit(u)}
    /\ step' = "push"
    /\ UNCHANGED <<cfg, build, exporter, made, tracked, sampler, alive, provider, listed>>

\* The exporter is tracked only once the processor owns it.
Push == /\ step = "push"
        /\ \E u \in unit : made' = Append(made, u) /\ tracked' = Append(tracked, u.exporter)
        /\ unit' = {} /\ step' = "exporter"
        /\ UNCHANGED <<cfg, build, exporter, sampler, alive, provider, listed>>

\* A logger refuses an empty list, and so does a tracer that hands over one processor.
EmptyAllowed(c) == c.signal = "metrics" \/ (c.signal = "traces" /\ c.multiple)

\* Readers are added one by one, so only processors depend on the build.
Handed == IF cfg.multiple \/ cfg.signal = "metrics" THEN made ELSE SubSeq(made, 1, 1)

\* Faulty variant: the list is not cut to what the provider was handed.
InstallWhole ==
    /\ step = "exporter" /\ Len(made) = Count(cfg)
    /\ made = <<>> => EmptyAllowed(cfg)
    /\ \E r \in Resource(cfg) :
           provider' = [cfg |-> cfg, units |-> Handed, sampler |-> sampler, resource |-> r]
    /\ listed' = tracked
    /\ alive' = alive \ (Owned(IF provider = None THEN <<>> ELSE provider.units)
                           \cup (Locals \ Owned(Handed)))
    /\ Return
    /\ UNCHANGED build

\* The provider takes over what it is handed; the local vector releases the rest, and the
\* provider it replaces goes with its own.
Install ==
    /\ step = "exporter" /\ Len(made) = Count(cfg)
    /\ made = <<>> => EmptyAllowed(cfg)
    /\ \E r \in Resource(cfg) :
           provider' = [cfg |-> cfg, units |-> Handed, sampler |-> sampler, resource |-> r]
    /\ listed' = SubSeq(tracked, 1, Len(Handed))
    /\ alive' = alive \ (Owned(IF provider = None THEN <<>> ELSE provider.units)
                           \cup (Locals \ Owned(Handed)))
    /\ Return
    /\ UNCHANGED build

BuildNext == \/ Fail \/ BeginBuild \/ CreateSampler \/ CreateExporter
             \/ Wrap \/ CreateUnit \/ Push \/ Install

BuildSpec == BuildInit /\ [][BuildNext]_buildVars

---------------------------------------------------------------------------
BuildTypeOK ==
    /\ cfg \in Configs \cup {None} /\ build \in 0 .. MaxBuilds
    /\ step \in {"idle", "sampler", "exporter", "unit", "wrapped", "push"}
    /\ (step = "idle") = (cfg = None)
    /\ Cardinality(exporter) <= 1 /\ Cardinality(unit) <= 1 /\ Len(tracked) = Len(made)
    /\ provider # None => provider.cfg \in Configs
    /\ \A e \in alive : e[1] \in 1 .. MaxBuilds

Units0(p) == IF p = None THEN <<>> ELSE p.units

\* However a start fails, every exporter alive has one owner that will destroy it: a local
\* of the start under way or a unit of the provider installed (processor.cpp:722-737).
ExportersOwned ==
    /\ alive = Locals \cup Owned(Units0(provider))
    /\ exporter \cap Owned(made) = {} /\ Locals \cap Owned(Units0(provider)) = {}
    /\ Cardinality(Owned(Units0(provider))) = Len(Units0(provider))

\* The exporters that a later start or destroy shuts down by raw pointer are those the
\* provider owns, in builds that hand over one processor too (logger.cpp:945-956).
ListedAreInstalled == listed = [i \in DOMAIN Units0(provider) |-> Units0(provider)[i].exporter]

\* The exporters, from the local variables of a start to the provider and the vector.
BuildInv == BuildTypeOK /\ ExportersOwned /\ ListedAreInstalled

EntryAt(key, i) == IF key.names = <<>> THEN "" ELSE key.names[IF i < Len(key.names) THEN i ELSE Len(key.names)]

\* An installed pipeline is what the notation of the two keys says (README:1539-1553):
\* the i-th of one list with the i-th of the other, whose last entry is used again; no
\* pipeline of a processor list with a scalar exporter or the other way round; a scalar
\* reader for all.  (A tracer given an empty list has no pipeline whatever the exporters are.)
EveryPipelinePaired ==
    provider # None =>
        LET c == provider.cfg IN
        /\ c.signal # "metrics" /\ provider.units # <<>> => c.exporters.list = c.units.list
        /\ \A i \in DOMAIN provider.units :
               /\ provider.units[i].of = {EntryAt(c.exporters, i)}
               /\ provider.units[i].conf.name = IF ~c.exporters.list /\ c.units.list THEN ""
                                                ELSE EntryAt(c.units, i)

\* A queue holds a batch, and a reader's export ends before the next, whichever of the two
\* options the document leaves at its default (processor.cpp:708, provider.cpp:164).
QueueHoldsBatch ==
    \A i \in DOMAIN Units0(provider) :
        LET u == Units0(provider)[i].conf IN u.type # "single" => u.size >= u.part

\* A delegate the document names is the one installed, the others keep the SDK's default,
\* and a start with a delegate that does not exist installs nothing (sampler.cpp:133-173).
DelegatesAsNamed ==
    provider # None => \A s \in provider.sampler : s.type = "parent_based" =>
        \A d \in DOMAIN Delegates, n \in Scalar(provider.cfg.sampler) :
            s.delegates[d] = String(SamplerNodes[n], d, Delegates[d])

\* An attribute of the document wins over the environment, the last of several with one key
\* wins, and an attribute of the environment alone is kept (resource.cpp:148-169).
DocumentOverrides ==
    provider # None => LET c == provider.cfg IN
        /\ \A i \in DOMAIN c.resources :
               (\A j \in i + 1 .. Len(c.resources) : c.resources[j][1] # c.resources[i][1]) =>
                   provider.resource[c.resources[i][1]] = c.resources[i][2]
        /\ \A k \in DOMAIN c.environment :
               k \in DOMAIN provider.resource /\
               ((\A i \in DOMAIN c.resources : c.resources[i][1] # k) =>
                   provider.resource[k] = c.environment[k])

\* Whatever the starts were given, what is installed is what the document says.
InstalledAsWritten == /\ EveryPipelinePaired /\ QueueHoldsBatch
                      /\ DelegatesAsNamed /\ DocumentOverrides

---------------------------------------------------------------------------
(* The inductive strengthening the proofs use. *)

UnitRecords == [conf : UNION {UNION {Units(c, i) : i \in 1 .. Count(c)} : c \in Configs},
                exporter : Nat \X Nat, of : SUBSET DOMAIN ExporterNodes]

\* The samplers that an entry gives an instance.
SamplersOf(c) == IF c.signal = "traces" THEN {{s} : s \in Sampler(Scalar(c.sampler))} ELSE {{}}

Providers == [cfg : Configs, units : Seq(UnitRecords), sampler : UNION {SamplersOf(c) : c \in Configs},
              resource : UNION {Resource(c) : c \in Configs}]

\* None is none of the values it stands beside.
ASSUME NoneAssumption == None \notin Configs \cup Providers \cup Nat \X Nat

BuildShape == /\ made \in Seq(UnitRecords) /\ tracked \in Seq(Nat \X Nat) /\ listed \in Seq(Nat \X Nat)
              /\ provider \in {None} \cup Providers

\* The pipelines of start b, as entry c has them: each with an exporter, a unit of its own.
InOrder(units, c, b) ==
    /\ Len(units) <= Count(c)
    /\ \A i \in DOMAIN units : /\ units[i].exporter = <<b, i>> /\ units[i].conf \in Units(c, i)
                                /\ units[i].of = Exporters(c, i) /\ units[i].of # {}

\* The local variables of a start, by where it is.
LocalsByStep ==
    /\ exporter = IF step = "unit" THEN {<<build, Pipeline>>} ELSE {}
    /\ IF step \in {"wrapped", "push"} THEN \E u \in Units(cfg, Pipeline) : unit = {Unit(u)} ELSE unit = {}
    /\ step \in {"unit", "wrapped", "push"} => Pipeline <= Count(cfg) /\ Exporters(cfg, Pipeline) # {}
    /\ step \in {"idle", "sampler"} => made = <<>> /\ sampler = {}
    /\ step # "idle" => build >= 1 /\ InOrder(made, cfg, build)
    /\ step \notin {"idle", "sampler"} => sampler \in SamplersOf(cfg)
    /\ \A i \in DOMAIN made : tracked[i] = made[i].exporter

\* What is installed is what an earlier start made of its entry.
ProviderFromStart ==
    provider # None =>
        /\ \E b \in 1 .. build : (step # "idle" => b < build) /\ InOrder(provider.units, provider.cfg, b)
        /\ provider.sampler \in SamplersOf(provider.cfg) /\ provider.resource \in Resource(provider.cfg)

\* Where the start is, what its locals hold and whose the exporters are: inductive.
StartCore ==
    /\ cfg \in Configs \cup {None} /\ build \in 0 .. MaxBuilds
    /\ step \in {"idle", "sampler", "exporter", "unit", "wrapped", "push"}
    /\ step = "idle" <=> cfg = None
    /\ BuildShape /\ Len(tracked) = Len(made) /\ LocalsByStep /\ ProviderFromStart
    /\ alive = Locals \cup Owned(Units0(provider)) /\ ListedAreInstalled
=============================================================================
