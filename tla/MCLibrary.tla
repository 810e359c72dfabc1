----------------------------- MODULE MCLibrary -----------------------------
(***************************************************************************)
(* The library's contexts, the build of a pipeline and the logger's        *)
(* filter.  They share no variable, so a behaviour drives one of them.     *)
(***************************************************************************)
EXTENDS PipelineBuild, Logger, Library, TLC

VARIABLE part

AllVars == <<part, buildVars, loggerVars, libraryVars>>

AllInit == /\ BuildInit /\ LoggerInit /\ LibraryInit
           /\ part \in {"build", "logger", "library"}
AllNext == \/ part = "build" /\ BuildNext /\ UNCHANGED <<part, loggerVars, libraryVars>>
           \/ part = "logger" /\ LoggerNext /\ UNCHANGED <<part, buildVars, libraryVars>>
           \/ part = "library" /\ LibraryNext /\ UNCHANGED <<part, buildVars, loggerVars>>
AllSpec == AllInit /\ [][AllNext]_AllVars

Symmetry == Permutations(Ctxs) \cup Permutations(Callers)

L(names) == [list |-> TRUE, names |-> names]
S(name)  == [list |-> FALSE, names |-> <<name>>]
NoName   == [list |-> FALSE, names |-> <<>>]

MCExporterNodes ==
    [file |-> [type |-> "ostream", filename |-> "log"], web |-> [type |-> "otlp_http", timeout |-> 60],
     zip |-> [type |-> "zipkin", format |-> "json"], worse |-> [type |-> "otlp_grpc", timeout |-> 61]]
MCProcessorNodes ==
    [batch |-> [type |-> "batch", max_queue_size |-> 64, max_export_batch_size |-> 64],
     small |-> [type |-> "batch", max_queue_size |-> 256],
     large |-> [type |-> "batch", max_export_batch_size |-> 65537], one |-> [type |-> "single"]]
MCReaderNodes ==
    [fast |-> [export_interval |-> 1000, export_timeout |-> 999], slow |-> [export_timeout |-> 60000]]
MCSamplerNodes ==
    [half   |-> [type |-> "trace_id_ratio_based", ratio |-> 50], empty |-> [type |-> "trace_id_ratio_based"],
     parent |-> [type |-> "parent_based", delegate |-> "always_off", remote_sampled |-> "always_off",
                 remote_not_sampled |-> "always_on", local_sampled |-> "always_on", local_not_sampled |-> "always_off"],
     wrong  |-> [type |-> "parent_based", remote_sampled |-> "always", remote_not_sampled |-> "always_on",
                 local_sampled |-> "always_on", local_not_sampled |-> "always_off"],
     mixed  |-> [type |-> "composite", composable |-> "parent_threshold", ratio |-> 10]]

Entry(signal, multiple, exporters, units, by) ==
    [signal |-> signal, multiple |-> multiple, exporters |-> exporters, units |-> units, sampler |-> by,
     environment |-> [host |-> "h0", env |-> "e"],
     resources   |-> <<<<"host", "h1">>, <<"name", "n">>, <<"host", "h2">>>>]
Bare(entry) == [entry EXCEPT !.resources = <<>>]

MCConfigs ==
    {Entry(s, m, e, u, NoName) : s \in {"traces", "logs"}, m \in BOOLEAN,
        e \in {L(<<"file", "web">>), L(<<"web">>), S("file"), L(<<>>)},
        u \in {L(<<"batch", "one", "batch">>), L(<<"small">>), L(<<"large", "one">>), S("one"), L(<<>>)}}
    \cup {Entry("metrics", m, e, u, NoName) : m \in BOOLEAN,
              e \in {L(<<"file", "web", "file">>), S("web"), L(<<"zip">>), NoName},
              u \in {L(<<"fast", "none">>), L(<<"slow">>), S("fast"), NoName}}
    \cup {Bare(Entry("traces", TRUE, S("zip"), S("batch"), x)) : x \in {S("half"), S("empty"), S("parent"),
                                                                    S("wrong"), S("mixed"), S("unknown")}}
    \cup {[Entry("logs", TRUE, S("worse"), S("one"), NoName) EXCEPT !.resources = None],
          [Entry("logs", TRUE, S("file"), S("one"), NoName) EXCEPT !.resources = None]}

Doc(n, traces, logs) == [ok |-> TRUE, shards |-> n, sections |-> [traces |-> traces, logs |-> logs]]
MCDocs == {Doc(Nil, {"app", "default"}, {"default", "scope_name"}), Doc(1, {"default"}, {"other"}),
           Doc(2, {"scope_name", "app"}, Nil), Doc(3, {"default"}, {"default"}),
           [Doc(1, {}, {}) EXCEPT !.ok = FALSE]}
MCAttributes == {<<>>, <<"vector", "string">>, <<"bool", "vector", "number">>,
                 <<"vector", "vector", "string", "bool">>}
=============================================================================
