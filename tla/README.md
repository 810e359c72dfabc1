# Specification of the OpenTelemetry C wrapper

TLA+ modules, TLC runs and TLAPS proofs for the concurrent and failure-prone parts of
the OpenTelemetry C wrapper, the C API over the OpenTelemetry C++ SDK.  Paths below are
relative to the repository; line numbers refer to the commit modelled.

## 1. The system

The library hands C callers structures with an operations table and keeps the C++
objects behind them.  Its components, the state each keeps and what makes it correct:

| component | state | operations | correct when |
|---|---|---|---|
| span and context handle maps (`src/tracer.cpp`, `src/span.cpp`, `include/util.h`, `include/span.h`) | two process-wide sharded maps index -> object, the tracer count and its mutex, an id generator and an id base per map | tracer create/destroy, start span, extract or build a context, use, end, destroy | a handle finds its own object or nothing; every started span is ended exactly once; the maps live as long as anybody may use them |
| `otel_shared_mutex` (`include/util.h`) | a `std::shared_mutex` and a count of registered writers | lock, unlock, shared lock and unlock | exclusion; a writer is overtaken by no later reader; nobody is stuck |
| counting processors and exporters (`src/processor.cpp`) | produced, consumed, dropped, record and call totals, the newest processor | OnEnd/OnEmit, Export, Shutdown, the status readers | figures stay near the truth, never wrap around |
| signal pipelines (`src/tracer.cpp`, `src/meter.cpp`, `src/logger.cpp`, `src/exporter.cpp`, `src/provider.cpp`) | per instance: provider, processors, exporters, files, flush budget | start, repeated start, flush, destroy | a failed start leaves the previous pipeline intact; a restart never mixes two pipelines in a file |
| meter instruments and views (`src/meter.cpp`) | per meter: two maps, a name index, a creation mutex | create instrument, add view, update, callbacks, start, destroy | one instrument per name and type; map and index agree after any failure |
| span operations (`src/span.cpp`, `src/tracer.cpp`) | the SDK span, the baggage of a handle, the carrier of the caller | name, status, attributes, events, exceptions, links, baggage, inject, extract | an ended span takes nothing more; a list of baggage is taken whole, up to a null value, or not at all, and one of attributes up to its first untyped value; what is answered has happened |
| pipeline construction (`src/exporter.cpp`, `src/processor.cpp`, `src/provider.cpp`, `src/sampler.cpp`, `src/resource.cpp`, `src/yaml.cpp`) | the local pointers of a start | read a name, an option, a list; create, wrap, push, install | one owner per exporter at every failure; what is installed is what the document says |
| logger (`src/logger.cpp`) | enabled flag, minimum severity in the SDK and in the instance | log, enabled, set severity, start, destroy | an answer is explained by a moment of the call; a record is whole or absent; a restart keeps the severity |
| configuration and library life (`src/util.cpp`, `src/yaml.cpp`) | contexts, their documents and name states, shard count, callbacks | init, validate, create against a context, close, deinit, shutdown, handlers | what is told of a document beforehand holds; the first key stays; nothing leaks and no callback stays |
| text maps, values, key-values, strings (`src/util.cpp`, `src/span.cpp`) | arrays with counts and ownership flags | add, grow, destroy, convert, copy a header | one owner per block after a partial failure; a number is one its type holds; a header that is cut off is told |
| debug allocator (`src/dbg_malloc.cpp`) | table of records and totals, a header per block | malloc, strdup, realloc, free, init, disable, info | a header leads to its own record; totals match the table; a double free is reported |
| threads, version (`src/threads.cpp`, `src/version.cpp`) | none | calls into pthreads, constants | not modelled, see section 8 |

How they interact.  A tracer, meter or logger reads the configuration and builds a
pipeline; a batch pipeline is wrapped in the counting layer.  Tracers share the handle
maps: the first creates them, the last tears them down, all under one mutex.  Span
operations go from the C structure through a shard of the map to the SDK span; ending
the span hands it to the processor, and the SDK's worker thread hands batches to the
exporter.  Meter operations go through a map guarded by `otel_shared_mutex`; observable
callbacks come back from the SDK's reader thread into the caller's code.

What is hard here: the look at a map pointer before the lock that protects its contents;
creation of a tracer against the teardown by the last one; handles that outlive their
map; every allocation that may fail half-way through a creation; a reader-preferring
lock turned into a writer-preferring one; two looks at a map with a creation in between;
callbacks on the reader's thread; thresholds and name states that live twice; counters read and updated one by one while
others move them; the order of flush, open, truncate and install in a restart.
`PROJECT.json` lists these hazards at their lines with the properties that cover them.

## 2. Modules

| module | what it is |
|---|---|
| `SpanHandles` | the handle maps, the tracer count and everything that enters and leaves them |
| `SpanRegistry` | abstract: objects enter a registry while it has users, leave it once, and all leave with the last user |
| `SpanHandles_proofs` | theorems about `SpanHandles`, among them that it implements `SpanRegistry` |
| `SharedMutex`, `SharedMutex_proofs` | `otel_shared_mutex` over the lock it wraps, and its theorems |
| `BatchCounters` | the counting layer of one batch pipeline |
| `CountingInstance` | the pointer the status call follows to a counting processor |
| `Counting_proofs` | theorems about these two |
| `SignalPipeline`, `SignalPipeline_proofs` | start, repeated start, shutdown and destroy of a tracer's pipeline, and its theorems |
| `MeterRegistry` | instruments, views and callbacks of a meter with its locks, its readers and its restarts |
| `MeterRegistry_proofs` | theorems about `MeterRegistry`, among them that it implements `IdRegistry` twice |
| `IdRegistry` | abstract: a new name takes the next identifier, and nothing is given back before the end |
| `SpanData`, `SpanData_proofs` | what the operations of a span write and read, and the carrier between two processes, and theorems |
| `PipelineBuild` | how a start of any of the three signals builds its pipeline from the document |
| `Logger` | the filter of log calls against setters and restarts |
| `Library` | contexts, the entries that serve them, and the process-wide settings |
| `Library_proofs` | theorems about these three |
| `Containers` | the C containers with every allocation failing or not |
| `DbgMalloc` | the debugging allocator between the threads and the C heap |
| `Heap_proofs` | theorems about these two |
| `MCSpanHandles`, `MCSharedMutex`, `MCSignalPipeline`, `MCMeterRegistry`, `MCSpanData` | instances for TLC of one module each |
| `MCCounting` | `BatchCounters` and `CountingInstance` side by side |
| `MCHeap` | `Containers` and `DbgMalloc` side by side |
| `MCLibrary` | `PipelineBuild`, `Logger` and `Library` side by side |

Modules that stand side by side share no variable in the code either: an added variable
`part` says which of them a behaviour drives, since interleaving independent state machines
would multiply their states and add no behaviour.  What connects them is stated in each:
`SignalPipeline` takes a build as one step that succeeds or changes nothing, which is what
`BuildInv` says of `PipelineBuild`; `MeterRegistry` takes the lock `SharedMutex` promises;
`SpanData` takes the handle maps of `SpanHandles`; `Logger` takes a start as one step.

Definitions whose comment says "faulty variant" are not part of a specification.  Each
is what a plausible mistake would make of the definition that follows it, and shows
which property would notice.

### SpanHandles

| in the module | in the code |
|---|---|
| `countLock`, `count` | `otel_tracer_count_mutex`, `otel_tracer_count` |
| `map`, `slots`, `nextId`, `base` | `otel_span`, `otel_span_context`: null or a generation, the union of the shards' maps, the `id` member, `otel_span_id_base` |
| `hstate`, `idx`, `owner` | the C structure: never made, being built, in the caller's hands, freed; its index and tracer |
| `sdk` | the SDK span: none, recording, ended |
| `call` | per thread: the API call it is in, where, with what, and the map pointer it saw |
| `Create` ... `Resolve` | `otelc_tracer_create`: register, allocate the two maps, resolve the YAML prefix |
| `Destroy`, `Unregister`, `ClearContexts`, `ClearSpans` | `otel_tracer_destroy`, `otel_tracer_unregister`; also every failing create |
| `StartSpan`, `ExtractContext`, `CreateContext`, `NewHandle`, `StartSdkSpan`, `WrapContext`, `Emplace`, `Undo` | `start_span`, `extract_*`, `otelc_span_context_create` and their failure paths |
| `Release`, `FinishRelease` | `end`, `end_with_options`, `destroy` of spans, `destroy` of contexts |
| `Read`, `FinishRead` | every other operation on a handle |

The unlocked look at a map pointer is a step of its own, and everything one thread does
under a shard lock is another.  The three ways to release a span are one action: `end`
and `end_with_options` end the SDK span before the nolock function deletes the handle,
and `destroy` ends it by deleting the last reference, so the outcome is the same.

Callers keep the rules the documentation gives them, and the guards state them: calls on
a tracer and on its spans have returned before the tracer is destroyed, and calls on
anything have returned before the last one is (`Drained`); a leftover supports only its
release (`Read` needs a tracer that is up).  `LeftoversAlone` is one rule more: leftovers are
not released while a tracer is being created.  It is a constant because the documentation does
not ask for it; section 5 shows what happens without it.

Left out: statistics (`peak_size`, `erase_cnt`, ...), the sharding itself (the shards
are disjoint by index, so one function stands for them), parents and links of a new span,
the `enabled` flag, error messages, the thread-local and the static handle builds.

### SharedMutex

`pending` is `writers_pending_`; `excl` and `shared` are the wrapped lock, which is
modelled as glibc implements it, letting readers in whenever no writer holds it.  Each
atomic operation and each acquisition is a step.  `ahead` is a history variable: the
readers that were in flight when a writer registered.

### BatchCounters

`produced`, `consumed`, `dropped`, `recordsOk` and `recordsFail` are the atomic members;
`pc`, `prod` and `cons` are a thread inside `OnEnd` with its two loads.  The SDK side is
external: a buffer of `MaxQueue` spans, a worker that moves up to `MaxBatch` out and then calls
`Export`, and `Shutdown`.  `refused` and `ignored` are history: what the SDK really did
with the spans.  The loads and additions are relaxed atomics; the model interleaves
them.  Call counters and export times move together with the record totals and are left
out, and the log processor is the same code over log records.

### CountingInstance

`instance` and `mutex` are `instance_` and `instance_mutex_`; `life` follows a processor
from its constructor to its memory, `this` is the processor a thread is at work on, and
`latest` is history.  The body of a destructor (`Deregister`) and the destruction of the
members after it (`FreeMembers`) are separate steps, because the batch processor among the
members drains before it goes and a reader may come at any point.  `Load` and `Read` are
the two ends of the critical section of `queue_depth` and `queue_capacity`.  A constructor
that fails allocates nothing and is left out.  A destructor that finds its own address clears
the pointer even when an older processor is still in use; the status then reports none, and
`LatestStaysRegistered` claims nothing for that case.

### SignalPipeline

| in the module | in the code |
|---|---|
| `gen`, `tracked` | `impl->provider` and `impl->exporters`: the number of the start that built what they hold, 0 for none |
| `flushTimeout` | `tracer->flush_timeout` |
| `op`, `pc`, `at`, `spent` | the call in progress, its next step, the exporter a loop has reached, and the milliseconds its flush has taken |
| `queue`, `batch`, `closed` | external: per SDK processor, what is queued, what its worker is exporting, and whether it was shut down |
| `shut`, `file` | the exporters that were shut down, and the records in each file |
| `origin`, `out`, `lost`, `unflushed` | history: where a span was recorded, what was written, what a shut-down exporter refused, and which processors were not drained by the last flush |
| `Start`, `Flush`, `Build`, `Open`, `Shutdown`, `Truncate`, `Release`, `Install` | `otel_tracer_start`, in its order |
| `Destroy`, `Flush`, `Shutdown`, `Release`, `Delete` | `otel_tracer_destroy`, in its order |
| `ShutdownProvider`, `Release` | `otel_tracer_shutdown` without a timeout |
| `EndSpan`, `TakeBatch`, `Export` | a span ends; the worker of a processor takes and exports a batch |

Every loop over exporters is a step per exporter, and the workers run between any two.
Assigning the new provider releases the previous one (`Release`, then `Install`): the SDK
shuts its processors down, each drains without a limit, and only then is the new one in
place.  Callers keep the documented contract: no operation on the tracer overlaps a start
or a destroy, and its spans have ended.  All of building (exporters, processors, sampler,
provider, SDK tracer, propagator) is one step that succeeds or gives everything up, since it
touches nothing that is installed; its reading of the configuration is part of `Start`
because it stores the flush timeout.  Every processor is a batch processor; a single
processor exports at once and has nothing to flush or drain.
`force_flush` changes no state of the library, and a `shutdown` with a timeout that expires is left out.

What the SDK does is taken from what the code says of it: the flush gives every processor
the same share, takes zero for no limit, and reports nothing of a timeout (comment at
`src/tracer.cpp:1445`); an exporter that was shut down refuses a batch at once (`1455`).

### MeterRegistry

| in the module | in the code |
|---|---|
| `instrument`, `index`, `view`, `nextId` | the instrument map, `instrument_index`, the view map, the `id` member of each |
| `createLock`, `excl`, `shared`, `registry` | `create_mutex`, the exclusive and the shared holders of each map's lock, and, external, the SDK's callback registry mutex, which a collection holds |
| `installed`, `built`, `known` | the pipeline in `impl->provider`, those built, and the views the installed provider was handed |
| `call` | per thread: the call, where it is, and what it has read |
| `todo`, `running` | the collection under way and the callback it is in |
| `given`, `answers` | history: callbacks their owners know to be registered, identifiers returned |
| `Create` ... `IndexThrows` | `otel_meter_create_instrument`, probe, creation mutex, second look, insertion, first callback, index, roll-back |
| `AddView`, `RecheckView`, `InsertView` | `otel_meter_add_view` |
| `Start`, `Build`, `Install`, `Destroy` | `otel_meter_start` with the registration of the views, `otel_meter_destroy` |
| `CollectBegin` ... `CollectEnd` | a reader's collection, and a callback within it |

The synchronous instruments differ in the SDK call alone, so a counter stands for them.  A
name is a model value with its lower-case fold.  Callbacks must not call the meter: the
documentation rules it out, and the SDK's mutex would block them.

### SpanData

A span is its handle and its SDK span in one record; `exported` is what the processors got
at its end.  Operations that hold their shard throughout are one step.  `AddLink`,
`LockTarget`, `UnlockTarget` and `Link` are the sections of `otel_span_add_link`, and
`GetBaggage` and `Lookup` those of `otel_span_get_baggage_var`, with anything in between.
A carrier holds the span and the baggage of the last inject; its `set` callback runs inside
the step, under the shard.  A value is a kind: text, other text, the empty text, a number,
null, or one of no type.  As an attribute a null value is accepted as the empty text, as in
the code.

What a list with a value it cannot take does depends on the call, and the model follows each:

* attributes (`SetAttributes`) are set one by one up to the first untyped value (`Typed`);
* an event or an exception with one is refused as a whole;
* `set_baggage_kv_var`, `set_baggage_kv_n` and `set_baggage` (`SetBaggage`) refuse the list as a
  whole for any value that is no string or empty, null included;
* `set_baggage_var` (`SetBaggageVar`) refuses it for an empty value, but its loop
  (`src/span.cpp:536`) ends at a null value as it ends at the null key of the terminator: the
  pairs before it (`Pairs`) are stored and counted in the answer.  A null value of the first
  pair is refused.

The last is at odds with the documentation, which forbids a null value without exception
(`src/span.cpp:505-508`, `include/opentelemetry-c-wrapper/span.h:504-508`): a caller who passes
one is told the number of pairs stored, not an error.

### PipelineBuild

`cfg` is the entry a start reads: two keys, each a list or a scalar, a sampler, resource
attributes, and those of the environment.  `exporter`, `unit`, `made` and `tracked` are the
local pointers and vectors of the start functions, `provider` and `listed` what is
installed.  `Fail` may happen at every step and destroys the locals, as their destructors
do.  A reading operation is the set of its results, empty for an error; the option tables
(`OtlpHttp` and the others) are the ranges the code passes to `yaml_get_node`.  `size` and
`part` are the queue and the batch of a processor, and the interval and the timeout of a
reader.

### Logger

`logger.threshold` is the SDK logger's minimum severity and `logger.field` the instance's
`min_severity`.  A call is flag, threshold, attributes one by one, and body; nothing locks.
`seen` and `up` in a call are history, what the threshold and the flag were while it ran;
`strayed` notes that setters overlapped, or that a start failed behind its severity: then
field and threshold differ until the next start, and the comments of the code claim no more.

### Library

`contexts` follows each `otelc_init` step by step; a document is its validity, its
`handle_map_shards` key and, per signal, the nodes of the section.  `Probe` and `Resolve`
are the two walks over it, at init and at create.  `shards` and `applied` are the count and
the first-key flag, which are set in two steps; `keys` is history.  `hooks` are the log handler and
the allocation callbacks.  `heap` holds a block per allocation of a context or instance.
`told` is what the last step answered.  A create is one step; `SpanHandles` has its steps.

### Containers and DbgMalloc

`Containers`: blocks are numbered, an allocation may fail at any point of a call, and each
call is one step because nothing is shared.  `cap` per array and the map's `size` are
apart, since the three arrays grow one after the other.  Numbers are those around the limits
of the types, with small limits for the widths.  `otelc_value_strtonum` reads uint32 and uint64
with `strtoul` and `strtoull` (`src/util.cpp:1424-1434`), for which a minus sign is no error: "-1"
becomes 2^64 - 1 as uint64, "-18446744073709551615" becomes 1 as uint32, and "-1" is refused
as uint32 because the parsed value, not the number written, is compared with the type's limit.
`AsUnsigned` says so, and `WidthsTold` excepts no more than that.

`DbgMalloc`: an address is a base the C library serves; `header` is what stands below the
payload, `data` the table, `tracker` the pointer to it.  The read of that pointer before the
mutex is a step of its own, so it may be disabled in between.  `released`, `corrupted` and
`excused` are history for the double free.

### The other signals' teardown

`otel_logger_start` and `otel_meter_start` follow the same order.  They hand the whole
timeout to one `ForceFlush` and use its result, so `FlushBudget` and `FlagFlushed` are the
tracer's alone.

## 3. Runs

| run | instance | shows |
|---|---|---|
| `spans` | 2 threads, 2 tracers, 2 spans, 1 context | the safety properties of `SpanHandles`, the refinement of `SpanRegistry`, every call returns |
| `spans_leftover` | as above with 1 span, `LeftoversAlone = FALSE` | a violation, see section 5 |
| `shared_mutex` | 3 threads | exclusion, bounded overtaking, no deadlock; a queued writer gets in |
| `counters` | 2 threads, queue 2, batch 2, 6 spans; 3 threads, 3 processors | bounds on depth and drops; no read after free; the newest processor stays registered |
| `counters_drops` | 1 thread, queue 2, batch 1, 6 spans | a violation, see section 5 |
| `pipeline` | 2 file exporters and a remote one, 2 records, 3 starts, timeouts 0, 1 and 5 | all safety properties of `SignalPipeline` but one; every start returns |
| `pipeline_one` | 1 remote exporter, 2 records, 2 starts | the drain of a destroy is bounded; destroy returns |
| `pipeline_stall` | a file and a remote exporter, 1 record, timeout 4 | a violation, see section 5 |
| `meter` | 2 threads, 2 spellings of a name, 2 types, 3 views, 1 callback, 2 starts | registry, callbacks and views of `MeterRegistry`, the refinement of `IdRegistry` by both maps, every call returns |
| `heap` | 2 pairs, 2 items, 8 blocks, 4 calls; 2 threads, 3 blocks, 2 records, 4 operations | ownership and conversions of `Containers`; headers, totals and double frees of `DbgMalloc` |
| `spandata` | 2 threads, 2 spans, 1 context, 2 keys, 5 calls | the properties of `SpanData`, every call returns |
| `library` | 120 entries and 2 builds; 2 callers, 2 severities, 3 calls; 2 contexts, 5 documents, 4 calls | ownership and meaning of a pipeline; answers and severity of a logger; names, settings and memory of the library |

Safety properties of `SpanHandles`.  `LookupFaithful`: an index never finds another
handle's object, even when it was drawn from a map torn down since.  `NoLostSpan`: an SDK
span records exactly while its handle can end it.  `MapsFollowCount`: a tracer in the caller's hands
has both maps, with no tracer neither is left, and (`CountBalanced`) the count is the
number of registered tracers on every failure path.  `GuardedMapSurvives`: from the
unlocked look at a map pointer to the end of the call, that pointer does not change.
`ImplementsRegistry` maps the
present objects to the map contents, the users to the registered tracers, and objects
that left the maps before their handles were released to those dropped.

`WriterWaitsOnlyForEarlierReaders` says that the readers inside while a writer waits
were in flight when it registered.  `DepthBounded` and `DropsTracked` bound what the
status call reports: the depth exceeds the capacity by less than the number of threads;
the drop count misses at most one refusal per other thread, and includes at most a batch and a
span per thread that were not refused.  Both bounds are reached, so neither can be
tightened.

`NoReadAfterFree`: between `Load` and `Read` no thread has begun to take the
processor's members apart.  `LatestStaysRegistered`: the destructor of an older processor, which a
repeated start runs right after registering the new one, does not clear the pointer.

Of a pipeline: the exporters listed are always those of the provider installed
(`TrackedExportersLive`); a file of the pipeline installed never holds records of the
previous one (`FilesHoldOwnRecords`); what was written is still there when a start fails
(`WrittenStays`); records are refused in a replacement or teardown only by an exporter
whose processor no completed flush has drained (`LossNeedsTimeout`); all shares together
stay within the timeout, or a millisecond each (`FlushWithinTimeout`).  `DrainIsBounded`
says that no provider is released onto an exporter that still works and has records left.

Of a meter: everyone who asked for a name and type got the same identifier
(`OneIdPerKey`); map and index agree whenever no insertion is under way, and a thread that
uses an instrument finds it (`RegistryInv`); a callback is called only between the call that
hands it over and the return of the one that takes it back (`CalledOnlyWhileGiven`); a new
provider knows the recorded views and no other (`ProviderKnowsViews`).  `ImplementsIds` maps
the index, and the names of the views, to the abstract identifiers.

Of span operations: `SpanInv` says that an exported record is what the span held at its end,
that a link reported is a link made, that baggage crosses a carrier unmixed, and that every
map allocated for a reader of baggage is returned or released.  `BaggageCutOnlyAtNull` says
that a live span's baggage takes all of a list or all before a null value, each of them a
string and not empty, and nothing of any other list; the lists of the instance have a null,
an empty and an untyped value behind a good one.

Of memory: `ContainersInv` gives every block one owner and keeps counts within the arrays;
`WidthsTold` says that a converted integer is one its type holds, that a signed one is the
number written, and an unsigned one the number written unless it is negative, then its
negation modulo 2^64; and that a header that is cut off is told.  `AllocatorInv` says that
a header leads to its own record or to none, that the totals are those of the records, that
no block is lost between the C library and its owner, and that a second free is reported
unless the tracker was off or the block's record had been taken for another.

Of a pipeline under construction: `BuildInv` gives every live exporter one owner that will
destroy it, and says that the raw pointers kept for later shut-downs are those of the
provider; `InstalledAsWritten` compares the pairing, the options, the delegates of the sampler
and the resource with the document.

Of a logger: `CallsAnswered` says that a threshold or a flag of some moment of the call
explains its answer, and that a record is whole; `SeveritySettles` that the field a restart
reads is the threshold in force.

Of the library: `ForetoldHolds` says that the name state recorded at init, and the answer of
a validation, are what the calls then do; `FirstKeyStays` that the first valid key since
the last shutdown is the count; `LibraryInv` that every block belongs to something a deinit
can be given, that no callback stays after a shutdown, and that a handler sees the attributes
it can hold without a gap.

Each of these invariants is a conjunction of named parts, defined and commented one by one
in its module.

## 4. Bounds and fairness

Every tracer, span and context in `SpanHandles` is used once, which bounds the counters
and the generations; the caller may stop at any time, so a state with nothing left to do
is no deadlock and `CHECK_DEADLOCK` is off there.  Two tracers overlap, or the second builds
the next generation of the maps after the first has gone; two spans allow one to be left over
and one to be drawn from the next map; two threads allow every pair of calls to interleave.
Symmetry is used in the runs that check no liveness property only.

In `BatchCounters`, `MaxSpans` bounds the spans ended and `Wrap` stands for 2^64; the
counters themselves never come near it.  The queue is smaller than the 64 the
configuration allows, which only makes filling it cheaper.  Six spans are enough to fill
the queue, have a batch taken, and fill it again with stale loads; the proofs cover the
rest.

`CountingInstance` creates every processor once; three are enough for one to be the newest,
one older, and one being destroyed, with three threads in three different places.

In `MeterRegistry`, `MaxStarts` bounds the starts; two of them give a provider and the one that
replaces it.  Two threads make the race between probe and insertion, and the names give two spellings
of one key, two types of one name, and two views of one name.  Identifiers are bounded by the keys.

`MaxCalls`, `MaxSteps`, `MaxOps`, `MaxBuilds`, `MaxLogCalls` and `MaxLibraryCalls` bound the
length of a behaviour and are all that does.  Five calls of `SpanData` start two spans,
link or inject one, and end both; four steps of `Containers` create a map, fill it past its
first array and destroy it, and eight blocks are more than they need, so that an allocation fails by
choice and not for lack of blocks; four recorded operations with two records make the table
full and its records reused, and a third block stay without one.  Two builds are a start
and a restart, from entries that have a longer list on either side, an empty list, scalars on
one side or both, an unsupported exporter and an option out of range.  Three log calls are
a setter between two callers.  Four calls of the library are two initialisations that race, a
create or validation, and a release.  `IntMax` and `LongMax` stand for the limits of the
types; what matters is that a long holds every unsigned int.

In `SignalPipeline`, `MaxStarts` bounds the starts, and with them the pipelines, and
`Records` the spans.  Three starts give a pipeline, one that replaces it, and one that
fails; two records give one written and one still in a batch.  The timeouts are no flush
(0), a timeout below the number of exporters, where the share needs its floor (1), and one
that does not divide evenly (5); in
`pipeline_one` the configuration gives the timeout and the caller takes it away.  A caller may leave a tracer alone for ever, so
`CHECK_DEADLOCK` is off here and in the other runs, where the caller may stop or the bound on
the calls be reached.

`FairSpec` of `SignalPipeline` is weak fairness of the calling thread inside a call, of
each worker taking a batch, and of exporting it to a file or with an exporter that was shut
down.  Nothing is assumed of the export of a working remote exporter: it may never return.
Calls of the caller are not fair.

`FairSpec` of `MeterRegistry` and `SpanData` is strong fairness of a thread inside a call, not
of starting one: a mutex that is free again and again is granted, by the C library's promise for
the plain mutexes and by `WritersProgress` for the map locks.  A collection, and a callback
of the caller within it, ends.

`FairSpec` of `SpanHandles` is weak fairness of a thread inside a call, not of starting
one.  Weak fairness is enough because every mutex is held for a bounded number of steps
and each tracer is created once, so no thread can be overtaken for ever.  `FairSpec` of
`SharedMutex` lets threads call without end.  It assumes that threads inside a call
proceed, and strong fairness of acquisitions of the wrapped lock on its exclusive path, which
a waiter of a mutex among finitely many contenders gets; no fairness is assumed of
readers starting, and none of the release that the reader-preferring lock could deny a
writer is assumed away.

## 5. What the runs found

* **A leftover released during a create** (`spans_leftover`).  `otel_span_end*`,
  `otel_span_destroy` and the context twin skip the shard lock when the map pointer is
  null, because "The maps are gone: skip the shard lock" (`src/span.cpp:393`).  The nolock
  function they then call reads the pointer again (`src/span.cpp:1515`, `2161`).  If
  another thread's `otelc_tracer_create` has allocated new maps in between, the function
  searches and counts in the new map without the shard lock.
* **Dropped or not** (`counters_drops`).  A span ended after the SDK's worker has taken a
  batch from its buffer and before `Export` has added it to `consumed_` is counted as dropped
  although the SDK accepts it.  `otelc_export_status.dropped` is documented as records
  dropped because the queue was full.  The difference is never made up, but
  `DropsTracked` shows that it does not accumulate either.
* **A stalled exporter taken for flushed** (`pipeline_stall`).  With several processors,
  `otel_tracer_destroy` gives each its share of the timeout and then compares the time
  taken with the whole timeout (`src/tracer.cpp:1451`).  When one processor times out and
  another is done early, less than the timeout has passed; the exporters are not shut
  down, and the release of the provider waits for the stalled one, which the comment at
  `src/tracer.cpp:1401` and the public header rule out.  With one exporter the test is
  right: `pipeline_one` passes, and `SingleDrainIsBounded` proves it.

## 6. Proofs

Every theorem holds for all values of the constants that satisfy the named assumptions,
each in the module that declares the constants and evaluated by TLC on every run of it:

| assumption | asks |
|---|---|
| `HandleAssumption` | spans and contexts are different things, tracers are finitely many |
| `MutexAssumption` | finitely many threads |
| `CounterAssumption` | finitely many producers, at least one; a batch fits the queue, as `otel_tracer_processor_create` requires |
| `InstanceAssumption` | the null pointer is no thread and no processor |
| `PipelineAssumption` | at least one exporter; files, records and the null values are different things; timeouts are natural numbers |
| `MeterAssumption` | folding a name twice is folding it once; requests and views have names; the null value is none of the others |
| `SpanDataAssumption` | lists are sequences of pairs; every handle has a shard; spans and contexts are different things |
| `ConfigsAssumption`, `NoneAssumption` | what an entry of the configuration can hold; the null value is no entry and no provider |
| `LoggerAssumption` | at least one severity; the null value is no answer |
| `LibraryAssumption` | a document has its sections; the default count of shards is not among those written; the null values are none of the others |
| `ContainersAssumption` | the bounds are numbers, and a long holds every unsigned int |
| `MallocAssumption` | at least one record; the null pointer is no block |

Two theorems ask for more, as the code does: `GuardedMapsSurvive` for `LeftoversAlone`, which
`spans_leftover` shows to be needed, and `SingleDrainIsBounded` for one exporter, which
`pipeline_stall` shows to be needed.

Each safety property follows from an inductive invariant.  What these add, and why:

* `SpanHandles_proofs`: `HandleInvariant`, `TypeCorrect`, `LookupsFaithful`,
  `NoSpanLost`.  `LookupFaithful` alone is not inductive.  `HandleInv` adds that every index
  lies behind the generator of the present or the next map and was drawn once
  (`IndexesDrawnOnce`), that a map entry sits under its owner's index and its owner is
  held (`SlotsOwned`), and what a call in progress says of its handle (`CallShape`,
  `CallHandles`).  `MapInvariant`, `MapsFollowTheCount`, `GuardedMapsSurvive`: the maps follow
  the count only because the count mutex is held from counting a tracer to its maps and
  through a teardown (`LockMatchesCalls`), and what a half-done create or teardown leaves
  is said for each point of it (`MapsUnderway`).  A call that looked at a map pointer keeps a
  tracer up (`CallsHaveTracer`), so no teardown comes between.  `MapsImplementRegistry`: every
  step of the maps is a step of `SpanRegistry` or a stutter.  An object enters while a tracer is
  registered because the call that inserts it has one up, and a torn-down map drops its objects
  together, with no tracer registered.
* `SharedMutex_proofs`: `MutexInvariant`, `TypeCorrect`, `MutualExclusion`,
  `BoundedWait`.  The counter is the cardinality of the set of registered writers, so it
  is positive while one waits and no reader passes the check.
* `Counting_proofs`, for runs of any length: `CounterInvariant`, `TypeCorrect`,
  `DepthStaysBounded`, `DropsStayTracked`.  Every span counted went somewhere
  (`SpansBalance`); at any value c that `consumed` has or will have, once the queue looks
  full each thread that loaded an older `produced` adds at most one more (`Overshoot`); a thread
  decides to drop only when buffer, batch and the spans about to be handed over fill the
  queue between them (`FalseDropsBounded`).  `InstanceInvariant`, `NoReadAfterFreeEver`,
  `LatestStays`: `InstanceInv` adds that a processor has one owner inside its constructor or
  destructor (`OneOwner`), that the pointer is null or leads to a processor nobody is past
  deregistering (`PointerValid`), and that it never leads back to an older one
  (`PointerLatest`).
* `SignalPipeline_proofs`: `PipelineInvariant` with `ExportersStayLive`, `FilesHoldOwn`,
  `WrittenRecordsStay`, `LossOnlyOnTimeout`; `BudgetInvariant` with
  `FlushStaysWithinTimeout` and, assuming `N = 1`, `SingleDrainIsBounded`.  The safety of the files
  needs that all previous exporters are shut down before the first truncation (`AllShut`)
  and that nothing is written from then to the installation (`FilesEmptied`), which in turn
  needs that everything pending belongs to the pipeline installed (`PendingOwn`).  That
  losses need a timeout rests on `FlushedOrNoted`: behind the flush, a processor is drained
  or noted, and no span ends until the call returns.  The budget needs the linear bound
  `SharesAddUp` on the shares spent so far.
* `MeterRegistry_proofs`: `MeterInvariant`, `RegistryConsistent`, `OneIdForEachKey`,
  `CallbacksOnlyWhileGiven`, `ProviderKnowsItsViews`.  `MeterInv` says of every point of a call
  which locks it holds (`LocksMatchCalls`), so that between the insertion into the map and
  the one into the index there is at most one instrument, the holder's (`IndexLeads`).  An
  identifier returned is the one in the index (`AnswersIndexed`); a callback collected is
  registered, and one registered is given (`CollectedRegistered`, `CallbacksGiven`); what a
  provider under construction knows is what the map recorded so far (`ViewsKnown`).
  `MeterImplementsIds`, from `InstrumentsAreIds` and `ViewsAreIds`: an insertion into the index,
  or of a view, is the abstract registry's next identifier, because the generator equals the
  number of names (`IdsCount`).
* `SpanData_proofs`: `DataInvariant`, `SpansKeepWhatTheyTook`, `BaggageIsCutOnlyAtNull`.
  `DataInv` adds
  that the threads inside a lookup are finitely many, each with a call that counted
  (`MapsCounted`), that nothing is exported, linked or told of a span before its begin, nor exported
  before its end (`StatesInOrder`), and that a carrier has the baggage of the span injected
  (`CarrierWhole`).
* `Library_proofs`, pipelines: `ExportersHaveOneOwner`, `InstalledIsWritten`.  `StartCore` says what
  the locals hold at each step of a start (`LocalsByStep`), that the exporters alive are exactly those
  of the locals and of the provider, and that a provider was built from its entry by those steps
  (`ProviderFromStart`).  Logger: `LoggerInvariant`, `EveryCallAnswered`, `ThresholdSettles`.
  What an answer rests on was seen by its call (`CallsWitness`, `CallsPassed`), and a setter
  between its two stores is alone or noted (`SettersInTurn`).  Library: `ContextsInvariant`,
  `ForetoldIsDone`, `FirstKeyHolds`, `LibraryHolds`.  The name states of a context are those of its
  document (`StatesRecorded`), what is past a check passed it (`DocumentAccepted`), and between
  the two steps that set the count only one initialisation is (`FirstKeyPending`).  What a log
  handler sees is an invariant by itself, once `FilledUpTo` says what the cells hold after each
  attribute of a message.
* `Heap_proofs`, allocator: `TableInvariant`, `AllocatorHolds`.  `TableInv` adds that a block in a call
  is no one else's (`CallsApart`), that its header names its record until it is released or
  moved (`HeadersFit`, `CallsLeadHome`), that no two blocks name the same record
  (`RecordsApart`), that records never given out are empty (`FreshRecords`), and that a released
  block is still named by a record as long as none was lost (`ReleasedKnown`).
  The total is a recursive sum over the table; `AddsUp` characterises it, and a least
  counterexample (every set of numbers has a least element: sets of numbers are well founded
  by inclusion) shows that it moves by what one record changed.  Containers: `ContainersHold`,
  `WidthsAreTold`.  `ContainersCore` says that the map's blocks, the arrays' blocks, the callers'
  strings and the error message are disjoint, make up all blocks in use and are each held once
  (`Settled`), and that numbers and headers are told (`NumbersTold`, `BufferTold`).  Every
  allocation of a call is followed on its own, as each may fail (`Fit`).

The inductive invariants, and the type invariants they contain, were model-checked before they
were proved and are not repeated in the runs.  Where the proofs needed the model to be
written without the folds of the community modules, which are recursive operators, the definition is
a recursive function or names each of the three arrays.

Model-checked only: everything under fairness (`CallsReturn` of the three modules,
`WritersProgress`, `StartReturns`, `DestroyReturns`), which is out of the prover's reach.  Every
other property of a passing run is a theorem.

## 7. Plan

In this order; each with its own instance, runs and, where marked, theorems.

1. Done: `SpanHandles`, `SpanRegistry`, `SharedMutex`, `BatchCounters`, with theorems.
2. Done: `SignalPipeline` for the tracer and `CountingInstance`, with theorems.
3. Done: `MeterRegistry` with `IdRegistry`, `SpanData`, `PipelineBuild`, `Logger`, `Library`,
   `Containers` and `DbgMalloc`.
4. Done: theorems for every safety property of a passing run, and both refinements.
5. Proofs next: the drain of a destroy bounded for any number of exporters none of which times
   out; shorter proofs of the allocator's and the containers' steps.
6. The logger's and the meter's teardown, where they differ from the tracer's.

## 8. Not modelled

`src/threads.cpp` names threads and sets their affinity; `src/version.cpp` is constants.  The
SDK itself, the YAML parsers, generated and build files, tests and examples are outside the
project; where a module needs the SDK or a C library call, it models how the code uses it.

What callers must do is taken from the documentation and stated in the guards:

* calls on an instance have returned before it is started again or destroyed (`Drained`), and
  contexts, instances and leftover spans are gone before `otelc_ext_init` and
  `otelc_lib_shutdown`.  The documentation lets a leftover span be destroyed later
  (`README.md:719`); it is then freed with the callback in force, which `Library` leaves out;
* an observable callback does not call its meter;
* the debug allocator is set up again only when no block refers to the table; a double free
  that races the release it repeats is left out, as no table could tell the two apart.

Left out within what is modelled:

* a status call reads depth, capacity and counts one by one, so a restart may mix the
  figures of two processors; the documentation promises no snapshot;
* the range checks on the arguments of a view (`src/meter.cpp:369-372`) and the check for `%`
  in a name (`src/util.cpp:2030`), which refuse a call before it touches anything modelled;
* the exception that `otel_tracer_start` catches around the install (`src/tracer.cpp:1366`) is a
  branch of `SignalPipeline`; in `PipelineBuild` the install is a step that succeeds;
* `scope_name`, which a start replaces before it can fail, and which a failed one leaves replaced;
* baggage pairs that the SDK rejects for their name, which are dropped and still counted;
* names longer than the path buffer of `src/yaml.cpp`; the `file_size` option; duplicate
  keys of a document, which are part of its being valid or not;
* with several processors built in, a tracer given an empty list of them installs no
  pipeline whatever its exporters are, which `InstalledAsWritten` allows;
* time stamps, links given at the start of a span, trace state parsing, and every text
  of a message, a log line or a report;
* the logger's and the meter's teardown (the order is the tracer's), getters without
  effect, and the builds with static or thread-local handles.
