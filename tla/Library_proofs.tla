--------------------------- MODULE Library_proofs ---------------------------
(***************************************************************************)
(* Theorems about the parts that MCLibrary composes, each with its own     *)
(* specification: PipelineBuild, for any entries and nodes of a document;  *)
(* Logger, for any callers and severities; Library, for any contexts,      *)
(* documents and shard counts.  StartCore is inductive: it says what each  *)
(* step of a start has in its local variables, and that the provider is    *)
(* one that an entry builds.  LoggerInv is inductive: what an answer of    *)
(* the logger rests on is among what its call saw (Saw).  ContextsInv is   *)
(* inductive: the blocks in the heap are those of the places where the     *)
(* calls of otelc_init() are, and a call that passed a check still has it. *)
(* The cells a log handler gets are filled by a recursion over a message's *)
(* attributes; a least counterexample shows what each step has kept.       *)
(***************************************************************************)
EXTENDS PipelineBuild, Logger, Library, TLAPS, FiniteSetTheorems, WellFoundedInduction

-----------------------------------------------------------------------------
(* PipelineBuild: what an entry gives a start *)

\* A key of an entry.
KeyOK(k) == /\ k.list \in BOOLEAN /\ Len(k.names) \in Nat /\ DOMAIN k.names = 1..Len(k.names)
            /\ \A i \in 1..Len(k.names) : k.names[i] \in STRING
            /\ k.list = FALSE => Len(k.names) <= 1

LEMMA KeysOf == ASSUME ConfigsAssumption, NEW c \in Configs
  PROVE  /\ KeyOK(c.exporters) /\ KeyOK(c.units) /\ KeyOK(c.sampler)
         /\ KeyOK(Lead(c)) /\ KeyOK(Follow(c)) /\ Count(c) \in Nat
<1>1. ASSUME NEW k \in {c.exporters, c.units, c.sampler} PROVE KeyOK(k)
  <2>1. k.list \in BOOLEAN /\ k.names \in Seq(STRING) /\ (~k.list => Len(k.names) <= 1)
    BY <1>1 DEF ConfigsAssumption
  <2> QED
    BY <2>1 DEF KeyOK
<1>2. KeyOK(Lead(c)) /\ KeyOK(Follow(c))
  BY <1>1 DEF Lead, Follow
<1>3. Count(c) \in Nat
  BY <1>2 DEF Count, KeyOK
<1> QED
  BY <1>1, <1>2, <1>3

\* A scalar key names one entry or none; a list reads as absent.
NoScalar(k) == Scalar(k) = {} /\ (k.list = TRUE \/ Len(k.names) = 0)
OneScalar(k) == k.list = FALSE /\ Len(k.names) = 1 /\ k.names[1] \in STRING /\ Scalar(k) = {k.names[1]}

LEMMA ScalarIs == ASSUME NEW k, KeyOK(k) PROVE NoScalar(k) \/ OneScalar(k)
<1> DEFINE at == IF k.list THEN {} ELSE DOMAIN k.names
<1>1. Scalar(k) = {k.names[i] : i \in at}
  BY DEF Scalar
<1>2. k.list = TRUE \/ k.list = FALSE
  BY Zenon DEF KeyOK
<1>3. CASE k.list = TRUE
  <2>1. at = {}
    BY Zenon, <1>3
  <2> HIDE DEF at
  <2>2. Scalar(k) = {}
    BY <1>1, <2>1
  <2> QED
    BY <1>3, <2>2 DEF NoScalar
<1>4. CASE k.list = FALSE
  <2>1. at = DOMAIN k.names
    BY Zenon, <1>4
  <2> HIDE DEF at
  <2>2. /\ DOMAIN k.names = 1..Len(k.names) /\ Len(k.names) \in Nat /\ Len(k.names) <= 1
        /\ \A i \in 1..Len(k.names) : k.names[i] \in STRING
    BY <1>4 DEF KeyOK
  <2>3. CASE Len(k.names) = 0
    <3>1. at = {}
      BY <2>1, <2>2, <2>3
    <3>2. Scalar(k) = {}
      BY <1>1, <3>1
    <3> QED
      BY <2>3, <3>2 DEF NoScalar
  <2>4. CASE Len(k.names) = 1
    <3>1. at = {1}
      BY <2>1, <2>2, <2>4
    <3>2. Scalar(k) = {k.names[1]}
      BY <1>1, <3>1
    <3> QED
      BY <1>4, <2>2, <2>4, <3>2 DEF OneScalar
  <2>5. Len(k.names) = 0 \/ Len(k.names) = 1
    <3> DEFINE n == Len(k.names)
    <3>1. n \in Nat /\ n <= 1
      BY <2>2
    <3> HIDE DEF n
    <3>2. n = 0 \/ n = 1
      BY <3>1
    <3> QED
      BY <3>2 DEF n
  <2> QED
    BY <2>3, <2>4, <2>5
<1> QED
  BY <1>2, <1>3, <1>4

\* What a processor and a reader of a name are.
LEMMA NumberIs == ASSUME NEW node, NEW field, NEW default \in Int, NEW lo \in Int, NEW hi \in Int,
                         NEW n \in Number(node, field, default, lo, hi)
                  PROVE  n \in Int
<1>1. CASE field \notin DOMAIN node
  BY <1>1 DEF Number
<1>2. CASE field \in DOMAIN node
  <2>1. n \in lo .. hi
    BY <1>2 DEF Number
  <2> QED
    BY <2>1
<1> QED
  BY <1>1, <1>2

LEMMA ProcessorIs == ASSUME NEW n, NEW u \in Processor(n)
  PROVE  u.name = n /\ (u.type # "single" => u.size >= u.part)
<1> DEFINE node == ProcessorNodes[n]
<1>1. PICK s \in Number(node, "max_queue_size", 2048, 64, 65536),
           p \in Number(node, "max_export_batch_size", 512, 1, 65536) :
        u = [name |-> n, type |-> node.type, size |-> s, part |-> p]
  BY DEF Processor
<1>2. s \in Int /\ p \in Int
  BY <1>1, NumberIs
<1>3. u.type = "single" \/ (u.type = "batch" /\ u.size >= u.part)
  BY DEF Processor
<1> QED
  BY <1>1, <1>2, <1>3

LEMMA ReaderIs == ASSUME NEW n, NEW u \in Reader(n)
  PROVE  u.name = n /\ u.size >= u.part
<1> DEFINE node == IF n \in DOMAIN ReaderNodes THEN ReaderNodes[n] ELSE [name |-> n]
<1>1. PICK s \in Number(node, "export_interval", 60000, 100, 3600000),
           p \in Number(node, "export_timeout", 30000, 100, 3600000) :
        u = [name |-> n, type |-> "reader", size |-> s, part |-> p]
  BY DEF Reader
<1>2. s \in Int /\ p \in Int
  BY <1>1, NumberIs
<1>3. u.size > u.part
  BY DEF Reader
<1> QED
  BY <1>1, <1>2, <1>3

\* The names of a pipeline: at most one of each, the entry of the list or the scalar.
LEMMA LeadIs == ASSUME NEW c, NEW i \in Nat \ {0}, KeyOK(Lead(c)), i \in 1..Count(c)
  PROVE  LeadName(c, i) \subseteq STRING /\ \A e \in LeadName(c, i) : e = EntryAt(Lead(c), i)
<1> DEFINE k == Lead(c)
<1>1. k.list = TRUE \/ k.list = FALSE
  BY Zenon DEF KeyOK
<1>0. /\ Len(k.names) \in Nat /\ (k.names = <<>> => Len(k.names) = 0)
      /\ \A n \in 1..Len(k.names) : k.names[n] \in STRING
  BY DEF KeyOK
<1>2. CASE k.list = TRUE
  <2>1. LeadName(c, i) = {k.names[i]} /\ Count(c) = Len(k.names)
    BY Zenon, <1>2 DEF LeadName, Count
  <2>2. i \in 1..Len(k.names)
    BY <2>1
  <2> HIDE DEF k
  <2>3. EntryAt(k, i) = k.names[i]
    <3>1. k.names # <<>> /\ (IF i < Len(k.names) THEN i ELSE Len(k.names)) = i
      BY <1>0, <2>2
    <3> QED
      BY <3>1 DEF EntryAt
  <2> QED
    BY <1>0, <2>1, <2>2, <2>3 DEF k
<1>3. CASE k.list = FALSE
  <2>1. LeadName(c, i) = Scalar(k) /\ Count(c) = 1
    BY Zenon, <1>3 DEF LeadName, Count
  <2>2. i = 1
    BY <2>1
  <2>3. CASE NoScalar(k)
    BY <2>1, <2>3 DEF NoScalar
  <2>4. CASE OneScalar(k)
    <3>1. LeadName(c, i) = {k.names[1]} /\ k.names[1] \in STRING /\ Len(k.names) = 1
      BY <2>1, <2>4 DEF OneScalar
    <3> HIDE DEF k
    <3>2. EntryAt(k, i) = k.names[1]
      BY <1>0, <2>2, <3>1 DEF EntryAt
    <3> QED
      BY <3>1, <3>2 DEF k
  <2> QED
    BY <2>3, <2>4, ScalarIs
<1> QED
  BY <1>1, <1>2, <1>3

LEMMA FollowIs == ASSUME NEW c, NEW i \in Nat \ {0}, KeyOK(Lead(c)), KeyOK(Follow(c)), i \in 1..Count(c)
  PROVE  /\ FollowName(c, i) \subseteq STRING /\ \A e \in FollowName(c, i) : e = EntryAt(Follow(c), i)
         /\ \/ FollowName(c, i) = {} /\ Follow(c).names = <<>>
            \/ FollowName(c, i) = {} /\ Lead(c).list = TRUE /\ Follow(c).list = FALSE /\ c.signal # "metrics"
            \/ FollowName(c, i) = {} /\ Lead(c).list = FALSE /\ Follow(c).list = TRUE
            \/ FollowName(c, i) # {} /\ Lead(c).list = Follow(c).list /\ Follow(c).names # <<>>
            \/ /\ FollowName(c, i) # {} /\ Lead(c).list = TRUE /\ Follow(c).list = FALSE
               /\ c.signal = "metrics" /\ Follow(c).names # <<>>
<1> DEFINE k == Lead(c)
           f == Follow(c)
           at == IF i <= Len(f.names) THEN i ELSE Len(f.names)
<1>0. /\ Len(f.names) \in Nat /\ (f.names = <<>> <=> Len(f.names) = 0) /\ DOMAIN f.names = 1..Len(f.names)
      /\ \A n \in 1..Len(f.names) : f.names[n] \in STRING
  <2>1. /\ Len(f.names) \in Nat /\ DOMAIN f.names = 1..Len(f.names)
        /\ \A n \in 1..Len(f.names) : f.names[n] \in STRING
    BY DEF KeyOK
  <2>2. f.names = <<>> => Len(f.names) = 0
    OBVIOUS
  <2>3. ASSUME Len(f.names) = 0 PROVE f.names = <<>>
    BY <2>1, <2>3 DEF KeyOK
  <2> QED
    BY <2>1, <2>2, <2>3
<1>1. (k.list = TRUE \/ k.list = FALSE) /\ (f.list = TRUE \/ f.list = FALSE)
  BY Zenon DEF KeyOK
<1>2. ASSUME FollowName(c, i) = Scalar(f), NoScalar(f) \/ OneScalar(f)
      PROVE  \/ FollowName(c, i) = {} /\ (f.list = TRUE \/ f.names = <<>>)
             \/ /\ f.list = FALSE /\ f.names # <<>> /\ FollowName(c, i) = {EntryAt(f, i)}
                /\ EntryAt(f, i) \in STRING
  <2> HIDE DEF k, f
  <2>1. CASE NoScalar(f)
    BY <1>0, <1>2, <2>1 DEF NoScalar
  <2>2. CASE OneScalar(f)
    <3>1. EntryAt(f, i) = f.names[1]
      <4>1. Len(f.names) = 1 /\ f.names # <<>>
        BY <1>0, <2>2 DEF OneScalar
      <4> QED
        BY <4>1 DEF EntryAt
    <3> QED
      BY <1>0, <1>2, <2>2, <3>1 DEF OneScalar
  <2> QED
    BY <1>2, <2>1, <2>2
<1>3. CASE k.list = TRUE /\ f.list = TRUE
  <2>1. FollowName(c, i) = {f.names[at] : n \in DOMAIN f.names}
    BY Zenon, <1>3 DEF FollowName
  <2>2. \/ FollowName(c, i) = {} /\ f.names = <<>>
        \/ /\ f.names # <<>> /\ FollowName(c, i) = {EntryAt(f, i)}
           /\ EntryAt(f, i) \in STRING
    <3> HIDE DEF k, f
    <3>1. CASE Len(f.names) = 0
      <4>1. DOMAIN f.names = {}
        BY <1>0, <3>1
      <4> QED
        BY <1>0, <2>1, <3>1, <4>1
    <3>2. CASE Len(f.names) # 0
      <4>1. 1 \in DOMAIN f.names /\ at \in 1..Len(f.names)
        BY <1>0, <3>2
      <4>2. FollowName(c, i) = {f.names[at]}
        <5> HIDE DEF at
        <5> QED
          BY <2>1, <4>1
      <4>3. f.names[at] = EntryAt(f, i) /\ f.names # <<>>
        BY <1>0, <3>2, <4>1 DEF EntryAt
      <4> QED
        BY <1>0, <4>1, <4>2, <4>3
    <3> QED
      BY <3>1, <3>2
  <2> QED
    BY <1>3, <2>2
<1>4. CASE k.list = FALSE
  <2>1. FollowName(c, i) = Scalar(f)
    BY Zenon, <1>4 DEF FollowName
  <2> QED
    BY <1>1, <1>2, <1>4, <2>1, ScalarIs
<1>5. CASE k.list = TRUE /\ f.list = FALSE
  <2>1. CASE c.signal = "metrics"
    <3>1. FollowName(c, i) = Scalar(f)
      BY Zenon, <1>5, <2>1 DEF FollowName
    <3> QED
      BY <1>2, <1>5, <2>1, <3>1, ScalarIs
  <2>2. CASE c.signal # "metrics"
    <3>1. FollowName(c, i) = {}
      BY Zenon, <1>5, <2>2 DEF FollowName
    <3> QED
      BY <1>5, <2>2, <3>1
  <2> QED
    BY <2>1, <2>2
<1> QED
  BY <1>1, <1>3, <1>4, <1>5

\* What a unit of a pipeline is, and its name.
LEMMA UnitsAre == ASSUME ConfigsAssumption, NEW c \in Configs, NEW i \in Nat \ {0},
                  i \in 1..Count(c), NEW u \in Units(c, i)
  PROVE  /\ (u.type # "single" => u.size >= u.part)
         /\ c.signal # "metrics" => u.name \in UnitName(c, i)
         /\ c.signal = "metrics" => u.name \in IF UnitName(c, i) = {} THEN {""} ELSE UnitName(c, i)
<1>1. CASE c.signal # "metrics"
  <2>1. PICK n \in UnitName(c, i) : u \in Processor(n)
    BY <1>1 DEF Units
  <2> QED
    BY <1>1, <2>1, ProcessorIs
<1>2. CASE c.signal = "metrics"
  <2> DEFINE names == IF UnitName(c, i) = {} THEN {""} ELSE UnitName(c, i)
  <2>1. PICK n \in names : u \in Reader(n)
    BY <1>2 DEF Units
  <2>2. u.name = n /\ u.size >= u.part
    BY <2>1, ReaderIs
  <2> QED
    BY <1>2, <2>1, <2>2
<1> QED
  BY <1>1, <1>2

-----------------------------------------------------------------------------
(* PipelineBuild: who owns an exporter *)

\* What a sequence is, for any set of elements.
LEMMA Elements == ASSUME NEW S, NEW l \in Seq(S)
                  PROVE  /\ Len(l) \in Nat /\ DOMAIN l = 1..Len(l) /\ \A i \in 1..Len(l) : l[i] \in S
                         /\ l = <<>> <=> Len(l) = 0
OBVIOUS

LEMMA Appended == ASSUME NEW S, NEW l \in Seq(S), NEW e \in S
                  PROVE  /\ Append(l, e) \in Seq(S) /\ Len(Append(l, e)) = Len(l) + 1
                         /\ \A i \in 1..Len(l) : Append(l, e)[i] = l[i]
                         /\ Append(l, e)[Len(l) + 1] = e
OBVIOUS

LEMMA Cut == ASSUME NEW S, NEW l \in Seq(S), NEW n \in 0..Len(l)
             PROVE  /\ SubSeq(l, 1, n) \in Seq(S) /\ Len(SubSeq(l, 1, n)) = n
                    /\ \A i \in 1..n : SubSeq(l, 1, n)[i] = l[i]
OBVIOUS

LEMMA NoElements == ASSUME NEW S PROVE <<>> \in Seq(S) /\ Len(<<>>) = 0
OBVIOUS

\* The exporters of the first n pipelines of start b.
Made(b, n) == {<<b, i>> : i \in 1..n}

LEMMA OwnedAre == ASSUME NoneAssumption, NEW units \in Seq(UnitRecords), NEW c, NEW b \in Nat,
                  InOrder(units, c, b)
                  PROVE  Owned(units) = Made(b, Len(units))
<1>1. Len(units) \in Nat /\ DOMAIN units = 1..Len(units)
  BY Elements
<1>2. \A i \in 1..Len(units) : units[i].exporter = <<b, i>>
  BY <1>1 DEF InOrder
<1>3. None \notin Nat \X Nat
  BY DEF NoneAssumption
<1>4. \A i \in 1..Len(units) : <<b, i>> # None
  BY <1>1, <1>3
<1> QED
  BY <1>1, <1>2, <1>4 DEF Owned, Made

\* What an instance of the builder takes for granted.
Assumptions == ConfigsAssumption /\ NoneAssumption

\* The exporters that the locals of the start under way own.
LEMMA LocalsAre == ASSUME Assumptions, StartCore
  PROVE  Locals = Made(build, Len(made))
                  \cup IF step \in {"unit", "wrapped", "push"} THEN {<<build, Pipeline>>} ELSE {}
<1>1. build \in Nat /\ made \in Seq(UnitRecords)
  BY DEF StartCore, BuildShape
<1>2. Owned(made) = Made(build, Len(made))
  <2>1. CASE step = "idle"
    <3>1. made = <<>>
      BY <2>1 DEF StartCore, LocalsByStep
    <3>2. DOMAIN made = {} /\ Len(made) = 0
      BY <3>1
    <3> QED
      BY <3>2 DEF Owned, Made
  <2>2. CASE step # "idle"
    BY <1>1, <2>2, OwnedAre DEF StartCore, LocalsByStep, Assumptions
  <2> QED
    BY <2>1, <2>2
<1>3. CASE step = "unit"
  <2>1. exporter = {<<build, Pipeline>>} /\ unit = {}
    BY <1>3 DEF StartCore, LocalsByStep
  <2> QED
    BY <1>2, <1>3, <2>1 DEF Locals
<1>4. CASE step \in {"wrapped", "push"}
  <2>1. exporter = {} /\ \E u \in Units(cfg, Pipeline) : unit = {Unit(u)}
    BY <1>4 DEF StartCore, LocalsByStep
  <2>2. {u.exporter : u \in unit} = {<<build, Pipeline>>}
    BY <2>1 DEF Unit
  <2> QED
    BY <1>2, <1>4, <2>1, <2>2 DEF Locals
<1>5. CASE step \in {"idle", "sampler", "exporter"}
  <2>1. exporter = {} /\ unit = {}
    BY <1>5 DEF StartCore, LocalsByStep
  <2> QED
    BY <1>2, <1>5, <2>1 DEF Locals
<1> QED
  BY <1>3, <1>4, <1>5 DEF StartCore

\* Those the provider owns are an earlier start's.
LEMMA InstalledAre == ASSUME Assumptions, StartCore
  PROVE  /\ Owned(Units0(provider)) \cap Locals = {} /\ Units0(provider) \in Seq(UnitRecords)
         /\ \E b \in 0..build : Owned(Units0(provider)) = Made(b, Len(Units0(provider)))
<1>0. build \in Nat /\ step \in {"idle", "sampler", "exporter", "unit", "wrapped", "push"}
      /\ provider \in {None} \cup Providers /\ ProviderFromStart
  BY DEF StartCore, BuildShape
<1>1. CASE provider = None
  <2>1. Units0(provider) = <<>> /\ Units0(provider) \in Seq(UnitRecords)
    BY <1>1, NoElements DEF Units0
  <2>2. Owned(<<>>) = {} /\ Made(0, 0) = {} /\ Len(<<>>) = 0
    BY DEF Owned, Made
  <2>3. 0 \in 0..build
    BY <1>0
  <2> QED
    BY <2>1, <2>2, <2>3
<1>2. CASE provider # None
  <2>1. Units0(provider) = provider.units /\ provider.units \in Seq(UnitRecords)
    BY <1>0, <1>2 DEF Units0, Providers
  <2>2. PICK b \in 1..build : (step # "idle" => b < build) /\ InOrder(provider.units, provider.cfg, b)
    BY <1>0, <1>2 DEF ProviderFromStart
  <2>3. Owned(Units0(provider)) = Made(b, Len(Units0(provider))) /\ b \in 0..build
    BY <1>0, <2>1, <2>2, OwnedAre DEF Assumptions
  <2>4. CASE step = "idle"
    <3>1. made = <<>>
      BY <2>4 DEF StartCore, LocalsByStep
    <3>2. Locals = {}
      BY <2>4, <3>1, LocalsAre DEF Made
    <3> QED
      BY <2>1, <2>3, <3>2
  <2>5. CASE step # "idle"
    <3>1. b # build
      BY <1>0, <2>2, <2>5
    <3>2. \A e \in Locals : e[1] = build
      BY LocalsAre DEF Made
    <3>3. \A e \in Owned(Units0(provider)) : e[1] = b
      BY <2>3 DEF Made
    <3> QED
      BY <2>1, <2>3, <3>1, <3>2, <3>3
  <2> QED
    BY <2>4, <2>5
<1> QED
  BY <1>1, <1>2

-----------------------------------------------------------------------------
(* PipelineBuild: the steps of a start *)

\* A step that leaves the provider alone.
LEMMA ProviderKept ==
  ASSUME StartCore, provider' = provider,
         (build' = build /\ step # "idle") \/ build' = build + 1
  PROVE  ProviderFromStart' /\ (provider \in {None} \cup Providers)'
<1>0. build \in Nat /\ provider \in {None} \cup Providers /\ ProviderFromStart
  BY DEF StartCore, BuildShape
<1>1. CASE provider = None
  BY <1>0, <1>1 DEF ProviderFromStart
<1>2. CASE provider # None
  <2>1. PICK b \in 1..build : (step # "idle" => b < build) /\ InOrder(provider.units, provider.cfg, b)
    BY <1>0, <1>2 DEF ProviderFromStart
  <2>2. b \in 1..build' /\ (step' # "idle" => b < build')
    BY <1>0, <2>1
  <2> QED
    BY <1>0, <1>2, <2>1, <2>2 DEF ProviderFromStart
<1> QED
  BY <1>1, <1>2

\* What a start that is over leaves behind.
LEMMA ReturnLeaves == ASSUME Return, build' = build, StartCore
  PROVE  /\ LocalsByStep' /\ Locals' = {} /\ made' = <<>> /\ Len(tracked') = Len(made')
         /\ step' = "idle" /\ cfg' = None
         /\ (made \in Seq(UnitRecords))' /\ (tracked \in Seq(Nat \X Nat))'
<1>1. /\ step' = "idle" /\ cfg' = None /\ exporter' = {} /\ unit' = {} /\ made' = <<>>
      /\ tracked' = <<>> /\ sampler' = {}
  BY DEF Return
<1>2. LocalsByStep'
  BY <1>1 DEF LocalsByStep
<1>3. Locals' = {}
  BY <1>1 DEF Locals, Owned
<1> QED
  BY <1>1, <1>2, <1>3, NoElements

\* Where a start under way is.
LEMMA UnderWay == ASSUME Assumptions, StartCore, step # "idle"
  PROVE  /\ cfg \in Configs /\ cfg # None /\ build \in Nat \ {0} /\ build \in 0 .. MaxBuilds
         /\ InOrder(made, cfg, build)
         /\ made \in Seq(UnitRecords) /\ tracked \in Seq(Nat \X Nat) /\ Len(tracked) = Len(made)
         /\ Len(made) \in Nat /\ DOMAIN made = 1..Len(made) /\ Pipeline \in Nat \ {0} /\ Count(cfg) \in Nat
<1>1. cfg \in Configs /\ cfg # None
  BY DEF StartCore
<1>2. made \in Seq(UnitRecords) /\ tracked \in Seq(Nat \X Nat) /\ Len(tracked) = Len(made)
      /\ build \in 0 .. MaxBuilds
  BY DEF StartCore, BuildShape
<1>3. build >= 1 /\ InOrder(made, cfg, build)
  BY DEF StartCore, LocalsByStep
<1>4. Len(made) \in Nat /\ DOMAIN made = 1..Len(made) /\ Count(cfg) \in Nat
  BY <1>1, <1>2, Elements, KeysOf DEF Assumptions
<1> QED
  BY <1>1, <1>2, <1>3, <1>4 DEF Pipeline

LEMMA StartStep == ASSUME Assumptions, StartCore, [BuildNext]_buildVars PROVE StartCore'
<1>0. /\ cfg \in Configs \cup {None} /\ build \in 0 .. MaxBuilds /\ MaxBuilds \in Nat
      /\ step \in {"idle", "sampler", "exporter", "unit", "wrapped", "push"}
      /\ step = "idle" <=> cfg = None
      /\ alive = Locals \cup Owned(Units0(provider)) /\ ListedAreInstalled
      /\ made \in Seq(UnitRecords) /\ tracked \in Seq(Nat \X Nat) /\ listed \in Seq(Nat \X Nat)
      /\ Len(tracked) = Len(made)
  BY DEF StartCore, BuildShape, Assumptions, ConfigsAssumption
\* A step of a start that goes on: what it has to say of the pipelines made so far.
<1>1. ASSUME step # "idle", cfg' = cfg, build' = build, provider' = provider, listed' = listed,
             step' \in {"sampler", "exporter", "unit", "wrapped", "push"},
             (made \in Seq(UnitRecords))', (tracked \in Seq(Nat \X Nat))',
             Len(tracked') = Len(made'), LocalsByStep',
             alive' \ Locals' = alive \ Locals, Locals' \subseteq alive', Locals \subseteq Locals',
             \A e \in Locals' \ Locals : e \notin Owned(Units0(provider))
      PROVE  StartCore'
  <2>1. ProviderFromStart' /\ (provider \in {None} \cup Providers)'
    BY <1>1, ProviderKept
  <2>2. Owned(Units0(provider)) \cap Locals = {}
    BY InstalledAre
  <2>3. alive' = Locals' \cup Owned(Units0(provider'))
    BY <1>0, <1>1, <2>2
  <2>4. ListedAreInstalled'
    BY <1>0, <1>1 DEF ListedAreInstalled
  <2>5. cfg \in Configs /\ cfg # None
    BY <1>0, <1>1
  <2> QED
    BY <1>0, <1>1, <2>1, <2>3, <2>4, <2>5 DEF StartCore, BuildShape
<1>2. CASE Fail
  <2>1. Return /\ build' = build /\ provider' = provider /\ listed' = listed
        /\ alive' = alive \ Locals /\ step # "idle"
    BY <1>2 DEF Fail
  <2>2. ProviderFromStart' /\ (provider \in {None} \cup Providers)'
    BY <2>1, ProviderKept
  <2>3. alive' = Locals' \cup Owned(Units0(provider'))
    BY <1>0, <2>1, InstalledAre, ReturnLeaves
  <2>4. ListedAreInstalled'
    BY <1>0, <2>1 DEF ListedAreInstalled
  <2> QED
    BY <1>0, <2>1, <2>2, <2>3, <2>4, ReturnLeaves DEF StartCore, BuildShape
<1>3. CASE BeginBuild
  <2>1. PICK c \in Configs : cfg' = c
    BY <1>3 DEF BeginBuild
  <2>2. /\ step = "idle" /\ build < MaxBuilds /\ build' = build + 1 /\ step' = "sampler"
        /\ UNCHANGED <<exporter, unit, made, tracked, sampler, alive, provider, listed>>
    BY <1>3 DEF BeginBuild
  <2>3. exporter = {} /\ unit = {} /\ made = <<>> /\ sampler = {}
    BY <2>2 DEF StartCore, LocalsByStep
  <2>4. LocalsByStep'
    <3>1. Len(made') = 0 /\ DOMAIN made' = {} /\ Count(cfg') \in Nat
      BY <2>1, <2>2, <2>3, KeysOf DEF Assumptions
    <3>2. InOrder(made', cfg', build')
      BY <3>1 DEF InOrder
    <3>3. build' >= 1
      BY <1>0, <2>2
    <3> QED
      BY <2>2, <2>3, <3>1, <3>2, <3>3 DEF LocalsByStep
  <2>5. ProviderFromStart' /\ (provider \in {None} \cup Providers)'
    BY <2>2, ProviderKept
  <2>6. Locals' = Locals
    BY <2>2 DEF Locals
  <2>7. ListedAreInstalled'
    BY <1>0, <2>2 DEF ListedAreInstalled
  <2>8. cfg' \in Configs /\ cfg' # None /\ build' \in 0 .. MaxBuilds
    BY <1>0, <2>1, <2>2 DEF Assumptions, NoneAssumption
  <2> QED
    BY <1>0, <2>2, <2>4, <2>5, <2>6, <2>7, <2>8 DEF StartCore, BuildShape
<1>4. CASE CreateSampler
  <2>1. /\ step = "sampler" /\ step' = "exporter"
        /\ UNCHANGED <<cfg, build, exporter, unit, made, tracked, alive, provider, listed>>
    BY <1>4 DEF CreateSampler
  <2>2. exporter = {} /\ unit = {} /\ made = <<>> /\ sampler = {}
    BY <2>1 DEF StartCore, LocalsByStep
  <2>3. sampler' \in SamplersOf(cfg)
    <3>1. CASE cfg.signal = "traces"
      <4>1. PICK s \in Sampler(Scalar(cfg.sampler)) : sampler' = {s}
        BY <1>4, <3>1 DEF CreateSampler
      <4>2. SamplersOf(cfg) = {{t} : t \in Sampler(Scalar(cfg.sampler))}
        BY <3>1 DEF SamplersOf
      <4> QED
        BY <4>1, <4>2
    <3>2. CASE cfg.signal # "traces"
      BY <1>4, <2>2, <3>2 DEF CreateSampler, SamplersOf
    <3> QED
      BY <3>1, <3>2
  <2>4. LocalsByStep'
    BY <2>1, <2>2, <2>3, UnderWay DEF LocalsByStep
  <2>5. Locals' = Locals
    BY <2>1 DEF Locals
  <2> QED
    BY <1>0, <1>1, <2>1, <2>4, <2>5
<1>5. CASE CreateExporter
  <2>1. /\ step = "exporter" /\ Pipeline <= Count(cfg) /\ Exporters(cfg, Pipeline) # {}
        /\ exporter' = {<<build, Pipeline>>} /\ alive' = alive \cup exporter' /\ step' = "unit"
        /\ UNCHANGED <<cfg, build, unit, made, tracked, sampler, provider, listed>>
    BY <1>5 DEF CreateExporter
  <2>2. exporter = {} /\ unit = {} /\ sampler \in SamplersOf(cfg)
        /\ \A i \in DOMAIN made : tracked[i] = made[i].exporter
    BY <2>1 DEF StartCore, LocalsByStep
  <2>3. Pipeline' = Pipeline
    BY <2>1 DEF Pipeline
  <2>4. LocalsByStep'
    BY <2>1, <2>2, <2>3, UnderWay DEF LocalsByStep
  <2>5. Locals' = Locals \cup {<<build, Pipeline>>}
    BY <2>1, <2>2 DEF Locals
  <2>6. <<build, Pipeline>> \notin Owned(Units0(provider)) /\ Owned(Units0(provider)) \cap Locals = {}
    <3>1. PICK b \in 1..build : provider # None => b < build /\ InOrder(provider.units, provider.cfg, b)
      BY <2>1, UnderWay DEF StartCore, ProviderFromStart
    <3>2. \A e \in Owned(Units0(provider)) : e[1] # build
      <4>1. CASE provider = None
        BY <4>1 DEF Units0, Owned
      <4>2. CASE provider # None
        <5>1. Units0(provider) = provider.units /\ provider.units \in Seq(UnitRecords)
          BY <4>2 DEF Units0, StartCore, BuildShape, Providers
        <5>2. Owned(Units0(provider)) = Made(b, Len(provider.units)) /\ b < build
          BY <3>1, <4>2, <5>1, OwnedAre DEF Assumptions
        <5>3. b # build
          BY <3>1, <5>2, UnderWay, <2>1
        <5> QED
          BY <5>2, <5>3 DEF Made
      <4> QED
        BY <4>1, <4>2
    <3> QED
      BY <3>2, InstalledAre
  <2> QED
    BY <1>0, <1>1, <2>1, <2>4, <2>5, <2>6
<1>6. ASSUME NEW u \in Units(cfg, Pipeline), unit' = {Unit(u)}, exporter' = {}, step \in {"unit", "wrapped"},
             step' \in {"wrapped", "push"}, UNCHANGED <<cfg, build, made, tracked, sampler, alive,
                                                        provider, listed>>
      PROVE  StartCore'
  <2>1. /\ Pipeline <= Count(cfg) /\ Exporters(cfg, Pipeline) # {} /\ sampler \in SamplersOf(cfg)
        /\ \A i \in DOMAIN made : tracked[i] = made[i].exporter
    BY <1>6 DEF StartCore, LocalsByStep
  <2>2. Pipeline' = Pipeline
    BY <1>6 DEF Pipeline
  <2>3. unit' = {Unit(u)'}
    BY <1>6, <2>2 DEF Unit
  <2>4. LocalsByStep'
    <3>1. \E w \in Units(cfg', Pipeline') : unit' = {Unit(w)'}
      BY <1>6, <2>2, <2>3
    <3>2. build' >= 1 /\ InOrder(made', cfg', build')
      BY <1>6, UnderWay
    <3>3. sampler' \in SamplersOf(cfg') /\ Pipeline' <= Count(cfg') /\ Exporters(cfg', Pipeline') # {}
          /\ \A i \in DOMAIN made' : tracked'[i] = made'[i].exporter
      BY <1>6, <2>1, <2>2
    <3> QED
      BY <1>6, <3>1, <3>2, <3>3 DEF LocalsByStep
  <2>5. Locals' = Locals
    <3>1. Locals' = {<<build, Pipeline>>} \cup Owned(made)
      BY <1>6 DEF Locals, Unit
    <3>2. Locals = {<<build, Pipeline>>} \cup Owned(made)
      <4>1. CASE step = "unit"
        <5>1. exporter = {<<build, Pipeline>>} /\ unit = {}
          BY <4>1 DEF StartCore, LocalsByStep
        <5> QED
          BY <5>1 DEF Locals
      <4>2. CASE step = "wrapped"
        <5>1. exporter = {} /\ \E v \in Units(cfg, Pipeline) : unit = {Unit(v)}
          BY <4>2 DEF StartCore, LocalsByStep
        <5> QED
          BY <5>1 DEF Locals, Unit
      <4> QED
        BY <1>6, <4>1, <4>2
    <3> QED
      BY <3>1, <3>2
  <2> QED
    BY <1>0, <1>1, <1>6, <2>4, <2>5
<1>7. CASE Wrap
  <2>1. PICK u \in Units(cfg, Pipeline) : unit' = {Unit(u)}
    BY <1>7 DEF Wrap
  <2> QED
    BY <1>6, <1>7, <2>1 DEF Wrap
<1>8. CASE CreateUnit
  <2>1. PICK u \in Units(cfg, Pipeline) : unit' = {Unit(u)}
    BY <1>8 DEF CreateUnit
  <2>2. exporter = {} /\ exporter' = exporter /\ step = "wrapped"
    BY <1>8 DEF CreateUnit, StartCore, LocalsByStep
  <2> QED
    BY <1>6, <1>8, <2>1, <2>2 DEF CreateUnit
<1>9. CASE Push
  <2>1. /\ step = "push" /\ unit' = {} /\ step' = "exporter"
        /\ UNCHANGED <<cfg, build, exporter, sampler, alive, provider, listed>>
    BY <1>9 DEF Push
  <2>2. /\ Pipeline <= Count(cfg) /\ Exporters(cfg, Pipeline) # {} /\ sampler \in SamplersOf(cfg)
        /\ exporter = {}
        /\ \A i \in DOMAIN made : tracked[i] = made[i].exporter
    BY <2>1 DEF StartCore, LocalsByStep
  <2>3. PICK v \in Units(cfg, Pipeline) : unit = {Unit(v)}
    BY <2>1 DEF StartCore, LocalsByStep
  <2> DEFINE u == Unit(v)
  <2>4. made' = Append(made, u) /\ tracked' = Append(tracked, u.exporter)
    BY <1>9, <2>3 DEF Push
  <2>5. /\ cfg \in Configs /\ build \in Nat \ {0} /\ InOrder(made, cfg, build) /\ DOMAIN made = 1..Len(made)
        /\ Len(made) \in Nat /\ Pipeline = Len(made) + 1 /\ Pipeline \in Nat \ {0} /\ Count(cfg) \in Nat
    BY <2>1, UnderWay DEF Pipeline
  <2>6. /\ u \in UnitRecords /\ u.exporter = <<build, Pipeline>> /\ u.conf = v
        /\ u.of = Exporters(cfg, Pipeline)
        /\ u.exporter \in Nat \X Nat
    <3>1. Exporters(cfg, Pipeline) \subseteq DOMAIN ExporterNodes
      BY DEF Exporters
    <3>2. v \in UNION {UNION {Units(c, i) : i \in 1 .. Count(c)} : c \in Configs}
      <4>1. Pipeline \in 1 .. Count(cfg)
        BY <2>2, <2>5
      <4> QED
        BY <2>5, <4>1
    <3> QED
      BY <2>5, <3>1, <3>2 DEF Unit, UnitRecords
  <2> HIDE DEF u
  <2>7. /\ made' \in Seq(UnitRecords) /\ Len(made') = Len(made) + 1
        /\ \A i \in 1..Len(made) : made'[i] = made[i]
        /\ made'[Len(made) + 1] = u
    BY <1>0, <2>4, <2>6, Appended
  <2>8. /\ tracked' \in Seq(Nat \X Nat) /\ Len(tracked') = Len(tracked) + 1
        /\ \A i \in 1..Len(tracked) : tracked'[i] = tracked[i]
    <3> DEFINE S == Nat \X Nat
    <3>1. u.exporter \in S /\ tracked \in Seq(S)
      BY <1>0, <2>6
    <3> HIDE DEF S
    <3>2. /\ tracked' \in Seq(S) /\ Len(tracked') = Len(tracked) + 1
          /\ \A i \in 1..Len(tracked) : tracked'[i] = tracked[i]
      BY <2>4, <3>1, Appended
    <3> QED
      BY <3>2 DEF S
  <2>9. tracked'[Len(tracked) + 1] = u.exporter
    <3> DEFINE S == Nat \X Nat
    <3>1. u.exporter \in S /\ tracked \in Seq(S)
      BY <1>0, <2>6
    <3> HIDE DEF S
    <3> QED
      BY <2>4, <3>1, Appended
  <2>10. DOMAIN made' = 1..Len(made) + 1
    BY <2>7, Elements
  <2>11. InOrder(made', cfg', build')
    <3>1. Len(made') <= Count(cfg')
      BY <2>1, <2>2, <2>5, <2>7
    <3>2. ASSUME NEW i \in DOMAIN made'
          PROVE  /\ made'[i].exporter = <<build, i>> /\ made'[i].conf \in Units(cfg, i)
                 /\ made'[i].of = Exporters(cfg, i) /\ made'[i].of # {}
      <4>1. CASE i \in 1..Len(made)
        BY <2>5, <2>7, <4>1 DEF InOrder
      <4>2. CASE i = Len(made) + 1
        BY <2>2, <2>5, <2>6, <2>7, <4>2
      <4> QED
        BY <2>5, <2>10, <3>2, <4>1, <4>2
    <3> QED
      BY <2>1, <3>1, <3>2 DEF InOrder
  <2>12. \A i \in DOMAIN made' : tracked'[i] = made'[i].exporter
    <3> TAKE i \in DOMAIN made'
    <3>1. CASE i \in 1..Len(made)
      <4>1. tracked'[i] = tracked[i] /\ made'[i] = made[i]
        BY <1>0, <2>7, <2>8, <3>1
      <4>2. tracked[i] = made[i].exporter
        BY <2>2, <2>5, <3>1
      <4> QED
        BY <4>1, <4>2
    <3>2. CASE i = Len(made) + 1
      BY <1>0, <2>7, <2>9, <3>2
    <3> QED
      BY <2>5, <2>10, <3>1, <3>2
  <2>13. LocalsByStep'
    BY <2>1, <2>2, <2>5, <2>11, <2>12 DEF LocalsByStep
  <2>14. Locals' = Locals
    <3>1. Owned(made') = Owned(made) \cup {u.exporter}
      <4>1. u.exporter # None
        BY <2>6 DEF Assumptions, NoneAssumption
      <4> QED
        BY <2>5, <2>7, <2>10, <4>1 DEF Owned
    <3>2. {w.exporter : w \in unit} = {u.exporter}
      BY <2>3 DEF u
    <3> QED
      BY <2>1, <2>2, <3>1, <3>2 DEF Locals
  <2>15. Len(tracked') = Len(made') /\ made' \in Seq(UnitRecords) /\ tracked' \in Seq(Nat \X Nat)
    BY <1>0, <2>7, <2>8
  <2>16. alive' \ Locals' = alive \ Locals /\ Locals' \subseteq alive' /\ Locals \subseteq Locals'
    BY <1>0, <2>1, <2>14
  <2> QED
    BY <1>1, <2>1, <2>13, <2>14, <2>15, <2>16
<1>10. CASE Install
  <2>1. /\ step = "exporter" /\ Len(made) = Count(cfg) /\ (made = <<>> => EmptyAllowed(cfg))
        /\ Return /\ build' = build
        /\ listed' = SubSeq(tracked, 1, Len(Handed))
        /\ alive' = alive \ (Owned(IF provider = None THEN <<>> ELSE provider.units)
                             \cup (Locals \ Owned(Handed)))
    BY <1>10 DEF Install
  <2>2. PICK r \in Resource(cfg) :
          provider' = [cfg |-> cfg, units |-> Handed, sampler |-> sampler, resource |-> r]
    BY <1>10 DEF Install
  <2>3. /\ cfg \in Configs /\ build \in Nat \ {0} /\ InOrder(made, cfg, build) /\ DOMAIN made = 1..Len(made)
        /\ Len(made) \in Nat /\ Count(cfg) \in Nat
    BY <2>1, UnderWay
  <2>4. /\ sampler \in SamplersOf(cfg) /\ \A i \in DOMAIN made : tracked[i] = made[i].exporter
    BY <2>1 DEF StartCore, LocalsByStep
  \* What the provider is handed: every pipeline, or the first.
  <2>5. PICK n \in 0..Len(made) : Handed = SubSeq(made, 1, n) \/ (Handed = made /\ n = Len(made))
    <3>1. CASE cfg.multiple \/ cfg.signal = "metrics"
      <4>1. Handed = made
        BY <3>1 DEF Handed
      <4>2. Len(made) \in 0..Len(made)
        BY <2>3
      <4> QED
        BY <4>1, <4>2
    <3>2. CASE ~(cfg.multiple \/ cfg.signal = "metrics")
      <4>1. Handed = SubSeq(made, 1, 1)
        BY <3>2 DEF Handed
      <4>2. made # <<>>
        BY <2>1, <3>2 DEF EmptyAllowed
      <4>3. 1 \in 0..Len(made)
        BY <1>0, <2>3, <4>2, Elements
      <4> QED
        BY <4>1, <4>3
    <3> QED
      BY <3>1, <3>2
  <2>6. Handed \in Seq(UnitRecords) /\ Len(Handed) = n /\ \A i \in 1..n : Handed[i] = made[i]
    BY <1>0, <2>5, Cut
  <2>7. DOMAIN Handed = 1..n
    BY <2>6, Elements
  <2> HIDE DEF Handed
  <2>8. InOrder(Handed, cfg, build)
    <3>1. Len(Handed) <= Count(cfg)
      BY <2>1, <2>3, <2>5, <2>6
    <3>2. \A i \in 1..n : Handed[i] = made[i] /\ i \in DOMAIN made
      <4> TAKE i \in 1..n
      <4>1. n \in Nat /\ n <= Len(made) /\ Len(made) \in Nat
        BY <2>3
      <4>2. i \in 1..Len(made)
        BY <4>1
      <4> QED
        BY <2>3, <2>6, <4>2
    <3> QED
      BY <2>3, <2>7, <3>1, <3>2 DEF InOrder
  <2>9. listed' \in Seq(Nat \X Nat) /\ Len(listed') = n /\ \A i \in 1..n : listed'[i] = tracked[i]
    <3> DEFINE S == Nat \X Nat
    <3>1. tracked \in Seq(S) /\ n \in 0..Len(tracked) /\ listed' = SubSeq(tracked, 1, n)
      BY <1>0, <2>1, <2>5, <2>6
    <3> HIDE DEF S
    <3>2. listed' \in Seq(S) /\ Len(listed') = n /\ \A i \in 1..n : listed'[i] = tracked[i]
      BY <3>1, Cut
    <3> QED
      BY <3>2 DEF S
  <2>10. provider' \in Providers /\ provider' # None
    <3>1. sampler \in UNION {SamplersOf(c) : c \in Configs} /\ r \in UNION {Resource(c) : c \in Configs}
      BY <2>2, <2>3, <2>4
    <3>2. provider' \in Providers
      BY <2>2, <2>3, <2>6, <3>1 DEF Providers
    <3> QED
      BY <3>2 DEF Assumptions, NoneAssumption
  <2>11. Units0(provider') = Handed
    BY <2>2, <2>10 DEF Units0
  <2>12. ListedAreInstalled'
    <3>1. listed' = [i \in 1..n |-> Handed[i].exporter]
      <4>1. ASSUME NEW i \in 1..n PROVE listed'[i] = Handed[i].exporter
        <5>1. n \in Nat /\ n <= Len(made) /\ Len(made) \in Nat
          BY <2>3
        <5>2. i \in DOMAIN made
          BY <2>3, <5>1
        <5>3. tracked[i] = made[i].exporter
          BY <2>4, <5>2
        <5>4. listed'[i] = tracked[i] /\ Handed[i] = made[i]
          BY <2>6, <2>9
        <5> QED
          BY <5>3, <5>4
      <4>2. listed' = [i \in 1..n |-> listed'[i]]
        BY <2>9
      <4> QED
        BY <4>1, <4>2
    <3> QED
      BY <2>7, <2>11, <3>1 DEF ListedAreInstalled
  <2>13. ProviderFromStart'
    <3>1. build \in 1..build' /\ step' = "idle"
      BY <2>1, <2>3 DEF Return
    <3> QED
      BY <2>2, <2>4, <2>8, <2>10, <3>1 DEF ProviderFromStart
  <2>14. alive' = Locals' \cup Owned(Units0(provider'))
    <3>1. Owned(Handed) \subseteq Locals
      <4>1. Owned(Handed) = Made(build, n) /\ Made(build, n) \subseteq Made(build, Len(made))
        BY <2>3, <2>5, <2>6, <2>8, OwnedAre DEF Assumptions, Made
      <4> QED
        BY <4>1, LocalsAre
    <3>2. alive' = alive \ (Owned(Units0(provider)) \cup (Locals \ Owned(Handed)))
      BY <2>1 DEF Units0
    <3> QED
      BY <1>0, <2>1, <2>11, <3>1, <3>2, InstalledAre, ReturnLeaves
  <2> QED
    BY <1>0, <2>1, <2>9, <2>10, <2>12, <2>13, <2>14, ReturnLeaves DEF StartCore, BuildShape
<1>11. CASE UNCHANGED buildVars
  <2>1. UNCHANGED <<cfg, step, build, exporter, unit, made, tracked, sampler, alive, provider, listed>>
    BY <1>11 DEF buildVars
  <2>2. BuildShape' /\ ListedAreInstalled' /\ ProviderFromStart' /\ Locals' = Locals
    BY <2>1 DEF StartCore, BuildShape, ListedAreInstalled, ProviderFromStart, Locals
  <2>3. LocalsByStep'
    <3>1. Pipeline' = Pipeline
      BY <2>1 DEF Pipeline
    <3> QED
      BY <2>1, <3>1 DEF StartCore, LocalsByStep, Unit
  <2> QED
    BY <1>0, <2>1, <2>2, <2>3 DEF StartCore
<1> QED
  BY <1>2, <1>3, <1>4, <1>5, <1>7, <1>8, <1>9, <1>10, <1>11 DEF BuildNext

-----------------------------------------------------------------------------
(* PipelineBuild: what the invariant says of the provider *)

\* A set of n numbered things has n elements.
LEMMA MadeCounted == ASSUME NEW b \in Nat, NEW n \in Nat
  PROVE IsFiniteSet(Made(b, n)) /\ Cardinality(Made(b, n)) = n
<1> DEFINE f == [i \in 1..n |-> <<b, i>>]
<1>1. f \in Bijection(1..n, Made(b, n))
  <2>1. f \in [1..n -> Made(b, n)]
    BY DEF Made
  <2>2. \A i, j \in 1..n : f[i] = f[j] => i = j
    OBVIOUS
  <2>3. \A e \in Made(b, n) : \E i \in 1..n : f[i] = e
    BY DEF Made
  <2> HIDE DEF f
  <2>4. f \in Surjection(1..n, Made(b, n))
    BY <2>1, <2>3 DEF Surjection
  <2>5. f \in Injection(1..n, Made(b, n))
    BY <2>1, <2>2 DEF Injection, IsInjective
  <2> QED
    BY <2>4, <2>5 DEF Bijection
<1>2. ExistsBijection(1..n, Made(b, n))
  BY <1>1 DEF ExistsBijection
<1>3. IsFiniteSet(1..n) /\ Cardinality(1..n) = n
  BY FS_Interval
<1> QED
  BY <1>2, <1>3, FS_Bijection

LEMMA BuildFacts == ASSUME Assumptions, StartCore PROVE BuildInv
<1>0. build \in 0..MaxBuilds /\ MaxBuilds \in Nat /\ build \in Nat
  BY DEF StartCore, Assumptions, ConfigsAssumption
<1>1. PICK b \in 0..build : Owned(Units0(provider)) = Made(b, Len(Units0(provider)))
  BY InstalledAre
<1>2. Len(Units0(provider)) \in Nat
  BY InstalledAre, Elements
<1>3. /\ Cardinality(exporter) <= 1 /\ Cardinality(unit) <= 1
  <2>1. \A e : Cardinality({e}) = 1
    BY FS_Singleton
  <2>2. Cardinality({}) = 0
    BY FS_EmptySet
  <2>3. exporter = {} \/ \E e : exporter = {e}
    BY DEF StartCore, LocalsByStep
  <2>4. unit = {} \/ \E u : unit = {u}
    <3>1. CASE step \in {"wrapped", "push"}
      BY <3>1 DEF StartCore, LocalsByStep
    <3>2. CASE step \notin {"wrapped", "push"}
      BY <3>2 DEF StartCore, LocalsByStep
    <3> QED
      BY <3>1, <3>2
  <2>5. Cardinality(exporter) \in {0, 1}
    BY <2>1, <2>2, <2>3
  <2>6. Cardinality(unit) \in {0, 1}
    BY <2>1, <2>2, <2>4
  <2> QED
    BY <2>5, <2>6
<1>4. \A e \in alive : e[1] \in 1..MaxBuilds
  <2>1. ASSUME NEW e \in Locals PROVE e[1] \in 1..MaxBuilds
    <3>1. e[1] = build /\ (step # "idle" \/ made # <<>>)
      <4>1. e[1] = build
        BY LocalsAre, <2>1 DEF Made
      <4>2. CASE step = "idle" /\ made = <<>>
        BY <2>1, <4>2, LocalsAre DEF Made
      <4> QED
        BY <4>1, <4>2
    <3>2. step # "idle"
      BY <3>1 DEF StartCore, LocalsByStep
    <3> QED
      BY <1>0, <3>1, <3>2, UnderWay
  <2>2. ASSUME NEW e \in Owned(Units0(provider)) PROVE e[1] \in 1..MaxBuilds
    <3>1. provider # None
      BY <2>2 DEF Units0, Owned
    <3>2. PICK d \in 1..build : InOrder(provider.units, provider.cfg, d)
      BY <3>1 DEF StartCore, ProviderFromStart
    <3>3. Units0(provider) = provider.units /\ provider.units \in Seq(UnitRecords)
      BY <3>1 DEF Units0, StartCore, BuildShape, Providers
    <3>4. d \in Nat
      BY <1>0
    <3>5. Owned(Units0(provider)) = Made(d, Len(provider.units))
      BY <3>2, <3>3, <3>4, OwnedAre DEF Assumptions
    <3>6. e[1] = d
      BY <2>2, <3>5 DEF Made
    <3> QED
      BY <1>0, <3>6
  <2> QED
    BY <2>1, <2>2 DEF StartCore
<1>5. BuildTypeOK
  <2>1. cfg \in Configs \cup {None} /\ (step = "idle") = (cfg = None)
        /\ step \in {"idle", "sampler", "exporter", "unit", "wrapped", "push"} /\ Len(tracked) = Len(made)
    BY DEF StartCore
  <2>2. provider # None => provider.cfg \in Configs
    BY DEF StartCore, BuildShape, Providers
  <2> QED
    BY <1>0, <1>3, <1>4, <2>1, <2>2 DEF BuildTypeOK
<1>6. exporter \cap Owned(made) = {}
  <2>1. CASE step = "unit"
    <3>1. exporter = {<<build, Pipeline>>}
      BY <2>1 DEF StartCore, LocalsByStep
    <3>2. Owned(made) = Made(build, Len(made))
      BY <1>0, <2>1, UnderWay, OwnedAre DEF Assumptions
    <3>3. \A i \in 1..Len(made) : i # Pipeline
      BY <2>1, UnderWay DEF Pipeline
    <3> QED
      BY <3>1, <3>2, <3>3 DEF Made
  <2>2. CASE step # "unit"
    BY <2>2 DEF StartCore, LocalsByStep
  <2> QED
    BY <2>1, <2>2
<1>7. ExportersOwned
  <2>1. Cardinality(Owned(Units0(provider))) = Len(Units0(provider))
    <3>1. b \in Nat
      BY <1>0
    <3> QED
      BY <1>1, <1>2, <3>1, MadeCounted
  <2> QED
    BY <1>6, <2>1, InstalledAre DEF ExportersOwned, StartCore
<1> QED
  BY <1>5, <1>7 DEF BuildInv, StartCore

\* What is installed is what the entry says.
LEMMA Paired == ASSUME Assumptions, StartCore PROVE EveryPipelinePaired /\ QueueHoldsBatch
<1>1. CASE provider = None
  BY <1>1 DEF EveryPipelinePaired, QueueHoldsBatch, Units0
<1>2. CASE provider # None
  <2> DEFINE c == provider.cfg
             units == provider.units
  <2>1. c \in Configs /\ units \in Seq(UnitRecords) /\ Units0(provider) = units
    BY <1>2 DEF StartCore, BuildShape, Providers, Units0
  <2>2. \E b \in Nat : InOrder(units, c, b)
    <3>1. PICK b \in 1..build : InOrder(units, c, b)
      BY <1>2 DEF StartCore, ProviderFromStart
    <3>2. b \in Nat
      BY <3>1 DEF StartCore
    <3> QED
      BY <3>1, <3>2
  <2> HIDE DEF c, units
  <2>3. Len(units) <= Count(c) /\ Len(units) \in Nat /\ DOMAIN units = 1..Len(units) /\ Count(c) \in Nat
    BY <2>1, <2>2, Elements, KeysOf DEF InOrder, Assumptions
  <2>4. ASSUME NEW i \in DOMAIN units
        PROVE  /\ i \in Nat \ {0} /\ i \in 1..Count(c) /\ units[i].conf \in Units(c, i)
               /\ units[i].of = Exporters(c, i) /\ units[i].of # {}
               /\ Exporters(c, i) \subseteq ExporterName(c, i)
    BY <2>2, <2>3, <2>4 DEF InOrder, Exporters
  <2>5. KeyOK(Lead(c)) /\ KeyOK(Follow(c)) /\ KeyOK(c.units) /\ KeyOK(c.exporters)
    BY <2>1, KeysOf DEF Assumptions
  <2>6. ASSUME NEW i \in DOMAIN units
        PROVE  /\ units[i].of = {EntryAt(c.exporters, i)}
               /\ units[i].conf.type # "single" => units[i].conf.size >= units[i].conf.part
               /\ c.signal # "metrics" => c.exporters.list = c.units.list
               /\ units[i].conf.name = IF ~c.exporters.list /\ c.units.list THEN "" ELSE EntryAt(c.units, i)
    <3>1. /\ i \in Nat \ {0} /\ i \in 1..Count(c) /\ units[i].conf \in Units(c, i)
          /\ units[i].of # {} /\ units[i].of \subseteq ExporterName(c, i)
      BY <2>4
    <3>2. /\ \A e \in LeadName(c, i) : e = EntryAt(Lead(c), i)
          /\ \A e \in FollowName(c, i) : e = EntryAt(Follow(c), i)
      BY <2>5, <3>1, LeadIs, FollowIs
    <3>3. \A e \in ExporterName(c, i) : e = EntryAt(c.exporters, i)
      BY <3>2 DEF ExporterName, Lead, Follow
    <3>4. units[i].of = {EntryAt(c.exporters, i)}
      BY <3>1, <3>3
    <3>5. /\ units[i].conf.type # "single" => units[i].conf.size >= units[i].conf.part
          /\ c.signal # "metrics" => units[i].conf.name \in UnitName(c, i)
          /\ c.signal = "metrics" =>
                 units[i].conf.name \in IF UnitName(c, i) = {} THEN {""} ELSE UnitName(c, i)
      BY <2>1, <3>1, UnitsAre DEF Assumptions
    <3>6. CASE c.signal # "metrics"
      <4>1. /\ Lead(c) = c.units /\ Follow(c) = c.exporters /\ UnitName(c, i) = LeadName(c, i)
            /\ ExporterName(c, i) = FollowName(c, i)
        BY <3>6 DEF Lead, Follow, UnitName, ExporterName
      <4>2. c.units.list = c.exporters.list
        BY <2>5, <3>1, <3>6, <4>1, FollowIs
      <4>3. units[i].conf.name = EntryAt(c.units, i)
        BY <3>2, <3>5, <3>6, <4>1
      <4>4. ~(~c.exporters.list /\ c.units.list)
        BY Zenon, <4>2
      <4> QED
        BY <3>4, <3>5, <4>2, <4>3, <4>4
    <3>7. CASE c.signal = "metrics"
      <4>1. Lead(c) = c.exporters /\ Follow(c) = c.units /\ UnitName(c, i) = FollowName(c, i)
        BY <3>7 DEF Lead, Follow, UnitName
      <4> DEFINE expected == IF ~c.exporters.list /\ c.units.list THEN "" ELSE EntryAt(c.units, i)
      <4>2. CASE FollowName(c, i) = {}
        <5>1. units[i].conf.name = ""
          BY <3>5, <3>7, <4>1, <4>2
        <5>2. c.units.names = <<>> \/ (c.exporters.list = FALSE /\ c.units.list = TRUE)
          BY <2>5, <3>1, <3>7, <4>1, <4>2, FollowIs
        <5>3. c.units.names = <<>> => EntryAt(c.units, i) = ""
          BY DEF EntryAt
        <5>4. expected = ""
          BY Zenon, <5>2, <5>3
        <5> QED
          BY <3>4, <3>5, <3>7, <5>1, <5>4
      <4>3. CASE FollowName(c, i) # {}
        <5>1. units[i].conf.name = EntryAt(c.units, i)
          BY <3>2, <3>5, <3>7, <4>1, <4>3
        <5>2. c.exporters.list = c.units.list \/ c.exporters.list = TRUE
          BY <2>5, <3>1, <3>7, <4>1, <4>3, FollowIs
        <5>3. ~(~c.exporters.list /\ c.units.list)
          BY Zenon, <5>2
        <5>4. expected = EntryAt(c.units, i)
          BY Zenon, <5>3
        <5> QED
          BY <3>4, <3>5, <3>7, <5>1, <5>4
      <4> QED
        BY <4>2, <4>3
    <3> QED
      BY <3>6, <3>7
  <2>7. QueueHoldsBatch
    BY <2>1, <2>6 DEF QueueHoldsBatch
  <2>8. c.signal # "metrics" /\ units # <<>> => c.exporters.list = c.units.list
    <3>1. units # <<>> => 1 \in DOMAIN units
      BY <2>1, <2>3, Elements
    <3> QED
      BY <2>6, <3>1
  <2>9. EveryPipelinePaired
    BY <2>6, <2>8 DEF EveryPipelinePaired, c, units
  <2> QED
    BY <2>7, <2>9
<1> QED
  BY <1>1, <1>2

\* The delegates of a parent_based sampler are those of its node.
LEMMA ParentHas == ASSUME NEW n, NEW t \in Sampler({n}), t.type = "parent_based"
                   PROVE  t.delegates \in Delegated(SamplerNodes[n])
<1> DEFINE node == SamplerNodes[n]
           part == String(node, "composable", "probability")
<1>1. SamplerNode({n}) = node
  <2>1. {n} # {} /\ (CHOOSE m \in {n} : TRUE) = n
    OBVIOUS
  <2> QED
    BY <2>1 DEF SamplerNode
<1>2. t \in IF ~({n} \subseteq DOMAIN SamplerNodes /\ "type" \in DOMAIN node) THEN {}
            ELSE IF node.type = "parent_based" THEN ParentSampler(node, {n})
            ELSE IF node.type = "composite" THEN CompositeSampler(part, {n})
            ELSE PlainSampler(node.type, {n})
  BY Zenon, <1>1 DEF Sampler
<1>3. \A s \in ParentSampler(node, {n}) : s.delegates \in Delegated(node)
  BY DEF ParentSampler, SamplerOf
<1>4. \A s \in CompositeSampler(part, {n}) : s.type = "composite"
  BY DEF CompositeSampler, SamplerOf
<1>5. \A k : k # "parent_based" => \A s \in PlainSampler(k, {n}) : s.type # "parent_based"
  BY DEF PlainSampler, SamplerOf, Always
<1> QED
  <2> HIDE DEF node, part
  <2> QED
    BY <1>2, <1>3, <1>4, <1>5 DEF node

LEMMA Named == ASSUME Assumptions, StartCore PROVE DelegatesAsNamed
<1> SUFFICES ASSUME provider # None, NEW s \in provider.sampler, s.type = "parent_based",
                    NEW d \in DOMAIN Delegates, NEW n \in Scalar(provider.cfg.sampler)
             PROVE  s.delegates[d] = String(SamplerNodes[n], d, Delegates[d])
  BY DEF DelegatesAsNamed
<1>1. provider.cfg \in Configs /\ provider.sampler \in SamplersOf(provider.cfg)
  BY DEF StartCore, BuildShape, Providers, ProviderFromStart
<1>2. Scalar(provider.cfg.sampler) = {n}
  <2>1. KeyOK(provider.cfg.sampler)
    BY <1>1, KeysOf DEF Assumptions
  <2> QED
    BY <2>1, ScalarIs DEF NoScalar, OneScalar
<1>3. s \in Sampler({n})
  <2>1. CASE provider.cfg.signal = "traces"
    <3>1. PICK t \in Sampler({n}) : provider.sampler = {t}
      BY <1>1, <1>2, <2>1 DEF SamplersOf
    <3> QED
      BY <3>1
  <2>2. CASE provider.cfg.signal # "traces"
    BY <1>1, <2>2 DEF SamplersOf
  <2> QED
    BY <2>1, <2>2
<1>4. s.delegates \in Delegated(SamplerNodes[n])
  BY <1>3, ParentHas
<1>5. s.delegates = [e \in DOMAIN Delegates |-> String(SamplerNodes[n], e, Delegates[e])]
  BY <1>4 DEF Delegated
<1> QED
  BY <1>5

\* The attributes of a resource: the last of the document with the key, else the environment's.
LEMMA Overrides == ASSUME Assumptions, StartCore PROVE DocumentOverrides
<1>1. CASE provider = None
  BY <1>1 DEF DocumentOverrides
<1>2. CASE provider # None
  <2> DEFINE c == provider.cfg
             res == c.resources
             got == provider.resource
             Has(k) == \E i \in DOMAIN res : res[i][1] = k
  <2>1. c \in Configs /\ got \in Resource(c)
    BY <1>2 DEF StartCore, BuildShape, Providers, ProviderFromStart
  <2>2. /\ res # None
        /\ got = [k \in Keys(c) |-> IF Has(k) THEN res[LastOf(c, k)][2] ELSE c.environment[k]]
    BY <2>1 DEF Resource
  <2>3. res \in Seq(STRING \X STRING)
    BY <2>1, <2>2 DEF Assumptions, ConfigsAssumption
  <2>4. Len(res) \in Nat /\ DOMAIN res = 1..Len(res)
    BY <2>3
  <2>5. Keys(c) = DOMAIN c.environment \cup {res[i][1] : i \in DOMAIN res}
    BY DEF Keys
  <2>6. ASSUME NEW i \in DOMAIN res, \A j \in i + 1 .. Len(res) : res[j][1] # res[i][1]
        PROVE  got[res[i][1]] = res[i][2]
    <3> DEFINE k == res[i][1]
               Latest(m) == m \in DOMAIN res /\ res[m][1] = k /\ \A j \in DOMAIN res : res[j][1] = k => j <= m
    <3>1. Latest(i)
      BY <2>4, <2>6
    <3>2. \A m : Latest(m) => m = i
      BY <2>4, <3>1
    <3>3. LastOf(c, k) = CHOOSE m \in DOMAIN res : res[m][1] = k
          /\ \A j \in DOMAIN res : res[j][1] = k => j <= m
      BY DEF LastOf
    <3>4. LastOf(c, k) = i
      BY <3>1, <3>2, <3>3
    <3>5. k \in Keys(c) /\ Has(k)
      BY <2>5
    <3> QED
      BY <2>2, <3>4, <3>5
  <2>7. ASSUME NEW k \in DOMAIN c.environment
        PROVE  k \in DOMAIN got /\ ((\A i \in DOMAIN res : res[i][1] # k) => got[k] = c.environment[k])
    BY <2>2, <2>5
  <2> QED
    BY <2>6, <2>7 DEF DocumentOverrides
<1> QED
  BY <1>1, <1>2

LEMMA StartBegins == ASSUME Assumptions PROVE BuildInit => StartCore
<1> SUFFICES ASSUME BuildInit PROVE StartCore
  OBVIOUS
<1>1. /\ cfg = None /\ step = "idle" /\ build = 0 /\ exporter = {} /\ unit = {} /\ made = <<>>
      /\ tracked = <<>>
      /\ sampler = {} /\ alive = {} /\ provider = None /\ listed = <<>>
  BY DEF BuildInit
<1>2. BuildShape
  BY <1>1, NoElements DEF BuildShape
<1>3. LocalsByStep /\ ProviderFromStart
  BY <1>1 DEF LocalsByStep, ProviderFromStart
<1>4. alive = Locals \cup Owned(Units0(provider)) /\ ListedAreInstalled
  BY <1>1 DEF Locals, Owned, Units0, ListedAreInstalled
<1>5. build \in 0 .. MaxBuilds
  BY <1>1 DEF Assumptions, ConfigsAssumption
<1> QED
  BY <1>1, <1>2, <1>3, <1>4, <1>5 DEF StartCore

LEMMA CoreIsInvariant == ASSUME Assumptions PROVE BuildSpec => []StartCore
<1>1. StartCore /\ [BuildNext]_buildVars => StartCore'
  BY StartStep
<1> QED
  BY <1>1, StartBegins, PTL DEF BuildSpec

-----------------------------------------------------------------------------
(* PipelineBuild: the theorems *)

\* However a start fails, every exporter alive has one owner that will destroy it, and the
\* exporters the instance shuts down later are those of the provider (processor.cpp:722-737,
\* logger.cpp:945-956).
THEOREM ExportersHaveOneOwner == ASSUME ConfigsAssumption, NoneAssumption
  PROVE BuildSpec => []BuildInv
<1>1. Assumptions
  BY DEF Assumptions
<1>2. StartCore => BuildInv
  BY <1>1, BuildFacts
<1> QED
  BY <1>1, <1>2, CoreIsInvariant, PTL

\* Whatever the starts were given and whatever failed, the pipelines, the sampler and the
\* resource installed are what the document says (logger.cpp:885-900, sampler.cpp:133-173,
\* resource.cpp:148-169).
THEOREM InstalledIsWritten == ASSUME ConfigsAssumption, NoneAssumption
  PROVE BuildSpec => []InstalledAsWritten
<1>1. Assumptions
  BY DEF Assumptions
<1>2. StartCore => InstalledAsWritten
  BY <1>1, Paired, Named, Overrides DEF InstalledAsWritten
<1> QED
  BY <1>1, <1>2, CoreIsInvariant, PTL
-----------------------------------------------------------------------------
(* Logger: what a step leaves in the other calls *)

\* A call with the flag and the threshold of the moment added to what it saw.
Saw(c, l) == [c EXCEPT !.seen = @ \cup {l.threshold}, !.up = @ \cup {l.enabled}]

LEMMA SawCall ==
  ASSUME NEW c \in LogCalls, NEW l, l.threshold \in Severities \cup {NoValue}, l.enabled \in BOOLEAN
  PROVE  /\ Saw(c, l) \in LogCalls
         /\ c # NoCall /\ Saw(c, l) # NoCall
         /\ \A f \in {"op", "at", "severity", "ids", "span", "body", "added"} : Saw(c, l)[f] = c[f]
         /\ Saw(c, l).seen = c.seen \cup {l.threshold} /\ Saw(c, l).up = c.up \cup {l.enabled}
<1>1. Saw(c, l) \in LogCalls
  BY DEF Saw, LogCalls
<1>2. c # NoCall /\ Saw(c, l) # NoCall
  BY <1>1 DEF LogCalls, NoCall
<1> QED
  BY <1>1, <1>2 DEF Saw, LogCalls

\* Seeing again what it saw changes nothing.
LEMMA SawBefore == ASSUME NEW c \in LogCalls, NEW l, l.threshold \in c.seen, l.enabled \in c.up
                   PROVE  Saw(c, l) = c
<1>1. c.seen \cup {l.threshold} = c.seen /\ c.up \cup {l.enabled} = c.up
  OBVIOUS
<1>2. Saw(c, l) = [c EXCEPT !.seen = c.seen, !.up = c.up]
  BY <1>1 DEF Saw
<1> QED
  BY <1>2 DEF LogCalls

\* A call that ends or goes on leaves the others where they are.
LEMMA WitnessedCalls ==
  ASSUME NEW l, l.threshold \in Severities \cup {NoValue}, l.enabled \in BOOLEAN,
         NEW c \in [Callers -> LogCalls \cup {NoCall}]
  PROVE  /\ Witnessed(l, c) \in [Callers -> LogCalls \cup {NoCall}]
         /\ \A t \in Callers : Witnessed(l, c)[t] = IF c[t] = NoCall THEN NoCall ELSE Saw(c[t], l)
<1>1. ASSUME NEW t \in Callers
      PROVE  /\ Witnessed(l, c)[t] = IF c[t] = NoCall THEN NoCall ELSE Saw(c[t], l)
             /\ Witnessed(l, c)[t] \in LogCalls \cup {NoCall}
  <2>1. Witnessed(l, c)[t] = IF c[t] = NoCall THEN NoCall ELSE Saw(c[t], l)
    BY DEF Witnessed, Saw
  <2> QED
    BY <2>1, SawCall
<1>2. Witnessed(l, c) = [t \in Callers |-> Witnessed(l, c)[t]]
  BY DEF Witnessed
<1> QED
  BY <1>1, <1>2

\* The calls but t's go on as they were, and have seen what is there now.
Bystanders(t) ==
    \A u \in Callers \ {t} : call'[u] = IF call[u] = NoCall THEN NoCall ELSE Saw(call[u], logger')

\* What the step of caller t makes of its own call: it begins, ends, moves on or fills.
Begun(t) ==
    /\ call[t] = NoCall
    /\ call'[t].at = "flag" /\ call'[t].added = 0 /\ call'[t].ids = SpanIds(call'[t].span)
    /\ call'[t].seen = {logger.threshold} /\ call'[t].up = {logger.enabled}
Ended(t)     == call'[t] = NoCall
Moved(t, at) == call[t] # NoCall /\ call'[t] = Saw([call[t] EXCEPT !.at = at], logger')

LEMMA LoggerTypes == ASSUME LoggerAssumption, LoggerShape
  PROVE  /\ logger.threshold \in Severities \cup {NoValue} /\ logger.enabled \in BOOLEAN
         /\ \A t \in Callers : \/ call[t] = NoCall /\ call[t].op = "none"
                               \/ call[t] \in LogCalls /\ call[t] # NoCall /\ call[t].op # "none"
<1>1. \A t \in Callers : call[t] \in LogCalls \cup {NoCall}
  BY DEF LoggerShape
<1> QED
  BY <1>1 DEF LoggerShape, LogCalls, NoCall

LEMMA EndsCall ==
  ASSUME LoggerAssumption, LoggerShape, NEW t \in Callers, NEW result, NEW record,
         CallEnds(t, result, record),
         logger'.threshold \in Severities \cup {NoValue}, logger'.enabled \in BOOLEAN, call[t] # NoCall
  PROVE  /\ Bystanders(t) /\ Ended(t) /\ call' \in [Callers -> LogCalls \cup {NoCall}]
         /\ answer' = [call |-> Saw(call[t], logger'), result |-> result, record |-> record]
<1> DEFINE rest == [call EXCEPT ![t] = NoCall]
<1>1. call \in [Callers -> LogCalls \cup {NoCall}] /\ rest \in [Callers -> LogCalls \cup {NoCall}]
  BY DEF LoggerShape
<1>2. /\ call' = Witnessed(logger', rest)
      /\ answer' = [call |-> Witnessed(logger', call)[t], result |-> result, record |-> record]
  BY DEF CallEnds
<1>3. /\ call' \in [Callers -> LogCalls \cup {NoCall}]
      /\ \A u \in Callers : call'[u] = IF rest[u] = NoCall THEN NoCall ELSE Saw(rest[u], logger')
  <2> HIDE DEF rest
  <2> QED
    BY <1>1, <1>2, WitnessedCalls
<1>4. Witnessed(logger', call)[t] = Saw(call[t], logger')
  BY <1>1, WitnessedCalls
<1> QED
  BY <1>1, <1>2, <1>3, <1>4 DEF Bystanders, Ended

LEMMA MovesCall ==
  ASSUME LoggerAssumption, LoggerShape, NEW t \in Callers, NEW at \in {"check", "fill", "body", "field"},
         Proceed(t, at),
         logger'.threshold \in Severities \cup {NoValue}, logger'.enabled \in BOOLEAN, call[t] # NoCall
  PROVE  /\ Bystanders(t) /\ Moved(t, at) /\ call' \in [Callers -> LogCalls \cup {NoCall}]
         /\ answer' = NoValue
<1> DEFINE new == [call[t] EXCEPT !.at = at]
           rest == [call EXCEPT ![t] = new]
<1>1. call \in [Callers -> LogCalls \cup {NoCall}] /\ call[t] \in LogCalls
  BY DEF LoggerShape
<1>2. new \in LogCalls
  BY <1>1 DEF LogCalls
<1>3. new # NoCall
  BY <1>2, LoggerTypes DEF LogCalls, NoCall
<1>4. rest \in [Callers -> LogCalls \cup {NoCall}]
  BY <1>1, <1>2
<1>5. call' = Witnessed(logger', rest) /\ answer' = NoValue
  BY DEF Proceed
<1>6. /\ call' \in [Callers -> LogCalls \cup {NoCall}]
      /\ \A u \in Callers : call'[u] = IF rest[u] = NoCall THEN NoCall ELSE Saw(rest[u], logger')
  <2> HIDE DEF rest
  <2> QED
    BY <1>4, <1>5, WitnessedCalls
<1>7. rest[t] = new /\ \A u \in Callers \ {t} : rest[u] = call[u]
  BY <1>1
<1> QED
  BY <1>3, <1>5, <1>6, <1>7 DEF Bystanders, Moved

Answers(t, result, record) ==
    /\ call[t] # NoCall /\ Ended(t)
    /\ answer' = [call |-> Saw(call[t], logger'), result |-> result, record |-> record]

\* The answers there are, and what each takes.
Answered(t) ==
    /\ call[t].at # "field"
    /\ \/ Answers(t, "error", NoValue)
       \/ /\ Answers(t, "refused", NoValue)
          /\ ~logger.enabled \/ (Started /\ call[t].severity < logger.threshold)
       \/ /\ Answers(t, "yes", NoValue)
          /\ call[t].op # "log" /\ call[t].at = "check" /\ call[t].severity >= logger.threshold
       \/ Answers(t, "emitted", Record(t)) /\ call[t].at = "body"

\* The places a log call, or enabled(), may go to.
MovedOn(t) ==
    /\ answer' = NoValue
    /\ \/ /\ Moved(t, "check") /\ call[t].at = "flag"
          /\ call[t].op # "set_min_severity" /\ logger.enabled /\ Started
       \/ /\ Moved(t, Filled(0)) /\ call[t].added = 0
          /\ call[t].op = "log" /\ call[t].at = "check"
          /\ Parsed(call[t].severity) /\ call[t].severity >= logger.threshold

\* One more attribute.
FilledOne(t) ==
    /\ answer' = NoValue
    /\ call[t] # NoCall /\ call[t].at = "fill"
    /\ call'[t] = [call[t] EXCEPT !.added = @ + 1, !.at = Filled(call[t].added + 1)]

\* The steps of a log call and of enabled() leave the logger alone.
QuietStep(t) ==
    /\ UNCHANGED <<logger, strayed>>
    /\ Bystanders(t)
    /\ call' \in [Callers -> LogCalls \cup {NoCall}]
    /\ \/ Begun(t) /\ logger.state # "none" /\ answer' = NoValue
       \/ Answered(t) \/ MovedOn(t) \/ FilledOne(t)

\* Nothing was added before the check.
LEMMA QuietSteps ==
  ASSUME LoggerAssumption, LoggerShape, CallsWitness, CallsPassed, NEW t \in Callers,
         \/ CallBegins(t) \/ LogFlag(t) \/ AskFlag(t) \/ Check(t) \/ Fill(t) \/ Emit(t)
  PROVE  QuietStep(t)
<1>0. call \in [Callers -> LogCalls \cup {NoCall}] /\ NumAttributes \in Nat
  BY DEF LoggerShape, LoggerAssumption
<1>1. CASE CallBegins(t)
  <2>1. PICK op \in {"log", "enabled", "set_min_severity"}, severity \in 0 .. MaxLevel,
             span \in {"live", "gone"}, body \in BOOLEAN :
          call' = [call EXCEPT ![t] =
                     [op |-> op, at |-> "flag", severity |-> severity, ids |-> SpanIds(span), span |-> span,
                      body |-> body, added |-> 0, seen |-> {logger.threshold}, up |-> {logger.enabled}]]
    BY <1>1 DEF CallBegins
  <2> DEFINE new == [op |-> op, at |-> "flag", severity |-> severity, ids |-> SpanIds(span), span |-> span,
                     body |-> body, added |-> 0, seen |-> {logger.threshold}, up |-> {logger.enabled}]
  <2>2. new \in LogCalls
    BY LoggerTypes, <1>0 DEF LogCalls, SpanIds
  <2>3. call'[t] = new /\ \A u \in Callers \ {t} : call'[u] = call[u]
    BY <1>0, <2>1
  <2>4. call' \in [Callers -> LogCalls \cup {NoCall}]
    <3>1. call' = [call EXCEPT ![t] = new]
      BY <2>1
    <3> HIDE DEF new
    <3> QED
      BY <1>0, <2>2, <3>1
  <2>5. /\ UNCHANGED <<logger, strayed>> /\ answer' = NoValue /\ logger.state # "none" /\ call[t] = NoCall
    BY <1>1 DEF CallBegins
  <2>6. Bystanders(t)
    <3>1. ASSUME NEW u \in Callers \ {t}, call[u] # NoCall PROVE Saw(call[u], logger') = call[u]
      <4>1. call[u] \in LogCalls /\ logger' = logger
        BY <1>0, <2>5, <3>1
      <4>2. logger.threshold \in call[u].seen /\ logger.enabled \in call[u].up
        BY <3>1 DEF CallsWitness
      <4> QED
        BY <4>1, <4>2, SawBefore
    <3> QED
      BY <2>3, <3>1 DEF Bystanders
  <2>7. Begun(t)
    BY <2>3, <2>5 DEF Begun
  <2> QED
    BY <2>4, <2>5, <2>6, <2>7 DEF QuietStep
<1>2. ASSUME call[t] # NoCall, call[t].at # "field", UNCHANGED <<logger, strayed>>,
             \/ CallEnds(t, "error", NoValue)
             \/ /\ CallEnds(t, "refused", NoValue)
                /\ ~logger.enabled \/ (Started /\ call[t].severity < logger.threshold)
             \/ /\ CallEnds(t, "yes", NoValue)
                /\ call[t].op # "log" /\ call[t].at = "check" /\ call[t].severity >= logger.threshold
             \/ CallEnds(t, "emitted", Record(t)) /\ call[t].at = "body"
      PROVE  QuietStep(t)
  <2>1. logger'.threshold \in Severities \cup {NoValue} /\ logger'.enabled \in BOOLEAN
    BY <1>2, LoggerTypes
  <2>2. \A result, record : CallEnds(t, result, record) =>
           Bystanders(t) /\ Answers(t, result, record) /\ call' \in [Callers -> LogCalls \cup {NoCall}]
    BY <1>2, <2>1, EndsCall DEF Answers
  <2> QED
    BY <1>2, <2>2 DEF QuietStep, Answered
<1>3. ASSUME call[t] # NoCall, UNCHANGED <<logger, strayed>>,
             \/ /\ Proceed(t, "check") /\ call[t].at = "flag"
                /\ call[t].op # "set_min_severity" /\ logger.enabled /\ Started
             \/ /\ Proceed(t, Filled(0)) /\ call[t].added = 0
                /\ call[t].op = "log" /\ call[t].at = "check"
                /\ Parsed(call[t].severity) /\ call[t].severity >= logger.threshold
      PROVE  QuietStep(t)
  <2>1. logger'.threshold \in Severities \cup {NoValue} /\ logger'.enabled \in BOOLEAN
    BY <1>3, LoggerTypes
  <2>2. \A at \in {"check", "fill", "body", "field"} : Proceed(t, at) =>
           /\ Bystanders(t) /\ Moved(t, at) /\ call' \in [Callers -> LogCalls \cup {NoCall}]
           /\ answer' = NoValue
    BY <1>3, <2>1, MovesCall
  <2>3. Filled(0) \in {"fill", "body"}
    BY DEF Filled
  <2> QED
    BY <1>3, <2>2, <2>3 DEF QuietStep, MovedOn
<1>4. \A u \in Callers : call[u].op # "none" => call[u] # NoCall
  BY DEF NoCall
<1>5. call[t].op \in {"log", "enabled"} => call[t] # NoCall
  BY DEF NoCall
<1>6. CASE LogFlag(t)
  BY <1>2, <1>3, <1>5, <1>6 DEF LogFlag
<1>7. CASE AskFlag(t)
  BY <1>2, <1>3, <1>5, <1>7 DEF AskFlag
<1>8. CASE Check(t)
  <2>1. call[t] # NoCall /\ call[t].at = "check" /\ UNCHANGED <<logger, strayed>>
    BY <1>4, <1>8 DEF Check
  <2>2. Started /\ call[t].added = 0 /\ call[t].op \in {"log", "enabled"}
    <3>1. call[t] \in LogCalls
      BY <1>0, <2>1
    <3> QED
      BY <2>1, <3>1 DEF CallsWitness, CallsPassed, LogCalls
  <2>3. \/ CallEnds(t, "error", NoValue)
        \/ CallEnds(t, "refused", NoValue) /\ call[t].severity < logger.threshold
        \/ /\ Parsed(call[t].severity) /\ call[t].severity >= logger.threshold
           /\ \/ call[t].op = "enabled" /\ CallEnds(t, "yes", NoValue)
              \/ call[t].op # "enabled" /\ Proceed(t, Filled(0))
    BY <1>8 DEF Check
  <2> QED
    BY <1>2, <1>3, <2>1, <2>2, <2>3
<1>9. CASE Fill(t)
  <2>1. call[t] # NoCall /\ call[t].at = "fill" /\ UNCHANGED <<logger, strayed>> /\ call[t] \in LogCalls
    BY <1>0, <1>4, <1>9 DEF Fill
  <2>2. CASE CallEnds(t, "error", NoValue)
    BY <1>2, <2>1, <2>2
  <2>3. CASE ~CallEnds(t, "error", NoValue)
    <3> DEFINE new == [call[t] EXCEPT !.added = @ + 1, !.at = Filled(call[t].added + 1)]
    <3>1. call' = [call EXCEPT ![t] = new] /\ answer' = NoValue
      BY <1>9, <2>3 DEF Fill
    <3>2. call[t].added < NumAttributes
      BY <2>1 DEF CallsPassed
    <3>3. new \in LogCalls
      <4>1. call[t].added + 1 \in 0 .. NumAttributes
        BY <1>0, <2>1, <3>2 DEF LogCalls
      <4>2. Filled(call[t].added + 1) \in {"fill", "body"}
        BY DEF Filled
      <4> QED
        BY <2>1, <4>1, <4>2 DEF LogCalls
    <3>4. Bystanders(t)
      <4>1. ASSUME NEW u \in Callers \ {t}, call[u] # NoCall PROVE Saw(call[u], logger') = call[u]
        <5>1. call[u] \in LogCalls /\ logger' = logger
          BY <1>0, <2>1, <4>1
        <5>2. logger.threshold \in call[u].seen /\ logger.enabled \in call[u].up
          BY <4>1 DEF CallsWitness
        <5> QED
          BY <5>1, <5>2, SawBefore
      <4>2. \A u \in Callers \ {t} : call'[u] = call[u]
        BY <1>0, <3>1
      <4> QED
        BY <4>1, <4>2 DEF Bystanders
    <3>5. call' \in [Callers -> LogCalls \cup {NoCall}] /\ call'[t] = new
      <4> HIDE DEF new
      <4> QED
        BY <1>0, <3>1, <3>3
    <3> QED
      BY <2>1, <3>1, <3>4, <3>5 DEF QuietStep, FilledOne
  <2> QED
    BY <2>2, <2>3
<1>10. CASE Emit(t)
  <2>1. call[t] # NoCall
    BY <1>4, <1>10 DEF Emit
  <2> QED
    BY <1>2, <1>10, <2>1 DEF Emit
<1> QED
  BY <1>1, <1>6, <1>7, <1>8, <1>9, <1>10

\* The two stores of set_min_severity().
StoredThreshold(t) ==
    /\ Started /\ Parsed(call[t].severity) /\ call[t].op = "set_min_severity" /\ call[t].at = "flag"
    /\ logger' = [logger EXCEPT !.threshold = call[t].severity]
    /\ strayed' = \E u \in Callers : call[u].op # "none" /\ call[u].at = "field"
    /\ Moved(t, "field") /\ answer' = NoValue

StoredField(t) ==
    /\ call[t].at = "field"
    /\ logger' = [logger EXCEPT !.field = call[t].severity]
    /\ strayed' = strayed
    /\ Answers(t, "ok", NoValue)

SetterStep(t) ==
    /\ Bystanders(t)
    /\ call' \in [Callers -> LogCalls \cup {NoCall}]
    /\ StoredThreshold(t) \/ StoredField(t)

LEMMA SetterSteps ==
  ASSUME LoggerAssumption, LoggerShape, CallsPassed, NEW t \in Callers, SetThreshold(t) \/ SetField(t)
  PROVE  QuietStep(t) \/ SetterStep(t)
<1>1. CASE SetField(t)
  <2>1. call[t] # NoCall /\ call[t].at = "field"
    BY <1>1, LoggerTypes DEF SetField, NoCall
  <2>2. logger' = [logger EXCEPT !.field = call[t].severity]
    BY <1>1 DEF SetField
  <2>3. logger'.threshold \in Severities \cup {NoValue} /\ logger'.enabled \in BOOLEAN
    BY <2>2, LoggerTypes DEF LoggerShape
  <2>4. CallEnds(t, "ok", NoValue) /\ strayed' = strayed
    BY <1>1 DEF SetField
  <2>5. /\ Bystanders(t) /\ Answers(t, "ok", NoValue)
        /\ call' \in [Callers -> LogCalls \cup {NoCall}]
    BY <2>1, <2>3, <2>4, EndsCall DEF Answers
  <2> QED
    BY <2>1, <2>2, <2>4, <2>5 DEF SetterStep, StoredField
<1>2. CASE SetThreshold(t)
  <2>1. call[t] # NoCall /\ call[t].op = "set_min_severity" /\ call[t].at = "flag"
    BY <1>2, LoggerTypes DEF SetThreshold, NoCall
  <2>2. CASE UNCHANGED <<logger, strayed>> /\ CallEnds(t, "error", NoValue)
    <3>1. logger'.threshold \in Severities \cup {NoValue} /\ logger'.enabled \in BOOLEAN
      BY <2>2, LoggerTypes
    <3>2. /\ Bystanders(t) /\ Answers(t, "error", NoValue)
          /\ call' \in [Callers -> LogCalls \cup {NoCall}]
      BY <2>1, <2>2, <3>1, EndsCall DEF Answers
    <3> QED
      BY <2>1, <2>2, <3>2 DEF QuietStep, Answered
  <2>3. CASE ~(UNCHANGED <<logger, strayed>> /\ CallEnds(t, "error", NoValue))
    <3>1. /\ Started /\ Parsed(call[t].severity)
          /\ logger' = [logger EXCEPT !.threshold = call[t].severity]
          /\ strayed' = \E u \in Callers : call[u].op # "none" /\ call[u].at = "field"
          /\ Proceed(t, "field")
      BY <1>2, <2>3 DEF SetThreshold
    <3>2. logger'.threshold \in Severities \cup {NoValue} /\ logger'.enabled \in BOOLEAN
      BY <3>1, LoggerTypes DEF LoggerShape, Parsed
    <3>3. /\ Bystanders(t) /\ Moved(t, "field") /\ answer' = NoValue
          /\ call' \in [Callers -> LogCalls \cup {NoCall}]
      BY <2>1, <3>1, <3>2, MovesCall
    <3> QED
      BY <2>1, <3>1, <3>3 DEF SetterStep, StoredThreshold
  <2> QED
    BY <2>2, <2>3
<1> QED
  BY <1>1, <1>2

\* The settings and the life of the instance: no call moves.
LifeStep ==
    \/ /\ SetEnabled
       /\ call' \in [Callers -> LogCalls \cup {NoCall}]
       /\ \A t \in Callers : call'[t] = IF call[t] = NoCall THEN NoCall ELSE Saw(call[t], logger')
    \/ SetFlushTimeout \/ Create \/ LogStart \/ Destroy
    \/ UNCHANGED loggerVars

LoggerSteps ==
    \/ \E t \in Callers : QuietStep(t) \/ SetterStep(t)
    \/ LifeStep

LEMMA LoggerStepsAre ==
  ASSUME LoggerAssumption, LoggerShape, CallsWitness, CallsPassed, [LoggerNext]_loggerVars
    PROVE LoggerSteps
<1>1. ASSUME SetEnabled PROVE LifeStep
  <2>1. logger' = [logger EXCEPT !.enabled = ~logger.enabled] /\ call' = Witnessed(logger', call)
    BY <1>1 DEF SetEnabled
  <2>2. logger'.threshold \in Severities \cup {NoValue} /\ logger'.enabled \in BOOLEAN
    BY <2>1, LoggerTypes DEF LoggerShape
  <2>3. call \in [Callers -> LogCalls \cup {NoCall}]
    BY DEF LoggerShape
  <2>4. /\ Witnessed(logger', call) \in [Callers -> LogCalls \cup {NoCall}]
        /\ \A t \in Callers :
              Witnessed(logger', call)[t] = IF call[t] = NoCall THEN NoCall ELSE Saw(call[t], logger')
    BY <2>2, <2>3, WitnessedCalls
  <2> QED
    BY <1>1, <2>1, <2>4 DEF LifeStep
<1> QED
  BY <1>1, QuietSteps, SetterSteps DEF LoggerNext, CallStep, LoggerSteps, LifeStep

-----------------------------------------------------------------------------
(* Logger: each part of the invariant is preserved *)

\* The severity and the timeout that a start takes from its section.
LEMMA TakenFromSection ==
  ASSUME LoggerAssumption, LoggerShape, logger.state # "none", NEW section \in Sections,
         section.severity = NoValue \/ Parsed(section.severity)
  PROVE  /\ Taken(section.severity, logger.field) \in Severities
         /\ section.timeout # -1 => Taken(section.timeout, logger.timeout) \in 0 .. MaxTimeout
BY DEF LoggerAssumption, LoggerShape, Sections, Taken, Parsed

LEMMA LoggerShapeStep ==
  ASSUME LoggerAssumption, LoggerShape, CallsPassed, LoggerSteps PROVE LoggerShape'
<1> DEFINE Field == Severities \cup {NoValue}
           Shape == [state : {"none", "created", "started"}, enabled : BOOLEAN, field : Field,
                     threshold : Field, timeout : 0 .. MaxTimeout]
<1>0. logger \in Shape /\ (logger.state # "none" => logger.field \in Severities)
      /\ call \in [Callers -> LogCalls \cup {NoCall}] /\ MaxLevel \in Nat \ {0} /\ MaxTimeout \in Nat
  BY DEF LoggerShape, LoggerAssumption
<1> SUFFICES logger' \in Shape /\ (logger'.state # "none" => logger'.field \in Severities)
             /\ call' \in [Callers -> LogCalls \cup {NoCall}]
  BY DEF LoggerShape
<1>1. ASSUME NEW t \in Callers, QuietStep(t)
      PROVE logger' = logger /\ call' \in [Callers -> LogCalls \cup {NoCall}]
  BY <1>1 DEF QuietStep
<1>2. ASSUME NEW t \in Callers, SetterStep(t)
      PROVE  logger' \in Shape /\ (logger'.state # "none" => logger'.field \in Severities)
             /\ call' \in [Callers -> LogCalls \cup {NoCall}]
  <2>1. call' \in [Callers -> LogCalls \cup {NoCall}]
    BY <1>2 DEF SetterStep
  <2>2. CASE StoredThreshold(t)
    <3>1. call[t].severity \in Severities /\ logger' = [logger EXCEPT !.threshold = call[t].severity]
      BY <2>2 DEF StoredThreshold, Parsed
    <3> QED
      BY <1>0, <2>1, <3>1
  <2>3. CASE StoredField(t)
    <3>1. call[t].severity \in Severities
      <4>1. call[t] # NoCall /\ call[t].at = "field"
        BY <2>3 DEF StoredField, Answers
      <4>2. Parsed(call[t].severity)
        BY <4>1 DEF CallsPassed
      <4> QED
        BY <4>2 DEF Parsed
    <3>2. logger' = [logger EXCEPT !.field = call[t].severity]
      BY <2>3 DEF StoredField
    <3> QED
      BY <1>0, <2>1, <3>1, <3>2
  <2> QED
    BY <1>2, <2>2, <2>3 DEF SetterStep
<1>3. CASE SetEnabled /\ call' \in [Callers -> LogCalls \cup {NoCall}]
  BY <1>0, <1>3 DEF SetEnabled
<1>4. CASE SetFlushTimeout
  BY <1>0, <1>4 DEF SetFlushTimeout
<1>5. CASE Create
  BY <1>0, <1>5 DEF Create, Severities
<1>6. CASE LogStart
  <2>1. PICK section \in Sections : StartFails(section) \/ StartSucceeds(section)
    BY <1>6 DEF LogStart
  <2>2. logger.state # "none" /\ call' = call
    BY <1>6 DEF LogStart
  <2>3. section.severity = NoValue \/ Parsed(section.severity)
    BY <2>1 DEF StartFails, StartSucceeds
  <2>4. CASE StartFails(section)
    BY <1>0, <2>2, <2>3, <2>4, TakenFromSection DEF StartFails
  <2>5. CASE StartSucceeds(section)
    BY <1>0, <2>2, <2>3, <2>5, TakenFromSection DEF StartSucceeds
  <2> QED
    BY <2>1, <2>4, <2>5
<1>7. CASE Destroy
  BY <1>0, <1>7 DEF Destroy
<1>8. CASE UNCHANGED loggerVars
  BY <1>0, <1>8 DEF loggerVars
<1> QED
  BY <1>0, <1>1, <1>2, <1>3, <1>4, <1>5, <1>6, <1>7, <1>8 DEF LoggerSteps, LifeStep

\* What a call that is not t's is after t's step, or after a setting changed.
LEMMA OtherCall ==
  ASSUME LoggerAssumption, LoggerShape, LoggerShape', NEW u \in Callers,
         call'[u] = IF call[u] = NoCall THEN NoCall ELSE Saw(call[u], logger')
  PROVE  \/ call[u] = NoCall /\ call'[u] = NoCall
         \/ /\ call[u] \in LogCalls /\ call'[u] \in LogCalls /\ call[u] # NoCall /\ call'[u] # NoCall
            /\ call'[u].op = call[u].op /\ call'[u].at = call[u].at /\ call'[u].severity = call[u].severity
            /\ call'[u].ids = call[u].ids /\ call'[u].span = call[u].span /\ call'[u].added = call[u].added
            /\ call'[u].seen = call[u].seen \cup {logger'.threshold}
            /\ call'[u].up = call[u].up \cup {logger'.enabled}
<1>1. logger'.threshold \in Severities \cup {NoValue} /\ logger'.enabled \in BOOLEAN
  BY DEF LoggerShape
<1>2. CASE call[u] # NoCall
  <2>1. call[u] \in LogCalls
    BY <1>2 DEF LoggerShape
  <2> QED
    BY <1>1, <1>2, <2>1, SawCall
<1> QED
  BY <1>2

\* And t's own call, when it moves on.
LEMMA MovedCall ==
  ASSUME LoggerAssumption, LoggerShape, LoggerShape', NEW t \in Callers,
         NEW at \in {"check", "fill", "body", "field"}, Moved(t, at)
  PROVE  /\ call[t] \in LogCalls /\ call'[t] \in LogCalls /\ call'[t] # NoCall /\ call'[t].at = at
         /\ call'[t].op = call[t].op /\ call'[t].severity = call[t].severity
         /\ call'[t].ids = call[t].ids /\ call'[t].span = call[t].span /\ call'[t].added = call[t].added
         /\ call'[t].seen = call[t].seen \cup {logger'.threshold}
         /\ call'[t].up = call[t].up \cup {logger'.enabled}
<1> DEFINE new == [call[t] EXCEPT !.at = at]
<1>1. logger'.threshold \in Severities \cup {NoValue} /\ logger'.enabled \in BOOLEAN /\ call[t] \in LogCalls
  BY DEF LoggerShape, Moved
<1>2. /\ new \in LogCalls /\ new.at = at
      /\ new.op = call[t].op /\ new.severity = call[t].severity
      /\ new.ids = call[t].ids /\ new.span = call[t].span /\ new.added = call[t].added
      /\ new.seen = call[t].seen /\ new.up = call[t].up
  BY <1>1 DEF LogCalls
<1>3. call'[t] = Saw(new, logger')
  BY DEF Moved
<1> HIDE DEF new
<1>4. /\ Saw(new, logger') \in LogCalls /\ Saw(new, logger') # NoCall
      /\ \A f \in {"op", "at", "severity", "ids", "span", "body", "added"} : Saw(new, logger')[f] = new[f]
      /\ Saw(new, logger').seen = new.seen \cup {logger'.threshold}
      /\ Saw(new, logger').up = new.up \cup {logger'.enabled}
  BY <1>1, <1>2, SawCall
<1>5. /\ call'[t].op = new.op /\ call'[t].at = new.at /\ call'[t].severity = new.severity
      /\ call'[t].ids = new.ids /\ call'[t].span = new.span /\ call'[t].added = new.added
  BY <1>3, <1>4
<1> QED
  BY <1>1, <1>2, <1>3, <1>4, <1>5

\* And when it fills.
LEMMA FilledCall ==
  ASSUME LoggerAssumption, LoggerShape, NEW t \in Callers, FilledOne(t)
  PROVE  /\ call[t] \in LogCalls /\ call'[t] # NoCall
         /\ call'[t].op = call[t].op /\ call'[t].severity = call[t].severity
         /\ call'[t].ids = call[t].ids /\ call'[t].span = call[t].span
         /\ call'[t].added = call[t].added + 1 /\ call'[t].at = Filled(call[t].added + 1)
         /\ call'[t].seen = call[t].seen /\ call'[t].up = call[t].up
<1>1. call[t] \in LogCalls
  BY DEF LoggerShape, FilledOne
<1> QED
  BY <1>1 DEF FilledOne, LogCalls, NoCall

\* Every call has seen the flag and the threshold as they now are.
LEMMA CallsWitnessStep ==
  ASSUME LoggerAssumption, LoggerShape, LoggerShape', CallsWitness, CallsPassed, LoggerSteps
    PROVE CallsWitness'
<1> SUFFICES ASSUME NEW u \in Callers, call'[u] # NoCall
             PROVE  /\ logger'.threshold \in call'[u].seen /\ logger'.enabled \in call'[u].up
                    /\ logger'.state # "none"
                    /\ call'[u].at # "flag" => logger'.state = "started"
  BY DEF CallsWitness, Started
<1> DEFINE Good == /\ logger'.threshold \in call'[u].seen /\ logger'.enabled \in call'[u].up
                   /\ logger'.state # "none"
                   /\ call'[u].at # "flag" => logger'.state = "started"
<1>0. call[u] # NoCall => /\ logger.threshold \in call[u].seen /\ logger.enabled \in call[u].up
                          /\ logger.state # "none"
                          /\ call[u].at # "flag" => logger.state = "started"
  BY DEF CallsWitness, Started
<1>1. ASSUME call'[u] = IF call[u] = NoCall THEN NoCall ELSE Saw(call[u], logger'),
             logger'.state = logger.state
      PROVE  Good
  BY <1>0, <1>1, OtherCall
<1>2. ASSUME NEW t \in Callers, QuietStep(t) PROVE Good
  <2>0. logger' = logger /\ Bystanders(t)
    BY <1>2 DEF QuietStep
  <2>1. CASE u # t
    BY <1>1, <2>0, <2>1 DEF Bystanders
  <2>2. CASE u = t /\ Begun(t) /\ logger.state # "none"
    BY <2>0, <2>2 DEF Begun
  <2>3. CASE u = t /\ Answered(t)
    BY <2>3 DEF Answered, Answers, Ended
  <2>4. ASSUME u = t, NEW at \in {"check", "fill", "body", "field"}, Moved(t, at), Started
        PROVE Good
    BY <1>0, <2>0, <2>4, MovedCall DEF Started
  <2>5. CASE u = t /\ MovedOn(t)
    <3>1. Started
      BY <1>0, <2>5 DEF MovedOn, Moved, Started
    <3>2. Filled(0) \in {"fill", "body"}
      BY DEF Filled
    <3> QED
      BY <2>4, <2>5, <3>1, <3>2 DEF MovedOn
  <2>6. CASE u = t /\ FilledOne(t)
    <3>1. call[t] # NoCall /\ call[t].at = "fill"
      BY <2>6 DEF FilledOne
    <3> QED
      BY <1>0, <2>0, <2>6, <3>1, FilledCall
  <2> QED
    BY <1>2, <2>1, <2>2, <2>3, <2>5, <2>6 DEF QuietStep
<1>3. ASSUME NEW t \in Callers, SetterStep(t) PROVE Good
  <2>0. Bystanders(t)
    BY <1>3 DEF SetterStep
  <2>1. logger'.state = logger.state
    BY <1>3 DEF SetterStep, StoredThreshold, StoredField, LoggerShape
  <2>2. CASE u # t
    BY <1>1, <2>0, <2>1, <2>2 DEF Bystanders
  <2>3. CASE u = t /\ StoredThreshold(t)
    BY <2>1, <2>3, MovedCall DEF StoredThreshold, Started
  <2>4. CASE u = t /\ StoredField(t)
    BY <2>4 DEF StoredField, Answers, Ended
  <2> QED
    BY <1>3, <2>2, <2>3, <2>4 DEF SetterStep
<1>4. CASE /\ SetEnabled
           /\ \A t \in Callers : call'[t] = IF call[t] = NoCall THEN NoCall ELSE Saw(call[t], logger')
  <2>1. logger'.state = logger.state
    BY <1>4 DEF SetEnabled, LoggerShape
  <2> QED
    BY <1>1, <1>4, <2>1
<1>5. CASE SetFlushTimeout
  BY <1>0, <1>5 DEF SetFlushTimeout, LoggerShape
<1>6. CASE Create \/ LogStart \/ Destroy
  BY <1>0, <1>6 DEF Create, LogStart, Destroy, Drained
<1>7. CASE UNCHANGED loggerVars
  BY <1>0, <1>7 DEF loggerVars
<1> QED
  BY <1>2, <1>3, <1>4, <1>5, <1>6, <1>7 DEF LoggerSteps, LifeStep

\* What a call has passed stays passed: what it saw only grows.
LEMMA CallsPassedStep ==
  ASSUME LoggerAssumption, LoggerTypeOK, LoggerShape, LoggerShape', CallsWitness, CallsPassed, LoggerSteps
  PROVE  CallsPassed'
<1> DEFINE Fine(c) ==
             /\ c.ids = SpanIds(c.span)
             /\ c.at \in {"fill", "body"} => c.op = "log"
             /\ c.op = "set_min_severity" => c.at \in {"flag", "field"}
             /\ c.at = "field" => c.op = "set_min_severity" /\ Parsed(c.severity)
             /\ c.at \in {"check", "fill", "body"} => TRUE \in c.up
             /\ c.at \in {"fill", "body"} => Parsed(c.severity)
                /\ \E s \in c.seen \ {NoValue} : c.severity >= s
             /\ c.at \in {"flag", "check"} => c.added = 0
             /\ c.at = "fill" => c.added < NumAttributes
             /\ c.at = "body" => c.added = NumAttributes
<1> SUFFICES ASSUME NEW u \in Callers, call'[u] # NoCall PROVE Fine(call'[u])
  BY DEF CallsPassed
<1>0. call[u] # NoCall => Fine(call[u])
  BY DEF CallsPassed
<1>00. NumAttributes \in Nat /\ NoValue \notin Int
  BY DEF LoggerAssumption
<1>1. ASSUME call'[u] = IF call[u] = NoCall THEN NoCall ELSE Saw(call[u], logger')
      PROVE Fine(call'[u])
  BY <1>0, <1>1, OtherCall
<1>2. ASSUME NEW t \in Callers, QuietStep(t) PROVE Fine(call'[u])
  <2>0. logger' = logger /\ Bystanders(t)
    BY <1>2 DEF QuietStep
  <2>1. CASE u # t
    BY <1>1, <2>0, <2>1 DEF Bystanders
  <2>2. CASE u = t /\ Begun(t)
    BY <2>2 DEF Begun
  <2>3. CASE u = t /\ Answered(t)
    BY <2>3 DEF Answered, Answers, Ended
  <2>4. CASE /\ u = t /\ Moved(t, "check") /\ call[t].at = "flag"
             /\ call[t].op # "set_min_severity" /\ logger.enabled
    <3>1. call[t] # NoCall /\ logger'.enabled = TRUE
      BY <2>0, <2>4, LoggerTypes DEF Moved
    <3>2. call'[t].op # "set_min_severity" /\ call'[t].at = "check" /\ TRUE \in call'[t].up
          /\ call'[t].ids = call[t].ids /\ call'[t].span = call[t].span /\ call'[t].added = call[t].added
      BY <2>4, <3>1, MovedCall
    <3> QED
      BY <1>0, <2>4, <3>1, <3>2
  <2>5. CASE /\ u = t /\ Moved(t, Filled(0)) /\ call[t].added = 0
             /\ call[t].op = "log" /\ call[t].at = "check"
             /\ Parsed(call[t].severity) /\ call[t].severity >= logger.threshold
    <3>1. call[t] # NoCall /\ Filled(0) \in {"fill", "body"}
      BY <2>5 DEF Moved, Filled
    <3>2. logger.threshold \in Severities /\ logger.threshold # NoValue
      <4>1. Started
        BY <2>5, <3>1 DEF CallsWitness
      <4>2. logger.threshold \in Severities /\ MaxLevel \in Nat
        BY <4>1 DEF LoggerTypeOK, LoggerAssumption
      <4> QED
        BY <1>00, <4>2 DEF Severities
    <3>3. /\ call'[t].op = "log" /\ call'[t].at = Filled(0) /\ call'[t].severity = call[t].severity
          /\ call'[t].ids = call[t].ids /\ call'[t].span = call[t].span /\ call'[t].added = 0
          /\ call'[t].seen = call[t].seen \cup {logger.threshold}
          /\ call'[t].up = call[t].up \cup {logger'.enabled}
      BY <2>0, <2>5, <3>1, MovedCall
    <3>4. \E s \in call'[t].seen \ {NoValue} : call'[t].severity >= s
      BY <2>5, <3>2, <3>3
    <3>5. TRUE \in call'[t].up
      BY <1>0, <2>5, <3>1, <3>3
    <3>6. call[t].ids = SpanIds(call[t].span)
      BY <1>0, <2>5, <3>1
    <3>7. /\ Filled(0) = "fill" => 0 < NumAttributes
          /\ Filled(0) = "body" => 0 = NumAttributes
      BY <1>00 DEF Filled
    <3> QED
      BY <2>5, <3>1, <3>3, <3>4, <3>5, <3>6, <3>7
  <2>6. CASE u = t /\ FilledOne(t)
    <3>1. call[t] # NoCall /\ call[t].at = "fill"
      BY <2>6 DEF FilledOne
    <3>2. call[t].added \in Nat /\ call[t].added < NumAttributes
      <4>1. call[t] \in LogCalls
        BY <2>6, FilledCall
      <4>2. call[t].added \in Nat
        BY <1>00, <4>1 DEF LogCalls
      <4> QED
        BY <1>0, <2>6, <3>1, <4>2
    <3>3. /\ call'[t].op = call[t].op /\ call'[t].severity = call[t].severity
          /\ call'[t].ids = call[t].ids /\ call'[t].span = call[t].span
          /\ call'[t].added = call[t].added + 1 /\ call'[t].at = Filled(call[t].added + 1)
          /\ call'[t].seen = call[t].seen /\ call'[t].up = call[t].up
      BY <2>6, FilledCall
    <3>4. /\ Filled(call[t].added + 1) \in {"fill", "body"}
          /\ Filled(call[t].added + 1) = "fill" => call[t].added + 1 < NumAttributes
          /\ Filled(call[t].added + 1) = "body" => call[t].added + 1 = NumAttributes
      BY <1>00, <3>2 DEF Filled
    <3>5. Fine(call[t])
      BY <1>0, <2>6, <3>1
    <3>6. /\ call'[t].ids = SpanIds(call'[t].span) /\ call'[t].op = "log" /\ TRUE \in call'[t].up
          /\ Parsed(call'[t].severity) /\ \E s \in call'[t].seen \ {NoValue} : call'[t].severity >= s
      BY <3>1, <3>3, <3>5
    <3> QED
      BY <2>6, <3>3, <3>4, <3>6
  <2> QED
    BY <1>2, <2>1, <2>2, <2>3, <2>4, <2>5, <2>6 DEF QuietStep, MovedOn
<1>3. ASSUME NEW t \in Callers, SetterStep(t) PROVE Fine(call'[u])
  <2>0. Bystanders(t)
    BY <1>3 DEF SetterStep
  <2>1. CASE u # t
    BY <1>1, <2>0, <2>1 DEF Bystanders
  <2>2. CASE u = t /\ StoredThreshold(t)
    <3>1. call[t] # NoCall
      BY <2>2 DEF StoredThreshold, Moved
    <3> QED
      BY <1>0, <2>2, <3>1, MovedCall DEF StoredThreshold
  <2>3. CASE u = t /\ StoredField(t)
    BY <2>3 DEF StoredField, Answers, Ended
  <2> QED
    BY <1>3, <2>1, <2>2, <2>3 DEF SetterStep
<1>4. CASE LifeStep
  <2>1. CASE \A t \in Callers : call'[t] = IF call[t] = NoCall THEN NoCall ELSE Saw(call[t], logger')
    BY <1>1, <2>1
  <2>2. CASE call' = call
    BY <1>0, <2>2
  <2> QED
    BY <1>4, <2>1, <2>2 DEF LifeStep, SetFlushTimeout, Create, LogStart, Destroy, loggerVars
<1> QED
  BY <1>2, <1>3, <1>4 DEF LoggerSteps

\* A setter that finds no other half-way settles what the ones before it left.
LEMMA SettersStep ==
  ASSUME LoggerAssumption, LoggerShape, LoggerShape', CallsPassed, SettersInTurn, SeveritySettles, LoggerSteps
  PROVE  SettersInTurn' /\ SeveritySettles'
<1> DEFINE Half(u) == call[u].op # "none" /\ call[u].at = "field"
           Good == /\ logger.state = "started" /\ ~strayed => \A t \in Callers : Half(t) =>
                         call[t].severity = logger.threshold /\ \A u \in Callers : Half(u) => u = t
                   /\ logger.state = "started" /\ ~strayed /\ (\A t \in Callers : ~Half(t))
                         => logger.field = logger.threshold
<1>0. Good
  BY DEF SettersInTurn, SeveritySettles, Started
<1> SUFFICES Good'
  BY DEF SettersInTurn, SeveritySettles, Started
<1>1. ASSUME NEW u \in Callers, call'[u] = IF call[u] = NoCall THEN NoCall ELSE Saw(call[u], logger')
      PROVE  Half(u)' = Half(u) /\ (Half(u) => call'[u].severity = call[u].severity)
  BY <1>1, OtherCall
<1>2. ASSUME NEW u \in Callers, call'[u] = NoCall PROVE ~Half(u)'
  BY <1>2 DEF NoCall
<1>3. ASSUME NEW t \in Callers, QuietStep(t) PROVE Good'
  <2>1. logger' = logger /\ strayed' = strayed /\ Bystanders(t)
    BY <1>3 DEF QuietStep
  <2>2. \A u \in Callers \ {t} : Half(u)' = Half(u) /\ (Half(u) => call'[u].severity = call[u].severity)
    BY <1>1, <2>1 DEF Bystanders
  <2>3. ~Half(t)'
    <3>1. CASE Begun(t)
      BY <3>1 DEF Begun
    <3>2. CASE Answered(t)
      BY <1>2, <3>2 DEF Answered, Answers, Ended
    <3>3. CASE MovedOn(t)
      BY <3>3, MovedCall DEF MovedOn, Filled
    <3>4. CASE FilledOne(t)
      BY <3>4, FilledCall DEF Filled
    <3> QED
      BY <1>3, <3>1, <3>2, <3>3, <3>4 DEF QuietStep
  <2>4. ~Half(t)
    <3>1. CASE Begun(t)
      BY <3>1 DEF Begun, NoCall
    <3>2. CASE FilledOne(t) \/ Answered(t) \/ MovedOn(t)
      BY <3>2 DEF FilledOne, Answered, MovedOn
    <3> QED
      BY <1>3, <3>1, <3>2 DEF QuietStep
  <2>5. Half(t)' <=> Half(t)
    BY <2>3, <2>4
  <2>6. \A u \in Callers : Half(u)' = Half(u) /\ (Half(u) => call'[u].severity = call[u].severity)
    BY <2>2, <2>4, <2>5
  <2> HIDE DEF Half
  <2> QED
    BY <1>0, <2>1, <2>6
<1>4. ASSUME NEW t \in Callers, SetterStep(t), StoredThreshold(t) PROVE Good'
  <2>1. /\ logger'.state = "started" /\ logger'.threshold = call[t].severity
        /\ strayed' = \E u \in Callers : Half(u)
    BY <1>4 DEF StoredThreshold, LoggerShape, Started, Parsed
  <2>2. \A u \in Callers \ {t} : Half(u)' = Half(u)
    BY <1>1, <1>4 DEF SetterStep, Bystanders
  <2>3. Half(t)' /\ call'[t].severity = call[t].severity
    BY <1>4, MovedCall DEF StoredThreshold
  <2> HIDE DEF Half
  <2> QED
    BY <2>1, <2>2, <2>3
<1>5. ASSUME NEW t \in Callers, SetterStep(t), StoredField(t) PROVE Good'
  <2>1. /\ logger'.state = logger.state /\ logger'.threshold = logger.threshold
        /\ logger'.field = call[t].severity /\ strayed' = strayed
    BY <1>5 DEF StoredField, LoggerShape
  <2>2. \A u \in Callers \ {t} : Half(u)' = Half(u) /\ (Half(u) => call'[u].severity = call[u].severity)
    BY <1>1, <1>5 DEF SetterStep, Bystanders
  <2>3. Half(t)
    BY <1>5, LoggerTypes DEF StoredField, Answers
  <2>4. ~Half(t)'
    BY <1>2, <1>5 DEF StoredField, Answers, Ended
  <2> HIDE DEF Half
  <2> QED
    BY <1>0, <2>1, <2>2, <2>3, <2>4
<1>6. CASE /\ SetEnabled
           /\ \A t \in Callers : call'[t] = IF call[t] = NoCall THEN NoCall ELSE Saw(call[t], logger')
  <2>1. /\ logger'.state = logger.state /\ logger'.threshold = logger.threshold
        /\ logger'.field = logger.field /\ strayed' = strayed
    BY <1>6 DEF SetEnabled, LoggerShape
  <2>2. \A u \in Callers : Half(u)' = Half(u) /\ (Half(u) => call'[u].severity = call[u].severity)
    BY <1>1, <1>6
  <2> HIDE DEF Half
  <2> QED
    BY <1>0, <2>1, <2>2
<1>7. CASE SetFlushTimeout
  <2>1. /\ logger'.state = logger.state /\ logger'.threshold = logger.threshold
        /\ logger'.field = logger.field /\ strayed' = strayed /\ call' = call
    BY <1>7 DEF SetFlushTimeout, LoggerShape
  <2> QED
    BY <1>0, <2>1
<1>8. CASE Create \/ Destroy
  BY <1>8 DEF Create, Destroy
<1>9. CASE LogStart
  <2>1. PICK section \in Sections : StartFails(section) \/ StartSucceeds(section)
    BY <1>9 DEF LogStart
  <2>2. call' = call /\ \A t \in Callers : ~Half(t)
    BY <1>9 DEF LogStart, Drained, NoCall
  <2>3. CASE StartFails(section)
    <3>1. logger'.state = logger.state /\ logger'.threshold = logger.threshold
          /\ logger'.field = Taken(section.severity, logger.field)
          /\ strayed' = (strayed \/ (logger.state = "started" /\ section.severity # NoValue))
      BY <2>3 DEF StartFails, LoggerShape, Started
    <3> QED
      BY <1>0, <2>2, <3>1 DEF Taken
  <2>4. CASE StartSucceeds(section)
    <3>1. logger'.field = logger'.threshold
      BY <2>4 DEF StartSucceeds, LoggerShape
    <3> QED
      BY <2>2, <3>1
  <2> QED
    BY <2>1, <2>3, <2>4
<1>10. CASE UNCHANGED loggerVars
  BY <1>0, <1>10 DEF loggerVars
<1> QED
  BY <1>3, <1>4, <1>5, <1>6, <1>7, <1>8, <1>9, <1>10 DEF LoggerSteps, LifeStep, SetterStep

\* Each answer has its reason in what the call saw.
LEMMA AnswersStep ==
  ASSUME LoggerAssumption, LoggerTypeOK, LoggerShape, LoggerShape', CallsWitness, CallsPassed, LoggerSteps,
         AnswersExplained, RecordsWhole
  PROVE  AnswersExplained' /\ RecordsWhole'
<1> DEFINE Fine(a) ==
      LET c == a.call IN
      /\ c.op # "set_min_severity" =>
            /\ a.result \in {"yes", "emitted"} =>
                  TRUE \in c.up /\ \E s \in c.seen \ {NoValue} : c.severity >= s
            /\ a.result = "refused" =>
                  FALSE \in c.up \/ \E s \in c.seen \ {NoValue} : c.severity < s
      /\ c.op = "log" =>
            /\ (a.record # NoValue) = (a.result = "emitted")
            /\ a.record # NoValue =>
                  /\ a.record.attributes = NumAttributes /\ a.record.severity \in Severities
                  /\ a.record.ids = IF c.span = "live" THEN "span" ELSE "zero"
<1> SUFFICES answer' # NoValue => Fine(answer')
  BY DEF AnswersExplained, RecordsWhole
<1>0. answer # NoValue => Fine(answer)
  BY DEF AnswersExplained, RecordsWhole
<1>1. ASSUME NEW t \in Callers, QuietStep(t), Answered(t) PROVE Fine(answer')
  <2> DEFINE c == call[t]
             w == Saw(call[t], logger')
  <2>0. logger' = logger
    BY <1>1 DEF QuietStep
  <2>1. c \in LogCalls /\ c # NoCall
    BY <1>1 DEF Answered, Answers, LoggerShape
  <2>2. logger.threshold \in Severities \cup {NoValue} /\ logger.enabled \in BOOLEAN
    BY LoggerTypes
  <2>3. /\ w.op = c.op /\ w.severity = c.severity /\ w.span = c.span
        /\ w.seen = c.seen \cup {logger.threshold} /\ w.up = c.up \cup {logger.enabled}
    <3> HIDE DEF c
    <3>1. /\ \A f \in {"op", "at", "severity", "ids", "span", "body", "added"} : Saw(c, logger)[f] = c[f]
          /\ Saw(c, logger).seen = c.seen \cup {logger.threshold}
          /\ Saw(c, logger).up = c.up \cup {logger.enabled}
      BY <2>1, <2>2, SawCall
    <3>2. w = Saw(c, logger)
      BY <2>0 DEF c
    <3> HIDE DEF w
    <3> QED
      BY <3>1, <3>2
  <2>4. c.at \in {"check", "fill", "body"} => TRUE \in c.up
    BY <2>1 DEF CallsPassed
  <2>5. Started => logger.threshold \in Severities /\ logger.threshold # NoValue
    <3>1. Started => logger.threshold \in Severities
      BY DEF LoggerTypeOK
    <3> QED
      BY <3>1 DEF Severities, LoggerAssumption
  <2>6. CASE answer' = [call |-> w, result |-> "error", record |-> NoValue]
    <3> HIDE DEF c, w
    <3> QED
      BY <2>6
  <2>7. CASE /\ answer' = [call |-> w, result |-> "refused", record |-> NoValue]
             /\ ~logger.enabled \/ (Started /\ c.severity < logger.threshold)
    <3>1. logger.enabled = FALSE \/ (Started /\ c.severity < logger.threshold)
      BY <2>2, <2>7
    <3>2. FALSE \in w.up \/ \E s \in w.seen \ {NoValue} : w.severity < s
      BY <2>3, <2>5, <3>1
    <3> HIDE DEF c, w
    <3> QED
      BY <2>7, <3>2
  <2>8. CASE /\ answer' = [call |-> w, result |-> "yes", record |-> NoValue]
             /\ c.op # "log" /\ c.at = "check" /\ c.severity >= logger.threshold
    <3>1. Started
      BY <2>1, <2>8 DEF CallsWitness
    <3>2. TRUE \in w.up /\ \E s \in w.seen \ {NoValue} : w.severity >= s
      BY <2>3, <2>4, <2>5, <2>8, <3>1
    <3> HIDE DEF c, w
    <3> QED
      BY <2>3, <2>8, <3>2
  <2>9. CASE answer' = [call |-> w, result |-> "emitted", record |-> Record(t)] /\ c.at = "body"
    <3>1. /\ c.op = "log" /\ c.ids = SpanIds(c.span) /\ c.added = NumAttributes
          /\ Parsed(c.severity) /\ \E s \in c.seen \ {NoValue} : c.severity >= s
      BY <2>1, <2>9 DEF CallsPassed
    <3>2. TRUE \in w.up /\ \E s \in w.seen \ {NoValue} : w.severity >= s
      BY <2>3, <2>4, <2>9, <3>1
    <3>3. /\ Record(t).attributes = NumAttributes /\ Record(t).severity \in Severities
          /\ Record(t).ids = IF c.span = "live" THEN "span" ELSE "zero"
      BY <3>1 DEF Record, Parsed, SpanIds
    <3>4. Record(t) # NoValue
      <4>1. Record(t) \in [severity : Nat, ids : {"span", "zero"}, attributes : Nat]
        BY <2>1, <3>1 DEF Record, LogCalls, LoggerAssumption
      <4> QED
        BY <4>1 DEF LoggerAssumption
    <3> HIDE DEF c, w
    <3> QED
      BY <2>3, <2>9, <3>2, <3>3, <3>4
  <2> HIDE DEF Fine
  <2> QED
    BY <1>1, <2>6, <2>7, <2>8, <2>9 DEF Answered, Answers
<1>2. ASSUME NEW t \in Callers, QuietStep(t), ~Answered(t) PROVE answer' = NoValue
  BY <1>2 DEF QuietStep, MovedOn, FilledOne
<1>3. ASSUME NEW t \in Callers, SetterStep(t), StoredThreshold(t) PROVE answer' = NoValue
  BY <1>3 DEF StoredThreshold
<1>4. ASSUME NEW t \in Callers, SetterStep(t), StoredField(t) PROVE Fine(answer')
  <2>1. call[t] \in LogCalls /\ call[t] # NoCall /\ call[t].at = "field"
    BY <1>4 DEF StoredField, Answers, LoggerShape
  <2>2. call[t].op = "set_min_severity"
    BY <2>1 DEF CallsPassed
  <2>3. logger'.threshold \in Severities \cup {NoValue} /\ logger'.enabled \in BOOLEAN
    BY DEF LoggerShape
  <2>4. Saw(call[t], logger').op = "set_min_severity"
    BY <2>1, <2>2, <2>3, SawCall
  <2>5. answer'.call.op = "set_min_severity"
    BY <1>4, <2>4 DEF StoredField, Answers
  <2> QED
    BY <2>5
<1>5. CASE LifeStep
  <2>1. answer' = NoValue \/ answer' = answer
    BY <1>5 DEF LifeStep, SetEnabled, SetFlushTimeout, Create, LogStart, Destroy, loggerVars
  <2> HIDE DEF Fine
  <2> QED
    BY <1>0, <2>1
<1> HIDE DEF Fine
<1> QED
  BY <1>1, <1>2, <1>3, <1>4, <1>5 DEF LoggerSteps, SetterStep

\* The threshold is the SDK's while there is a pipeline, and only then.
LEMMA LoggerTypeStep ==
  ASSUME LoggerAssumption, LoggerTypeOK, LoggerShape, LoggerShape', CallsWitness', CallsPassed, LoggerSteps,
         [LoggerNext]_loggerVars
  PROVE  LoggerTypeOK'
<1>0. logger \in [state : {"none", "created", "started"}, enabled : BOOLEAN,
                  field : Severities \cup {NoValue},
                  threshold : Severities \cup {NoValue}, timeout : 0 .. MaxTimeout]
  BY DEF LoggerShape
<1> DEFINE Applied == logger.threshold \in IF logger.state = "started" THEN Severities ELSE {NoValue}
<1>1. Applied'
  <2>0. Applied
    BY DEF LoggerTypeOK, Started
  <2>1. ASSUME NEW t \in Callers, QuietStep(t) PROVE Applied'
    BY <2>0, <2>1 DEF QuietStep
  <2>2. ASSUME NEW t \in Callers, StoredThreshold(t) PROVE Applied'
    BY <1>0, <2>2 DEF StoredThreshold, Started, Parsed
  <2>3. ASSUME NEW t \in Callers, StoredField(t) PROVE Applied'
    BY <1>0, <2>0, <2>3 DEF StoredField
  <2>4. CASE SetEnabled
    BY <1>0, <2>0, <2>4 DEF SetEnabled
  <2>5. CASE SetFlushTimeout
    BY <1>0, <2>0, <2>5 DEF SetFlushTimeout
  <2>6. CASE Create \/ Destroy
    BY <2>6 DEF Create, Destroy
  <2>7. CASE LogStart
    <3>1. PICK section \in Sections : StartFails(section) \/ StartSucceeds(section)
      BY <2>7 DEF LogStart
    <3>2. CASE StartFails(section)
      BY <1>0, <2>0, <3>2 DEF StartFails
    <3>3. CASE StartSucceeds(section)
      <4>1. Taken(section.severity, logger.field) \in Severities
        <5>1. logger.state # "none" /\ (section.severity = NoValue \/ Parsed(section.severity))
          BY <2>7, <3>3 DEF LogStart, StartSucceeds
        <5> QED
          BY <5>1, TakenFromSection
      <4>2. logger'.state = "started" /\ logger'.threshold = Taken(section.severity, logger.field)
        BY <1>0, <3>3 DEF StartSucceeds
      <4> QED
        BY <4>1, <4>2
    <3> QED
      BY <3>1, <3>2, <3>3
  <2>8. CASE UNCHANGED loggerVars
    BY <2>0, <2>8 DEF loggerVars
  <2> HIDE DEF Applied
  <2> QED
    BY <2>1, <2>2, <2>3, <2>4, <2>5, <2>6, <2>7, <2>8 DEF LoggerSteps, LifeStep, SetterStep
<1>2. calls' \in 0 .. MaxLogCalls
  <2>1. calls \in 0 .. MaxLogCalls /\ MaxLogCalls \in Nat
    BY DEF LoggerTypeOK, LoggerAssumption
  <2>2. calls' = calls \/ (calls < MaxLogCalls /\ calls' = calls + 1)
    BY DEF LoggerNext, CallStep, CallBegins, LogFlag, AskFlag, Check, Fill, Emit, SetThreshold,
       SetField,
       SetEnabled, SetFlushTimeout, Create, LogStart, Destroy, loggerVars
  <2> QED
    BY <2>1, <2>2
<1>3. strayed' \in BOOLEAN
  <2>1. strayed \in BOOLEAN
    BY DEF LoggerTypeOK
  <2>2. CASE LogStart
    <3>1. \/ strayed' = FALSE
          \/ \E section \in Sections : strayed' = (strayed \/ (Started /\ section.severity # NoValue))
      BY <2>2 DEF LogStart, StartFails, StartSucceeds
    <3> QED
      BY <3>1, Zenon
  <2>3. ASSUME NEW t \in Callers, SetThreshold(t) PROVE strayed' \in BOOLEAN
    <3>1. strayed' = strayed \/ strayed' = \E u \in Callers : call[u].op # "none" /\ call[u].at = "field"
      BY <2>3 DEF SetThreshold
    <3> QED
      BY <2>1, <3>1, Zenon
  <2>4. CASE Destroy
    BY <2>4 DEF Destroy
  <2>5. CASE UNCHANGED strayed
    BY <2>1, <2>5
  <2> QED
    BY <2>2, <2>3, <2>4, <2>5
    DEF LoggerNext, CallStep, CallBegins, LogFlag, AskFlag, Check, Fill, Emit, SetField, SetEnabled,
        SetFlushTimeout, Create, loggerVars
<1>4. \A t \in Callers : call'[t] # NoCall =>
         call'[t].added \in 0 .. NumAttributes /\ call'[t].seen # {} /\ call'[t].up # {}
  <2>1. \A t \in Callers : call'[t] # NoCall => call'[t] \in LogCalls
    BY DEF LoggerShape
  <2> QED
    BY <2>1 DEF CallsWitness, LogCalls
<1>5. /\ logger'.state \in {"none", "created", "started"} /\ logger'.enabled \in BOOLEAN
      /\ logger'.field \in Severities \cup {NoValue} /\ logger'.timeout \in 0 .. MaxTimeout
  BY DEF LoggerShape
<1> QED
  BY <1>1, <1>2, <1>3, <1>4, <1>5 DEF LoggerTypeOK, Started

-----------------------------------------------------------------------------
(* Logger: the theorems *)

LEMMA LoggerInitInv == ASSUME LoggerAssumption, LoggerInit PROVE LoggerInv
<1> USE DEF LoggerInit
<1>0. MaxLevel \in Nat \ {0} /\ MaxTimeout \in Nat /\ MaxLogCalls \in Nat
  BY DEF LoggerAssumption
<1>1. LoggerTypeOK /\ LoggerShape
  <2>1. /\ logger = [state |-> "none", enabled |-> FALSE, field |-> NoValue, threshold |-> NoValue,
                     timeout |-> 0]
        /\ call = [t \in Callers |-> NoCall] /\ strayed = FALSE /\ calls = 0
    OBVIOUS
  <2>2. LoggerShape
    BY <1>0, <2>1 DEF LoggerShape
  <2>3. \A t \in Callers : call[t] = NoCall
    BY <2>1
  <2>4. /\ logger.state \in {"none", "created", "started"} /\ logger.enabled \in BOOLEAN
        /\ logger.field \in Severities \cup {NoValue} /\ logger.timeout \in 0 .. MaxTimeout
        /\ logger.threshold = NoValue /\ ~Started
    BY <1>0, <2>1 DEF Started
  <2>5. logger.threshold \in IF Started THEN Severities ELSE {NoValue}
    BY <2>4
  <2>6. strayed \in BOOLEAN /\ calls \in 0 .. MaxLogCalls
    <3>1. strayed \in BOOLEAN
      BY <2>1, Zenon
    <3>2. calls \in 0 .. MaxLogCalls
      BY <1>0, <2>1
    <3> QED
      BY <3>1, <3>2
  <2> QED
    BY <2>2, <2>3, <2>4, <2>5, <2>6 DEF LoggerTypeOK
<1>2. AnswersExplained /\ RecordsWhole /\ SeveritySettles /\ CallsWitness /\ CallsPassed /\ SettersInTurn
  BY DEF AnswersExplained, RecordsWhole, SeveritySettles, CallsWitness, CallsPassed,
     SettersInTurn, Started
<1> QED
  BY <1>1, <1>2 DEF LoggerInv, CallsAnswered

LEMMA LoggerStep == ASSUME LoggerAssumption, LoggerInv, [LoggerNext]_loggerVars PROVE LoggerInv'
<1> USE DEF LoggerInv, CallsAnswered
<1>1. LoggerSteps
  BY LoggerStepsAre
<1>2. LoggerShape'
  BY <1>1, LoggerShapeStep
<1>3. CallsWitness'
  BY <1>1, <1>2, CallsWitnessStep
<1>4. CallsPassed'
  BY <1>1, <1>2, CallsPassedStep
<1>5. SettersInTurn' /\ SeveritySettles'
  BY <1>1, <1>2, SettersStep
<1>6. AnswersExplained' /\ RecordsWhole'
  BY <1>1, <1>2, AnswersStep
<1>7. LoggerTypeOK'
  BY <1>1, <1>2, <1>3, LoggerTypeStep
<1> QED
  BY <1>2, <1>3, <1>4, <1>5, <1>6, <1>7

\* What the proofs about the filter rest on.
THEOREM LoggerInvariant == ASSUME LoggerAssumption PROVE LoggerSpec => []LoggerInv
<1>1. LoggerInit => LoggerInv
  BY LoggerInitInv
<1>2. LoggerInv /\ [LoggerNext]_loggerVars => LoggerInv'
  BY LoggerStep
<1> QED
  BY <1>1, <1>2, PTL DEF LoggerSpec

\* Every answer has a moment of its call that explains it, and no record is emitted in part.
THEOREM EveryCallAnswered == ASSUME LoggerAssumption PROVE LoggerSpec => []CallsAnswered
<1>1. LoggerInv => CallsAnswered
  BY DEF LoggerInv
<1> QED
  BY <1>1, LoggerInvariant, PTL

\* The two copies of the threshold agree once the setters are done.
THEOREM ThresholdSettles == ASSUME LoggerAssumption PROVE LoggerSpec => []SeveritySettles
<1>1. LoggerInv => SeveritySettles
  BY DEF LoggerInv
<1> QED
  BY <1>1, LoggerInvariant, PTL
-----------------------------------------------------------------------------
(* Library: the blocks in the heap *)

\* The two kinds of blocks are told apart, and say whose they are.
LEMMA BlocksDiffer == \A a, b, x, y, z : <<a, b>> # <<x, y, z>>
<1>1. ASSUME NEW a, NEW b, NEW x, NEW y, NEW z, <<a, b>> = <<x, y, z>> PROVE FALSE
  <2>1. Len(<<a, b>>) = 2 /\ Len(<<x, y, z>>) = 3
    OBVIOUS
  <2> QED
    BY <1>1, <2>1
<1> QED
  BY <1>1

Mine(c) == ContextBlocks(c) \cup InstanceBlocks(c)

LEMMA MineSaysWhose ==
  /\ \A c : \A b \in Mine(c) : b[1] = c
  /\ \A c : \A b \in Blocks(c) : b[1] = c
  /\ \A c, s : \A b \in Instance(c, s) : b[1] = c
BY DEF Mine, ContextBlocks, InstanceBlocks, Blocks, Instance

\* A step of one context's calls frees R and allocates A, blocks of that context.
LEMMA HeapStep ==
  ASSUME NothingLeaks, NEW c \in Ctxs, \A d \in Ctxs \ {c} : Mine(d)' = Mine(d),
         NEW R, NEW A, \A b \in R : b[1] = c, heap' = (heap \ R) \cup A, Mine(c)' = (Mine(c) \ R) \cup A
  PROVE  NothingLeaks'
<1>1. heap = UNION {Mine(d) : d \in Ctxs}
  BY DEF NothingLeaks, Mine
<1>2. SUFFICES heap' = UNION {Mine(d)' : d \in Ctxs}
  BY DEF NothingLeaks, Mine
<1>3. ASSUME NEW b \in heap' PROVE \E d \in Ctxs : b \in Mine(d)'
  <2>1. CASE b \in A
    BY <2>1
  <2>2. CASE b \notin A
    <3>1. PICK d \in Ctxs : b \in Mine(d)
      BY <1>1, <1>3, <2>2
    <3> QED
      BY <1>3, <2>2, <3>1
  <2> QED
    BY <2>1, <2>2
<1>4. ASSUME NEW d \in Ctxs, NEW b \in Mine(d)' PROVE b \in heap'
  <2>1. CASE d = c
    BY <1>1, <1>4, <2>1
  <2>2. CASE d # c
    <3>1. b \in Mine(d) /\ b[1] = d
      BY <1>4, <2>2, MineSaysWhose
    <3> QED
      BY <1>1, <2>2, <3>1
  <2> QED
    BY <2>1, <2>2
<1> QED
  BY <1>3, <1>4

\* A step that touches no context or instance allocates nothing.
LEMMA HeapStays ==
  ASSUME NothingLeaks, UNCHANGED <<contexts, instances, heap>> PROVE NothingLeaks'
<1>1. \A c : ContextBlocks(c)' = ContextBlocks(c) /\ InstanceBlocks(c)' = InstanceBlocks(c)
  BY DEF ContextBlocks, InstanceBlocks, Instances
<1> QED
  BY <1>1 DEF NothingLeaks

\* A step of an otelc_init() or of a close: the blocks of one context.
LEMMA ContextHeap ==
  ASSUME NothingLeaks, instances' = instances, NEW c \in Ctxs,
         \A d \in Ctxs \ {c} : contexts'[d] = contexts[d],
         NEW R \in SUBSET Blocks(c), NEW A, heap' = (heap \ R) \cup A,
         ContextBlocks(c)' = (ContextBlocks(c) \ R) \cup A
  PROVE  NothingLeaks'
<1>1. \A d : InstanceBlocks(d)' = InstanceBlocks(d)
  BY DEF InstanceBlocks, Instances
<1>2. \A d \in Ctxs \ {c} : Mine(d)' = Mine(d)
  BY <1>1 DEF Mine, ContextBlocks
<1>3. R \cap InstanceBlocks(c) = {}
  BY BlocksDiffer DEF Blocks, InstanceBlocks, Instance
<1>4. Mine(c)' = (Mine(c) \ R) \cup A
  BY <1>1, <1>3 DEF Mine
<1>5. \A b \in R : b[1] = c
  BY MineSaysWhose
<1> QED
  BY <1>2, <1>4, <1>5, HeapStep

-----------------------------------------------------------------------------
(* Library: each part of the invariant is preserved *)

\* Where the contexts are, and what the instances were given.
LEMMA ShapeFacts == ASSUME LibraryAssumption, LibraryShape, NEW c \in Ctxs
  PROVE  /\ contexts[c] = Absent \/ contexts[c] \in ContextRecord
         /\ contexts[c].at # "none" => contexts[c] \in ContextRecord /\ contexts[c] # Absent
         /\ contexts[c] = Absent => contexts[c].at = "none"
BY DEF LibraryShape, Absent, ContextRecord

\* The entry a section has for a context, if it has one.
LEMMA ResolvesTo ==
  ASSUME LibraryAssumption, NEW d \in Docs, NEW s \in Signals, NEW n \in Names \cup {"default"}
  PROVE  /\ Resolve(d, s, n) \in SectionPaths \cup {Nil} /\ Nil \notin SectionPaths
         /\ \A p \in SectionPaths, b \in BOOLEAN : [prefix |-> p, started |-> b] # Nil
<1>1. <<s>> \in SectionPaths /\ <<s, n>> \in SectionPaths /\ <<s, "default">> \in SectionPaths
  BY DEF SectionPaths
<1>2. Nil \notin SectionPaths /\ Nil \notin [prefix : SectionPaths, started : BOOLEAN]
  BY DEF LibraryAssumption
<1> QED
  BY <1>1, <1>2 DEF Resolve

\* Every block belongs to a context or an instance.
LEMMA LeaksStep == ASSUME LibraryAssumption, LibraryShape, NothingLeaks, [LibraryNext]_libraryVars
  PROVE  NothingLeaks'
<1>0. /\ contexts \in [Ctxs -> {Absent} \cup ContextRecord]
      /\ \A c \in Ctxs : /\ contexts[c].at \in {"name", "open"} => ~contexts[c].open
                         /\ contexts[c].at \in {"shards", "store", "probe"} => contexts[c].open
  BY DEF LibraryShape
<1>1. ASSUME NEW c \in Ctxs, InitBegins(c) PROVE NothingLeaks'
  <2>1. CASE UNCHANGED <<contexts, heap>>
    BY <1>1, <2>1, HeapStays DEF InitBegins
  <2>2. CASE ~UNCHANGED <<contexts, heap>>
    <3>1. PICK doc \in Docs, name \in Names :
            /\ contexts' = [contexts EXCEPT ![c] = [at |-> "name", doc |-> doc, name |-> name,
                                                    open |-> FALSE, nstate |-> Nil]]
            /\ heap' = heap \cup {<<c, "context">>}
      BY <1>1, <2>2 DEF InitBegins
    <3>2. contexts[c] = Absent /\ instances' = instances
      BY <1>1 DEF InitBegins
    <3>3. ContextBlocks(c) = {} /\ ContextBlocks(c)' = {<<c, "context">>}
      BY <1>0, <3>1, <3>2 DEF ContextBlocks, Absent
    <3>4. \A d \in Ctxs \ {c} : contexts'[d] = contexts[d]
      BY <1>0, <3>1
    <3> DEFINE R == {}
               A == {<<c, "context">>}
    <3>5. heap' = (heap \ R) \cup A /\ ContextBlocks(c)' = (ContextBlocks(c) \ R) \cup A
          /\ R \in SUBSET Blocks(c)
      BY <3>1, <3>3
    <3> QED
      BY <3>2, <3>4, <3>5, ContextHeap
  <2> QED
    BY <2>1, <2>2
\* A call that fails frees the blocks of its context, all it has.
<1>2. ASSUME NEW c \in Ctxs, NEW enough, NEW freed \in SUBSET Blocks(c), InitFails(c, freed, enough),
             ContextBlocks(c) = freed, instances' = instances
      PROVE  NothingLeaks'
  <2>1. contexts' = [contexts EXCEPT ![c] = Absent] /\ heap' = heap \ freed
    BY <1>2 DEF InitFails
  <2>2. ContextBlocks(c)' = {} /\ \A d \in Ctxs \ {c} : contexts'[d] = contexts[d]
    BY <1>0, <2>1 DEF ContextBlocks
  <2> DEFINE R == freed
             A == {}
  <2>3. heap' = (heap \ R) \cup A /\ ContextBlocks(c)' = (ContextBlocks(c) \ R) \cup A
    BY <1>2, <2>1, <2>2
  <2> QED
    BY <1>2, <2>2, <2>3, ContextHeap
\* A call that goes on allocates the block of its next place, or none.
<1>3. ASSUME NEW c \in Ctxs, NEW A, contexts[c] # Absent, contexts'[c] # Absent,
             \A d \in Ctxs \ {c} : contexts'[d] = contexts[d],
             heap' = heap \cup A, instances' = instances,
             ContextBlocks(c)' = ContextBlocks(c) \cup A
      PROVE  NothingLeaks'
  <2> DEFINE R == {}
  <2>1. heap' = (heap \ R) \cup A /\ ContextBlocks(c)' = (ContextBlocks(c) \ R) \cup A
        /\ R \in SUBSET Blocks(c)
    BY <1>3
  <2> QED
    BY <1>3, <2>1, ContextHeap
<1>4. ASSUME NEW c \in Ctxs, InitNames(c) PROVE NothingLeaks'
  <2>1. contexts[c] \in ContextRecord /\ contexts[c] # Absent /\ contexts[c].at = "name" /\ ~contexts[c].open
    BY <1>0, <1>4, ShapeFacts DEF InitNames
  <2>2. ContextBlocks(c) = {<<c, "context">>} /\ instances' = instances
    BY <1>4, <2>1 DEF ContextBlocks, InitNames
  <2>3. CASE InitFails(c, {<<c, "context">>}, FALSE)
    BY <1>2, <2>2, <2>3 DEF Blocks
  <2>4. CASE ~InitFails(c, {<<c, "context">>}, FALSE)
    <3>1. contexts' = [contexts EXCEPT ![c].at = "open"] /\ heap' = heap \cup {<<c, "name">>}
      BY <1>4, <2>4 DEF InitNames
    <3>2. /\ contexts'[c] # Absent /\ contexts'[c].at = "open" /\ ~contexts'[c].open
          /\ \A d \in Ctxs \ {c} : contexts'[d] = contexts[d]
      BY <1>0, <2>1, <3>1 DEF Absent, ContextRecord
    <3>3. ContextBlocks(c)' = ContextBlocks(c) \cup {<<c, "name">>}
      BY <2>2, <3>2 DEF ContextBlocks
    <3> QED
      BY <1>3, <2>1, <2>2, <3>1, <3>2, <3>3
  <2> QED
    BY <2>3, <2>4
<1>5. ASSUME NEW c \in Ctxs, InitOpens(c) PROVE NothingLeaks'
  <2>1. contexts[c] \in ContextRecord /\ contexts[c] # Absent /\ contexts[c].at = "open" /\ ~contexts[c].open
    BY <1>0, <1>5, ShapeFacts DEF InitOpens
  <2>2. ContextBlocks(c) = {<<c, "context">>, <<c, "name">>} /\ instances' = instances
    BY <1>5, <2>1 DEF ContextBlocks, InitOpens
  <2>3. CASE InitFails(c, {<<c, "name">>, <<c, "context">>}, ~contexts[c].doc.ok)
    <3>1. {<<c, "name">>, <<c, "context">>} = ContextBlocks(c) /\ ContextBlocks(c) \in SUBSET Blocks(c)
      BY <2>2 DEF Blocks
    <3> QED
      BY <1>2, <2>2, <2>3, <3>1
  <2>4. CASE ~InitFails(c, {<<c, "name">>, <<c, "context">>}, ~contexts[c].doc.ok)
    <3>1. contexts' = [contexts EXCEPT ![c].at = "shards", ![c].open = TRUE]
          /\ heap' = heap \cup {<<c, "document">>}
      BY <1>5, <2>4 DEF InitOpens
    <3>2. /\ contexts'[c] # Absent /\ contexts'[c].at = "shards" /\ contexts'[c].open
          /\ \A d \in Ctxs \ {c} : contexts'[d] = contexts[d]
      BY <1>0, <2>1, <3>1 DEF Absent, ContextRecord
    <3>3. ContextBlocks(c)' = ContextBlocks(c) \cup {<<c, "document">>}
      BY <2>2, <3>2 DEF ContextBlocks, Blocks
    <3> QED
      BY <1>3, <2>1, <2>2, <3>1, <3>2, <3>3
  <2> QED
    BY <2>3, <2>4
<1>6. ASSUME NEW c \in Ctxs, InitRefusesKey(c) PROVE NothingLeaks'
  <2>1. contexts[c] \in ContextRecord /\ contexts[c] # Absent /\ contexts[c].at = "shards" /\ contexts[c].open
    BY <1>0, <1>6, ShapeFacts DEF InitRefusesKey
  <2>2. ContextBlocks(c) = Blocks(c) /\ instances' = instances
    BY <1>6, <2>1 DEF ContextBlocks, InitRefusesKey
  <2> QED
    BY <1>2, <1>6, <2>2 DEF InitRefusesKey
\* The later places hold the same blocks.
<1>7. ASSUME NEW c \in Ctxs, InitTakesKey(c) \/ InitStoresCount(c) \/ InitReturns(c)
      PROVE NothingLeaks'
  <2>1. contexts[c] \in ContextRecord /\ contexts[c] # Absent /\ contexts[c].open
        /\ contexts[c].at \in {"shards", "store", "probe"}
    BY <1>0, <1>7, ShapeFacts DEF InitTakesKey, InitStoresCount, InitReturns
  <2>2. /\ contexts'[c] # Absent /\ contexts'[c].at \in {"store", "probe", "live"} /\ contexts'[c].open
        /\ \A d \in Ctxs \ {c} : contexts'[d] = contexts[d]
    <3>1. CASE InitTakesKey(c)
      <4>1. \E at \in {"store", "probe"} : contexts' = [contexts EXCEPT ![c].at = at]
        BY <3>1 DEF InitTakesKey
      <4> QED
        BY <1>0, <2>1, <4>1 DEF Absent, ContextRecord
    <3>2. CASE InitStoresCount(c)
      BY <1>0, <2>1, <3>2 DEF InitStoresCount, Absent, ContextRecord
    <3>3. CASE InitReturns(c)
      BY <1>0, <2>1, <3>3 DEF InitReturns, Absent, ContextRecord
    <3> QED
      BY <1>7, <3>1, <3>2, <3>3
  <2>3. ContextBlocks(c) = Blocks(c) /\ ContextBlocks(c)' = Blocks(c)
    BY <2>1, <2>2 DEF ContextBlocks
  <2>4. heap' = heap /\ instances' = instances
    BY <1>7 DEF InitTakesKey, InitStoresCount, InitReturns
  <2> DEFINE A == {}
  <2>5. heap' = heap \cup A /\ ContextBlocks(c)' = ContextBlocks(c) \cup A
    BY <2>3, <2>4
  <2> QED
    BY <1>3, <2>1, <2>2, <2>4, <2>5
<1>8. ASSUME NEW c \in Ctxs, CloseCfg(c) PROVE NothingLeaks'
  <2>1. contexts[c] \in ContextRecord /\ contexts[c] # Absent /\ contexts[c].at = "live"
    BY <1>8, ShapeFacts DEF CloseCfg, Live
  <2>2. contexts' = [contexts EXCEPT ![c].open = FALSE] /\ heap' = heap \ {<<c, "document">>}
        /\ instances' = instances
    BY <1>8 DEF CloseCfg
  <2>3. /\ contexts'[c] # Absent /\ contexts'[c].at = "live" /\ ~contexts'[c].open
        /\ \A d \in Ctxs \ {c} : contexts'[d] = contexts[d]
    BY <1>0, <2>1, <2>2 DEF Absent, ContextRecord
  <2> DEFINE R == {<<c, "document">>}
             A == {}
  <2>4. ContextBlocks(c)' = (ContextBlocks(c) \ R) \cup A
    BY <2>1, <2>3 DEF ContextBlocks, Blocks
  <2>5. heap' = (heap \ R) \cup A /\ R \in SUBSET Blocks(c)
    BY <2>2 DEF Blocks
  <2> QED
    BY <2>2, <2>3, <2>4, <2>5, ContextHeap
\* The instances of one context change.
<1>9. ASSUME NEW c \in Ctxs, NEW s \in Signals, CreateInstance(c, s) PROVE NothingLeaks'
  <2>1. CASE UNCHANGED <<instances, heap>>
    BY <1>9, <2>1, HeapStays DEF CreateInstance
  <2>2. CASE ~UNCHANGED <<instances, heap>>
    <3>1. PICK prefix : /\ prefix # Nil
                        /\ prefix = Resolve(contexts[c].doc, s, ContextName(contexts[c].name))
                        /\ instances' = [instances EXCEPT ![c][s] = [prefix |-> prefix, started |-> FALSE]]
                        /\ heap' = heap \cup Instance(c, s)
      BY <1>9, <2>2 DEF CreateInstance
    <3>2. contexts' = contexts /\ contexts[c] \in ContextRecord
      BY <1>9, ShapeFacts DEF CreateInstance, Live
    <3>3. contexts[c].doc \in Docs /\ ContextName(contexts[c].name) \in Names \cup {"default"}
      BY <3>2 DEF ContextRecord, ContextName
    <3>4. [prefix |-> prefix, started |-> FALSE] # Nil
      BY <3>1, <3>3, ResolvesTo
    <3>5. Instances(c)' = Instances(c) \cup {s} /\ \A d \in Ctxs \ {c} : Instances(d)' = Instances(d)
      BY <3>1, <3>4 DEF Instances, LibraryShape
    <3>6. \A d : ContextBlocks(d)' = ContextBlocks(d)
      BY <3>2 DEF ContextBlocks
    <3>7. Mine(c)' = Mine(c) \cup Instance(c, s) /\ \A d \in Ctxs \ {c} : Mine(d)' = Mine(d)
      BY <3>5, <3>6 DEF Mine, InstanceBlocks
    <3> DEFINE R == {}
               A == Instance(c, s)
    <3>8. heap' = (heap \ R) \cup A /\ Mine(c)' = (Mine(c) \ R) \cup A /\ \A b \in R : b[1] = c
      BY <3>1, <3>7
    <3> HIDE DEF R, A
    <3> QED
      BY <3>7, <3>8, HeapStep
  <2> QED
    BY <2>1, <2>2
<1>10. ASSUME NEW c \in Ctxs, NEW s \in Signals, StartInstance(c, s) PROVE NothingLeaks'
  <2>1. /\ contexts' = contexts /\ heap' = heap /\ instances[c][s] # Nil
        /\ instances' = [instances EXCEPT ![c][s].started = TRUE]
    BY <1>10 DEF StartInstance
  <2>2. instances'[c][s] # Nil
    <3>1. instances[c][s] \in [prefix : SectionPaths, started : BOOLEAN]
      BY <2>1 DEF LibraryShape
    <3>2. instances'[c][s] \in [prefix : SectionPaths, started : BOOLEAN]
      BY <2>1, <3>1 DEF LibraryShape
    <3> QED
      BY <3>2 DEF LibraryAssumption
  <2>3. \A d \in Ctxs : Instances(d)' = Instances(d)
    BY <2>1, <2>2 DEF Instances, LibraryShape
  <2>4. \A d \in Ctxs : Mine(d)' = Mine(d)
    BY <2>1, <2>3 DEF Mine, ContextBlocks, InstanceBlocks
  <2> DEFINE R == {}
             A == {}
  <2>5. heap' = (heap \ R) \cup A /\ Mine(c)' = (Mine(c) \ R) \cup A /\ \A b \in R : b[1] = c
    BY <2>1, <2>4
  <2> HIDE DEF R, A
  <2> QED
    BY <2>4, <2>5, HeapStep
<1>11. ASSUME NEW c \in Ctxs, Deinit(c) PROVE NothingLeaks'
  <2>1. PICK passed \in SUBSET Instances(c), context \in BOOLEAN :
          (context => Live(c)) /\ Released(c, passed, context)
    BY <1>11 DEF Deinit
  <2> DEFINE R == (UNION {Instance(c, s) : s \in passed}) \cup IF context THEN Blocks(c) ELSE {}
             A == {}
  <2>0. \A b : b \in R <=> (\E s \in passed : b \in Instance(c, s)) \/ (context = TRUE /\ b \in Blocks(c))
    <3> DEFINE Theirs == UNION {Instance(c, s) : s \in passed}
               Its == IF context THEN Blocks(c) ELSE {}
    <3>1. \A b : b \in Theirs <=> \E s \in passed : b \in Instance(c, s)
      OBVIOUS
    <3>2. CASE context = TRUE
      <4>1. Its = Blocks(c)
        BY <3>2
      <4>2. R = Theirs \cup Its
        OBVIOUS
      <4> HIDE DEF R, Theirs, Its
      <4> QED
        BY <3>1, <3>2, <4>1, <4>2
    <3>3. CASE context = FALSE
      BY <3>1, <3>3
    <3> QED
      BY <3>2, <3>3
  <2>2. /\ instances' = [instances EXCEPT ![c] = [s \in Signals |-> IF s \in passed THEN Nil ELSE instances[c][s]]]
        /\ contexts' = [contexts EXCEPT ![c] = IF context THEN Absent ELSE contexts[c]]
        /\ heap' = (heap \ R) \cup A
    BY <2>1 DEF Released
  <2>3. Instances(c)' = Instances(c) \ passed /\ \A d \in Ctxs \ {c} : Instances(d)' = Instances(d)
    BY <2>2 DEF Instances, LibraryShape
  <2>4. /\ \A d \in Ctxs \ {c} : contexts'[d] = contexts[d]
        /\ contexts'[c] = IF context THEN Absent ELSE contexts[c]
    BY <1>0, <2>2
  <2>5. \A d \in Ctxs \ {c} : Mine(d)' = Mine(d)
    BY <2>3, <2>4 DEF Mine, ContextBlocks, InstanceBlocks
  <2>6. ContextBlocks(c)' = ContextBlocks(c) \ R
    <3>1. \A b \in ContextBlocks(c) : \A s : b \notin Instance(c, s)
      BY BlocksDiffer DEF ContextBlocks, Blocks, Instance
    <3>2. ContextBlocks(c) \subseteq Blocks(c)
      BY DEF ContextBlocks, Blocks
    <3>3. ContextBlocks(c)' = IF context THEN {} ELSE ContextBlocks(c)
      BY <2>4 DEF ContextBlocks
    <3> HIDE DEF R
    <3>4. \A b \in ContextBlocks(c) : b \in R <=> context = TRUE
      BY <2>0, <3>1, <3>2
    <3> QED
      BY <3>3, <3>4
  <2>7. InstanceBlocks(c)' = InstanceBlocks(c) \ R
    <3>1. \A s : \A b \in Instance(c, s) : b \notin Blocks(c) /\ b[2] = s
      BY BlocksDiffer DEF Blocks, Instance
    <3>2. InstanceBlocks(c)' = UNION {Instance(c, s) : s \in Instances(c) \ passed}
      BY <2>3 DEF InstanceBlocks
    <3> HIDE DEF R
    <3>3. \A s : \A b \in Instance(c, s) : b \in R <=> s \in passed
      BY <2>0, <3>1
    <3>4. \A b : b \in InstanceBlocks(c) <=> \E s \in Instances(c) : b \in Instance(c, s)
      BY DEF InstanceBlocks
    <3>5. \A b : b \in InstanceBlocks(c)' <=> \E s \in Instances(c) \ passed : b \in Instance(c, s)
      BY <3>2
    <3>6. \A b : b \in InstanceBlocks(c)' <=> b \in InstanceBlocks(c) \ R
      BY <3>3, <3>4, <3>5
    <3> QED
      BY <3>6
  <2>8. Mine(c)' = (Mine(c) \ R) \cup A
    <3> HIDE DEF R
    <3> QED
      BY <2>6, <2>7 DEF Mine
  <2>9. \A b \in R : b[1] = c
    <3>1. /\ \A s \in passed : \A b \in Instance(c, s) : b[1] = c
          /\ \A b \in Blocks(c) : b[1] = c
      BY MineSaysWhose
    <3> HIDE DEF R
    <3> QED
      BY <2>0, <3>1
  <2> HIDE DEF R
  <2> QED
    BY <2>2, <2>5, <2>8, <2>9, HeapStep
<1>12. CASE CfgValidate \/ LogSetHandler \/ ExtInit \/ LibShutdown \/ Handle \/ UNCHANGED libraryVars
  BY <1>12, HeapStays DEF CfgValidate, LogSetHandler, ExtInit, LibShutdown, Handle, libraryVars
<1> QED
  BY <1>1, <1>4, <1>5, <1>6, <1>7, <1>8, <1>9, <1>10, <1>11, <1>12 DEF LibraryNext

\* The first element of a sequence, and its emptiness, under an append.
LEMMA AppendKeepsFirst ==
  ASSUME NEW S, NEW q \in Seq(S), NEW e \in S
  PROVE  /\ Append(q, e) \in Seq(S) /\ Append(q, e) # <<>>
         /\ q # <<>> => Append(q, e)[1] = q[1]
         /\ q = <<>> => Append(q, e)[1] = e
<1>1. Append(q, e) \in Seq(S) /\ Len(Append(q, e)) = Len(q) + 1 /\ Len(q) \in Nat
  OBVIOUS
<1>2. q # <<>> => Len(q) # 0
  OBVIOUS
<1> QED
  BY <1>1, <1>2

LEMMA EmptyIsSeq == ASSUME NEW S PROVE <<>> \in Seq(S)
OBVIOUS

\* One context moves to r: the contexts stay what LibraryShape says.
RightlyOpen(r) == /\ r.at \in {"name", "open"} => ~r.open
                  /\ r.at \in {"shards", "store", "probe"} => r.open
ContextsShape == contexts \in [Ctxs -> {Absent} \cup ContextRecord]
                 /\ \A c \in Ctxs : RightlyOpen(contexts[c])

LEMMA OneContext ==
  ASSUME ContextsShape, NEW c \in Ctxs, NEW r \in {Absent} \cup ContextRecord, RightlyOpen(r),
         contexts' = [contexts EXCEPT ![c] = r]
  PROVE  /\ ContextsShape' /\ contexts'[c] = r
         /\ \A d \in Ctxs \ {c} : contexts'[d] = contexts[d]
<1>1. /\ contexts' \in [Ctxs -> {Absent} \cup ContextRecord] /\ contexts'[c] = r
      /\ \A d \in Ctxs \ {c} : contexts'[d] = contexts[d]
  BY DEF ContextsShape
<1>2. \A d \in Ctxs : RightlyOpen(contexts'[d])
  <2> TAKE d \in Ctxs
  <2>1. CASE d = c
    BY <1>1, <2>1
  <2>2. CASE d # c
    <3>1. contexts'[d] = contexts[d]
      BY <1>1, <2>2
    <3> QED
      BY <3>1 DEF ContextsShape
  <2> QED
    BY <2>1, <2>2
<1> QED
  BY <1>1, <1>2 DEF ContextsShape, RightlyOpen

\* What a step makes of the contexts: one of them moves on, ends or is closed.
Moves(c) == \E r \in {Absent} \cup ContextRecord :
  /\ RightlyOpen(r) /\ contexts' = [contexts EXCEPT ![c] = r]

LEMMA MovesStep == ASSUME LibraryAssumption, ContextsShape, NEW c \in Ctxs,
    \/ InitBegins(c) \/ InitNames(c) \/ InitOpens(c) \/ InitRefusesKey(c) \/ InitTakesKey(c)
    \/ InitStoresCount(c) \/ InitReturns(c) \/ CloseCfg(c) \/ Deinit(c)
  PROVE Moves(c)
<1>0. /\ contexts[c] \in {Absent} \cup ContextRecord /\ RightlyOpen(contexts[c]) /\ RightlyOpen(Absent)
      /\ contexts = [contexts EXCEPT ![c] = contexts[c]]
      /\ contexts[c].at # "none" => contexts[c] \in ContextRecord
  BY DEF ContextsShape, RightlyOpen, Absent
<1>1. ASSUME NEW freed, NEW enough, InitFails(c, freed, enough) PROVE Moves(c)
  BY <1>0, <1>1 DEF Moves, InitFails
<1>2. CASE contexts' = contexts
  <2>1. contexts' = [contexts EXCEPT ![c] = contexts[c]]
    BY <1>0, <1>2
  <2> QED
    BY <1>0, <2>1 DEF Moves
<1>3. CASE InitBegins(c)
  <2>1. CASE contexts' # contexts
    <3>1. PICK doc \in Docs, name \in Names : contexts' = [contexts EXCEPT ![c] =
                [at |-> "name", doc |-> doc, name |-> name, open |-> FALSE, nstate |-> Nil]]
      BY <1>3, <2>1 DEF InitBegins
    <3> DEFINE r == [at |-> "name", doc |-> doc, name |-> name, open |-> FALSE, nstate |-> Nil]
    <3>2. r \in ContextRecord /\ RightlyOpen(r)
      BY DEF ContextRecord, RightlyOpen
    <3> QED
      BY <3>1, <3>2 DEF Moves
  <2> QED
    BY <1>2, <2>1
<1>4. ASSUME NEW at \in {"open", "shards", "store", "probe"}, NEW open \in BOOLEAN,
             contexts[c] \in ContextRecord,
             open = (at # "open"),
             contexts' = [contexts EXCEPT ![c] = [contexts[c] EXCEPT !.at = at, !.open = open]]
      PROVE  Moves(c)
  <2> DEFINE r == [contexts[c] EXCEPT !.at = at, !.open = open]
  <2>1. r \in ContextRecord /\ r.at = at /\ r.open = open
    BY <1>4 DEF ContextRecord
  <2>2. RightlyOpen(r)
    BY <1>4, <2>1 DEF RightlyOpen
  <2> QED
    BY <1>4, <2>1, <2>2 DEF Moves
<1>5. CASE InitNames(c)
  <2>1. contexts[c] \in ContextRecord /\ contexts[c].open = FALSE
    BY <1>0, <1>5 DEF InitNames, RightlyOpen, ContextRecord
  <2>2. CASE contexts' = [contexts EXCEPT ![c].at = "open"]
    <3>1. [contexts[c] EXCEPT !.at = "open"] = [contexts[c] EXCEPT !.at = "open", !.open = FALSE]
      BY <2>1 DEF ContextRecord
    <3> QED
      BY <1>4, <2>1, <2>2, <3>1
  <2> QED
    BY <1>1, <1>5, <2>2 DEF InitNames
<1>6. CASE InitOpens(c)
  <2>1. contexts[c] \in ContextRecord
    BY <1>0, <1>6 DEF InitOpens
  <2>2. CASE contexts' = [contexts EXCEPT ![c].at = "shards", ![c].open = TRUE]
    BY <1>4, <2>1, <2>2
  <2> QED
    BY <1>1, <1>6, <2>2 DEF InitOpens
<1>7. CASE InitRefusesKey(c)
  BY <1>1, <1>7 DEF InitRefusesKey
<1>8. CASE InitTakesKey(c) \/ InitStoresCount(c)
  <2>1. contexts[c] \in ContextRecord /\ contexts[c].open = TRUE
    BY <1>0, <1>8 DEF InitTakesKey, InitStoresCount, RightlyOpen, ContextRecord
  <2>2. PICK at \in {"store", "probe"} : contexts' = [contexts EXCEPT ![c].at = at]
    BY <1>8 DEF InitTakesKey, InitStoresCount
  <2>3. [contexts[c] EXCEPT !.at = at] = [contexts[c] EXCEPT !.at = at, !.open = TRUE]
    BY <2>1 DEF ContextRecord
  <2> QED
    BY <1>4, <2>1, <2>2, <2>3
<1>9. CASE InitReturns(c)
  <2> DEFINE r == [contexts[c] EXCEPT !.at = "live",
                     !.nstate = [s \in Signals |-> Probe(contexts[c].doc, s, contexts[c].name)]]
  <2>1. contexts[c] \in ContextRecord /\ contexts' = [contexts EXCEPT ![c] = r]
    BY <1>0, <1>9 DEF InitReturns
  <2>2. [s \in Signals |-> Probe(contexts[c].doc, s, contexts[c].name)] \in [Signals -> NStates]
    <3>1. \A d, s, n : Probe(d, s, n) \in NStates
      BY DEF Probe, NStates
    <3> QED
      BY <3>1
  <2>3. r \in ContextRecord /\ r.at = "live"
    BY <2>1, <2>2 DEF ContextRecord
  <2>4. RightlyOpen(r)
    BY <2>3 DEF RightlyOpen
  <2> QED
    BY <2>1, <2>3, <2>4 DEF Moves
<1>10. CASE CloseCfg(c)
  <2> DEFINE r == [contexts[c] EXCEPT !.open = FALSE]
  <2>1. contexts[c] \in ContextRecord /\ contexts' = [contexts EXCEPT ![c] = r] /\ contexts[c].at = "live"
    BY <1>0, <1>10 DEF CloseCfg, Live
  <2>2. r \in ContextRecord /\ r.at = "live"
    BY <2>1 DEF ContextRecord
  <2>3. RightlyOpen(r)
    BY <2>2 DEF RightlyOpen
  <2> QED
    BY <2>1, <2>2, <2>3 DEF Moves
<1>11. CASE Deinit(c)
  <2>1. \E context \in BOOLEAN : contexts' = [contexts EXCEPT ![c] = IF context THEN Absent ELSE contexts[c]]
    BY <1>11 DEF Deinit, Released
  <2>2. CASE contexts' = [contexts EXCEPT ![c] = Absent]
    BY <1>0, <2>2 DEF Moves
  <2>3. CASE contexts' = [contexts EXCEPT ![c] = contexts[c]]
    BY <1>0, <2>3 DEF Moves
  <2> QED
    BY <2>1, <2>2, <2>3
<1> QED
  BY <1>3, <1>5, <1>6, <1>7, <1>8, <1>9, <1>10, <1>11

\* What a step makes of the instances.
InstancesShape == instances \in [Ctxs -> [Signals -> {Nil} \cup [prefix : SectionPaths, started : BOOLEAN]]]

LEMMA InstancesStep == ASSUME LibraryAssumption, ContextsShape, InstancesShape, [LibraryNext]_libraryVars
  PROVE  InstancesShape'
<1>1. ASSUME NEW c \in Ctxs, NEW s \in Signals, CreateInstance(c, s) PROVE InstancesShape'
  <2>1. CASE instances' = instances
    BY <2>1 DEF InstancesShape
  <2>2. CASE instances' # instances
    <3>1. PICK prefix : /\ prefix # Nil
                        /\ prefix = Resolve(contexts[c].doc, s, ContextName(contexts[c].name))
                        /\ instances' = [instances EXCEPT ![c][s] = [prefix |-> prefix, started |-> FALSE]]
      BY <1>1, <2>2 DEF CreateInstance
    <3>2. contexts[c] \in ContextRecord
      BY <1>1 DEF CreateInstance, Live, ContextsShape, Absent
    <3>3. contexts[c].doc \in Docs /\ ContextName(contexts[c].name) \in Names \cup {"default"}
      BY <3>2 DEF ContextRecord, ContextName
    <3>4. prefix \in SectionPaths
      BY <3>1, <3>3, ResolvesTo
    <3> QED
      BY <3>1, <3>4 DEF InstancesShape
  <2> QED
    BY <2>1, <2>2
<1>2. ASSUME NEW c \in Ctxs, NEW s \in Signals, StartInstance(c, s) PROVE InstancesShape'
  <2>1. instances[c][s] \in [prefix : SectionPaths, started : BOOLEAN]
    BY <1>2 DEF StartInstance, InstancesShape
  <2>2. [instances[c][s] EXCEPT !.started = TRUE] \in [prefix : SectionPaths, started : BOOLEAN]
    BY <2>1
  <2>3. instances' = [instances EXCEPT ![c][s] = [instances[c][s] EXCEPT !.started = TRUE]]
    BY <1>2 DEF StartInstance
  <2> QED
    BY <2>2, <2>3 DEF InstancesShape
<1>3. ASSUME NEW c \in Ctxs, Deinit(c) PROVE InstancesShape'
  <2>1. PICK passed \in SUBSET Instances(c) :
          instances' = [instances EXCEPT ![c] = [s \in Signals |-> IF s \in passed THEN Nil ELSE instances[c][s]]]
    BY <1>3 DEF Deinit, Released
  <2> QED
    BY <2>1 DEF InstancesShape
<1>4. CASE UNCHANGED instances
  BY <1>4 DEF InstancesShape
<1>5. ASSUME NEW c \in Ctxs,
             \/ InitBegins(c) \/ InitNames(c) \/ InitOpens(c) \/ InitRefusesKey(c) \/ InitTakesKey(c)
                             \/ InitStoresCount(c) \/ InitReturns(c) \/ CloseCfg(c)
      PROVE  InstancesShape'
  BY <1>4, <1>5 DEF InitBegins, InitNames, InitOpens, InitRefusesKey, InitTakesKey,
     InitStoresCount, InitReturns, CloseCfg
<1>6. CASE CfgValidate \/ LogSetHandler \/ ExtInit \/ LibShutdown \/ Handle \/ UNCHANGED libraryVars
  BY <1>4, <1>6 DEF CfgValidate, LogSetHandler, ExtInit, LibShutdown, Handle, libraryVars
<1> QED
  BY <1>1, <1>2, <1>3, <1>5, <1>6 DEF LibraryNext

LEMMA ContextsStep == ASSUME LibraryAssumption, ContextsShape, [LibraryNext]_libraryVars
  PROVE ContextsShape'
<1>1. ASSUME NEW c \in Ctxs, Moves(c) PROVE ContextsShape'
  BY <1>1, OneContext DEF Moves
<1>2. CASE UNCHANGED contexts
  BY <1>2 DEF ContextsShape, RightlyOpen
<1>3. ASSUME NEW c \in Ctxs, \E s \in Signals : CreateInstance(c, s) \/ StartInstance(c, s)
      PROVE ContextsShape'
  BY <1>2, <1>3 DEF CreateInstance, StartInstance
<1>4. CASE CfgValidate \/ LogSetHandler \/ ExtInit \/ LibShutdown \/ Handle \/ UNCHANGED libraryVars
  BY <1>2, <1>4 DEF CfgValidate, LogSetHandler, ExtInit, LibShutdown, Handle, libraryVars
<1> QED
  BY <1>1, <1>3, <1>4, MovesStep DEF LibraryNext

\* The key of a context whose call takes it.
LEMMA TakenKey == ASSUME LibraryAssumption, ContextsShape, NEW c \in Ctxs, InitTakesKey(c)
  PROVE  /\ contexts[c] \in ContextRecord /\ contexts[c] # Absent
         /\ contexts[c].doc.shards # Nil => contexts[c].doc.shards \in Counts
<1>1. contexts[c] \in ContextRecord
  BY DEF InitTakesKey, ContextsShape, Absent
<1> QED
  BY <1>1 DEF InitTakesKey, BadKey, ContextRecord, Absent

LEMMA KeysStep == ASSUME LibraryAssumption, ContextsShape, keys \in Seq(Counts), [LibraryNext]_libraryVars
  PROVE  (keys \in Seq(Counts))'
<1>1. ASSUME NEW c \in Ctxs, InitTakesKey(c) PROVE keys' \in Seq(Counts)
  <2>1. CASE contexts[c].doc.shards = Nil
    BY <1>1, <2>1 DEF InitTakesKey
  <2>2. CASE contexts[c].doc.shards # Nil
    <3>1. keys' = Append(keys, contexts[c].doc.shards) /\ contexts[c].doc.shards \in Counts
      BY <1>1, <2>2, TakenKey DEF InitTakesKey
    <3> QED
      BY <3>1, AppendKeepsFirst
  <2> QED
    BY <2>1, <2>2
<1>2. CASE LibShutdown
  BY <1>2, EmptyIsSeq DEF LibShutdown
<1>3. ASSUME NEW c \in Ctxs,
             \/ InitBegins(c) \/ InitNames(c) \/ InitOpens(c) \/ InitRefusesKey(c) \/ InitStoresCount(c)
                             \/ InitReturns(c) \/ CloseCfg(c) \/ Deinit(c)
                             \/ \E s \in Signals : CreateInstance(c, s) \/ StartInstance(c, s)
      PROVE  keys' = keys
  BY <1>3 DEF InitBegins, InitNames, InitOpens, InitRefusesKey, InitStoresCount, InitReturns,
     CloseCfg, Deinit,
              CreateInstance, StartInstance
<1>4. CASE CfgValidate \/ LogSetHandler \/ ExtInit \/ Handle \/ UNCHANGED libraryVars
  BY <1>4 DEF CfgValidate, LogSetHandler, ExtInit, Handle, libraryVars
<1> QED
  BY <1>1, <1>2, <1>3, <1>4 DEF LibraryNext

\* The settings, and the pairing of the callbacks.
LEMMA HooksStep == ASSUME LibraryAssumption, hooks \in Hooks, CallbacksReleased, [LibraryNext]_libraryVars
  PROVE  (hooks \in Hooks)' /\ CallbacksReleased'
<1>1. ASSUME NEW h \in Hooks, NEW handler \in {"app", "default"}, NEW enough \in BOOLEAN
      PROVE  /\ SetHandler(h, handler, enough) \in Hooks
             /\ handler = "default" => SetHandler(h, handler, enough).handler # "app"
             /\ SetHandler(h, handler, enough).malloc = h.malloc
             /\ SetHandler(h, handler, enough).free = h.free
  <2>1. CASE enough = TRUE
    BY <1>1, <2>1 DEF SetHandler, Hooks
  <2>2. CASE enough = FALSE
    BY <1>1, <2>2 DEF SetHandler, Hooks
  <2> QED
    BY <2>1, <2>2
<1>2. ASSUME NEW h \in Hooks, NEW m \in {"app", "default"}, NEW f \in {"app", "default"}
      PROVE  /\ SetExt(h, m, f) \in Hooks /\ SetExt(h, m, f).handler = h.handler
             /\ (SetExt(h, m, f).malloc = "app") = (SetExt(h, m, f).free = "app")
             /\ m = "default" => SetExt(h, m, f).malloc = "default" /\ SetExt(h, m, f).free = "default"
  <2>1. CASE m = "default" \/ f = "default"
    BY <1>2, <2>1 DEF SetExt, Hooks
  <2>2. CASE m = "app" /\ f = "app"
    BY <1>2, <2>2 DEF SetExt, Hooks
  <2> QED
    BY <1>2, <2>1, <2>2
<1>3. CASE LogSetHandler
  <2>1. PICK handler \in {"app", "default"}, enough \in BOOLEAN : hooks' = SetHandler(hooks, handler, enough)
    BY <1>3 DEF LogSetHandler
  <2>2. told' = Nil
    BY <1>3 DEF LogSetHandler
  <2> QED
    BY <1>1, <2>1, <2>2 DEF CallbacksReleased, LibraryAssumption
<1>4. CASE ExtInit
  <2>1. PICK m \in {"app", "default"}, f \in {"app", "default"} : hooks' = SetExt(hooks, m, f)
    BY <1>4 DEF ExtInit
  <2>2. told' = Nil
    BY <1>4 DEF ExtInit
  <2> QED
    BY <1>2, <2>1, <2>2 DEF CallbacksReleased, LibraryAssumption
<1>5. CASE LibShutdown
  <2>1. PICK enough \in BOOLEAN : hooks' = SetExt(SetHandler(hooks, "default", enough), "default", "default")
    BY <1>5 DEF LibShutdown
  <2> DEFINE h == SetHandler(hooks, "default", enough)
  <2>2. h \in Hooks /\ h.handler # "app"
    BY <1>1
  <2> HIDE DEF h
  <2>3. /\ hooks' \in Hooks /\ hooks'.handler # "app"
        /\ hooks'.malloc = "default" /\ hooks'.free = "default"
    BY <1>2, <2>1, <2>2 DEF h
  <2> QED
    BY <2>3 DEF CallbacksReleased
<1>6. ASSUME hooks' = hooks, told' # [op |-> "shutdown"]
      PROVE (hooks \in Hooks)' /\ CallbacksReleased'
  BY <1>6 DEF CallbacksReleased
<1>7. ASSUME LibraryNext, ~LogSetHandler, ~ExtInit, ~LibShutdown
      PROVE hooks' = hooks /\ told' # [op |-> "shutdown"]
  <2>1. Nil # [op |-> "shutdown"]
    BY DEF LibraryAssumption
  <2>2. ASSUME NEW c \in Ctxs, \/ InitBegins(c) \/ InitNames(c) \/ InitOpens(c) \/ InitRefusesKey(c)
                                \/ InitTakesKey(c) \/ InitStoresCount(c) \/ InitReturns(c) \/ CloseCfg(c)
                                \/ Deinit(c)
        PROVE  hooks' = hooks /\ (told' = Nil \/ told'.op = "init")
    BY <2>2 DEF InitBegins, InitNames, InitOpens, InitRefusesKey, InitTakesKey, InitStoresCount,
       InitReturns,
                InitFails, CloseCfg, Deinit
  <2>3. ASSUME NEW c \in Ctxs, NEW s \in Signals, CreateInstance(c, s) \/ StartInstance(c, s)
        PROVE  hooks' = hooks /\ (told' = Nil \/ told'.op = "create")
    BY <2>3 DEF CreateInstance, StartInstance
  <2>4. CASE CfgValidate \/ Handle
    BY <2>4 DEF CfgValidate, Handle
  <2> QED
    BY <1>7, <2>1, <2>2, <2>3, <2>4 DEF LibraryNext
<1>8. CASE UNCHANGED libraryVars
  BY <1>8 DEF libraryVars, CallbacksReleased
<1> QED
  BY <1>3, <1>4, <1>5, <1>6, <1>7, <1>8

LEMMA ShapeParts == LibraryShape <=> ContextsShape /\ InstancesShape /\ keys \in Seq(Counts)
                    /\ hooks \in Hooks
BY DEF LibraryShape, ContextsShape, InstancesShape, RightlyOpen

LEMMA ShapeStep == ASSUME LibraryAssumption, LibraryShape, CallbacksReleased,
                          [LibraryNext]_libraryVars
  PROVE LibraryShape'
<1>1. ContextsShape /\ InstancesShape /\ keys \in Seq(Counts) /\ hooks \in Hooks
  BY ShapeParts
<1>2. ContextsShape' /\ InstancesShape' /\ (keys \in Seq(Counts))' /\ (hooks \in Hooks)'
  BY <1>1, ContextsStep, InstancesStep, KeysStep, HooksStep
<1> QED
  BY <1>2, ShapeParts, PTL

\* What a name state promises is what the look-up of the entry finds.
LEMMA PromiseKept == ASSUME NEW d, NEW s, NEW n
  PROVE  Promised(Probe(d, s, n), s, n) = Resolve(d, s, ContextName(n))
<1>1. CASE n = ""
  BY <1>1 DEF Promised, Probe, Resolve, ContextName, Exists
<1>2. CASE n # ""
  BY <1>2 DEF Promised, Probe, Resolve, ContextName, Exists
<1> QED
  BY <1>1, <1>2

\* A check finds no entry exactly when the look-up of a section that is present finds none.
LEMMA ProbeTells == ASSUME LibraryAssumption, NEW d \in Docs, NEW s \in Signals, NEW n \in Names
  PROVE  Probe(d, s, n) \in {"NOT_FOUND", "UNSET_NOT_FOUND"}
         <=> d.sections[s] # Nil /\ Resolve(d, s, ContextName(n)) = Nil
<1>0. <<s, n>> # Nil /\ <<s, "default">> # Nil /\ <<s>> # Nil
  <2>1. <<s>> \in SectionPaths /\ <<s, n>> \in SectionPaths /\ <<s, "default">> \in SectionPaths
    BY DEF SectionPaths
  <2> QED
    BY <2>1 DEF LibraryAssumption
<1>1. CASE n = ""
  BY <1>0, <1>1 DEF Probe, Resolve, ContextName, Exists
<1>2. CASE n # ""
  BY <1>0, <1>2 DEF Probe, Resolve, ContextName, Exists
<1> QED
  BY <1>1, <1>2

-----------------------------------------------------------------------------
(* Library: what the calls tell, the settings and the count *)

\* A step of otelc_init() past a call, by where it is.
StepOf(c) == \/ InitBegins(c) \/ InitNames(c) \/ InitOpens(c) \/ InitRefusesKey(c) \/ InitTakesKey(c)
             \/ InitStoresCount(c) \/ InitReturns(c) \/ CloseCfg(c) \/ Deinit(c)

\* The other context records are left alone, and the moved one is Absent or a record.
LEMMA MovedFacts == ASSUME LibraryAssumption, ContextsShape, NEW c \in Ctxs, StepOf(c)
  PROVE  /\ \A d \in Ctxs \ {c} : contexts'[d] = contexts[d]
         /\ ContextsShape'
<1>1. Moves(c)
  BY MovesStep DEF StepOf
<1> QED
  BY <1>1, OneContext DEF Moves

\* Where a step takes the context it moves.
LEMMA MovedWhere == ASSUME LibraryAssumption, ContextsShape, NEW c \in Ctxs, StepOf(c)
  PROVE  \/ contexts'[c] = contexts[c]
         \/ contexts'[c] = Absent /\ contexts[c].at \in {"none", "name", "open", "shards", "live"}
         \/ contexts[c] = Absent /\ contexts'[c].at = "name"
         \/ /\ contexts'[c].doc = contexts[c].doc /\ contexts'[c].name = contexts[c].name
            /\ \/ contexts[c].at = "name" /\ contexts'[c].at = "open"
               \/ contexts[c].at = "open" /\ contexts'[c].at = "shards" /\ contexts[c].doc.ok
               \/ /\ contexts[c].at = "shards" /\ ~BadKey(contexts[c].doc) /\ InitTakesKey(c)
                  /\ contexts'[c].at \in {"store", "probe"}
               \/ contexts[c].at = "store" /\ contexts'[c].at = "probe" /\ InitStoresCount(c)
               \/ /\ contexts[c].at = "probe" /\ contexts'[c].at = "live"
                  /\ contexts'[c].nstate = [s \in Signals |-> Probe(contexts[c].doc, s, contexts[c].name)]
               \/ contexts[c].at = "live" /\ contexts'[c].at = "live"
                  /\ contexts'[c].nstate = contexts[c].nstate
<1>0. /\ contexts \in [Ctxs -> {Absent} \cup ContextRecord]
      /\ contexts[c].at # "none" => contexts[c] \in ContextRecord
      /\ Absent.at = "none" /\ \A r \in ContextRecord : r.at # "none"
  BY DEF ContextsShape, Absent, ContextRecord
<1>1. CASE InitBegins(c)
  <2>1. CASE contexts' # contexts
    BY <1>0, <1>1, <2>1 DEF InitBegins
  <2> QED
    BY <2>1
<1>2. ASSUME NEW freed, NEW enough, InitFails(c, freed, enough) PROVE contexts'[c] = Absent
  BY <1>0, <1>2 DEF InitFails
<1>3. CASE InitNames(c)
  <2>1. CASE contexts' = [contexts EXCEPT ![c].at = "open"]
    BY <1>0, <1>3, <2>1 DEF InitNames, ContextRecord
  <2> QED
    BY <1>2, <1>3, <2>1 DEF InitNames
<1>4. CASE InitOpens(c)
  <2>1. CASE contexts[c].doc.ok /\ contexts' = [contexts EXCEPT ![c].at = "shards", ![c].open = TRUE]
    BY <1>0, <1>4, <2>1 DEF InitOpens, ContextRecord
  <2> QED
    BY <1>2, <1>4, <2>1 DEF InitOpens
<1>5. CASE InitRefusesKey(c)
  BY <1>2, <1>5 DEF InitRefusesKey
<1>6. CASE InitTakesKey(c)
  <2>1. PICK at \in {"store", "probe"} : contexts' = [contexts EXCEPT ![c].at = at]
    BY <1>6 DEF InitTakesKey
  <2>2. contexts[c].at = "shards" /\ ~BadKey(contexts[c].doc)
    BY <1>6 DEF InitTakesKey
  <2> QED
    BY <1>0, <1>6, <2>1, <2>2 DEF ContextRecord
<1>7. CASE InitStoresCount(c)
  <2>1. contexts[c].at = "store" /\ contexts' = [contexts EXCEPT ![c].at = "probe"]
    BY <1>7 DEF InitStoresCount
  <2> QED
    BY <1>0, <1>7, <2>1 DEF ContextRecord
<1>8. CASE InitReturns(c)
  BY <1>0, <1>8 DEF InitReturns, ContextRecord
<1>9. CASE CloseCfg(c)
  BY <1>0, <1>9 DEF CloseCfg, Live, ContextRecord
<1>10. CASE Deinit(c)
  <2>1. PICK context \in BOOLEAN : /\ context => Live(c)
                                   /\ contexts' = [contexts EXCEPT ![c] = IF context THEN Absent ELSE contexts[c]]
    BY <1>10 DEF Deinit, Released
  <2>2. CASE context = TRUE
    BY <1>0, <2>1, <2>2 DEF Live
  <2>3. CASE context = FALSE
    BY <1>0, <2>1, <2>3
  <2> QED
    BY <2>2, <2>3
<1> QED
  BY <1>1, <1>3, <1>4, <1>5, <1>6, <1>7, <1>8, <1>9, <1>10 DEF StepOf

\* The steps that leave the contexts alone.
LEMMA ContextsRest == ASSUME LibraryNext, \A c \in Ctxs : ~StepOf(c) PROVE contexts' = contexts
BY DEF LibraryNext, StepOf, CreateInstance, StartInstance, CfgValidate, LogSetHandler, ExtInit,
   LibShutdown, Handle

\* A context in use has its name states, and the document it accepted.
LEMMA RecordedStep ==
  ASSUME LibraryAssumption, LibraryShape, StatesRecorded, DocumentAccepted, [LibraryNext]_libraryVars
  PROVE  StatesRecorded' /\ DocumentAccepted'
<1>0. ContextsShape
  BY ShapeParts
<1>1. CASE contexts' = contexts
  BY <1>1 DEF StatesRecorded, DocumentAccepted, Live
<1>2. ASSUME NEW c \in Ctxs, StepOf(c) PROVE StatesRecorded' /\ DocumentAccepted'
  <2>1. \A d \in Ctxs \ {c} : contexts'[d] = contexts[d]
    BY <1>0, <1>2, MovedFacts
  <2>2. /\ contexts'[c].at = "live" =>
             contexts'[c].nstate = [s \in Signals |-> Probe(contexts'[c].doc, s, contexts'[c].name)]
        /\ contexts'[c].at \in {"shards", "store", "probe"} => contexts'[c].doc.ok
        /\ contexts'[c].at \in {"store", "probe"} => ~BadKey(contexts'[c].doc)
    <3>1. /\ contexts[c].at = "live" =>
               contexts[c].nstate = [s \in Signals |-> Probe(contexts[c].doc, s, contexts[c].name)]
          /\ contexts[c].at \in {"shards", "store", "probe"} => contexts[c].doc.ok
          /\ contexts[c].at \in {"store", "probe"} => ~BadKey(contexts[c].doc)
      <4>1. contexts[c].at = "live" =>
               contexts[c].nstate = [s \in Signals |-> Probe(contexts[c].doc, s, contexts[c].name)]
        BY DEF StatesRecorded, Live
      <4>2. /\ contexts[c].at \in {"shards", "store", "probe"} => contexts[c].doc.ok
            /\ contexts[c].at \in {"store", "probe"} => ~BadKey(contexts[c].doc)
        BY Zenon DEF DocumentAccepted
      <4> QED
        BY <4>1, <4>2
    <3>2. Absent.at = "none"
      BY DEF Absent
    <3> QED
      BY <1>0, <1>2, <3>1, <3>2, MovedWhere
  <2>3. StatesRecorded'
    BY <2>1, <2>2 DEF StatesRecorded, Live
  <2>4. DocumentAccepted'
    BY <2>1, <2>2 DEF DocumentAccepted
  <2> QED
    BY <2>3, <2>4
<1>3. CASE UNCHANGED libraryVars
  BY <1>1, <1>3 DEF libraryVars
<1> QED
  BY <1>1, <1>2, <1>3, ContextsRest

\* The count is the first key's, and its store the only one pending.
LEMMA FirstKeyStep ==
  ASSUME LibraryAssumption, LibraryShape, FirstKeyPending, FirstKeyStays, [LibraryNext]_libraryVars
  PROVE  FirstKeyPending' /\ FirstKeyStays'
<1>0. ContextsShape /\ keys \in Seq(Counts) /\ Absent.at = "none"
  BY ShapeParts DEF Absent
\* Steps that neither take a key nor store a count nor shut down.
<1>1. ASSUME UNCHANGED <<shards, applied, keys>>,
             \A d \in Ctxs : contexts'[d].at = "store" \/ contexts[d].at = "store" => contexts'[d] = contexts[d]
      PROVE  FirstKeyPending' /\ FirstKeyStays'
  BY <1>1 DEF FirstKeyPending, FirstKeyStays
<1>2. ASSUME NEW c \in Ctxs, InitTakesKey(c) PROVE FirstKeyPending' /\ FirstKeyStays'
  <2>1. /\ contexts[c] \in ContextRecord /\ contexts[c].at = "shards"
        /\ contexts[c].doc.shards # Nil => contexts[c].doc.shards \in Counts
    BY <1>0, <1>2, TakenKey DEF InitTakesKey
  <2> DEFINE key == contexts[c].doc.shards
  <2>2. /\ shards' = shards /\ applied' = (applied \/ key # Nil)
        /\ keys' = IF key = Nil THEN keys ELSE Append(keys, key)
        /\ contexts' = [contexts EXCEPT ![c].at = IF key # Nil /\ ~applied THEN "store" ELSE "probe"]
    BY <1>2 DEF InitTakesKey
  <2>3. /\ \A d \in Ctxs \ {c} : contexts'[d] = contexts[d]
        /\ contexts'[c].doc.shards = key
        /\ contexts'[c].at = IF key # Nil /\ ~applied THEN "store" ELSE "probe"
    BY <1>0, <2>1, <2>2 DEF ContextRecord, ContextsShape
  <2>4. applied = (keys # <<>>)
    BY DEF FirstKeyPending
  <2>5. CASE key = Nil
    <3>1. keys' = keys /\ contexts'[c].at = "probe" /\ applied' = (keys' # <<>>)
      BY <2>2, <2>3, <2>4, <2>5
    <3> QED
      BY <2>1, <2>2, <2>3, <3>1 DEF FirstKeyPending, FirstKeyStays
  <2>6. CASE key # Nil /\ keys # <<>>
    <3>1. keys' = Append(keys, key) /\ key \in Counts
      BY <2>1, <2>2, <2>6
    <3>2. keys' # <<>> /\ keys'[1] = keys[1]
      BY <1>0, <2>6, <3>1, AppendKeepsFirst
    <3>3. contexts'[c].at = "probe" /\ applied' = TRUE
      BY <2>2, <2>3, <2>4, <2>6
    <3> QED
      BY <2>1, <2>2, <2>3, <2>6, <3>2, <3>3 DEF FirstKeyPending, FirstKeyStays
  <2>7. CASE key # Nil /\ keys = <<>>
    <3>1. keys' = Append(keys, key) /\ key \in Counts
      BY <2>1, <2>2, <2>7
    <3>2. keys' # <<>> /\ keys'[1] = key
      BY <1>0, <2>7, <3>1, AppendKeepsFirst
    <3>3. contexts'[c].at = "store" /\ applied' = TRUE
      BY <2>2, <2>3, <2>4, <2>7
    <3>4. \A d \in Ctxs : contexts[d].at # "store"
      BY <2>7 DEF FirstKeyPending
    <3>5. \A d \in Ctxs : contexts'[d].at = "store" => d = c
      BY <2>3, <3>4
    <3> QED
      BY <2>3, <3>2, <3>3, <3>5 DEF FirstKeyPending, FirstKeyStays
  <2> QED
    BY <2>5, <2>6, <2>7
<1>3. ASSUME NEW c \in Ctxs, InitStoresCount(c) PROVE FirstKeyPending' /\ FirstKeyStays'
  <2>1. contexts[c].at = "store" /\ keys # <<>> /\ keys[1] = contexts[c].doc.shards
        /\ \A d \in Ctxs \ {c} : contexts[d].at # "store"
    BY <1>3 DEF InitStoresCount, FirstKeyPending
  <2>2. shards' = keys[1] /\ UNCHANGED <<applied, keys>>
    BY <1>3, <2>1 DEF InitStoresCount
  <2>3. \A d \in Ctxs : contexts'[d].at # "store"
    <3>1. contexts' = [contexts EXCEPT ![c].at = "probe"]
      BY <1>3 DEF InitStoresCount
    <3>2. contexts[c] \in ContextRecord
      BY <1>0, <2>1 DEF ContextsShape
    <3> QED
      BY <1>0, <2>1, <3>1, <3>2 DEF ContextsShape, ContextRecord
  <2> QED
    BY <2>1, <2>2, <2>3 DEF FirstKeyPending, FirstKeyStays
<1>4. CASE LibShutdown
  <2>1. \A d \in Ctxs : contexts'[d].at # "store"
    BY <1>0, <1>4 DEF LibShutdown, Unused
  <2>2. shards' = DefaultCount /\ applied' = FALSE /\ keys' = <<>>
    BY <1>4 DEF LibShutdown
  <2> QED
    BY <2>1, <2>2 DEF FirstKeyPending, FirstKeyStays
<1>5. ASSUME NEW c \in Ctxs, StepOf(c), ~InitTakesKey(c), ~InitStoresCount(c)
      PROVE  FirstKeyPending' /\ FirstKeyStays'
  <2>1. \A d \in Ctxs \ {c} : contexts'[d] = contexts[d]
    BY <1>0, <1>5, MovedFacts
  <2>2. contexts'[c].at = "store" \/ contexts[c].at = "store" => contexts'[c] = contexts[c]
    BY <1>0, <1>5, MovedWhere
  <2>3. UNCHANGED <<shards, applied, keys>>
    BY <1>5 DEF StepOf, InitBegins, InitNames, InitOpens, InitRefusesKey, InitReturns, CloseCfg,
       Deinit
  <2> QED
    BY <1>1, <2>1, <2>2, <2>3
<1>6. ASSUME contexts' = contexts, UNCHANGED <<shards, applied, keys>>
      PROVE FirstKeyPending' /\ FirstKeyStays'
  BY <1>1, <1>6
<1>7. CASE UNCHANGED libraryVars
  BY <1>6, <1>7 DEF libraryVars
<1>8. CASE \/ CfgValidate \/ LogSetHandler \/ ExtInit \/ Handle
           \/ \E c \in Ctxs, s \in Signals : CreateInstance(c, s) \/ StartInstance(c, s)
  BY <1>6, <1>8 DEF CfgValidate, LogSetHandler, ExtInit, Handle, CreateInstance, StartInstance
<1> QED
  BY <1>2, <1>3, <1>4, <1>5, <1>7, <1>8 DEF LibraryNext, StepOf

\* The places, the count, the maps and the settings.
LEMMA TypeStep ==
  ASSUME LibraryAssumption, LibraryShape, LibraryTypeOK, CallbacksReleased, FirstKeyPending,
         [LibraryNext]_libraryVars
  PROVE  LibraryTypeOK'
<1>1. \A c \in Ctxs : contexts'[c].at \in {"none", "name", "open", "shards", "store", "probe", "live"}
  <2>1. ContextsShape'
    BY ContextsStep, ShapeParts
  <2>2. contexts' \in [Ctxs -> {Absent} \cup ContextRecord]
    BY <2>1 DEF ContextsShape
  <2> QED
    BY <2>2 DEF Absent, ContextRecord
<1>2. (shards \in Counts \cup {DefaultCount})'
  <2>1. CASE shards' = shards \/ shards' = DefaultCount
    BY <2>1 DEF LibraryTypeOK
  <2>2. ASSUME NEW c \in Ctxs, InitStoresCount(c) PROVE shards' \in Counts
    <3>1. keys # <<>> /\ shards' = keys[1]
      BY <2>2 DEF InitStoresCount, FirstKeyPending
    <3>2. keys \in Seq(Counts)
      BY ShapeParts
    <3>3. Len(keys) \in Nat \ {0}
      BY <3>1, <3>2
    <3> QED
      BY <3>1, <3>2, <3>3
  <2>3. ASSUME NEW c \in Ctxs, StepOf(c), ~InitStoresCount(c) PROVE shards' = shards
    BY <2>3 DEF StepOf, InitBegins, InitNames, InitOpens, InitRefusesKey, InitTakesKey,
       InitReturns, CloseCfg, Deinit
  <2>4. CASE \E c \in Ctxs, s \in Signals : CreateInstance(c, s) \/ StartInstance(c, s)
    BY <2>1, <2>4 DEF CreateInstance, StartInstance
  <2>5. CASE CfgValidate \/ LogSetHandler \/ ExtInit \/ LibShutdown \/ Handle \/ UNCHANGED libraryVars
    BY <2>1, <2>5 DEF CfgValidate, LogSetHandler, ExtInit, LibShutdown, Handle, libraryVars
  <2> QED
    BY <2>1, <2>2, <2>3, <2>4, <2>5 DEF LibraryNext, StepOf
<1>3. (applied \in BOOLEAN)'
  <2>1. CASE applied' = applied \/ applied' = FALSE
    BY <2>1 DEF LibraryTypeOK
  <2>2. ASSUME NEW c \in Ctxs, InitTakesKey(c) PROVE applied' \in BOOLEAN
    BY <2>2 DEF InitTakesKey
  <2>3. ASSUME NEW c \in Ctxs, StepOf(c), ~InitTakesKey(c) PROVE applied' = applied
    BY <2>3 DEF StepOf, InitBegins, InitNames, InitOpens, InitRefusesKey, InitStoresCount,
       InitReturns, CloseCfg, Deinit
  <2>4. CASE \E c \in Ctxs, s \in Signals : CreateInstance(c, s) \/ StartInstance(c, s)
    BY <2>1, <2>4 DEF CreateInstance, StartInstance
  <2>5. CASE CfgValidate \/ LogSetHandler \/ ExtInit \/ LibShutdown \/ Handle \/ UNCHANGED libraryVars
    BY <2>1, <2>5 DEF CfgValidate, LogSetHandler, ExtInit, LibShutdown, Handle, libraryVars
  <2> QED
    BY <2>1, <2>2, <2>3, <2>4, <2>5 DEF LibraryNext, StepOf
<1>4. (maps \in IF Tracers = {} THEN {Nil} ELSE Counts \cup {DefaultCount})'
  <2>0. /\ maps \in IF Tracers = {} THEN {Nil} ELSE Counts \cup {DefaultCount}
        /\ shards \in Counts \cup {DefaultCount} /\ InstancesShape /\ ContextsShape /\ "traces" \in Signals
    BY ShapeParts DEF LibraryTypeOK, LibraryAssumption
  <2>1. ASSUME Tracers' = Tracers, maps' = maps
        PROVE  maps' \in IF Tracers' = {} THEN {Nil} ELSE Counts \cup {DefaultCount}
    BY <2>0, <2>1
  <2>2. ASSUME instances' = instances, maps' = maps
        PROVE  maps' \in IF Tracers' = {} THEN {Nil} ELSE Counts \cup {DefaultCount}
    BY <2>1, <2>2 DEF Tracers
  <2>3. ASSUME NEW c \in Ctxs, NEW s \in Signals, CreateInstance(c, s)
        PROVE  maps' \in IF Tracers' = {} THEN {Nil} ELSE Counts \cup {DefaultCount}
    <3>1. CASE UNCHANGED <<instances, maps>>
      BY <2>2, <3>1
    <3>2. CASE ~UNCHANGED <<instances, maps>>
      <4>1. PICK prefix : /\ prefix # Nil
                          /\ prefix = Resolve(contexts[c].doc, s, ContextName(contexts[c].name))
                          /\ instances' = [instances EXCEPT ![c][s] = [prefix |-> prefix, started |-> FALSE]]
                          /\ maps' = IF s = "traces" THEN Built ELSE maps
        BY <2>3, <3>2 DEF CreateInstance
      <4>2. contexts[c] \in ContextRecord
        BY <2>0, <2>3 DEF CreateInstance, Live, ContextsShape, Absent
      <4>3. contexts[c].doc \in Docs /\ ContextName(contexts[c].name) \in Names \cup {"default"}
        BY <4>2 DEF ContextRecord, ContextName
      <4>4. [prefix |-> prefix, started |-> FALSE] # Nil
        BY <4>1, <4>3, ResolvesTo
      <4>5. CASE s = "traces"
        <5>1. Tracers' = Tracers \cup {c}
          BY <2>0, <4>1, <4>4, <4>5 DEF Tracers, InstancesShape
        <5> QED
          BY <2>0, <4>1, <4>5, <5>1 DEF Built
      <4>6. CASE s # "traces"
        <5>1. \A d \in Ctxs : instances'[d]["traces"] = instances[d]["traces"]
          BY <2>0, <4>1, <4>6 DEF InstancesShape
        <5> QED
          BY <2>1, <4>1, <4>6, <5>1 DEF Tracers
      <4> QED
        BY <4>5, <4>6
    <3> QED
      BY <3>1, <3>2
  <2>4. ASSUME NEW c \in Ctxs, NEW s \in Signals, StartInstance(c, s)
        PROVE  maps' \in IF Tracers' = {} THEN {Nil} ELSE Counts \cup {DefaultCount}
    <3>1. /\ instances[c][s] \in [prefix : SectionPaths, started : BOOLEAN] /\ maps' = maps
          /\ instances' = [instances EXCEPT ![c][s] = [instances[c][s] EXCEPT !.started = TRUE]]
      BY <2>0, <2>4 DEF StartInstance, InstancesShape
    <3>2. [instances[c][s] EXCEPT !.started = TRUE] # Nil /\ instances[c][s] # Nil
      <4>1. [instances[c][s] EXCEPT !.started = TRUE] \in [prefix : SectionPaths, started : BOOLEAN]
        BY <3>1
      <4> QED
        BY <3>1, <4>1 DEF LibraryAssumption
    <3>3. \A d \in Ctxs : instances'[d]["traces"] # Nil <=> instances[d]["traces"] # Nil
      BY <2>0, <3>1, <3>2 DEF InstancesShape
    <3> QED
      BY <2>1, <3>1, <3>3 DEF Tracers
  <2>5. ASSUME NEW c \in Ctxs, Deinit(c)
        PROVE  maps' \in IF Tracers' = {} THEN {Nil} ELSE Counts \cup {DefaultCount}
    <3>1. PICK passed \in SUBSET Instances(c) :
            /\ instances' = [instances EXCEPT ![c] = [s \in Signals |-> IF s \in passed THEN Nil ELSE instances[c][s]]]
            /\ maps' = IF "traces" \in passed THEN TornDown(c) ELSE maps
      BY <2>5 DEF Deinit, Released
    <3>2. CASE "traces" \in passed
      <4>1. Tracers' = Tracers \ {c} /\ c \in Tracers
        BY <2>0, <3>1, <3>2 DEF Tracers, Instances, InstancesShape
      <4> QED
        BY <2>0, <3>1, <3>2, <4>1 DEF TornDown
    <3>3. CASE "traces" \notin passed
      <4>1. \A d \in Ctxs : instances'[d]["traces"] = instances[d]["traces"]
        BY <2>0, <3>1, <3>3 DEF InstancesShape
      <4> QED
        BY <2>1, <3>1, <3>3, <4>1 DEF Tracers
    <3> QED
      BY <3>2, <3>3
  <2>6. ASSUME NEW c \in Ctxs, StepOf(c), ~Deinit(c) PROVE instances' = instances /\ maps' = maps
    BY <2>6 DEF StepOf, InitBegins, InitNames, InitOpens, InitRefusesKey, InitTakesKey,
       InitStoresCount, InitReturns,
                CloseCfg
  <2>7. CASE CfgValidate \/ LogSetHandler \/ ExtInit \/ LibShutdown \/ Handle \/ UNCHANGED libraryVars
    BY <2>2, <2>7 DEF CfgValidate, LogSetHandler, ExtInit, LibShutdown, Handle, libraryVars
  <2> QED
    BY <2>2, <2>3, <2>4, <2>5, <2>6, <2>7 DEF LibraryNext, StepOf
<1>5. (libraryCalls \in 0 .. MaxLibraryCalls)'
  <2>0. libraryCalls \in 0 .. MaxLibraryCalls /\ MaxLibraryCalls \in Nat
    BY DEF LibraryTypeOK, LibraryAssumption
  <2>1. CASE Called
    BY <2>0, <2>1 DEF Called
  <2>2. CASE libraryCalls' = libraryCalls
    BY <2>0, <2>2
  <2>3. ASSUME NEW c \in Ctxs, StepOf(c) PROVE Called \/ libraryCalls' = libraryCalls
    BY <2>3 DEF StepOf, InitBegins, InitNames, InitOpens, InitRefusesKey, InitTakesKey,
       InitStoresCount, InitReturns,
                CloseCfg, Deinit
  <2>4. CASE \E c \in Ctxs, s \in Signals : CreateInstance(c, s) \/ StartInstance(c, s)
    BY <2>1, <2>4 DEF CreateInstance, StartInstance
  <2>5. CASE CfgValidate \/ LogSetHandler \/ ExtInit \/ LibShutdown \/ Handle
    BY <2>1, <2>5 DEF CfgValidate, LogSetHandler, ExtInit, LibShutdown, Handle
  <2> QED
    BY <2>1, <2>2, <2>3, <2>4, <2>5 DEF LibraryNext, StepOf, libraryVars
<1>6. hooks'.handler \in {"app", "default", "empty"}
  BY HooksStep, ShapeParts DEF Hooks
<1> QED
  BY <1>1, <1>2, <1>3, <1>4, <1>5, <1>6 DEF LibraryTypeOK, Tracers

\* What a call answers, as the next ones find it.
LEMMA ForetoldStep ==
  ASSUME LibraryAssumption, LibraryShape, StatesRecorded, DocumentAccepted, ForetoldHolds,
         [LibraryNext]_libraryVars
  PROVE  ForetoldHolds'
<1>0. ContextsShape
  BY ShapeParts
<1>1. ASSUME told' = Nil PROVE ForetoldHolds'
  BY <1>1 DEF ForetoldHolds, NStateTellsCreate, ValidateTellsInit
<1>2. ASSUME told'.op \notin {"create", "init", "validate"} PROVE ForetoldHolds'
  BY <1>2 DEF ForetoldHolds, NStateTellsCreate, ValidateTellsInit
<1>3. ASSUME NEW d \in Docs, NEW ok \in BOOLEAN, NEW enough \in BOOLEAN,
             told' = [op |-> "init", doc |-> d, ok |-> ok, enough |-> enough],
             enough = TRUE => (ok = TRUE <=> d.ok /\ ~BadKey(d))
      PROVE  ForetoldHolds'
  <2>1. NStateTellsCreate'
    BY <1>3 DEF NStateTellsCreate
  <2>2. /\ told'.op = "init" /\ told'.doc = d /\ told'.ok = ok /\ told'.enough = enough
        /\ d.ok \in BOOLEAN /\ BadKey(d) \in BOOLEAN
    BY <1>3 DEF LibraryAssumption, BadKey
  <2>3. (enough = TRUE) => ok = (d.ok /\ ~BadKey(d))
    BY <1>3, <2>2
  <2>4. ValidateTellsInit'
    BY <2>2, <2>3 DEF ValidateTellsInit
  <2> QED
    BY <2>1, <2>4 DEF ForetoldHolds
<1>4. ASSUME NEW c \in Ctxs, StepOf(c), told' # Nil PROVE ForetoldHolds'
  <2>1. CASE InitBegins(c)
    <3>1. PICK d \in Docs : told' = [op |-> "init", doc |-> d, ok |-> FALSE, enough |-> FALSE]
      BY <1>4, <2>1 DEF InitBegins
    <3> QED
      BY <1>3, <3>1
  <2>2. ASSUME ~InitBegins(c) PROVE contexts[c].doc \in Docs \/ told' = Nil
    <3>1. contexts[c].at # "none" \/ told' = Nil
      BY <1>4, <2>2 DEF StepOf, InitNames, InitOpens, InitRefusesKey, InitTakesKey,
         InitStoresCount, InitReturns,
                        CloseCfg, Deinit
    <3> QED
      BY <1>0, <3>1 DEF ContextsShape, ContextRecord, Absent
  <2>3. CASE InitNames(c)
    <3>1. told' = [op |-> "init", doc |-> contexts[c].doc, ok |-> FALSE, enough |-> FALSE]
      BY <1>4, <2>3 DEF InitNames, InitFails
    <3>2. contexts[c].doc \in Docs
      BY <1>0, <2>3 DEF InitNames, ContextsShape, ContextRecord, Absent
    <3> QED
      BY <1>3, <3>1, <3>2
  <2>4. CASE InitOpens(c)
    <3>1. told' = [op |-> "init", doc |-> contexts[c].doc, ok |-> FALSE, enough |-> ~contexts[c].doc.ok]
      BY <1>4, <2>4 DEF InitOpens, InitFails
    <3>2. contexts[c].doc \in Docs
      BY <1>0, <2>4 DEF InitOpens, ContextsShape, ContextRecord, Absent
    <3> DEFINE enough == ~contexts[c].doc.ok
    <3>3. enough \in BOOLEAN /\ (enough = TRUE => ~contexts[c].doc.ok)
      OBVIOUS
    <3> HIDE DEF enough
    <3>4. told' = [op |-> "init", doc |-> contexts[c].doc, ok |-> FALSE, enough |-> enough]
      BY <3>1 DEF enough
    <3> QED
      BY <1>3, <3>2, <3>3, <3>4
  <2>5. CASE InitRefusesKey(c)
    <3>1. told' = [op |-> "init", doc |-> contexts[c].doc, ok |-> FALSE, enough |-> TRUE]
          /\ BadKey(contexts[c].doc)
      BY <2>5 DEF InitRefusesKey, InitFails
    <3>2. contexts[c].doc \in Docs
      BY <1>0, <2>5 DEF InitRefusesKey, ContextsShape, ContextRecord, Absent
    <3> QED
      BY <1>3, <3>1, <3>2
  <2>6. CASE InitReturns(c)
    <3>1. told' = [op |-> "init", doc |-> contexts[c].doc, ok |-> TRUE, enough |-> TRUE]
          /\ contexts[c].at = "probe"
      BY <2>6 DEF InitReturns
    <3>2. contexts[c].doc \in Docs
      BY <1>0, <3>1 DEF ContextsShape, ContextRecord, Absent
    <3>3. contexts[c].doc.ok /\ ~BadKey(contexts[c].doc)
      BY Zenon, <3>1 DEF DocumentAccepted
    <3> QED
      BY <1>3, <3>1, <3>2, <3>3
  <2>7. InitTakesKey(c) \/ InitStoresCount(c) \/ CloseCfg(c) \/ Deinit(c) => told' = Nil
    BY DEF InitTakesKey, InitStoresCount, CloseCfg, Deinit
  <2> QED
    BY <1>4, <2>1, <2>3, <2>4, <2>5, <2>6, <2>7 DEF StepOf
<1>5. CASE CfgValidate
  <2>1. PICK d \in Docs, n \in Names : told' = [op |-> "validate", doc |-> d, name |-> n,
               ok |-> /\ d.ok /\ ~BadKey(d)
                      /\ \A s \in Signals : Probe(d, s, n) \notin {"NOT_FOUND", "UNSET_NOT_FOUND"}]
    BY <1>5 DEF CfgValidate
  <2> DEFINE Every == \A s \in Signals : Probe(d, s, n) \notin {"NOT_FOUND", "UNSET_NOT_FOUND"}
             All == \A s \in Signals : d.sections[s] # Nil => Resolve(d, s, ContextName(n)) # Nil
  <2>2. Every = All
    BY ProbeTells
  <2>3. told'.op = "validate" /\ told'.doc = d /\ told'.name = n /\ told'.ok = (d.ok /\ ~BadKey(d) /\ Every)
    BY <2>1
  <2>4. ValidateTellsInit'
    <3>1. told'.ok = /\ d.ok /\ ~BadKey(d)
                     /\ \A s \in Signals : d.sections[s] # Nil => Resolve(d, s, ContextName(n)) # Nil
      BY Zenon, <2>2, <2>3
    <3> QED
      BY Zenon, <2>3, <3>1 DEF ValidateTellsInit
  <2>5. NStateTellsCreate'
    BY <2>3 DEF NStateTellsCreate
  <2> QED
    BY <2>4, <2>5 DEF ForetoldHolds
<1>6. ASSUME NEW c \in Ctxs, NEW s \in Signals, CreateInstance(c, s) PROVE ForetoldHolds'
  <2>1. PICK enough \in BOOLEAN :
          told' = [op |-> "create", ctx |-> c, signal |-> s,
                   prefix |-> IF contexts[c].open /\ enough
                              THEN Resolve(contexts[c].doc, s, ContextName(contexts[c].name)) ELSE Nil,
                   enough |-> enough /\ contexts[c].open]
    BY <1>6 DEF CreateInstance
  <2>2. /\ told'.op = "create" /\ told'.ctx = c /\ told'.signal = s
        /\ told'.prefix = IF told'.enough THEN Resolve(contexts[c].doc, s, ContextName(contexts[c].name))
                          ELSE Nil
    BY <2>1
  <2>3. contexts[c].nstate[s] = Probe(contexts[c].doc, s, contexts[c].name)
    BY <1>6 DEF CreateInstance, StatesRecorded, Live
  <2>4. contexts' = contexts
    BY <1>6 DEF CreateInstance
  <2>5. told'.prefix = IF told'.enough THEN Promised(contexts'[c].nstate[s], s, contexts'[c].name) ELSE Nil
    BY <2>2, <2>3, <2>4, PromiseKept
  <2>6. NStateTellsCreate'
    BY <2>2, <2>5 DEF NStateTellsCreate
  <2>7. ValidateTellsInit'
    BY <2>2 DEF ValidateTellsInit
  <2> QED
    BY <2>6, <2>7 DEF ForetoldHolds
<1>7. ASSUME NEW c \in Ctxs, NEW s \in Signals, StartInstance(c, s) PROVE ForetoldHolds'
  BY <1>1, <1>7 DEF StartInstance
<1>8. CASE LogSetHandler \/ ExtInit
  BY <1>1, <1>8 DEF LogSetHandler, ExtInit
<1>9. CASE LibShutdown \/ Handle
  <2>1. told'.op \in {"shutdown", "log"}
    BY <1>9 DEF LibShutdown, Handle
  <2> QED
    BY <1>2, <2>1
<1>10. CASE UNCHANGED libraryVars
  BY <1>10 DEF libraryVars, ForetoldHolds, NStateTellsCreate, ValidateTellsInit
<1> QED
  BY <1>1, <1>4, <1>5, <1>6, <1>7, <1>8, <1>9, <1>10 DEF LibraryNext, StepOf

-------------------------------------------------------------------------------
\* Every set of numbers that is not empty has a least one: the intervals below its elements
\* are finite sets, which strict inclusion orders well.
LEMMA LeastIs == ASSUME NEW at \in SUBSET Nat, at # {}
                 PROVE  \E i \in at : \A j \in at : i <= j
<1> DEFINE below == {0..i : i \in at}
<1>1. below \subseteq FiniteSubsetsOf(Nat) /\ below # {}
  <2>1. ASSUME NEW i \in at PROVE 0..i \in SUBSET Nat /\ IsFiniteSet(0..i)
    BY FS_Interval
  <2> QED
    BY <2>1 DEF FiniteSubsetsOf
<1>2. PICK least \in below : \A b \in below : <<b, least>> \notin StrictSubsetOrdering(Nat)
  <2> HIDE DEF below
  <2> QED
    BY <1>1, WFMin, FS_StrictSubsetOrderingWellFounded, Zenon
<1>3. PICK i \in at : least = 0..i
  BY <1>2
<1>4. ASSUME NEW j \in at, j < i PROVE FALSE
  <2>1. 0..j \in SUBSET Nat /\ 0..i \in SUBSET Nat /\ 0..j \subseteq 0..i /\ 0..j # 0..i
    <3>1. i \in 0..i /\ i \notin 0..j
      BY <1>4
    <3> QED
      BY <1>4, <3>1
  <2>2. <<0..j, 0..i>> \in StrictSubsetOrdering(Nat)
    BY <2>1 DEF StrictSubsetOrdering
  <2> QED
    BY <1>2, <1>3, <2>2
<1> QED
  BY <1>4

-----------------------------------------------------------------------------
(* Library: what a log handler sees *)

Cells == STRING \cup {"blank", "key"}

\* The cells that were filled from the first i attributes hold those that a cell can hold,
\* in their order and without a gap.
Kept(given, i) == {k \in 1..i : given[k] \in Scalars}
GapFree(from, cells, len, given, i) ==
    /\ from \in [1..len -> Kept(given, i)]
    /\ \A k \in Kept(given, i) : \E j \in 1..len : from[j] = k
    /\ \A j, k \in 1..len : j < k => from[j] < from[k]
    /\ \A j \in 1..len : cells[j] = given[from[j]]
FilledUpTo(r, given, i) ==
    /\ r.cells \in [1..Len(given) -> Cells] /\ r.len \in 0..i
    /\ \E from : GapFree(from, r.cells, r.len, given, i)

\* One attribute more.
LEMMA OneMore ==
  ASSUME NEW given \in Seq(STRING), NEW i \in 1..Len(given), NEW r, FilledUpTo(r, given, i - 1)
  PROVE  FilledUpTo(Placed(r, given[i]), given, i)
<1> DEFINE f == Placed(r, given[i])
           n == Len(given)
<1>1. n \in Nat /\ i \in Nat /\ 1 <= i /\ i <= n /\ r.len \in Nat /\ r.len + 1 \in 1..n /\ r.len <= i - 1 /\ given[i] \in STRING
  BY DEF FilledUpTo
<1>2. f.cells = [r.cells EXCEPT ![r.len + 1] = IF given[i] \in Scalars THEN given[i] ELSE "key"]
      /\ f.len = IF given[i] \in Scalars THEN r.len + 1 ELSE r.len
  BY DEF Placed
<1>3. PICK from : GapFree(from, r.cells, r.len, given, i - 1)
  BY DEF FilledUpTo
<1>4. r.cells \in [1..n -> Cells]
  BY DEF FilledUpTo
<1> HIDE DEF f, n
<1>5. f.cells \in [1..n -> Cells] /\ \A j \in 1..r.len : f.cells[j] = r.cells[j]
  <2>1. PICK v \in Cells : f.cells = [r.cells EXCEPT ![r.len + 1] = v]
    BY <1>1, <1>2 DEF Cells
  <2> DEFINE c == r.cells
             l == r.len
  <2>2. c \in [1..n -> Cells] /\ f.cells = [c EXCEPT ![l + 1] = v] /\ l \in Nat /\ l + 1 \in 1..n
    BY <1>1, <1>4, <2>1
  <2> HIDE DEF c, l
  <2>3. f.cells \in [1..n -> Cells]
    BY <2>2
  <2>4. \A j \in 1..l : j \in 1..n /\ j # l + 1
    BY <1>1, <2>2
  <2>5. \A j \in 1..l : f.cells[j] = c[j]
    BY <2>2, <2>4
  <2> QED
    BY <2>3, <2>5 DEF c, l
<1>6. CASE given[i] \in Scalars
  <2> DEFINE to == [j \in 1..(r.len + 1) |-> IF j = r.len + 1 THEN i ELSE from[j]]
  <2>1. Kept(given, i) = Kept(given, i - 1) \cup {i} /\ f.len = r.len + 1 /\ f.cells[r.len + 1] = given[i]
    BY <1>1, <1>2, <1>4, <1>6 DEF Kept
  <2>2. \A j \in 1..r.len : j \in 1..(r.len + 1) /\ j # r.len + 1 /\ from[j] \in Kept(given, i - 1) /\ from[j] \in 1..(i - 1)
    BY <1>1, <1>3 DEF GapFree, Kept
  <2>3. \A j \in 1..(r.len + 1) : j = r.len + 1 \/ j \in 1..r.len
    BY <1>1
  <2>4. to[r.len + 1] = i /\ \A j \in 1..r.len : to[j] = from[j]
    BY <1>1, <2>2
  <2>5. to \in [1..(r.len + 1) -> Kept(given, i)]
    BY <2>1, <2>2, <2>3
  <2> HIDE DEF to
  <2>6. \A k \in Kept(given, i) : \E j \in 1..(r.len + 1) : to[j] = k
    BY <1>1, <1>3, <2>1, <2>2, <2>4 DEF GapFree
  <2>7. \A j, k \in 1..(r.len + 1) : j < k => to[j] < to[k]
    <3> SUFFICES ASSUME NEW j \in 1..(r.len + 1), NEW k \in 1..(r.len + 1), j < k PROVE to[j] < to[k]
      OBVIOUS
    <3>1. j \in 1..r.len
      BY <1>1
    <3>2. to[j] = from[j] /\ from[j] \in 1..(i - 1)
      BY <2>2, <2>4, <3>1
    <3>3. CASE k = r.len + 1
      BY <1>1, <2>4, <3>2, <3>3
    <3>4. CASE k \in 1..r.len
      BY <1>3, <2>4, <3>1, <3>4 DEF GapFree
    <3> QED
      BY <2>3, <3>3, <3>4
  <2>8. \A j \in 1..(r.len + 1) : f.cells[j] = given[to[j]]
    BY <1>3, <1>5, <2>1, <2>3, <2>4 DEF GapFree
  <2>9. GapFree(to, f.cells, f.len, given, i)
    BY <2>1, <2>5, <2>6, <2>7, <2>8 DEF GapFree
  <2> QED
    BY <1>1, <1>5, <2>1, <2>9 DEF FilledUpTo, f, n
<1>7. CASE given[i] \notin Scalars
  <2>1. Kept(given, i) = Kept(given, i - 1) /\ f.len = r.len
    BY <1>1, <1>2, <1>7 DEF Kept
  <2>2. GapFree(from, f.cells, f.len, given, i)
    BY <1>3, <1>5, <2>1 DEF GapFree
  <2> QED
    BY <1>1, <1>5, <2>1, <2>2 DEF FilledUpTo, f, n
<1> QED
  BY <1>6, <1>7

\* All attributes of a message.
LEMMA ConvertedIs ==
  ASSUME NEW given \in Seq(STRING)
  PROVE  FilledUpTo(Converted(given), given, Len(given))
<1> DEFINE n == Len(given)
           none == [cells |-> [j \in DOMAIN given |-> "blank"], len |-> 0]
           More(r, i) == Placed(r, given[i])
           Row(f, m) == [i \in 0..m |-> IF i = 0 THEN none ELSE More(f[i - 1], i)]
           After == CHOOSE f : f = Row(f, n)
<1>1. Converted(given) = After[n]
  BY DEF Converted
<1>2. n \in Nat
  OBVIOUS
<1>3. FilledUpTo(none, given, 0)
  <2>1. DOMAIN given = 1..Len(given) /\ "blank" \in Cells
    BY DEF Cells
  <2>4. none.cells = [j \in DOMAIN given |-> "blank"] /\ none.len = 0
    OBVIOUS
  <2>5. none.cells \in [1..Len(given) -> Cells]
    BY <2>1, <2>4
  <2>2. Kept(given, 0) = {} /\ 1..0 = {}
    BY DEF Kept
  <2>3. GapFree([j \in {} |-> 1], none.cells, 0, given, 0)
    BY <2>2 DEF GapFree
  <2> HIDE DEF none
  <2> QED
    BY <2>3, <2>4, <2>5 DEF FilledUpTo
<1>4. ASSUME NEW r, NEW i \in 1..n, FilledUpTo(r, given, i - 1) PROVE FilledUpTo(More(r, i), given, i)
  BY <1>4, OneMore
<1> HIDE DEF none, More, n
<1> DEFINE missing == {m \in 0..n : ~\E f : f = Row(f, m)}
<1>5. missing = {}
  <2> SUFFICES ASSUME missing # {} PROVE FALSE
    OBVIOUS
  <2>1. missing \in SUBSET Nat
    BY <1>2
  <2>2. PICK m \in missing : \A j \in missing : m <= j
    BY <2>1, LeastIs
  <2>3. m \in 0..n /\ m \in Nat /\ ~\E f : f = Row(f, m)
    BY <1>2, <2>2
  <2>4. m # 0
    <3> DEFINE f == [i \in 0..0 |-> none]
    <3>1. f[0] = none /\ \A i \in 0..0 : i = 0
      OBVIOUS
    <3>2. Row(f, 0) = [i \in 0..0 |-> none]
      BY <3>1
    <3> HIDE DEF Row
    <3>3. f = Row(f, 0)
      BY <3>2
    <3> QED
      BY <2>3, <3>3
  <2>5. m - 1 \in 0..n /\ ~(m <= m - 1)
    BY <1>2, <2>3, <2>4
  <2>6. PICK f : f = Row(f, m - 1)
    BY <2>2, <2>5
  <2> DEFINE g == [i \in 0..m |-> IF i = m THEN More(f[m - 1], m) ELSE f[i]]
  <2>7. \A i \in 0..m : g[i] = IF i = 0 THEN none ELSE More(g[i - 1], i)
    <3> SUFFICES ASSUME NEW i \in 0..m PROVE g[i] = IF i = 0 THEN none ELSE More(g[i - 1], i)
      OBVIOUS
    <3>1. CASE i = m
      <4>1. m - 1 \in 0..m /\ m - 1 # m /\ m \in 0..m
        BY <2>3, <2>4
      <4>2. g[m - 1] = f[m - 1] /\ g[m] = More(f[m - 1], m)
        BY <4>1
      <4> HIDE DEF g
      <4> QED
        BY <2>4, <3>1, <4>2
    <3>2. CASE i # m
      <4>1. i \in 0..(m - 1) /\ (i # 0 => i - 1 \in 0..m /\ i - 1 # m)
        BY <2>3, <2>4, <3>2
      <4>2. g[i] = f[i] /\ (i # 0 => g[i - 1] = f[i - 1])
        BY <3>2, <4>1
      <4>3. f[i] = IF i = 0 THEN none ELSE More(f[i - 1], i)
        BY <2>6, <4>1
      <4> HIDE DEF g
      <4> QED
        BY <4>2, <4>3
    <3> QED
      BY <3>1, <3>2
  <2>8. g = [i \in 0..m |-> g[i]]
    OBVIOUS
  <2> HIDE DEF g
  <2>9. g = Row(g, m)
    BY <2>7, <2>8
  <2> QED
    BY <2>3, <2>9
<1>6. \E f : f = Row(f, n)
  BY <1>2, <1>5
<1>7. After = Row(After, n)
  <2> HIDE DEF Row
  <2> QED
    BY <1>6
<1>8. \A i \in 0..n : After[i] = IF i = 0 THEN none ELSE More(After[i - 1], i)
  BY <1>7
<1> HIDE DEF After, Row, missing
<1> DEFINE amiss == {i \in 0..n : ~FilledUpTo(After[i], given, i)}
<1>9. amiss = {}
  <2> SUFFICES ASSUME amiss # {} PROVE FALSE
    OBVIOUS
  <2>1. amiss \in SUBSET Nat
    BY <1>2
  <2>2. PICK i \in amiss : \A j \in amiss : i <= j
    BY <2>1, LeastIs
  <2>3. i \in 0..n /\ i \in Nat /\ ~FilledUpTo(After[i], given, i)
    BY <1>2, <2>2
  <2>4. i # 0
    BY <1>3, <1>8, <2>3
  <2>5. i - 1 \in 0..n /\ i \in 1..n /\ ~(i <= i - 1)
    BY <1>2, <2>3, <2>4
  <2>6. FilledUpTo(After[i - 1], given, i - 1)
    BY <2>2, <2>5
  <2> QED
    BY <1>4, <1>8, <2>3, <2>4, <2>5, <2>6
<1>10. FilledUpTo(After[n], given, n)
  BY <1>2, <1>9
<1> QED
  BY <1>1, <1>10 DEF n

\* A message reaches the handler.
LEMMA HandlerGets == ASSUME LibraryAssumption, Handle PROVE HandlerSeesWritten'
<1>1. PICK given \in LogAttributes, forward \in BOOLEAN, enough \in BOOLEAN :
         told' = [op |-> "log", given |-> IF forward /\ enough THEN given ELSE <<>>,
                  got |-> IF forward /\ enough THEN SubSeq(Converted(given).cells, 1, Converted(given).len) ELSE <<>>]
  BY DEF Handle
<1>2. given \in Seq(STRING)
  BY DEF LibraryAssumption
<1> DEFINE r == Converted(given)
           n == Len(given)
<1>3. FilledUpTo(r, given, n)
  BY <1>2, ConvertedIs
<1> HIDE DEF r
<1>4. CASE forward /\ enough
  <2>1. PICK from : GapFree(from, r.cells, r.len, given, n)
    BY <1>3 DEF FilledUpTo
  <2>2. r.cells \in [1..n -> Cells] /\ r.len \in 0..n /\ n \in Nat
    BY <1>2, <1>3 DEF FilledUpTo
  <2>3. SubSeq(r.cells, 1, r.len) = [j \in 1..r.len |-> r.cells[j]]
    BY <2>2
  <2>4. told'.given = given /\ told'.got = [j \in 1..r.len |-> r.cells[j]]
    BY <1>1, <1>4, <2>3 DEF r
  <2>5. Kept(given, n) = {i \in DOMAIN told'.given : told'.given[i] \in Scalars} /\ DOMAIN told'.got = 1..r.len
    BY <1>2, <2>4 DEF Kept
  <2>6. /\ from \in [DOMAIN told'.got -> {i \in DOMAIN told'.given : told'.given[i] \in Scalars}]
        /\ \A i \in {k \in DOMAIN told'.given : told'.given[k] \in Scalars} : \E j \in DOMAIN told'.got : from[j] = i
        /\ \A i, j \in DOMAIN told'.got : i < j => from[i] < from[j]
    BY <2>1, <2>5 DEF GapFree
  <2>7. \A j \in DOMAIN told'.got : told'.got[j] = told'.given[from[j]]
    BY <2>1, <2>4, <2>5 DEF GapFree
  <2> QED
    BY <2>6, <2>7 DEF HandlerSeesWritten
<1>5. CASE ~(forward /\ enough)
  <2>1. told'.given = <<>> /\ told'.got = <<>>
    BY <1>1, <1>5
  <2>2. [j \in {} |-> 1] \in [{} -> {}] /\ DOMAIN told'.got = {} /\ {i \in DOMAIN told'.given : told'.given[i] \in Scalars} = {}
    BY <2>1
  <2> QED
    BY <2>2 DEF HandlerSeesWritten
<1> QED
  BY <1>4, <1>5

\* No other step is a message.
LEMMA HandlerKept == ASSUME LibraryAssumption, HandlerSeesWritten, [LibraryNext]_libraryVars PROVE HandlerSeesWritten'
<1>1. CASE Handle
  BY <1>1, HandlerGets
<1>2. CASE UNCHANGED libraryVars
  BY <1>2 DEF HandlerSeesWritten, libraryVars
<1>3. ASSUME told' = Nil \/ told'.op # "log" PROVE HandlerSeesWritten'
  BY <1>3 DEF HandlerSeesWritten
<1>4. ASSUME NEW c \in Ctxs,
             \/ InitBegins(c) \/ InitNames(c) \/ InitOpens(c) \/ InitRefusesKey(c)
             \/ InitTakesKey(c) \/ InitStoresCount(c) \/ InitReturns(c) \/ CloseCfg(c) \/ Deinit(c)
             \/ \E s \in Signals : CreateInstance(c, s) \/ StartInstance(c, s)
      PROVE  HandlerSeesWritten'
  BY <1>3, <1>4 DEF InitBegins, InitNames, InitOpens, InitRefusesKey, InitTakesKey, InitStoresCount, InitReturns,
     CloseCfg, Deinit, CreateInstance, StartInstance, InitFails
<1>5. CASE CfgValidate \/ LogSetHandler \/ ExtInit \/ LibShutdown
  BY <1>3, <1>5 DEF CfgValidate, LogSetHandler, ExtInit, LibShutdown
<1> QED
  BY <1>1, <1>2, <1>4, <1>5 DEF LibraryNext
---------------------------------------------------------------------------
(* Library: the theorems *)

LEMMA ContextsBegin == ASSUME LibraryAssumption PROVE LibraryInit => ContextsInv
<1> SUFFICES ASSUME LibraryInit PROVE ContextsInv
  OBVIOUS
<1>0. /\ \A c \in Ctxs : contexts[c] = Absent /\ contexts[c].at = "none"
      /\ \A c \in Ctxs, s \in Signals : instances[c][s] = Nil
      /\ told = Nil /\ keys = <<>> /\ heap = {}
  BY DEF LibraryInit, Absent
<1>1. LibraryTypeOK
  <2>1. Tracers = {}
    BY <1>0 DEF Tracers, LibraryAssumption
  <2>2. maps = Nil /\ shards = DefaultCount /\ applied = FALSE /\ hooks.handler = "default"
    BY DEF LibraryInit, DefaultHooks
  <2>3. libraryCalls \in 0 .. MaxLibraryCalls
    BY DEF LibraryInit, LibraryAssumption
  <2> QED
    BY <1>0, <2>1, <2>2, <2>3 DEF LibraryTypeOK
<1>2. NothingLeaks
  <2>1. \A c \in Ctxs : ContextBlocks(c) = {} /\ InstanceBlocks(c) = {}
    BY <1>0 DEF ContextBlocks, InstanceBlocks, Instances
  <2> QED
    BY <1>0, <2>1 DEF NothingLeaks
<1>3. CallbacksReleased
  BY <1>0 DEF CallbacksReleased, LibraryInit, DefaultHooks, LibraryAssumption
<1>4. ForetoldHolds
  BY <1>0 DEF ForetoldHolds, NStateTellsCreate, ValidateTellsInit
<1>5. FirstKeyStays /\ FirstKeyPending
  BY <1>0 DEF FirstKeyStays, FirstKeyPending, LibraryInit
<1>6. LibraryShape
  <2>1. keys \in Seq(Counts)
    BY <1>0, EmptyIsSeq
  <2>2. hooks \in Hooks
    BY DEF LibraryInit, DefaultHooks, Hooks
  <2>3. contexts \in [Ctxs -> {Absent} \cup ContextRecord]
    BY DEF LibraryInit
  <2>4. instances \in [Ctxs -> [Signals -> {Nil} \cup [prefix : SectionPaths, started : BOOLEAN]]]
    BY DEF LibraryInit
  <2> QED
    BY <1>0, <2>1, <2>2, <2>3, <2>4 DEF LibraryShape
<1>7. StatesRecorded /\ DocumentAccepted
  BY <1>0 DEF StatesRecorded, DocumentAccepted, Live
<1> QED
  BY <1>1, <1>2, <1>3, <1>4, <1>5, <1>6, <1>7 DEF ContextsInv

\* Every call of the library keeps its invariant.
THEOREM ContextsInvariant == ASSUME LibraryAssumption PROVE LibrarySpec => []ContextsInv
<1>1. LibraryInit => ContextsInv
  BY ContextsBegin
<1>2. ContextsInv /\ [LibraryNext]_libraryVars => ContextsInv'
  <2> SUFFICES ASSUME ContextsInv, [LibraryNext]_libraryVars PROVE ContextsInv'
    OBVIOUS
  <2>0. /\ LibraryTypeOK /\ NothingLeaks /\ CallbacksReleased /\ ForetoldHolds /\ FirstKeyStays
        /\ LibraryShape /\ StatesRecorded /\ DocumentAccepted /\ FirstKeyPending
    BY DEF ContextsInv
  <2>1. LibraryTypeOK'
    BY <2>0, TypeStep
  <2>2. NothingLeaks'
    BY <2>0, LeaksStep
  <2>3. CallbacksReleased'
    BY <2>0, HooksStep, ShapeParts
  <2>4. ForetoldHolds'
    BY <2>0, ForetoldStep
  <2>5. FirstKeyPending' /\ FirstKeyStays'
    BY <2>0, FirstKeyStep
  <2>6. LibraryShape'
    BY <2>0, ShapeStep
  <2>7. StatesRecorded' /\ DocumentAccepted'
    BY <2>0, RecordedStep
  <2> QED
    BY <2>1, <2>2, <2>3, <2>4, <2>5, <2>6, <2>7 DEF ContextsInv
<1> QED
  BY <1>1, <1>2, PTL DEF LibrarySpec

\* What the library tells of a document beforehand is what its calls then do: the name states
\* otelc_init() records, and the answers of a configuration check (util.cpp:1995-2049, :2127).
THEOREM ForetoldIsDone == ASSUME LibraryAssumption PROVE LibrarySpec => []ForetoldHolds
<1>1. ContextsInv => ForetoldHolds
  BY DEF ContextsInv
<1> QED
  BY <1>1, ContextsInvariant, PTL

\* The first shard count read since the last shutdown is the one that holds, however the
\* initialisations that read one interleave (util.cpp:1974-1975).
THEOREM FirstKeyHolds == ASSUME LibraryAssumption PROVE LibrarySpec => []FirstKeyStays
<1>1. ContextsInv => FirstKeyStays
  BY DEF ContextsInv
<1> QED
  BY <1>1, ContextsInvariant, PTL

\* What is allocated belongs to a context or an instance that a deinit can still be given, a
\* shutdown leaves no callback of the application, and a log handler gets the attributes it can
\* hold in their order and without a gap, whatever failed (util.cpp:2109-2125, :303-377).
THEOREM LibraryHolds == ASSUME LibraryAssumption PROVE LibrarySpec => []LibraryInv
<1>1. LibraryInit => HandlerSeesWritten
  BY DEF LibraryInit, HandlerSeesWritten
<1>2. HandlerSeesWritten /\ [LibraryNext]_libraryVars => HandlerSeesWritten'
  BY HandlerKept
<1>3. LibrarySpec => []HandlerSeesWritten
  BY <1>1, <1>2, PTL DEF LibrarySpec
<1>4. ContextsInv /\ HandlerSeesWritten => LibraryInv
  BY DEF ContextsInv, LibraryInv
<1> QED
  BY <1>3, <1>4, ContextsInvariant, PTL
=============================================================================
