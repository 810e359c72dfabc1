----------------------------- MODULE Containers -----------------------------
(***************************************************************************)
(* The C containers of src/util.cpp: text maps, value and key-value        *)
(* arrays, error messages, and the header copies of src/span.cpp's trace   *)
(* state calls.  Every allocation may fail, also within a call, and the    *)
(* questions are who owns a block of memory then and what the counts say.  *)
(***************************************************************************)
EXTENDS Integers, Sequences, FiniteSets, FiniteSetsExt, SequencesExt

CONSTANTS MaxBlocks,  \* bound: blocks the heap has; it is exhausted beyond
          MaxPairs, MaxItems,   \* bounds: pairs of a map, items of an array
          MaxHeader,  \* bound: the length of a trace state header
          MaxSteps,   \* bound: calls in a behaviour
          IntMax,     \* INT_MAX; INT_MIN is -IntMax - 1, UINT_MAX 2 * IntMax + 1
          LongMax     \* LONG_MAX, and LLONG_MAX

ASSUME ContainersAssumption ==
    /\ {MaxBlocks, MaxPairs, MaxItems, MaxHeader, MaxSteps, IntMax, LongMax} \subseteq Nat
    /\ LongMax > 2 * IntMax + 1

VARIABLES
    blocks,     \* the blocks in use
    textMap,    \* a caller's text map
    list,       \* list["value"], list["kv"]: a caller's arrays
    owned,      \* strings the callers own
    err,        \* an error message of a tracer, meter or logger; 0 for none
    buffer,     \* a caller's buffer for a header: its size, what it holds, what it was told
    steps       \* calls made

containersVars == <<blocks, textMap, list, owned, err, buffer, steps>>

\* The numbers texts have: those around the limits of the types.
Texts  == {-2 * LongMax - 2, -2 * LongMax - 1, -1, 0, 1, IntMax + 1, 2 * IntMax + 2, LongMax + 1, 2 * LongMax + 2}

Heap   == 1..MaxBlocks
Arrays == <<"flags", "key", "value">>
Modes  == {"borrow", "dup", "free"}     \* no flag, ..._DUP_..., ..._FREE_...
Dup    == [key |-> "dup", value |-> "dup"]
NoMap  == [up |-> FALSE, struct |-> 0, arr |-> [a \in ToSet(Arrays) |-> 0],
           cap |-> [a \in ToSet(Arrays) |-> 0], size |-> 0, pairs |-> <<>>]
NoList == [block |-> 0, cap |-> 0, items |-> <<>>]

ContainersInit ==
    /\ blocks = {} /\ owned = {} /\ err = 0 /\ steps = 0
    /\ textMap = NoMap
    /\ list = [kind \in {"value", "kv"} |-> NoList]
    /\ buffer = [size |-> 1, holds |-> 0, told |-> 0]

Step == steps < MaxSteps /\ steps' = steps + 1

\* The lowest block not in h; 0 where the allocation fails.
Allocate(h, succeeds) == IF succeeds /\ Heap \ h # {} THEN Min(Heap \ h) ELSE 0
Freed(h, bs)          == h \ bs
Taken(h, b)           == h \cup ({b} \ {0})

-----------------------------------------------------------------------------
(* Text maps *)

\* Faulty variant: the flags of the caller are taken for the map's duplicates only.
PairsDuplicated(t) == {p.key : p \in {q \in ToSet(t.pairs) : q.mode.key = "dup"}}
                      \cup {p.value : p \in {q \in ToSet(t.pairs) : q.mode.value = "dup"}}

\* The strings otelc_text_map_free() releases.
PairsReleased(t) ==
    IF t.arr["flags"] = 0 THEN {}
    ELSE UNION {{p[a] : p \in {q \in ToSet(t.pairs) : q.mode[a] # "borrow"}} : a \in {b \in {"key", "value"} : t.arr[b] # 0}}

TextMapFreed(h, t)  == Freed(h, PairsReleased(t) \cup {t.arr[a] : a \in DOMAIN t.arr})
TextMapEmptied(t)   == [NoMap EXCEPT !.up = TRUE, !.struct = t.struct]
TextMapDestroyed(h, t) == Freed(TextMapFreed(h, t), {t.struct})

\* One array more of a new map, if got allows it.
NewArray(r, i, got) ==
    LET b == Allocate(r.h, i <= got) IN [h |-> Taken(r.h, b), arr |-> [r.arr EXCEPT ![Arrays[i]] = b]]

\* The structure, unless the caller has one, and three arrays; the first failure
\* releases what there is.
TextMapNew(dynamic, size) ==
    /\ Step /\ ~textMap.up
    /\ \E got \in 0..3, haveStruct \in BOOLEAN :
         LET s    == IF dynamic THEN Allocate(blocks, haveStruct) ELSE 0
             none == [h |-> Taken(blocks, s), arr |-> NoMap.arr]
             all  == IF size = 0 THEN none ELSE NewArray(NewArray(NewArray(none, 1, got), 2, got), 3, got)
             new  == [NoMap EXCEPT !.up = TRUE, !.struct = s, !.size = size, !.arr = all.arr,
                                   !.cap = [a \in DOMAIN @ |-> IF all.arr[a] = 0 THEN 0 ELSE size]]
             fail == size > 0 /\ \E a \in DOMAIN all.arr : all.arr[a] = 0
         IN  IF dynamic /\ s = 0 THEN UNCHANGED <<blocks, textMap>>
             ELSE IF fail THEN blocks' = TextMapDestroyed(all.h, new) /\ UNCHANGED textMap
             ELSE blocks' = all.h /\ textMap' = new
    /\ UNCHANGED <<list, owned, err, buffer>>

\* One array grows to size, if got allows it and the ones before it have grown.
Extend(r, i, got, size) ==
    LET a == Arrays[i]
        b == IF r.t.arr[a] # 0 THEN r.t.arr[a] ELSE Allocate(r.h, TRUE)
    IN  IF ~r.ok \/ i > got \/ b = 0 THEN [r EXCEPT !.ok = FALSE]
        ELSE [ok |-> TRUE, h |-> Taken(r.h, b), t |-> [r.t EXCEPT !.arr[a] = b, !.cap[a] = size]]

\* The three arrays grow by half, one after the other; the size grows after the last.
Grown(h, t, got) ==
    LET size == t.size + (IF t.size > 1 THEN t.size \div 2 ELSE 1)
        none == [ok |-> TRUE, h |-> h, t |-> t]
        all  == Extend(Extend(Extend(none, 1, got, size), 2, got, size), 3, got, size)
    IN  IF all.ok THEN [all EXCEPT !.t.size = size] ELSE all

\* otelc_text_map_add(): both duplicates are tried, and both go when one failed; what the
\* caller gave to the map stays the caller's then.
Added(h, t, mode, given, got, dups) ==
    LET r == IF Len(t.pairs) >= t.size THEN Grown(h, t, got) ELSE [ok |-> TRUE, h |-> h, t |-> t]
        k == IF mode.key = "dup" THEN Allocate(r.h, dups.key) ELSE given.key
        v == IF mode.value = "dup" THEN Allocate(Taken(r.h, k), dups.value) ELSE given.value
        own == (IF mode.key = "dup" THEN {k} ELSE {}) \cup (IF mode.value = "dup" THEN {v} ELSE {})
    IN  IF ~r.ok THEN r
        ELSE IF 0 \in own
        THEN [r EXCEPT !.ok = FALSE, !.h = Freed(@, own)]
        ELSE [r EXCEPT !.h = Taken(Taken(@, k), v), !.t.pairs = Append(@, [key |-> k, value |-> v, mode |-> mode])]

Failures == [key : BOOLEAN, value : BOOLEAN]

\* What is given with a ..._FREE_... flag is a string of the caller's.
TextMapAdd(mode, given) ==
    /\ Step /\ textMap.up /\ Len(textMap.pairs) < MaxPairs
    /\ \A a \in {"key", "value"} : IF mode[a] = "free" THEN given[a] \in owned ELSE given[a] = 0
    /\ mode.key = "free" => given.key # given.value
    /\ \E got \in 0..3, dups \in Failures :
         LET r == Added(blocks, textMap, mode, given, got, dups)
         IN  /\ blocks' = r.h /\ textMap' = r.t
             /\ owned' = IF r.ok THEN owned \ {given.key, given.value} ELSE owned
    /\ UNCHANGED <<list, err, buffer>>

TextMapFree ==
    /\ Step /\ textMap.up
    /\ blocks' = TextMapFreed(blocks, textMap)
    /\ textMap' = TextMapEmptied(textMap)
    /\ UNCHANGED <<list, owned, err, buffer>>

TextMapDestroy ==
    /\ Step /\ textMap.up
    /\ blocks' = TextMapDestroyed(blocks, textMap)
    /\ textMap' = IF textMap.struct # 0 THEN NoMap ELSE TextMapEmptied(textMap)
    /\ UNCHANGED <<list, owned, err, buffer>>

-----------------------------------------------------------------------------
(* Value and key-value arrays *)

\* The array grows first; the key, if there is one, and the data are duplicated into
\* it, and the length grows after both.
ItemAdd(kind, hasData) ==
    /\ Step /\ Len(list[kind].items) < MaxItems
    /\ \E grows \in BOOLEAN, dups \in Failures :
         LET l   == list[kind]
             arr == IF l.block # 0 THEN l.block ELSE Allocate(blocks, TRUE)
             h   == Taken(blocks, arr)
             k   == IF kind = "kv" THEN Allocate(h, dups.key) ELSE 0
             d   == IF hasData /\ (kind = "kv" => k # 0) THEN Allocate(Taken(h, k), dups.value) ELSE 0
             ok  == (kind = "kv" => k # 0) /\ (hasData => d # 0)
         IN  IF ~grows \/ arr = 0 THEN UNCHANGED <<blocks, list>>
             ELSE /\ blocks' = IF ok THEN Taken(Taken(h, k), d) ELSE Freed(h, {k, d})
                  /\ list' = [list EXCEPT ![kind] =
                        [block |-> arr, cap |-> Len(l.items) + 1,
                         items |-> IF ok THEN Append(l.items, [key |-> k, data |-> d, type |-> "data", num |-> 0, text |-> 0])
                                   ELSE l.items]]
    /\ UNCHANGED <<textMap, owned, err, buffer>>

\* Keys are released where they are dynamic, data where the type still is OTELC_VALUE_DATA.
ListDestroy(kind) ==
    /\ Step /\ list[kind].block # 0
    /\ LET items == ToSet(list[kind].items)
       IN  blocks' = Freed(blocks, {list[kind].block} \cup {i.key : i \in items}
                                   \cup {i.data : i \in {j \in items : j.type = "data"}})
    /\ list' = [list EXCEPT ![kind] = NoList]
    /\ UNCHANGED <<textMap, owned, err, buffer>>

\* strtol(), strtoll() and strtoul(), strtoull() of the number n: the result, if it is in
\* range.  An unsigned one is negated by a minus sign: -1 gives the greatest, no error.
Signed(n)   == {n} \cap -LongMax - 1..LongMax
Unsigned(n) == IF n \in -(2 * LongMax + 1)..(2 * LongMax + 1) THEN {n % (2 * LongMax + 2)} ELSE {}

\* Faulty variant: what does not fit 32 bits is cut off.
NumberCut(type, n) == IF type = "uint32" THEN {m % (2 * IntMax + 2) : m \in Unsigned(n)} ELSE Signed(n)

\* What a text that is the number n gives as a type; {} is a conversion error.
Number(type, n) ==
    CASE type = "bool"             -> {IF m = 0 THEN 0 ELSE 1 : m \in Unsigned(n)}
      [] type = "int32"            -> Signed(n) \cap -IntMax - 1..IntMax
      [] type = "uint32"           -> Unsigned(n) \cap 0..(2 * IntMax + 1)
      [] type = "int64"            -> Signed(n)
      [] type = "uint64"           -> Unsigned(n)
      [] type = "double"           -> {n}

\* otelc_value_strtonum() of an item whose data are a text: they go, the number takes their place.
Strtonum(i, type, text) ==
    /\ Step /\ i \in DOMAIN list["value"].items
    /\ LET item == list["value"].items[i]
       IN  /\ item.type = "data" /\ item.data # 0
           /\ blocks' = Freed(blocks, {item.data})
           /\ \E n \in Number(type, text) :
                list' = [list EXCEPT !["value"].items[i] = [@ EXCEPT !.data = 0, !.type = type, !.num = n, !.text = text]]
    /\ UNCHANGED <<textMap, owned, err, buffer>>

-----------------------------------------------------------------------------
(* Strings *)

\* otelc_strdup, otelc_strndup, otelc_memdup
Strdup ==
    /\ Step /\ Allocate(blocks, TRUE) # 0
    /\ owned' = owned \cup {Allocate(blocks, TRUE)}
    /\ blocks' = Taken(blocks, Allocate(blocks, TRUE))
    /\ UNCHANGED <<textMap, list, err, buffer>>

StringFree(b) ==
    /\ Step /\ b \in owned
    /\ blocks' = Freed(blocks, {b}) /\ owned' = owned \ {b}
    /\ UNCHANGED <<textMap, list, err, buffer>>

\* otelc_sprintf(): the old message goes, also where there is no new one.
Sprintf(succeeds) ==
    /\ Step
    /\ LET new == Allocate(blocks, succeeds)
       IN  err' = new /\ blocks' = Freed(Taken(blocks, new), {err})
    /\ UNCHANGED <<textMap, list, owned, buffer>>

\* otelc_strlcpy(): the characters copied before the terminator.
Strlcpy(size, n) == IF n < size THEN n ELSE size - 1

-----------------------------------------------------------------------------
(* Trace state *)

\* The entries of a trace state are added one by one; allocations fail for those in short.
EntryAdded(r, i, short, got, dups) ==
    Added(r.h, r.t, Dup, [key |-> 0, value |-> 0], IF i \in short THEN got ELSE 3,
          IF i \in short THEN dups ELSE [key |-> TRUE, value |-> TRUE])
EntriesAdded(h, t, n, short, got, dups) ==
    LET After[i \in 0..n] == IF i = 0 THEN [ok |-> TRUE, h |-> h, t |-> t]
                             ELSE EntryAdded(After[i - 1], i, short, got, dups)
    IN  After[n]

\* otel_span_context_trace_state_entries(): what cannot be added is passed over.
TraceStateEntries(n) ==
    /\ Step /\ textMap.up /\ Len(textMap.pairs) + n <= MaxPairs
    /\ \E short \in SUBSET (1..n), got \in 0..3, dups \in Failures :
         LET r == EntriesAdded(blocks, textMap, n, short, got, dups)
         IN  blocks' = r.h /\ textMap' = r.t
    /\ UNCHANGED <<list, owned, err, buffer>>

\* trace_state_get, _header, _set and _delete: the text is copied as far as it goes, and
\* the answer is its whole length.  The buffer is no block of the heap: to try it with an
\* empty one is enough.
TraceStateCopy(size, n) ==
    /\ Step /\ blocks = {}
    /\ buffer' = [size |-> size, told |-> n, holds |-> IF n = 0 THEN 0 ELSE Strlcpy(size, n)]
    /\ UNCHANGED <<blocks, textMap, list, owned, err>>

-----------------------------------------------------------------------------
ContainersNext ==
    \/ \E dynamic \in BOOLEAN, size \in 0..2 : TextMapNew(dynamic, size)
    \/ \E k, v \in Modes, given \in [key : owned \cup {0}, value : owned \cup {0}] :
         TextMapAdd([key |-> k, value |-> v], given)
    \/ TextMapFree \/ TextMapDestroy
    \/ \E kind \in {"value", "kv"} :
         \/ \E hasData \in BOOLEAN : ItemAdd(kind, hasData)
         \/ ListDestroy(kind)
    \/ \E i \in 1..MaxItems, type \in {"bool", "int32", "int64", "uint32", "uint64", "double"}, n \in Texts :
         Strtonum(i, type, n)
    \/ Strdup \/ \E b \in owned : StringFree(b)
    \/ \E succeeds \in BOOLEAN : Sprintf(succeeds)
    \/ \E n \in 1..2 : TraceStateEntries(n)
    \/ \E size \in 1..MaxHeader, n \in 0..MaxHeader : TraceStateCopy(size, n)

ContainersSpec == ContainersInit /\ [][ContainersNext]_containersVars

-----------------------------------------------------------------------------
(* Properties *)

\* The parties that own memory: the callers' strings, the error message, the map's
\* structure, arrays and strings, and the arrays with their keys and data.
MapStrings == [s \in (DOMAIN textMap.pairs) \X {"key", "value"} |->
                 LET p == textMap.pairs[s[1]] IN IF p.mode[s[2]] = "borrow" THEN 0 ELSE p[s[2]]]
ItemBlocks(kind) == [s \in (DOMAIN list[kind].items) \X {"key", "data"} |-> list[kind].items[s[1]][s[2]]]
Owners == <<MapStrings, ItemBlocks("value"), ItemBlocks("kv"), textMap.arr,
            [kind \in DOMAIN list |-> list[kind].block], [b \in owned |-> b], <<textMap.struct, err>>>>

\* The shape of the containers; a string a map or a caller is to release is one.
ContainersTypeOK ==
    /\ blocks \subseteq Heap /\ owned \subseteq Heap /\ err \in Heap \cup {0}
    /\ textMap.size \in Nat /\ Len(textMap.pairs) <= MaxPairs
    /\ \A i \in DOMAIN textMap.pairs : \A a \in {"key", "value"} :
         textMap.pairs[i].mode[a] # "borrow" => textMap.pairs[i][a] \in Heap
    /\ \A kind \in DOMAIN list : /\ list[kind].block \in Heap \cup {0}
                                 /\ \A i \in DOMAIN list[kind].items : list[kind].items[i].num \in Int
    /\ steps \in 0..MaxSteps

\* Whatever allocation fails in whichever call, a block in use has exactly one owner, which
\* will release it: nothing leaks and nothing is released twice ("no ownership is taken").
OneOwner ==
    LET slots == UNION {{<<o, x>> : x \in {y \in DOMAIN Owners[o] : Owners[o][y] # 0}} : o \in DOMAIN Owners}
        Block(s) == Owners[s[1]][s[2]]
    IN  /\ blocks = {Block(s) : s \in slots}
        /\ \A s, t \in slots : Block(s) = Block(t) => s = t

\* No pair or item lies outside of its arrays, although one of three arrays may have
\* grown when the next one could not.
WithinArrays ==
    /\ Len(textMap.pairs) <= textMap.size
    /\ \A a \in DOMAIN textMap.cap : textMap.size <= textMap.cap[a]
    /\ \A kind \in DOMAIN list : Len(list[kind].items) <= list[kind].cap

\* The containers between any two calls, whatever failed in them.
ContainersInv == ContainersTypeOK /\ OneOwner /\ WithinArrays

\* The numbers an integer type holds.
Holdable(type) == CASE type = "int32"  -> -IntMax - 1..IntMax
                    [] type = "uint32" -> 0..(2 * IntMax + 1)
                    [] type = "int64"  -> -LongMax - 1..LongMax
                    [] type = "uint64" -> 0..(2 * LongMax + 1)

\* What strtoul() reads in a text: one with a minus sign is negated modulo 2^64, which the
\* code takes as it is, so that "-1" is a uint64.
AsUnsigned(text) == IF text < 0 THEN text + 2 * LongMax + 2 ELSE text

\* An integer that replaced a text is one its type holds: as int32 or int64 it is the number
\* written, as uint32 or uint64 the one strtoul() reads, which is the number written unless
\* that is negative.  What the type does not hold is refused ("an out-of-range value is
\* treated as a conversion error" is about the parsed value), never cut to the type's width.
NumbersInRange ==
    \A kind \in DOMAIN list : \A i \in DOMAIN list[kind].items :
      LET item == list[kind].items[i]
      IN  /\ item.type \in {"int32", "int64"}   => item.num = item.text
          /\ item.type \in {"uint32", "uint64"} => item.num = AsUnsigned(item.text)
          /\ item.type \in {"int32", "int64", "uint32", "uint64"} => item.num \in Holdable(item.type)

\* A header and its terminator fit the buffer, and a caller that compares the answer with
\* the buffer's size knows whether the header was cut off.
HeaderTold == /\ buffer.holds + 1 <= buffer.size
              /\ buffer.told < buffer.size <=> buffer.holds = buffer.told

\* What is too wide for a type is refused, and what is too long for a buffer is told.
WidthsTold == NumbersInRange /\ HeaderTold
=============================================================================
