----------------------------- MODULE DbgMalloc -----------------------------
(***************************************************************************)
(* The debugging allocator (src/dbg_malloc.cpp) between the library's      *)
(* threads and the C heap.  A block carries a header below its payload:    *)
(* Self if it has no record, the record's number if it has one, NoHeader   *)
(* once the C library has reused the bytes.                                *)
(*                                                                         *)
(* What runs under the tracker mutex is one step; the C library's calls    *)
(* and the reads of the tracker pointer before the mutex are steps of      *)
(* their own.  A second free() of a block is the error the allocator is    *)
(* there to report: StrayFree.                                             *)
(***************************************************************************)
EXTENDS Integers, FiniteSets

CONSTANTS Threads,
          Bases,    \* addresses the C library serves, one block each
          Count,    \* records in the table
          MaxSize,  \* bound: sizes asked for
          MaxOps    \* bound: allocations and reallocations recorded

ASSUME MallocAssumption == /\ Count \in Nat \ {0} /\ MaxSize \in Nat /\ MaxOps \in Nat
                           /\ "null" \notin Bases

Records  == 1..Count
Self     == 0
NoHeader == -1
Sizes    == 0..MaxSize

VARIABLES
    heap,       \* heap[b]: the payload of the block at b, -1 for none
    header,     \* header[b]: NoHeader, Self or a record
    tracker,    \* dbg_mem is set
    data,       \* mem->data
    assigned,   \* mem->assigned
    reused,     \* mem->reused, modulo the table's size
    total,      \* mem->size
    ops,        \* mem->op_cnt
    call,       \* the call each thread is in
    given,      \* history: the blocks their owners hold
    released,   \* history: the bases their owners gave back, or realloc() left
    corrupted,  \* history: the C library was handed what is no block
    excused     \* history: the record of a released block may be gone

table == <<data, assigned, reused, total, ops>>
cheap == <<heap, header>>
hist  == <<corrupted, excused>>
vars  == <<cheap, tracker, table, call, given, released, hist>>

NoRecord == [ptr |-> "null", size |-> 0, used |-> FALSE]
Cleared  == [k \in Records |-> NoRecord]
NoOps    == [alloc |-> 0, realloc |-> 0, free |-> 0]
Idle     == [pc |-> "idle"]

Init ==
    /\ heap = [b \in Bases |-> -1]
    /\ header = [b \in Bases |-> NoHeader]
    /\ tracker = FALSE
    /\ data = Cleared
    /\ assigned = 0 /\ reused = 0 /\ total = 0
    /\ ops = NoOps
    /\ call = [th \in Threads |-> Idle]
    /\ given = {} /\ released = {}
    /\ corrupted = FALSE /\ excused = FALSE

At(th, pc)   == call[th].pc = pc
Enter(th, c) == call' = [call EXCEPT ![th] = c]
Return(th)   == Enter(th, Idle)
Quiet        == \A th \in Threads : At(th, "idle")
Bump(op)     == ops' = [ops EXCEPT ![op] = @ + 1]
MayRecord    == ops.alloc + ops.realloc + Cardinality({th \in Threads : ~At(th, "idle")}) < MaxOps

\* mem was read before the mutex was taken; the tracker may be gone since.
Tracked(th) == call[th].mem /\ tracker

-----------------------------------------------------------------------------
(* otelc_dbg_malloc, otelc_dbg_calloc, otelc_dbg_strdup, otelc_dbg_memdup *)

\* malloc(): it may fail, which changes nothing.
Malloc(th, n) ==
    /\ At(th, "idle")
    /\ MayRecord
    /\ \E b \in Bases :
         /\ heap[b] = -1
         /\ heap' = [heap EXCEPT ![b] = n]
         /\ released' = released \ {b}
         /\ Enter(th, [pc |-> "record", b |-> b, mem |-> tracker])
    /\ UNCHANGED <<header, tracker, table, given, hist>>

\* The copies end with a terminator of their own.
Duplicate(th, n) == Malloc(th, n + 1)

\* otelc_dbg_mem_add()
Add(b, n, k, op) ==
    /\ data' = [data EXCEPT ![k] = [ptr |-> b, size |-> n, used |-> TRUE]]
    /\ header' = [header EXCEPT ![b] = k]
    /\ Bump(op)

Untrack(b) == header' = [header EXCEPT ![b] = Self]

Cyclic(i)  == ((reused + i) % Count) + 1
FirstFree  == {i \in 0..(Count - 1) : /\ ~data[Cyclic(i)].used
                                      /\ \A j \in 0..(i - 1) : data[Cyclic(j)].used}

\* Faulty variant: the record under the reuse cursor is taken to be free.
PickRecordUnderCursor == IF assigned < Count THEN assigned + 1 ELSE Cyclic(0)

\* The record a new block gets: a fresh one while there is one, else the first unused one
\* from the reuse cursor on; 0 for none.
PickRecord == IF assigned < Count THEN assigned + 1
              ELSE IF FirstFree = {} THEN 0 ELSE Cyclic(CHOOSE i \in FirstFree : TRUE)

\* otelc_dbg_mem_alloc() of a new block.
Record(th) ==
    /\ At(th, "record")
    /\ LET b == call[th].b k == PickRecord IN
         /\ \/ /\ Tracked(th) /\ k # 0
               /\ Add(b, heap[b], k, "alloc")
               /\ total' = total + heap[b]
               /\ assigned' = IF assigned < Count THEN assigned + 1 ELSE assigned
               /\ reused' = IF assigned < Count THEN reused ELSE k % Count
               /\ excused' = (excused \/ data[k].ptr # "null")
            \/ /\ ~(Tracked(th) /\ k # 0)
               /\ Untrack(b)
               /\ excused' = TRUE
               /\ UNCHANGED table
         /\ given' = given \cup {b}
    /\ Return(th)
    /\ UNCHANGED <<heap, tracker, released, corrupted>>

-----------------------------------------------------------------------------
(* otelc_dbg_free *)

\* What free() does to the block: the payload goes, and the header with it.
Release(b) == /\ heap' = [heap EXCEPT ![b] = -1]
              /\ header' = [header EXCEPT ![b] = NoHeader]

\* The header says what the block is.
Free(th, b) ==
    /\ At(th, "idle")
    /\ b \in given
    /\ given' = given \ {b}
    /\ released' = released \cup {b}
    /\ \/ header[b] = Self /\ Release(b) /\ UNCHANGED call
       \/ header[b] \in Records /\ Enter(th, [pc |-> "release", b |-> b, mem |-> tracker]) /\ UNCHANGED cheap
    /\ UNCHANGED <<tracker, table, hist>>

\* Is the record the header names the block's own, and in use?
OwnRecord(b) == data[header[b]].used /\ data[header[b]].ptr = b

\* otelc_dbg_mem_release(); a record of another block is an error that keeps the block.
MemRelease(th) ==
    /\ At(th, "release")
    /\ LET b == call[th].b IN
         \/ /\ Tracked(th) /\ OwnRecord(b)
            /\ data' = [data EXCEPT ![header[b]].used = FALSE]
            /\ total' = total - data[header[b]].size
            /\ Bump("free")
            /\ Enter(th, [pc |-> "cfree", b |-> b])
         \/ ~Tracked(th) /\ Enter(th, [pc |-> "cfree", b |-> b]) /\ UNCHANGED <<data, total, ops>>
         \/ Tracked(th) /\ ~OwnRecord(b) /\ Return(th) /\ UNCHANGED <<data, total, ops>>
    /\ UNCHANGED <<cheap, tracker, assigned, reused, given, released, hist>>

\* free() of the real base.
CFree(th) ==
    /\ At(th, "cfree")
    /\ Release(call[th].b)
    /\ Return(th)
    /\ UNCHANGED <<tracker, table, given, released, hist>>

\* otelc_dbg_mem_is_stale(): some record still names the block's base.
IsStale(b) == tracker /\ \E k \in 1..assigned : data[k].ptr = b

\* A second free() of a block that was released, or is about to be; no other call is
\* working on it.  Without a tracker it reaches the C library.
StrayFree(th, b) ==
    /\ At(th, "idle")
    /\ b \in released
    /\ heap[b] = -1 \/ \E u \in Threads : At(u, "cfree") /\ call[u].b = b
    /\ corrupted' = (corrupted \/ ~(IF header[b] \in Records THEN tracker /\ ~OwnRecord(b) ELSE IsStale(b)))
    /\ UNCHANGED <<cheap, tracker, table, call, given, released, excused>>

-----------------------------------------------------------------------------
(* otelc_dbg_realloc *)

\* realloc() serves the same base or another one, which the header moves to.
Targets(b) == {b} \cup {t \in Bases : heap[t] = -1}
Move(b, t, n, h) ==
    /\ heap' = [x \in Bases |-> IF x = t THEN n ELSE IF x = b THEN -1 ELSE heap[x]]
    /\ header' = [x \in Bases |-> IF x = t THEN h ELSE IF x = b THEN NoHeader ELSE header[x]]
    /\ released' = (released \cup {b}) \ {t}

\* A block without a record is moved at once and points at itself again.
Realloc(th, b, n) ==
    /\ At(th, "idle")
    /\ MayRecord
    /\ b \in given
    /\ \/ /\ header[b] = Self
          /\ \E t \in Targets(b) : Move(b, t, n, Self) /\ given' = (given \ {b}) \cup {t}
          /\ UNCHANGED call
       \/ /\ header[b] \in Records
          /\ given' = given \ {b}
          /\ Enter(th, [pc |-> "check", b |-> b, n |-> n, mem |-> tracker])
          /\ UNCHANGED <<cheap, released>>
    /\ UNCHANGED <<tracker, table, hist>>

\* otelc_dbg_mem_check(): a record of another block refuses the call.
MemCheck(th) ==
    /\ At(th, "check")
    /\ LET c == call[th] IN
         \/ /\ Tracked(th) => OwnRecord(c.b)
            /\ Enter(th, [c EXCEPT !.pc = "crealloc"])
            /\ UNCHANGED given
         \/ Tracked(th) /\ ~OwnRecord(c.b) /\ Return(th) /\ given' = given \cup {c.b}
    /\ UNCHANGED <<cheap, tracker, table, released, hist>>

\* realloc() of the real base; a failure leaves the block with its owner.
CRealloc(th) ==
    /\ At(th, "crealloc")
    /\ LET c == call[th] IN
         \/ \E t \in Targets(c.b) :
              /\ Move(c.b, t, c.n, header[c.b])
              /\ Enter(th, [pc |-> "rerecord", b |-> t, old |-> c.b, mem |-> tracker])
              /\ UNCHANGED given
         \/ Return(th) /\ given' = given \cup {c.b} /\ UNCHANGED <<cheap, released>>
    /\ UNCHANGED <<tracker, table, hist>>

\* otelc_dbg_mem_alloc() of a moved block: its record follows.
ReRecord(th) ==
    /\ At(th, "rerecord")
    /\ LET b == call[th].b k == header[b] IN
         /\ \/ /\ Tracked(th) /\ data[k].used /\ data[k].ptr = call[th].old
               /\ Add(b, heap[b], k, "realloc")
               /\ total' = total - data[k].size + heap[b]
               /\ excused' = (excused \/ b # call[th].old)
               /\ UNCHANGED <<assigned, reused>>
            \/ ~Tracked(th) /\ Untrack(b) /\ UNCHANGED <<table, excused>>
         /\ given' = given \cup {b}
    /\ Return(th)
    /\ UNCHANGED <<heap, tracker, released, corrupted>>

-----------------------------------------------------------------------------
(* otelc_dbg_mem_init, otelc_dbg_mem_disable *)

\* The table is cleared, so no call and no block may still refer to it.
MemInit ==
    /\ ~tracker
    /\ Quiet
    /\ \A b \in given : header[b] = Self
    /\ tracker' = TRUE
    /\ data' = Cleared
    /\ assigned' = 0 /\ reused' = 0 /\ total' = 0
    /\ ops' = NoOps
    /\ UNCHANGED <<cheap, call, given, released, hist>>

\* At any time, in the middle of the other threads' calls.
MemDisable ==
    /\ tracker
    /\ tracker' = FALSE
    /\ excused' = TRUE
    /\ UNCHANGED <<cheap, table, call, given, released, corrupted>>

Next == \/ MemInit \/ MemDisable
        \/ \E th \in Threads :
             \/ \E n \in Sizes : Malloc(th, n)
             \/ \E n \in 0..(MaxSize - 1) : Duplicate(th, n)
             \/ \E b \in Bases : Free(th, b) \/ StrayFree(th, b) \/ \E n \in Sizes : Realloc(th, b, n)
             \/ Record(th) \/ MemRelease(th) \/ CFree(th)
             \/ MemCheck(th) \/ CRealloc(th) \/ ReRecord(th)

Spec == Init /\ [][Next]_vars

-----------------------------------------------------------------------------
(* Properties *)

\* The shape of the table and of the headers.
TypeOK == /\ heap \in [Bases -> Sizes \cup {-1}]
          /\ \A b \in Bases : header[b] \in {NoHeader, Self} \cup Records
          /\ assigned \in 0..Count /\ reused \in 0..(Count - 1)
          /\ total \in Nat
          /\ \A k \in Records : data[k].ptr \in Bases \cup {"null"} /\ data[k].size \in Sizes

\* What the owner of a block will find below it is its own record or the mark of a block
\* without one, so that the block stays freeable, whenever the tracker came or went.
HeaderLeadsHome ==
    \A b \in given : \/ header[b] = Self
                     \/ /\ header[b] \in Records
                        /\ tracker => OwnRecord(b) /\ data[header[b]].size = heap[b]

\* otelc_dbg_mem_info() compares mem->size with the sum over the records in use
\* ("size does not match") and prints the counters: they agree between any two calls.
InUse == {k \in Records : data[k].used}
Running[k \in 0..Count] ==
    IF k = 0 THEN 0 ELSE Running[k - 1] + IF data[k].used THEN data[k].size ELSE 0
ReportAgrees == /\ total = Running[Count]
                /\ ops.alloc - ops.free = Cardinality(InUse)

\* Every block the C library has handed out is with its owner or in a call: none leaks,
\* although the tracker is disabled, or its table full, at any point of a call.
InCalls     == {call[th].b : th \in {u \in Threads : ~At(u, "idle")}}
NothingLost == {b \in Bases : heap[b] # -1} = given \cup InCalls

\* A second free() is reported instead of executed, unless the tracker was off or a record
\* of a released block had been taken for another (otelc_dbg_mem_is_stale()).
DoubleFreeReported == corrupted => excused

\* The headers, the table and the heap between any two steps.
AllocatorInv == /\ TypeOK /\ HeaderLeadsHome /\ ReportAgrees /\ NothingLost
                /\ DoubleFreeReported

-----------------------------------------------------------------------------
(* The inductive strengthening the proofs use *)

Calls == {Idle} \cup [pc : {"record", "release"}, b : Bases, mem : BOOLEAN]
                \cup [pc : {"check", "crealloc"}, b : Bases, n : Sizes, mem : BOOLEAN]
                \cup [pc : {"rerecord"}, b : Bases, old : Bases, mem : BOOLEAN]
                \cup [pc : {"cfree"}, b : Bases]

\* What the variables hold.
AllocatorShape ==
    /\ heap \in [Bases -> Sizes \cup {-1}] /\ header \in [Bases -> {NoHeader, Self} \cup Records]
    /\ data \in [Records -> [ptr : Bases \cup {"null"}, size : Sizes, used : BOOLEAN]]
    /\ ops \in [alloc : Nat, realloc : Nat, free : Nat]
    /\ call \in [Threads -> Calls]
    /\ given \subseteq Bases /\ released \subseteq Bases
    /\ tracker \in BOOLEAN /\ corrupted \in BOOLEAN /\ excused \in BOOLEAN

\* A call works on a block of its own, and has seen the tracker that is there.
CallsApart ==
    \A th \in Threads : ~At(th, "idle") =>
        /\ call[th].b \notin given
        /\ \A u \in Threads : ~At(u, "idle") /\ call[u].b = call[th].b => u = th
        /\ tracker /\ ~At(th, "cfree") => call[th].mem

\* A block with a record in its header is in use, and recorded.
HeadersFit ==
    /\ \A b \in Bases : heap[b] = -1 => header[b] = NoHeader
    /\ \A th \in Threads : /\ At(th, "record") => header[call[th].b] = NoHeader
                           /\ ~At(th, "idle") /\ ~At(th, "record") => header[call[th].b] \in Records

\* The record of a block in a call is the block's until its release or its move.
CallsLeadHome ==
    tracker => \A th \in Threads :
        LET b == call[th].b IN
        /\ call[th].pc \in {"release", "check", "crealloc"} => OwnRecord(b) /\ data[header[b]].size = heap[b]
        /\ At(th, "rerecord") => data[header[b]].used /\ data[header[b]].ptr = call[th].old
        /\ At(th, "cfree") => ~OwnRecord(b)

\* The blocks whose header names their record, each with another one.
Holders == given \cup {call[th].b : th \in {u \in Threads : call[u].pc \in {"release", "check", "crealloc", "rerecord"}}}
RecordsApart == tracker => \A b, c \in Holders : header[b] \in Records /\ header[b] = header[c] => b = c

\* Records that were never given out are empty.
FreshRecords == \A k \in Records : k > assigned => data[k] = NoRecord

\* As long as no record was lost, every block released is still named by one.
ReleasedKnown ==
    ~excused => /\ \A b \in Bases : header[b] # Self
                /\ \A b \in Bases : header[b] \in Records => tracker
                /\ \A b \in released : tracker /\ \E k \in 1..assigned : data[k].ptr = b

TableInv == /\ AllocatorInv /\ AllocatorShape /\ CallsApart /\ HeadersFit /\ CallsLeadHome
            /\ RecordsApart /\ FreshRecords /\ ReleasedKnown
=============================================================================
