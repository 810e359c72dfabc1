---------------------------- MODULE Heap_proofs ----------------------------
(***************************************************************************)
(* Theorems about DbgMalloc and Containers, for any numbers of threads,    *)
(* blocks, records, pairs and items.                                       *)
(*                                                                         *)
(* AllocatorInv: TableInv is inductive.  It ties the phases of the calls   *)
(* to the table's records: a block in a call is no one else's, a header    *)
(* names its record until the block is released or has moved, and the      *)
(* records never given out are empty.  The report's total is a recursive   *)
(* sum over the table; two lemmas say that it moves by what one record     *)
(* changed, which is all the steps need.                                   *)
(*                                                                         *)
(* ContainersInv, WidthsTold: ContainersCore is inductive.  Of the heap it *)
(* says Settled: the map's blocks, the arrays' blocks, the callers'        *)
(* strings and the error message are disjoint and make up all blocks in    *)
(* use, and within each no block is held twice.  Each call is first        *)
(* described without primes (Fit: what a map leaves of the heap),          *)
(* allocation by allocation, each of which may fail.                       *)
(***************************************************************************)
EXTENDS Containers, DbgMalloc, TLAPS, FiniteSetTheorems, WellFoundedInduction

-----------------------------------------------------------------------------
(* DbgMalloc: the sizes in the table *)

\* Every set of numbers that is not empty has a least one: the intervals below its elements
\* are finite sets, which strict inclusion orders well.
LEMMA LeastIs == ASSUME NEW at \in SUBSET Nat, at # {}
                 PROVE  \E i \in at : \A j \in at : i <= j
<1> DEFINE below == {0..i : i \in at}
<1>1. below \subseteq FiniteSubsetsOf(Nat) /\ below # {}
  <2>1. ASSUME NEW i \in at PROVE 0..i \in SUBSET Nat /\ IsFiniteSet(0..i)
    BY FS_Interval
  <2> QED
    BY <2>1 DEF FiniteSubsetsOf
<1>2. PICK least \in below : \A b \in below : <<b, least>> \notin StrictSubsetOrdering(Nat)
  <2> HIDE DEF below
  <2> QED
    BY <1>1, WFMin, FS_StrictSubsetOrderingWellFounded, Zenon
<1>3. PICK i \in at : least = 0..i
  BY <1>2
<1>4. ASSUME NEW j \in at, j < i PROVE FALSE
  <2>1. 0..j \in SUBSET Nat /\ 0..i \in SUBSET Nat /\ 0..j \subseteq 0..i /\ 0..j # 0..i
    <3>1. i \in 0..i /\ i \notin 0..j
      BY <1>4
    <3> QED
      BY <1>4, <3>1
  <2>2. <<0..j, 0..i>> \in StrictSubsetOrdering(Nat)
    BY <2>1 DEF StrictSubsetOrdering
  <2> QED
    BY <1>2, <1>3, <2>2
<1> QED
  BY <1>4

\* s[k] is what the first k records of a table d hold in use.
Term(d, k)   == IF d[k].used THEN d[k].size ELSE 0
AddsUp(s, d) == /\ s \in [0..Count -> Int] /\ s[0] = 0
                /\ \A k \in Records : s[k] = s[k - 1] + Term(d, k)
Table == [Records -> [ptr : Bases \cup {"null"}, size : Sizes, used : BOOLEAN]]

\* A record counts its block's size, or nothing.
LEMMA TermIs == ASSUME MallocAssumption, NEW d \in Table, NEW k \in Records
  PROVE Term(d, k) \in Nat
BY DEF Table, Term, Sizes, MallocAssumption

\* Running is the only such function.
LEMMA RunningIs == ASSUME MallocAssumption, NEW s, AddsUp(s, data) PROVE Running = s
<1> DEFINE Next1(f) == [k \in 0..Count |-> IF k = 0 THEN 0 ELSE f[k - 1] + IF data[k].used THEN data[k].size ELSE 0]
<1>1. s = Next1(s)
  BY DEF AddsUp, Term, Records, MallocAssumption
<1>2. Running = CHOOSE f : f = Next1(f)
  BY DEF Running
<1>3. Running = Next1(Running)
  <2> HIDE DEF Next1
  <2> QED
    BY <1>1, <1>2
<1> DEFINE apart == {i \in 0..Count : Running[i] # s[i]}
<1>4. apart = {}
  <2> SUFFICES ASSUME apart # {} PROVE FALSE
    OBVIOUS
  <2>1. apart \in SUBSET Nat
    BY DEF MallocAssumption
  <2>2. PICK i \in apart : \A j \in apart : i <= j
    BY <2>1, LeastIs
  <2>3. i \in 0..Count /\ Running[i] # s[i] /\ i \in Nat /\ Count \in Nat
    BY <2>2 DEF MallocAssumption
  <2>4. i # 0
    BY <1>3, <2>3 DEF AddsUp
  <2>5. i - 1 \in 0..Count /\ i \in Records /\ ~(i <= i - 1)
    BY <2>3, <2>4 DEF Records
  <2>6. Running[i - 1] = s[i - 1]
    BY <2>2, <2>5
  <2>7. Running[i] = Running[i - 1] + Term(data, i)
    BY <1>3, <2>3, <2>4 DEF Term
  <2> QED
    BY <2>3, <2>5, <2>6, <2>7 DEF AddsUp
<1>5. Running = [i \in 0..Count |-> Running[i]] /\ s = [i \in 0..Count |-> s[i]]
  BY <1>3 DEF AddsUp
<1>6. \A i \in 0..Count : Running[i] = s[i]
  BY <1>4
<1> HIDE DEF apart, Next1
<1> QED
  BY <1>5, <1>6

\* No sum is negative.
LEMMA SumsAreNat == ASSUME MallocAssumption, NEW d \in Table, NEW s, AddsUp(s, d), NEW n \in 0..Count
                    PROVE  s[n] \in Nat
<1> DEFINE below == {i \in 0..Count : s[i] < 0}
<1>1. below = {}
  <2> SUFFICES ASSUME below # {} PROVE FALSE
    OBVIOUS
  <2>1. below \in SUBSET Nat
    BY DEF MallocAssumption
  <2>2. PICK i \in below : \A j \in below : i <= j
    BY <2>1, LeastIs
  <2>3. i \in 0..Count /\ s[i] < 0 /\ i \in Nat /\ Count \in Nat
    BY <2>2 DEF MallocAssumption
  <2>4. i # 0
    BY <2>3 DEF AddsUp
  <2>5. i - 1 \in 0..Count /\ i \in Records /\ ~(i <= i - 1)
    BY <2>3, <2>4 DEF Records
  <2>6. ~(s[i - 1] < 0)
    BY <2>2, <2>5
  <2>7. s[i] = s[i - 1] + Term(d, i) /\ Term(d, i) \in Nat /\ s[i - 1] \in Int /\ s[i] \in Int
    BY <2>3, <2>5, TermIs DEF AddsUp
  <2> QED
    BY <2>3, <2>6, <2>7
<1> QED
  BY <1>1 DEF AddsUp

\* One record changes: so do the sums from it on.
LEMMA SumsMove ==
  ASSUME MallocAssumption, NEW d \in Table, NEW s, AddsUp(s, d), NEW e \in Table, NEW k \in Records,
         \A j \in Records \ {k} : e[j] = d[j]
  PROVE  \E t : AddsUp(t, e) /\ t[Count] = s[Count] + Term(e, k) - Term(d, k)
<1> DEFINE more == Term(e, k) - Term(d, k)
           t == [j \in 0..Count |-> IF j < k THEN s[j] ELSE s[j] + more]
<1>1. Term(e, k) \in Nat /\ Term(d, k) \in Nat
  BY TermIs
<1>2. more \in Int
  BY <1>1
<1>3. Count \in Nat \ {0} /\ k \in Nat /\ 1 <= k /\ k <= Count
  BY DEF MallocAssumption, Records
<1>4. \A j \in 0..Count : s[j] \in Int
  BY DEF AddsUp
<1>5. ASSUME NEW j \in Records PROVE t[j] = t[j - 1] + Term(e, j)
  <2>1. j \in 0..Count /\ j - 1 \in 0..Count /\ j \in Nat /\ s[j] = s[j - 1] + Term(d, j) /\ Term(d, j) \in Nat
    BY <1>3, TermIs DEF Records, AddsUp
  <2>2. CASE j < k
    <3>1. Term(e, j) = Term(d, j)
      BY <2>2, <1>3, <2>1 DEF Term
    <3> HIDE DEF more
    <3> QED
      BY <1>3, <1>4, <2>1, <2>2, <3>1
  <2>3. CASE j = k
    BY <1>1, <1>3, <1>4, <2>1, <2>3
  <2>4. CASE j > k
    <3>1. Term(e, j) = Term(d, j)
      BY <2>4, <1>3, <2>1 DEF Term
    <3> HIDE DEF more
    <3> QED
      BY <1>2, <1>3, <1>4, <2>1, <2>4, <3>1
  <2> QED
    BY <1>3, <2>1, <2>2, <2>3, <2>4
<1>6. t \in [0..Count -> Int] /\ t[0] = 0 /\ t[Count] = s[Count] + more
  <2> HIDE DEF more
  <2> QED
    BY <1>2, <1>3, <1>4 DEF AddsUp
<1>7. t[Count] = s[Count] + Term(e, k) - Term(d, k)
  BY <1>1, <1>3, <1>4, <1>6
<1> QED
  <2> HIDE DEF t
  <2> QED
    BY <1>5, <1>6, <1>7 DEF AddsUp

\* The sums of an empty table.
LEMMA SumsOfNone == ASSUME MallocAssumption
                    PROVE  \E s : AddsUp(s, Cleared) /\ s[Count] = 0
<1> DEFINE s == [j \in 0..Count |-> 0]
<1>1. AddsUp(s, Cleared) /\ s[Count] = 0
  BY DEF AddsUp, Term, Cleared, NoRecord, Records, MallocAssumption
<1> QED
  BY <1>1

-----------------------------------------------------------------------------
(* DbgMalloc: what the steps start from *)

Working == {"record", "release", "check", "crealloc", "rerecord", "cfree"}

\* What a call is, by where it is.
LEMMA CallIs ==
  ASSUME AllocatorShape, NEW th \in Threads
  PROVE  /\ call[th] \in Calls /\ call[th].pc \in Working \cup {"idle"}
         /\ call[th].pc # "idle" => call[th].b \in Bases
         /\ call[th].pc \in {"check", "crealloc"} => call[th].n \in Sizes
         /\ call[th].pc = "rerecord" => call[th].old \in Bases
         /\ call[th].pc \in Working \ {"cfree"} => call[th].mem \in BOOLEAN
<1>1. call[th] \in Calls
  BY DEF AllocatorShape
<1> QED
  BY <1>1 DEF Calls, Idle, Working

\* The record a new block gets is none in use.
LEMMA PickIs ==
  ASSUME MallocAssumption, assigned \in 0..Count, reused \in 0..(Count - 1), FreshRecords, PickRecord # 0
  PROVE  /\ PickRecord \in Records /\ ~data[PickRecord].used
         /\ assigned < Count => PickRecord = assigned + 1
         /\ PickRecord % Count \in 0..(Count - 1)
<1>0. Count \in Nat \ {0}
  BY DEF MallocAssumption
<1>1. \A i \in Nat : (reused + i) % Count \in 0..(Count - 1) /\ Cyclic(i) \in Records
  <2> SUFFICES ASSUME NEW i \in Nat
      PROVE (reused + i) % Count \in 0..(Count - 1) /\ Cyclic(i) \in Records
    OBVIOUS
  <2>1. reused + i \in Nat
    BY <1>0
  <2>2. (reused + i) % Count \in 0..(Count - 1)
    BY <1>0, <2>1
  <2> QED
    BY <1>0, <2>2 DEF Cyclic, Records
<1>2. CASE assigned < Count
  <2>1. PickRecord = assigned + 1 /\ assigned + 1 \in Records /\ assigned + 1 > assigned
    BY <1>0, <1>2 DEF PickRecord, Records
  <2>2. ~data[PickRecord].used
    BY <2>1 DEF FreshRecords, NoRecord
  <2>3. PickRecord \in Nat
    BY <1>0, <2>1
  <2> QED
    BY <1>0, <2>1, <2>2, <2>3
<1>3. CASE ~(assigned < Count)
  <2>1. FirstFree # {} /\ PickRecord = Cyclic(CHOOSE i \in FirstFree : TRUE)
    BY <1>3 DEF PickRecord
  <2>2. PICK i \in FirstFree : PickRecord = Cyclic(i)
    BY <2>1
  <2>3. i \in Nat /\ ~data[Cyclic(i)].used
    BY <1>0, <2>2 DEF FirstFree
  <2>4. PickRecord \in Records /\ PickRecord \in Nat
    BY <1>0, <1>1, <2>2, <2>3 DEF Records
  <2> QED
    BY <1>0, <1>3, <2>2, <2>3, <2>4
<1> QED
  BY <1>2, <1>3

-----------------------------------------------------------------------------
(* DbgMalloc: one lemma for each part of the invariant, one step for each action *)

\* The invariant the proofs carry: TableInv with the sums of the table for ReportAgrees.
TotalAdds  == \E s : AddsUp(s, data) /\ s[Count] = total
BlocksKept == \A b \in Bases : heap[b] # -1 <=> \/ b \in given
                                                 \/ \E th \in Threads : ~At(th, "idle") /\ call[th].b = b
TableCore == /\ AllocatorShape /\ assigned \in 0..Count /\ reused \in 0..(Count - 1)
             /\ HeaderLeadsHome /\ BlocksKept /\ DoubleFreeReported
             /\ CallsApart /\ HeadersFit /\ CallsLeadHome /\ RecordsApart /\ FreshRecords /\ ReleasedKnown
             /\ TotalAdds /\ ops.alloc - ops.free = Cardinality(InUse)

\* A call works on a block that is in use.
LEMMA CallHasBlock ==
  ASSUME AllocatorShape, BlocksKept, NEW th \in Threads, ~At(th, "idle")
  PROVE  call[th].b \in Bases /\ heap[call[th].b] \in Sizes
<1>1. call[th].b \in Bases
  BY CallIs DEF At, Working
<1>2. heap[call[th].b] # -1 /\ heap[call[th].b] \in Sizes \cup {-1}
  BY <1>1 DEF BlocksKept, AllocatorShape
<1> QED
  BY <1>1, <1>2

\* A step leaves the other calls alone.
LEMMA EnterIs ==
  ASSUME AllocatorShape, NEW th \in Threads, NEW c \in Calls, Enter(th, c)
  PROVE  /\ call' \in [Threads -> Calls] /\ call'[th] = c
         /\ \A u \in Threads \ {th} : call'[u] = call[u]
BY DEF AllocatorShape, Enter

\* What the variables hold.
LEMMA ShapeStep ==
  ASSUME MallocAssumption, TableCore, [Next]_vars
  PROVE  AllocatorShape' /\ assigned' \in 0..Count /\ reused' \in 0..(Count - 1)
<1>0. AllocatorShape /\ assigned \in 0..Count /\ reused \in 0..(Count - 1) /\ Count \in Nat \ {0} /\ MaxSize \in Nat
  BY DEF TableCore, MallocAssumption
<1>1. ASSUME NEW th \in Threads, NEW n \in Sizes, Malloc(th, n)
      PROVE AllocatorShape' /\ UNCHANGED <<assigned, reused>>
  <2>1. PICK b \in Bases : Enter(th, [pc |-> "record", b |-> b, mem |-> tracker]) /\ heap' = [heap EXCEPT ![b] = n]
    BY <1>1 DEF Malloc
  <2>2. [pc |-> "record", b |-> b, mem |-> tracker] \in Calls
    BY <1>0 DEF Calls, AllocatorShape
  <2>3. call' \in [Threads -> Calls]
    BY <1>0, <2>1, <2>2, EnterIs
  <2>4. released' \subseteq Bases
    BY <1>0, <1>1 DEF Malloc, AllocatorShape
  <2> QED
    BY <1>0, <1>1, <2>1, <2>3, <2>4 DEF Malloc, AllocatorShape, table, hist
<1>2. ASSUME NEW th \in Threads, NEW n \in 0..(MaxSize - 1), Duplicate(th, n)
      PROVE AllocatorShape' /\ UNCHANGED <<assigned, reused>>
  <2>1. n + 1 \in Sizes /\ Malloc(th, n + 1)
    BY <1>0, <1>2 DEF Duplicate, Sizes
  <2> QED
    BY <1>1, <2>1
<1>3. ASSUME NEW th \in Threads, Record(th)
      PROVE AllocatorShape' /\ assigned' \in 0..Count /\ reused' \in 0..(Count - 1)
  <2> DEFINE b == call[th].b
             k == PickRecord
  <2>1. b \in Bases /\ heap[b] \in Sizes
    BY <1>3, CallHasBlock DEF TableCore, Record, At
  <2>2. call' \in [Threads -> Calls]
    BY <1>0, <1>3, EnterIs DEF Record, Return, Calls
  <2>3. given' \subseteq Bases /\ heap' = heap /\ released' = released /\ corrupted' = corrupted /\ tracker' = tracker
    BY <1>0, <1>3, <2>1 DEF Record, AllocatorShape
  <2>4. CASE Tracked(th) /\ k # 0 /\ Add(b, heap[b], k, "alloc")
             /\ assigned' = (IF assigned < Count THEN assigned + 1 ELSE assigned)
             /\ reused' = (IF assigned < Count THEN reused ELSE k % Count)
             /\ excused' = (excused \/ data[k].ptr # "null")
    <3>1. k \in Records /\ k % Count \in 0..(Count - 1)
      BY <1>0, <2>4, PickIs DEF TableCore
    <3>2. data' \in Table
      <4>1. [ptr |-> b, size |-> heap[b], used |-> TRUE] \in [ptr : Bases \cup {"null"}, size : Sizes, used : BOOLEAN]
        BY <2>1
      <4> QED
        BY <1>0, <2>4, <3>1, <4>1 DEF Add, Table, AllocatorShape
    <3>3. header' \in [Bases -> {NoHeader, Self} \cup Records]
      BY <1>0, <2>1, <2>4, <3>1 DEF Add, AllocatorShape
    <3>4. ops' \in [alloc : Nat, realloc : Nat, free : Nat]
      BY <1>0, <2>4 DEF Add, Bump, AllocatorShape
    <3>5. assigned' \in 0..Count /\ reused' \in 0..(Count - 1)
      BY <1>0, <2>4, <3>1
    <3> QED
      BY <1>0, <2>2, <2>3, <2>4, <3>2, <3>3, <3>4, <3>5 DEF AllocatorShape, Table
  <2>5. CASE Untrack(b) /\ excused' = TRUE /\ UNCHANGED table
    BY <1>0, <2>1, <2>2, <2>3, <2>5 DEF Untrack, table, AllocatorShape
  <2> QED
    BY <1>3, <2>4, <2>5 DEF Record
<1>4. ASSUME NEW th \in Threads, NEW b \in Bases, Free(th, b)
      PROVE AllocatorShape' /\ UNCHANGED <<assigned, reused>>
  <2>1. call' \in [Threads -> Calls]
    <3>1. [pc |-> "release", b |-> b, mem |-> tracker] \in Calls
      BY <1>0 DEF Calls, AllocatorShape
    <3> QED
      BY <1>0, <1>4, <3>1, EnterIs DEF Free, AllocatorShape
  <2>2. heap' \in [Bases -> Sizes \cup {-1}] /\ header' \in [Bases -> {NoHeader, Self} \cup Records]
    BY <1>0, <1>4 DEF Free, Release, cheap, AllocatorShape
  <2> QED
    BY <1>0, <1>4, <2>1, <2>2 DEF Free, AllocatorShape, table, hist
<1>5. ASSUME NEW th \in Threads, MemRelease(th)
      PROVE AllocatorShape' /\ UNCHANGED <<assigned, reused>>
  <2> DEFINE b == call[th].b
  <2>1. b \in Bases /\ header[b] \in Records
    BY <1>5, CallHasBlock DEF TableCore, HeadersFit, MemRelease, At
  <2>2. call' \in [Threads -> Calls]
    <3>1. [pc |-> "cfree", b |-> b] \in Calls /\ Idle \in Calls
      BY <2>1 DEF Calls
    <3> QED
      BY <1>0, <1>5, <3>1, EnterIs DEF MemRelease, Return
  <2>3. data' \in Table
    <3>1. data' = data \/ data' = [data EXCEPT ![header[b]].used = FALSE]
      BY <1>5 DEF MemRelease
    <3>2. data[header[b]] \in [ptr : Bases \cup {"null"}, size : Sizes, used : BOOLEAN]
      BY <1>0, <2>1 DEF AllocatorShape
    <3>3. [data[header[b]] EXCEPT !.used = FALSE] \in [ptr : Bases \cup {"null"}, size : Sizes, used : BOOLEAN]
      BY <3>2
    <3> QED
      BY <1>0, <2>1, <3>1, <3>3 DEF AllocatorShape, Table
  <2>4. ops' \in [alloc : Nat, realloc : Nat, free : Nat]
    BY <1>0, <1>5 DEF MemRelease, Bump, AllocatorShape
  <2> QED
    BY <1>0, <1>5, <2>2, <2>3, <2>4 DEF MemRelease, AllocatorShape, Table, cheap, hist
<1>6. ASSUME NEW th \in Threads, CFree(th) PROVE AllocatorShape' /\ UNCHANGED <<assigned, reused>>
  <2>1. call' \in [Threads -> Calls]
    BY <1>0, <1>6, EnterIs DEF CFree, Return, Calls
  <2>2. heap' \in [Bases -> Sizes \cup {-1}] /\ header' \in [Bases -> {NoHeader, Self} \cup Records]
    BY <1>0, <1>6 DEF CFree, Release, AllocatorShape
  <2> QED
    BY <1>0, <1>6, <2>1, <2>2 DEF CFree, AllocatorShape, table, hist
<1>7. ASSUME NEW th \in Threads, NEW b \in Bases, StrayFree(th, b)
      PROVE AllocatorShape' /\ UNCHANGED <<assigned, reused>>
  <2>1. corrupted' \in BOOLEAN
    BY <1>7 DEF StrayFree
  <2> QED
    BY <1>0, <1>7, <2>1 DEF StrayFree, AllocatorShape, cheap, table
<1>8. ASSUME NEW th \in Threads, NEW b \in Bases, NEW n \in Sizes, Realloc(th, b, n)
      PROVE AllocatorShape' /\ UNCHANGED <<assigned, reused>>
  <2>1. CASE header[b] = Self /\ UNCHANGED call
    <3>1. PICK t \in Targets(b) : Move(b, t, n, Self) /\ given' = (given \ {b}) \cup {t}
      BY <1>8, <2>1 DEF Realloc, Records, Self
    <3>2. t \in Bases
      BY DEF Targets
    <3> QED
      BY <1>0, <1>8, <2>1, <3>1, <3>2 DEF Realloc, Move, AllocatorShape, table, hist
  <2>2. CASE header[b] \in Records /\ UNCHANGED <<cheap, released>>
             /\ given' = given \ {b} /\ Enter(th, [pc |-> "check", b |-> b, n |-> n, mem |-> tracker])
    <3>1. [pc |-> "check", b |-> b, n |-> n, mem |-> tracker] \in Calls
      BY <1>0 DEF Calls, AllocatorShape
    <3>2. call' \in [Threads -> Calls]
      BY <1>0, <2>2, <3>1, EnterIs
    <3> QED
      BY <1>0, <1>8, <2>2, <3>2 DEF Realloc, AllocatorShape, table, hist, cheap
  <2> QED
    BY <1>8, <2>1, <2>2 DEF Realloc
<1>9. ASSUME NEW th \in Threads, MemCheck(th)
      PROVE AllocatorShape' /\ UNCHANGED <<assigned, reused>>
  <2>1. call[th].b \in Bases /\ call[th] \in [pc : {"check", "crealloc"}, b : Bases, n : Sizes, mem : BOOLEAN]
    BY <1>0, <1>9, CallIs DEF MemCheck, At, Calls, Idle
  <2>2. [call[th] EXCEPT !.pc = "crealloc"] \in Calls /\ Idle \in Calls
    BY <2>1 DEF Calls
  <2>3. call' \in [Threads -> Calls]
    BY <1>0, <1>9, <2>2, EnterIs DEF MemCheck, Return
  <2>4. given' \subseteq Bases
    BY <1>0, <1>9, <2>1 DEF MemCheck, AllocatorShape
  <2> QED
    BY <1>0, <1>9, <2>3, <2>4 DEF MemCheck, AllocatorShape, table, hist, cheap
<1>10. ASSUME NEW th \in Threads, CRealloc(th)
       PROVE AllocatorShape' /\ UNCHANGED <<assigned, reused>>
  <2> DEFINE c == call[th]
  <2>1. c.b \in Bases /\ c.n \in Sizes /\ c.mem \in BOOLEAN
    BY <1>0, <1>10, CallIs DEF CRealloc, At, Working
  <2>2. CASE \E t \in Targets(c.b) : /\ Move(c.b, t, c.n, header[c.b])
                                    /\ Enter(th, [pc |-> "rerecord", b |-> t, old |-> c.b, mem |-> tracker])
                                    /\ UNCHANGED given
    <3>1. PICK t \in Targets(c.b) : /\ Move(c.b, t, c.n, header[c.b])
                                    /\ Enter(th, [pc |-> "rerecord", b |-> t, old |-> c.b, mem |-> tracker])
                                    /\ UNCHANGED given
      BY <2>2
    <3>2. t \in Bases /\ [pc |-> "rerecord", b |-> t, old |-> c.b, mem |-> tracker] \in Calls
      BY <1>0, <2>1 DEF Targets, Calls, AllocatorShape
    <3>3. call' \in [Threads -> Calls]
      BY <1>0, <3>1, <3>2, EnterIs
    <3>4. heap' \in [Bases -> Sizes \cup {-1}] /\ header' \in [Bases -> {NoHeader, Self} \cup Records]
          /\ released' \subseteq Bases
      BY <1>0, <2>1, <3>1, <3>2 DEF Move, AllocatorShape
    <3> QED
      BY <1>0, <1>10, <3>1, <3>3, <3>4 DEF CRealloc, AllocatorShape, table, hist
  <2>3. CASE Return(th) /\ given' = given \cup {c.b} /\ UNCHANGED <<cheap, released>>
    <3>1. call' \in [Threads -> Calls]
      BY <1>0, <2>3, EnterIs DEF Return, Calls
    <3> QED
      BY <1>0, <1>10, <2>1, <2>3, <3>1 DEF CRealloc, AllocatorShape, table, hist, cheap
  <2> QED
    BY <1>10, <2>2, <2>3 DEF CRealloc
<1>11. ASSUME NEW th \in Threads, ReRecord(th)
       PROVE AllocatorShape' /\ UNCHANGED <<assigned, reused>>
  <2> DEFINE b == call[th].b
             k == header[b]
  <2>1. b \in Bases /\ heap[b] \in Sizes /\ k \in Records
    BY <1>11, CallHasBlock DEF TableCore, HeadersFit, ReRecord, At
  <2>2. call' \in [Threads -> Calls]
    BY <1>0, <1>11, EnterIs DEF ReRecord, Return, Calls
  <2>3. given' \subseteq Bases /\ heap' = heap /\ released' = released /\ corrupted' = corrupted /\ tracker' = tracker
    BY <1>0, <1>11, <2>1 DEF ReRecord, AllocatorShape
  <2>4. CASE Add(b, heap[b], k, "realloc") /\ excused' = (excused \/ b # call[th].old) /\ UNCHANGED <<assigned, reused>>
    <3>1. data' \in Table
      <4>1. [ptr |-> b, size |-> heap[b], used |-> TRUE] \in [ptr : Bases \cup {"null"}, size : Sizes, used : BOOLEAN]
        BY <2>1
      <4> QED
        BY <1>0, <2>1, <2>4, <4>1 DEF Add, Table, AllocatorShape
    <3>2. header' \in [Bases -> {NoHeader, Self} \cup Records]
      BY <1>0, <2>1, <2>4 DEF Add, AllocatorShape
    <3>3. ops' \in [alloc : Nat, realloc : Nat, free : Nat]
      BY <1>0, <2>4 DEF Add, Bump, AllocatorShape
    <3> QED
      BY <1>0, <2>2, <2>3, <2>4, <3>1, <3>2, <3>3 DEF AllocatorShape, Table
  <2>5. CASE Untrack(b) /\ UNCHANGED <<table, excused>>
    BY <1>0, <2>1, <2>2, <2>3, <2>5 DEF Untrack, table, AllocatorShape
  <2> QED
    BY <1>11, <2>4, <2>5 DEF ReRecord
<1>12. ASSUME MemInit
       PROVE AllocatorShape' /\ assigned' \in 0..Count /\ reused' \in 0..(Count - 1)
  <2>1. Cleared \in Table
    BY <1>0 DEF Cleared, NoRecord, Table, Sizes
  <2>2. assigned' \in 0..Count /\ reused' \in 0..(Count - 1)
    BY <1>0, <1>12 DEF MemInit
  <2>3. ops' \in [alloc : Nat, realloc : Nat, free : Nat]
    BY <1>12 DEF MemInit, NoOps
  <2> QED
    BY <1>0, <1>12, <2>1, <2>2, <2>3 DEF MemInit, Table, AllocatorShape, cheap, hist
<1>13. ASSUME MemDisable PROVE AllocatorShape' /\ UNCHANGED <<assigned, reused>>
  BY <1>0, <1>13 DEF MemDisable, AllocatorShape, cheap, table
<1>14. ASSUME UNCHANGED vars PROVE AllocatorShape' /\ UNCHANGED <<assigned, reused>>
  BY <1>0, <1>14 DEF vars, cheap, table, hist, AllocatorShape
<1> QED
  BY <1>0, <1>1, <1>2, <1>3, <1>4, <1>5, <1>6, <1>7, <1>8, <1>9, <1>10, <1>11, <1>12, <1>13, <1>14
     DEF Next

\* Each call has a block of its own, and no block is lost.
LEMMA ApartStep ==
  ASSUME MallocAssumption, TableCore, [Next]_vars PROVE CallsApart' /\ BlocksKept'
<1>0. /\ AllocatorShape /\ AllocatorShape' /\ BlocksKept /\ CallsApart /\ HeadersFit /\ CallsLeadHome /\ -1 \notin Sizes
      /\ MaxSize \in Nat
  BY ShapeStep DEF TableCore, Sizes, MallocAssumption
<1>1. \A th \in Threads : ~At(th, "idle") => call[th].b \in Bases /\ heap[call[th].b] \in Sizes
  BY <1>0, CallHasBlock
\* A call ends and its block goes to its owner, or is gone.
<1>2. ASSUME NEW th \in Threads, ~At(th, "idle"), Return(th), UNCHANGED tracker,
             \/ heap' = heap /\ given' = given \cup {call[th].b}
             \/ heap' = [heap EXCEPT ![call[th].b] = -1] /\ given' = given
      PROVE  CallsApart' /\ BlocksKept'
  <2>1. /\ call'[th] = Idle /\ \A u \in Threads \ {th} : call'[u] = call[u]
    BY <1>0, <1>2, EnterIs DEF Return, Calls
  <2>2. CallsApart'
    BY <1>0, <1>1, <1>2, <2>1 DEF CallsApart, At, Idle
  <2>3. ASSUME NEW x \in Bases
        PROVE  heap'[x] # -1 <=> x \in given' \/ \E u \in Threads : call'[u].pc # "idle" /\ call'[u].b = x
    <3>1. \A u \in Threads : call'[u].pc # "idle" => u # th /\ call'[u] = call[u] /\ call[u].b # call[th].b
      BY <1>0, <1>2, <2>1 DEF CallsApart, At, Idle
    <3>2. CASE x = call[th].b
      <4>1. \A u \in Threads : ~(call'[u].pc # "idle" /\ call'[u].b = x)
        BY <3>1, <3>2
      <4>2. heap[x] \in Sizes /\ x \notin given
        BY <1>0, <1>1, <1>2, <3>2 DEF CallsApart
      <4> QED
        BY <1>0, <1>2, <3>2, <4>1, <4>2 DEF AllocatorShape
    <3>3. CASE x # call[th].b
      <4>1. heap'[x] = heap[x] /\ (x \in given' <=> x \in given)
        BY <1>0, <1>2, <3>3 DEF AllocatorShape
      <4>2. (\E u \in Threads : call'[u].pc # "idle" /\ call'[u].b = x) <=> \E u \in Threads : call[u].pc # "idle" /\ call[u].b = x
        BY <2>1, <3>1, <3>3
      <4> QED
        BY <1>0, <4>1, <4>2 DEF BlocksKept, At
    <3> QED
      BY <3>2, <3>3
  <2> QED
    BY <2>2, <2>3 DEF BlocksKept, At
\* A call goes on with the same block.
<1>3. ASSUME NEW th \in Threads, ~At(th, "idle"), NEW c \in Calls, Enter(th, c), c.pc # "idle", c.b = call[th].b,
             c.pc # "cfree" => c.mem = call[th].mem /\ ~At(th, "cfree"), UNCHANGED <<heap, given, tracker>>
      PROVE  CallsApart' /\ BlocksKept'
  <2>1. /\ call'[th] = c /\ \A u \in Threads \ {th} : call'[u] = call[u]
    BY <1>0, <1>3, EnterIs
  <2>2. CallsApart'
    BY <1>0, <1>1, <1>3, <2>1 DEF CallsApart, At
  <2>3. BlocksKept'
    BY <1>0, <1>1, <1>3, <2>1 DEF BlocksKept, At
  <2> QED
    BY <2>2, <2>3
\* A call begins with a block of the caller's, or with one that was none.
<1>4. ASSUME NEW th \in Threads, At(th, "idle"), NEW c \in Calls, Enter(th, c), c.pc # "idle", c.b \in Bases,
             c.mem = tracker, UNCHANGED tracker, NEW n \in Sizes,
             \/ c.b \in given /\ given' = given \ {c.b} /\ heap' = heap
             \/ heap[c.b] = -1 /\ heap' = [heap EXCEPT ![c.b] = n] /\ given' = given
      PROVE  CallsApart' /\ BlocksKept'
  <2>1. /\ call'[th] = c /\ \A u \in Threads \ {th} : call'[u] = call[u]
    BY <1>0, <1>4, EnterIs
  <2>2. \A u \in Threads : ~At(u, "idle") => call[u].b # c.b
    BY <1>0, <1>1, <1>4 DEF CallsApart, BlocksKept
  <2>3. CallsApart'
    BY <1>0, <1>1, <1>4, <2>1, <2>2 DEF CallsApart, BlocksKept, At
  <2>4. ASSUME NEW x \in Bases
        PROVE  heap'[x] # -1 <=> x \in given' \/ \E u \in Threads : call'[u].pc # "idle" /\ call'[u].b = x
    <3>1. CASE x = c.b
      <4>1. heap'[x] # -1
        BY <1>0, <1>4, <3>1 DEF AllocatorShape, BlocksKept
      <4> QED
        BY <1>4, <2>1, <3>1, <4>1
    <3>2. CASE x # c.b
      <4>1. heap'[x] = heap[x] /\ (x \in given' <=> x \in given)
        BY <1>0, <1>4, <3>2 DEF AllocatorShape
      <4>2. (\E u \in Threads : call'[u].pc # "idle" /\ call'[u].b = x) <=> \E u \in Threads : call[u].pc # "idle" /\ call[u].b = x
        BY <1>4, <2>1, <3>2 DEF At
      <4> QED
        BY <1>0, <4>1, <4>2 DEF BlocksKept, At
    <3> QED
      BY <3>1, <3>2
  <2> QED
    BY <2>3, <2>4 DEF BlocksKept, At
<1>5. ASSUME NEW th \in Threads, NEW n \in Sizes, Malloc(th, n) PROVE CallsApart' /\ BlocksKept'
  <2>1. PICK b \in Bases : /\ heap[b] = -1 /\ heap' = [heap EXCEPT ![b] = n]
                           /\ Enter(th, [pc |-> "record", b |-> b, mem |-> tracker])
    BY <1>5 DEF Malloc
  <2>2. [pc |-> "record", b |-> b, mem |-> tracker] \in Calls
    BY <1>0 DEF Calls, AllocatorShape
  <2>3. At(th, "idle") /\ given' = given /\ tracker' = tracker
    BY <1>5 DEF Malloc
  <2> QED
    BY <1>4, <2>1, <2>2, <2>3
<1>6. ASSUME NEW th \in Threads, NEW n \in 0..(MaxSize - 1), Duplicate(th, n)
      PROVE CallsApart' /\ BlocksKept'
  <2>1. n + 1 \in Sizes /\ Malloc(th, n + 1)
    BY <1>0, <1>6 DEF Duplicate, Sizes
  <2> QED
    BY <1>5, <2>1
<1>7. ASSUME NEW th \in Threads, Record(th) PROVE CallsApart' /\ BlocksKept'
  <2>1. ~At(th, "idle") /\ Return(th) /\ heap' = heap /\ tracker' = tracker /\ given' = given \cup {call[th].b}
    BY <1>7 DEF Record, At
  <2> QED
    BY <1>2, <2>1
<1>8. ASSUME NEW th \in Threads, NEW b \in Bases, Free(th, b) PROVE CallsApart' /\ BlocksKept'
  <2>1. At(th, "idle") /\ b \in given /\ given' = given \ {b} /\ tracker' = tracker
    BY <1>8 DEF Free
  <2>2. CASE Release(b) /\ UNCHANGED call
    <3>1. \A u \in Threads : ~At(u, "idle") => call[u].b # b
      BY <1>0, <2>1 DEF CallsApart
    <3>2. CallsApart'
      BY <1>0, <2>1, <2>2 DEF CallsApart, At
    <3> QED
      BY <1>0, <2>1, <2>2, <3>1, <3>2 DEF BlocksKept, At, Release, AllocatorShape
  <2>3. CASE Enter(th, [pc |-> "release", b |-> b, mem |-> tracker]) /\ UNCHANGED cheap
    <3>1. [pc |-> "release", b |-> b, mem |-> tracker] \in Calls /\ 0 \in Sizes /\ heap' = heap
      BY <1>0, <2>3 DEF Calls, AllocatorShape, cheap, Sizes
    <3> QED
      BY <1>4, <2>1, <2>3, <3>1
  <2> QED
    BY <1>8, <2>2, <2>3 DEF Free
<1>9. ASSUME NEW th \in Threads, MemRelease(th) PROVE CallsApart' /\ BlocksKept'
  <2>1. ~At(th, "idle") /\ UNCHANGED <<heap, given, tracker>> /\ call[th].b \in Bases
    BY <1>1, <1>9 DEF MemRelease, At, cheap
  <2>2. Enter(th, [pc |-> "cfree", b |-> call[th].b])
    BY <1>0, <1>9 DEF MemRelease, CallsLeadHome, Tracked, At
  <2>3. [pc |-> "cfree", b |-> call[th].b] \in Calls
    BY <2>1 DEF Calls
  <2> QED
    BY <1>3, <2>1, <2>2, <2>3
<1>10. ASSUME NEW th \in Threads, CFree(th) PROVE CallsApart' /\ BlocksKept'
  <2>1. ~At(th, "idle") /\ Return(th) /\ tracker' = tracker /\ given' = given
        /\ heap' = [heap EXCEPT ![call[th].b] = -1]
    BY <1>10 DEF CFree, At, Release
  <2> QED
    BY <1>2, <2>1
<1>11. ASSUME NEW th \in Threads, NEW b \in Bases, StrayFree(th, b)
       PROVE CallsApart' /\ BlocksKept'
  BY <1>0, <1>11 DEF StrayFree, CallsApart, BlocksKept, At, cheap
<1>12. ASSUME NEW th \in Threads, NEW b \in Bases, NEW n \in Sizes, Realloc(th, b, n)
       PROVE CallsApart' /\ BlocksKept'
  <2>1. At(th, "idle") /\ b \in given /\ tracker' = tracker
    BY <1>12 DEF Realloc
  <2>2. CASE header[b] = Self /\ UNCHANGED call
    <3>1. PICK t \in Targets(b) : Move(b, t, n, Self) /\ given' = (given \ {b}) \cup {t}
      BY <1>12, <2>2 DEF Realloc, Records, Self
    <3>2. t \in Bases /\ (t = b \/ heap[t] = -1) /\ n # -1
      BY <1>0 DEF Targets
    <3>3. \A u \in Threads : ~At(u, "idle") => call[u].b # b /\ call[u].b # t
      BY <1>0, <1>1, <2>1, <3>2 DEF CallsApart
    <3>4. CallsApart'
      BY <1>0, <2>1, <2>2, <3>1, <3>3 DEF CallsApart, At
    <3> QED
      BY <1>0, <2>1, <2>2, <3>1, <3>2, <3>3, <3>4 DEF BlocksKept, At, Move, AllocatorShape
  <2>3. CASE header[b] \in Records /\ UNCHANGED <<cheap, released>>
             /\ given' = given \ {b} /\ Enter(th, [pc |-> "check", b |-> b, n |-> n, mem |-> tracker])
    <3>1. [pc |-> "check", b |-> b, n |-> n, mem |-> tracker] \in Calls /\ heap' = heap
      BY <1>0, <2>3 DEF Calls, AllocatorShape, cheap
    <3> QED
      BY <1>4, <2>1, <2>3, <3>1
  <2> QED
    BY <1>12, <2>2, <2>3 DEF Realloc
<1>13. ASSUME NEW th \in Threads, MemCheck(th) PROVE CallsApart' /\ BlocksKept'
  <2>1. call[th] \in [pc : {"check", "crealloc"}, b : Bases, n : Sizes, mem : BOOLEAN] /\ ~At(th, "idle")
        /\ UNCHANGED <<heap, tracker>>
    BY <1>0, <1>13, CallIs DEF MemCheck, At, Calls, Idle, cheap
  <2>2. CASE Enter(th, [call[th] EXCEPT !.pc = "crealloc"]) /\ UNCHANGED given
    <3>1. [call[th] EXCEPT !.pc = "crealloc"] \in Calls /\ [call[th] EXCEPT !.pc = "crealloc"].b = call[th].b
          /\ [call[th] EXCEPT !.pc = "crealloc"].mem = call[th].mem /\ [call[th] EXCEPT !.pc = "crealloc"].pc # "idle"
          /\ ~At(th, "cfree")
      BY <2>1, <1>13 DEF Calls, MemCheck, At
    <3> QED
      BY <1>3, <2>1, <2>2, <3>1
  <2>3. CASE Return(th) /\ given' = given \cup {call[th].b}
    BY <1>2, <2>1, <2>3
  <2> QED
    BY <1>13, <2>2, <2>3 DEF MemCheck
<1>14. ASSUME NEW th \in Threads, CRealloc(th) PROVE CallsApart' /\ BlocksKept'
  <2> DEFINE c == call[th]
  <2>1. /\ c.b \in Bases /\ c.n \in Sizes /\ c.mem \in BOOLEAN /\ heap[c.b] \in Sizes /\ ~At(th, "idle")
        /\ tracker' = tracker
    BY <1>0, <1>1, <1>14, CallIs DEF CRealloc, At, Working
  <2>2. CASE \E t \in Targets(c.b) : /\ Move(c.b, t, c.n, header[c.b])
                                    /\ Enter(th, [pc |-> "rerecord", b |-> t, old |-> c.b, mem |-> tracker])
                                    /\ UNCHANGED given
    <3>1. PICK t \in Targets(c.b) : /\ Move(c.b, t, c.n, header[c.b])
                                    /\ Enter(th, [pc |-> "rerecord", b |-> t, old |-> c.b, mem |-> tracker])
                                    /\ UNCHANGED given
      BY <2>2
    <3>2. t \in Bases /\ (t = c.b \/ heap[t] = -1) /\ c.n # -1
          /\ [pc |-> "rerecord", b |-> t, old |-> c.b, mem |-> tracker] \in Calls
      BY <1>0, <2>1 DEF Targets, Calls, AllocatorShape
    <3>3. call'[th] = [pc |-> "rerecord", b |-> t, old |-> c.b, mem |-> tracker]
          /\ \A u \in Threads \ {th} : call'[u] = call[u]
      BY <1>0, <3>1, <3>2, EnterIs
    <3>4. t \notin given /\ \A u \in Threads \ {th} : ~At(u, "idle") => call[u].b # c.b /\ call[u].b # t
      BY <1>0, <1>1, <2>1, <3>2 DEF CallsApart, BlocksKept
    <3>5. CallsApart'
      BY <1>0, <2>1, <3>1, <3>3, <3>4 DEF CallsApart, At
    <3>6. \A x \in Bases : heap'[x] = IF x = t THEN c.n ELSE IF x = c.b THEN -1 ELSE heap[x]
      BY <3>1 DEF Move
    <3>7. call'[th].pc = "rerecord" /\ call'[th].b = t /\ given' = given /\ c.b \notin given
      BY <1>0, <2>1, <3>1, <3>3 DEF CallsApart
    <3>8. ASSUME NEW x \in Bases
          PROVE  heap'[x] # -1 <=> x \in given' \/ \E u \in Threads : call'[u].pc # "idle" /\ call'[u].b = x
      <4>1. CASE x = t
        BY <3>2, <3>6, <3>7, <4>1
      <4>2. CASE x = c.b /\ x # t
        BY <1>0, <3>3, <3>4, <3>6, <3>7, <4>2 DEF At
      <4>3. CASE x # t /\ x # c.b
        BY <1>0, <3>3, <3>6, <3>7, <4>3 DEF At, BlocksKept
      <4> QED
        BY <4>1, <4>2, <4>3
    <3> QED
      BY <3>5, <3>8 DEF BlocksKept, At
  <2>3. CASE Return(th) /\ given' = given \cup {c.b} /\ UNCHANGED <<cheap, released>>
    BY <1>2, <2>1, <2>3 DEF cheap
  <2> QED
    BY <1>14, <2>2, <2>3 DEF CRealloc
<1>15. ASSUME NEW th \in Threads, ReRecord(th) PROVE CallsApart' /\ BlocksKept'
  <2>1. ~At(th, "idle") /\ Return(th) /\ heap' = heap /\ tracker' = tracker /\ given' = given \cup {call[th].b}
    BY <1>15 DEF ReRecord, At
  <2> QED
    BY <1>2, <2>1
<1>16. ASSUME MemInit PROVE CallsApart' /\ BlocksKept'
  BY <1>0, <1>16 DEF MemInit, Quiet, CallsApart, BlocksKept, At, cheap
<1>17. ASSUME MemDisable PROVE CallsApart' /\ BlocksKept'
  BY <1>0, <1>17 DEF MemDisable, CallsApart, BlocksKept, At, cheap
<1>18. ASSUME UNCHANGED vars PROVE CallsApart' /\ BlocksKept'
  BY <1>0, <1>18 DEF vars, cheap, CallsApart, BlocksKept, At
<1> QED
  BY <1>0, <1>5, <1>6, <1>7, <1>8, <1>9, <1>10, <1>11, <1>12, <1>13, <1>14, <1>15, <1>16, <1>17,
     <1>18
  DEF Next


\* A block with a record in its header is in use, and recorded; the owners' blocks have headers.
HeadersKnown == \A b \in given : header[b] = Self \/ header[b] \in Records

LEMMA HeadersStep ==
  ASSUME MallocAssumption, TableCore, [Next]_vars PROVE HeadersFit' /\ HeadersKnown'
<1>0. /\ AllocatorShape /\ AllocatorShape' /\ BlocksKept /\ CallsApart /\ HeadersFit /\ CallsLeadHome /\ HeadersKnown
      /\ MaxSize \in Nat /\ -1 \notin Sizes /\ NoHeader \notin Records /\ Self # NoHeader /\ Self \notin Records
  BY ShapeStep DEF TableCore, Sizes, MallocAssumption, HeaderLeadsHome, HeadersKnown, NoHeader,
     Self, Records
<1>1. \A th \in Threads : ~At(th, "idle") => call[th].b \in Bases /\ heap[call[th].b] \in Sizes
  BY <1>0, CallHasBlock
\* A step of a call that works on b, at t afterwards.
<1>2. ASSUME NEW th \in Threads, NEW c \in Calls, Enter(th, c), NEW b \in Bases, NEW t \in Bases,
             \A u \in Threads \ {th} : ~At(u, "idle") => call[u].b # b /\ call[u].b # t,
             \A x \in Bases \ {b, t} : header'[x] = header[x] /\ heap'[x] = heap[x],
             \A x \in {b, t} : heap'[x] = -1 => header'[x] = NoHeader,
             \A x \in given' \ {b, t} : x \in given,
             \A x \in {b, t} : x \in given' => header'[x] = Self \/ header'[x] \in Records,
             c.pc # "idle" => c.b = t,
             c.pc = "record" => header'[t] = NoHeader,
             c.pc \in Working \ {"record"} => header'[t] \in Records
      PROVE  HeadersFit' /\ HeadersKnown'
  <2>1. /\ call'[th] = c /\ \A u \in Threads \ {th} : call'[u] = call[u]
    BY <1>0, <1>2, EnterIs
  <2>2. ASSUME NEW x \in Bases PROVE heap'[x] = -1 => header'[x] = NoHeader
    BY <1>0, <1>2 DEF HeadersFit
  <2>3. ASSUME NEW u \in Threads
        PROVE  /\ call'[u].pc = "record" => header'[call'[u].b] = NoHeader
               /\ call'[u].pc # "idle" /\ call'[u].pc # "record" => header'[call'[u].b] \in Records
    <3>1. CASE u = th
      <4>1. c.pc \in Working \cup {"idle"}
        BY <1>0, <2>1, <3>1 DEF Calls, Idle, Working
      <4> QED
        BY <1>2, <2>1, <3>1, <4>1 DEF Working
    <3>2. CASE u # th
      <4>1. call'[u] = call[u] /\ (call[u].pc # "idle" => call[u].b \in Bases /\ header'[call[u].b] = header[call[u].b])
        BY <1>1, <1>2, <2>1, <3>2 DEF At
      <4> QED
        BY <1>0, <4>1 DEF HeadersFit, At
    <3> QED
      BY <3>1, <3>2
  <2>4. ASSUME NEW x \in given' PROVE header'[x] = Self \/ header'[x] \in Records
    BY <1>0, <1>2 DEF HeadersKnown, AllocatorShape
  <2> QED
    BY <2>2, <2>3, <2>4 DEF HeadersFit, HeadersKnown, At
<1>3. ASSUME NEW th \in Threads, NEW n \in Sizes, Malloc(th, n) PROVE HeadersFit' /\ HeadersKnown'
  <2>1. PICK b \in Bases : /\ heap[b] = -1 /\ heap' = [heap EXCEPT ![b] = n]
                           /\ Enter(th, [pc |-> "record", b |-> b, mem |-> tracker])
    BY <1>3 DEF Malloc
  <2>2. [pc |-> "record", b |-> b, mem |-> tracker] \in Calls
    BY <1>0 DEF Calls, AllocatorShape
  <2>3. given' = given /\ header' = header /\ header[b] = NoHeader /\ n # -1
    BY <1>0, <1>3, <2>1 DEF Malloc, HeadersFit
  <2>4. heap'[b] = n /\ \A x \in Bases \ {b} : heap'[x] = heap[x]
    BY <1>0, <2>1 DEF AllocatorShape
  <2>5. \A u \in Threads : ~At(u, "idle") => call[u].b # b
    BY <1>0, <1>1, <2>1
  <2>6. b \notin given
    BY <1>0, <2>1 DEF BlocksKept
  <2> QED
    BY <1>2, <2>1, <2>2, <2>3, <2>4, <2>5, <2>6 DEF Working
<1>4. ASSUME NEW th \in Threads, NEW n \in 0..(MaxSize - 1), Duplicate(th, n)
      PROVE HeadersFit' /\ HeadersKnown'
  <2>1. n + 1 \in Sizes /\ Malloc(th, n + 1)
    BY <1>0, <1>4 DEF Duplicate, Sizes
  <2> QED
    BY <1>3, <2>1
\* A step of a call that stays with its block.
<1>5. ASSUME NEW th \in Threads, ~At(th, "idle")
      PROVE  /\ call[th].b \in Bases /\ heap[call[th].b] \in Sizes /\ call[th].b \notin given
             /\ \A u \in Threads \ {th} : ~At(u, "idle") => call[u].b # call[th].b
             /\ Idle \in Calls
  BY <1>0, <1>1, <1>5 DEF CallsApart, Calls
<1>6. ASSUME NEW th \in Threads, Record(th) PROVE HeadersFit' /\ HeadersKnown'
  <2> DEFINE b == call[th].b
  <2>1. ~At(th, "idle") /\ Enter(th, Idle) /\ heap' = heap /\ given' = given \cup {b}
    BY <1>6 DEF Record, At, Return
  <2>2. b \in Bases /\ heap[b] \in Sizes /\ \A u \in Threads \ {th} : ~At(u, "idle") => call[u].b # b
    BY <1>5, <2>1
  <2>3. header' = [header EXCEPT ![b] = Self] \/ (header' = [header EXCEPT ![b] = PickRecord] /\ PickRecord \in Records)
    BY <1>6, PickIs DEF Record, Add, Untrack, TableCore
  <2>4. (header'[b] = Self \/ header'[b] \in Records) /\ \A x \in Bases \ {b} : header'[x] = header[x]
    BY <1>0, <2>2, <2>3 DEF AllocatorShape
  <2> QED
    BY <1>0, <1>2, <1>5, <2>1, <2>2, <2>4 DEF Idle, Working
<1>7. ASSUME NEW th \in Threads, NEW b \in Bases, Free(th, b) PROVE HeadersFit' /\ HeadersKnown'
  <2>1. /\ b \in given /\ given' = given \ {b}
        /\ \A u \in Threads : ~At(u, "idle") => call[u].b # b
    BY <1>0, <1>7 DEF Free, CallsApart
  <2>2. CASE Release(b) /\ UNCHANGED call
    <3>1. header'[b] = NoHeader /\ \A x \in Bases \ {b} : header'[x] = header[x] /\ heap'[x] = heap[x]
      BY <1>0, <2>2 DEF Release, AllocatorShape
    <3>2. \A x \in Bases : heap'[x] = -1 => header'[x] = NoHeader
      BY <1>0, <3>1 DEF HeadersFit
    <3>3. \A u \in Threads : ~At(u, "idle") => header'[call[u].b] = header[call[u].b]
      BY <1>1, <2>1, <3>1
    <3>4. HeadersKnown'
      BY <1>0, <2>1, <3>1 DEF HeadersKnown, AllocatorShape
    <3>5. ASSUME NEW u \in Threads
          PROVE  /\ call'[u].pc = "record" => header'[call'[u].b] = NoHeader
                 /\ call'[u].pc # "idle" /\ call'[u].pc # "record" => header'[call'[u].b] \in Records
      BY <1>0, <2>2, <3>3 DEF HeadersFit, At
    <3> QED
      BY <3>2, <3>4, <3>5 DEF HeadersFit, At
  <2>3. CASE header[b] \in Records /\ UNCHANGED cheap /\ Enter(th, [pc |-> "release", b |-> b, mem |-> tracker])
    <3>1. [pc |-> "release", b |-> b, mem |-> tracker] \in Calls /\ heap' = heap /\ header' = header
      BY <1>0, <2>3 DEF Calls, AllocatorShape, cheap
    <3>2. heap[b] = -1 => header[b] = NoHeader
      BY <1>0 DEF HeadersFit
    <3> QED
      BY <1>0, <1>2, <2>1, <2>3, <3>1, <3>2
  <2> QED
    BY <1>7, <2>2, <2>3 DEF Free
<1>8. ASSUME NEW th \in Threads, MemRelease(th) PROVE HeadersFit' /\ HeadersKnown'
  <2> DEFINE b == call[th].b
  <2>1. ~At(th, "idle") /\ UNCHANGED <<heap, header, given>> /\ header[b] \in Records
    BY <1>0, <1>8 DEF MemRelease, At, HeadersFit, cheap
  <2>2. b \in Bases /\ heap[b] \in Sizes /\ b \notin given /\ \A u \in Threads \ {th} : ~At(u, "idle") => call[u].b # b
    BY <1>5, <2>1
  <2>3. Enter(th, [pc |-> "cfree", b |-> b])
    BY <1>0, <1>8 DEF MemRelease, CallsLeadHome, Tracked, At
  <2>4. [pc |-> "cfree", b |-> b] \in Calls
    BY <2>2 DEF Calls
  <2> QED
    BY <1>0, <1>2, <2>1, <2>2, <2>3, <2>4 DEF Working
<1>9. ASSUME NEW th \in Threads, CFree(th) PROVE HeadersFit' /\ HeadersKnown'
  <2> DEFINE b == call[th].b
  <2>1. ~At(th, "idle") /\ Enter(th, Idle) /\ given' = given /\ Release(b)
    BY <1>9 DEF CFree, At, Return
  <2>2. b \in Bases /\ b \notin given /\ \A u \in Threads \ {th} : ~At(u, "idle") => call[u].b # b
    BY <1>5, <2>1
  <2>3. header'[b] = NoHeader /\ \A x \in Bases \ {b} : header'[x] = header[x] /\ heap'[x] = heap[x]
    BY <1>0, <2>1, <2>2 DEF Release, AllocatorShape
  <2> QED
    BY <1>2, <1>5, <2>1, <2>2, <2>3 DEF Idle, Working
<1>10. ASSUME NEW th \in Threads, NEW b \in Bases, StrayFree(th, b)
       PROVE HeadersFit' /\ HeadersKnown'
  BY <1>0, <1>10 DEF StrayFree, HeadersFit, HeadersKnown, At, cheap
<1>11. ASSUME NEW th \in Threads, NEW b \in Bases, NEW n \in Sizes, Realloc(th, b, n)
       PROVE HeadersFit' /\ HeadersKnown'
  <2>1. b \in given /\ \A u \in Threads : ~At(u, "idle") => call[u].b # b
    BY <1>0, <1>11 DEF Realloc, CallsApart
  <2>2. CASE header[b] = Self /\ UNCHANGED call
    <3>1. PICK t \in Targets(b) : Move(b, t, n, Self) /\ given' = (given \ {b}) \cup {t}
      BY <1>0, <1>11, <2>2 DEF Realloc
    <3>2. t \in Bases /\ (t = b \/ heap[t] = -1) /\ n # -1
      BY <1>0 DEF Targets
    <3>3. \A u \in Threads : ~At(u, "idle") => call[u].b # b /\ call[u].b # t
      BY <1>0, <1>1, <2>1, <3>2
    <3>4. \A x \in Bases : /\ heap'[x] = IF x = t THEN n ELSE IF x = b THEN -1 ELSE heap[x]
                           /\ header'[x] = IF x = t THEN Self ELSE IF x = b THEN NoHeader ELSE header[x]
      BY <3>1 DEF Move
    <3>5. \A x \in Bases : heap'[x] = -1 => header'[x] = NoHeader
      BY <1>0, <3>2, <3>4 DEF HeadersFit
    <3>6. \A u \in Threads : ~At(u, "idle") => header'[call[u].b] = header[call[u].b]
      BY <1>1, <3>3, <3>4
    <3>7. HeadersKnown'
      BY <1>0, <3>1, <3>2, <3>4 DEF HeadersKnown, AllocatorShape
    <3>8. ASSUME NEW u \in Threads
          PROVE  /\ call'[u].pc = "record" => header'[call'[u].b] = NoHeader
                 /\ call'[u].pc # "idle" /\ call'[u].pc # "record" => header'[call'[u].b] \in Records
      BY <1>0, <2>2, <3>6 DEF HeadersFit, At
    <3> QED
      BY <3>5, <3>7, <3>8 DEF HeadersFit, At
  <2>3. CASE header[b] \in Records /\ UNCHANGED <<cheap, released>>
             /\ given' = given \ {b} /\ Enter(th, [pc |-> "check", b |-> b, n |-> n, mem |-> tracker])
    <3>1. [pc |-> "check", b |-> b, n |-> n, mem |-> tracker] \in Calls /\ heap' = heap /\ header' = header
      BY <1>0, <2>3 DEF Calls, AllocatorShape, cheap
    <3>2. heap[b] = -1 => header[b] = NoHeader
      BY <1>0 DEF HeadersFit
    <3> QED
      BY <1>0, <1>2, <2>1, <2>3, <3>1, <3>2
  <2> QED
    BY <1>11, <2>2, <2>3 DEF Realloc
<1>12. ASSUME NEW th \in Threads, MemCheck(th) PROVE HeadersFit' /\ HeadersKnown'
  <2> DEFINE b == call[th].b
  <2>1. call[th] \in [pc : {"check", "crealloc"}, b : Bases, n : Sizes, mem : BOOLEAN] /\ ~At(th, "idle")
        /\ UNCHANGED <<heap, header>> /\ header[b] \in Records
    BY <1>0, <1>12, CallIs DEF MemCheck, At, Calls, Idle, cheap, HeadersFit
  <2>2. b \in Bases /\ heap[b] \in Sizes /\ b \notin given /\ \A u \in Threads \ {th} : ~At(u, "idle") => call[u].b # b
    BY <1>5, <2>1
  <2>3. CASE Enter(th, [call[th] EXCEPT !.pc = "crealloc"]) /\ UNCHANGED given
    <3>1. [call[th] EXCEPT !.pc = "crealloc"] \in Calls /\ [call[th] EXCEPT !.pc = "crealloc"].b = call[th].b
          /\ [call[th] EXCEPT !.pc = "crealloc"].pc # "idle" /\ [call[th] EXCEPT !.pc = "crealloc"].pc # "record"
      BY <2>1 DEF Calls
    <3> QED
      BY <1>0, <1>2, <2>1, <2>2, <2>3, <3>1
  <2>4. CASE Enter(th, Idle) /\ given' = given \cup {b}
    BY <1>0, <1>2, <1>5, <2>1, <2>2, <2>4 DEF Idle, Working
  <2> QED
    BY <1>12, <2>3, <2>4 DEF MemCheck, Return
<1>13. ASSUME NEW th \in Threads, CRealloc(th) PROVE HeadersFit' /\ HeadersKnown'
  <2> DEFINE c == call[th]
  <2>1. /\ c.n \in Sizes /\ c.mem \in BOOLEAN /\ ~At(th, "idle") /\ header[c.b] \in Records
    BY <1>0, <1>13, CallIs DEF CRealloc, At, Working, HeadersFit
  <2>2. c.b \in Bases /\ heap[c.b] \in Sizes /\ c.b \notin given /\ \A u \in Threads \ {th} : ~At(u, "idle") => call[u].b # c.b
    BY <1>5, <2>1
  <2>3. CASE \E t \in Targets(c.b) : /\ Move(c.b, t, c.n, header[c.b])
                                    /\ Enter(th, [pc |-> "rerecord", b |-> t, old |-> c.b, mem |-> tracker])
                                    /\ UNCHANGED given
    <3>1. PICK t \in Targets(c.b) : /\ Move(c.b, t, c.n, header[c.b])
                                    /\ Enter(th, [pc |-> "rerecord", b |-> t, old |-> c.b, mem |-> tracker])
                                    /\ UNCHANGED given
      BY <2>3
    <3>2. t \in Bases /\ (t = c.b \/ heap[t] = -1) /\ c.n # -1
          /\ [pc |-> "rerecord", b |-> t, old |-> c.b, mem |-> tracker] \in Calls
      BY <1>0, <2>1, <2>2 DEF Targets, Calls, AllocatorShape
    <3>3. t \notin given /\ \A u \in Threads \ {th} : ~At(u, "idle") => call[u].b # c.b /\ call[u].b # t
      BY <1>0, <1>1, <2>2, <3>2 DEF BlocksKept
    <3>4. \A x \in Bases : /\ heap'[x] = IF x = t THEN c.n ELSE IF x = c.b THEN -1 ELSE heap[x]
                           /\ header'[x] = IF x = t THEN header[c.b] ELSE IF x = c.b THEN NoHeader ELSE header[x]
      BY <3>1 DEF Move
    <3> HIDE DEF c
    <3> QED
      BY <1>2, <2>1, <2>2, <3>1, <3>2, <3>3, <3>4
  <2>4. CASE Enter(th, Idle) /\ given' = given \cup {c.b} /\ UNCHANGED cheap
    <3>1. heap' = heap /\ header' = header
      BY <2>4 DEF cheap
    <3> QED
      BY <1>0, <1>2, <1>5, <2>1, <2>2, <2>4, <3>1 DEF Idle, Working
  <2> QED
    BY <1>13, <2>3, <2>4 DEF CRealloc, Return
<1>14. ASSUME NEW th \in Threads, ReRecord(th) PROVE HeadersFit' /\ HeadersKnown'
  <2> DEFINE b == call[th].b
  <2>1. ~At(th, "idle") /\ Enter(th, Idle) /\ heap' = heap /\ given' = given \cup {b} /\ header[b] \in Records
    BY <1>0, <1>14 DEF ReRecord, At, Return, HeadersFit
  <2>2. b \in Bases /\ heap[b] \in Sizes /\ \A u \in Threads \ {th} : ~At(u, "idle") => call[u].b # b
    BY <1>5, <2>1
  <2>3. header' = [header EXCEPT ![b] = Self] \/ header' = [header EXCEPT ![b] = header[b]]
    BY <1>14 DEF ReRecord, Add, Untrack
  <2>4. (header'[b] = Self \/ header'[b] \in Records) /\ \A x \in Bases \ {b} : header'[x] = header[x]
    BY <1>0, <2>1, <2>2, <2>3 DEF AllocatorShape
  <2> QED
    BY <1>0, <1>2, <1>5, <2>1, <2>2, <2>4 DEF Idle, Working
<1>15. ASSUME MemInit \/ MemDisable \/ UNCHANGED vars PROVE HeadersFit' /\ HeadersKnown'
  <2>1. UNCHANGED <<heap, header, call, given>>
    BY <1>15 DEF MemInit, MemDisable, vars, cheap
  <2> QED
    BY <1>0, <2>1 DEF HeadersFit, HeadersKnown, At
<1> QED
  BY <1>0, <1>3, <1>4, <1>6, <1>7, <1>8, <1>9, <1>10, <1>11, <1>12, <1>13, <1>14, <1>15 DEF Next

\* A step on the blocks b and t leaves the records of the others alone, and those of b and t
\* lead home again: so do all.
LEMMA LeadFrame ==
  ASSUME AllocatorShape, AllocatorShape', HeadersKnown', CallsApart', tracker = TRUE,
         HeaderLeadsHome, CallsLeadHome, RecordsApart,
         NEW th \in Threads, NEW b \in Bases, NEW t \in Bases,
         \A u \in Threads \ {th} : call'[u] = call[u] /\ (~At(u, "idle") => call[u].b # b /\ call[u].b # t),
         \A x \in Bases \ {b, t} : header'[x] = header[x] /\ heap'[x] = heap[x] /\ (x \in given' => x \in given),
         \A x \in Holders \ {b, t} : header[x] \in Records => data'[header[x]] = data[header[x]],
         \A u \in Threads \ {th} : At(u, "cfree") =>
            ~(data'[header[call[u].b]].used /\ data'[header[call[u].b]].ptr = call[u].b),
         call'[th].pc # "idle" => call'[th].b \in {b, t},
         \A x \in {b, t} : x \in given' => \/ header'[x] = Self
                                           \/ /\ header'[x] \in Records /\ data'[header'[x]].used
                                              /\ data'[header'[x]].ptr = x /\ data'[header'[x]].size = heap'[x],
         call'[th].pc \in {"release", "check", "crealloc"} =>
            /\ data'[header'[call'[th].b]].used /\ data'[header'[call'[th].b]].ptr = call'[th].b
            /\ data'[header'[call'[th].b]].size = heap'[call'[th].b],
         call'[th].pc = "rerecord" =>
            data'[header'[call'[th].b]].used /\ data'[header'[call'[th].b]].ptr = call'[th].old,
         call'[th].pc = "cfree" =>
            ~(data'[header'[call'[th].b]].used /\ data'[header'[call'[th].b]].ptr = call'[th].b),
         \A x \in {b, t} : x \in Holders' /\ header'[x] \in Records => \A y \in Holders \ {b, t} : header[y] # header'[x],
         b \in Holders' /\ t \in Holders' => b = t,
         HeadersFit
  PROVE  HeaderLeadsHome' /\ CallsLeadHome' /\ RecordsApart'
<1>1. \A u \in Threads \ {th} : call[u].pc # "idle" => call[u].b \in Bases \ {b, t}
  BY CallIs DEF At, Working
<1>2. ASSUME NEW x \in Holders', x \notin {b, t} PROVE x \in Holders \ {b, t} /\ x \in Bases
  <2>1. CASE x \in given'
    BY <1>2, <2>1 DEF Holders, AllocatorShape
  <2>2. CASE x \notin given'
    <3>1. PICK u \in Threads : call'[u].pc \in {"release", "check", "crealloc", "rerecord"} /\ x = call'[u].b
      BY <1>2, <2>2 DEF Holders
    <3>2. u # th /\ call'[u] = call[u]
      BY <1>2, <3>1
    <3> QED
      BY <1>1, <1>2, <3>1, <3>2 DEF Holders
  <2> QED
    BY <2>1, <2>2
<1>3. HeaderLeadsHome'
  <2>1. ASSUME NEW x \in given'
        PROVE  \/ header'[x] = Self
               \/ /\ header'[x] \in Records
                  /\ tracker' => /\ data'[header'[x]].used /\ data'[header'[x]].ptr = x
                                 /\ data'[header'[x]].size = heap'[x]
    <3>1. CASE x \in {b, t}
      BY <3>1
    <3>2. CASE x \notin {b, t}
      <4>1. x \in given /\ x \in Holders \ {b, t} /\ header'[x] = header[x] /\ heap'[x] = heap[x]
        BY <3>2 DEF Holders, AllocatorShape
      <4> QED
        BY <4>1 DEF HeaderLeadsHome, OwnRecord
    <3> QED
      BY <3>1, <3>2
  <2> QED
    BY <2>1 DEF HeaderLeadsHome, OwnRecord
<1>4. CallsLeadHome'
  <2>1. ASSUME NEW u \in Threads
        PROVE  /\ call'[u].pc \in {"release", "check", "crealloc"} =>
                    /\ data'[header'[call'[u].b]].used /\ data'[header'[call'[u].b]].ptr = call'[u].b
                    /\ data'[header'[call'[u].b]].size = heap'[call'[u].b]
               /\ call'[u].pc = "rerecord" =>
                    data'[header'[call'[u].b]].used /\ data'[header'[call'[u].b]].ptr = call'[u].old
               /\ call'[u].pc = "cfree" =>
                    ~(data'[header'[call'[u].b]].used /\ data'[header'[call'[u].b]].ptr = call'[u].b)
    <3>1. CASE u = th
      BY <3>1
    <3>2. CASE u # th
      <4>1. call'[u] = call[u]
        BY <3>2
      <4>2. call[u].pc # "idle" => /\ call[u].b \in Bases \ {b, t} /\ header'[call[u].b] = header[call[u].b]
                                   /\ heap'[call[u].b] = heap[call[u].b]
        BY <1>1, <3>2
      <4>3. call[u].pc \in {"release", "check", "crealloc", "rerecord"} =>
               /\ header[call[u].b] \in Records
               /\ data'[header[call[u].b]] = data[header[call[u].b]]
        <5>1. call[u].pc \in {"release", "check", "crealloc", "rerecord"} => call[u].b \in Holders \ {b, t}
          BY <4>2 DEF Holders
        <5> QED
          BY <5>1 DEF HeadersFit, At
      <4>4. call[u].pc = "cfree" => ~(data'[header[call[u].b]].used /\ data'[header[call[u].b]].ptr = call[u].b)
        BY <3>2 DEF At
      <4> QED
        BY <4>1, <4>2, <4>3, <4>4 DEF CallsLeadHome, OwnRecord, At
    <3> QED
      BY <3>1, <3>2
  <2> QED
    BY <2>1 DEF CallsLeadHome, OwnRecord, At
<1>5. RecordsApart'
  <2>1. ASSUME NEW x \in Holders', NEW y \in Holders', header'[x] \in Records,
               header'[x] = header'[y]
        PROVE x = y
    <3>1. CASE x \notin {b, t} /\ y \notin {b, t}
      BY <1>2, <2>1, <3>1 DEF RecordsApart
    <3>2. CASE x \in {b, t} /\ y \notin {b, t}
      BY <1>2, <2>1, <3>2
    <3>3. CASE x \notin {b, t} /\ y \in {b, t}
      BY <1>2, <2>1, <3>3
    <3>4. CASE x \in {b, t} /\ y \in {b, t}
      BY <3>4
    <3> QED
      BY <3>1, <3>2, <3>3, <3>4
  <2> QED
    BY <2>1 DEF RecordsApart
<1> QED
  BY <1>3, <1>4, <1>5

\* Only otelc_dbg_mem_init and otelc_dbg_mem_disable move the tracker.
LEMMA TrackerStays == ASSUME [Next]_vars, ~MemInit, ~MemDisable PROVE tracker' = tracker
<1>1. ASSUME NEW th \in Threads, NEW n \in Sizes, Malloc(th, n) PROVE tracker' = tracker
  BY <1>1 DEF Malloc
<1>2. ASSUME NEW th \in Threads, NEW n \in 0..(MaxSize - 1), Duplicate(th, n)
      PROVE tracker' = tracker
  BY <1>2 DEF Duplicate, Malloc
<1>3. ASSUME NEW th \in Threads, NEW b \in Bases, Free(th, b) \/ StrayFree(th, b)
      PROVE tracker' = tracker
  BY <1>3 DEF Free, StrayFree
<1>4. ASSUME NEW th \in Threads, NEW b \in Bases, NEW n \in Sizes, Realloc(th, b, n)
      PROVE tracker' = tracker
  BY <1>4 DEF Realloc
<1>5. ASSUME NEW th \in Threads, \/ Record(th) \/ MemRelease(th) \/ CFree(th) \/ MemCheck(th) \/ CRealloc(th) \/ ReRecord(th)
      PROVE tracker' = tracker
  BY <1>5 DEF Record, MemRelease, CFree, MemCheck, CRealloc, ReRecord
<1>6. ASSUME UNCHANGED vars PROVE tracker' = tracker
  BY <1>6 DEF vars
<1> QED
  BY <1>1, <1>2, <1>3, <1>4, <1>5, <1>6 DEF Next

\* The headers lead home.
LEMMA LeadStep ==
  ASSUME MallocAssumption, TableCore, [Next]_vars
    PROVE HeaderLeadsHome' /\ CallsLeadHome' /\ RecordsApart'
<1>0. /\ AllocatorShape /\ AllocatorShape' /\ BlocksKept /\ CallsApart /\ CallsApart' /\ HeadersFit /\ HeadersKnown'
      /\ HeaderLeadsHome /\ CallsLeadHome /\ RecordsApart /\ FreshRecords
      /\ MaxSize \in Nat /\ -1 \notin Sizes /\ NoHeader \notin Records /\ Self # NoHeader /\ Self \notin Records
      /\ assigned \in 0..Count /\ reused \in 0..(Count - 1)
  BY ShapeStep, ApartStep, HeadersStep DEF TableCore, Sizes, MallocAssumption, NoHeader, Self,
     Records
<1>1. CASE tracker' = FALSE
  <2>1. HeaderLeadsHome'
    BY <1>0, <1>1 DEF HeaderLeadsHome, HeadersKnown
  <2>2. CallsLeadHome' /\ RecordsApart'
    BY <1>1 DEF CallsLeadHome, RecordsApart
  <2> QED
    BY <2>1, <2>2
<1>2. CASE MemInit
  <2>1. /\ \A th \in Threads : call'[th].pc = "idle"
        /\ \A b \in given' : header'[b] = Self
    BY <1>2 DEF MemInit, Quiet, At, cheap
  <2>2. HeaderLeadsHome'
    BY <2>1 DEF HeaderLeadsHome
  <2>3. CallsLeadHome'
    BY <2>1 DEF CallsLeadHome, At
  <2>4. Holders' = given'
    BY <2>1 DEF Holders
  <2>5. RecordsApart'
    BY <1>0, <2>1, <2>4 DEF RecordsApart
  <2> QED
    BY <2>2, <2>3, <2>5
<1>3. CASE tracker' # FALSE /\ ~MemInit
  <2>1. tracker = TRUE /\ tracker' = TRUE
    <3>1. ~MemDisable
      BY <1>3 DEF MemDisable
    <3> QED
      BY <1>0, <1>3, <3>1, TrackerStays DEF AllocatorShape
  \* What the callers' and the calls' blocks are.
  <2>2. ASSUME NEW th \in Threads, ~At(th, "idle")
        PROVE  /\ call[th].b \in Bases /\ heap[call[th].b] \in Sizes /\ call[th].b \notin given
               /\ \A u \in Threads \ {th} : ~At(u, "idle") => call[u].b # call[th].b
               /\ Idle \in Calls
               /\ ~At(th, "cfree") => call[th].mem /\ Tracked(th)
    BY <1>0, <2>1, <2>2, CallHasBlock DEF CallsApart, Calls, Tracked
  <2>3. \A x \in Holders : x \in Bases /\ (header[x] \in Records => data[header[x]].used)
    <3>1. ASSUME NEW x \in Holders, x \notin given
          PROVE x \in Bases /\ (header[x] \in Records => data[header[x]].used)
      <4>1. PICK u \in Threads : x = call[u].b /\ call[u].pc \in {"release", "check", "crealloc", "rerecord"}
        BY <3>1 DEF Holders
      <4> QED
        BY <1>0, <2>1, <2>2, <4>1 DEF CallsLeadHome, OwnRecord, At
    <3>2. ASSUME NEW x \in given
          PROVE x \in Bases /\ (header[x] \in Records => data[header[x]].used)
      BY <1>0, <2>1 DEF HeaderLeadsHome, OwnRecord, AllocatorShape
    <3> QED
      BY <3>1, <3>2
  <2>4. \A u \in Threads : At(u, "cfree") => ~(data[header[call[u].b]].used /\ data[header[call[u].b]].ptr = call[u].b)
    BY <1>0, <2>1 DEF CallsLeadHome, OwnRecord
  <2>5. ASSUME NEW th \in Threads, call[th].pc \in {"release", "check", "crealloc", "rerecord"}
        PROVE  call[th].b \in Holders /\ header[call[th].b] \in Records
    BY <1>0, <2>5 DEF Holders, HeadersFit, At
  <2>6. ASSUME NEW th \in Threads, NEW n \in Sizes, Malloc(th, n)
        PROVE HeaderLeadsHome' /\ CallsLeadHome' /\ RecordsApart'
    <3>1. PICK b \in Bases : /\ heap[b] = -1 /\ heap' = [heap EXCEPT ![b] = n]
                             /\ Enter(th, [pc |-> "record", b |-> b, mem |-> tracker])
      BY <2>6 DEF Malloc
    <3>2. [pc |-> "record", b |-> b, mem |-> tracker] \in Calls
      BY <1>0 DEF Calls, AllocatorShape
    <3>3. call'[th] = [pc |-> "record", b |-> b, mem |-> tracker] /\ \A u \in Threads \ {th} : call'[u] = call[u]
      BY <1>0, <3>1, <3>2, EnterIs
    <3>4. given' = given /\ header' = header /\ data' = data
      BY <2>6 DEF Malloc, table
    <3>5. \A x \in Bases \ {b} : heap'[x] = heap[x]
      BY <1>0, <3>1 DEF AllocatorShape
    <3>6. (\A u \in Threads : ~At(u, "idle") => call[u].b # b) /\ b \notin given
      BY <1>0, <2>2, <3>1 DEF BlocksKept
    <3>7. b \notin Holders'
      <4>1. \A u \in Threads : call'[u].pc \in {"release", "check", "crealloc", "rerecord"} => u # th
        BY <3>3
      <4>2. \A u \in Threads : call'[u].pc \in {"release", "check", "crealloc", "rerecord"} => call'[u].b # b
        BY <3>3, <3>6, <4>1 DEF At
      <4> QED
        BY <3>4, <3>6, <4>2 DEF Holders
    <3> QED
      BY <1>0, <2>1, <2>4, <3>3, <3>4, <3>5, <3>6, <3>7, LeadFrame
  <2>7. ASSUME NEW th \in Threads, NEW n \in 0..(MaxSize - 1), Duplicate(th, n)
        PROVE HeaderLeadsHome' /\ CallsLeadHome' /\ RecordsApart'
    <3>1. n + 1 \in Sizes /\ Malloc(th, n + 1)
      BY <1>0, <2>7 DEF Duplicate, Sizes
    <3> QED
      BY <2>6, <3>1
  <2>8. ASSUME NEW th \in Threads, Record(th)
        PROVE HeaderLeadsHome' /\ CallsLeadHome' /\ RecordsApart'
    <3> DEFINE b == call[th].b
               k == PickRecord
    <3>1. ~At(th, "idle") /\ Enter(th, Idle) /\ heap' = heap /\ given' = given \cup {b}
      BY <2>8 DEF Record, At, Return
    <3>2. b \in Bases /\ heap[b] \in Sizes /\ b \notin given /\ Idle \in Calls
          /\ \A u \in Threads \ {th} : ~At(u, "idle") => call[u].b # b
      BY <2>2, <3>1
    <3>3. call'[th] = Idle /\ \A u \in Threads \ {th} : call'[u] = call[u]
      BY <1>0, <3>1, <3>2, EnterIs
    <3>4. call'[th].pc = "idle"
      BY <3>3 DEF Idle
    <3>5. CASE k # 0 /\ Add(b, heap[b], k, "alloc")
      <4>1. k \in Records /\ ~data[k].used
        BY <1>0, <3>5, PickIs
      <4>2. header'[b] = k /\ \A x \in Bases \ {b} : header'[x] = header[x]
        BY <1>0, <3>2, <3>5 DEF Add, AllocatorShape
      <4>3. data'[k] = [ptr |-> b, size |-> heap[b], used |-> TRUE] /\ \A j \in Records \ {k} : data'[j] = data[j]
        BY <1>0, <3>5, <4>1 DEF Add, AllocatorShape
      <4>4. data'[k].ptr = b /\ data'[k].size = heap[b] /\ data'[k].used
        BY <4>3
      <4>5. \A x \in Holders : header[x] \in Records => header[x] # k /\ data'[header[x]] = data[header[x]]
        BY <2>3, <4>1, <4>3
      <4>6. ASSUME NEW u \in Threads \ {th}, At(u, "cfree")
            PROVE  ~(data'[header[call[u].b]].used /\ data'[header[call[u].b]].ptr = call[u].b)
        <5>1. header[call[u].b] \in Records /\ call[u].b # b
          BY <1>0, <3>2, <4>6 DEF HeadersFit, At
        <5>2. CASE header[call[u].b] = k
          BY <4>4, <5>1, <5>2
        <5>3. CASE header[call[u].b] # k
          BY <2>4, <4>3, <4>6, <5>1, <5>3
        <5> QED
          BY <5>2, <5>3
      <4>7. \A y \in Holders \ {b} : header[y] # header'[b]
        BY <4>1, <4>2, <4>5
      <4> HIDE DEF k, b
      <4> QED
        BY <1>0, <2>1, <3>1, <3>2, <3>3, <3>4, <4>1, <4>2, <4>4, <4>5, <4>6, <4>7, LeadFrame
    <3>6. CASE Untrack(b) /\ UNCHANGED table
      <4>1. header'[b] = Self /\ (\A x \in Bases \ {b} : header'[x] = header[x]) /\ data' = data
        BY <1>0, <3>2, <3>6 DEF Untrack, table, AllocatorShape
      <4> HIDE DEF k, b
      <4> QED
        BY <1>0, <2>1, <2>4, <3>1, <3>2, <3>3, <3>4, <4>1, LeadFrame
    <3> QED
      BY <2>8, <3>5, <3>6 DEF Record
  <2>9. ASSUME NEW th \in Threads, NEW b \in Bases, Free(th, b)
        PROVE HeaderLeadsHome' /\ CallsLeadHome' /\ RecordsApart'
    <3>1. /\ b \in given /\ given' = given \ {b} /\ data' = data
          /\ \A u \in Threads : ~At(u, "idle") => call[u].b # b
      BY <1>0, <2>9 DEF Free, CallsApart, table
    <3>2. b \in Holders /\ (header[b] \in Records => data[header[b]].used /\ data[header[b]].ptr = b /\ data[header[b]].size = heap[b])
      BY <1>0, <2>1, <3>1 DEF Holders, HeaderLeadsHome, OwnRecord
    <3>3. CASE header[b] = Self /\ Release(b) /\ UNCHANGED call
      <4>1. \A x \in Bases \ {b} : header'[x] = header[x] /\ heap'[x] = heap[x]
        BY <1>0, <3>3 DEF Release, AllocatorShape
      <4>2. b \notin Holders'
        <5>1. \A u \in Threads : call[u].pc \in {"release", "check", "crealloc", "rerecord"} => call[u].b # b
          BY <3>1 DEF At
        <5> QED
          BY <3>1, <3>3, <5>1 DEF Holders
      <4>3. call'[th].pc = "idle" /\ call' = call
        BY <2>9, <3>3 DEF Free, At
      <4> QED
        BY <1>0, <2>1, <2>4, <3>1, <4>1, <4>2, <4>3, LeadFrame
    <3>4. CASE header[b] \in Records /\ UNCHANGED cheap /\ Enter(th, [pc |-> "release", b |-> b, mem |-> tracker])
      <4>1. [pc |-> "release", b |-> b, mem |-> tracker] \in Calls /\ heap' = heap /\ header' = header
        BY <1>0, <3>4 DEF Calls, AllocatorShape, cheap
      <4>2. call'[th] = [pc |-> "release", b |-> b, mem |-> tracker] /\ \A u \in Threads \ {th} : call'[u] = call[u]
        BY <1>0, <3>4, <4>1, EnterIs
      <4>3. \A y \in Holders \ {b} : header[y] # header[b]
        BY <1>0, <2>1, <3>2, <3>4 DEF RecordsApart
      <4>4. call'[th].pc = "release" /\ call'[th].b = b
        BY <4>2
      <4> QED
        BY <1>0, <2>1, <2>4, <3>1, <3>2, <3>4, <4>1, <4>2, <4>3, <4>4, LeadFrame
    <3> QED
      BY <2>9, <3>3, <3>4 DEF Free
  <2>10. ASSUME NEW th \in Threads, MemRelease(th)
         PROVE HeaderLeadsHome' /\ CallsLeadHome' /\ RecordsApart'
    <3> DEFINE b == call[th].b
               k == header[b]
    <3>1. ~At(th, "idle") /\ UNCHANGED <<heap, header, given>> /\ k \in Records /\ b \in Holders /\ OwnRecord(b)
      BY <1>0, <2>1, <2>5, <2>10 DEF MemRelease, At, cheap, CallsLeadHome
    <3>2. b \in Bases /\ b \notin given /\ \A u \in Threads \ {th} : ~At(u, "idle") => call[u].b # b
      BY <2>2, <3>1
    <3>3. Tracked(th)
      BY <2>2, <2>10, <3>1 DEF MemRelease, At
    <3>4. Enter(th, [pc |-> "cfree", b |-> b]) /\ data' = [data EXCEPT ![k].used = FALSE]
      BY <2>10, <3>1, <3>3 DEF MemRelease
    <3>5. [pc |-> "cfree", b |-> b] \in Calls
      BY <3>2 DEF Calls
    <3>6. call'[th] = [pc |-> "cfree", b |-> b] /\ \A u \in Threads \ {th} : call'[u] = call[u]
      BY <1>0, <3>4, <3>5, EnterIs
    <3>7. data'[k].used = FALSE /\ \A j \in Records \ {k} : data'[j] = data[j]
      BY <1>0, <3>1, <3>4 DEF AllocatorShape
    <3>8. \A x \in Holders \ {b} : header[x] \in Records => header[x] # k
      BY <1>0, <2>1, <3>1 DEF RecordsApart
    <3>9. ASSUME NEW u \in Threads \ {th}, At(u, "cfree")
          PROVE  ~(data'[header[call[u].b]].used /\ data'[header[call[u].b]].ptr = call[u].b)
      <4>1. header[call[u].b] \in Records
        BY <1>0, <3>9 DEF HeadersFit, At
      <4> QED
        BY <2>4, <3>7, <3>9, <4>1
    <3>10. b \notin Holders'
      <4>1. \A u \in Threads : call'[u].pc \in {"release", "check", "crealloc", "rerecord"} => call'[u].b # b
        BY <3>2, <3>6 DEF At
      <4> QED
        BY <3>1, <3>2, <4>1 DEF Holders
    <3>11. call'[th].pc = "cfree" /\ call'[th].b = b
      BY <3>6
    <3>12. header' = header /\ heap' = heap /\ given' = given
      BY <3>1
    <3>13. \A x \in Holders \ {b} : header[x] \in Records => data'[header[x]] = data[header[x]]
      BY <3>7, <3>8
    <3> HIDE DEF b, k
    <3>14. k = header[b]
      BY DEF k
    <3> QED
      BY <1>0, <2>1, <3>2, <3>6, <3>7, <3>9, <3>10, <3>11, <3>12, <3>13, <3>14, LeadFrame
  <2>11. ASSUME NEW th \in Threads, CFree(th)
         PROVE HeaderLeadsHome' /\ CallsLeadHome' /\ RecordsApart'
    <3> DEFINE b == call[th].b
    <3>1. ~At(th, "idle") /\ Enter(th, Idle) /\ given' = given /\ Release(b) /\ data' = data
      BY <2>11 DEF CFree, At, Return, table
    <3>2. b \in Bases /\ b \notin given /\ Idle \in Calls /\ \A u \in Threads \ {th} : ~At(u, "idle") => call[u].b # b
      BY <2>2, <3>1
    <3>3. \A x \in Bases \ {b} : header'[x] = header[x] /\ heap'[x] = heap[x]
      BY <1>0, <3>1, <3>2 DEF Release, AllocatorShape
    <3>4. call'[th] = Idle /\ \A u \in Threads \ {th} : call'[u] = call[u]
      BY <1>0, <3>1, <3>2, EnterIs
    <3>5. call'[th].pc = "idle"
      BY <3>4 DEF Idle
    <3>6. b \notin Holders'
      <4>1. \A u \in Threads : call'[u].pc \in {"release", "check", "crealloc", "rerecord"} => u # th
        BY <3>5
      <4>2. \A u \in Threads : call'[u].pc \in {"release", "check", "crealloc", "rerecord"} => call'[u].b # b
        BY <3>2, <3>4, <4>1 DEF At
      <4> QED
        BY <3>1, <3>2, <4>2 DEF Holders
    <3>7. \A u \in Threads \ {th} : At(u, "cfree") =>
            ~(data'[header[call[u].b]].used /\ data'[header[call[u].b]].ptr = call[u].b)
      BY <2>4, <3>1
    <3>8. given' = given /\ \A x \in Holders : data'[header[x]] = data[header[x]]
      BY <3>1
    <3> HIDE DEF b
    <3> QED
      BY <1>0, <2>1, <3>2, <3>3, <3>4, <3>5, <3>6, <3>7, <3>8, LeadFrame
  <2>12. ASSUME NEW th \in Threads, NEW b \in Bases, StrayFree(th, b)
         PROVE HeaderLeadsHome' /\ CallsLeadHome' /\ RecordsApart'
    <3>1. UNCHANGED <<heap, header, data, call, given, tracker>>
      BY <2>12 DEF StrayFree, cheap, table
    <3>2. Holders' = Holders
      BY <3>1 DEF Holders
    <3> QED
      BY <1>0, <3>1, <3>2 DEF HeaderLeadsHome, CallsLeadHome, RecordsApart, OwnRecord, At
  <2>13. ASSUME NEW th \in Threads, NEW b \in Bases, NEW n \in Sizes, Realloc(th, b, n)
         PROVE HeaderLeadsHome' /\ CallsLeadHome' /\ RecordsApart'
    <3>1. /\ b \in given /\ data' = data /\ call[th].pc = "idle"
          /\ \A u \in Threads : ~At(u, "idle") => call[u].b # b
      BY <1>0, <2>13 DEF Realloc, CallsApart, table, At
    <3>2. b \in Holders /\ (header[b] \in Records => data[header[b]].used /\ data[header[b]].ptr = b /\ data[header[b]].size = heap[b])
      BY <1>0, <2>1, <3>1 DEF Holders, HeaderLeadsHome, OwnRecord
    <3>3. CASE header[b] = Self /\ UNCHANGED call
      <4>1. PICK t \in Targets(b) : Move(b, t, n, Self) /\ given' = (given \ {b}) \cup {t}
        BY <1>0, <2>13, <3>3 DEF Realloc
      <4>2. t \in Bases /\ (t = b \/ heap[t] = -1)
        BY <1>0 DEF Targets
      <4>3. \A u \in Threads : ~At(u, "idle") => call[u].b # b /\ call[u].b # t
        BY <1>0, <2>2, <3>1, <4>2
      <4>4. \A x \in Bases : /\ heap'[x] = IF x = t THEN n ELSE IF x = b THEN -1 ELSE heap[x]
                             /\ header'[x] = IF x = t THEN Self ELSE IF x = b THEN NoHeader ELSE header[x]
        BY <4>1 DEF Move
      <4>5. b # t => b \notin Holders'
        <5>1. \A u \in Threads : call[u].pc \in {"release", "check", "crealloc", "rerecord"} => call[u].b # b
          BY <3>1 DEF At
        <5> QED
          BY <3>3, <4>1, <5>1 DEF Holders
      <4>6. /\ call' = call
            /\ \A x \in Bases \ {b, t} : header'[x] = header[x] /\ heap'[x] = heap[x] /\ (x \in given' => x \in given)
            /\ \A x \in {b, t} : header'[x] \notin Records
            /\ \A x \in {b, t} : x \in given' => header'[x] = Self
        BY <1>0, <3>3, <4>1, <4>2, <4>4
      <4>7. \A u \in Threads \ {th} : At(u, "cfree") =>
              ~(data'[header[call[u].b]].used /\ data'[header[call[u].b]].ptr = call[u].b)
        BY <2>4, <3>1
      <4>8. \A x \in Holders : data'[header[x]] = data[header[x]]
        BY <3>1
      <4> QED
        BY <1>0, <2>1, <3>1, <4>2, <4>3, <4>5, <4>6, <4>7, <4>8, LeadFrame
    <3>4. CASE header[b] \in Records /\ UNCHANGED <<cheap, released>>
               /\ given' = given \ {b} /\ Enter(th, [pc |-> "check", b |-> b, n |-> n, mem |-> tracker])
      <4>1. [pc |-> "check", b |-> b, n |-> n, mem |-> tracker] \in Calls /\ heap' = heap /\ header' = header
        BY <1>0, <3>4 DEF Calls, AllocatorShape, cheap
      <4>2. call'[th] = [pc |-> "check", b |-> b, n |-> n, mem |-> tracker] /\ \A u \in Threads \ {th} : call'[u] = call[u]
        BY <1>0, <3>4, <4>1, EnterIs
      <4>3. \A y \in Holders \ {b} : header[y] # header[b]
        BY <1>0, <2>1, <3>2, <3>4 DEF RecordsApart
      <4>4. call'[th].pc = "check" /\ call'[th].b = b
        BY <4>2
      <4> QED
        BY <1>0, <2>1, <2>4, <3>1, <3>2, <3>4, <4>1, <4>2, <4>3, <4>4, LeadFrame
    <3> QED
      BY <2>13, <3>3, <3>4 DEF Realloc
  <2>14. ASSUME NEW th \in Threads, MemCheck(th)
         PROVE HeaderLeadsHome' /\ CallsLeadHome' /\ RecordsApart'
    <3> DEFINE b == call[th].b
    <3>1. call[th] \in [pc : {"check", "crealloc"}, b : Bases, n : Sizes, mem : BOOLEAN] /\ ~At(th, "idle")
          /\ UNCHANGED <<heap, header, data>> /\ header[b] \in Records /\ b \in Holders
          /\ data[header[b]].used /\ data[header[b]].ptr = b /\ data[header[b]].size = heap[b]
      BY <1>0, <2>1, <2>5, <2>14, CallIs DEF MemCheck, At, Calls, Idle, cheap, table,
         CallsLeadHome, OwnRecord
    <3>2. b \in Bases /\ b \notin given /\ \A u \in Threads \ {th} : ~At(u, "idle") => call[u].b # b
      BY <2>2, <3>1
    <3>3. Enter(th, [call[th] EXCEPT !.pc = "crealloc"]) /\ given' = given
      BY <2>14, <3>1 DEF MemCheck, OwnRecord
    <3>4. [call[th] EXCEPT !.pc = "crealloc"] \in Calls /\ [call[th] EXCEPT !.pc = "crealloc"].b = b
          /\ [call[th] EXCEPT !.pc = "crealloc"].pc = "crealloc"
      BY <3>1 DEF Calls
    <3>5. call'[th].pc = "crealloc" /\ call'[th].b = b /\ \A u \in Threads \ {th} : call'[u] = call[u]
      BY <1>0, <3>3, <3>4, EnterIs
    <3>6. \A y \in Holders \ {b} : header[y] # header[b]
      BY <1>0, <2>1, <3>1 DEF RecordsApart
    <3>7. \A u \in Threads \ {th} : At(u, "cfree") =>
            ~(data'[header[call[u].b]].used /\ data'[header[call[u].b]].ptr = call[u].b)
      BY <2>4, <3>1
    <3>8. heap' = heap /\ header' = header /\ data' = data
      BY <3>1
    <3> HIDE DEF b
    <3> QED
      BY <1>0, <2>1, <3>1, <3>2, <3>3, <3>5, <3>6, <3>7, <3>8, LeadFrame
  <2>15. ASSUME NEW th \in Threads, CRealloc(th)
         PROVE HeaderLeadsHome' /\ CallsLeadHome' /\ RecordsApart'
    <3> DEFINE c == call[th]
               b == call[th].b
    <3>1. /\ c.n \in Sizes /\ c.mem \in BOOLEAN /\ ~At(th, "idle") /\ header[b] \in Records /\ b \in Holders /\ data' = data
          /\ data[header[b]].used /\ data[header[b]].ptr = b /\ data[header[b]].size = heap[b]
      BY <1>0, <2>1, <2>5, <2>15, CallIs DEF CRealloc, At, Working, CallsLeadHome, OwnRecord,
         table
    <3>2. b \in Bases /\ heap[b] \in Sizes /\ b \notin given /\ Idle \in Calls
          /\ \A u \in Threads \ {th} : ~At(u, "idle") => call[u].b # b
      BY <2>2, <3>1
    <3>3. \A y \in Holders \ {b} : header[y] # header[b]
      BY <1>0, <2>1, <3>1 DEF RecordsApart
    <3>4. \A u \in Threads \ {th} : At(u, "cfree") =>
            ~(data'[header[call[u].b]].used /\ data'[header[call[u].b]].ptr = call[u].b)
      BY <2>4, <3>1
    <3>5. \A x \in Holders : data'[header[x]] = data[header[x]]
      BY <3>1
    <3>6. CASE \E t \in Targets(b) : /\ Move(b, t, c.n, header[b])
                                    /\ Enter(th, [pc |-> "rerecord", b |-> t, old |-> b, mem |-> tracker])
                                    /\ UNCHANGED given
      <4>1. PICK t \in Targets(b) : /\ Move(b, t, c.n, header[b])
                                     /\ Enter(th, [pc |-> "rerecord", b |-> t, old |-> b, mem |-> tracker])
                                     /\ UNCHANGED given
        BY <3>6
      <4>2. t \in Bases /\ (t = b \/ heap[t] = -1)
            /\ [pc |-> "rerecord", b |-> t, old |-> b, mem |-> tracker] \in Calls
        BY <1>0, <3>1, <3>2 DEF Targets, Calls, AllocatorShape
      <4>3. t \notin given /\ \A u \in Threads \ {th} : ~At(u, "idle") => call[u].b # b /\ call[u].b # t
        BY <1>0, <2>2, <3>2, <4>2 DEF BlocksKept
      <4>4. \A x \in Bases : /\ heap'[x] = IF x = t THEN c.n ELSE IF x = b THEN -1 ELSE heap[x]
                             /\ header'[x] = IF x = t THEN header[b] ELSE IF x = b THEN NoHeader ELSE header[x]
        BY <4>1 DEF Move
      <4>5. call'[th] = [pc |-> "rerecord", b |-> t, old |-> b, mem |-> tracker]
            /\ \A u \in Threads \ {th} : call'[u] = call[u]
        BY <1>0, <4>1, <4>2, EnterIs
      <4>6. call'[th].pc = "rerecord" /\ call'[th].b = t /\ call'[th].old = b /\ given' = given
        BY <4>1, <4>5
      <4>7. header'[t] = header[b] /\ (\A x \in Bases \ {b, t} : header'[x] = header[x] /\ heap'[x] = heap[x])
            /\ (b # t => header'[b] \notin Records)
        BY <1>0, <3>2, <4>2, <4>4
      <4>8. b # t => b \notin Holders'
        <5>1. \A u \in Threads : b # t /\ call'[u].pc \in {"release", "check", "crealloc", "rerecord"} => call'[u].b # b
          BY <3>2, <4>5, <4>6 DEF At
        <5> QED
          BY <3>2, <4>6, <5>1 DEF Holders
      <4> HIDE DEF c, b
      <4> QED
        BY <1>0, <2>1, <3>1, <3>2, <3>3, <3>4, <3>5, <4>2, <4>3, <4>5, <4>6, <4>7, <4>8, LeadFrame
    <3>7. CASE Enter(th, Idle) /\ given' = given \cup {b} /\ UNCHANGED cheap
      <4>1. heap' = heap /\ header' = header
        BY <3>7 DEF cheap
      <4>2. call'[th] = Idle /\ \A u \in Threads \ {th} : call'[u] = call[u]
        BY <1>0, <3>2, <3>7, EnterIs
      <4>3. call'[th].pc = "idle"
        BY <4>2 DEF Idle
      <4>4. given' = given \cup {b}
        BY <3>7
      <4> HIDE DEF c, b
      <4> QED
        BY <1>0, <2>1, <3>1, <3>2, <3>3, <3>4, <3>5, <4>1, <4>2, <4>3, <4>4, LeadFrame
    <3> QED
      BY <2>15, <3>6, <3>7 DEF CRealloc, Return
  <2>16. ASSUME NEW th \in Threads, ReRecord(th)
         PROVE HeaderLeadsHome' /\ CallsLeadHome' /\ RecordsApart'
    <3> DEFINE b == call[th].b
               k == header[b]
    <3>1. ~At(th, "idle") /\ Enter(th, Idle) /\ heap' = heap /\ given' = given \cup {b}
      BY <2>16 DEF ReRecord, At, Return
    <3>2. b \in Bases /\ heap[b] \in Sizes /\ b \notin given /\ Idle \in Calls
          /\ \A u \in Threads \ {th} : ~At(u, "idle") => call[u].b # b
      BY <2>2, <3>1
    <3>3. k \in Records /\ b \in Holders /\ Tracked(th)
      BY <2>2, <2>5, <2>16, <3>1 DEF ReRecord, At
    <3>4. Add(b, heap[b], k, "realloc")
      BY <2>16, <3>3 DEF ReRecord
    <3>5. call'[th] = Idle /\ \A u \in Threads \ {th} : call'[u] = call[u]
      BY <1>0, <3>1, <3>2, EnterIs
    <3>6. call'[th].pc = "idle"
      BY <3>5 DEF Idle
    <3>7. header' = [header EXCEPT ![b] = k] /\ data' = [data EXCEPT ![k] = [ptr |-> b, size |-> heap[b], used |-> TRUE]]
      BY <3>4 DEF Add
    <3>8. header'[b] = k /\ \A x \in Bases \ {b} : header'[x] = header[x]
      BY <1>0, <3>2, <3>7 DEF AllocatorShape
    <3>9. data'[k] = [ptr |-> b, size |-> heap[b], used |-> TRUE] /\ \A j \in Records \ {k} : data'[j] = data[j]
      BY <1>0, <3>3, <3>7 DEF AllocatorShape
    <3>10. data'[k].ptr = b /\ data'[k].size = heap[b] /\ data'[k].used
      BY <3>9
    <3>11. \A y \in Holders \ {b} : header[y] # k
      BY <1>0, <2>1, <3>3 DEF RecordsApart
    <3>12. \A x \in Holders \ {b} : header[x] \in Records => data'[header[x]] = data[header[x]]
      BY <3>9, <3>11
    <3>13. ASSUME NEW u \in Threads \ {th}, At(u, "cfree")
           PROVE  ~(data'[header[call[u].b]].used /\ data'[header[call[u].b]].ptr = call[u].b)
      <4>1. header[call[u].b] \in Records /\ call[u].b # b
        BY <1>0, <3>2, <3>13 DEF HeadersFit, At
      <4>2. CASE header[call[u].b] = k
        BY <3>10, <4>1, <4>2
      <4>3. CASE header[call[u].b] # k
        BY <2>4, <3>9, <3>13, <4>1, <4>3
      <4> QED
        BY <4>2, <4>3
    <3> HIDE DEF k, b
    <3> QED
      BY <1>0, <2>1, <3>1, <3>2, <3>3, <3>5, <3>6, <3>8, <3>10, <3>11, <3>12, <3>13, LeadFrame
  <2>17. ASSUME UNCHANGED vars PROVE HeaderLeadsHome' /\ CallsLeadHome' /\ RecordsApart'
    <3>1. UNCHANGED <<heap, header, data, call, given, tracker>>
      BY <2>17 DEF vars, cheap, table
    <3>2. Holders' = Holders
      BY <3>1 DEF Holders
    <3> QED
      BY <1>0, <3>1, <3>2 DEF HeaderLeadsHome, CallsLeadHome, RecordsApart, OwnRecord, At
  <2>18. ~MemDisable
    BY <2>1 DEF MemDisable
  <2> QED
    BY <1>3, <2>6, <2>7, <2>8, <2>9, <2>10, <2>11, <2>12, <2>13, <2>14, <2>15, <2>16, <2>17, <2>18
       DEF Next
<1> QED
  BY <1>0, <1>1, <1>2, <1>3 DEF AllocatorShape

-----------------------------------------------------------------------------
(* DbgMalloc: the table *)

\* What a step does to the table: a record is taken, let go, renamed, or all are cleared.
RecordTaken(k, b)   == /\ ~data[k].used /\ (assigned < Count => k = assigned + 1)
                 /\ data' = [data EXCEPT ![k] = [ptr |-> b, size |-> heap[b], used |-> TRUE]]
                 /\ total' = total + heap[b] /\ ops' = [ops EXCEPT !["alloc"] = @ + 1]
                 /\ assigned' = IF assigned < Count THEN assigned + 1 ELSE assigned
LetGo(k)      == /\ data[k].used
                 /\ data' = [data EXCEPT ![k].used = FALSE]
                 /\ total' = total - data[k].size /\ ops' = [ops EXCEPT !["free"] = @ + 1]
                 /\ assigned' = assigned
Renamed(k, b) == /\ data[k].used
                 /\ data' = [data EXCEPT ![k] = [ptr |-> b, size |-> heap[b], used |-> TRUE]]
                 /\ total' = total - data[k].size + heap[b] /\ ops' = [ops EXCEPT !["realloc"] = @ + 1]
                 /\ assigned' = assigned
Emptied       == data' = Cleared /\ assigned' = 0 /\ total' = 0 /\ ops' = NoOps
TableMove     == \/ \E k \in Records, b \in Bases : heap[b] \in Sizes /\ (RecordTaken(k, b) \/ Renamed(k, b))
                 \/ \E k \in Records : LetGo(k)
                 \/ Emptied
                 \/ UNCHANGED table

LEMMA TableMoves == ASSUME MallocAssumption, TableCore, [Next]_vars PROVE TableMove
<1>0. /\ AllocatorShape /\ BlocksKept /\ HeadersFit /\ FreshRecords
      /\ assigned \in 0..Count /\ reused \in 0..(Count - 1)
  BY DEF TableCore
<1>1. \A th \in Threads : ~At(th, "idle") => call[th].b \in Bases /\ heap[call[th].b] \in Sizes
  BY <1>0, CallHasBlock
<1>2. ASSUME NEW th \in Threads, NEW n \in Sizes, Malloc(th, n) PROVE TableMove
  BY <1>2 DEF Malloc, TableMove
<1>3. ASSUME NEW th \in Threads, NEW n \in 0..(MaxSize - 1), Duplicate(th, n) PROVE TableMove
  BY <1>3 DEF Duplicate, Malloc, TableMove
<1>4. ASSUME NEW th \in Threads, NEW b \in Bases, Free(th, b) \/ StrayFree(th, b) PROVE TableMove
  BY <1>4 DEF Free, StrayFree, TableMove
<1>5. ASSUME NEW th \in Threads, NEW b \in Bases, NEW n \in Sizes, Realloc(th, b, n)
      PROVE TableMove
  BY <1>5 DEF Realloc, TableMove
<1>6. ASSUME NEW th \in Threads, CFree(th) \/ MemCheck(th) \/ CRealloc(th) PROVE TableMove
  BY <1>6 DEF CFree, MemCheck, CRealloc, TableMove
<1>7. ASSUME NEW th \in Threads, Record(th) PROVE TableMove
  <2> DEFINE b == call[th].b
             k == PickRecord
  <2>1. b \in Bases /\ heap[b] \in Sizes
    BY <1>1, <1>7 DEF Record, At
  <2>2. CASE UNCHANGED table
    BY <2>2 DEF TableMove
  <2>3. CASE /\ k # 0 /\ Add(b, heap[b], k, "alloc") /\ total' = total + heap[b]
             /\ assigned' = IF assigned < Count THEN assigned + 1 ELSE assigned
    <3>1. k \in Records /\ ~data[k].used /\ (assigned < Count => k = assigned + 1)
      BY <1>0, <2>3, PickIs
    <3>2. RecordTaken(k, b)
      BY <2>3, <3>1 DEF RecordTaken, Add, Bump
    <3> QED
      BY <2>1, <3>1, <3>2 DEF TableMove
  <2> QED
    BY <1>7, <2>2, <2>3 DEF Record
<1>8. ASSUME NEW th \in Threads, MemRelease(th) PROVE TableMove
  <2> DEFINE b == call[th].b
             k == header[b]
  <2>1. k \in Records
    BY <1>0, <1>8 DEF MemRelease, At, HeadersFit
  <2>2. CASE UNCHANGED <<data, total, ops>>
    BY <1>8, <2>2 DEF MemRelease, TableMove, table
  <2>3. CASE OwnRecord(b) /\ data' = [data EXCEPT ![k].used = FALSE] /\ total' = total - data[k].size /\ Bump("free")
    BY <1>8, <2>1, <2>3 DEF MemRelease, OwnRecord, TableMove, LetGo, Bump
  <2> QED
    BY <1>8, <2>2, <2>3 DEF MemRelease
<1>9. ASSUME NEW th \in Threads, ReRecord(th) PROVE TableMove
  <2> DEFINE b == call[th].b
             k == header[b]
  <2>1. b \in Bases /\ heap[b] \in Sizes /\ k \in Records
    BY <1>0, <1>1, <1>9 DEF ReRecord, At, HeadersFit
  <2>2. CASE UNCHANGED table
    BY <2>2 DEF TableMove
  <2>3. CASE /\ data[k].used /\ Add(b, heap[b], k, "realloc") /\ total' = total - data[k].size + heap[b]
             /\ UNCHANGED <<assigned, reused>>
    <3>1. Renamed(k, b)
      BY <2>3 DEF Renamed, Add, Bump
    <3> QED
      BY <2>1, <3>1 DEF TableMove
  <2> QED
    BY <1>9, <2>2, <2>3 DEF ReRecord
<1>10. ASSUME MemInit PROVE TableMove
  BY <1>10 DEF MemInit, TableMove, Emptied
<1>11. ASSUME MemDisable \/ UNCHANGED vars PROVE TableMove
  BY <1>11 DEF MemDisable, vars, TableMove
<1> QED
  BY <1>2, <1>3, <1>4, <1>5, <1>6, <1>7, <1>8, <1>9, <1>10, <1>11 DEF Next

\* Records never given out stay empty, and the sums and the counters go along with the table.
LEMMA TableStep ==
  ASSUME MallocAssumption, TableCore, [Next]_vars
  PROVE  FreshRecords' /\ TotalAdds' /\ ops'.alloc - ops'.free = Cardinality(InUse')
<1>0. /\ AllocatorShape /\ FreshRecords /\ assigned \in 0..Count /\ Count \in Nat \ {0} /\ data \in Table
      /\ ops \in [alloc : Nat, realloc : Nat, free : Nat]
      /\ TotalAdds /\ ops.alloc - ops.free = Cardinality(InUse)
      /\ data' \in Table
  BY ShapeStep DEF TableCore, MallocAssumption, AllocatorShape, Table
<1>1. PICK s : AddsUp(s, data) /\ s[Count] = total
  BY <1>0 DEF TotalAdds
<1>2. IsFiniteSet(InUse) /\ InUse \subseteq Records
  <2>1. IsFiniteSet(Records)
    BY <1>0, FS_Interval DEF Records
  <2> QED
    BY <2>1, FS_Subset DEF InUse
<1>3. Cardinality(InUse) \in Nat
  BY <1>2, FS_CardinalityType
<1>4. ASSUME NEW k \in Records, NEW b \in Bases, heap[b] \in Sizes, RecordTaken(k, b)
      PROVE  FreshRecords' /\ TotalAdds' /\ ops'.alloc - ops'.free = Cardinality(InUse')
  <2>1. data'[k] = [ptr |-> b, size |-> heap[b], used |-> TRUE] /\ \A j \in Records \ {k} : data'[j] = data[j]
    BY <1>0, <1>4 DEF RecordTaken, Table
  <2>2. FreshRecords'
    <3>1. assigned' \in 0..Count /\ assigned <= assigned' /\ k <= assigned'
      BY <1>0, <1>4 DEF RecordTaken, Records
    <3> QED
      BY <1>0, <2>1, <3>1 DEF FreshRecords, Records
  <2>3. TotalAdds'
    <3>1. Term(data', k) = heap[b] /\ Term(data, k) = 0
      BY <1>4, <2>1 DEF RecordTaken, Term
    <3>2. PICK t : AddsUp(t, data') /\ t[Count] = s[Count] + Term(data', k) - Term(data, k)
      BY <1>0, <1>1, <2>1, SumsMove
    <3>3. t[Count] = total' /\ total \in Int
      <4>1. s[Count] \in Int /\ heap[b] \in Int
        BY <1>0, <1>1, <1>4 DEF AddsUp, Sizes
      <4> QED
        BY <1>1, <1>4, <3>1, <3>2, <4>1 DEF RecordTaken
    <3> QED
      BY <3>2, <3>3 DEF TotalAdds
  <2>4. InUse' = InUse \cup {k} /\ k \notin InUse
    BY <1>4, <2>1 DEF InUse, RecordTaken
  <2>5. Cardinality(InUse') = Cardinality(InUse) + 1
    BY <1>2, <2>4, FS_AddElement
  <2>6. ops'.alloc = ops.alloc + 1 /\ ops'.free = ops.free
    BY <1>0, <1>4 DEF RecordTaken
  <2> QED
    BY <1>0, <1>3, <2>2, <2>3, <2>5, <2>6
<1>5. ASSUME NEW k \in Records, NEW b \in Bases, heap[b] \in Sizes, Renamed(k, b)
      PROVE  FreshRecords' /\ TotalAdds' /\ ops'.alloc - ops'.free = Cardinality(InUse')
  <2>1. data'[k] = [ptr |-> b, size |-> heap[b], used |-> TRUE] /\ \A j \in Records \ {k} : data'[j] = data[j]
    BY <1>0, <1>5 DEF Renamed, Table
  <2>2. FreshRecords'
    <3>1. assigned' = assigned /\ ~(k > assigned)
      BY <1>0, <1>5 DEF Renamed, FreshRecords, NoRecord
    <3> QED
      BY <1>0, <2>1, <3>1 DEF FreshRecords
  <2>3. TotalAdds'
    <3>1. Term(data', k) = heap[b] /\ Term(data, k) = data[k].size
      BY <1>5, <2>1 DEF Renamed, Term
    <3>2. PICK t : AddsUp(t, data') /\ t[Count] = s[Count] + Term(data', k) - Term(data, k)
      BY <1>0, <1>1, <2>1, SumsMove
    <3>3. t[Count] = total' /\ total \in Int
      <4>1. s[Count] \in Int /\ heap[b] \in Int /\ data[k].size \in Int
        BY <1>0, <1>1, <1>5 DEF AddsUp, Sizes, Table
      <4> QED
        BY <1>1, <1>5, <3>1, <3>2, <4>1 DEF Renamed
    <3> QED
      BY <3>2, <3>3 DEF TotalAdds
  <2>4. InUse' = InUse
    BY <1>5, <2>1 DEF InUse, Renamed
  <2>5. ops'.alloc = ops.alloc /\ ops'.free = ops.free
    BY <1>0, <1>5 DEF Renamed
  <2> QED
    BY <1>0, <2>2, <2>3, <2>4, <2>5
<1>6. ASSUME NEW k \in Records, LetGo(k)
      PROVE  FreshRecords' /\ TotalAdds' /\ ops'.alloc - ops'.free = Cardinality(InUse')
  <2>1. data'[k].used = FALSE /\ \A j \in Records \ {k} : data'[j] = data[j]
    BY <1>0, <1>6 DEF LetGo, Table
  <2>2. FreshRecords'
    <3>1. assigned' = assigned /\ ~(k > assigned)
      BY <1>0, <1>6 DEF LetGo, FreshRecords, NoRecord
    <3> QED
      BY <1>0, <2>1, <3>1 DEF FreshRecords
  <2>3. TotalAdds'
    <3>1. Term(data', k) = 0 /\ Term(data, k) = data[k].size
      BY <1>6, <2>1 DEF LetGo, Term
    <3>2. PICK t : AddsUp(t, data') /\ t[Count] = s[Count] + Term(data', k) - Term(data, k)
      BY <1>0, <1>1, <2>1, SumsMove
    <3>3. t[Count] = total' /\ total \in Int
      <4>1. s[Count] \in Int /\ data[k].size \in Int
        BY <1>0, <1>1, <1>6 DEF AddsUp, Sizes, Table
      <4> QED
        BY <1>1, <1>6, <3>1, <3>2, <4>1 DEF LetGo
    <3> QED
      BY <3>2, <3>3 DEF TotalAdds
  <2>4. InUse' = InUse \ {k} /\ k \in InUse
    BY <1>6, <2>1 DEF InUse, LetGo
  <2>5. Cardinality(InUse') = Cardinality(InUse) - 1
    BY <1>2, <2>4, FS_RemoveElement
  <2>6. ops'.alloc = ops.alloc /\ ops'.free = ops.free + 1
    BY <1>0, <1>6 DEF LetGo
  <2> QED
    BY <1>0, <1>3, <2>2, <2>3, <2>5, <2>6
<1>7. ASSUME Emptied
      PROVE FreshRecords' /\ TotalAdds' /\ ops'.alloc - ops'.free = Cardinality(InUse')
  <2>1. FreshRecords'
    BY <1>7 DEF Emptied, FreshRecords, Cleared
  <2>2. TotalAdds'
    BY <1>7, SumsOfNone DEF Emptied, TotalAdds
  <2>3. InUse' = {}
    BY <1>7 DEF Emptied, InUse, Cleared, NoRecord
  <2>4. ops'.alloc = 0 /\ ops'.free = 0
    BY <1>7 DEF Emptied, NoOps
  <2> QED
    BY <2>1, <2>2, <2>3, <2>4, FS_EmptySet
<1>8. ASSUME UNCHANGED table
      PROVE FreshRecords' /\ TotalAdds' /\ ops'.alloc - ops'.free = Cardinality(InUse')
  BY <1>0, <1>8 DEF table, FreshRecords, TotalAdds, InUse
<1> QED
  BY <1>4, <1>5, <1>6, <1>7, <1>8, TableMoves DEF TableMove

\* As long as no record is lost the released blocks stay known, so a second free() is seen.
LEMMA KnownStep ==
  ASSUME MallocAssumption, TableCore, [Next]_vars PROVE ReleasedKnown' /\ DoubleFreeReported'
<1>0. /\ AllocatorShape /\ AllocatorShape' /\ BlocksKept /\ CallsApart /\ HeadersFit /\ CallsLeadHome /\ FreshRecords
      /\ HeaderLeadsHome /\ ReleasedKnown /\ DoubleFreeReported
      /\ MaxSize \in Nat /\ NoHeader \notin Records /\ Self # NoHeader /\ Self \notin Records /\ "null" \notin Bases
      /\ assigned \in 0..Count /\ reused \in 0..(Count - 1) /\ Count \in Nat \ {0}
  BY ShapeStep DEF TableCore, MallocAssumption, NoHeader, Self, Records
<1>1. \A th \in Threads : ~At(th, "idle") => call[th].b \in Bases /\ heap[call[th].b] \in Sizes
  BY <1>0, CallHasBlock
\* A record in use is one that was given out.
<1>2. \A k \in Records : data[k].used => k \in 1..assigned
  BY <1>0 DEF FreshRecords, NoRecord, Records
\* What is left to show of a step that keeps the names of the records, and excused as it was.
<1>3. ASSUME ~excused, assigned' = assigned, \A k \in 1..assigned : data'[k].ptr = data[k].ptr, tracker' = tracker,
             \A b \in Bases : header'[b] \in {NoHeader, header[b]} \/ (header'[b] \in Records /\ tracker),
             \A b \in released' : b \in released \/ (tracker /\ \E k \in 1..assigned : data[k].ptr = b)
      PROVE  ReleasedKnown'
  <2>1. \A b \in Bases : header'[b] # Self /\ (header'[b] \in Records => tracker')
    BY <1>0, <1>3 DEF ReleasedKnown
  <2>2. ASSUME NEW b \in released' PROVE tracker' /\ \E k \in 1..assigned' : data'[k].ptr = b
    <3>1. tracker /\ \E k \in 1..assigned : data[k].ptr = b
      BY <1>0, <1>3, <2>2 DEF ReleasedKnown
    <3> QED
      BY <1>3, <3>1
  <2> QED
    BY <2>1, <2>2 DEF ReleasedKnown
<1>4. ASSUME excused' = TRUE PROVE ReleasedKnown' /\ DoubleFreeReported'
  BY <1>4 DEF ReleasedKnown, DoubleFreeReported
<1>5. ASSUME corrupted' = corrupted, excused => excused' = TRUE PROVE DoubleFreeReported'
  BY <1>0, <1>5 DEF DoubleFreeReported, AllocatorShape
<1>6. ASSUME NEW th \in Threads, NEW n \in Sizes, Malloc(th, n)
      PROVE ReleasedKnown' /\ DoubleFreeReported'
  <2>1. UNCHANGED <<header, data, assigned, tracker, corrupted, excused>> /\ released' \subseteq released
    BY <1>6 DEF Malloc, table, hist
  <2> QED
    BY <1>0, <1>3, <1>4, <1>5, <2>1 DEF AllocatorShape
<1>7. ASSUME NEW th \in Threads, NEW n \in 0..(MaxSize - 1), Duplicate(th, n)
      PROVE ReleasedKnown' /\ DoubleFreeReported'
  <2>1. n + 1 \in Sizes /\ Malloc(th, n + 1)
    BY <1>0, <1>7 DEF Duplicate, Sizes
  <2> QED
    BY <1>6, <2>1
<1>8. ASSUME NEW th \in Threads, Record(th) PROVE ReleasedKnown' /\ DoubleFreeReported'
  <2> DEFINE b == call[th].b
             k == PickRecord
  <2>1. b \in Bases /\ UNCHANGED <<tracker, released, corrupted>>
    BY <1>1, <1>8 DEF Record, At
  <2>2. CASE excused' = TRUE
    BY <1>4, <2>2
  <2>3. CASE /\ Tracked(th) /\ k # 0 /\ Add(b, heap[b], k, "alloc")
             /\ assigned' = (IF assigned < Count THEN assigned + 1 ELSE assigned)
             /\ excused' = (excused \/ data[k].ptr # "null") /\ excused' # TRUE
    <3>1. k \in Records /\ ~excused /\ data[k].ptr = "null" /\ tracker
      BY <1>0, <2>3, PickIs DEF Tracked
    <3>2. \A x \in Bases : header'[x] = IF x = b THEN k ELSE header[x]
      BY <1>0, <2>1, <2>3 DEF Add, AllocatorShape
    <3>3. \A j \in Records \ {k} : data'[j] = data[j]
      BY <1>0, <2>3, <3>1 DEF Add, AllocatorShape
    <3>4. assigned' \in 0..Count /\ assigned <= assigned'
      BY <1>0, <2>3
    <3>5. \A x \in Bases : header'[x] # Self /\ (header'[x] \in Records => tracker')
      BY <1>0, <2>1, <3>1, <3>2 DEF ReleasedKnown
    <3>6. ASSUME NEW x \in released' PROVE tracker' /\ \E j \in 1..assigned' : data'[j].ptr = x
      <4>1. x \in Bases /\ x # "null"
        BY <1>0, <2>1, <3>6 DEF AllocatorShape
      <4>2. PICK j \in 1..assigned : data[j].ptr = x
        BY <1>0, <2>1, <3>1, <3>6 DEF ReleasedKnown
      <4>3. j # k /\ j \in Records /\ j \in 1..assigned'
        BY <1>0, <3>1, <3>4, <4>1, <4>2 DEF Records
      <4> QED
        BY <2>1, <3>1, <3>3, <4>2, <4>3
    <3>7. ReleasedKnown'
      BY <3>5, <3>6 DEF ReleasedKnown
    <3>8. DoubleFreeReported'
      BY <1>0, <2>1, <3>1 DEF DoubleFreeReported
    <3> QED
      BY <3>7, <3>8
  <2> QED
    BY <1>8, <2>2, <2>3 DEF Record
<1>9. ASSUME NEW th \in Threads, NEW b \in Bases, Free(th, b)
      PROVE ReleasedKnown' /\ DoubleFreeReported'
  <2>1. UNCHANGED <<data, assigned, tracker, corrupted, excused>> /\ released' = released \cup {b} /\ b \in given
    BY <1>9 DEF Free, table, hist
  <2>2. CASE excused
    BY <1>0, <1>4, <2>1, <2>2 DEF AllocatorShape
  <2>3. CASE ~excused
    <3>1. header[b] \in Records /\ tracker
      BY <1>0, <2>1, <2>3 DEF HeaderLeadsHome, ReleasedKnown
    <3>2. data[header[b]].ptr = b /\ header[b] \in 1..assigned
      BY <1>0, <1>2, <2>1, <3>1 DEF HeaderLeadsHome, OwnRecord
    <3>3. \A x \in Bases : header'[x] \in {NoHeader, header[x]}
      BY <1>0, <1>9 DEF Free, Release, cheap, AllocatorShape
    <3>4. \A x \in released' : x \in released \/ (tracker /\ \E k \in 1..assigned : data[k].ptr = x)
      BY <2>1, <3>1, <3>2
    <3> QED
      BY <1>3, <1>5, <2>1, <2>3, <3>3, <3>4
  <2> QED
    BY <2>2, <2>3
<1>10. ASSUME NEW th \in Threads, MemRelease(th) PROVE ReleasedKnown' /\ DoubleFreeReported'
  <2> DEFINE k == header[call[th].b]
  <2>1. UNCHANGED <<header, assigned, tracker, released, corrupted, excused>> /\ k \in Records
    BY <1>0, <1>10 DEF MemRelease, cheap, hist, HeadersFit, At
  <2>2. data' = data \/ data' = [data EXCEPT ![k].used = FALSE]
    BY <1>10 DEF MemRelease
  <2>3. \A j \in 1..assigned : data'[j].ptr = data[j].ptr
    <3>1. \A j \in Records : data'[j].ptr = data[j].ptr
      BY <1>0, <2>1, <2>2 DEF AllocatorShape
    <3> QED
      BY <1>0, <3>1 DEF Records
  <2> QED
    BY <1>0, <1>3, <1>4, <1>5, <2>1, <2>3 DEF AllocatorShape
<1>11. ASSUME NEW th \in Threads, CFree(th) PROVE ReleasedKnown' /\ DoubleFreeReported'
  <2>1. UNCHANGED <<data, assigned, tracker, released, corrupted, excused>>
    BY <1>11 DEF CFree, table, hist
  <2>2. \A x \in Bases : header'[x] \in {NoHeader, header[x]}
    BY <1>0, <1>11 DEF CFree, Release, AllocatorShape
  <2> QED
    BY <1>0, <1>3, <1>4, <1>5, <2>1, <2>2 DEF AllocatorShape
<1>12. ASSUME NEW th \in Threads, NEW b \in Bases, StrayFree(th, b)
       PROVE ReleasedKnown' /\ DoubleFreeReported'
  <2>1. UNCHANGED <<header, data, assigned, tracker, released, excused>> /\ b \in released
    BY <1>12 DEF StrayFree, cheap, table
  <2>2. CASE excused
    BY <1>0, <1>4, <2>1, <2>2 DEF AllocatorShape
  <2>3. CASE ~excused
    <3>1. IsStale(b)
      BY <1>0, <2>1, <2>3 DEF ReleasedKnown, IsStale
    <3>2. header[b] \in Records => tracker /\ ~OwnRecord(b)
      BY <1>0, <1>12, <2>3 DEF StrayFree, ReleasedKnown, HeadersFit, CallsLeadHome
    <3>3. corrupted' = (corrupted \/ ~(IF header[b] \in Records THEN tracker /\ ~OwnRecord(b) ELSE IsStale(b)))
      BY <1>12 DEF StrayFree
    <3>4. ~corrupted'
      BY <1>0, <2>3, <3>1, <3>2, <3>3 DEF DoubleFreeReported
    <3>5. DoubleFreeReported'
      BY <3>4 DEF DoubleFreeReported
    <3> QED
      BY <1>3, <2>1, <2>3, <3>5
  <2> QED
    BY <2>2, <2>3
<1>13. ASSUME NEW th \in Threads, NEW b \in Bases, NEW n \in Sizes, Realloc(th, b, n)
       PROVE ReleasedKnown' /\ DoubleFreeReported'
  <2>1. UNCHANGED <<data, assigned, tracker, corrupted, excused>> /\ b \in given
    BY <1>13 DEF Realloc, table, hist
  <2>2. CASE excused
    BY <1>0, <1>4, <2>1, <2>2 DEF AllocatorShape
  <2>3. CASE ~excused
    <3>1. header[b] # Self
      BY <1>0, <2>3 DEF ReleasedKnown
    <3>2. header' = header /\ released' = released
      BY <1>13, <3>1 DEF Realloc, cheap
    <3> QED
      BY <1>3, <1>5, <2>1, <2>3, <3>2
  <2> QED
    BY <2>2, <2>3
<1>14. ASSUME NEW th \in Threads, MemCheck(th) PROVE ReleasedKnown' /\ DoubleFreeReported'
  <2>1. UNCHANGED <<header, data, assigned, tracker, released, corrupted, excused>>
    BY <1>14 DEF MemCheck, cheap, table, hist
  <2> QED
    BY <1>0, <1>3, <1>4, <1>5, <2>1 DEF AllocatorShape
<1>15. ASSUME NEW th \in Threads, CRealloc(th) PROVE ReleasedKnown' /\ DoubleFreeReported'
  <2> DEFINE b == call[th].b
  <2>1. UNCHANGED <<data, assigned, tracker, corrupted, excused>> /\ At(th, "crealloc")
    BY <1>15 DEF CRealloc, table, hist
  <2>2. CASE excused
    BY <1>0, <1>4, <2>1, <2>2 DEF AllocatorShape
  <2>3. CASE ~excused
    <3>1. header[b] \in Records /\ b \in Bases
      BY <1>0, <1>1, <2>1 DEF HeadersFit, At
    <3>2. tracker
      BY <1>0, <2>3, <3>1 DEF ReleasedKnown
    <3>3. data[header[b]].ptr = b /\ header[b] \in 1..assigned
      BY <1>0, <1>2, <2>1, <3>1, <3>2 DEF CallsLeadHome, OwnRecord, At
    <3>4. CASE \E t \in Targets(b) : Move(b, t, call[th].n, header[b])
      <4>1. PICK t \in Targets(b) : Move(b, t, call[th].n, header[b])
        BY <3>4
      <4>2. \A x \in Bases : header'[x] = IF x = t THEN header[b] ELSE IF x = b THEN NoHeader ELSE header[x]
        BY <4>1 DEF Move
      <4>3. released' = (released \cup {b}) \ {t}
        BY <4>1 DEF Move
      <4>4. \A x \in Bases : header'[x] \in {NoHeader, header[x]} \/ (header'[x] \in Records /\ tracker)
        BY <3>1, <3>2, <4>2
      <4>5. \A x \in released' : x \in released \/ (tracker /\ \E k \in 1..assigned : data[k].ptr = x)
        BY <3>2, <3>3, <4>3
      <4> QED
        BY <1>3, <1>5, <2>1, <2>3, <4>4, <4>5
    <3>5. CASE UNCHANGED <<cheap, released>>
      BY <1>3, <1>5, <2>1, <2>3, <3>5 DEF cheap
    <3> QED
      BY <1>15, <3>4, <3>5 DEF CRealloc
  <2> QED
    BY <2>2, <2>3
<1>16. ASSUME NEW th \in Threads, ReRecord(th) PROVE ReleasedKnown' /\ DoubleFreeReported'
  <2> DEFINE b == call[th].b
             k == header[b]
  <2>1. UNCHANGED <<tracker, released, corrupted>> /\ b \in Bases /\ k \in Records /\ At(th, "rerecord")
    BY <1>0, <1>1, <1>16 DEF ReRecord, At, HeadersFit
  <2>2. CASE excused' = TRUE
    BY <1>4, <2>2
  <2>3. CASE excused' # TRUE
    <3>1. ~excused
      BY <1>0, <1>16, <2>3 DEF ReRecord, AllocatorShape
    <3>2. Tracked(th)
      BY <1>0, <2>1, <3>1 DEF ReleasedKnown, CallsApart, Tracked, At
    <3>3. /\ data[k].ptr = call[th].old /\ Add(b, heap[b], k, "realloc") /\ assigned' = assigned
          /\ excused' = (excused \/ b # call[th].old)
      BY <1>16, <3>2 DEF ReRecord
    <3>4. data[k].ptr = b
      BY <2>3, <3>3
    <3>5. \A j \in Records : data'[j].ptr = data[j].ptr
      BY <1>0, <2>1, <3>3, <3>4 DEF Add, AllocatorShape
    <3>6. \A j \in 1..assigned : data'[j].ptr = data[j].ptr
      BY <1>0, <3>5 DEF Records
    <3>7. \A x \in Bases : header'[x] = header[x]
      BY <1>0, <2>1, <3>3 DEF Add, AllocatorShape
    <3> QED
      BY <1>3, <1>5, <2>1, <3>1, <3>3, <3>6, <3>7
  <2> QED
    BY <2>2, <2>3
<1>17. ASSUME MemInit PROVE ReleasedKnown' /\ DoubleFreeReported'
  <2>1. UNCHANGED <<header, released, corrupted, excused>> /\ ~tracker
    BY <1>17 DEF MemInit, cheap, hist
  <2>2. CASE excused
    BY <1>0, <1>4, <2>1, <2>2 DEF AllocatorShape
  <2>3. CASE ~excused
    <3>1. released = {} /\ \A b \in Bases : header[b] # Self /\ header[b] \notin Records
      BY <1>0, <2>1, <2>3 DEF ReleasedKnown
    <3>2. ReleasedKnown'
      BY <2>1, <3>1 DEF ReleasedKnown
    <3> QED
      BY <1>5, <2>1, <2>3, <3>2
  <2> QED
    BY <2>2, <2>3
<1>18. ASSUME MemDisable PROVE ReleasedKnown' /\ DoubleFreeReported'
  BY <1>4, <1>18 DEF MemDisable
<1>19. ASSUME UNCHANGED vars PROVE ReleasedKnown' /\ DoubleFreeReported'
  <2>1. UNCHANGED <<header, data, assigned, tracker, released, corrupted, excused>>
    BY <1>19 DEF vars, cheap, table, hist
  <2> QED
    BY <1>0, <1>3, <1>4, <1>5, <2>1 DEF AllocatorShape
<1> QED
  BY <1>0, <1>6, <1>7, <1>8, <1>9, <1>10, <1>11, <1>12, <1>13, <1>14, <1>15, <1>16, <1>17, <1>18,
     <1>19
  DEF Next

-----------------------------------------------------------------------------
(* DbgMalloc: the theorems *)

\* The allocator starts with an empty table.
LEMMA TableInit == ASSUME MallocAssumption, Init PROVE TableCore
<1>0. Count \in Nat \ {0} /\ MaxSize \in Nat /\ NoHeader \notin Records /\ NoHeader # Self
  BY DEF MallocAssumption, NoHeader, Records, Self
<1>1. AllocatorShape /\ assigned \in 0..Count /\ reused \in 0..(Count - 1)
  <2>1. Cleared \in Table
    BY <1>0 DEF Cleared, NoRecord, Table, Sizes
  <2>2. assigned \in 0..Count /\ reused \in 0..(Count - 1) /\ ops \in [alloc : Nat, realloc : Nat, free : Nat]
    BY <1>0 DEF Init, NoOps
  <2>3. call \in [Threads -> Calls]
    BY DEF Init, Calls
  <2> QED
    BY <1>0, <2>1, <2>2, <2>3 DEF Init, AllocatorShape, Table
<1>2. \A th \in Threads : call[th].pc = "idle"
  BY DEF Init, Idle
<1>3. given = {} /\ released = {} /\ ~tracker /\ ~corrupted /\ \A b \in Bases : heap[b] = -1 /\ header[b] = NoHeader
  BY DEF Init
<1>4. HeaderLeadsHome /\ BlocksKept /\ DoubleFreeReported /\ CallsApart /\ HeadersFit /\ CallsLeadHome
  BY <1>2, <1>3 DEF HeaderLeadsHome, BlocksKept, DoubleFreeReported, CallsApart, HeadersFit,
     CallsLeadHome, At
<1>5. RecordsApart /\ FreshRecords /\ ReleasedKnown
  BY <1>0, <1>3 DEF Init, RecordsApart, FreshRecords, ReleasedKnown, Cleared
<1>6. TotalAdds
  BY SumsOfNone DEF Init, TotalAdds
<1>7. ops.alloc - ops.free = Cardinality(InUse)
  <2>1. InUse = {} /\ ops.alloc = 0 /\ ops.free = 0
    BY DEF Init, InUse, Cleared, NoRecord, NoOps
  <2> QED
    BY <2>1, FS_EmptySet
<1> QED
  BY <1>1, <1>4, <1>5, <1>6, <1>7 DEF TableCore

\* A step of the allocator keeps the strengthened invariant.
LEMMA TableStable == ASSUME MallocAssumption, TableCore, [Next]_vars PROVE TableCore'
BY ShapeStep, ApartStep, HeadersStep, LeadStep, TableStep, KnownStep DEF TableCore

\* What the proofs carry is the invariant the runs check.
LEMMA TableIs == ASSUME MallocAssumption, TableCore PROVE TableInv
<1>0. AllocatorShape /\ assigned \in 0..Count /\ reused \in 0..(Count - 1) /\ Count \in Nat \ {0} /\ data \in Table
  BY DEF TableCore, MallocAssumption, AllocatorShape, Table
<1>1. PICK s : AddsUp(s, data) /\ s[Count] = total
  BY DEF TableCore, TotalAdds
<1>2. total \in Nat
  BY <1>0, <1>1, SumsAreNat
<1>3. TypeOK
  <2>1. heap \in [Bases -> Sizes \cup {-1}] /\ \A b \in Bases : header[b] \in {NoHeader, Self} \cup Records
    BY <1>0 DEF AllocatorShape
  <2>2. \A k \in Records : data[k].ptr \in Bases \cup {"null"} /\ data[k].size \in Sizes
    BY <1>0 DEF AllocatorShape
  <2> QED
    BY <1>0, <1>2, <2>1, <2>2 DEF TypeOK
<1>4. ReportAgrees
  BY <1>1, RunningIs DEF TableCore, ReportAgrees
<1>5. NothingLost
  <2>1. \A b \in InCalls : b \in Bases
    BY <1>0, CallIs DEF InCalls, At, Working
  <2>2. \A b \in Bases : heap[b] # -1 <=> b \in given \cup InCalls
    BY DEF TableCore, BlocksKept, InCalls
  <2> QED
    BY <1>0, <2>1, <2>2 DEF NothingLost, AllocatorShape
<1> QED
  BY <1>3, <1>4, <1>5 DEF TableCore, TableInv, AllocatorInv

\* The inductive invariant: the headers, the records and the calls lead to one another, and
\* the released blocks to the records that remember them.
THEOREM TableInvariant == ASSUME MallocAssumption PROVE Spec => []TableInv
<1>1. Init => TableCore
  BY TableInit
<1>2. TableCore /\ [Next]_vars => TableCore'
  BY TableStable
<1>3. TableCore => TableInv
  BY TableIs
<1> QED
  BY <1>1, <1>2, <1>3, PTL DEF Spec

\* The debugging allocator keeps its word at every point of every call of every thread, however
\* many there are and however large the table: a block its owner holds can be freed, the report
\* of otelc_dbg_mem_info() agrees with the table, no block is lost, and a second free() is
\* reported as long as no record was lost (dbg_malloc.cpp).
THEOREM AllocatorHolds == ASSUME MallocAssumption PROVE Spec => []AllocatorInv
<1>1. TableInv => AllocatorInv
  BY DEF TableInv
<1> QED
  BY <1>1, TableInvariant, PTL

-----------------------------------------------------------------------------
(* Containers: the map *)

Names   == {"flags", "key", "value"}
Strings == {"key", "value"}
Pair    == [key : Heap \cup {0}, value : Heap \cup {0}, mode : [key : Modes, value : Modes]]
MapType == [up : BOOLEAN, struct : Heap \cup {0}, arr : [Names -> Heap \cup {0}], cap : [Names -> Nat],
            size : Nat, pairs : Seq(Pair)]

\* What a call on a map leaves: whether it succeeded, the heap and the map.
ResultType == [ok : BOOLEAN, h : SUBSET Heap, t : MapType]

\* The string a of pair i that a map t is to release; 0 for none.
StringAt(t, i, a) == IF t.pairs[i].mode[a] = "borrow" THEN 0 ELSE t.pairs[i][a]

\* What a map owns, each block once.
StringBlocks(t) == {StringAt(t, s[1], s[2]) : s \in (1..Len(t.pairs)) \X Strings} \ {0}
TableBlocks(t)  == {t.arr[a] : a \in Names} \ {0}
MapBlocks(t)    == StringBlocks(t) \cup TableBlocks(t) \cup ({t.struct} \ {0})
MapApart(t) ==
    /\ \A i, j \in 1..Len(t.pairs) : \A a, c \in Strings :
         StringAt(t, i, a) # 0 /\ StringAt(t, i, a) = StringAt(t, j, c) => i = j /\ a = c
    /\ \A a, c \in Names : t.arr[a] # 0 /\ t.arr[a] = t.arr[c] => a = c
    /\ StringBlocks(t) \cap TableBlocks(t) = {}
    /\ t.struct \notin StringBlocks(t) \cup TableBlocks(t)

\* The arrays of a map hold its pairs.
MapShape(t) ==
    /\ t \in MapType
    /\ \A i \in 1..Len(t.pairs) : \A a \in Strings : t.pairs[i].mode[a] # "borrow" => t.pairs[i][a] \in Heap
    /\ \A a \in Names : t.size <= t.cap[a] /\ (t.arr[a] = 0 => t.cap[a] = 0)
    /\ Len(t.pairs) <= t.size

\* Of the heap h the map t owns all but the rest.
Fit(h, t, rest) == /\ MapShape(t) /\ MapApart(t)
                   /\ rest \subseteq Heap /\ h = MapBlocks(t) \cup rest /\ MapBlocks(t) \cap rest = {}

\* The three arrays of a map.
LEMMA NamesAre == ToSet(Arrays) = Names /\ Arrays[1] = "flags" /\ Arrays[2] = "key" /\ Arrays[3] = "value"
<1>1. DOMAIN Arrays = 1..3 /\ Arrays[1] = "flags" /\ Arrays[2] = "key" /\ Arrays[3] = "value"
  BY DEF Arrays
<1> QED
  BY <1>1 DEF ToSet, Names

\* What a map owns are blocks.
LEMMA MapBlocksIn == ASSUME NEW t, MapShape(t)
                     PROVE  /\ MapBlocks(t) \subseteq Heap
                            /\ \A i \in 1..Len(t.pairs) : \A a \in Strings : StringAt(t, i, a) \in Heap \cup {0}
<1>1. \A i \in 1..Len(t.pairs) : \A a \in Strings : StringAt(t, i, a) \in Heap \cup {0}
  BY DEF MapShape, StringAt
<1>2. StringBlocks(t) \subseteq Heap
  BY <1>1 DEF StringBlocks
<1>3. TableBlocks(t) \subseteq Heap /\ {t.struct} \ {0} \subseteq Heap
  BY DEF TableBlocks, MapShape, MapType
<1> QED
  BY <1>1, <1>2, <1>3 DEF MapBlocks

\* An allocation gets a block that is not in use, or none.
LEMMA AllocateIs == ASSUME ContainersAssumption, NEW h, NEW ok
  PROVE Allocate(h, ok) \in (Heap \ h) \cup {0}
<1>1. CASE ok /\ Heap \ h # {}
  <2>1. Heap \ h \in SUBSET Nat /\ Heap \ h # {}
    BY <1>1 DEF Heap, ContainersAssumption
  <2>2. \E i \in Heap \ h : \A j \in Heap \ h : i <= j
    BY <2>1, LeastIs
  <2>3. Min(Heap \ h) \in Heap \ h
    BY <2>2 DEF Min
  <2> QED
    BY <1>1, <2>3 DEF Allocate
<1>2. CASE ~(ok /\ Heap \ h # {})
  BY <1>2 DEF Allocate
<1> QED
  BY <1>1, <1>2

\* No block is the null pointer.
LEMMA HeapIs == ContainersAssumption => 0 \notin Heap /\ Heap \subseteq Nat
BY DEF Heap, ContainersAssumption

\* One array grows.
LEMMA ExtendFits ==
  ASSUME ContainersAssumption, NEW r \in ResultType, NEW rest, Fit(r.h, r.t, rest), NEW i \in 1..3, NEW got,
         NEW size \in Nat, r.t.size < size
  PROVE  LET e == Extend(r, i, got, size)
         IN  /\ e \in ResultType /\ Fit(e.h, e.t, rest) /\ e.t.pairs = r.t.pairs /\ e.t.size = r.t.size
             /\ e.t.up = r.t.up /\ e.t.struct = r.t.struct
             /\ e.ok => r.ok /\ e.t.cap[Arrays[i]] = size /\ \A a \in Names \ {Arrays[i]} : e.t.cap[a] = r.t.cap[a]
<1> DEFINE a == Arrays[i]
           b == IF r.t.arr[a] # 0 THEN r.t.arr[a] ELSE Allocate(r.h, TRUE)
           n == [r.t EXCEPT !.arr[a] = b, !.cap[a] = size]
<1>1. a \in Names
  BY NamesAre DEF Names
<1>2. r.t \in MapType /\ r.h \in SUBSET Heap /\ r.ok \in BOOLEAN
  BY DEF ResultType
<1>3. CASE ~r.ok \/ i > got \/ b = 0
  <2>1. Extend(r, i, got, size) = [r EXCEPT !.ok = FALSE]
    BY <1>3 DEF Extend
  <2>2. [r EXCEPT !.ok = FALSE] \in ResultType /\ [r EXCEPT !.ok = FALSE].h = r.h /\ [r EXCEPT !.ok = FALSE].t = r.t
        /\ [r EXCEPT !.ok = FALSE].ok = FALSE
    BY DEF ResultType
  <2> QED
    BY <2>1, <2>2
<1>4. CASE ~(~r.ok \/ i > got \/ b = 0)
  <2>1. Extend(r, i, got, size) = [ok |-> TRUE, h |-> Taken(r.h, b), t |-> n]
    BY <1>4 DEF Extend
  <2>2. b \in Heap /\ (r.t.arr[a] = 0 => b \notin r.h) /\ (r.t.arr[a] # 0 => b = r.t.arr[a])
    <3>1. r.t.arr[a] \in Heap \cup {0}
      BY <1>1, <1>2 DEF MapType
    <3>2. CASE r.t.arr[a] = 0
      <4>1. b = Allocate(r.h, TRUE)
        BY <3>2
      <4> HIDE DEF b
      <4> QED
        BY <1>4, <3>2, <4>1, AllocateIs
    <3> QED
      BY <3>1, <3>2
  <2> HIDE DEF b
  <2>3. n.arr[a] = b /\ n.cap[a] = size /\ \A c \in Names \ {a} : n.arr[c] = r.t.arr[c] /\ n.cap[c] = r.t.cap[c]
    BY <1>1, <1>2 DEF MapType
  <2>4. n.pairs = r.t.pairs /\ n.size = r.t.size /\ n.up = r.t.up /\ n.struct = r.t.struct
    BY <1>2 DEF MapType
  <2>5. n \in MapType
    <3>1. [r.t.arr EXCEPT ![a] = b] \in [Names -> Heap \cup {0}] /\ [r.t.cap EXCEPT ![a] = size] \in [Names -> Nat]
      BY <1>1, <1>2, <2>2 DEF MapType
    <3>2. n = [r.t EXCEPT !.arr = [r.t.arr EXCEPT ![a] = b], !.cap = [r.t.cap EXCEPT ![a] = size]]
      BY <1>2 DEF MapType
    <3> HIDE DEF n, a
    <3> QED
      BY <1>2, <3>1, <3>2 DEF MapType
  <2> HIDE DEF n, a
  <2>6. StringBlocks(n) = StringBlocks(r.t) /\ \A j, c : StringAt(n, j, c) = StringAt(r.t, j, c)
    BY <2>4 DEF StringBlocks, StringAt
  <2>7. TableBlocks(n) = TableBlocks(r.t) \cup {b}
    <3>1. b # 0
      BY <2>2, HeapIs
    <3>2. \A c \in Names : n.arr[c] # 0 => n.arr[c] \in TableBlocks(r.t) \cup {b}
      BY <1>1, <2>3 DEF TableBlocks
    <3>3. \A c \in Names : r.t.arr[c] # 0 => r.t.arr[c] \in TableBlocks(n)
      <4>1. ASSUME NEW c \in Names, r.t.arr[c] # 0 PROVE r.t.arr[c] = n.arr[c]
        BY <2>2, <2>3, <4>1
      <4> QED
        BY <4>1 DEF TableBlocks
    <3>4. b \in TableBlocks(n)
      BY <1>1, <2>3, <3>1 DEF TableBlocks
    <3> QED
      BY <3>2, <3>3, <3>4 DEF TableBlocks
  <2>8. MapShape(n)
    <3>1. \A c \in Names : n.size <= n.cap[c] /\ (n.arr[c] = 0 => n.cap[c] = 0)
      <4>1. b # 0 /\ n.size = r.t.size /\ n.size <= size
        BY <1>2, <2>2, <2>4, HeapIs DEF MapType
      <4>2. \A c \in Names : r.t.size <= r.t.cap[c] /\ (r.t.arr[c] = 0 => r.t.cap[c] = 0)
        BY DEF Fit, MapShape
      <4> QED
        BY <2>3, <4>1, <4>2
    <3> QED
      BY <2>4, <2>5, <3>1 DEF Fit, MapShape
  \* A block that is new to the map is new to all.
  <2>9. b \in TableBlocks(r.t) \/ b \notin MapBlocks(r.t) \cup rest
    BY <1>1, <2>2, HeapIs DEF TableBlocks, Fit
  <2>10. MapApart(n)
    <3>1. \A c, d \in Names : n.arr[c] # 0 /\ n.arr[c] = n.arr[d] => c = d
      <4>1. ASSUME NEW c \in Names \ {a} PROVE r.t.arr[c] # b
        BY <1>1, <2>2, <4>1, HeapIs DEF Fit, MapApart, MapBlocks, TableBlocks
      <4> QED
        BY <2>3, <4>1 DEF Fit, MapApart
    <3>2. b # 0 /\ b \notin StringBlocks(r.t) /\ b # r.t.struct
      BY <2>2, <2>9, HeapIs DEF Fit, MapApart, MapBlocks
    <3>3. StringBlocks(n) \cap TableBlocks(n) = {} /\ n.struct \notin StringBlocks(n) \cup TableBlocks(n)
      BY <2>4, <2>6, <2>7, <3>2 DEF Fit, MapApart
    <3>4. \A i1, j \in 1..Len(n.pairs) : \A c, d \in Strings :
            StringAt(n, i1, c) # 0 /\ StringAt(n, i1, c) = StringAt(n, j, d) => i1 = j /\ c = d
      BY <2>4, <2>6 DEF Fit, MapApart
    <3> QED
      BY <3>1, <3>3, <3>4 DEF MapApart
  <2>11. MapBlocks(n) = MapBlocks(r.t) \cup {b}
    BY <2>4, <2>6, <2>7 DEF MapBlocks
  <2>12. Fit(Taken(r.h, b), n, rest)
    BY <2>2, <2>8, <2>9, <2>10, <2>11, HeapIs DEF Fit, MapBlocks, Taken
  <2>13. Taken(r.h, b) \in SUBSET Heap
    BY <1>2, <2>2 DEF Taken
  <2>14. r.ok
    BY <1>4
  <2> QED
    BY <2>1, <2>3, <2>4, <2>5, <2>12, <2>13, <2>14 DEF ResultType, a
<1> QED
  BY <1>3, <1>4

\* The arrays grow, all or some.
LEMMA GrownFits ==
  ASSUME ContainersAssumption, NEW h \in SUBSET Heap, NEW t, NEW rest, Fit(h, t, rest), NEW got
  PROVE  LET r == Grown(h, t, got)
         IN  /\ r \in ResultType /\ Fit(r.h, r.t, rest) /\ r.t.pairs = t.pairs /\ r.t.up = t.up /\ r.t.struct = t.struct
             /\ r.ok => t.size < r.t.size
<1> DEFINE size == t.size + (IF t.size > 1 THEN t.size \div 2 ELSE 1)
           none == [ok |-> TRUE, h |-> h, t |-> t]
           one  == Extend(none, 1, got, size)
           two  == Extend(one, 2, got, size)
           all  == Extend(two, 3, got, size)
<1>1. t \in MapType /\ t.size \in Nat
  BY DEF Fit, MapShape, MapType
<1>2. size \in Nat /\ t.size < size
  <2>1. t.size > 1 => t.size \div 2 \in Nat /\ t.size \div 2 > 0
    BY <1>1
  <2> QED
    BY <1>1, <2>1
<1>3. none \in ResultType /\ none.h = h /\ none.t = t
  BY <1>1 DEF ResultType
<1> HIDE DEF size, none
<1>4. /\ one \in ResultType /\ Fit(one.h, one.t, rest) /\ one.t.pairs = t.pairs /\ one.t.size = t.size
      /\ one.t.up = t.up /\ one.t.struct = t.struct /\ (one.ok => one.t.cap["flags"] = size)
  BY <1>2, <1>3, ExtendFits, NamesAre
<1> HIDE DEF one
<1>5. /\ two \in ResultType /\ Fit(two.h, two.t, rest) /\ two.t.pairs = t.pairs /\ two.t.size = t.size
      /\ two.t.up = t.up /\ two.t.struct = t.struct
      /\ (two.ok => one.ok /\ two.t.cap["key"] = size /\ \A a \in Names \ {"key"} : two.t.cap[a] = one.t.cap[a])
  <2>1. one.t.size < size
    BY <1>2, <1>4
  <2> QED
    BY <1>2, <1>4, <2>1, ExtendFits, NamesAre
<1> HIDE DEF two
<1>6. /\ all \in ResultType /\ Fit(all.h, all.t, rest) /\ all.t.pairs = t.pairs /\ all.t.size = t.size
      /\ all.t.up = t.up /\ all.t.struct = t.struct
      /\ (all.ok => two.ok /\ all.t.cap["value"] = size /\ \A a \in Names \ {"value"} : all.t.cap[a] = two.t.cap[a])
  <2>1. two.t.size < size
    BY <1>2, <1>5
  <2>2. /\ all \in ResultType /\ Fit(all.h, all.t, rest) /\ all.t.pairs = two.t.pairs /\ all.t.size = two.t.size
        /\ all.t.up = two.t.up /\ all.t.struct = two.t.struct
        /\ all.ok => /\ two.ok /\ all.t.cap[Arrays[3]] = size
                     /\ \A a \in Names \ {Arrays[3]} : all.t.cap[a] = two.t.cap[a]
    <3>1. 3 \in 1..3 /\ two \in ResultType /\ Fit(two.h, two.t, rest) /\ size \in Nat
      BY <1>2, <1>5
    <3>2. all = Extend(two, 3, got, size)
      OBVIOUS
    <3> HIDE DEF all
    <3> QED
      BY <2>1, <3>1, <3>2, ExtendFits
  <2> QED
    BY <1>5, <2>2, NamesAre
<1> HIDE DEF all
<1>7. Grown(h, t, got) = IF all.ok THEN [all EXCEPT !.t.size = size] ELSE all
  BY DEF Grown, all, two, one, none, size
<1>8. CASE ~all.ok
  BY <1>6, <1>7, <1>8
<1>9. CASE all.ok
  <2> DEFINE g == [all.t EXCEPT !.size = size]
  <2>1. \A a \in Names : all.t.cap[a] = size
    BY <1>4, <1>5, <1>6, <1>9 DEF Names
  <2>2. [all EXCEPT !.t.size = size] = [all EXCEPT !.t = g]
    BY <1>6 DEF ResultType
  <2>3. all.t \in MapType
    BY <1>6 DEF ResultType
  <2>4. /\ g \in MapType /\ g.size = size /\ g.pairs = t.pairs /\ g.arr = all.t.arr /\ g.cap = all.t.cap
        /\ g.struct = t.struct /\ g.up = t.up
    BY <1>2, <1>6, <2>3 DEF MapType
  <2> HIDE DEF g
  <2>5. [all EXCEPT !.t = g] \in ResultType /\ [all EXCEPT !.t = g].t = g /\ [all EXCEPT !.t = g].h = all.h
    BY <1>6, <2>4 DEF ResultType
  <2>6. StringBlocks(g) = StringBlocks(all.t) /\ TableBlocks(g) = TableBlocks(all.t)
        /\ \A j, c : StringAt(g, j, c) = StringAt(all.t, j, c)
    BY <1>6, <2>4 DEF StringBlocks, TableBlocks, StringAt
  <2>7. MapShape(g)
    <3>1. Len(g.pairs) <= t.size /\ Len(g.pairs) \in Nat
      BY <1>6, <2>4 DEF Fit, MapShape, MapType
    <3>2. \A a \in Names : all.t.arr[a] = 0 => all.t.cap[a] = 0
      BY <1>6 DEF Fit, MapShape
    <3>3. Len(g.pairs) <= g.size
      BY <1>1, <1>2, <2>4, <3>1
    <3>4. \A a \in Names : g.size <= g.cap[a] /\ (g.arr[a] = 0 => g.cap[a] = 0)
      BY <1>2, <2>1, <2>4, <3>2
    <3>5. g.pairs = all.t.pairs
      BY <1>6, <2>4
    <3>6. \A i \in 1..Len(g.pairs) : \A a \in Strings : g.pairs[i].mode[a] # "borrow" => g.pairs[i][a] \in Heap
      BY <1>6, <3>5 DEF Fit, MapShape
    <3> QED
      BY <2>4, <3>3, <3>4, <3>6 DEF MapShape
  <2>8. MapApart(g) /\ MapBlocks(g) = MapBlocks(all.t)
    BY <1>6, <2>4, <2>6 DEF Fit, MapApart, MapBlocks
  <2>9. Fit(all.h, g, rest)
    BY <1>6, <2>7, <2>8 DEF Fit
  <2> QED
    BY <1>2, <1>7, <1>9, <2>2, <2>4, <2>5, <2>9
<1> QED
  BY <1>8, <1>9

\* One pair more: its strings are new to the map.
NewStrings(p)  == {p[a] : a \in {c \in Strings : p.mode[c] # "borrow"}}
WithPair(t, p) == [t EXCEPT !.pairs = Append(@, p)]
Sound(p)       == p.mode["key"] # "borrow" /\ p.mode["value"] # "borrow" => p["key"] # p["value"]

\* A map with one pair more fits, if the pair's strings are no one else's.
LEMMA PairFits ==
  ASSUME ContainersAssumption, NEW h \in SUBSET Heap, NEW t, NEW rest, Fit(h, t, rest), Len(t.pairs) < t.size,
         NEW p \in Pair, Sound(p), NewStrings(p) \subseteq Heap, NewStrings(p) \cap MapBlocks(t) = {},
         NEW left, left \subseteq rest, NewStrings(p) \cap left = {}
  PROVE  /\ Fit(MapBlocks(t) \cup left \cup NewStrings(p), WithPair(t, p), left)
         /\ WithPair(t, p) \in MapType /\ WithPair(t, p).up = t.up /\ WithPair(t, p).struct = t.struct
         /\ Len(WithPair(t, p).pairs) = Len(t.pairs) + 1
<1> DEFINE m == Len(t.pairs) + 1
           new == NewStrings(p)
           n == WithPair(t, p)
           h2 == MapBlocks(t) \cup left \cup new
<1>0. \A a \in Strings : p.mode[a] # "borrow" => p[a] \in new /\ p[a] # 0 /\ p[a] \notin MapBlocks(t) /\ p[a] \in Heap
  <2>1. \A a \in Strings : p.mode[a] # "borrow" => p[a] \in NewStrings(p)
    BY DEF NewStrings
  <2> QED
    BY <2>1, HeapIs
<1>1. t \in MapType /\ t.pairs \in Seq(Pair) /\ Len(t.pairs) \in Nat
  BY DEF Fit, MapShape, MapType
<1>2. n.arr = t.arr /\ n.cap = t.cap /\ n.up = t.up /\ n.struct = t.struct /\ n.size = t.size /\ n.pairs = Append(t.pairs, p)
  BY <1>1 DEF MapType, WithPair
<1>3. n.pairs \in Seq(Pair) /\ Len(n.pairs) = m /\ n.pairs[m] = p /\ \A i \in 1..Len(t.pairs) : n.pairs[i] = t.pairs[i]
  <2> HIDE DEF Pair
  <2> QED
    BY <1>1, <1>2
<1>4. n \in MapType
  <2> HIDE DEF Pair
  <2>1. Append(t.pairs, p) \in Seq(Pair)
    BY <1>2, <1>3
  <2> QED
    BY <1>1, <2>1 DEF MapType, WithPair
<1>5. \A i \in 1..Len(t.pairs) : \A a \in Strings : StringAt(n, i, a) = StringAt(t, i, a)
  BY <1>3 DEF StringAt
<1>6. \A a \in Strings : /\ p.mode[a] = "borrow" => StringAt(n, m, a) = 0
                         /\ p.mode[a] # "borrow" => StringAt(n, m, a) = p[a]
  BY <1>3 DEF StringAt
<1> HIDE DEF m, n
<1>7. \A i : i \in 1..Len(n.pairs) <=> i \in 1..Len(t.pairs) \/ i = m
  BY <1>1, <1>3 DEF m
<1>8. m \notin 1..Len(t.pairs)
  BY <1>1 DEF m
<1>9. StringBlocks(n) = StringBlocks(t) \cup new
  <2>1. ASSUME NEW i \in 1..Len(n.pairs), NEW a \in Strings, StringAt(n, i, a) # 0
        PROVE  StringAt(n, i, a) \in StringBlocks(t) \cup new
    <3>1. CASE i \in 1..Len(t.pairs)
      <4>1. <<i, a>> \in (1..Len(t.pairs)) \X Strings /\ StringAt(t, <<i, a>>[1], <<i, a>>[2]) = StringAt(n, i, a)
        BY <1>5, <3>1
      <4> QED
        BY <2>1, <4>1 DEF StringBlocks
    <3>2. CASE i = m
      BY <1>0, <1>6, <2>1, <3>2
    <3> QED
      BY <1>7, <3>1, <3>2
  <2>2. ASSUME NEW i \in 1..Len(t.pairs), NEW a \in Strings, StringAt(t, i, a) # 0
        PROVE  StringAt(t, i, a) \in StringBlocks(n)
    <3>1. <<i, a>> \in (1..Len(n.pairs)) \X Strings /\ StringAt(n, <<i, a>>[1], <<i, a>>[2]) = StringAt(t, i, a)
      BY <1>5, <1>7
    <3> QED
      BY <2>2, <3>1 DEF StringBlocks
  <2>3. ASSUME NEW a \in Strings, p.mode[a] # "borrow" PROVE p[a] \in StringBlocks(n)
    <3>1. <<m, a>> \in (1..Len(n.pairs)) \X Strings /\ StringAt(n, <<m, a>>[1], <<m, a>>[2]) = p[a] /\ p[a] # 0
      BY <1>0, <1>6, <1>7, <2>3
    <3> QED
      BY <3>1 DEF StringBlocks
  <2> HIDE DEF new
  <2>4. ASSUME NEW x \in StringBlocks(n) PROVE x \in StringBlocks(t) \cup new
    <3>1. PICK s \in (1..Len(n.pairs)) \X Strings : x = StringAt(n, s[1], s[2]) /\ x # 0
      BY <2>4 DEF StringBlocks
    <3> QED
      BY <2>1, <3>1
  <2>5. ASSUME NEW x \in StringBlocks(t) PROVE x \in StringBlocks(n)
    <3>1. PICK s \in (1..Len(t.pairs)) \X Strings : x = StringAt(t, s[1], s[2]) /\ x # 0
      BY <2>5 DEF StringBlocks
    <3> QED
      BY <2>2, <3>1
  <2>6. new \subseteq StringBlocks(n)
    BY <2>3 DEF new, NewStrings
  <2> QED
    BY <2>4, <2>5, <2>6
<1>10. TableBlocks(n) = TableBlocks(t)
  BY <1>2 DEF TableBlocks
<1>11. MapBlocks(n) = MapBlocks(t) \cup new
  BY <1>2, <1>9, <1>10 DEF MapBlocks
<1>12. new \cap MapBlocks(t) = {} /\ new \subseteq Heap /\ 0 \notin new
  BY HeapIs
<1> HIDE DEF new
<1>13. MapShape(n)
  <2>1. \A i \in 1..Len(n.pairs) : \A a \in Strings : n.pairs[i].mode[a] # "borrow" => n.pairs[i][a] \in Heap
    BY <1>0, <1>3, <1>7, <1>12 DEF Fit, MapShape
  <2>2. Len(n.pairs) <= n.size
    BY <1>1, <1>2, <1>3 DEF m, MapType
  <2> QED
    BY <1>2, <1>4, <2>1, <2>2 DEF Fit, MapShape
<1>14. MapApart(n)
  <2>1. ASSUME NEW i \in 1..Len(n.pairs), NEW j \in 1..Len(n.pairs), NEW a \in Strings, NEW c \in Strings,
               StringAt(n, i, a) # 0, StringAt(n, i, a) = StringAt(n, j, c)
        PROVE  i = j /\ a = c
    <3>1. \A x \in 1..Len(t.pairs), y \in Strings : StringAt(n, x, y) # 0 => StringAt(n, x, y) \in MapBlocks(t)
      <4>1. ASSUME NEW x \in 1..Len(t.pairs), NEW y \in Strings, StringAt(n, x, y) # 0
            PROVE  StringAt(n, x, y) \in MapBlocks(t)
        <5>1. <<x, y>> \in (1..Len(t.pairs)) \X Strings /\ StringAt(t, <<x, y>>[1], <<x, y>>[2]) = StringAt(n, x, y)
          BY <1>5
        <5> QED
          BY <4>1, <5>1 DEF StringBlocks, MapBlocks
      <4> QED
        BY <4>1
    <3>2. \A y \in Strings : StringAt(n, m, y) # 0 => StringAt(n, m, y) \notin MapBlocks(t)
      BY <1>0, <1>6
    <3>3. CASE i \in 1..Len(t.pairs) /\ j \in 1..Len(t.pairs)
      BY <1>5, <2>1, <3>3 DEF Fit, MapApart
    <3>4. CASE i = m /\ j = m
      BY <1>6, <2>1, <3>4 DEF Strings, Sound
    <3> QED
      BY <1>7, <2>1, <3>1, <3>2, <3>3, <3>4
  <2>2. StringBlocks(n) \cap TableBlocks(n) = {} /\ n.struct \notin StringBlocks(n) \cup TableBlocks(n)
    BY <1>2, <1>9, <1>10, <1>12 DEF Fit, MapApart, MapBlocks
  <2>3. \A a, c \in Names : n.arr[a] # 0 /\ n.arr[a] = n.arr[c] => a = c
    BY <1>2 DEF Fit, MapApart
  <2>4. \A i, j \in 1..Len(n.pairs) : \A a, c \in Strings :
          StringAt(n, i, a) # 0 /\ StringAt(n, i, a) = StringAt(n, j, c) => i = j /\ a = c
    BY <2>1
  <2> QED
    BY <2>2, <2>3, <2>4 DEF MapApart
<1>15. h2 = MapBlocks(n) \cup left /\ MapBlocks(n) \cap left = {} /\ left \subseteq Heap
  <2>1. h2 = MapBlocks(t) \cup left \cup new /\ new \cap left = {}
    BY DEF new
  <2> QED
    BY <1>11, <2>1 DEF Fit
<1> QED
  BY <1>2, <1>3, <1>4, <1>13, <1>14, <1>15 DEF Fit, m, n, new

\* What additions leave: a map of at most n pairs more.
Gained(r, t, left, n) == /\ Fit(r.h, r.t, left) /\ r.h \in SUBSET Heap
                         /\ r.t.up = t.up /\ Len(r.t.pairs) <= Len(t.pairs) + n

\* What is added belongs to the map, or the heap is as it was.
LEMMA AddedFits ==
  ASSUME ContainersAssumption, NEW h \in SUBSET Heap, NEW t, NEW rest, Fit(h, t, rest), NEW got,
         NEW mode \in [key : Modes, value : Modes], NEW gift, NEW dups,
         \A a \in Strings : IF mode[a] = "free" THEN gift[a] \in rest ELSE gift[a] = 0,
         mode.key = "free" => gift.key # gift.value
  PROVE  LET r == Added(h, t, mode, gift, got, dups)
         IN  Gained(r, t, IF r.ok THEN rest \ {gift.key, gift.value} ELSE rest, 1)
<1> DEFINE r == IF Len(t.pairs) >= t.size THEN Grown(h, t, got) ELSE [ok |-> TRUE, h |-> h, t |-> t]
           k == IF mode.key = "dup" THEN Allocate(r.h, dups.key) ELSE gift.key
           v == IF mode.value = "dup" THEN Allocate(Taken(r.h, k), dups.value) ELSE gift.value
           own == (IF mode.key = "dup" THEN {k} ELSE {}) \cup (IF mode.value = "dup" THEN {v} ELSE {})
           p == [key |-> k, value |-> v, mode |-> mode]
           n == WithPair(r.t, p)
           res == Added(h, t, mode, gift, got, dups)
           left == rest \ {gift.key, gift.value}
<1>1. t \in MapType /\ Len(t.pairs) \in Nat /\ t.size \in Nat /\ Len(t.pairs) <= t.size
  BY DEF Fit, MapShape, MapType
<1>2. /\ r \in ResultType /\ Fit(r.h, r.t, rest) /\ r.t.pairs = t.pairs /\ r.t.up = t.up /\ r.t.struct = t.struct
      /\ r.ok => Len(r.t.pairs) < r.t.size
  <2>1. CASE Len(t.pairs) >= t.size
    <3>1. r = Grown(h, t, got)
      BY <2>1
    <3> HIDE DEF r
    <3>2. r \in ResultType /\ Fit(r.h, r.t, rest) /\ r.t.pairs = t.pairs /\ r.t.up = t.up /\ r.t.struct = t.struct
          /\ (r.ok => t.size < r.t.size)
      BY <3>1, GrownFits
    <3>3. r.t.size \in Nat
      BY <3>2 DEF ResultType, MapType
    <3> QED
      BY <1>1, <3>2, <3>3
  <2>2. CASE ~(Len(t.pairs) >= t.size)
    <3>1. r = [ok |-> TRUE, h |-> h, t |-> t]
      BY <2>2
    <3> HIDE DEF r
    <3> QED
      BY <1>1, <2>2, <3>1 DEF ResultType
  <2> QED
    BY <2>1, <2>2
<1>3. res = IF ~r.ok THEN r
            ELSE IF 0 \in own THEN [r EXCEPT !.ok = FALSE, !.h = Freed(@, own)]
            ELSE [r EXCEPT !.h = Taken(Taken(@, k), v), !.t.pairs = Append(@, p)]
  BY DEF Added
<1> HIDE DEF r, res
<1>4. CASE ~r.ok
  <2>1. res = r
    BY <1>3, <1>4
  <2> QED
    BY <1>1, <1>2, <1>4, <2>1 DEF res, Gained, ResultType
<1>5. CASE r.ok
  <2>1. r.h \in SUBSET Heap /\ r.t \in MapType /\ r.h = MapBlocks(r.t) \cup rest /\ MapBlocks(r.t) \cap rest = {}
        /\ rest \subseteq Heap /\ 0 \notin Heap
    BY <1>2, HeapIs DEF ResultType, Fit
  <2>2. /\ mode.key = "dup" => k \in (Heap \ r.h) \cup {0}
        /\ mode.key = "free" => k = gift.key /\ k \in rest
        /\ mode.key = "borrow" => k = 0 /\ gift.key = 0
        /\ mode.key # "free" => gift.key = 0
    <3>1. mode.key = "dup" => k \in (Heap \ r.h) \cup {0}
      BY AllocateIs
    <3> QED
      BY <3>1 DEF Strings
  <2>3. /\ mode.value = "dup" => v \in (Heap \ Taken(r.h, k)) \cup {0}
        /\ mode.value = "free" => v = gift.value /\ v \in rest
        /\ mode.value = "borrow" => v = 0 /\ gift.value = 0
        /\ mode.value # "free" => gift.value = 0
    <3>1. mode.value = "dup" => v \in (Heap \ Taken(r.h, k)) \cup {0}
      <4> HIDE DEF k
      <4> QED
        BY AllocateIs
    <3> HIDE DEF k
    <3> QED
      BY <3>1 DEF Strings
  <2>4. mode.key \in {"borrow", "dup", "free"} /\ mode.value \in {"borrow", "dup", "free"}
    BY DEF Modes
  <2>5. own = (IF mode.key = "dup" THEN {k} ELSE {}) \cup (IF mode.value = "dup" THEN {v} ELSE {})
    OBVIOUS
  <2> HIDE DEF k, v, own
  <2>6. CASE 0 \in own
    <3>1. res = [r EXCEPT !.ok = FALSE, !.h = Freed(@, own)]
      BY <1>3, <1>5, <2>6
    <3>2. r.h \ own = r.h
      BY <2>1, <2>2, <2>3, <2>5 DEF Taken
    <3>3. res.ok = FALSE /\ res.h = r.h /\ res.t = r.t /\ res \in ResultType
      BY <1>2, <3>1, <3>2 DEF ResultType, Freed
    <3> QED
      BY <1>1, <1>2, <3>3 DEF res, Gained, ResultType
  <2>7. CASE 0 \notin own
    <3>1. /\ mode.key # "borrow" => k \in Heap /\ k \notin MapBlocks(r.t) /\ k \notin left
          /\ mode.value # "borrow" => v \in Heap /\ v \notin MapBlocks(r.t) /\ v \notin left
      BY <2>1, <2>2, <2>3, <2>4, <2>5, <2>7 DEF Taken
    <3>2. mode.key # "borrow" /\ mode.value # "borrow" => k # v
      <4>1. CASE mode.value = "dup"
        BY <2>1, <2>2, <2>3, <2>4, <2>5, <2>7, <4>1 DEF Taken
      <4>2. CASE mode.value = "free"
        BY <2>1, <2>2, <2>3, <2>4, <2>5, <2>7, <4>2
      <4> QED
        BY <2>4, <4>1, <4>2
    <3>3. p \in Pair /\ p.mode = mode /\ p["key"] = k /\ p["value"] = v
      BY <2>1, <2>2, <2>3, <2>4 DEF Pair
    <3> HIDE DEF p
    <3> DEFINE h2 == Taken(Taken(r.h, k), v)
               new == NewStrings(p)
    <3>4. new = (IF mode.key # "borrow" THEN {k} ELSE {}) \cup (IF mode.value # "borrow" THEN {v} ELSE {})
      BY <3>3 DEF Strings, NewStrings
    <3> HIDE DEF new
    <3>5. h2 = MapBlocks(r.t) \cup left \cup new
      BY <2>1, <2>2, <2>3, <2>4, <3>1, <3>4 DEF Taken
    <3>6. new \subseteq Heap /\ new \cap MapBlocks(r.t) = {} /\ new \cap left = {}
      BY <3>1, <3>4
    <3>7. Sound(p)
      BY <3>2, <3>3 DEF Sound
    <3>8. Fit(h2, n, left) /\ n \in MapType /\ n.up = r.t.up /\ n.struct = r.t.struct /\ Len(n.pairs) = Len(r.t.pairs) + 1
      <4>1. Len(r.t.pairs) < r.t.size /\ left \subseteq rest
        BY <1>2, <1>5
      <4> HIDE DEF left, h2
      <4>2. p \in Pair
        BY <3>3
      <4>3. NewStrings(p) \subseteq Heap /\ NewStrings(p) \cap MapBlocks(r.t) = {} /\ NewStrings(p) \cap left = {}
        BY <3>6 DEF new
      <4>4. Fit(r.h, r.t, rest) /\ r.h \in SUBSET Heap
        BY <1>2, <2>1
      <4>5. /\ Fit(MapBlocks(r.t) \cup left \cup NewStrings(p), WithPair(r.t, p), left)
            /\ WithPair(r.t, p) \in MapType /\ WithPair(r.t, p).up = r.t.up /\ WithPair(r.t, p).struct = r.t.struct
            /\ Len(WithPair(r.t, p).pairs) = Len(r.t.pairs) + 1
        BY <3>7, <4>1, <4>2, <4>3, <4>4, PairFits
      <4> QED
        BY <3>5, <4>5 DEF new
    <3>9. res = [r EXCEPT !.h = h2, !.t = n]
      <4>1. res = [r EXCEPT !.h = Taken(Taken(@, k), v), !.t.pairs = Append(@, p)]
        BY <1>3, <1>5, <2>7 DEF p
      <4> QED
        BY <1>2, <4>1 DEF ResultType, WithPair
    <3>10. h2 \in SUBSET Heap
      BY <3>8, MapBlocksIn DEF Fit
    <3>11. res \in ResultType /\ res.ok /\ res.h = h2 /\ res.t = n
      <4> HIDE DEF h2, n
      <4> QED
        BY <1>2, <1>5, <3>8, <3>9, <3>10 DEF ResultType
    <3> HIDE DEF h2, n
    <3> QED
      BY <1>1, <1>2, <3>8, <3>11 DEF res, Gained, ResultType
  <2> QED
    BY <2>6, <2>7
<1> QED
  BY <1>4, <1>5

\* The maps that own nothing but their structure.
Bare(up, s) == [up |-> up, struct |-> s, arr |-> [a \in Names |-> 0], cap |-> [a \in Names |-> 0],
                size |-> 0, pairs |-> <<>>]

\* The maps of the model that own no array.
LEMMA BareIs == /\ NoMap = Bare(FALSE, 0)
                /\ \A t \in MapType : TextMapEmptied(t) = Bare(TRUE, t.struct)
<1>1. NoMap = Bare(FALSE, 0)
  BY NamesAre DEF NoMap, Bare
<1>2. ASSUME NEW t \in MapType PROVE TextMapEmptied(t) = Bare(TRUE, t.struct)
  <2>1. TextMapEmptied(t) = [Bare(FALSE, 0) EXCEPT !.up = TRUE, !.struct = t.struct]
    BY <1>1 DEF TextMapEmptied
  <2> QED
    BY <2>1 DEF Bare
<1> QED
  BY <1>1, <1>2

\* A map without arrays and pairs owns its structure.
LEMMA BareFits ==
  ASSUME ContainersAssumption, NEW up \in BOOLEAN, NEW s \in Heap \cup {0}, NEW rest, rest \subseteq Heap, s \notin rest
  PROVE  Fit(rest \cup ({s} \ {0}), Bare(up, s), rest)
<1> DEFINE t == Bare(up, s)
<1>1. t.struct = s /\ t.arr = [a \in Names |-> 0] /\ t.cap = [a \in Names |-> 0] /\ t.size = 0 /\ t.pairs = <<>> /\ t.up = up
  BY DEF Bare
<1>2. t \in MapType
  <2>1. <<>> \in Seq(Pair)
    OBVIOUS
  <2> QED
    BY <2>1 DEF Bare, MapType
<1> HIDE DEF t
<1>3. Len(t.pairs) = 0 /\ 1..Len(t.pairs) = {}
  BY <1>1
<1>4. StringBlocks(t) = {} /\ TableBlocks(t) = {}
  BY <1>1, <1>3 DEF StringBlocks, TableBlocks
<1>5. MapBlocks(t) = {s} \ {0}
  BY <1>1, <1>4 DEF MapBlocks
<1>6. MapApart(t)
  BY <1>1, <1>3, <1>4 DEF MapApart
<1>7. MapShape(t)
  BY <1>1, <1>2, <1>3 DEF MapShape
<1> QED
  BY <1>5, <1>6, <1>7 DEF Fit, t

\* What otelc_text_map_free() and otelc_text_map_destroy() leave of the heap.
LEMMA FreedIs ==
  ASSUME ContainersAssumption, NEW h, NEW t \in MapType, MapApart(t), NEW rest, rest \subseteq Heap,
         h = MapBlocks(t) \cup rest, MapBlocks(t) \cap rest = {},
         \A i \in 1..Len(t.pairs) : \A a \in Strings : t.pairs[i].mode[a] # "borrow" => t.pairs[i][a] \in Heap,
         Len(t.pairs) > 0 => \A a \in Names : t.arr[a] # 0
  PROVE  TextMapFreed(h, t) = rest \cup ({t.struct} \ {0}) /\ TextMapDestroyed(h, t) = rest
<1>0. 0 \notin Heap
  BY HeapIs
<1>1. t.pairs \in Seq(Pair) /\ Len(t.pairs) \in Nat /\ t.arr \in [Names -> Heap \cup {0}] /\ t.struct \in Heap \cup {0}
  BY DEF MapType
<1>2. ToSet(t.pairs) = {t.pairs[i] : i \in 1..Len(t.pairs)}
  <2> HIDE DEF Pair
  <2> QED
    BY <1>1 DEF ToSet
<1>3. ASSUME NEW x \in PairsReleased(t) PROVE x \in StringBlocks(t)
  <2>1. t.arr["flags"] # 0
    BY <1>3 DEF PairsReleased
  <2>2. PICK a \in Strings : \E q \in ToSet(t.pairs) : q.mode[a] # "borrow" /\ x = q[a]
    BY <1>3, <2>1 DEF PairsReleased, Strings
  <2>3. PICK i \in 1..Len(t.pairs) : t.pairs[i].mode[a] # "borrow" /\ x = t.pairs[i][a]
    BY <1>2, <2>2
  <2>4. <<i, a>> \in (1..Len(t.pairs)) \X Strings /\ x = StringAt(t, <<i, a>>[1], <<i, a>>[2]) /\ x # 0
    BY <1>0, <2>3 DEF StringAt
  <2> QED
    BY <2>4 DEF StringBlocks
<1>4. ASSUME NEW x \in StringBlocks(t) PROVE x \in PairsReleased(t)
  <2>1. PICK s \in (1..Len(t.pairs)) \X Strings : x = StringAt(t, s[1], s[2]) /\ x # 0
    BY <1>4 DEF StringBlocks
  <2>2. PICK i \in 1..Len(t.pairs), a \in Strings : t.pairs[i].mode[a] # "borrow" /\ x = t.pairs[i][a]
    BY <2>1 DEF StringAt
  <2>3. t.arr["flags"] # 0 /\ t.arr[a] # 0
    BY <1>1, <2>2 DEF Names, Strings
  <2>4. t.pairs[i] \in {q \in ToSet(t.pairs) : q.mode[a] # "borrow"}
    BY <1>2, <2>2
  <2>5. x \in {p[a] : p \in {q \in ToSet(t.pairs) : q.mode[a] # "borrow"}}
    BY <2>2, <2>4
  <2>6. a \in {b \in {"key", "value"} : t.arr[b] # 0}
    BY <2>3 DEF Strings
  <2> QED
    BY <2>3, <2>5, <2>6 DEF PairsReleased
<1>5. PairsReleased(t) = StringBlocks(t)
  BY <1>3, <1>4
<1>6. {t.arr[a] : a \in DOMAIN t.arr} \ {0} = TableBlocks(t)
  BY <1>1 DEF TableBlocks
<1>7. TextMapFreed(h, t) = h \ (StringBlocks(t) \cup {t.arr[a] : a \in DOMAIN t.arr})
  BY <1>5 DEF TextMapFreed, Freed
<1>8. TextMapFreed(h, t) = h \ (StringBlocks(t) \cup TableBlocks(t))
  <2>1. 0 \notin h
    <3>1. 0 \notin MapBlocks(t)
      BY DEF MapBlocks, StringBlocks, TableBlocks
    <3> QED
      BY <1>0, <3>1
  <2> QED
    BY <1>6, <1>7, <2>1
<1>9. TextMapFreed(h, t) = rest \cup ({t.struct} \ {0})
  BY <1>8 DEF MapBlocks, MapApart
<1>10. t.struct \notin rest
  BY <1>0, <1>1 DEF MapBlocks
<1> QED
  BY <1>0, <1>9, <1>10 DEF TextMapDestroyed, Freed

\* A map that holds its pairs meets that.
LEMMA FitFreed ==
  ASSUME ContainersAssumption, NEW h, NEW t, NEW rest, Fit(h, t, rest)
  PROVE  /\ TextMapFreed(h, t) = rest \cup ({t.struct} \ {0}) /\ TextMapDestroyed(h, t) = rest
         /\ t \in MapType /\ t.struct \in Heap \cup {0} /\ t.struct \notin rest
<1>1. t \in MapType /\ Len(t.pairs) \in Nat /\ t.size \in Nat /\ t.cap \in [Names -> Nat] /\ t.struct \in Heap \cup {0}
  BY DEF Fit, MapShape, MapType
<1>2. Len(t.pairs) > 0 => \A a \in Names : t.arr[a] # 0
  <2>1. ASSUME Len(t.pairs) > 0, NEW a \in Names PROVE t.arr[a] # 0
    <3>1. Len(t.pairs) <= t.size /\ t.size <= t.cap[a] /\ t.cap[a] \in Nat /\ (t.arr[a] = 0 => t.cap[a] = 0)
      BY <1>1 DEF Fit, MapShape
    <3> QED
      BY <1>1, <2>1, <3>1
  <2> QED
    BY <2>1
<1>3. t.struct \notin rest
  BY <1>1, HeapIs DEF Fit, MapBlocks
<1> QED
  BY <1>1, <1>2, <1>3, FreedIs DEF Fit, MapShape

\* The arrays of a new map.
TableType      == [h : SUBSET Heap, arr : [Names -> Heap \cup {0}]]
TableFit(r, b) == /\ r \in TableType
                  /\ r.h = b \cup ({r.arr[a] : a \in Names} \ {0})
                  /\ \A a, c \in Names : r.arr[a] # 0 => r.arr[a] \notin b /\ (r.arr[a] = r.arr[c] => a = c)

\* One array more, or the failure of its allocation.
LEMMA NewArrayFits ==
  ASSUME ContainersAssumption, NEW b, NEW r, TableFit(r, b), NEW i \in 1..3, NEW got, r.arr[Arrays[i]] = 0
  PROVE  LET n == NewArray(r, i, got)
         IN  TableFit(n, b) /\ \A a \in Names \ {Arrays[i]} : n.arr[a] = r.arr[a]
<1> DEFINE x == Allocate(r.h, i <= got)
           arr == [r.arr EXCEPT ![Arrays[i]] = x]
<1>1. Arrays[i] \in Names /\ r.arr \in [Names -> Heap \cup {0}] /\ r.h \in SUBSET Heap
  BY NamesAre DEF Names, TableFit, TableType
<1>2. x \in (Heap \ r.h) \cup {0}
  BY AllocateIs
<1>3. NewArray(r, i, got) = [h |-> Taken(r.h, x), arr |-> arr]
  BY DEF NewArray
<1> HIDE DEF x
<1>4. arr[Arrays[i]] = x /\ (\A a \in Names \ {Arrays[i]} : arr[a] = r.arr[a]) /\ arr \in [Names -> Heap \cup {0}]
  BY <1>1, <1>2
<1> HIDE DEF arr
<1>5. {arr[a] : a \in Names} \ {0} = ({r.arr[a] : a \in Names} \ {0}) \cup ({x} \ {0})
  BY <1>1, <1>4
<1>6. Taken(r.h, x) = b \cup ({arr[a] : a \in Names} \ {0}) /\ Taken(r.h, x) \in SUBSET Heap
  BY <1>1, <1>2, <1>5 DEF Taken, TableFit
<1>7. ASSUME NEW a \in Names, NEW c \in Names, arr[a] # 0
      PROVE arr[a] \notin b /\ (arr[a] = arr[c] => a = c)
  <2>1. \A y \in Names : r.arr[y] # 0 => r.arr[y] \in r.h
    BY DEF TableFit
  <2>2. b \subseteq r.h
    BY DEF TableFit
  <2> QED
    BY <1>2, <1>4, <1>7, <2>1, <2>2 DEF TableFit
<1>8. NewArray(r, i, got) \in TableType
  BY <1>3, <1>4, <1>6 DEF TableType
<1> QED
  BY <1>3, <1>4, <1>6, <1>7, <1>8 DEF TableFit

\* The arrays of a new map, and the map.
TableOf(b, s, size, got) ==
    LET none == [h |-> Taken(b, s), arr |-> NoMap.arr]
    IN  IF size = 0 THEN none ELSE NewArray(NewArray(NewArray(none, 1, got), 2, got), 3, got)
MapOf(s, size, all) ==
    [NoMap EXCEPT !.up = TRUE, !.struct = s, !.size = size, !.arr = all.arr,
                  !.cap = [a \in DOMAIN @ |-> IF all.arr[a] = 0 THEN 0 ELSE size]]
TableFails(size, all) == size > 0 /\ \E a \in DOMAIN all.arr : all.arr[a] = 0

\* A new map owns what was allocated for it; one that failed leaves nothing.
LEMMA NewFits ==
  ASSUME ContainersAssumption, NEW rest, rest \subseteq Heap, NEW s \in Heap \cup {0}, s \notin rest,
         NEW size \in Nat, NEW got
  PROVE  LET all == TableOf(rest, s, size, got)
             new == MapOf(s, size, all)
         IN  /\ TableFails(size, all) => TextMapDestroyed(all.h, new) = rest
             /\ ~TableFails(size, all) => Fit(all.h, new, rest)
             /\ new.up /\ new.pairs = <<>>
<1> DEFINE none == [h |-> Taken(rest, s), arr |-> NoMap.arr]
           one  == NewArray(none, 1, got)
           two  == NewArray(one, 2, got)
           thr  == NewArray(two, 3, got)
           all  == IF size = 0 THEN none ELSE thr
           new  == [NoMap EXCEPT !.up = TRUE, !.struct = s, !.size = size, !.arr = all.arr,
                                 !.cap = [a \in DOMAIN @ |-> IF all.arr[a] = 0 THEN 0 ELSE size]]
           fail == size > 0 /\ \E a \in DOMAIN all.arr : all.arr[a] = 0
           base == rest \cup ({s} \ {0})
<1>1. NoMap = Bare(FALSE, 0)
  BY BareIs
<1>2. TableFit(none, base) /\ \A a \in Names : none.arr[a] = 0
  <2>1. none.arr = [a \in Names |-> 0]
    BY <1>1 DEF Bare
  <2>2. none.h = base /\ base \in SUBSET Heap
    BY DEF Taken
  <2>3. none \in TableType
    BY <2>1, <2>2 DEF TableType
  <2> HIDE DEF none, base
  <2> QED
    BY <2>1, <2>2, <2>3 DEF TableFit
<1> HIDE DEF none, base
<1>3. TableFit(one, base) /\ \A a \in Names \ {Arrays[1]} : one.arr[a] = 0
  BY <1>2, NewArrayFits, NamesAre DEF Names
<1> HIDE DEF one
<1>4. TableFit(two, base) /\ \A a \in Names \ {Arrays[1], Arrays[2]} : two.arr[a] = 0
  BY <1>3, NewArrayFits, NamesAre DEF Names
<1> HIDE DEF two
<1>5. TableFit(thr, base)
  <2>1. two.arr[Arrays[3]] = 0 /\ 3 \in 1..3
    BY <1>4, NamesAre DEF Names
  <2> QED
    BY <1>4, <2>1, NewArrayFits
<1> HIDE DEF thr
<1>6. TableFit(all, base) /\ (size = 0 => \A a \in Names : all.arr[a] = 0)
  BY <1>2, <1>5
<1>7. all = IF size = 0 THEN none ELSE NewArray(NewArray(NewArray(none, 1, got), 2, got), 3, got)
  BY DEF thr, two, one
<1> HIDE DEF all
<1>8. all.arr \in [Names -> Heap \cup {0}] /\ all.h \in SUBSET Heap
  BY <1>6 DEF TableFit, TableType
<1> DEFINE cap == [a \in Names |-> IF all.arr[a] = 0 THEN 0 ELSE size]
<1>9. new = [up |-> TRUE, struct |-> s, arr |-> all.arr, cap |-> cap, size |-> size, pairs |-> <<>>]
  <2>1. DOMAIN NoMap.cap = Names
    BY <1>1 DEF Bare
  <2>2. new = [NoMap EXCEPT !.up = TRUE, !.struct = s, !.size = size, !.arr = all.arr, !.cap = cap]
    BY <2>1
  <2> HIDE DEF cap, new
  <2> QED
    BY <1>1, <2>2 DEF Bare
<1>10. cap \in [Names -> Nat] /\ \A a \in Names : cap[a] = IF all.arr[a] = 0 THEN 0 ELSE size
  OBVIOUS
<1> HIDE DEF cap, new
<1>11. /\ new.up = TRUE /\ new.struct = s /\ new.arr = all.arr /\ new.cap = cap /\ new.size = size /\ new.pairs = <<>>
       /\ new \in MapType /\ Len(new.pairs) = 0 /\ 1..Len(new.pairs) = {}
  <2>1. <<>> \in Seq(Pair) /\ Len(<<>>) = 0
    OBVIOUS
  <2>2. new \in MapType
    BY <1>8, <1>9, <1>10, <2>1 DEF MapType
  <2>3. /\ new.up = TRUE /\ new.struct = s /\ new.arr = all.arr /\ new.cap = cap /\ new.size = size
        /\ new.pairs = <<>>
    BY <1>9
  <2> QED
    BY <2>1, <2>2, <2>3
<1>12. StringBlocks(new) = {} /\ TableBlocks(new) = {all.arr[a] : a \in Names} \ {0}
  BY <1>11 DEF StringBlocks, TableBlocks
<1>13. \A a \in Names : all.arr[a] # 0 => all.arr[a] \notin base
  BY <1>6 DEF TableFit
<1>14. MapApart(new)
  <2>1. new.struct \notin TableBlocks(new)
    BY <1>11, <1>12, <1>13 DEF base
  <2>2. \A a, c \in Names : new.arr[a] # 0 /\ new.arr[a] = new.arr[c] => a = c
    BY <1>6, <1>11 DEF TableFit
  <2> QED
    BY <1>11, <1>12, <2>1, <2>2 DEF MapApart
<1>15. MapBlocks(new) \cup rest = all.h /\ MapBlocks(new) \cap rest = {}
  <2>1. MapBlocks(new) = TableBlocks(new) \cup ({s} \ {0})
    BY <1>11, <1>12 DEF MapBlocks
  <2>2. all.h = base \cup TableBlocks(new)
    BY <1>6, <1>12 DEF TableFit
  <2>3. TableBlocks(new) \cap rest = {}
    BY <1>12, <1>13 DEF base
  <2> QED
    BY <2>1, <2>2, <2>3 DEF base
<1>16. TextMapDestroyed(all.h, new) = rest
  BY <1>11, <1>14, <1>15, FreedIs
<1>17. ~fail => Fit(all.h, new, rest)
  <2> SUFFICES ASSUME ~fail PROVE Fit(all.h, new, rest)
    OBVIOUS
  <2>1. DOMAIN all.arr = Names
    BY <1>8
  <2>2. \A a \in Names : new.size <= new.cap[a] /\ (new.arr[a] = 0 => new.cap[a] = 0)
    <3>1. ASSUME NEW a \in Names PROVE size <= cap[a] /\ (all.arr[a] = 0 => cap[a] = 0)
      BY <1>10, <2>1
    <3> QED
      BY <1>11, <3>1
  <2>3. MapShape(new)
    BY <1>11, <2>2 DEF MapShape
  <2> QED
    BY <1>14, <1>15, <2>3 DEF Fit
<1>18. all = TableOf(rest, s, size, got)
  BY <1>7 DEF TableOf, none
<1>19. new = MapOf(s, size, all) /\ (fail <=> TableFails(size, all))
  BY DEF MapOf, TableFails, new
<1> HIDE DEF fail
<1> QED
  BY <1>11, <1>16, <1>17, <1>18, <1>19

-----------------------------------------------------------------------------
(* Containers: the arrays *)

Fields   == {"key", "data"}
Types    == {"data", "bool", "int32", "int64", "uint32", "uint64", "double"}
Item     == [key : Heap \cup {0}, data : Heap \cup {0}, type : Types, num : Int, text : Int]
ListType == [block : Heap \cup {0}, cap : Nat, items : Seq(Item)]

\* What an array owns, each block once.
FieldBlocks(l) == {l.items[s[1]][s[2]] : s \in (1..Len(l.items)) \X Fields} \ {0}
ListBlocks(l)  == FieldBlocks(l) \cup ({l.block} \ {0})
ListFits(l) ==
    /\ l \in ListType /\ Len(l.items) <= l.cap
    /\ \A i \in 1..Len(l.items) : l.items[i].type # "data" => l.items[i].data = 0
    /\ \A i, j \in 1..Len(l.items) : \A a, c \in Fields :
         l.items[i][a] # 0 /\ l.items[i][a] = l.items[j][c] => i = j /\ a = c
    /\ l.block \notin FieldBlocks(l)

\* An array that owns just the blocks bs.
ListWith(l, bs) == ListFits(l) /\ ListBlocks(l) = bs

\* What an array owns are blocks.
LEMMA ListBlocksIn == ASSUME NEW l, ListFits(l) PROVE ListBlocks(l) \subseteq Heap
<1>1. l.items \in Seq(Item) /\ l.block \in Heap \cup {0}
  BY DEF ListFits, ListType
<1>2. \A i \in 1..Len(l.items) : l.items[i] \in Item
  <2> HIDE DEF Item
  <2> QED
    BY <1>1
<1>3. \A i \in 1..Len(l.items) : \A a \in Fields : l.items[i][a] \in Heap \cup {0}
  BY <1>2 DEF Item, Fields
<1> QED
  BY <1>1, <1>3 DEF ListBlocks, FieldBlocks

\* No array owns nothing.
LEMMA NoListFits == ListFits(NoList) /\ ListBlocks(NoList) = {}
<1>1. <<>> \in Seq(Item) /\ Len(<<>>) = 0 /\ 1..0 = {}
  OBVIOUS
<1>2. NoList.block = 0 /\ NoList.cap = 0 /\ NoList.items = <<>> /\ NoList \in ListType
  <2> HIDE DEF Item
  <2> QED
    BY <1>1 DEF NoList, ListType
<1>3. FieldBlocks(NoList) = {}
  BY <1>1, <1>2 DEF FieldBlocks
<1> QED
  BY <1>1, <1>2, <1>3 DEF ListFits, ListBlocks

\* The array has grown, and has one item more or not.
LEMMA GrowFits ==
  ASSUME NEW l, ListFits(l), NEW b \in Heap, l.block # 0 => b = l.block, l.block = 0 => b \notin ListBlocks(l),
         0 \notin Heap
  PROVE  LET n == [block |-> b, cap |-> Len(l.items) + 1, items |-> l.items]
         IN  ListFits(n) /\ ListBlocks(n) = ListBlocks(l) \cup {b} /\ FieldBlocks(n) = FieldBlocks(l)
<1> DEFINE n == [block |-> b, cap |-> Len(l.items) + 1, items |-> l.items]
<1>1. l \in ListType /\ l.items \in Seq(Item) /\ Len(l.items) \in Nat
  BY DEF ListFits, ListType
<1>2. n.block = b /\ n.cap = Len(l.items) + 1 /\ n.items = l.items /\ n \in ListType
  BY <1>1 DEF ListType
<1> HIDE DEF n
<1>3. FieldBlocks(n) = FieldBlocks(l)
  BY <1>2 DEF FieldBlocks
<1>4. b \notin FieldBlocks(l)
  BY DEF ListFits, ListBlocks
<1>5. Len(n.items) <= n.cap
  BY <1>1, <1>2
<1>6. ListFits(n)
  BY <1>2, <1>3, <1>4, <1>5 DEF ListFits
<1>7. ListBlocks(n) = ListBlocks(l) \cup {b}
  BY <1>2, <1>3 DEF ListBlocks
<1> QED
  BY <1>3, <1>6, <1>7 DEF n

\* The array with the key k and the data d at its end.
Appended(l, b, cap, k, d) ==
    [block |-> b, cap |-> cap, items |-> Append(l.items, [key |-> k, data |-> d, type |-> "data", num |-> 0, text |-> 0])]

\* One item more owns its key and its data.
LEMMA AppendFits ==
  ASSUME NEW l, ListFits(l), 0 \notin Heap, NEW b \in Heap, l.block = b, NEW k \in Heap \cup {0}, NEW d \in Heap \cup {0},
         k \notin ListBlocks(l), d \notin ListBlocks(l), k # 0 => k # d, NEW cap \in Nat, Len(l.items) < cap
  PROVE  ListWith(Appended(l, b, cap, k, d), ListBlocks(l) \cup ({k, d} \ {0}))
<1> DEFINE x == [key |-> k, data |-> d, type |-> "data", num |-> 0, text |-> 0]
           n == [block |-> b, cap |-> cap, items |-> Append(l.items, x)]
           m == Len(l.items) + 1
<1>1. l \in ListType /\ l.items \in Seq(Item) /\ Len(l.items) \in Nat
  BY DEF ListFits, ListType
<1>2. x \in Item /\ x["key"] = k /\ x["data"] = d /\ x.type = "data"
  BY DEF Item, Types
<1> HIDE DEF x
<1>3. n.block = b /\ n.cap = cap /\ n.items = Append(l.items, x)
  OBVIOUS
<1>4. /\ n.items \in Seq(Item) /\ Len(n.items) = m /\ n.items[m] = x
      /\ \A i \in 1..Len(l.items) : n.items[i] = l.items[i]
  <2> HIDE DEF Item
  <2> QED
    BY <1>1, <1>2, <1>3
<1>5. n \in ListType
  BY <1>3, <1>4 DEF ListType
<1> HIDE DEF n, m
<1>6. /\ \A i : i \in 1..Len(n.items) <=> i \in 1..Len(l.items) \/ i = m
      /\ m \notin 1..Len(l.items)
  BY <1>1, <1>4 DEF m
<1>7. FieldBlocks(n) = FieldBlocks(l) \cup ({k, d} \ {0})
  <2>1. ASSUME NEW i \in 1..Len(l.items), NEW a \in Fields
        PROVE n.items[i][a] = l.items[i][a] /\ i \in 1..Len(n.items)
    BY <1>4, <1>6
  <2>2. ASSUME NEW y \in FieldBlocks(n) PROVE y \in FieldBlocks(l) \cup ({k, d} \ {0})
    <3>1. PICK s \in (1..Len(n.items)) \X Fields : y = n.items[s[1]][s[2]] /\ y # 0
      BY <2>2 DEF FieldBlocks
    <3>2. CASE s[1] \in 1..Len(l.items)
      <4>1. s \in (1..Len(l.items)) \X Fields /\ y = l.items[s[1]][s[2]]
        BY <2>1, <3>1, <3>2
      <4> QED
        BY <3>1, <4>1 DEF FieldBlocks
    <3>3. CASE s[1] = m
      BY <1>2, <1>4, <3>1, <3>3 DEF Fields
    <3> QED
      BY <1>6, <3>1, <3>2, <3>3
  <2>3. ASSUME NEW y \in FieldBlocks(l) PROVE y \in FieldBlocks(n)
    <3>1. PICK s \in (1..Len(l.items)) \X Fields : y = l.items[s[1]][s[2]] /\ y # 0
      BY <2>3 DEF FieldBlocks
    <3>2. s \in (1..Len(n.items)) \X Fields /\ y = n.items[s[1]][s[2]]
      BY <2>1, <3>1
    <3> QED
      BY <3>1, <3>2 DEF FieldBlocks
  <2>4. ASSUME NEW a \in Fields, x[a] # 0 PROVE x[a] \in FieldBlocks(n)
    <3>1. <<m, a>> \in (1..Len(n.items)) \X Fields /\ n.items[<<m, a>>[1]][<<m, a>>[2]] = x[a]
      BY <1>4, <1>6
    <3> QED
      BY <2>4, <3>1 DEF FieldBlocks
  <2>5. {k, d} \ {0} \subseteq FieldBlocks(n)
    BY <1>2, <2>4 DEF Fields
  <2> QED
    BY <2>2, <2>3, <2>5
<1>8. ASSUME NEW i \in 1..Len(n.items), NEW j \in 1..Len(n.items), NEW a \in Fields, NEW c \in Fields,
             n.items[i][a] # 0, n.items[i][a] = n.items[j][c]
      PROVE  i = j /\ a = c
  <2>1. ASSUME NEW y \in 1..Len(l.items), NEW z \in Fields, n.items[y][z] # 0
        PROVE  n.items[y][z] = l.items[y][z] /\ n.items[y][z] \in FieldBlocks(l)
    <3>1. <<y, z>> \in (1..Len(l.items)) \X Fields /\ l.items[<<y, z>>[1]][<<y, z>>[2]] = n.items[y][z]
      BY <1>4
    <3> QED
      BY <2>1, <3>1 DEF FieldBlocks
  <2>2. \A z \in Fields : n.items[m][z] \notin FieldBlocks(l)
    BY <1>2, <1>4 DEF Fields, ListBlocks
  <2>3. CASE i \in 1..Len(l.items) /\ j \in 1..Len(l.items)
    BY <1>8, <2>1, <2>3 DEF ListFits
  <2>4. CASE i = m /\ j = m
    BY <1>2, <1>4, <1>8, <2>4 DEF Fields
  <2> QED
    BY <1>6, <1>8, <2>1, <2>2, <2>3, <2>4
<1>9. \A i \in 1..Len(n.items) : n.items[i].type # "data" => n.items[i].data = 0
  BY <1>2, <1>4, <1>6 DEF ListFits
<1>10. Len(n.items) <= n.cap
  BY <1>1, <1>3, <1>4 DEF m
<1>11. n.block \notin FieldBlocks(n)
  <2>1. b \in ListBlocks(l) /\ b # 0
    BY DEF ListBlocks
  <2> QED
    BY <1>3, <1>7, <2>1 DEF ListFits
<1>12. ListFits(n)
  BY <1>5, <1>8, <1>9, <1>10, <1>11 DEF ListFits
<1>13. ListBlocks(n) = ListBlocks(l) \cup ({k, d} \ {0})
  BY <1>3, <1>7 DEF ListBlocks
<1> QED
  BY <1>12, <1>13 DEF n, x, Appended, ListWith

\* A number took the place of the data of item i.
Replaced(l, i, type, num, text) ==
    [l EXCEPT !.items[i] = [@ EXCEPT !.data = 0, !.type = type, !.num = num, !.text = text]]

TextTaken(n, l, i, type, num, text) ==
    /\ Len(n.items) = Len(l.items)
    /\ n.items[i].type = type /\ n.items[i].num = num /\ n.items[i].text = text
    /\ \A j \in 1..Len(l.items) \ {i} : n.items[j] = l.items[j]

LEMMA ReplaceFits ==
  ASSUME NEW l, ListFits(l), 0 \notin Heap, NEW i \in 1..Len(l.items), l.items[i].data # 0,
         NEW type \in Types, NEW num \in Int, NEW text \in Int
  PROVE  /\ ListWith(Replaced(l, i, type, num, text), ListBlocks(l) \ {l.items[i].data})
         /\ TextTaken(Replaced(l, i, type, num, text), l, i, type, num, text)
<1> DEFINE old == l.items[i]
           x == [old EXCEPT !.data = 0, !.type = type, !.num = num, !.text = text]
           n == [l EXCEPT !.items[i] = [@ EXCEPT !.data = 0, !.type = type, !.num = num, !.text = text]]
<1>1. l \in ListType /\ l.items \in Seq(Item) /\ Len(l.items) \in Nat
  BY DEF ListFits, ListType
<1>2. old \in Item
  <2> HIDE DEF Item
  <2> QED
    BY <1>1
<1>3. x \in Item /\ x["key"] = old["key"] /\ x["data"] = 0 /\ x.type = type /\ x.num = num /\ x.text = text
  <2> HIDE DEF old
  <2> QED
    BY <1>2 DEF Item
<1>4. n.items = [l.items EXCEPT ![i] = x] /\ n.block = l.block /\ n.cap = l.cap
  <2> HIDE DEF Item
  <2> QED
    BY <1>1 DEF ListType
<1> HIDE DEF x
<1>5. /\ n.items \in Seq(Item) /\ Len(n.items) = Len(l.items) /\ n.items[i] = x
      /\ \A j \in 1..Len(l.items) \ {i} : n.items[j] = l.items[j]
  <2> HIDE DEF Item, n, old
  <2> QED
    BY <1>1, <1>3, <1>4
<1>6. n \in ListType
  <2> HIDE DEF Item
  <2>1. n = [l EXCEPT !.items = n.items]
    BY <1>1 DEF ListType
  <2> HIDE DEF n
  <2> QED
    BY <1>1, <1>5, <2>1 DEF ListType
<1> HIDE DEF n, old
<1>7. \A j \in 1..Len(l.items) : \A a \in Fields :
        n.items[j][a] = IF j = i /\ a = "data" THEN 0 ELSE l.items[j][a]
  <2>1. ASSUME NEW j \in 1..Len(l.items), NEW a \in Fields
        PROVE  n.items[j][a] = IF j = i /\ a = "data" THEN 0 ELSE l.items[j][a]
    <3>1. CASE j # i
      BY <1>5, <3>1
    <3>2. CASE j = i
      BY <1>3, <1>5, <3>2 DEF Fields, old
    <3> QED
      BY <3>1, <3>2
  <2> QED
    BY <2>1
<1>8. FieldBlocks(n) = FieldBlocks(l) \ {l.items[i].data}
  <2>1. ASSUME NEW y \in FieldBlocks(n) PROVE y \in FieldBlocks(l) \ {l.items[i].data}
    <3>1. PICK s \in (1..Len(n.items)) \X Fields : y = n.items[s[1]][s[2]] /\ y # 0
      BY <2>1 DEF FieldBlocks
    <3>2. s[1] \in 1..Len(l.items) /\ s[2] \in Fields /\ ~(s[1] = i /\ s[2] = "data") /\ y = l.items[s[1]][s[2]]
      BY <1>5, <1>7, <3>1
    <3>3. s \in (1..Len(l.items)) \X Fields
      BY <1>5, <3>1
    <3>4. y # l.items[i]["data"]
      <4>1. "data" \in Fields
        BY DEF Fields
      <4>2. \A j1, j2 \in 1..Len(l.items) : \A a, c \in Fields :
              l.items[j1][a] # 0 /\ l.items[j1][a] = l.items[j2][c] => j1 = j2 /\ a = c
        BY DEF ListFits
      <4> QED
        BY <3>1, <3>2, <4>1, <4>2
    <3> QED
      BY <3>1, <3>2, <3>3, <3>4 DEF FieldBlocks
  <2>2. ASSUME NEW y \in FieldBlocks(l), y # l.items[i].data PROVE y \in FieldBlocks(n)
    <3>1. PICK s \in (1..Len(l.items)) \X Fields : y = l.items[s[1]][s[2]] /\ y # 0
      BY <2>2 DEF FieldBlocks
    <3>2. s \in (1..Len(n.items)) \X Fields /\ y = n.items[s[1]][s[2]]
      BY <1>5, <1>7, <2>2, <3>1
    <3> QED
      BY <3>1, <3>2 DEF FieldBlocks
  <2> QED
    BY <2>1, <2>2
<1>9. l.items[i].data \in FieldBlocks(l)
  <2>1. <<i, "data">> \in (1..Len(l.items)) \X Fields
        /\ l.items[<<i, "data">>[1]][<<i, "data">>[2]] = l.items[i].data
    BY DEF Fields
  <2> QED
    BY <2>1 DEF FieldBlocks
<1>10. ListBlocks(n) = ListBlocks(l) \ {l.items[i].data}
  <2>1. l.block \notin FieldBlocks(l)
    BY DEF ListFits
  <2> QED
    BY <1>4, <1>8, <1>9, <2>1 DEF ListBlocks, n
<1>11. n.block = l.block /\ n.cap = l.cap
  BY <1>4 DEF n
<1>12. ListFits(n)
  <2>1. Len(n.items) <= n.cap /\ n.block \notin FieldBlocks(n)
    BY <1>5, <1>8, <1>11 DEF ListFits
  <2>2. \A j \in 1..Len(n.items) : n.items[j].type # "data" => n.items[j].data = 0
    <3>1. ASSUME NEW j \in 1..Len(l.items), n.items[j].type # "data" PROVE n.items[j].data = 0
      <4>1. CASE j = i
        BY <1>3, <1>5, <4>1
      <4>2. CASE j # i
        BY <1>5, <3>1, <4>2 DEF ListFits
      <4> QED
        BY <4>1, <4>2
    <3> QED
      BY <1>5, <3>1
  <2>3. \A j1, j2 \in 1..Len(n.items) : \A a, c \in Fields :
          n.items[j1][a] # 0 /\ n.items[j1][a] = n.items[j2][c] => j1 = j2 /\ a = c
    BY <1>5, <1>7 DEF ListFits
  <2> QED
    BY <1>6, <2>1, <2>2, <2>3 DEF ListFits
<1>13. l.items[i].data = old.data
  BY DEF old
<1> QED
  BY <1>3, <1>5, <1>10, <1>12 DEF n, x, old, Replaced, ListWith, TextTaken

\* otelc_value_destroy() and otelc_kv_destroy() release all of the array's blocks.
LEMMA DestroyIs ==
  ASSUME NEW l, ListFits(l), l.block # 0, NEW h, 0 \notin h
  PROVE  LET items == ToSet(l.items)
         IN  Freed(h, {l.block} \cup {i.key : i \in items} \cup {i.data : i \in {j \in items : j.type = "data"}})
               = h \ ListBlocks(l)
<1> DEFINE items == ToSet(l.items)
           bs == {l.block} \cup {i.key : i \in items} \cup {i.data : i \in {j \in items : j.type = "data"}}
<1>1. items = {l.items[i] : i \in 1..Len(l.items)}
  <2>1. l.items \in Seq(Item)
    BY DEF ListFits, ListType
  <2> HIDE DEF Item
  <2> QED
    BY <2>1 DEF ToSet
<1> HIDE DEF items
<1>2. ASSUME NEW y \in bs, y # 0 PROVE y \in ListBlocks(l)
  <2>1. ASSUME NEW i \in 1..Len(l.items), NEW a \in Fields, l.items[i][a] = y
        PROVE y \in FieldBlocks(l)
    <3>1. <<i, a>> \in (1..Len(l.items)) \X Fields /\ l.items[<<i, a>>[1]][<<i, a>>[2]] = y
      BY <2>1
    <3> QED
      BY <1>2, <3>1 DEF FieldBlocks
  <2>2. CASE y = l.block
    BY <1>2, <2>2 DEF ListBlocks
  <2>3. CASE \E x \in items : y = x.key
    BY <1>1, <2>1, <2>3 DEF Fields, ListBlocks
  <2>4. CASE \E x \in items : y = x.data
    BY <1>1, <2>1, <2>4 DEF Fields, ListBlocks
  <2> QED
    BY <1>2, <2>2, <2>3, <2>4
<1>3. ASSUME NEW y \in ListBlocks(l) PROVE y \in bs
  <2>1. CASE y = l.block
    BY <2>1
  <2>2. CASE y \in FieldBlocks(l)
    <3>1. PICK s \in (1..Len(l.items)) \X Fields : y = l.items[s[1]][s[2]] /\ y # 0
      BY <2>2 DEF FieldBlocks
    <3>2. l.items[s[1]] \in items /\ s[1] \in 1..Len(l.items)
      BY <1>1, <3>1
    <3>3. CASE s[2] = "key"
      BY <3>1, <3>2, <3>3
    <3>4. CASE s[2] = "data"
      <4>1. l.items[s[1]].data = y /\ l.items[s[1]].type = "data"
        BY <3>1, <3>2, <3>4 DEF ListFits
      <4>2. l.items[s[1]] \in {j \in items : j.type = "data"}
        BY <3>2, <4>1
      <4> QED
        BY <4>1, <4>2
    <3> QED
      BY <3>1, <3>3, <3>4 DEF Fields
  <2> QED
    BY <1>3, <2>1, <2>2 DEF ListBlocks
<1>4. h \ bs = h \ ListBlocks(l)
  <2> HIDE DEF bs
  <2> QED
    BY <1>2, <1>3
<1> QED
  BY <1>4 DEF Freed, bs, items

\* What a conversion gives.
Faithful(type, num, text) ==
    /\ type \in {"int32", "int64"}   => num = text
    /\ type \in {"uint32", "uint64"} => num = AsUnsigned(text)
    /\ type \in {"int32", "int64", "uint32", "uint64"} => num \in Holdable(type)

\* strtoul() gives the number, or its negation modulo the width.
LEMMA UnsignedIs == ASSUME ContainersAssumption, NEW n \in Int, NEW m \in Unsigned(n)
                    PROVE  m = AsUnsigned(n) /\ m \in 0..(2 * LongMax + 1)
<1> DEFINE L == 2 * LongMax + 2
<1>1. LongMax \in Nat /\ L \in Nat /\ L > 0 /\ L - 1 = 2 * LongMax + 1
  BY DEF ContainersAssumption
<1>2. n \in -(2 * LongMax + 1)..(2 * LongMax + 1) /\ m = n % L
  <2>1. CASE n \in -(2 * LongMax + 1)..(2 * LongMax + 1)
    BY <2>1 DEF Unsigned
  <2>2. CASE n \notin -(2 * LongMax + 1)..(2 * LongMax + 1)
    BY <2>2 DEF Unsigned
  <2> QED
    BY <2>1, <2>2
<1>3. -L < n /\ n < L
  BY <1>1, <1>2
<1>4. n + 2 * LongMax + 2 = n + L
  BY <1>1
<1> HIDE DEF L
<1>5. n >= 0 => n % L = n
  BY <1>1, <1>3
<1>6. n < 0 => n % L = n + L
  <2>1. n < 0 => n \div L = -1
    BY <1>1, <1>3
  <2> QED
    BY <1>1, <1>3, <2>1
<1>7. CASE n >= 0
  <2>1. m = n
    BY <1>2, <1>5, <1>7
  <2> QED
    BY <1>1, <1>3, <1>7, <2>1 DEF AsUnsigned
<1>8. CASE n < 0
  <2>1. m = n + L
    BY <1>2, <1>6, <1>8
  <2>2. m = n + 2 * LongMax + 2 /\ 0 <= m /\ m <= L - 1
    BY <1>1, <1>3, <1>4, <1>8, <2>1
  <2> QED
    BY <1>1, <1>8, <2>2 DEF AsUnsigned
<1> QED
  BY <1>7, <1>8

\* A conversion gives the number that was read, and one that its type holds.
LEMMA NumberIs ==
  ASSUME ContainersAssumption, NEW n \in Int, NEW type \in Types \ {"data"}, NEW m \in Number(type, n)
  PROVE  m \in Int /\ Faithful(type, m, n)
<1>1. LongMax \in Nat /\ IntMax \in Nat
  BY DEF ContainersAssumption
<1>2. CASE type = "bool"
  <2>1. m \in {IF x = 0 THEN 0 ELSE 1 : x \in Unsigned(n)}
    BY <1>2 DEF Number
  <2> QED
    BY <1>2, <2>1 DEF Faithful
<1>3. CASE type = "int32"
  <2>1. m \in Signed(n) \cap -IntMax - 1..IntMax
    BY <1>3 DEF Number
  <2>2. m = n /\ m \in Holdable("int32")
    BY <1>1, <2>1 DEF Signed, Holdable
  <2> QED
    BY <1>3, <2>2 DEF Faithful
<1>4. CASE type = "int64"
  <2>1. m \in Signed(n)
    BY <1>4 DEF Number
  <2>2. m = n /\ m \in Holdable("int64")
    BY <1>1, <2>1 DEF Signed, Holdable
  <2> QED
    BY <1>4, <2>2 DEF Faithful
<1>5. CASE type = "uint32"
  <2>1. m \in Unsigned(n) /\ m \in 0..(2 * IntMax + 1)
    BY <1>5 DEF Number
  <2>2. m = AsUnsigned(n) /\ m \in Holdable("uint32")
    BY <2>1, UnsignedIs DEF Holdable
  <2> QED
    BY <1>1, <1>5, <2>1, <2>2 DEF Faithful
<1>6. CASE type = "uint64"
  <2>1. m \in Unsigned(n)
    BY <1>6 DEF Number
  <2>2. m = AsUnsigned(n) /\ m \in 0..(2 * LongMax + 1) /\ m \in Holdable("uint64")
    BY <2>1, UnsignedIs DEF Holdable
  <2> QED
    BY <1>1, <1>6, <2>2 DEF Faithful
<1>7. CASE type = "double"
  <2>1. m \in {n}
    BY <1>7 DEF Number
  <2> QED
    BY <1>7, <2>1 DEF Faithful
<1> QED
  BY <1>2, <1>3, <1>4, <1>5, <1>6, <1>7 DEF Types

-----------------------------------------------------------------------------
(* Containers: the parties together *)

Kinds == {"value", "kv"}
RestOf(l, o, e)    == ListBlocks(l["value"]) \cup ListBlocks(l["kv"]) \cup o \cup ({e} \ {0})
RestApart(l, o, e) == /\ ListBlocks(l["value"]) \cap ListBlocks(l["kv"]) = {}
                      /\ (ListBlocks(l["value"]) \cup ListBlocks(l["kv"])) \cap o = {}
                      /\ e \notin ListBlocks(l["value"]) \cup ListBlocks(l["kv"]) \cup o

\* The blocks h are the map t's, the arrays l's, the callers' strings o and the message e,
\* each owned once.
Settled(h, t, l, o, e) ==
    /\ Fit(h, t, RestOf(l, o, e)) /\ RestApart(l, o, e)
    /\ l \in [Kinds -> ListType] /\ \A kind \in Kinds : ListFits(l[kind])
    /\ o \subseteq Heap /\ e \in Heap \cup {0}
    /\ ~t.up => t = NoMap
    /\ Len(t.pairs) <= MaxPairs

\* A call on the map, which may have taken strings of the callers.
LEMMA MapSettles ==
  ASSUME NEW h, NEW t, NEW l, NEW o, NEW e, Settled(h, t, l, o, e), NEW h2, NEW t2, NEW o2, o2 \subseteq o,
         Fit(h2, t2, RestOf(l, o2, e)), ~t2.up => t2 = NoMap, Len(t2.pairs) <= MaxPairs
  PROVE  Settled(h2, t2, l, o2, e)
<1>1. RestApart(l, o2, e)
  BY DEF Settled, RestApart
<1> QED
  BY <1>1 DEF Settled

\* What is not the map's has moved.
LEMMA RestMoves ==
  ASSUME NEW h, NEW t, NEW rest, Fit(h, t, rest), NEW left, left \subseteq Heap, left \cap MapBlocks(t) = {},
         NEW h2, h2 = MapBlocks(t) \cup left
  PROVE  Fit(h2, t, left)
BY DEF Fit

\* A call on one of the arrays.
LEMMA ListSettles ==
  ASSUME ContainersAssumption, NEW h, NEW t, NEW l, NEW o, NEW e, Settled(h, t, l, o, e), NEW kind \in Kinds, NEW n, ListFits(n),
         ListBlocks(n) \cap (h \ ListBlocks(l[kind])) = {},
         NEW h2, h2 = (h \ ListBlocks(l[kind])) \cup ListBlocks(n)
  PROVE  Settled(h2, t, [l EXCEPT ![kind] = n], o, e)
<1> DEFINE other == IF kind = "value" THEN "kv" ELSE "value"
           m == [l EXCEPT ![kind] = n]
           A == ListBlocks(l[kind])
           B == ListBlocks(l[other])
           N == ListBlocks(n)
<1>1. Kinds = {kind, other} /\ kind # other /\ other \in Kinds
  BY DEF Kinds
<1>2. l \in [Kinds -> ListType] /\ n \in ListType
  BY DEF Settled, ListFits
<1>3. m[kind] = n /\ m[other] = l[other] /\ m \in [Kinds -> ListType]
  BY <1>1, <1>2
<1>4. /\ RestOf(l, o, e) = A \cup B \cup o \cup ({e} \ {0}) /\ RestOf(m, o, e) = N \cup B \cup o \cup ({e} \ {0})
      /\ RestApart(l, o, e) <=> A \cap B = {} /\ (A \cup B) \cap o = {} /\ e \notin A \cup B \cup o
      /\ RestApart(m, o, e) <=> N \cap B = {} /\ (N \cup B) \cap o = {} /\ e \notin N \cup B \cup o
  <2>1. CASE kind = "value"
    <3>1. other = "kv"
      BY <2>1
    <3> HIDE DEF m, other
    <3> QED
      BY <1>3, <2>1, <3>1 DEF RestOf, RestApart
  <2>2. CASE kind = "kv"
    <3>1. other = "value"
      BY <2>2
    <3> HIDE DEF m, other
    <3> QED
      BY <1>3, <2>2, <3>1 DEF RestOf, RestApart
  <2> QED
    BY <2>1, <2>2 DEF Kinds
<1>5. N \subseteq Heap /\ 0 \notin Heap
  BY ListBlocksIn, HeapIs
<1>6. h = MapBlocks(t) \cup RestOf(l, o, e) /\ MapBlocks(t) \cap RestOf(l, o, e) = {} /\ RestOf(l, o, e) \subseteq Heap
      /\ Fit(h, t, RestOf(l, o, e)) /\ RestApart(l, o, e) /\ o \subseteq Heap /\ e \in Heap \cup {0}
  BY DEF Settled, Fit
<1>7. N \cap (h \ A) = {} /\ h2 = (h \ A) \cup N
  OBVIOUS
<1>8. \A k \in Kinds : ListFits(m[k])
  BY <1>1, <1>3 DEF Settled
<1> HIDE DEF m, other, A, B, N
<1>9. RestOf(m, o, e) \cap MapBlocks(t) = {} /\ RestOf(m, o, e) \subseteq Heap /\ h2 = MapBlocks(t) \cup RestOf(m, o, e)
  BY <1>4, <1>5, <1>6, <1>7
<1>10. RestApart(m, o, e)
  BY <1>4, <1>5, <1>6, <1>7
<1>11. Fit(h2, t, RestOf(m, o, e))
  BY <1>6, <1>9, RestMoves
<1>12. Settled(h2, t, m, o, e)
  BY <1>3, <1>8, <1>10, <1>11 DEF Settled
<1> QED
  BY <1>12 DEF m

\* A string more or less, or another message.
LEMMA StringSettles ==
  ASSUME ContainersAssumption, NEW h, NEW t, NEW l, NEW o, NEW e, Settled(h, t, l, o, e), NEW b \in Heap \ h
  PROVE  Settled(h \cup {b}, t, l, o \cup {b}, e)
<1>1. h = MapBlocks(t) \cup RestOf(l, o, e) /\ MapBlocks(t) \cap RestOf(l, o, e) = {} /\ RestOf(l, o, e) \subseteq Heap
  BY DEF Settled, Fit
<1>2. RestOf(l, o \cup {b}, e) = RestOf(l, o, e) \cup {b}
  BY DEF RestOf
<1>3. RestApart(l, o \cup {b}, e)
  BY <1>1, HeapIs DEF Settled, RestApart, RestOf
<1>4. Fit(h \cup {b}, t, RestOf(l, o \cup {b}, e))
  <2>1. RestOf(l, o \cup {b}, e) \cap MapBlocks(t) = {} /\ RestOf(l, o \cup {b}, e) \subseteq Heap
        /\ h \cup {b} = MapBlocks(t) \cup RestOf(l, o \cup {b}, e)
    BY <1>1, <1>2
  <2> QED
    BY <2>1, RestMoves DEF Settled
<1> QED
  BY <1>3, <1>4 DEF Settled

\* A string less.
LEMMA ReleaseSettles ==
  ASSUME NEW h, NEW t, NEW l, NEW o, NEW e, Settled(h, t, l, o, e), NEW b \in o
  PROVE  Settled(h \ {b}, t, l, o \ {b}, e)
<1>1. h = MapBlocks(t) \cup RestOf(l, o, e) /\ MapBlocks(t) \cap RestOf(l, o, e) = {} /\ RestOf(l, o, e) \subseteq Heap
  BY DEF Settled, Fit
<1>2. RestOf(l, o \ {b}, e) = RestOf(l, o, e) \ {b} /\ b \in RestOf(l, o, e)
  BY DEF Settled, RestOf, RestApart
<1>3. RestApart(l, o \ {b}, e)
  BY DEF Settled, RestApart
<1>4. Fit(h \ {b}, t, RestOf(l, o \ {b}, e))
  <2>1. RestOf(l, o \ {b}, e) \cap MapBlocks(t) = {} /\ RestOf(l, o \ {b}, e) \subseteq Heap
        /\ h \ {b} = MapBlocks(t) \cup RestOf(l, o \ {b}, e)
    BY <1>1, <1>2
  <2> QED
    BY <2>1, RestMoves DEF Settled
<1> QED
  BY <1>3, <1>4 DEF Settled

\* Another message, or none.
LEMMA MessageSettles ==
  ASSUME ContainersAssumption, NEW h, NEW t, NEW l, NEW o, NEW e, Settled(h, t, l, o, e), NEW b \in (Heap \ h) \cup {0}
  PROVE  Settled(Freed(Taken(h, b), {e}), t, l, o, b)
<1> DEFINE h2 == Freed(Taken(h, b), {e})
<1>0. 0 \notin Heap
  BY HeapIs
<1>1. h = MapBlocks(t) \cup RestOf(l, o, e) /\ MapBlocks(t) \cap RestOf(l, o, e) = {} /\ RestOf(l, o, e) \subseteq Heap
  BY DEF Settled, Fit
<1> DEFINE R == ListBlocks(l["value"]) \cup ListBlocks(l["kv"]) \cup o
<1>2. RestOf(l, o, e) = R \cup ({e} \ {0}) /\ RestOf(l, o, b) = R \cup ({b} \ {0}) /\ e \notin R
  BY DEF RestOf, Settled, RestApart
<1>3. 0 \notin MapBlocks(t)
  BY DEF MapBlocks, StringBlocks, TableBlocks
<1>4. RestApart(l, o, b)
  <2>1. b \notin R
    BY <1>0, <1>1, <1>2
  <2> QED
    BY <2>1 DEF Settled, RestApart
<1> HIDE DEF R
<1>5. Fit(h2, t, RestOf(l, o, b))
  <2>1. h2 = (h \cup ({b} \ {0})) \ {e}
    BY DEF Freed, Taken
  <2>2. e \in h \/ e = 0
    BY <1>1, <1>2
  <2>3. b # e \/ b = 0
    BY <2>2
  <2> HIDE DEF h2
  <2>4. h2 = MapBlocks(t) \cup RestOf(l, o, b)
    BY <1>0, <1>1, <1>2, <1>3, <2>1, <2>2, <2>3
  <2>5. RestOf(l, o, b) \cap MapBlocks(t) = {} /\ RestOf(l, o, b) \subseteq Heap
    BY <1>0, <1>1, <1>2
  <2> QED
    BY <2>4, <2>5, RestMoves DEF Settled
<1> QED
  BY <1>4, <1>5 DEF Settled

\* What is added by duplication leaves the callers' strings alone.
LEMMA DuplicateFits ==
  ASSUME ContainersAssumption, NEW h \in SUBSET Heap, NEW t, NEW rest, Fit(h, t, rest), NEW got, NEW dups,
         NEW mode \in [key : Modes, value : Modes], mode.key = "dup", mode.value = "dup",
         NEW gift, gift.key = 0, gift.value = 0
  PROVE  Gained(Added(h, t, mode, gift, got, dups), t, rest, 1)
<1> DEFINE r == Added(h, t, mode, gift, got, dups)
<1>3. \A a \in Strings : IF mode[a] = "free" THEN gift[a] \in rest ELSE gift[a] = 0
  BY DEF Strings
<1>4. mode.key = "free" => gift.key # gift.value
  OBVIOUS
<1>5. Gained(r, t, IF r.ok THEN rest \ {gift.key, gift.value} ELSE rest, 1)
  BY <1>3, <1>4, AddedFits
<1> HIDE DEF r
<1>6. rest \ {gift.key, gift.value} = rest
  BY HeapIs DEF Fit
<1> QED
  BY <1>5, <1>6 DEF r

\* One entry of a trace state.
LEMMA EntryFits ==
  ASSUME ContainersAssumption, NEW r, r.h \in SUBSET Heap, NEW rest, Fit(r.h, r.t, rest), NEW i, NEW short, NEW got, NEW dups
  PROVE  Gained(EntryAdded(r, i, short, got, dups), r.t, rest, 1)
<1> DEFINE gift == [key |-> 0, value |-> 0]
           mode == Dup
           g == IF i \in short THEN got ELSE 3
           d == IF i \in short THEN dups ELSE [key |-> TRUE, value |-> TRUE]
           a == EntryAdded(r, i, short, got, dups)
           h == r.h
           t == r.t
<1>1. mode \in [key : Modes, value : Modes] /\ mode.key = "dup" /\ mode.value = "dup" /\ gift.key = 0 /\ gift.value = 0
  BY DEF Dup, Modes
<1>2. a = Added(h, t, mode, gift, g, d)
  BY DEF EntryAdded
<1>3. h \in SUBSET Heap /\ Fit(h, t, rest)
  OBVIOUS
<1> HIDE DEF gift, mode, g, d, a, h, t
<1>4. Gained(Added(h, t, mode, gift, g, d), t, rest, 1)
  BY <1>1, <1>3, DuplicateFits
<1> QED
  BY <1>2, <1>4 DEF a, t

\* One or two entries of a trace state.
LEMMA EntriesFit ==
  ASSUME ContainersAssumption, NEW h \in SUBSET Heap, NEW t, NEW rest, Fit(h, t, rest), NEW n \in 1..2,
         NEW short, NEW got, NEW dups
  PROVE  Gained(EntriesAdded(h, t, n, short, got, dups), t, rest, n)
<1> DEFINE none == [ok |-> TRUE, h |-> h, t |-> t]
           Plus(r, i) == EntryAdded(r, i, short, got, dups)
           Row(f) == [i \in 0..n |-> IF i = 0 THEN none ELSE Plus(f[i - 1], i)]
           one == Plus(none, 1)
           two == Plus(one, 2)
           F == CHOOSE f : f = Row(f)
           f0 == [i \in 0..n |-> IF i = 0 THEN none ELSE IF i = 1 THEN one ELSE two]
<1>1. EntriesAdded(h, t, n, short, got, dups) = F[n]
  BY DEF EntriesAdded
<1>2. f0 = Row(f0)
  <2> HIDE DEF Plus, none
  <2>1. ASSUME NEW i \in 0..n PROVE f0[i] = IF i = 0 THEN none ELSE Plus(f0[i - 1], i)
    <3>1. CASE i = 0
      BY <3>1
    <3>2. CASE i = 1
      <4>1. f0[0] = none /\ f0[1] = one
        BY <3>2
      <4> HIDE DEF f0
      <4> QED
        BY <3>2, <4>1
    <3>3. CASE i = 2
      <4>1. f0[1] = one /\ f0[2] = two
        BY <3>3
      <4> HIDE DEF f0
      <4> QED
        BY <3>3, <4>1
    <3> QED
      BY <3>1, <3>2, <3>3
  <2>2. DOMAIN f0 = 0..n /\ f0 = [i \in 0..n |-> f0[i]]
    OBVIOUS
  <2> HIDE DEF f0
  <2> QED
    BY <2>1, <2>2
<1>3. F = Row(F)
  <2> HIDE DEF Row, f0
  <2> QED
    BY <1>2
<1> HIDE DEF F, Plus, none
<1>4. F[0] = none /\ F[1] = one /\ (n = 2 => F[2] = two)
  <2>1. \A i \in 0..n : F[i] = IF i = 0 THEN none ELSE Plus(F[i - 1], i)
    BY <1>3
  <2>2. F[0] = none
    BY <2>1
  <2>3. F[1] = one
    BY <2>1, <2>2
  <2>4. n = 2 => F[2] = two
    BY <2>1, <2>3
  <2> QED
    BY <2>2, <2>3, <2>4
<1>6. ASSUME NEW r, r.h \in SUBSET Heap, Fit(r.h, r.t, rest), NEW i
      PROVE  Gained(Plus(r, i), r.t, rest, 1)
  BY <1>6, EntryFits DEF Plus
<1>7. none.h = h /\ none.t = t
  BY DEF none
<1>8. Gained(one, t, rest, 1)
  BY <1>6, <1>7
<1> HIDE DEF one
<1>9. Gained(two, one.t, rest, 1)
  BY <1>6, <1>8 DEF Gained
<1> HIDE DEF two
<1>10. Gained(two, t, rest, 2)
  <2> DEFINE x == Len(t.pairs)
             y == Len(one.t.pairs)
             z == Len(two.t.pairs)
  <2>1. x \in Nat /\ y \in Nat /\ z \in Nat
    <3>1. \A m : MapShape(m) => Len(m.pairs) \in Nat
      BY DEF MapShape, MapType
    <3>2. MapShape(t) /\ MapShape(one.t) /\ MapShape(two.t)
      BY <1>8, <1>9 DEF Gained, Fit
    <3> QED
      BY <3>1, <3>2
  <2>2. y <= x + 1 /\ z <= y + 1
    BY <1>8, <1>9 DEF Gained
  <2> HIDE DEF x, y, z
  <2>3. z <= x + 2
    BY <2>1, <2>2
  <2>4. two.t.up = t.up
    BY <1>8, <1>9 DEF Gained
  <2> QED
    BY <1>9, <2>3, <2>4 DEF Gained, x, z
<1>11. CASE n = 1
  BY <1>1, <1>4, <1>8, <1>11
<1>12. CASE n = 2
  BY <1>1, <1>4, <1>10, <1>12
<1> QED
  BY <1>11, <1>12

-----------------------------------------------------------------------------
(* Containers: the calls *)

NowSettled == Settled(blocks, textMap, list, owned, err)
ThenSettled == Settled(blocks', textMap', list', owned', err')

\* otelc_text_map_new()
LEMMA NewSettles ==
  ASSUME ContainersAssumption, NowSettled, NEW dynamic \in BOOLEAN, NEW size \in 0..2, TextMapNew(dynamic, size)
  PROVE  ThenSettled
<1> DEFINE R == RestOf(list, owned, err)
<1>1. /\ Fit(blocks, textMap, R) /\ textMap = NoMap /\ R \subseteq Heap
      /\ list' = list /\ owned' = owned /\ err' = err
  BY DEF NowSettled, Settled, Fit, TextMapNew
<1>2. blocks = R
  <2>1. Fit(R \cup ({0} \ {0}), Bare(FALSE, 0), R)
    BY <1>1, HeapIs, BareFits
  <2>2. Fit(R, NoMap, R)
    BY <2>1, BareIs
  <2> QED
    BY <1>1, <2>2 DEF Fit
<1>3. PICK got \in 0..3, haveStruct \in BOOLEAN :
         LET s    == IF dynamic THEN Allocate(blocks, haveStruct) ELSE 0
             none == [h |-> Taken(blocks, s), arr |-> NoMap.arr]
             all  == IF size = 0 THEN none ELSE NewArray(NewArray(NewArray(none, 1, got), 2, got), 3, got)
             new  == [NoMap EXCEPT !.up = TRUE, !.struct = s, !.size = size, !.arr = all.arr,
                                   !.cap = [a \in DOMAIN @ |-> IF all.arr[a] = 0 THEN 0 ELSE size]]
             fail == size > 0 /\ \E a \in DOMAIN all.arr : all.arr[a] = 0
         IN  IF dynamic /\ s = 0 THEN UNCHANGED <<blocks, textMap>>
             ELSE IF fail THEN blocks' = TextMapDestroyed(all.h, new) /\ UNCHANGED textMap
             ELSE blocks' = all.h /\ textMap' = new
  BY DEF TextMapNew
<1> DEFINE s    == IF dynamic THEN Allocate(blocks, haveStruct) ELSE 0
           none == [h |-> Taken(R, s), arr |-> NoMap.arr]
           all  == IF size = 0 THEN none ELSE NewArray(NewArray(NewArray(none, 1, got), 2, got), 3, got)
           new  == [NoMap EXCEPT !.up = TRUE, !.struct = s, !.size = size, !.arr = all.arr,
                                 !.cap = [a \in DOMAIN @ |-> IF all.arr[a] = 0 THEN 0 ELSE size]]
           fail == size > 0 /\ \E a \in DOMAIN all.arr : all.arr[a] = 0
<1>4. IF dynamic /\ s = 0 THEN blocks' = R /\ textMap' = NoMap
      ELSE IF fail THEN blocks' = TextMapDestroyed(all.h, new) /\ textMap' = NoMap
      ELSE blocks' = all.h /\ textMap' = new
  <2> HIDE DEF R
  <2> QED
    BY <1>1, <1>2, <1>3
<1>5. s \in Heap \cup {0} /\ s \notin R
  BY <1>2, AllocateIs, HeapIs, <1>1
<1> HIDE DEF s
<1>6. /\ fail => TextMapDestroyed(all.h, new) = R
      /\ ~fail => Fit(all.h, new, R)
      /\ new.up /\ new.pairs = <<>>
  <2>1. size \in Nat /\ R \subseteq Heap /\ s \in Heap \cup {0} /\ s \notin R
    BY <1>1, <1>5
  <2> HIDE DEF R
  <2>2. all = TableOf(R, s, size, got)
    BY DEF TableOf
  <2> HIDE DEF all
  <2>3. new = MapOf(s, size, all) /\ (fail <=> TableFails(size, all))
    BY DEF MapOf, TableFails
  <2> HIDE DEF new, fail
  <2> QED
    BY <2>1, <2>2, <2>3, NewFits
<1> HIDE DEF R, all, new, fail
<1>7. \/ blocks' = blocks /\ textMap' = textMap
      \/ Fit(blocks', textMap', R) /\ textMap'.up /\ textMap'.pairs = <<>>
  BY <1>1, <1>2, <1>4, <1>6
<1>8. 0 <= MaxPairs /\ Len(<<>>) = 0
  BY DEF ContainersAssumption
<1>9. CASE blocks' = blocks /\ textMap' = textMap
  BY <1>1, <1>9 DEF NowSettled, ThenSettled
<1>10. CASE Fit(blocks', textMap', R) /\ textMap'.up /\ textMap'.pairs = <<>>
  <2>1. Settled(blocks', textMap', list, owned, err)
    BY <1>8, <1>10, MapSettles DEF NowSettled, R
  <2> QED
    BY <1>1, <2>1 DEF ThenSettled
<1> QED
  BY <1>7, <1>9, <1>10

\* otelc_text_map_add()
LEMMA AddSettles ==
  ASSUME ContainersAssumption, NowSettled, NEW mode \in [key : Modes, value : Modes],
         NEW gift \in [key : owned \cup {0}, value : owned \cup {0}], TextMapAdd(mode, gift)
  PROVE  ThenSettled
<1> DEFINE R == RestOf(list, owned, err)
<1>1. /\ Fit(blocks, textMap, R) /\ textMap.up /\ Len(textMap.pairs) < MaxPairs
      /\ R \subseteq Heap /\ blocks \in SUBSET Heap /\ owned \subseteq R
      /\ list' = list /\ err' = err
  <2>1. Fit(blocks, textMap, R) /\ owned \subseteq R
    BY DEF NowSettled, Settled, RestOf
  <2>2. blocks \in SUBSET Heap
    BY <2>1, MapBlocksIn DEF Fit
  <2> QED
    BY <2>1, <2>2 DEF Fit, TextMapAdd
<1>2. /\ \A a \in Strings : IF mode[a] = "free" THEN gift[a] \in R ELSE gift[a] = 0
      /\ mode.key = "free" => gift.key # gift.value
  BY <1>1 DEF TextMapAdd, Strings
<1>3. PICK got \in 0..3, dups \in Failures :
         LET r == Added(blocks, textMap, mode, gift, got, dups)
         IN  /\ blocks' = r.h /\ textMap' = r.t
             /\ owned' = IF r.ok THEN owned \ {gift.key, gift.value} ELSE owned
  BY DEF TextMapAdd
<1> DEFINE r == Added(blocks, textMap, mode, gift, got, dups)
<1>4. blocks' = r.h /\ textMap' = r.t /\ owned' = IF r.ok THEN owned \ {gift.key, gift.value} ELSE owned
  BY <1>3
<1> HIDE DEF R
<1>5. Gained(r, textMap, IF r.ok THEN R \ {gift.key, gift.value} ELSE R, 1)
  BY <1>1, <1>2, AddedFits
<1> HIDE DEF r
<1>6. RestOf(list, owned', err) = IF r.ok THEN R \ {gift.key, gift.value} ELSE R
  <2> DEFINE g == {gift.key, gift.value}
  <2>1. g \subseteq owned \cup {0}
    OBVIOUS
  <2> HIDE DEF g
  <2>2. RestOf(list, owned \ g, err) = R \ g
    <3>1. 0 \notin R
      BY <1>1, HeapIs
    <3> QED
      BY <2>1, <3>1 DEF R, RestOf, NowSettled, Settled, RestApart
  <2> QED
    BY <1>4, <2>2 DEF R, g
<1>7. Len(textMap'.pairs) <= MaxPairs
  <2> DEFINE x == Len(textMap.pairs)
             z == Len(textMap'.pairs)
  <2>1. x \in Nat /\ z \in Nat /\ MaxPairs \in Nat
    BY <1>1, <1>4, <1>5 DEF Gained, Fit, MapShape, MapType, ContainersAssumption
  <2>2. x < MaxPairs /\ z <= x + 1
    BY <1>1, <1>4, <1>5 DEF Gained
  <2> HIDE DEF x, z
  <2>3. z <= MaxPairs
    BY <2>1, <2>2
  <2> QED
    BY <2>3 DEF z
<1>8. Settled(blocks', textMap', list, owned', err)
  <2>1. Fit(blocks', textMap', RestOf(list, owned', err)) /\ owned' \subseteq owned
    BY <1>4, <1>5, <1>6 DEF Gained
  <2>2. textMap'.up
    <3>1. textMap'.up = textMap.up
      BY <1>4, <1>5 DEF Gained
    <3> QED
      BY <1>1, <3>1
  <2> QED
    BY <1>7, <2>1, <2>2, MapSettles DEF NowSettled
<1> QED
  BY <1>1, <1>8 DEF ThenSettled

\* otel_span_context_trace_state_entries()
LEMMA EntriesSettle ==
  ASSUME ContainersAssumption, NowSettled, NEW n \in 1..2, TraceStateEntries(n)
  PROVE  ThenSettled
<1> DEFINE R == RestOf(list, owned, err)
<1>1. /\ Fit(blocks, textMap, R) /\ textMap.up /\ Len(textMap.pairs) + n <= MaxPairs
      /\ blocks \in SUBSET Heap /\ list' = list /\ err' = err /\ owned' = owned
  <2>1. Fit(blocks, textMap, R)
    BY DEF NowSettled, Settled
  <2>2. blocks \in SUBSET Heap
    BY <2>1, MapBlocksIn DEF Fit
  <2> QED
    BY <2>1, <2>2 DEF TraceStateEntries
<1>2. PICK short \in SUBSET (1..n), got \in 0..3, dups \in Failures :
         LET r == EntriesAdded(blocks, textMap, n, short, got, dups)
         IN  blocks' = r.h /\ textMap' = r.t
  BY DEF TraceStateEntries
<1> HIDE DEF R
<1>3. Gained([h |-> blocks', t |-> textMap'], textMap, R, n)
  <2> DEFINE r == EntriesAdded(blocks, textMap, n, short, got, dups)
  <2>1. Gained(r, textMap, R, n)
    BY <1>1, EntriesFit
  <2>2. blocks' = r.h /\ textMap' = r.t
    BY <1>2
  <2> HIDE DEF r
  <2> QED
    BY <2>1, <2>2 DEF Gained
<1>4. Len(textMap'.pairs) <= MaxPairs
  <2> DEFINE x == Len(textMap.pairs)
             z == Len(textMap'.pairs)
  <2>1. x \in Nat /\ z \in Nat /\ MaxPairs \in Nat
    BY <1>1, <1>3 DEF Gained, Fit, MapShape, MapType, ContainersAssumption
  <2>2. x + n <= MaxPairs /\ z <= x + n
    BY <1>1, <1>3 DEF Gained
  <2> HIDE DEF x, z
  <2>3. z <= MaxPairs
    BY <2>1, <2>2
  <2> QED
    BY <2>3 DEF z
<1>5. textMap'.up
  <2>1. textMap'.up = textMap.up
    BY <1>3 DEF Gained
  <2> QED
    BY <1>1, <2>1
<1>6. Settled(blocks', textMap', list, owned, err)
  <2>1. Fit(blocks', textMap', R)
    BY <1>3 DEF Gained
  <2> QED
    BY <1>4, <1>5, <2>1, MapSettles DEF NowSettled, R
<1> QED
  BY <1>1, <1>6 DEF ThenSettled

\* otelc_text_map_free() and otelc_text_map_destroy()
LEMMA FreeSettles ==
  ASSUME ContainersAssumption, NowSettled, TextMapFree \/ TextMapDestroy
  PROVE  ThenSettled
<1> DEFINE R == RestOf(list, owned, err)
           s == textMap.struct
<1>1. Fit(blocks, textMap, R) /\ R \subseteq Heap /\ list' = list /\ owned' = owned /\ err' = err
  BY DEF NowSettled, Settled, Fit, TextMapFree, TextMapDestroy
<1> HIDE DEF R
<1>2. /\ TextMapFreed(blocks, textMap) = R \cup ({s} \ {0}) /\ TextMapDestroyed(blocks, textMap) = R
      /\ textMap \in MapType /\ s \in Heap \cup {0} /\ s \notin R
  BY <1>1, FitFreed
<1>3. TextMapEmptied(textMap) = Bare(TRUE, s) /\ NoMap = Bare(FALSE, 0)
  BY <1>2, BareIs
<1> HIDE DEF s
<1>4. /\ Fit(R \cup ({s} \ {0}), Bare(TRUE, s), R)
      /\ Fit(R, NoMap, R)
  <2>1. Fit(R \cup ({s} \ {0}), Bare(TRUE, s), R)
    BY <1>1, <1>2, BareFits
  <2>2. Fit(R \cup ({0} \ {0}), Bare(FALSE, 0), R)
    BY <1>1, HeapIs, BareFits
  <2>3. R \cup ({0} \ {0}) = R
    OBVIOUS
  <2> QED
    BY <1>3, <2>1, <2>2, <2>3
<1>5. Bare(TRUE, s).up /\ Bare(TRUE, s).pairs = <<>> /\ NoMap.pairs = <<>> /\ Len(<<>>) = 0 /\ 0 <= MaxPairs
  BY <1>3 DEF Bare, ContainersAssumption
<1>6. Fit(blocks', textMap', R) /\ (~textMap'.up => textMap' = NoMap) /\ textMap'.pairs = <<>>
  <2>1. CASE TextMapFree
    BY <1>2, <1>3, <1>4, <1>5, <2>1 DEF TextMapFree
  <2>2. CASE TextMapDestroy /\ s # 0
    BY <1>2, <1>4, <1>5, <2>2 DEF TextMapDestroy, s
  <2>3. CASE TextMapDestroy /\ s = 0
    <3>1. blocks' = R /\ textMap' = Bare(TRUE, s) /\ R = R \cup ({s} \ {0})
      BY <1>2, <1>3, <2>3 DEF TextMapDestroy, s
    <3> QED
      BY <1>4, <1>5, <3>1
  <2> QED
    BY <2>1, <2>2, <2>3
<1>7. Settled(blocks', textMap', list, owned, err)
  BY <1>5, <1>6, MapSettles DEF NowSettled, R
<1> QED
  BY <1>1, <1>7 DEF ThenSettled

\* Every number in the arrays is the one that was read, and one its type holds.
NumbersTold(l) == \A kind \in Kinds : \A i \in 1..Len(l[kind].items) :
                    LET item == l[kind].items[i] IN Faithful(item.type, item.num, item.text)

\* One array is another one, and what it holds is faithful.
LEMMA NumbersKept ==
  ASSUME NEW l, NumbersTold(l), DOMAIN l = Kinds, NEW kind \in Kinds, NEW n,
         \A i \in 1..Len(n.items) : Faithful(n.items[i].type, n.items[i].num, n.items[i].text)
  PROVE  NumbersTold([l EXCEPT ![kind] = n])
<1> DEFINE m == [l EXCEPT ![kind] = n]
<1>1. m[kind] = n /\ \A k \in Kinds \ {kind} : m[k] = l[k]
  OBVIOUS
<1> HIDE DEF m
<1>2. ASSUME NEW k \in Kinds
      PROVE \A i \in 1..Len(m[k].items) : Faithful(m[k].items[i].type, m[k].items[i].num, m[k].items[i].text)
  <2>1. CASE k = kind
    BY <1>1, <2>1
  <2>2. CASE k # kind
    BY <1>1, <2>2 DEF NumbersTold
  <2> QED
    BY <2>1, <2>2
<1>3. NumbersTold(m)
  BY <1>2 DEF NumbersTold
<1> QED
  BY <1>3 DEF m

\* Data are no number.
LEMMA DataAreFaithful == \A num, text : Faithful("data", num, text)
BY DEF Faithful

\* Everyone's blocks are in use.
LEMMA NowHolds ==
  ASSUME NowSettled
  PROVE  /\ list \in [Kinds -> ListType] /\ \A kind \in Kinds : ListFits(list[kind]) /\ ListBlocks(list[kind]) \subseteq blocks
         /\ blocks \in SUBSET Heap /\ owned \subseteq blocks /\ err \in blocks \cup {0}
<1>1. /\ Fit(blocks, textMap, RestOf(list, owned, err)) /\ list \in [Kinds -> ListType]
      /\ \A kind \in Kinds : ListFits(list[kind])
  BY DEF NowSettled, Settled
<1>2. blocks = MapBlocks(textMap) \cup RestOf(list, owned, err) /\ RestOf(list, owned, err) \subseteq Heap /\ MapShape(textMap)
  BY <1>1 DEF Fit
<1>3. MapBlocks(textMap) \subseteq Heap
  BY <1>2, MapBlocksIn
<1>4. ListBlocks(list["value"]) \subseteq blocks /\ ListBlocks(list["kv"]) \subseteq blocks
      /\ owned \subseteq blocks /\ err \in blocks \cup {0}
  BY <1>2 DEF RestOf
<1> QED
  BY <1>1, <1>2, <1>3, <1>4 DEF Kinds

\* otelc_value_add() and otelc_kv_add()
LEMMA ItemSettles ==
  ASSUME ContainersAssumption, NowSettled, NumbersTold(list), NEW kind \in Kinds, NEW hasData \in BOOLEAN,
         ItemAdd(kind, hasData)
  PROVE  ThenSettled /\ NumbersTold(list')
<1> DEFINE l == list[kind]
           arr == IF l.block # 0 THEN l.block ELSE Allocate(blocks, TRUE)
           h == Taken(blocks, arr)
<1>1. textMap' = textMap /\ owned' = owned /\ err' = err
  BY DEF ItemAdd
<1>2. PICK grows \in BOOLEAN, dups \in Failures :
         LET k   == IF kind = "kv" THEN Allocate(h, dups.key) ELSE 0
             d   == IF hasData /\ (kind = "kv" => k # 0) THEN Allocate(Taken(h, k), dups.value) ELSE 0
             ok  == (kind = "kv" => k # 0) /\ (hasData => d # 0)
         IN  IF ~grows \/ arr = 0 THEN UNCHANGED <<blocks, list>>
             ELSE /\ blocks' = IF ok THEN Taken(Taken(h, k), d) ELSE Freed(h, {k, d})
                  /\ list' = [list EXCEPT ![kind] =
                        [block |-> arr, cap |-> Len(l.items) + 1,
                         items |-> IF ok THEN Append(l.items, [key |-> k, data |-> d, type |-> "data", num |-> 0, text |-> 0])
                                   ELSE l.items]]
  BY DEF ItemAdd
<1> DEFINE k  == IF kind = "kv" THEN Allocate(h, dups.key) ELSE 0
           d  == IF hasData /\ (kind = "kv" => k # 0) THEN Allocate(Taken(h, k), dups.value) ELSE 0
           ok == (kind = "kv" => k # 0) /\ (hasData => d # 0)
           x  == [key |-> k, data |-> d, type |-> "data", num |-> 0, text |-> 0]
           g  == [block |-> arr, cap |-> Len(l.items) + 1, items |-> l.items]
           n  == [block |-> arr, cap |-> Len(l.items) + 1, items |-> Append(l.items, x)]
<1>3. CASE ~grows \/ arr = 0
  <2>1. blocks' = blocks /\ list' = list
    BY <1>2, <1>3
  <2> QED
    BY <1>1, <2>1 DEF NowSettled, ThenSettled
<1>4. CASE ~(~grows \/ arr = 0)
  <2>1. /\ blocks' = IF ok THEN Taken(Taken(h, k), d) ELSE Freed(h, {k, d})
        /\ list' = [list EXCEPT ![kind] = IF ok THEN n ELSE g]
    BY <1>2, <1>4
  <2>2. /\ list \in [Kinds -> ListType] /\ ListFits(l) /\ ListBlocks(l) \subseteq blocks /\ blocks \in SUBSET Heap
        /\ l.block \in Heap \cup {0} /\ 0 \notin Heap /\ Len(l.items) \in Nat /\ l.items \in Seq(Item)
    <3>1. /\ list \in [Kinds -> ListType] /\ ListFits(l) /\ ListBlocks(l) \subseteq blocks
          /\ blocks \in SUBSET Heap
      BY NowHolds
    <3>2. l \in ListType
      BY <3>1 DEF ListFits
    <3>3. l.block \in Heap \cup {0} /\ l.items \in Seq(Item)
      <4> HIDE DEF l
      <4> QED
        BY <3>2 DEF ListType
    <3>4. Len(l.items) \in Nat
      <4> HIDE DEF l
      <4> QED
        BY <3>3
    <3> QED
      BY <3>1, <3>3, <3>4, HeapIs
  <2>3. arr \in Heap /\ (l.block # 0 => arr = l.block) /\ (l.block = 0 => arr \notin blocks)
    <3>1. CASE l.block = 0
      BY <1>4, <3>1, AllocateIs
    <3>2. CASE l.block # 0
      BY <2>2, <3>2
    <3> QED
      BY <3>1, <3>2
  <2> HIDE DEF arr
  <2>4. h = blocks \cup {arr}
    BY <2>2, <2>3 DEF Taken
  <2> HIDE DEF h
  <2>5. k \in (Heap \ h) \cup {0}
    BY AllocateIs
  <2>6. d \in (Heap \ Taken(h, k)) \cup {0}
    <3> HIDE DEF k
    <3> QED
      BY AllocateIs
  <2>7. NumbersTold(list) /\ DOMAIN list = Kinds
    BY <2>2
  <2> HIDE DEF k, d, l, ok
  <2>8. ListFits(g) /\ ListBlocks(g) = ListBlocks(l) \cup {arr} /\ g.block = arr /\ g.items = l.items
    BY <2>2, <2>3, GrowFits
  <2> HIDE DEF g
  <2>9. CASE ok
    <3>1. k \notin ListBlocks(g) /\ d \notin ListBlocks(g) /\ (k # 0 => k # d) /\ k \in Heap \cup {0} /\ d \in Heap \cup {0}
      BY <2>2, <2>3, <2>4, <2>5, <2>6, <2>8 DEF Taken
    <3>2. Len(l.items) + 1 \in Nat /\ Len(g.items) < Len(l.items) + 1
      BY <2>2, <2>8
    <3>3. ListFits(n) /\ ListBlocks(n) = ListBlocks(g) \cup ({k, d} \ {0})
      <4>1. n = Appended(g, arr, Len(l.items) + 1, k, d)
        BY <2>8 DEF Appended
      <4> HIDE DEF n
      <4>2. ListWith(Appended(g, arr, Len(l.items) + 1, k, d), ListBlocks(g) \cup ({k, d} \ {0}))
        BY <2>2, <2>3, <2>8, <3>1, <3>2, AppendFits
      <4> QED
        BY <4>1, <4>2 DEF ListWith
    <3>4. n.items = Append(l.items, x) /\ x.type = "data"
      OBVIOUS
    <3>5. \A i \in 1..Len(n.items) : Faithful(n.items[i].type, n.items[i].num, n.items[i].text)
      <4> HIDE DEF x, n
      <4>1. x \in Item
        BY <2>5, <2>6 DEF x, Item, Types
      <4>2. ASSUME NEW i \in 1..Len(n.items)
            PROVE (i \in 1..Len(l.items) /\ n.items[i] = l.items[i]) \/ n.items[i] = x
        <5> HIDE DEF Item
        <5> QED
          BY <2>2, <3>4, <4>1
      <4>3. \A i \in 1..Len(l.items) : Faithful(l.items[i].type, l.items[i].num, l.items[i].text)
        BY DEF NumbersTold, l
      <4> QED
        BY <3>4, <4>2, <4>3, DataAreFaithful
    <3> HIDE DEF n, x
    <3>6. blocks' = (blocks \ ListBlocks(l)) \cup ListBlocks(n)
      BY <2>1, <2>2, <2>4, <2>8, <2>9, <3>3 DEF Taken
    <3>7. ListBlocks(n) \cap (blocks \ ListBlocks(l)) = {}
      <4>1. l.block # 0 => arr \in ListBlocks(l)
        BY <2>3 DEF ListBlocks
      <4> QED
        BY <2>2, <2>3, <2>4, <2>5, <2>6, <2>8, <3>3, <4>1 DEF Taken
    <3>8. list' = [list EXCEPT ![kind] = n]
      BY <2>1, <2>9
    <3>9. Settled(blocks', textMap, list', owned, err)
      BY <3>3, <3>6, <3>7, <3>8, ListSettles DEF NowSettled, l
    <3> QED
      BY <1>1, <2>7, <3>5, <3>8, <3>9, NumbersKept DEF ThenSettled
  <2>10. CASE ~ok
    <3>1. blocks' = (blocks \ ListBlocks(l)) \cup ListBlocks(g)
      <4>1. h \ {k, d} = h
        BY <2>2, <2>3, <2>4, <2>5, <2>6 DEF Taken
      <4> QED
        BY <2>1, <2>2, <2>4, <2>8, <2>10, <4>1 DEF Freed
    <3>2. ListBlocks(g) \cap (blocks \ ListBlocks(l)) = {}
      <4>1. l.block # 0 => arr \in ListBlocks(l)
        BY <2>3 DEF ListBlocks
      <4> QED
        BY <2>3, <2>8, <4>1
    <3>3. list' = [list EXCEPT ![kind] = g]
      BY <2>1, <2>10
    <3>4. Settled(blocks', textMap, list', owned, err)
      BY <2>8, <3>1, <3>2, <3>3, ListSettles DEF NowSettled, l
    <3>5. \A i \in 1..Len(g.items) : Faithful(g.items[i].type, g.items[i].num, g.items[i].text)
      BY <2>8 DEF NumbersTold, l
    <3> QED
      BY <1>1, <2>7, <3>3, <3>4, <3>5, NumbersKept DEF ThenSettled
  <2> QED
    BY <2>9, <2>10
<1> QED
  BY <1>3, <1>4

\* otelc_value_destroy() and otelc_kv_destroy()
LEMMA DestroySettles ==
  ASSUME ContainersAssumption, NowSettled, NumbersTold(list), NEW kind \in Kinds, ListDestroy(kind)
  PROVE  ThenSettled /\ NumbersTold(list')
<1> DEFINE l == list[kind]
<1>1. /\ textMap' = textMap /\ owned' = owned /\ err' = err /\ l.block # 0
      /\ list' = [list EXCEPT ![kind] = NoList]
  BY DEF ListDestroy
<1>2. LET items == ToSet(l.items)
      IN  blocks' = Freed(blocks, {l.block} \cup {i.key : i \in items} \cup {i.data : i \in {j \in items : j.type = "data"}})
  BY DEF ListDestroy
<1>3. ListFits(l) /\ 0 \notin blocks /\ DOMAIN list = Kinds
  BY NowHolds, HeapIs
<1> HIDE DEF l
<1>4. blocks' = blocks \ ListBlocks(l)
  BY <1>1, <1>2, <1>3, DestroyIs
<1>5. ListFits(NoList) /\ ListBlocks(NoList) = {} /\ 1..Len(NoList.items) = {}
  BY NoListFits DEF NoList
<1>6. Settled(blocks', textMap, list', owned, err)
  <2>1. blocks' = (blocks \ ListBlocks(l)) \cup ListBlocks(NoList) /\ ListBlocks(NoList) \cap (blocks \ ListBlocks(l)) = {}
    BY <1>4, <1>5
  <2> QED
    BY <1>1, <1>5, <2>1, ListSettles DEF NowSettled, l
<1>7. NumbersTold(list')
  BY <1>1, <1>3, <1>5, NumbersKept
<1> QED
  BY <1>1, <1>6, <1>7 DEF ThenSettled

\* otelc_value_strtonum()
LEMMA StrtonumSettles ==
  ASSUME ContainersAssumption, NowSettled, NumbersTold(list), NEW i \in 1..MaxItems, NEW type \in Types \ {"data"},
         NEW text \in Int, Strtonum(i, type, text)
  PROVE  ThenSettled /\ NumbersTold(list')
<1> DEFINE l == list["value"]
           old == l.items[i]
<1>1. /\ textMap' = textMap /\ owned' = owned /\ err' = err
      /\ i \in DOMAIN l.items /\ old.data # 0 /\ blocks' = Freed(blocks, {old.data})
  BY DEF Strtonum
<1>2. PICK num \in Number(type, text) :
        list' = [list EXCEPT !["value"].items[i] = [@ EXCEPT !.data = 0, !.type = type, !.num = num, !.text = text]]
  BY DEF Strtonum
<1>3. num \in Int /\ Faithful(type, num, text)
  BY NumberIs
<1> DEFINE n == [l EXCEPT !.items[i] = [@ EXCEPT !.data = 0, !.type = type, !.num = num, !.text = text]]
<1>4. /\ list \in [Kinds -> ListType] /\ ListFits(l) /\ ListBlocks(l) \subseteq blocks /\ "value" \in Kinds
      /\ 0 \notin Heap /\ DOMAIN list = Kinds
  BY NowHolds, HeapIs DEF Kinds
<1>5. list' = [list EXCEPT !["value"] = n]
  BY <1>2, <1>4
<1>6. i \in 1..Len(l.items)
  <2>1. l.items \in Seq(Item)
    BY <1>4 DEF ListFits, ListType
  <2> HIDE DEF Item, l
  <2> QED
    BY <1>1, <2>1
<1>7. /\ ListFits(n) /\ ListBlocks(n) = ListBlocks(l) \ {old.data} /\ Len(n.items) = Len(l.items)
      /\ n.items[i].type = type /\ n.items[i].num = num /\ n.items[i].text = text
      /\ \A j \in 1..Len(l.items) \ {i} : n.items[j] = l.items[j]
  <2>1. type \in Types /\ l.items[i].data # 0 /\ old = l.items[i]
    BY <1>1
  <2>2. n = Replaced(l, i, type, num, text)
    BY DEF Replaced
  <2> HIDE DEF l, n, old
  <2>3. /\ ListWith(Replaced(l, i, type, num, text), ListBlocks(l) \ {l.items[i].data})
        /\ TextTaken(Replaced(l, i, type, num, text), l, i, type, num, text)
    BY <1>3, <1>4, <1>6, <2>1, ReplaceFits
  <2> QED
    BY <2>1, <2>2, <2>3 DEF ListWith, TextTaken
<1> HIDE DEF n
<1>8. old.data \in ListBlocks(l)
  <2>1. <<i, "data">> \in (1..Len(l.items)) \X Fields /\ l.items[<<i, "data">>[1]][<<i, "data">>[2]] = old.data
    BY <1>6 DEF Fields
  <2> HIDE DEF l, old
  <2> QED
    BY <1>1, <2>1 DEF ListBlocks, FieldBlocks
<1>9. \A j \in 1..Len(n.items) : Faithful(n.items[j].type, n.items[j].num, n.items[j].text)
  <2>1. ASSUME NEW j \in 1..Len(n.items)
        PROVE Faithful(n.items[j].type, n.items[j].num, n.items[j].text)
    <3>1. CASE j = i
      BY <1>3, <1>7, <3>1
    <3>2. CASE j # i
      <4>1. n.items[j] = l.items[j] /\ j \in 1..Len(l.items)
        BY <1>7, <3>2
      <4>2. Faithful(l.items[j].type, l.items[j].num, l.items[j].text)
        BY <1>4, <4>1 DEF NumbersTold
      <4> QED
        BY <4>1, <4>2
    <3> QED
      BY <3>1, <3>2
  <2> QED
    BY <2>1
<1> HIDE DEF old
<1>10. Settled(blocks', textMap, list', owned, err)
  <2>1. blocks' = (blocks \ ListBlocks(l)) \cup ListBlocks(n) /\ ListBlocks(n) \cap (blocks \ ListBlocks(l)) = {}
    <3> HIDE DEF l
    <3> QED
      BY <1>1, <1>4, <1>7, <1>8 DEF Freed
  <2> QED
    BY <1>4, <1>5, <1>7, <2>1, ListSettles DEF NowSettled
<1>11. NumbersTold(list')
  BY <1>4, <1>5, <1>9, NumbersKept
<1> QED
  BY <1>1, <1>10, <1>11 DEF ThenSettled

\* otelc_strdup(), free() and otelc_sprintf()
LEMMA StringsSettle ==
  ASSUME ContainersAssumption, NowSettled, Strdup \/ (\E b \in owned : StringFree(b)) \/ \E ok \in BOOLEAN : Sprintf(ok)
  PROVE  ThenSettled /\ list' = list
<1>1. CASE Strdup
  <2> DEFINE b == Allocate(blocks, TRUE)
  <2>1. /\ owned' = owned \cup {b} /\ blocks' = Taken(blocks, b) /\ b # 0
        /\ textMap' = textMap /\ list' = list /\ err' = err
    BY <1>1 DEF Strdup
  <2>2. b \in (Heap \ blocks) \cup {0}
    BY AllocateIs
  <2> HIDE DEF b
  <2>3. b \in Heap \ blocks /\ blocks' = blocks \cup {b}
    BY <2>1, <2>2 DEF Taken
  <2>4. Settled(blocks \cup {b}, textMap, list, owned \cup {b}, err)
    BY <2>3, StringSettles DEF NowSettled
  <2> QED
    BY <2>1, <2>3, <2>4 DEF ThenSettled
<1>2. CASE \E b \in owned : StringFree(b)
  <2>1. PICK b \in owned : StringFree(b)
    BY <1>2
  <2>2. owned' = owned \ {b} /\ blocks' = blocks \ {b} /\ textMap' = textMap /\ list' = list /\ err' = err
    BY <2>1 DEF StringFree, Freed
  <2>3. Settled(blocks \ {b}, textMap, list, owned \ {b}, err)
    BY ReleaseSettles DEF NowSettled
  <2> QED
    BY <2>2, <2>3 DEF ThenSettled
<1>3. CASE \E ok \in BOOLEAN : Sprintf(ok)
  <2>1. PICK ok \in BOOLEAN : Sprintf(ok)
    BY <1>3
  <2> DEFINE b == Allocate(blocks, ok)
  <2>2. err' = b /\ blocks' = Freed(Taken(blocks, b), {err}) /\ textMap' = textMap /\ list' = list /\ owned' = owned
    BY <2>1 DEF Sprintf
  <2>3. b \in (Heap \ blocks) \cup {0}
    BY AllocateIs
  <2> HIDE DEF b
  <2>4. Settled(Freed(Taken(blocks, b), {err}), textMap, list, owned, b)
    BY <2>3, MessageSettles DEF NowSettled
  <2> QED
    BY <2>2, <2>4 DEF ThenSettled
<1> QED
  BY <1>1, <1>2, <1>3

-----------------------------------------------------------------------------
(* Containers: the theorems *)

\* A header's copy ends within the buffer, and the answer tells whether it is whole.
BufferTold == /\ buffer.size \in Nat /\ buffer.holds \in Nat /\ buffer.told \in Nat
              /\ HeaderTold

ContainersCore == NowSettled /\ NumbersTold(list) /\ BufferTold /\ steps \in 0..MaxSteps

\* The header of a trace state, copied.
LEMMA CopyTells == ASSUME NEW size \in 1..MaxHeader, NEW n \in 0..MaxHeader, TraceStateCopy(size, n), ContainersAssumption
                   PROVE  BufferTold'
<1> DEFINE holds == IF n = 0 THEN 0 ELSE Strlcpy(size, n)
<1>1. buffer' = [size |-> size, told |-> n, holds |-> holds]
  BY DEF TraceStateCopy
<1>2. size \in Nat /\ n \in Nat /\ 1 <= size
  BY DEF ContainersAssumption
<1>3. holds \in Nat /\ holds + 1 <= size /\ (n < size <=> holds = n)
  BY <1>2 DEF Strlcpy
<1> HIDE DEF holds
<1>4. buffer'.size = size /\ buffer'.told = n /\ buffer'.holds = holds
  BY <1>1
<1> QED
  BY <1>2, <1>3, <1>4 DEF BufferTold, HeaderTold

\* Nothing is owned at first.
LEMMA CoreInit == ASSUME ContainersAssumption, ContainersInit PROVE ContainersCore
<1>1. /\ blocks = {} /\ owned = {} /\ err = 0 /\ steps = 0 /\ textMap = NoMap
      /\ list = [kind \in Kinds |-> NoList] /\ buffer = [size |-> 1, holds |-> 0, told |-> 0]
  BY DEF ContainersInit, Kinds
<1>2. /\ list["value"] = NoList /\ list["kv"] = NoList /\ list \in [Kinds -> ListType]
      /\ \A kind \in Kinds : ListFits(list[kind]) /\ Len(list[kind].items) = 0
  <2>1. NoList \in ListType /\ ListFits(NoList)
    BY NoListFits DEF ListFits
  <2>2. NoList.items = <<>> /\ Len(<<>>) = 0
    BY DEF NoList
  <2>3. \A kind \in Kinds : list[kind] = NoList
    BY <1>1
  <2>4. list \in [Kinds -> ListType]
    BY <1>1, <2>1
  <2> QED
    BY <2>1, <2>2, <2>3, <2>4 DEF Kinds
<1>3. RestOf(list, owned, err) = {} /\ RestApart(list, owned, err)
  BY <1>1, <1>2, NoListFits DEF RestOf, RestApart
<1>4. Fit({}, NoMap, {})
  <2>1. Fit({} \cup ({0} \ {0}), Bare(FALSE, 0), {})
    BY BareFits
  <2>2. {} \cup ({0} \ {0}) = {}
    OBVIOUS
  <2> QED
    BY <2>1, <2>2, BareIs
<1>5. Len(textMap.pairs) <= MaxPairs
  <2>1. NoMap.pairs = <<>> /\ Len(<<>>) = 0
    BY BareIs DEF Bare
  <2> QED
    BY <1>1, <2>1 DEF ContainersAssumption
<1>6. NowSettled
  BY <1>1, <1>2, <1>3, <1>4, <1>5 DEF NowSettled, Settled
<1>7. NumbersTold(list)
  BY <1>2 DEF NumbersTold
<1>8. BufferTold
  BY <1>1 DEF BufferTold, HeaderTold
<1>9. steps \in 0..MaxSteps
  BY <1>1 DEF ContainersAssumption
<1> QED
  BY <1>6, <1>7, <1>8, <1>9 DEF ContainersCore

\* Every call keeps the strengthened invariant.
LEMMA CoreStep == ASSUME ContainersAssumption, ContainersCore, ContainersNext
  PROVE ContainersCore'
<1>0. NowSettled /\ NumbersTold(list) /\ BufferTold /\ steps \in 0..MaxSteps
  BY DEF ContainersCore
<1> DEFINE Done == ThenSettled /\ NumbersTold(list') /\ BufferTold' /\ steps' \in 0..MaxSteps
<1> SUFFICES Done
  <2>1. ThenSettled <=> NowSettled'
    BY DEF NowSettled, ThenSettled
  <2>2. NumbersTold(list') <=> NumbersTold(list)'
    BY DEF NumbersTold
  <2> QED
    BY <2>1, <2>2 DEF ContainersCore
<1>1. ASSUME Step PROVE steps' \in 0..MaxSteps
  BY <1>0, <1>1 DEF Step, ContainersAssumption
<1>2. ASSUME buffer' = buffer PROVE BufferTold'
  BY <1>0, <1>2 DEF BufferTold, HeaderTold
<1>3. ASSUME ThenSettled, list' = list, buffer' = buffer, Step PROVE Done
  BY <1>0, <1>1, <1>2, <1>3
<1>4. CASE \E dynamic \in BOOLEAN, size \in 0..2 : TextMapNew(dynamic, size)
  <2>1. PICK dynamic \in BOOLEAN, size \in 0..2 : TextMapNew(dynamic, size)
    BY <1>4
  <2>2. ThenSettled
    BY <1>0, <2>1, NewSettles
  <2>3. list' = list /\ buffer' = buffer /\ Step
    BY <2>1 DEF TextMapNew
  <2> QED
    BY <1>3, <2>2, <2>3
<1>5. CASE \E k, v \in Modes, gift \in [key : owned \cup {0}, value : owned \cup {0}] :
             TextMapAdd([key |-> k, value |-> v], gift)
  <2>1. PICK k \in Modes, v \in Modes, gift \in [key : owned \cup {0}, value : owned \cup {0}] :
          TextMapAdd([key |-> k, value |-> v], gift)
    BY <1>5
  <2> DEFINE mode == [key |-> k, value |-> v]
  <2>2. mode \in [key : Modes, value : Modes] /\ TextMapAdd(mode, gift)
    BY <2>1
  <2> HIDE DEF mode
  <2>3. ThenSettled
    BY <1>0, <2>2, AddSettles
  <2>4. list' = list /\ buffer' = buffer /\ Step
    BY <2>2 DEF TextMapAdd
  <2> QED
    BY <1>3, <2>3, <2>4
<1>6. CASE TextMapFree \/ TextMapDestroy
  <2>1. ThenSettled
    BY <1>0, <1>6, FreeSettles
  <2>2. list' = list /\ buffer' = buffer /\ Step
    BY <1>6 DEF TextMapFree, TextMapDestroy
  <2> QED
    BY <1>3, <2>1, <2>2
<1>7. CASE \E kind \in {"value", "kv"} : \E hasData \in BOOLEAN : ItemAdd(kind, hasData)
  <2>1. PICK kind \in Kinds, hasData \in BOOLEAN : ItemAdd(kind, hasData)
    BY <1>7 DEF Kinds
  <2>2. ThenSettled /\ NumbersTold(list')
    BY <1>0, <2>1, ItemSettles
  <2>3. buffer' = buffer /\ Step
    BY <2>1 DEF ItemAdd
  <2> QED
    BY <1>1, <1>2, <2>2, <2>3
<1>8. CASE \E kind \in {"value", "kv"} : ListDestroy(kind)
  <2>1. PICK kind \in Kinds : ListDestroy(kind)
    BY <1>8 DEF Kinds
  <2>2. ThenSettled /\ NumbersTold(list')
    BY <1>0, <2>1, DestroySettles
  <2>3. buffer' = buffer /\ Step
    BY <2>1 DEF ListDestroy
  <2> QED
    BY <1>1, <1>2, <2>2, <2>3
<1>9. CASE \E i \in 1..MaxItems, type \in {"bool", "int32", "int64", "uint32", "uint64", "double"}, n \in Texts :
             Strtonum(i, type, n)
  <2>1. PICK i \in 1..MaxItems, type \in {"bool", "int32", "int64", "uint32", "uint64", "double"}, n \in Texts :
          Strtonum(i, type, n)
    BY <1>9
  <2>2. type \in Types \ {"data"} /\ n \in Int
    <3>1. LongMax \in Nat /\ IntMax \in Nat
      BY DEF ContainersAssumption
    <3>2. n \in Int
      BY <3>1 DEF Texts
    <3>3. type \in Types \ {"data"}
      BY DEF Types
    <3> QED
      BY <3>2, <3>3
  <2>3. ThenSettled /\ NumbersTold(list')
    BY <1>0, <2>1, <2>2, StrtonumSettles
  <2>4. buffer' = buffer /\ Step
    BY <2>1 DEF Strtonum
  <2> QED
    BY <1>1, <1>2, <2>3, <2>4
<1>10. CASE Strdup \/ (\E b \in owned : StringFree(b)) \/ \E ok \in BOOLEAN : Sprintf(ok)
  <2>1. ThenSettled /\ list' = list
    BY <1>0, <1>10, StringsSettle
  <2>2. buffer' = buffer /\ Step
    BY <1>10 DEF Strdup, StringFree, Sprintf
  <2> QED
    BY <1>3, <2>1, <2>2
<1>11. CASE \E n \in 1..2 : TraceStateEntries(n)
  <2>1. PICK n \in 1..2 : TraceStateEntries(n)
    BY <1>11
  <2>2. ThenSettled
    BY <1>0, <2>1, EntriesSettle
  <2>3. list' = list /\ buffer' = buffer /\ Step
    BY <2>1 DEF TraceStateEntries
  <2> QED
    BY <1>3, <2>2, <2>3
<1>12. CASE \E size \in 1..MaxHeader, n \in 0..MaxHeader : TraceStateCopy(size, n)
  <2>1. PICK size \in 1..MaxHeader, n \in 0..MaxHeader : TraceStateCopy(size, n)
    BY <1>12
  <2>2. BufferTold'
    BY <2>1, CopyTells
  <2>3. blocks' = blocks /\ textMap' = textMap /\ list' = list /\ owned' = owned /\ err' = err /\ Step
    BY <2>1 DEF TraceStateCopy
  <2>4. ThenSettled
    BY <1>0, <2>3 DEF NowSettled, ThenSettled
  <2> QED
    BY <1>0, <1>1, <2>2, <2>3, <2>4
<1> HIDE DEF Done
<1> QED
  BY <1>4, <1>5, <1>6, <1>7, <1>8, <1>9, <1>10, <1>11, <1>12 DEF ContainersNext

\* The blocks of the seven families of owners, in the order of Owners.
Families == <<StringBlocks(textMap), FieldBlocks(list["value"]), FieldBlocks(list["kv"]), TableBlocks(textMap),
              {list[kind].block : kind \in Kinds} \ {0}, owned, {textMap.struct, err} \ {0}>>

\* The shape of the containers, from the strengthened invariant.
LEMMA CoreHolds ==
  ASSUME ContainersAssumption, NowSettled
  PROVE  /\ textMap \in MapType /\ MapShape(textMap) /\ MapApart(textMap) /\ Len(textMap.pairs) \in Nat
         /\ DOMAIN textMap.pairs = 1..Len(textMap.pairs) /\ DOMAIN list = Kinds
         /\ \A kind \in Kinds : /\ ListFits(list[kind]) /\ list[kind] \in ListType
                                /\ DOMAIN list[kind].items = 1..Len(list[kind].items)
                                /\ \A i \in 1..Len(list[kind].items) : list[kind].items[i] \in Item
<1>1. MapShape(textMap) /\ MapApart(textMap) /\ list \in [Kinds -> ListType]
  BY DEF NowSettled, Settled, Fit
<1>2. textMap \in MapType /\ textMap.pairs \in Seq(Pair)
  BY <1>1 DEF MapShape, MapType
<1>3. Len(textMap.pairs) \in Nat /\ DOMAIN textMap.pairs = 1..Len(textMap.pairs)
  <2> HIDE DEF Pair
  <2> QED
    BY <1>2
<1>4. ASSUME NEW kind \in Kinds
      PROVE  /\ ListFits(list[kind]) /\ list[kind] \in ListType
             /\ DOMAIN list[kind].items = 1..Len(list[kind].items)
             /\ \A i \in 1..Len(list[kind].items) : list[kind].items[i] \in Item
  <2>1. ListFits(list[kind]) /\ list[kind].items \in Seq(Item) /\ list[kind] \in ListType
    BY DEF NowSettled, Settled, ListFits, ListType
  <2> HIDE DEF Item
  <2> QED
    BY <2>1
<1> QED
  BY <1>1, <1>2, <1>3, <1>4

\* No two families share a block, and together they own all.
LEMMA FamiliesApart ==
  ASSUME ContainersAssumption, NowSettled
  PROVE  /\ blocks = UNION {Families[o] : o \in 1..7}
         /\ \A o, p \in 1..7 : o # p => Families[o] \cap Families[p] = {}
<1> DEFINE A == StringBlocks(textMap)
           V == FieldBlocks(list["value"])
           K == FieldBlocks(list["kv"])
           T == TableBlocks(textMap)
           v == list["value"].block
           k == list["kv"].block
           s == textMap.struct
           B == {list[kind].block : kind \in Kinds} \ {0}
           S == {s, err} \ {0}
<1>1. B = {v, k} \ {0}
  BY DEF Kinds
<1>2. /\ ListBlocks(list["value"]) = V \cup ({v} \ {0}) /\ ListBlocks(list["kv"]) = K \cup ({k} \ {0})
      /\ MapBlocks(textMap) = A \cup T \cup ({s} \ {0})
  BY DEF ListBlocks, MapBlocks
<1>3. /\ Families[1] = A /\ Families[2] = V /\ Families[3] = K /\ Families[4] = T /\ Families[5] = B
      /\ Families[6] = owned /\ Families[7] = S
  BY DEF Families
<1>4. v \notin V /\ k \notin K
  BY DEF NowSettled, Settled, ListFits, Kinds
<1>5. A \cap T = {} /\ s \notin A \cup T /\ 0 \notin A \cup T \cup V \cup K \cup owned
  BY HeapIs DEF NowSettled, Settled, Fit, MapApart, StringBlocks, TableBlocks, FieldBlocks
<1> DEFINE R == RestOf(list, owned, err)
<1>6. blocks = MapBlocks(textMap) \cup R /\ MapBlocks(textMap) \cap R = {} /\ RestApart(list, owned, err)
  BY DEF NowSettled, Settled, Fit
<1>7. R = ListBlocks(list["value"]) \cup ListBlocks(list["kv"]) \cup owned \cup ({err} \ {0})
  BY DEF RestOf
<1>8. /\ ListBlocks(list["value"]) \cap ListBlocks(list["kv"]) = {}
      /\ (ListBlocks(list["value"]) \cup ListBlocks(list["kv"])) \cap owned = {}
      /\ err \notin ListBlocks(list["value"]) \cup ListBlocks(list["kv"]) \cup owned
  BY <1>6 DEF RestApart
<1> HIDE DEF A, V, K, T, v, k, s, B, S, R
<1>9. /\ A \cap (V \cup K \cup T \cup B \cup owned \cup S) = {} /\ V \cap (K \cup T \cup B \cup owned \cup S) = {}
      /\ K \cap (T \cup B \cup owned \cup S) = {} /\ T \cap (B \cup owned \cup S) = {}
      /\ B \cap (owned \cup S) = {} /\ owned \cap S = {}
  <2>1. S = {s, err} \ {0}
    BY DEF S
  <2>2. /\ A \cap (V \cup K \cup B \cup owned) = {} /\ T \cap (V \cup K \cup B \cup owned) = {}
        /\ s = 0 \/ s \notin V \cup K \cup B \cup owned
    BY <1>1, <1>2, <1>6, <1>7
  <2>3. err \notin A \cup T \/ err = 0
    BY <1>2, <1>6, <1>7
  <2>4. V \cap (K \cup B \cup owned) = {} /\ K \cap (B \cup owned) = {} /\ B \cap owned = {}
    BY <1>1, <1>2, <1>4, <1>8
  <2>5. err = 0 \/ err \notin V \cup K \cup B \cup owned
    BY <1>1, <1>2, <1>8
  <2>6. S \cap (A \cup T) = {}
    BY <1>5, <2>1, <2>3
  <2>7. S \cap (V \cup K \cup B \cup owned) = {}
    BY <2>1, <2>2, <2>5
  <2> QED
    BY <1>5, <2>2, <2>4, <2>6, <2>7
<1>10. blocks = A \cup V \cup K \cup T \cup B \cup owned \cup S
  BY <1>1, <1>2, <1>6, <1>7 DEF S
<1>11. UNION {Families[o] : o \in 1..7} = A \cup V \cup K \cup T \cup B \cup owned \cup S
  <2>1. \A o : o \in 1..7 <=> o \in {1, 2, 3, 4, 5, 6, 7}
    OBVIOUS
  <2>2. \A x : x \in UNION {Families[o] : o \in 1..7} <=> \E o \in {1, 2, 3, 4, 5, 6, 7} : x \in Families[o]
    BY <2>1
  <2> QED
    BY <1>3, <2>2
<1>12. ASSUME NEW o \in 1..7, NEW p \in 1..7, o # p PROVE Families[o] \cap Families[p] = {}
  <2>1. o \in {1, 2, 3, 4, 5, 6, 7} /\ p \in {1, 2, 3, 4, 5, 6, 7}
    OBVIOUS
  <2> QED
    BY <1>3, <1>9, <1>12, <2>1
<1> QED
  BY <1>10, <1>11, <1>12

\* One owner per block, family by family.
LEMMA FamiliesAre ==
  ASSUME ContainersAssumption, NowSettled, NEW o \in 1..7
  PROVE  /\ Families[o] = {Owners[o][x] : x \in {y \in DOMAIN Owners[o] : Owners[o][y] # 0}}
         /\ \A x, y \in DOMAIN Owners[o] : Owners[o][x] # 0 /\ Owners[o][x] = Owners[o][y] => x = y
<1> DEFINE Good(f, bs) == /\ bs = {f[x] : x \in {y \in DOMAIN f : f[y] # 0}}
                          /\ \A x, y \in DOMAIN f : f[x] # 0 /\ f[x] = f[y] => x = y
<1>0. 0 \notin Heap
  BY HeapIs
<1>1. Good(MapStrings, StringBlocks(textMap))
  <2> DEFINE n == Len(textMap.pairs)
             t == textMap
  <2>1. DOMAIN MapStrings = (1..n) \X Strings /\ \A x \in (1..n) \X Strings : MapStrings[x] = StringAt(t, x[1], x[2])
    BY CoreHolds DEF MapStrings, StringAt, Strings
  <2> HIDE DEF n
  <2>2. StringBlocks(t) = {StringAt(t, x[1], x[2]) : x \in (1..n) \X Strings} \ {0}
    BY DEF StringBlocks, n
  <2>3. \A i, j \in 1..n : \A a, c \in Strings : StringAt(t, i, a) # 0 /\ StringAt(t, i, a) = StringAt(t, j, c) => i = j /\ a = c
    BY CoreHolds DEF MapApart, n
  <2> HIDE DEF t
  <2>4. ASSUME NEW x \in (1..n) \X Strings, NEW y \in (1..n) \X Strings, MapStrings[x] # 0, MapStrings[x] = MapStrings[y]
        PROVE  x = y
    <3>1. x[1] = y[1] /\ x[2] = y[2]
      BY <2>1, <2>3, <2>4
    <3> QED
      BY <3>1
  <2>5. StringBlocks(t) = {MapStrings[x] : x \in {y \in DOMAIN MapStrings : MapStrings[y] # 0}}
    BY <2>1, <2>2
  <2> QED
    BY <2>1, <2>4, <2>5 DEF t
<1>2. ASSUME NEW kind \in Kinds PROVE Good(ItemBlocks(kind), FieldBlocks(list[kind]))
  <2> DEFINE l == list[kind]
             n == Len(l.items)
             f == ItemBlocks(kind)
  <2>1. DOMAIN f = (1..n) \X Fields /\ \A x \in (1..n) \X Fields : f[x] = l.items[x[1]][x[2]]
    BY CoreHolds DEF ItemBlocks, Fields
  <2> HIDE DEF n, f
  <2>2. FieldBlocks(l) = {l.items[x[1]][x[2]] : x \in (1..n) \X Fields} \ {0}
    BY DEF FieldBlocks, n
  <2>3. \A i, j \in 1..n : \A a, c \in Fields : l.items[i][a] # 0 /\ l.items[i][a] = l.items[j][c] => i = j /\ a = c
    BY CoreHolds DEF ListFits, n
  <2> HIDE DEF l
  <2>4. ASSUME NEW x \in (1..n) \X Fields, NEW y \in (1..n) \X Fields, f[x] # 0, f[x] = f[y]
        PROVE x = y
    <3>1. x[1] = y[1] /\ x[2] = y[2]
      BY <2>1, <2>3, <2>4
    <3> QED
      BY <3>1
  <2>5. FieldBlocks(l) = {f[x] : x \in {y \in DOMAIN f : f[y] # 0}}
    BY <2>1, <2>2
  <2> QED
    BY <2>1, <2>4, <2>5 DEF f, l
<1>3. Good(textMap.arr, TableBlocks(textMap))
  <2>1. DOMAIN textMap.arr = Names /\ \A a, c \in Names : textMap.arr[a] # 0 /\ textMap.arr[a] = textMap.arr[c] => a = c
    BY CoreHolds DEF MapType, MapApart
  <2> QED
    BY <2>1 DEF TableBlocks
<1>4. Good([kind \in DOMAIN list |-> list[kind].block], {list[kind].block : kind \in Kinds} \ {0})
  <2>1. DOMAIN list = Kinds
    BY CoreHolds
  <2>2. list["value"].block # 0 => list["value"].block # list["kv"].block
    BY DEF NowSettled, Settled, RestApart, ListBlocks
  <2> QED
    BY <2>1, <2>2 DEF Kinds
<1>5. Good([b \in owned |-> b], owned)
  <2>1. 0 \notin owned
    BY <1>0 DEF NowSettled, Settled
  <2> QED
    BY <2>1
<1>6. Good(<<textMap.struct, err>>, {textMap.struct, err} \ {0})
  <2> DEFINE f == <<textMap.struct, err>>
  <2>1. DOMAIN f = {1, 2} /\ f[1] = textMap.struct /\ f[2] = err
    OBVIOUS
  <2>2. textMap.struct # 0 => textMap.struct # err
    BY DEF NowSettled, Settled, Fit, MapBlocks, RestOf
  <2> HIDE DEF f
  <2>3. \A x, y \in DOMAIN f : f[x] # 0 /\ f[x] = f[y] => x = y
    BY <2>1, <2>2
  <2>4. {textMap.struct, err} \ {0} = {f[x] : x \in {y \in DOMAIN f : f[y] # 0}}
    BY <2>1
  <2> QED
    BY <2>3, <2>4 DEF f
<1>7. /\ Owners[1] = MapStrings /\ Owners[2] = ItemBlocks("value") /\ Owners[3] = ItemBlocks("kv") /\ Owners[4] = textMap.arr
      /\ Owners[5] = [kind \in DOMAIN list |-> list[kind].block] /\ Owners[6] = [b \in owned |-> b]
      /\ Owners[7] = <<textMap.struct, err>>
  BY DEF Owners
<1>8. /\ Families[1] = StringBlocks(textMap) /\ Families[2] = FieldBlocks(list["value"])
      /\ Families[3] = FieldBlocks(list["kv"]) /\ Families[4] = TableBlocks(textMap)
      /\ Families[5] = {list[kind].block : kind \in Kinds} \ {0} /\ Families[6] = owned
      /\ Families[7] = {textMap.struct, err} \ {0}
  BY DEF Families
<1>9. Good(ItemBlocks("value"), FieldBlocks(list["value"])) /\ Good(ItemBlocks("kv"), FieldBlocks(list["kv"]))
  BY <1>2 DEF Kinds
<1> HIDE DEF Good
<1>10. Good(Owners[o], Families[o])
  <2>1. o \in {1, 2, 3, 4, 5, 6, 7}
    OBVIOUS
  <2>2. CASE o = 1
    BY <1>1, <1>7, <1>8, <2>2
  <2>3. CASE o = 2
    BY <1>9, <1>7, <1>8, <2>3
  <2>4. CASE o = 3
    BY <1>9, <1>7, <1>8, <2>4
  <2>5. CASE o = 4
    BY <1>3, <1>7, <1>8, <2>5
  <2>6. CASE o = 5
    BY <1>4, <1>7, <1>8, <2>6
  <2>7. CASE o = 6
    BY <1>5, <1>7, <1>8, <2>7
  <2>8. CASE o = 7
    BY <1>6, <1>7, <1>8, <2>8
  <2> QED
    BY <2>1, <2>2, <2>3, <2>4, <2>5, <2>6, <2>7, <2>8
<1> QED
  BY <1>10 DEF Good

\* Each block in use has exactly one owner.
LEMMA CoreOwns == ASSUME ContainersAssumption, NowSettled PROVE OneOwner
<1> DEFINE slots == UNION {{<<o, x>> : x \in {y \in DOMAIN Owners[o] : Owners[o][y] # 0}} : o \in DOMAIN Owners}
           Block(s) == Owners[s[1]][s[2]]
<1>1. DOMAIN Owners = 1..7
  BY DEF Owners
<1>2. \A o \in 1..7 :
        /\ Families[o] = {Owners[o][x] : x \in {y \in DOMAIN Owners[o] : Owners[o][y] # 0}}
        /\ \A x, y \in DOMAIN Owners[o] : Owners[o][x] # 0 /\ Owners[o][x] = Owners[o][y] => x = y
  BY FamiliesAre
<1>3. ASSUME NEW s \in slots
      PROVE  \E o \in 1..7 : \E x \in DOMAIN Owners[o] : s = <<o, x>> /\ Owners[o][x] # 0 /\ Block(s) = Owners[o][x]
                                                         /\ Block(s) \in Families[o]
  <2>1. PICK o \in 1..7 : s \in {<<o, x>> : x \in {y \in DOMAIN Owners[o] : Owners[o][y] # 0}}
    BY <1>1
  <2>2. PICK x \in DOMAIN Owners[o] : Owners[o][x] # 0 /\ s = <<o, x>>
    BY <2>1
  <2>3. Block(s) = Owners[o][x]
    BY <2>2
  <2>4. Owners[o][x] \in Families[o]
    BY <1>2, <2>2
  <2> QED
    BY <2>2, <2>3, <2>4
<1>4. ASSUME NEW o \in 1..7, NEW b \in Families[o] PROVE \E s \in slots : b = Block(s)
  <2>1. PICK x \in DOMAIN Owners[o] : Owners[o][x] # 0 /\ b = Owners[o][x]
    BY <1>2
  <2>2. <<o, x>> \in {<<o, y>> : y \in {z \in DOMAIN Owners[o] : Owners[o][z] # 0}}
    BY <2>1
  <2>3. <<o, x>> \in slots
    BY <1>1, <2>2
  <2>4. Block(<<o, x>>) = b
    BY <2>1
  <2> QED
    BY <2>3, <2>4
<1> HIDE DEF slots, Block
<1>5. blocks = UNION {Families[o] : o \in 1..7} /\ \A o, p \in 1..7 : o # p => Families[o] \cap Families[p] = {}
  BY FamiliesApart
<1>6. blocks = {Block(s) : s \in slots}
  <2>1. \A b \in blocks : b \in {Block(s) : s \in slots}
    BY <1>4, <1>5
  <2>2. \A s \in slots : Block(s) \in blocks
    BY <1>3, <1>5
  <2> QED
    BY <2>1, <2>2
<1>7. ASSUME NEW s \in slots, NEW t \in slots, Block(s) = Block(t) PROVE s = t
  <2> DEFINE At1(q, o, x) == /\ q = <<o, x>> /\ Owners[o][x] # 0 /\ Block(q) = Owners[o][x]
                             /\ Block(q) \in Families[o]
  <2>0. \A q \in slots : \E o \in 1..7 : \E x \in DOMAIN Owners[o] : At1(q, o, x)
    BY <1>3
  <2>8. PICK o \in 1..7 : \E x \in DOMAIN Owners[o] : At1(s, o, x)
    BY <2>0
  <2>1. PICK x \in DOMAIN Owners[o] : At1(s, o, x)
    BY <2>8
  <2>9. PICK p \in 1..7 : \E x1 \in DOMAIN Owners[p] : At1(t, p, x1)
    BY <2>0
  <2>2. PICK y \in DOMAIN Owners[p] : At1(t, p, y)
    BY <2>9
  <2>3. o = p
    BY <1>5, <1>7, <2>1, <2>2
  <2>4. x = y
    BY <1>2, <1>7, <2>1, <2>2, <2>3
  <2> QED
    BY <2>1, <2>2, <2>3, <2>4
<1> QED
  BY <1>6, <1>7 DEF OneOwner, slots, Block

\* The strengthened invariant implies the run's invariants.
LEMMA CoreInv == ASSUME ContainersAssumption, ContainersCore PROVE ContainersInv
<1>1. NowSettled /\ steps \in 0..MaxSteps
  BY DEF ContainersCore
<1>2. OneOwner
  BY <1>1, CoreOwns
<1>3. ContainersTypeOK
  <2>1. blocks \subseteq Heap /\ owned \subseteq Heap /\ err \in Heap \cup {0} /\ Len(textMap.pairs) <= MaxPairs
    BY <1>1, NowHolds DEF NowSettled, Settled
  <2>2. textMap.size \in Nat
    BY <1>1, CoreHolds DEF MapType
  <2>3. \A i \in DOMAIN textMap.pairs : \A a \in {"key", "value"} :
          textMap.pairs[i].mode[a] # "borrow" => textMap.pairs[i][a] \in Heap
    BY <1>1, CoreHolds DEF MapShape, Strings
  <2>4. ASSUME NEW kind \in DOMAIN list
        PROVE  list[kind].block \in Heap \cup {0} /\ \A i \in DOMAIN list[kind].items : list[kind].items[i].num \in Int
    <3>1. list[kind] \in ListType /\ \A i \in DOMAIN list[kind].items : list[kind].items[i] \in Item
      BY <1>1, CoreHolds
    <3>2. list[kind].block \in Heap \cup {0}
      BY <3>1 DEF ListType
    <3> QED
      BY <3>1, <3>2 DEF Item
  <2> QED
    BY <1>1, <2>1, <2>2, <2>3, <2>4 DEF ContainersTypeOK
<1>4. WithinArrays
  <2>1. Len(textMap.pairs) <= textMap.size /\ DOMAIN textMap.cap = Names /\ \A a \in Names : textMap.size <= textMap.cap[a]
    BY <1>1, CoreHolds DEF MapShape, MapType
  <2>2. \A kind \in DOMAIN list : Len(list[kind].items) <= list[kind].cap
    BY <1>1, CoreHolds DEF ListFits
  <2> QED
    BY <2>1, <2>2 DEF WithinArrays
<1> QED
  BY <1>2, <1>3, <1>4 DEF ContainersInv

\* And so it does for numbers and headers.
LEMMA CoreTells == ASSUME ContainersAssumption, ContainersCore PROVE WidthsTold
<1>1. NowSettled /\ NumbersTold(list) /\ BufferTold
  BY DEF ContainersCore
<1>2. ASSUME NEW kind \in DOMAIN list, NEW i \in DOMAIN list[kind].items
      PROVE  Faithful(list[kind].items[i].type, list[kind].items[i].num, list[kind].items[i].text)
  <2>1. kind \in Kinds /\ i \in 1..Len(list[kind].items)
    BY <1>1, CoreHolds
  <2> QED
    BY <1>1, <2>1 DEF NumbersTold
<1>3. NumbersInRange
  BY <1>2 DEF NumbersInRange, Faithful
<1> QED
  BY <1>1, <1>3 DEF WidthsTold, BufferTold

\* ContainersCore is inductive.
LEMMA CoreAlways == ASSUME ContainersAssumption PROVE ContainersSpec => []ContainersCore
<1>1. ContainersInit => ContainersCore
  BY CoreInit
<1>2. ContainersCore /\ [ContainersNext]_containersVars => ContainersCore'
  <2> SUFFICES ASSUME ContainersCore, [ContainersNext]_containersVars PROVE ContainersCore'
    OBVIOUS
  <2>1. CASE ContainersNext
    BY <2>1, CoreStep
  <2>2. CASE UNCHANGED containersVars
    BY <2>2 DEF containersVars, ContainersCore, NowSettled, NumbersTold, BufferTold, HeaderTold
  <2> QED
    BY <2>1, <2>2
<1> QED
  BY <1>1, <1>2, PTL DEF ContainersSpec

\* Between any two calls each block in use has one owner, and every pair and item lies in its
\* arrays, whichever allocations failed (src/util.cpp).
THEOREM ContainersHold == ASSUME ContainersAssumption PROVE ContainersSpec => []ContainersInv
<1>1. ContainersCore => ContainersInv
  BY CoreInv
<1> QED
  BY <1>1, CoreAlways, PTL

\* An integer that replaced a text is one its type holds, and the one written, or for a
\* negative one read as unsigned its negation modulo 2^64, as strtoul() defines it; a header
\* that does not fit its buffer is told (otelc_value_strtonum(), the trace state calls).
THEOREM WidthsAreTold == ASSUME ContainersAssumption PROVE ContainersSpec => []WidthsTold
<1>1. ContainersCore => WidthsTold
  BY CoreTells
<1> QED
  BY <1>1, CoreAlways, PTL
=============================================================================
