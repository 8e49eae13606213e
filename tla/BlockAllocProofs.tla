-------------------------- MODULE BlockAllocProofs --------------------------
(***************************************************************************)
(* Proofs about BlockAlloc, for any pool and block size and any requests.  *)
(***************************************************************************)
EXTENDS BlockAlloc, TLAPS

(* The search loop: the blocks counted are free, the count is as long as it *)
(* can be, and no run above the block looked at is long enough.             *)
ScanInv ==
  pc = "scan" =>
    /\ memrdy /\ result = "none"
    /\ size # 0 /\ nmemb >= 1
    /\ cmemb < nmemb
    /\ offset + cmemb < TableSize
    /\ \A i \in (offset + 1) .. (offset + cmemb) : memmap[i] = 0
    /\ offset + cmemb + 1 < TableSize => memmap[offset + cmemb + 1] # 0
    /\ \A b \in Blocks : b > offset => ~FreeRun(b, nmemb)

(* Bookkeeping of the callers: nothing is held before the pool is set up,   *)
(* and only a search for myrealloc holds on to an old allocation.           *)
CallInv ==
  /\ ~memrdy => live = {} /\ pc = "idle" /\ result = "none"
  /\ old = {} \/ \E a \in live : old = {a}
  /\ pc = "idle" => old = {}

IInv == TypeOK /\ Disjoint /\ TableExact /\ ScanInv /\ CallInv /\ FailsOnlyWhenFull

-----------------------------------------------------------------------------
LEMMA BlocksForFacts ==
  ASSUME NEW n \in Nat
  PROVE  /\ BlocksFor(n) \in Nat
         /\ n # 0 => BlocksFor(n) >= 1
<1>0. BlockSize \in Nat /\ BlockSize > 0
  BY BlockAssumption
<1>1. n \div BlockSize \in Nat /\ n % BlockSize \in 0..(BlockSize - 1)
  BY <1>0
<1>2. ASSUME n \div BlockSize = 0, n % BlockSize = 0 PROVE n = 0
  BY <1>0, <1>2
<1> QED BY <1>1, <1>2 DEF BlocksFor

(* A block of a live allocation carries its length, a free block belongs to *)
(* none.                                                                    *)
LEMMA TableFacts ==
  ASSUME IInv, memrdy
  PROVE  /\ \A a \in live : \A b \in Span(a) : b \in Blocks /\ memmap[b] = a.len /\ a.len >= 1
         /\ \A a \in live : a.base \in Span(a)
         /\ \A b \in Blocks : memmap[b] = 0 => \A a \in live : b \notin Span(a)
<1>1. \A a \in live : a.len \in 1..TableSize /\ a.base \in Blocks
  BY DEF IInv, TypeOK, Allocation
<1>2. \A a \in live : a.base \in Span(a)
  BY <1>1 DEF Span, Blocks
<1>3. ASSUME NEW a \in live, NEW b \in Span(a)
      PROVE  b \in Blocks /\ memmap[b] = a.len /\ a.len >= 1
  BY <1>1, <1>3 DEF IInv, Disjoint, TableExact
<1> QED BY <1>1, <1>2, <1>3 DEF IInv, TableExact

LEMMA InitIInv == Init => IInv
<1> SUFFICES ASSUME Init PROVE IInv
  OBVIOUS
<1>1. TypeOK
  <2>1. TableSize \in Nat /\ TableSize >= 1
    BY TableAssumption
  <2>2. memmap \in [Blocks -> 0..TableSize]
    BY <2>1 DEF Init
  <2>3. /\ memrdy \in BOOLEAN /\ pc \in {"idle", "scan"}
        /\ old \subseteq live /\ live \subseteq Allocation
        /\ result \in {"none", "ok", "fail"}
    BY DEF Init
  <2>4. /\ size \in Sizes \cup {0} /\ nmemb \in Nat /\ cmemb \in 0..TableSize
        /\ offset \in -1..(TableSize - 1)
    BY <2>1 DEF Init
  <2> QED BY <2>2, <2>3, <2>4 DEF TypeOK
<1>2. Disjoint /\ TableExact /\ ScanInv /\ CallInv /\ FailsOnlyWhenFull
  BY DEF Init, Disjoint, TableExact, ScanInv, CallInv, FailsOnlyWhenFull
<1> QED BY <1>1, <1>2 DEF IInv

-----------------------------------------------------------------------------
LEMMA StepMemInit ==
  ASSUME IInv, MemInit
  PROVE  IInv'
<1> USE DEF IInv
<1>1. live = {} /\ pc = "idle" /\ result = "none"
  BY DEF MemInit, CallInv
<1>2. TypeOK'
  BY TableAssumption DEF MemInit, TypeOK, FreeTable, loop
<1>3. Disjoint' /\ TableExact'
  BY <1>1 DEF MemInit, Disjoint, TableExact, FreeTable
<1>4. ScanInv' /\ CallInv' /\ FailsOnlyWhenFull'
  BY <1>1 DEF MemInit, ScanInv, CallInv, FailsOnlyWhenFull, loop
<1> QED BY <1>2, <1>3, <1>4

LEMMA StepRequest ==
  ASSUME IInv, NEW n \in Sizes, NEW replaces, Request(n, replaces),
         replaces = {} \/ \E a \in live : replaces = {a}
  PROVE  IInv'
<1> USE DEF IInv
<1>1. n \in Nat /\ BlocksFor(n) \in Nat /\ (n # 0 => BlocksFor(n) >= 1)
  BY SizesAssumption, BlocksForFacts
<1>2. /\ memmap' \in [Blocks -> 0..TableSize]
      /\ memrdy => memmap' = memmap
      /\ ~memrdy => live = {} /\ memmap' = FreeTable
      /\ memrdy' = TRUE /\ live' = live
  BY TableAssumption DEF Request, TypeOK, FreeTable, CallInv
<1>3. old' \subseteq live /\ (old' = {} \/ \E a \in live : old' = {a})
  BY DEF Request
<1>4. TypeOK'
  <2>1. /\ size' = n /\ nmemb' = BlocksFor(n) /\ cmemb' = 0 /\ offset' = TableSize - 1
        /\ pc' \in {"idle", "scan"} /\ result' \in {"none", "fail"}
    BY DEF Request, LastBlock
  <2>2. TableSize \in Nat /\ TableSize >= 1
    BY TableAssumption
  <2>3. offset' \in -1..(TableSize - 1) /\ cmemb' \in 0..TableSize
    BY <2>1, <2>2
  <2>4. size' \in Sizes \cup {0} /\ nmemb' \in Nat
    BY <1>1, <2>1
  <2>5. /\ memrdy' \in BOOLEAN /\ old' \subseteq live' /\ live' \subseteq Allocation
        /\ result' \in {"none", "ok", "fail"}
    BY <1>2, <1>3, <2>1 DEF TypeOK
  <2> QED BY <1>2, <2>1, <2>3, <2>4, <2>5 DEF TypeOK
<1>5. Disjoint' /\ TableExact'
  BY <1>2 DEF Disjoint, TableExact, FreeTable
<1>6. ScanInv'
  <2> SUFFICES ASSUME pc' = "scan" PROVE ScanInv'
    BY DEF ScanInv
  <2>1. /\ n # 0 /\ result' = "none" /\ size' = n /\ nmemb' = BlocksFor(n)
        /\ cmemb' = 0 /\ offset' = TableSize - 1
    BY DEF Request, LastBlock
  <2>2. TableSize \in Nat
    BY TableAssumption
  <2>3. /\ nmemb' >= 1 /\ cmemb' < nmemb' /\ offset' + cmemb' < TableSize
        /\ ~(offset' + cmemb' + 1 < TableSize)
    BY <1>1, <2>1, <2>2
  <2>4. \A i \in (offset' + 1) .. (offset' + cmemb') : FALSE
    BY <2>1, <2>2
  <2>5. \A b \in Blocks : ~(b > offset')
    BY <2>1, <2>2 DEF Blocks
  <2> QED BY <1>1, <1>2, <2>1, <2>3, <2>4, <2>5 DEF ScanInv
<1>7. CallInv'
  BY <1>2, <1>3 DEF Request, CallInv
<1>8. FailsOnlyWhenFull'
  BY DEF Request, FailsOnlyWhenFull
<1> QED BY <1>4, <1>5, <1>6, <1>7, <1>8

(* The block looked at ends no long enough run, so the search may go on.    *)
LEMMA StepScanMiss ==
  ASSUME IInv, ScanMiss
  PROVE  IInv'
<1> USE DEF IInv
<1>1. /\ pc = "scan" /\ offset \in Blocks /\ Count # nmemb
      /\ cmemb' = Count /\ offset' = offset - 1
      /\ UNCHANGED <<memmap, memrdy, pc, size, nmemb, old, live, result>>
  BY DEF ScanMiss, TypeOK, Blocks
<1>2. cmemb \in 0..TableSize /\ nmemb \in Nat /\ offset \in Int
  BY DEF TypeOK
<1>3. Count \in Nat /\ Count < nmemb /\ offset' + Count < TableSize
  BY <1>1, <1>2, TableAssumption DEF Count, ScanInv, Blocks
<1>4. TypeOK'
  BY <1>1, <1>2, <1>3, TableAssumption DEF TypeOK, Blocks
<1>5. \A i \in offset .. (offset + Count - 1) : memmap[i] = 0
  BY <1>1, <1>2 DEF Count, ScanInv
<1>6. offset + Count < TableSize => memmap[offset + Count] # 0
  BY <1>1, <1>2 DEF Count, ScanInv
<1>7. ~FreeRun(offset, nmemb)
  <2> SUFFICES ASSUME FreeRun(offset, nmemb) PROVE FALSE
    OBVIOUS
  <2>1. offset + Count \in offset .. (offset + nmemb - 1)
    BY <1>2, <1>3
  <2>2. memmap[offset + Count] = 0 /\ offset + Count < TableSize
    BY <1>2, <1>3, <2>1, TableAssumption DEF FreeRun
  <2> QED BY <1>6, <2>2
<1>8. \A b \in Blocks : b > offset - 1 => ~FreeRun(b, nmemb)
  BY <1>1, <1>7 DEF ScanInv, Blocks
<1>9. ScanInv'
  <2>1. \A b \in Blocks : FreeRun(b, nmemb)' <=> FreeRun(b, nmemb)
    BY <1>1 DEF FreeRun
  <2> QED BY <1>1, <1>2, <1>3, <1>5, <1>6, <1>8, <2>1 DEF ScanInv
<1>10. Disjoint' /\ TableExact' /\ CallInv'
  BY <1>1 DEF Disjoint, TableExact, CallInv, Span
<1>11. FailsOnlyWhenFull'
  BY <1>1 DEF FailsOnlyWhenFull, ScanInv
<1> QED BY <1>4, <1>9, <1>10, <1>11

(* The run found is free: no live allocation overlaps it.                   *)
LEMMA StepScanHit ==
  ASSUME IInv, ScanHit
  PROVE  IInv'
<1> USE DEF IInv
<1> DEFINE new == [base |-> offset, len |-> nmemb, size |-> size]
<1>1. /\ pc = "scan" /\ memrdy /\ offset \in Blocks /\ Count = nmemb
      /\ pc' = "idle" /\ result' = "ok" /\ old' = {} /\ live' = (live \ old) \cup {new}
      /\ UNCHANGED <<memrdy, size, nmemb, cmemb, offset>>
  BY DEF ScanHit, ScanInv, TypeOK, Blocks
<1>2. /\ TableSize \in Nat /\ cmemb \in Nat /\ nmemb \in Nat /\ nmemb >= 1 /\ offset \in Nat
      /\ nmemb = cmemb + 1 /\ offset + nmemb <= TableSize /\ size \in Sizes
  BY <1>1, TableAssumption DEF Count, ScanInv, TypeOK, Blocks
<1>3. /\ new \in Allocation
      /\ new.base = offset /\ new.len = nmemb
      /\ Span(new) = offset .. (offset + nmemb - 1)
  BY <1>1, <1>2 DEF Allocation, Span, Blocks
<1>4. \A i \in Span(new) : i \in Blocks /\ memmap[i] = 0
  <2> SUFFICES ASSUME NEW i \in offset .. (offset + nmemb - 1)
               PROVE  i \in Blocks /\ memmap[i] = 0
    BY <1>3
  <2>1. i \in Blocks
    BY <1>2 DEF Blocks
  <2>2. memmap[offset] = 0
    BY <1>1, <1>2 DEF Count
  <2>3. i = offset \/ i \in (offset + 1) .. (offset + cmemb)
    BY <1>2
  <2> QED BY <1>1, <2>1, <2>2, <2>3 DEF ScanInv
<1>5. \A a \in live : Span(a) \cap Span(new) = {} /\ a # new
  <2>1. offset \in Span(new)
    BY <1>2, <1>3
  <2>2. \A a \in live : \A b \in Span(a) : memmap[b] # 0
    BY <1>1, TableFacts DEF TypeOK, Allocation
  <2> QED BY <1>4, <2>1, <2>2
<1> HIDE DEF new
<1>6. Disjoint'
  BY <1>1, <1>4, <1>5 DEF Disjoint, Span
<1>7. \A b \in Blocks : Marked[b] = IF b \in Span(new) THEN nmemb ELSE memmap[b]
  BY <1>3 DEF Marked
<1>8. memmap' \in [Blocks -> 0..TableSize] /\ TableExact'
  <2>1. CASE old = {}
    <3>1. memmap' = Marked
      BY <2>1 DEF ScanHit
    <3>2. memmap' \in [Blocks -> 0..TableSize]
      BY <1>2, <3>1 DEF Marked, TypeOK
    <3>3. \A b \in Blocks : memmap'[b] = IF b \in Span(new) THEN nmemb ELSE memmap[b]
      BY <1>7, <3>1
    <3>4. live' = live \cup {new}
      BY <1>1, <2>1
    <3> QED BY <1>1, <1>3, <1>5, <3>2, <3>3, <3>4 DEF TableExact
  <2>2. CASE old # {}
    <3>1. PICK a \in live : old = {a}
      BY <2>2 DEF CallInv
    <3>2. memmap' = Cleared(Marked, a.base)
      BY <3>1 DEF ScanHit
    <3>3. a.base \in Blocks /\ a.base \in Span(a) /\ memmap[a.base] = a.len /\ a.len \in Nat
      BY <1>1, TableFacts DEF TypeOK, Allocation
    <3>4. Marked[a.base] = a.len
      BY <1>5, <1>7, <3>3
    <3>5. a.base .. (a.base + Marked[a.base] - 1) = Span(a)
      BY <3>4 DEF Span
    <3>6. memmap' = [b \in Blocks |-> IF b \in Span(a) THEN 0 ELSE Marked[b]]
      BY <3>2, <3>5 DEF Cleared
    <3>7. memmap' \in [Blocks -> 0..TableSize]
      BY <1>2, <1>7, <3>6 DEF TypeOK
    <3>8. \A b \in Blocks : memmap'[b] = IF b \in Span(a) THEN 0
                                       ELSE IF b \in Span(new) THEN nmemb ELSE memmap[b]
      BY <1>7, <3>6
    <3>9. live' = (live \ {a}) \cup {new}
      BY <1>1, <3>1
    <3>10. \A b \in Span(a) : \A c \in live' : b \notin Span(c)
      BY <1>5, <3>9 DEF Disjoint
    <3>11. TableExact'
      <4> SUFFICES ASSUME NEW b \in Blocks
                   PROVE  \/ memmap'[b] = 0 /\ \A c \in live' : b \notin Span(c)
                          \/ \E c \in live' : b \in Span(c) /\ memmap'[b] = c.len
        BY DEF TableExact, Span
      <4>1. CASE b \in Span(a)
        BY <3>8, <3>10, <4>1
      <4>2. CASE b \notin Span(a) /\ b \in Span(new)
        BY <1>3, <3>8, <3>9, <4>2
      <4>3. CASE b \notin Span(a) /\ b \notin Span(new)
        BY <1>1, <3>8, <3>9, <4>3 DEF TableExact
      <4> QED BY <4>1, <4>2, <4>3
    <3> QED BY <3>7, <3>11
  <2> QED BY <2>1, <2>2
<1>9. TypeOK'
  <2>1. live' \subseteq Allocation /\ old' \subseteq live'
    BY <1>1, <1>3 DEF TypeOK
  <2>2. pc' \in {"idle", "scan"} /\ result' \in {"none", "ok", "fail"}
    BY <1>1
  <2> QED BY <1>1, <1>8, <2>1, <2>2 DEF TypeOK
<1>10. ScanInv' /\ CallInv' /\ FailsOnlyWhenFull'
  BY <1>1 DEF ScanInv, CallInv, FailsOnlyWhenFull
<1> QED BY <1>6, <1>8, <1>9, <1>10

(* The search has seen every block: no run is long enough.                  *)
LEMMA StepScanFail ==
  ASSUME IInv, ScanFail
  PROVE  IInv'
<1> USE DEF IInv
<1>1. /\ pc = "scan" /\ offset \in Int /\ offset < 0
      /\ pc' = "idle" /\ result' = "fail" /\ old' = {}
      /\ UNCHANGED <<memmap, memrdy, size, nmemb, cmemb, offset, live>>
  BY DEF ScanFail, TypeOK
<1>2. TypeOK'
  BY <1>1 DEF TypeOK
<1>3. Disjoint' /\ TableExact' /\ ScanInv' /\ CallInv'
  BY <1>1 DEF Disjoint, TableExact, ScanInv, CallInv, Span
<1>4. FailsOnlyWhenFull'
  <2>1. \A b \in Blocks : b > offset
    BY <1>1, TableAssumption DEF Blocks
  <2>2. \A b \in Blocks : ~FreeRun(b, nmemb)
    BY <1>1, <2>1 DEF ScanInv
  <2> QED BY <1>1, <2>2 DEF FailsOnlyWhenFull, FreeRun
<1> QED BY <1>2, <1>3, <1>4

LEMMA StepFree ==
  ASSUME IInv, NEW a \in live, myfree(a)
  PROVE  IInv'
<1> USE DEF IInv
<1>1. /\ pc = "idle" /\ memrdy /\ memmap' = Cleared(memmap, a.base) /\ live' = live \ {a}
      /\ result' = "none" /\ UNCHANGED <<memrdy, pc, size, nmemb, cmemb, offset, old>>
  BY DEF myfree, CallInv, loop
<1>2. a.base \in Blocks /\ a.base \in Span(a) /\ memmap[a.base] = a.len /\ a.len \in Nat
  BY <1>1, TableFacts DEF TypeOK, Allocation
<1>3. a.base .. (a.base + memmap[a.base] - 1) = Span(a)
  BY <1>2 DEF Span
<1>4. memmap' = [b \in Blocks |-> IF b \in Span(a) THEN 0 ELSE memmap[b]]
  BY <1>1, <1>3 DEF Cleared
<1>5. memmap' \in [Blocks -> 0..TableSize]
  BY <1>4, TableAssumption DEF TypeOK
<1>6. old = {}
  BY <1>1 DEF CallInv
<1>7. TypeOK'
  BY <1>1, <1>5, <1>6 DEF TypeOK
<1>8. Disjoint'
  BY <1>1 DEF Disjoint, Span
<1>9. TableExact'
  <2> SUFFICES ASSUME NEW b \in Blocks
               PROVE  \/ memmap'[b] = 0 /\ \A c \in live' : b \notin Span(c)
                      \/ \E c \in live' : b \in Span(c) /\ memmap'[b] = c.len
    BY DEF TableExact, Span
  <2>1. CASE b \in Span(a)
    BY <1>1, <1>4, <2>1 DEF Disjoint
  <2>2. CASE b \notin Span(a)
    BY <1>1, <1>4, <2>2 DEF TableExact
  <2> QED BY <2>1, <2>2
<1>10. ScanInv' /\ CallInv' /\ FailsOnlyWhenFull'
  BY <1>1, <1>6 DEF ScanInv, CallInv, FailsOnlyWhenFull
<1> QED BY <1>7, <1>8, <1>9, <1>10

LEMMA StutterIInv ==
  ASSUME IInv, UNCHANGED vars
  PROVE  IInv'
BY DEF IInv, TypeOK, Disjoint, TableExact, ScanInv, CallInv, FailsOnlyWhenFull, FreeRun, Span,
       vars, loop

LEMMA NextIInv ==
  ASSUME IInv, [Next]_vars
  PROVE  IInv'
<1>1. CASE MemInit
  BY <1>1, StepMemInit
<1>2. CASE \E n \in Sizes : mymalloc(n)
  BY <1>2, StepRequest DEF mymalloc
<1>3. CASE \E n \in Sizes : \E a \in live : myrealloc(a, n)
  BY <1>3, StepRequest DEF myrealloc
<1>4. CASE ScanMiss
  BY <1>4, StepScanMiss
<1>5. CASE ScanHit
  BY <1>5, StepScanHit
<1>6. CASE ScanFail
  BY <1>6, StepScanFail
<1>7. CASE \E a \in live : myfree(a)
  BY <1>7, StepFree
<1>8. CASE UNCHANGED vars
  BY <1>8, StutterIInv
<1> QED BY <1>1, <1>2, <1>3, <1>4, <1>5, <1>6, <1>7, <1>8 DEF Next

LEMMA SpecIInv == Spec => []IInv
<1>1. IInv /\ [Next]_vars => IInv'
  BY NextIInv
<1> QED BY InitIInv, <1>1, PTL DEF Spec

-----------------------------------------------------------------------------
(* The variables of my_mem_malloc keep their types; the search stays within *)
(* the table.                                                               *)
THEOREM HeapTypeOK == Spec => []TypeOK
<1>1. IInv => TypeOK
  BY DEF IInv
<1> QED BY <1>1, SpecIInv, PTL

(* mymalloc never hands out a block twice, nor one outside the pool.        *)
THEOREM AllocationsDisjoint == Spec => []Disjoint
<1>1. IInv => Disjoint
  BY DEF IInv
<1> QED BY <1>1, SpecIInv, PTL

(* memmap describes exactly the allocations held, so myfree loses nothing.  *)
THEOREM TableDescribesHeap == Spec => []TableExact
<1>1. IInv => TableExact
  BY DEF IInv
<1> QED BY <1>1, SpecIInv, PTL

(* mymalloc returns NULL only when no run of free blocks is long enough.    *)
THEOREM NullOnlyWhenFull == Spec => []FailsOnlyWhenFull
<1>1. IInv => FailsOnlyWhenFull
  BY DEF IInv
<1> QED BY <1>1, SpecIInv, PTL

-----------------------------------------------------------------------------
(* Rounding up to whole blocks loses no byte.                               *)
LEMMA BlocksForEnough ==
  ASSUME NEW n \in Nat
  PROVE  BlocksFor(n) * BlockSize >= n
<1> DEFINE q == n \div BlockSize
           r == n % BlockSize
<1>0. BlockSize \in Nat /\ BlockSize > 0
  BY BlockAssumption
<1>1. q \in Nat /\ r \in Nat /\ r < BlockSize /\ n = BlockSize * q + r
  BY <1>0
<1>2. BlocksFor(n) = q + (IF r # 0 THEN 1 ELSE 0)
  BY DEF BlocksFor
<1> HIDE DEF q, r
<1>3. CASE r = 0
  BY <1>0, <1>1, <1>2, <1>3
<1>4. CASE r # 0
  <2>1. BlocksFor(n) * BlockSize = BlockSize * q + BlockSize
    BY <1>0, <1>1, <1>2, <1>4
  <2> QED BY <1>0, <1>1, <2>1
<1> QED BY <1>3, <1>4

(* What is searched for is large enough, and so is what was found.          *)
SizeInv == LargeEnough /\ (pc = "scan" => nmemb * BlockSize >= size)

LEMMA SizeStep ==
  ASSUME IInv, SizeInv, [Next]_vars
  PROVE  SizeInv'
<1>1. ASSUME NEW n \in Sizes, NEW replaces, Request(n, replaces) PROVE SizeInv'
  <2>1. size' = n /\ nmemb' = BlocksFor(n) /\ live' = live
    BY <1>1 DEF Request
  <2>2. BlocksFor(n) * BlockSize >= n
    BY BlocksForEnough, SizesAssumption
  <2> QED BY <2>1, <2>2 DEF SizeInv, LargeEnough
<1>2. CASE ScanHit
  <2>1. /\ pc = "scan" /\ pc' = "idle"
        /\ live' = (live \ old) \cup {[base |-> offset, len |-> nmemb, size |-> size]}
    BY <1>2 DEF ScanHit
  <2>2. nmemb * BlockSize >= size
    BY <2>1 DEF SizeInv
  <2> QED BY <2>1, <2>2 DEF SizeInv, LargeEnough
<1>3. CASE MemInit \/ UNCHANGED vars
  BY <1>3 DEF MemInit, vars, loop, SizeInv, LargeEnough
<1>4. CASE ScanMiss \/ ScanFail
  BY <1>4 DEF ScanMiss, ScanFail, SizeInv, LargeEnough
<1>5. ASSUME NEW a \in live, myfree(a) PROVE SizeInv'
  BY <1>5 DEF myfree, loop, SizeInv, LargeEnough
<1> QED BY <1>1, <1>2, <1>3, <1>4, <1>5 DEF Next, mymalloc, myrealloc

(* my_mem_malloc never hands out fewer bytes than it was asked for, for any *)
(* block size.                                                              *)
THEOREM AllocationsLargeEnough == Spec => []LargeEnough
<1>1. Init => SizeInv
  BY DEF Init, SizeInv, LargeEnough
<1>2. IInv /\ SizeInv /\ [Next]_vars => SizeInv'
  BY SizeStep
<1>3. SizeInv => LargeEnough
  BY DEF SizeInv
<1> QED BY <1>1, <1>2, <1>3, SpecIInv, PTL DEF Spec
=============================================================================
