----------------------------- MODULE BlockAlloc -----------------------------
(***************************************************************************)
(* The allocator behind mymalloc, myrealloc and myfree: a pool of equal    *)
(* blocks and a table memmap that holds, for every block in use, the       *)
(* number of blocks of the allocation it belongs to, and 0 for a free one. *)
(* The search runs from the top of the pool to the bottom and counts       *)
(* consecutive free blocks; it is one step per block here.  Callers run    *)
(* one at a time: main before the scheduler starts, later netinit_task.    *)
(* Addresses are counted in blocks.                                        *)
(***************************************************************************)
EXTENDS Integers, FiniteSets

CONSTANTS
  TableSize,  \* memtblsize: the number of blocks
  BlockSize,  \* memblksize: bytes per block
  Sizes       \* the sizes callers ask for, in bytes

ASSUME TableAssumption == TableSize \in Nat \ {0}
ASSUME BlockAssumption == BlockSize \in Nat \ {0}
ASSUME SizesAssumption == Sizes \subseteq Nat

VARIABLES
  memmap,  \* the table
  memrdy,  \* whether my_mem_init has run
  pc,      \* "idle", or in the search loop of my_mem_malloc at "scan"
  size,    \* the bytes asked for
  nmemb,   \* the blocks needed
  cmemb,   \* the consecutive free blocks seen
  offset,  \* the block looked at next
  old,     \* myrealloc: the allocations to free afterwards, none or one
  live,    \* history: the allocations callers hold, with the bytes asked for
  result   \* history: how the last request ended, "none", "ok" or "fail"

loop == <<size, nmemb, cmemb, offset, old>>
vars == <<memmap, memrdy, pc, loop, live, result>>

Blocks    == 0..(TableSize - 1)
FreeTable == [b \in Blocks |-> 0]

(* The blocks an allocation covers.                                        *)
Span(a) == a.base .. (a.base + a.len - 1)

Init ==
  /\ memmap \in [Blocks -> {0, 1}]   \* SDRAM and CCM hold anything at power-up
  /\ memrdy = FALSE
  /\ pc = "idle"
  /\ size = 0 /\ nmemb = 0 /\ cmemb = 0 /\ offset = 0
  /\ old = {}
  /\ live = {}
  /\ result = "none"

-----------------------------------------------------------------------------
(* my_mem_init, at boot.                                                   *)
MemInit ==
  /\ ~memrdy
  /\ memmap' = FreeTable
  /\ memrdy' = TRUE
  /\ UNCHANGED <<pc, loop, live, result>>

(* Slip: the rest of the size is forgotten.                                *)
BlocksFor_RoundDown(n) == n \div BlockSize

BlocksFor(n) == n \div BlockSize + (IF n % BlockSize # 0 THEN 1 ELSE 0)

(* Slip: the search starts behind the table.                               *)
LastBlock_TooHigh == TableSize

(* Where the search starts.                                                *)
LastBlock == TableSize - 1

(* The head of my_mem_malloc.  The pool is set up if that has not happened; *)
(* nothing is allocated for no bytes.                                      *)
Request(n, replaces) ==
  /\ pc = "idle"
  /\ memmap' = IF memrdy THEN memmap ELSE FreeTable
  /\ memrdy' = TRUE
  /\ size' = n
  /\ nmemb' = BlocksFor(n)
  /\ cmemb' = 0
  /\ offset' = LastBlock
  /\ old' = IF n = 0 THEN {} ELSE replaces
  /\ IF n = 0 THEN pc' = "idle" /\ result' = "fail"
              ELSE pc' = "scan" /\ result' = "none"
  /\ UNCHANGED live

mymalloc(n) == Request(n, {})

(* myrealloc allocates first; the old block is freed behind the copy.       *)
myrealloc(a, n) == a \in live /\ Request(n, {a})

(* Slip: a block in use does not interrupt the count.                      *)
Count_KeepsGaps == IF memmap[offset] = 0 THEN cmemb + 1 ELSE cmemb

(* The number of free blocks from the one looked at upwards.                *)
Count == IF memmap[offset] = 0 THEN cmemb + 1 ELSE 0

(* Slip: a block too few is given back.                                    *)
Cleared_OneLess(map, index) ==
  [b \in Blocks |-> IF b \in index .. (index + map[index] - 2) THEN 0 ELSE map[b]]

(* my_mem_free: as many blocks as the table says at the first one.          *)
Cleared(map, index) ==
  [b \in Blocks |-> IF b \in index .. (index + map[index] - 1) THEN 0 ELSE map[b]]

Marked == [b \in Blocks |-> IF b \in offset .. (offset + nmemb - 1) THEN nmemb ELSE memmap[b]]

(* One round of the search.                                                *)
ScanMiss ==
  /\ pc = "scan" /\ offset >= 0 /\ Count # nmemb
  /\ cmemb' = Count
  /\ offset' = offset - 1
  /\ UNCHANGED <<memmap, memrdy, pc, size, nmemb, old, live, result>>

(* A long enough run is found: it is marked, and myrealloc frees the old    *)
(* block.                                                                  *)
ScanHit ==
  /\ pc = "scan" /\ offset >= 0 /\ Count = nmemb
  /\ pc' = "idle"
  /\ result' = "ok"
  /\ live' = (live \ old) \cup {[base |-> offset, len |-> nmemb, size |-> size]}
  /\ \/ old = {} /\ memmap' = Marked
     \/ \E a \in old : memmap' = Cleared(Marked, a.base)
  /\ old' = {}
  /\ UNCHANGED <<memrdy, size, nmemb, cmemb, offset>>

(* Slip: the search stops in front of block 0.                             *)
ScanFail_Early ==
  /\ pc = "scan" /\ offset <= 0
  /\ pc' = "idle"
  /\ result' = "fail"
  /\ old' = {}
  /\ UNCHANGED <<memmap, memrdy, size, nmemb, cmemb, offset, live>>

(* The search ends below block 0: the caller gets NULL, an old block stays. *)
ScanFail ==
  /\ pc = "scan" /\ offset < 0
  /\ pc' = "idle"
  /\ result' = "fail"
  /\ old' = {}
  /\ UNCHANGED <<memmap, memrdy, size, nmemb, cmemb, offset, live>>

(* myfree of an allocation the caller holds; NULL is ignored.               *)
myfree(a) ==
  /\ pc = "idle" /\ a \in live
  /\ memmap' = Cleared(memmap, a.base)
  /\ live' = live \ {a}
  /\ result' = "none"
  /\ UNCHANGED <<memrdy, pc, loop>>

Next ==
  \/ MemInit
  \/ \E n \in Sizes : mymalloc(n)
  \/ \E n \in Sizes : \E a \in live : myrealloc(a, n)
  \/ ScanMiss
  \/ ScanHit
  \/ ScanFail
  \/ \E a \in live : myfree(a)

Spec == Init /\ [][Next]_vars

-----------------------------------------------------------------------------
Allocation == [base : Blocks, len : 1..TableSize, size : Sizes]

TypeOK ==
  /\ memmap \in [Blocks -> 0..TableSize]
  /\ memrdy \in BOOLEAN
  /\ pc \in {"idle", "scan"}
  /\ size \in Sizes \cup {0}
  /\ nmemb \in Nat
  /\ cmemb \in 0..TableSize
  /\ offset \in -1..(TableSize - 1)
  /\ old \subseteq live
  /\ live \subseteq Allocation
  /\ result \in {"none", "ok", "fail"}

(* Two callers never hold the same block, and no allocation of my_mem_malloc *)
(* reaches beyond the pool.                                                *)
Disjoint ==
  /\ \A a \in live : Span(a) \subseteq Blocks
  /\ \A a, b \in live : a # b => Span(a) \cap Span(b) = {}

(* The table says exactly what is held: the length of its allocation for a  *)
(* block in use, 0 for every other block.  So my_mem_free gives back what   *)
(* its allocation took, and nothing is lost over any sequence of calls.     *)
TableExact ==
  memrdy =>
    \A b \in Blocks :
      \/ memmap[b] = 0 /\ \A a \in live : b \notin Span(a)
      \/ \E a \in live : b \in Span(a) /\ memmap[b] = a.len

FreeRun(b, n) == b + n <= TableSize /\ \A i \in b .. (b + n - 1) : memmap[i] = 0

(* my_mem_malloc gives up only when no run of free blocks is long enough,   *)
(* or when it is asked for no bytes.                                       *)
FailsOnlyWhenFull ==
  result = "fail" /\ size # 0 => \A b \in Blocks : ~FreeRun(b, nmemb)

(* The caller gets at least the bytes it asked for.                         *)
LargeEnough == \A a \in live : a.len * BlockSize >= a.size
=============================================================================
