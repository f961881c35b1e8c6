-------------------------------- MODULE Heap --------------------------------
(***************************************************************************)
(* The kernel heap: src/src/memory/heap/heap.c and kheap.c.                *)
(*                                                                         *)
(* The heap is one table of Total entries, one for each block of memory.   *)
(* An entry is a byte of flags (heap.h:8-12); it is modelled as the set of *)
(* the flags that are on:                                                  *)
(*                                                                         *)
(*   "TAKEN"   the low nibble is 0x01: the block is in use                 *)
(*   "FIRST"   HEAP_BLOCK_IS_FIRST: it is the first block of an extent     *)
(*   "NEXT"    HEAP_BLOCK_HAS_NEXT: the extent goes on in the next block   *)
(*                                                                         *)
(* The table is the only state the code keeps.  What its clients hold is a *)
(* ghost variable, so that the two can be compared; the result of the last *)
(* call is recorded in ret.  Writes of table entries at or above Total     *)
(* (MarkTaken at the end of the table) land in memory the allocator never  *)
(* reads and are not kept.                                                 *)
(*                                                                         *)
(* Every kernel path runs with interrupts off, so a call of the heap is    *)
(* one atomic action.                                                      *)
(***************************************************************************)
EXTENDS Integers

CONSTANTS
  Total,      \* table->total: the number of blocks
  BlockSize,  \* MARROWOS_HEAP_BLOCK_SIZE
  Saddr,      \* heap->saddr: the address of block 0
  WordMod,    \* 2^32: sizes and addresses are 32-bit words
  Sizes       \* the sizes, in bytes, that callers pass to kmalloc

\* heap_create refuses a table that does not match the pool, and an unaligned
\* pool (heap.c:8-45); a size_t has 32 bits.
ASSUME HeapConstants ==
  /\ Total \in Nat \ {0}
  /\ BlockSize \in Nat \ {0}
  /\ Saddr \in Nat \ {0}
  /\ WordMod \in Nat \ {0}
  /\ WordMod % BlockSize = 0
  /\ Sizes \subseteq 0 .. WordMod - 1

VARIABLES
  entries,    \* heap->table->entries
  held,       \* ghost: the extents clients hold and may free, [at, n]
  ret         \* the last call: [op, n, at]

vars == <<entries, held, ret>>

Blocks == 0 .. Total - 1

Flags == {"TAKEN", "FIRST", "NEXT"}

NoBlock == -1      \* block_start == -1: the call returns a null pointer

------------------------------------------------------------------------------
(* The arithmetic of a request.  Operators named Wrong... are variants a slip *)
(* in the code would give; no definition uses them.  Each stands before the  *)
(* one it would replace, and a property must tell the two apart.             *)

\* heap_align_value_to_upper: the sum wraps when val is in the last block of
\* the 32-bit range.
AlignUp(val) ==
  IF val % BlockSize = 0 THEN val
                         ELSE ((val - (val % BlockSize)) + BlockSize) % WordMod

BlocksFor(size) == AlignUp(size) \div BlockSize

BlockToAddress(b) == Saddr + b * BlockSize

AddressToBlock(a) == (a - Saddr) \div BlockSize

------------------------------------------------------------------------------
(* heap_get_start_block.  The loop of the code is in HeapLoops; here is what *)
(* it finds in the table e.                                                  *)

\* Wrong: only the first block of an extent counts as taken.
WrongIsFree(e, i) == "FIRST" \notin e[i]

IsFree(e, i) == "TAKEN" \notin e[i]

Fits(e, n, s) == s + n <= Total /\ \A i \in s .. s + n - 1 : IsFree(e, i)

FirstFit(e, n, s) == Fits(e, n, s) /\ \A r \in 0 .. s - 1 : ~Fits(e, n, r)

\* The free run the loop is in when it comes to the end of the table.
TrailingRun(e, s) ==
  /\ \A i \in s .. Total - 1 : IsFree(e, i)
  /\ s > 0 => ~IsFree(e, s - 1)

\* Wrong: the scan gives up after the first run that is too short.
WrongFound(e, n, s) ==
  n > 0 /\ Fits(e, n, s) /\ \A r \in 0 .. s - 1 : ~IsFree(e, r)

\* A request for no blocks never stops the loop: block_current starts at 1.
Found(e, n, s) == n > 0 /\ FirstFit(e, n, s)

NothingFound(e, n) == ~ \E s \in Blocks : Found(e, n, s)

\* Wrong: the scan does not stop at the first run that is long enough.
WrongStartBlock(e, n, s) == TrailingRun(e, s)

\* Where the request is placed: the first fit, or else the start of the free
\* run at the end of the table, whatever its length.
StartBlock(e, n, s) ==
  \/ Found(e, n, s)
  \/ NothingFound(e, n) /\ TrailingRun(e, s)

------------------------------------------------------------------------------
(* heap_mark_blocks_taken and heap_mark_blocks_free.                         *)

Extent(s, n) == s .. s + n - 1

\* Wrong: the last block but one has no next.
WrongMarkOf(s, n, i) ==
  {"TAKEN"} \cup (IF i = s THEN {"FIRST"} ELSE {})
            \cup (IF i < s + n - 2 THEN {"NEXT"} ELSE {})

MarkOf(s, n, i) ==
  {"TAKEN"} \cup (IF i = s THEN {"FIRST"} ELSE {})
            \cup (IF i < s + n - 1 THEN {"NEXT"} ELSE {})

\* Wrong: the table grows with an extent that runs past its end.
WrongMarkTaken(e, s, n) ==
  [i \in Blocks \cup Extent(s, n) |-> IF i \in Extent(s, n) THEN MarkOf(s, n, i) ELSE e[i]]

MarkTaken(e, s, n) ==
  [i \in Blocks |-> IF i \in Extent(s, n) THEN MarkOf(s, n, i) ELSE e[i]]

\* Wrong: clears on into the extent behind.
WrongMarkFree(e, b) ==
  [i \in Blocks |->
     IF i >= b /\ \A k \in b .. i - 1 : "TAKEN" \in e[k] THEN {} ELSE e[i]]

\* The entries from b on are cleared as long as the one before had a next.
MarkFree(e, b) ==
  [i \in Blocks |->
     IF i >= b /\ \A k \in b .. i - 1 : "NEXT" \in e[k] THEN {} ELSE e[i]]

------------------------------------------------------------------------------
(* kmalloc and kfree.                                                        *)

Returned(op, n, s) == ret' = [op |-> op, n |-> n, at |-> s]

Malloc(size) ==
  LET n == BlocksFor(size) IN
  \/ \E s \in Blocks :
       /\ StartBlock(entries, n, s)
       /\ entries' = MarkTaken(entries, s, n)
       /\ held' = held \cup {[at |-> s, n |-> n]}
       /\ Returned("malloc", n, s)
  \/ /\ ~ \E s \in Blocks : StartBlock(entries, n, s)
     /\ Returned("malloc", n, NoBlock)
     /\ UNCHANGED <<entries, held>>

\* A client frees the address it was given, once.
Free(x) ==
  LET b == AddressToBlock(BlockToAddress(x.at)) IN
  /\ entries' = MarkFree(entries, b)
  /\ held' = held \ {x}
  /\ Returned("free", x.n, b)

Init ==
  /\ entries = [i \in Blocks |-> {}]
  /\ held = {}
  /\ ret = [op |-> "none", n |-> 0, at |-> NoBlock]

Next ==
  \/ \E size \in Sizes : Malloc(size)
  \/ \E x \in held : Free(x)

Spec == Init /\ [][Next]_vars

------------------------------------------------------------------------------
(* Properties.  They are about requests of at least one block.  A request of *)
(* none is given the run at the end of the table and marks nothing, so the   *)
(* next one is given the same blocks.                                        *)

\* Every request is for a block at least.  The kernel's own are, but for the memory of
\* an empty file, which is given back at once (elfloader.c:214).  A program can ask for
\* 0 bytes, or for so many that the size wraps to 0, and isr80h/heap.c:8 hands the size
\* on as it is.  What follows then is up to the callers (Process).
NonZeroRequests == \A size \in Sizes : BlocksFor(size) > 0

\* Every variable has the type its declaration in heap.h gives it.
TypeOK ==
  /\ entries \in [Blocks -> SUBSET Flags]
  /\ held \subseteq [at : Blocks, n : Nat]
  /\ ret \in [op : {"none", "malloc", "free"}, n : Nat, at : Blocks \cup {NoBlock}]

\* The marks of an extent stay as heap_mark_blocks_taken wrote them for as
\* long as its client holds it: no malloc or free of another extent, next to
\* it or at the end of the table, disturbs them (heap.c:112-161).
HeldMarked ==
  \A x \in held : \A i \in Extent(x.at, x.n) \cap Blocks :
    entries[i] = MarkOf(x.at, x.n, i)

\* A block that no client holds is free again: heap_mark_blocks_free stops at
\* the end of the extent, not one block before it (heap.c:149-161).
NoBlockLost ==
  \A i \in Blocks : entries[i] # {} => \E x \in held : i \in Extent(x.at, x.n)

\* The table says what clients hold, no less and no more, after any order of
\* mallocs and frees of neighbours (heap.c:112-161).
TableIsExact == HeldMarked /\ NoBlockLost

\* No block is handed to two clients, the blocks past the end of the pool
\* included (heap.c:72-105).
HeldDisjoint ==
  \A x, y \in held : x # y => Extent(x.at, x.n) \cap Extent(y.at, y.n) = {}

\* kmalloc fails only when no run of the size is free (heap.c:100-103).
FailsOnlyWhenFull ==
  ret.op = "malloc" /\ ret.at = NoBlock =>
    \A s \in Blocks : ~Fits(entries, ret.n, s)

\* The most that holds of what kmalloc returns: at most one extent at a time
\* runs past the end of the pool, the one that holds the last block, and only
\* because the run at the end was given for want of a fit (heap.c:100-104).
OnlyLastOverruns ==
  \A x \in held : x.at + x.n > Total =>
    \A y \in held \ {x} : y.at + y.n <= x.at

\* An extent is given past the end of the pool only if none fits inside it.
OverrunsOnlyForWantOfFit ==
  [][\A x \in held' \ held :
       x.at + x.n > Total => \A s \in Blocks : ~Fits(entries, x.n, s)]_vars

\* heap.c:94, "we found enough contigious blocks to give back": every extent
\* given back lies inside the pool.
EnoughBlocks == \A x \in held : x.at + x.n <= Total

=============================================================================
