----------------------------- MODULE HeapProofs -----------------------------
(***************************************************************************)
(* Proofs about Heap, for every size of the table, of a block and of a     *)
(* word, and every set of request sizes; that the heap implements          *)
(* BlockPool; and that the loops of heap.c compute what Heap says.         *)
(***************************************************************************)
EXTENDS HeapLoops, Loops

\* A request of a size the callers use is for a natural number of blocks
\* (heap_align_value_to_upper and heap_malloc, heap.c:54-64 and 168-173).
LEMMA BlocksForNat == \A size \in Sizes : BlocksFor(size) \in Nat
<1>1. SUFFICES ASSUME NEW size \in Sizes PROVE BlocksFor(size) \in Nat
  OBVIOUS
<1>2. size \in Nat
  BY HeapConstants
<1>3. size % BlockSize \in Nat /\ size % BlockSize <= size
  BY <1>2, HeapConstants
<1>4. ((size - (size % BlockSize)) + BlockSize) \in Nat
  BY <1>2, <1>3, HeapConstants
<1>5. AlignUp(size) \in Nat
  BY <1>2, <1>4, HeapConstants DEF AlignUp
<1>6. QED
  BY <1>5, HeapConstants DEF BlocksFor

\* heap_address_to_block undoes heap_block_to_address (heap.c:107-110, 163-166).
LEMMA AddressRoundTrip == \A b \in Nat : AddressToBlock(BlockToAddress(b)) = b
<1>1. SUFFICES ASSUME NEW b \in Nat PROVE AddressToBlock(BlockToAddress(b)) = b
  OBVIOUS
<1>2. (b * BlockSize) \div BlockSize = b
  BY HeapConstants
<1>3. (Saddr + b * BlockSize) - Saddr = b * BlockSize
  BY HeapConstants
<1>4. QED
  BY <1>2, <1>3 DEF AddressToBlock, BlockToAddress

------------------------------------------------------------------------------
(* The strengthening.  TypeOK, what the marks of a held extent are, and that *)
(* the rest of the table is free are inductive only together with            *)
(* disjointness: clearing one extent must leave the marks of the others.     *)

HeldNonEmpty == \A x \in held : x.n > 0

IInv == TypeOK /\ HeldNonEmpty /\ HeldMarked /\ NoBlockLost /\ HeldDisjoint

\* Every block of the table that a placed request will cover is free, in the
\* fallback case too (heap.c:72-105).
LEMMA PlacedOnFree ==
  ASSUME NEW n \in Nat, NEW s \in Blocks, StartBlock(entries, n, s)
  PROVE  \A i \in Extent(s, n) \cap Blocks : IsFree(entries, i)
<1>1. CASE Found(entries, n, s)
  BY <1>1 DEF Found, FirstFit, Fits, Extent
<1>2. CASE NothingFound(entries, n) /\ TrailingRun(entries, s)
  <2>1. \A i \in Extent(s, n) \cap Blocks : i \in s .. Total - 1
    BY HeapConstants DEF Extent, Blocks
  <2>2. QED
    BY <1>2, <2>1 DEF TrailingRun
<1>3. QED
  BY <1>1, <1>2 DEF StartBlock

\* No block a placed request will cover, past the end of the pool included, is
\* held already (heap.c:72-105).
LEMMA PlacedApart ==
  ASSUME IInv, NEW n \in Nat, NEW s \in Blocks, StartBlock(entries, n, s)
  PROVE  \A x \in held : Extent(x.at, x.n) \cap Extent(s, n) = {}
<1>1. SUFFICES ASSUME NEW x \in held, NEW k \in Extent(x.at, x.n), k \in Extent(s, n)
               PROVE  FALSE
  OBVIOUS
<1>2. x.at \in Blocks /\ x.n \in Nat /\ s \in Blocks /\ k \in Int
  BY DEF IInv, TypeOK, Extent, Blocks
<1>3. PICK j \in Blocks : j \in Extent(x.at, x.n) /\ j \in Extent(s, n)
  <2>1. CASE k < Total
    BY <1>1, <1>2, <2>1, HeapConstants DEF Extent, Blocks
  <2>2. CASE k >= Total
    <3>1. /\ Total - 1 \in Blocks
          /\ Total - 1 \in Extent(x.at, x.n)
          /\ Total - 1 \in Extent(s, n)
      BY <1>1, <1>2, <2>2, HeapConstants DEF Extent, Blocks
    <3>2. QED
      BY <3>1
  <2>3. QED
    BY <1>2, <2>1, <2>2, HeapConstants
<1>4. IsFree(entries, j)
  BY <1>3, PlacedOnFree
<1>5. entries[j] = MarkOf(x.at, x.n, j)
  BY <1>3 DEF IInv, HeldMarked
<1>6. QED
  BY <1>4, <1>5 DEF IsFree, MarkOf

\* heap_mark_blocks_free clears an extent from its first block to its last and
\* nothing else (heap.c:149-161).
LEMMA FreeClearsExtent ==
  ASSUME IInv, NEW x \in held
  PROVE  MarkFree(entries, x.at) =
           [i \in Blocks |-> IF i \in Extent(x.at, x.n) THEN {} ELSE entries[i]]
<1>1. x.at \in Blocks /\ x.n \in Nat /\ x.n > 0
  BY DEF IInv, TypeOK, HeldNonEmpty
<1>2. SUFFICES ASSUME NEW i \in Blocks
               PROVE  (i >= x.at /\ \A k \in x.at .. i - 1 : "NEXT" \in entries[k])
                        <=> i \in Extent(x.at, x.n)
  BY DEF MarkFree
<1>3. \A k \in Extent(x.at, x.n) \cap Blocks :
        "NEXT" \in entries[k] <=> k < x.at + x.n - 1
  BY DEF IInv, HeldMarked, MarkOf
<1>4. CASE i \in Extent(x.at, x.n)
  <2>1. \A k \in x.at .. i - 1 : k \in Extent(x.at, x.n) \cap Blocks /\ k < x.at + x.n - 1
    BY <1>1, <1>4, HeapConstants DEF Extent, Blocks
  <2>2. i >= x.at
    BY <1>1, <1>4 DEF Extent, Blocks
  <2>3. QED
    BY <1>3, <1>4, <2>1, <2>2
<1>5. CASE i \notin Extent(x.at, x.n) /\ i >= x.at
  <2>1. /\ x.at + x.n - 1 \in x.at .. i - 1
        /\ x.at + x.n - 1 \in Extent(x.at, x.n) \cap Blocks
    BY <1>1, <1>5, HeapConstants DEF Extent, Blocks
  <2>2. "NEXT" \notin entries[x.at + x.n - 1]
    BY <1>1, <1>3, <2>1, HeapConstants DEF Blocks
  <2>3. QED
    BY <1>5, <2>1, <2>2
<1>6. CASE i \notin Extent(x.at, x.n) /\ ~(i >= x.at)
  BY <1>6
<1>7. QED
  BY <1>4, <1>5, <1>6

------------------------------------------------------------------------------
(* Init and the steps.                                                       *)

LEMMA InitIInv == Init => IInv
BY DEF Init, IInv, TypeOK, HeldNonEmpty, HeldMarked, NoBlockLost, HeldDisjoint, NoBlock

\* A request that is granted (heap.c:131-147).
LEMMA GrantIInv ==
  ASSUME IInv, NEW n \in Nat \ {0}, NEW s \in Blocks,
         StartBlock(entries, n, s),
         entries' = MarkTaken(entries, s, n),
         held' = held \cup {[at |-> s, n |-> n]},
         Returned("malloc", n, s)
  PROVE  IInv'
<1>1. \A i \in Blocks : i \notin Extent(s, n) => entries'[i] = entries[i]
  BY DEF MarkTaken
<1>2. \A i \in Blocks : i \in Extent(s, n) => entries'[i] = MarkOf(s, n, i)
  BY DEF MarkTaken
<1>3. \A x \in held : Extent(x.at, x.n) \cap Extent(s, n) = {}
  BY PlacedApart
<1>4. TypeOK'
  <2>1. \A i \in Blocks : MarkOf(s, n, i) \in SUBSET Flags
    BY DEF MarkOf, Flags
  <2>2. entries' \in [Blocks -> SUBSET Flags]
    BY <2>1 DEF MarkTaken, IInv, TypeOK
  <2>3. held' \subseteq [at : Blocks, n : Nat]
    BY DEF IInv, TypeOK
  <2>4. ret' \in [op : {"none", "malloc", "free"}, n : Nat, at : Blocks \cup {NoBlock}]
    BY DEF Returned
  <2>5. QED
    BY <2>2, <2>3, <2>4 DEF TypeOK
<1>5. HeldNonEmpty'
  BY DEF IInv, HeldNonEmpty
<1>6. HeldMarked'
  <2>1. SUFFICES ASSUME NEW x \in held', NEW i \in Extent(x.at, x.n) \cap Blocks
                 PROVE  entries'[i] = MarkOf(x.at, x.n, i)
    BY DEF HeldMarked
  <2>2. CASE x \in held
    BY <1>1, <1>3, <2>2 DEF IInv, HeldMarked
  <2>3. CASE x = [at |-> s, n |-> n]
    BY <1>2, <2>3
  <2>4. QED
    BY <2>2, <2>3
<1>7. NoBlockLost'
  <2>1. SUFFICES ASSUME NEW i \in Blocks, entries'[i] # {}
                 PROVE  \E x \in held' : i \in Extent(x.at, x.n)
    BY DEF NoBlockLost
  <2>2. CASE i \in Extent(s, n)
    <3>1. [at |-> s, n |-> n] \in held'
      OBVIOUS
    <3>2. i \in Extent([at |-> s, n |-> n].at, [at |-> s, n |-> n].n)
      BY <2>2
    <3>3. QED
      BY <3>1, <3>2
  <2>3. CASE i \notin Extent(s, n)
    BY <1>1, <2>1, <2>3 DEF IInv, NoBlockLost
  <2>4. QED
    BY <2>2, <2>3
<1>8. HeldDisjoint'
  <2>1. SUFFICES ASSUME NEW x \in held', NEW y \in held', x # y
                 PROVE  Extent(x.at, x.n) \cap Extent(y.at, y.n) = {}
    BY DEF HeldDisjoint
  <2>2. CASE x \in held /\ y \in held
    BY <2>1, <2>2 DEF IInv, HeldDisjoint
  <2>3. CASE x \in held /\ y = [at |-> s, n |-> n]
    BY <1>3, <2>3
  <2>4. CASE y \in held /\ x = [at |-> s, n |-> n]
    BY <1>3, <2>4
  <2>5. QED
    BY <2>1, <2>2, <2>3, <2>4
<1>9. QED
  BY <1>4, <1>5, <1>6, <1>7, <1>8 DEF IInv

\* A call of kmalloc, granted or refused (kheap.c:26-30).
LEMMA MallocIInv ==
  ASSUME IInv, NonZeroRequests, NEW size \in Sizes, Malloc(size)
  PROVE  IInv'
<1>1. BlocksFor(size) \in Nat \ {0}
  BY BlocksForNat DEF NonZeroRequests
<1>2. CASE \E s \in Blocks :
             /\ StartBlock(entries, BlocksFor(size), s)
             /\ entries' = MarkTaken(entries, s, BlocksFor(size))
             /\ held' = held \cup {[at |-> s, n |-> BlocksFor(size)]}
             /\ Returned("malloc", BlocksFor(size), s)
  BY <1>1, <1>2, GrantIInv
<1>3. CASE /\ Returned("malloc", BlocksFor(size), NoBlock)
           /\ UNCHANGED <<entries, held>>
  BY <1>1, <1>3 DEF IInv, TypeOK, HeldNonEmpty, HeldMarked, NoBlockLost, HeldDisjoint, Returned
<1>4. QED
  BY <1>2, <1>3 DEF Malloc

\* A call of kfree with an address a client holds (kheap.c:44-47).
LEMMA FreeIInv ==
  ASSUME IInv, NEW x \in held, Free(x)
  PROVE  IInv'
<1>1. x.at \in Blocks /\ x.n \in Nat
  BY DEF IInv, TypeOK
<1>2. AddressToBlock(BlockToAddress(x.at)) = x.at
  BY <1>1, AddressRoundTrip, HeapConstants DEF Blocks
<1>3. entries' = [i \in Blocks |-> IF i \in Extent(x.at, x.n) THEN {} ELSE entries[i]]
  BY <1>2, FreeClearsExtent DEF Free
<1>4. held' = held \ {x}
  BY DEF Free
<1>5. \A y \in held' : Extent(x.at, x.n) \cap Extent(y.at, y.n) = {}
  BY <1>4 DEF IInv, HeldDisjoint
<1>6. TypeOK'
  <2>1. entries' \in [Blocks -> SUBSET Flags]
    BY <1>3 DEF IInv, TypeOK
  <2>2. ret' \in [op : {"none", "malloc", "free"}, n : Nat, at : Blocks \cup {NoBlock}]
    BY <1>1, <1>2 DEF Free, Returned
  <2>3. QED
    BY <1>4, <2>1, <2>2 DEF IInv, TypeOK
<1>7. HeldNonEmpty' /\ HeldDisjoint'
  BY <1>4 DEF IInv, HeldNonEmpty, HeldDisjoint
<1>8. HeldMarked'
  BY <1>3, <1>4, <1>5 DEF IInv, HeldMarked
<1>9. NoBlockLost'
  BY <1>3, <1>4 DEF IInv, NoBlockLost
<1>10. QED
  BY <1>6, <1>7, <1>8, <1>9 DEF IInv

LEMMA NextIInv ==
  ASSUME IInv, NonZeroRequests, [Next]_vars
  PROVE  IInv'
<1>1. CASE \E size \in Sizes : Malloc(size)
  BY <1>1, MallocIInv
<1>2. CASE \E x \in held : Free(x)
  BY <1>2, FreeIInv
<1>3. CASE UNCHANGED vars
  BY <1>3 DEF IInv, vars, TypeOK, HeldNonEmpty, HeldMarked, NoBlockLost, HeldDisjoint
<1>4. QED
  BY <1>1, <1>2, <1>3 DEF Next

------------------------------------------------------------------------------
(* The theorems.                                                             *)

\* In a heap that is only asked for memory, the table, what clients hold and
\* the result of a call keep their types, the marks of a held extent stay as
\* they were written, every other block is free, and no block is held twice.
THEOREM HeapInvariant ==
  ASSUME NonZeroRequests
  PROVE  Spec => []IInv
<1>1. IInv /\ [Next]_vars => IInv'
  BY NextIInv
<1>2. QED
  BY <1>1, InitIInv, PTL DEF Spec

\* No block is ever handed to two clients (heap.c:72-105, 131-147).
THEOREM NoDoubleAllocation ==
  ASSUME NonZeroRequests
  PROVE  Spec => []HeldDisjoint
<1>1. IInv => HeldDisjoint
  BY DEF IInv
<1>2. QED
  BY <1>1, HeapInvariant, PTL

\* The table says exactly what clients hold: a held extent is marked from its
\* first block to its last, and what is not held is free to be given again
\* (heap.c:112-161).
THEOREM TableMatchesClients ==
  ASSUME NonZeroRequests
  PROVE  Spec => []TableIsExact
<1>1. IInv => TableIsExact
  BY DEF IInv, TableIsExact
<1>2. QED
  BY <1>1, HeapInvariant, PTL

\* Type correctness (heap.h:14-28).
THEOREM TypeCorrect ==
  ASSUME NonZeroRequests
  PROVE  Spec => []TypeOK
<1>1. IInv => TypeOK
  BY DEF IInv
<1>2. QED
  BY <1>1, HeapInvariant, PTL

\* At most the extent that holds the last block runs past the end of the pool
\* (heap.c:100-104).
THEOREM OverrunIsLast ==
  ASSUME NonZeroRequests
  PROVE  Spec => []OnlyLastOverruns
<1>1. IInv => OnlyLastOverruns
  <2>1. SUFFICES ASSUME IInv, NEW x \in held, x.at + x.n > Total,
                        NEW y \in held, y # x
                 PROVE  y.at + y.n <= x.at
    BY DEF OnlyLastOverruns
  <2>2. /\ x.at \in Blocks /\ x.n \in Nat /\ x.n > 0
        /\ y.at \in Blocks /\ y.n \in Nat /\ y.n > 0
    BY <2>1 DEF IInv, TypeOK, HeldNonEmpty
  <2>3. Extent(x.at, x.n) \cap Extent(y.at, y.n) = {}
    BY <2>1 DEF IInv, HeldDisjoint
  <2>4. ~(x.at >= y.at /\ x.at < y.at + y.n)
    <3>1. x.at \in Extent(x.at, x.n)
      BY <2>2, HeapConstants DEF Extent, Blocks
    <3>2. QED
      BY <2>2, <2>3, <3>1, HeapConstants DEF Extent, Blocks
  <2>5. ~(y.at >= x.at)
    <3>1. y.at \in Extent(y.at, y.n)
      BY <2>2, HeapConstants DEF Extent, Blocks
    <3>2. y.at < x.at + x.n
      BY <2>1, <2>2, HeapConstants DEF Blocks
    <3>3. QED
      BY <2>2, <2>3, <3>1, <3>2, HeapConstants DEF Extent, Blocks
  <2>6. QED
    BY <2>2, <2>4, <2>5, HeapConstants DEF Blocks
<1>2. QED
  BY <1>1, HeapInvariant, PTL

------------------------------------------------------------------------------
(* The pool of extents.                                                      *)

\* If a run of n blocks is free anywhere, the scan finds the first such run
\* (heap.c:78-99).
LEMMA FitIsFound ==
  ASSUME NEW n \in Nat \ {0}, NEW r \in Blocks, Fits(entries, n, r)
  PROVE  \E s \in Blocks : Found(entries, n, s)
<1> DEFINE S == {s \in Blocks : Fits(entries, n, s)}
<1>1. S \in SUBSET Nat /\ S # {}
  BY HeapConstants DEF Blocks
<1> HIDE DEF S
<1>2. PICK s \in S : \A m \in S : s <= m
  <2> DEFINE Less == {ss \in Nat \X Nat : ss[1] < ss[2]}
  <2>1. IsWellFoundedOn(Less, Nat)
    BY NatLessThanWellFounded DEF OpToRel
  <2> HIDE DEF Less
  <2>2. PICK s \in S : \A m \in S : ~ (<<m, s>> \in Less)
    BY <1>1, <2>1, WFMin
  <2>3. \A m \in S : s <= m
    <3>1. SUFFICES ASSUME NEW m \in S PROVE s <= m
      OBVIOUS
    <3>2. m \in Nat /\ s \in Nat
      BY <1>1
    <3>3. m < s => <<m, s>> \in Less
      BY <3>2 DEF Less
    <3>4. QED
      BY <2>2, <3>2, <3>3
  <2>4. QED
    BY <2>2, <2>3
<1>3. s \in Blocks /\ Fits(entries, n, s)
  BY <1>2 DEF S
<1>4. \A m \in 0 .. s - 1 : ~Fits(entries, n, m)
  <2>1. SUFFICES ASSUME NEW m \in 0 .. s - 1, Fits(entries, n, m) PROVE FALSE
    OBVIOUS
  <2>2. m \in Blocks /\ m < s
    BY <1>3, HeapConstants DEF Blocks
  <2>3. m \in S
    BY <2>1, <2>2 DEF S
  <2>4. s <= m
    BY <1>2, <2>3
  <2>5. QED
    BY <1>3, <2>2, <2>4, HeapConstants DEF Blocks
<1>5. QED
  BY <1>3, <1>4 DEF Found, FirstFit

\* A request for which no run is long enough is the only one to be refused or
\* placed past the end (heap.c:100-104).
LEMMA NothingFits ==
  ASSUME NEW n \in Nat \ {0}, NothingFound(entries, n)
  PROVE  \A s \in Blocks : ~Fits(entries, n, s)
BY FitIsFound DEF NothingFound

\* kmalloc fails only when no run of the size is free (heap.c:100-103).
THEOREM FailureMeansFull ==
  ASSUME NonZeroRequests
  PROVE  Spec => []FailsOnlyWhenFull
<1>1. Init => FailsOnlyWhenFull
  BY DEF Init, FailsOnlyWhenFull
<1>2. FailsOnlyWhenFull /\ [Next]_vars => FailsOnlyWhenFull'
  <2>1. SUFFICES ASSUME FailsOnlyWhenFull, [Next]_vars PROVE FailsOnlyWhenFull'
    OBVIOUS
  <2>2. ASSUME NEW size \in Sizes, Malloc(size) PROVE FailsOnlyWhenFull'
    <3>1. BlocksFor(size) \in Nat \ {0}
      BY BlocksForNat DEF NonZeroRequests
    <3>2. CASE ret'.at = NoBlock
      <4>1. ~ \E s \in Blocks : StartBlock(entries, BlocksFor(size), s)
        BY <2>2, <3>2, HeapConstants DEF Malloc, Returned, NoBlock, Blocks
      <4>2. entries' = entries /\ ret'.n = BlocksFor(size)
        BY <2>2, <4>1 DEF Malloc, Returned
      <4>3. NothingFound(entries, BlocksFor(size))
        BY <4>1 DEF NothingFound, StartBlock
      <4>4. \A s \in Blocks : ~Fits(entries, BlocksFor(size), s)
        BY <3>1, <4>3, NothingFits
      <4>5. QED
        BY <4>2, <4>4 DEF FailsOnlyWhenFull
    <3>3. QED
      BY <3>2 DEF FailsOnlyWhenFull
  <2>3. ASSUME NEW x \in held, Free(x) PROVE FailsOnlyWhenFull'
    BY <2>3 DEF Free, Returned, FailsOnlyWhenFull
  <2>4. CASE UNCHANGED vars
    BY <2>1, <2>4 DEF vars, FailsOnlyWhenFull
  <2>5. QED
    BY <2>1, <2>2, <2>3, <2>4 DEF Next
<1>3. QED
  BY <1>1, <1>2, PTL DEF Spec

\* An extent is placed past the end only for want of a fit (heap.c:100-104).
THEOREM OverrunMeansFull ==
  ASSUME NonZeroRequests
  PROVE  Spec => OverrunsOnlyForWantOfFit
<1> DEFINE A == \A x \in held' \ held :
                  x.at + x.n > Total => \A s \in Blocks : ~Fits(entries, x.n, s)
<1>1. IInv /\ [Next]_vars => [A]_vars
  <2>1. ASSUME IInv, NEW size \in Sizes, Malloc(size) PROVE A
    <3>1. BlocksFor(size) \in Nat \ {0}
      BY BlocksForNat DEF NonZeroRequests
    <3>2. SUFFICES ASSUME NEW x \in held' \ held, x.at + x.n > Total
                   PROVE  \A s \in Blocks : ~Fits(entries, x.n, s)
      OBVIOUS
    <3>3. PICK s \in Blocks : /\ x = [at |-> s, n |-> BlocksFor(size)]
                              /\ StartBlock(entries, BlocksFor(size), s)
      BY <2>1 DEF Malloc
    <3>4. ~Found(entries, BlocksFor(size), s)
      BY <3>1, <3>2, <3>3, HeapConstants DEF Found, FirstFit, Fits, Blocks
    <3>5. NothingFound(entries, BlocksFor(size))
      BY <3>3, <3>4 DEF StartBlock
    <3>6. QED
      BY <3>1, <3>3, <3>5, NothingFits
  <2>2. ASSUME NEW x \in held, Free(x) PROVE A
    BY <2>2 DEF Free
  <2>3. QED
    BY <2>1, <2>2 DEF Next
<1>2. QED
  BY <1>1, HeapInvariant, PTL DEF Spec, OverrunsOnlyForWantOfFit

------------------------------------------------------------------------------
(* The refinement mapping reads the table; the invariant says that what it   *)
(* reads is what clients hold, cut off at the end of the pool.               *)

InTable(x) ==
  [at |-> x.at, n |-> IF x.at + x.n > Total THEN Total - x.at ELSE x.n]

MarksAreHeld == MarkedExtents(entries) = {InTable(x) : x \in held}

\* The chain of flags of a held extent is as long as the extent
\* (heap.c:149-161 reads it so).
LEMMA MarkedLengthOfHeld ==
  ASSUME IInv, NEW x \in held
  PROVE  /\ x.at \in Blocks
         /\ "FIRST" \in entries[x.at]
         /\ MarkedLength(entries, x.at) = InTable(x).n
<1> DEFINE c == InTable(x).n
<1> DEFINE IsLength(n) == /\ \A i \in x.at .. x.at + n - 2 : "NEXT" \in entries[i]
                          /\ "NEXT" \notin entries[x.at + n - 1] \/ x.at + n = Total
<1>1. x.at \in Blocks /\ x.at \in Nat /\ x.at < Total /\ x.n \in Nat /\ x.n > 0
  BY HeapConstants DEF IInv, TypeOK, HeldNonEmpty, Blocks
<1>2. \A k \in Extent(x.at, x.n) \cap Blocks :
        "NEXT" \in entries[k] <=> k < x.at + x.n - 1
  BY DEF IInv, HeldMarked, MarkOf
<1>3. \A k \in x.at .. x.at + c - 1 : k \in Extent(x.at, x.n) \cap Blocks
  BY <1>1, HeapConstants DEF InTable, Extent, Blocks
<1>4. c \in 1 .. Total - x.at /\ (c = x.n \/ x.at + c = Total) /\ c <= x.n
  BY <1>1, HeapConstants DEF InTable
<1> HIDE DEF c
<1>5. IsLength(c)
  <2>1. \A i \in x.at .. x.at + c - 2 :
          i \in x.at .. x.at + c - 1 /\ i < x.at + x.n - 1
    BY <1>1, <1>4, HeapConstants
  <2>2. x.at + c - 1 \in x.at .. x.at + c - 1
    BY <1>1, <1>4, HeapConstants
  <2>3. c = x.n => "NEXT" \notin entries[x.at + c - 1]
    BY <1>1, <1>2, <1>3, <2>2
  <2>4. QED
    BY <1>2, <1>3, <1>4, <2>1, <2>3
<1>6. ASSUME NEW n \in 1 .. Total - x.at, IsLength(n) PROVE n = c
  <2>1. CASE n < c
    <3>1. /\ x.at + n - 1 \in x.at .. x.at + c - 1
          /\ x.at + n - 1 < x.at + x.n - 1
          /\ x.at + n # Total
      BY <1>1, <1>4, <2>1, HeapConstants
    <3>2. "NEXT" \in entries[x.at + n - 1]
      BY <1>2, <1>3, <3>1
    <3>3. QED
      BY <1>6, <3>1, <3>2
  <2>2. CASE n > c
    <3>1. /\ x.at + c - 1 \in x.at .. x.at + n - 2
          /\ x.at + c - 1 \in x.at .. x.at + c - 1
          /\ x.at + c # Total
      BY <1>1, <1>4, <2>2, HeapConstants
    <3>2. "NEXT" \notin entries[x.at + c - 1]
      BY <1>5, <3>1
    <3>3. QED
      BY <1>6, <3>1, <3>2
  <2>3. QED
    BY <1>4, <2>1, <2>2, HeapConstants
<1>7. MarkedLength(entries, x.at) = c
  BY <1>4, <1>5, <1>6 DEF MarkedLength
<1>8. "FIRST" \in entries[x.at]
  <2>1. x.at \in Extent(x.at, x.n) \cap Blocks
    BY <1>1, HeapConstants DEF Extent
  <2>2. QED
    BY <2>1 DEF IInv, HeldMarked, MarkOf
<1>9. QED
  BY <1>1, <1>7, <1>8 DEF c

LEMMA DecodeHeld == IInv => MarksAreHeld
<1>1. SUFFICES ASSUME IInv PROVE MarksAreHeld
  OBVIOUS
<1>2. \A x \in held : /\ x.at \in Blocks /\ "FIRST" \in entries[x.at]
                      /\ [at |-> x.at, n |-> MarkedLength(entries, x.at)] = InTable(x)
  BY <1>1, MarkedLengthOfHeld DEF InTable
<1>3. ASSUME NEW b \in Blocks, "FIRST" \in entries[b] PROVE \E x \in held : x.at = b
  <2>1. PICK x \in held : b \in Extent(x.at, x.n)
    BY <1>1, <1>3 DEF IInv, NoBlockLost
  <2>2. entries[b] = MarkOf(x.at, x.n, b)
    BY <1>1, <1>3, <2>1 DEF IInv, HeldMarked
  <2>3. QED
    BY <1>3, <2>2 DEF MarkOf
<1>4. MarkedExtents(entries) \subseteq {InTable(x) : x \in held}
  BY <1>2, <1>3 DEF MarkedExtents
<1>5. {InTable(x) : x \in held} \subseteq MarkedExtents(entries)
  BY <1>2 DEF MarkedExtents
<1>6. QED
  BY <1>4, <1>5 DEF MarksAreHeld

\* A free run of the pool is a free run of the table.
LEMMA RoomFits ==
  ASSUME IInv, MarksAreHeld, NEW n \in Nat \ {0}, Pool!RoomFor(n)
  PROVE  \E s \in Blocks : Fits(entries, n, s)
<1>1. PICK s \in Blocks : Pool!Room([at |-> s, n |-> n])
  BY DEF Pool!RoomFor, Pool!Blocks, Blocks
<1>2. s + n <= Total
  BY <1>1 DEF Pool!Room, Pool!Extents
<1>3. ASSUME NEW i \in s .. s + n - 1 PROVE IsFree(entries, i)
  <2>1. i \in Blocks
    BY <1>2, HeapConstants DEF Blocks
  <2>2. ASSUME NEW x \in held, i \in Extent(x.at, x.n) PROVE FALSE
    <3>1. x.at \in Blocks /\ x.n \in Nat
      BY DEF IInv, TypeOK
    <3>2. i \in Pool!Covered(InTable(x))
      BY <2>1, <2>2, <3>1, HeapConstants DEF Pool!Covered, InTable, Extent, Blocks
    <3>3. i \in Pool!Covered([at |-> s, n |-> n])
      BY <1>3 DEF Pool!Covered
    <3>4. InTable(x) \in MarkedExtents(entries)
      BY DEF MarksAreHeld
    <3>5. QED
      BY <1>1, <3>2, <3>3, <3>4 DEF Pool!Room
  <2>3. entries[i] = {}
    BY <2>1, <2>2 DEF IInv, NoBlockLost
  <2>4. QED
    BY <2>3 DEF IsFree
<1>4. QED
  BY <1>2, <1>3 DEF Fits

LEMMA InitImplements == Init => Pool!Init
<1>1. SUFFICES ASSUME Init PROVE Pool!Init
  OBVIOUS
<1>2. MarkedExtents(entries) = {}
  BY <1>1 DEF Init, MarkedExtents
<1>3. Outcome(ret) = [what |-> "none", n |-> 0]
  BY <1>1 DEF Init, Outcome, What
<1>4. QED
  BY <1>2, <1>3 DEF Pool!Init

\* kmalloc is a grant, a grant cut short by the end of the pool, or a refusal.
LEMMA MallocImplements ==
  ASSUME IInv, MarksAreHeld, MarksAreHeld', NonZeroRequests,
         NEW size \in Sizes, Malloc(size)
  PROVE  Pool!Next
<1> DEFINE n == BlocksFor(size)
<1>1. n \in Nat \ {0}
  BY BlocksForNat DEF NonZeroRequests
<1> HIDE DEF n
<1>2. SUFFICES Pool!Grant(n) \/ Pool!Shorten(n) \/ Pool!Refuse(n)
  BY DEF Pool!Next, n
<1>3. NothingFound(entries, n) => ~Pool!RoomFor(n)
  BY <1>1, RoomFits, NothingFits
<1>4. ASSUME NEW s \in Blocks, StartBlock(entries, n, s),
             held' = held \cup {[at |-> s, n |-> n]}, Returned("malloc", n, s)
      PROVE  Pool!Grant(n) \/ Pool!Shorten(n)
  <2> DEFINE e == InTable([at |-> s, n |-> n])
  <2>1. s \in Nat /\ s < Total
    BY HeapConstants DEF Blocks
  <2>2. MarkedExtents(entries)' = MarkedExtents(entries) \cup {e}
    BY <1>4 DEF MarksAreHeld, InTable
  <2>3. Outcome(ret)' = [what |-> "granted", n |-> n]
    <3>1. ret'.op = "malloc" /\ ret'.at # NoBlock /\ ret'.n = n
      BY <1>4, <2>1 DEF Returned, NoBlock
    <3>2. QED
      BY <3>1 DEF Outcome, What
  <2>4. Pool!Room(e)
    <3>1. e \in Pool!Extents
      BY <1>1, <2>1, HeapConstants DEF InTable, Pool!Extents, Pool!Blocks
    <3>2. ASSUME NEW x \in held PROVE Pool!Covered(e) \cap Pool!Covered(InTable(x)) = {}
      <4>1. x.at \in Blocks /\ x.n \in Nat
        BY DEF IInv, TypeOK
      <4>2. Extent(x.at, x.n) \cap Extent(s, n) = {}
        BY <1>1, <1>4, PlacedApart
      <4>3. Pool!Covered(e) \subseteq Extent(s, n)
        BY <1>1, <2>1, HeapConstants DEF InTable, Extent, Pool!Covered
      <4>4. Pool!Covered(InTable(x)) \subseteq Extent(x.at, x.n)
        BY <4>1, HeapConstants DEF InTable, Extent, Pool!Covered, Blocks
      <4>5. QED
        BY <4>2, <4>3, <4>4
    <3>3. QED
      BY <3>1, <3>2 DEF Pool!Room, MarksAreHeld
  <2>5. CASE s + n <= Total
    <3>1. e = [at |-> s, n |-> n]
      BY <1>1, <2>1, <2>5, HeapConstants DEF InTable
    <3>2. QED
      BY <2>2, <2>3, <2>4, <3>1 DEF Pool!Grant, Pool!Tells, Pool!Blocks, Blocks
  <2>6. CASE s + n > Total
    <3>1. e = [at |-> s, n |-> Total - s]
      BY <1>1, <2>1, <2>6, HeapConstants DEF InTable
    <3>2. ~Found(entries, n, s)
      BY <1>1, <2>1, <2>6, HeapConstants DEF Found, FirstFit, Fits
    <3>3. ~Pool!RoomFor(n)
      BY <1>3, <1>4, <3>2 DEF StartBlock
    <3>4. QED
      BY <2>2, <2>3, <2>4, <3>1, <3>3 DEF Pool!Shorten, Pool!Tells, Pool!Blocks, Blocks
  <2>7. QED
    BY <1>1, <2>1, <2>5, <2>6, HeapConstants
<1>5. ASSUME ~ \E s \in Blocks : StartBlock(entries, n, s),
             Returned("malloc", n, NoBlock), UNCHANGED <<entries, held>>
      PROVE  Pool!Refuse(n)
  <2>1. ~Pool!RoomFor(n)
    BY <1>3, <1>5 DEF NothingFound, StartBlock
  <2>2. Outcome(ret)' = [what |-> "refused", n |-> n]
    BY <1>5 DEF Returned, Outcome, What
  <2>3. MarkedExtents(entries)' = MarkedExtents(entries)
    BY <1>5 DEF MarkedExtents, MarkedLength
  <2>4. QED
    BY <2>1, <2>2, <2>3 DEF Pool!Refuse, Pool!Tells
<1>6. QED
  BY <1>4, <1>5 DEF Malloc, n

\* kfree is the release of the extent the table shows at that address.
LEMMA FreeImplements ==
  ASSUME IInv, MarksAreHeld, MarksAreHeld', NEW x \in held, Free(x)
  PROVE  Pool!Next
<1>1. InTable(x) \in MarkedExtents(entries)
  BY DEF MarksAreHeld
<1>2. ASSUME NEW y \in held, InTable(y) = InTable(x) PROVE y = x
  <2>1. y.at = x.at
    BY <1>2 DEF InTable
  <2>2. x.at \in Nat /\ x.n \in Nat /\ x.n > 0 /\ y.n \in Nat /\ y.n > 0
    BY HeapConstants DEF IInv, TypeOK, HeldNonEmpty, Blocks
  <2>3. x.at \in Extent(x.at, x.n) /\ x.at \in Extent(y.at, y.n)
    BY <2>1, <2>2 DEF Extent
  <2>4. QED
    BY <2>3 DEF IInv, HeldDisjoint
<1>3. MarkedExtents(entries)' = MarkedExtents(entries) \ {InTable(x)}
  <2>1. MarkedExtents(entries)' = {InTable(y) : y \in held \ {x}}
    BY DEF MarksAreHeld, Free, InTable
  <2>2. QED
    BY <1>2, <2>1 DEF MarksAreHeld
<1>4. Outcome(ret)' = [what |-> "released", n |-> 0]
  BY DEF Free, Returned, Outcome, What
<1>5. Pool!Release(InTable(x))
  BY <1>3, <1>4 DEF Pool!Release, Pool!Tells
<1>6. QED
  BY <1>1, <1>5 DEF Pool!Next

\* Seen through the flags of the table, every run of the heap is a run of a
\* pool of disjoint extents (heap.c:131-178).
THEOREM HeapImplementsPool ==
  ASSUME NonZeroRequests
  PROVE  Spec => ImplementsPool
<1>1. IInv /\ MarksAreHeld /\ MarksAreHeld' /\ [Next]_vars => [Pool!Next]_(Pool!vars)
  <2>1. SUFFICES ASSUME IInv, MarksAreHeld, MarksAreHeld', [Next]_vars
                 PROVE  [Pool!Next]_(Pool!vars)
    OBVIOUS
  <2>2. CASE \E size \in Sizes : Malloc(size)
    BY <2>1, <2>2, MallocImplements
  <2>3. CASE \E x \in held : Free(x)
    BY <2>1, <2>3, FreeImplements
  <2>4. CASE UNCHANGED vars
    BY <2>4 DEF vars, Pool!vars, MarkedExtents, MarkedLength, Outcome, What
  <2>5. QED
    BY <2>1, <2>2, <2>3, <2>4 DEF Next
<1>2. QED
  BY <1>1, InitImplements, DecodeHeld, HeapInvariant, PTL DEF Spec, ImplementsPool, Pool!Spec

------------------------------------------------------------------------------
(* The loop of heap_get_start_block.                                         *)

ScanState == [current : Int, start : Int, broke : BOOLEAN]
ScanInit == [current |-> 0, start |-> -1, broke |-> FALSE]

\* Turn i of the scan, which looks at entry i - 1.
ScanTurn(e, n, i, was) ==
  LET start == IF was.start = -1 THEN i - 1 ELSE was.start
  IN  IF was.broke THEN was
      ELSE IF "TAKEN" \in e[i - 1] THEN [current |-> 0, start |-> -1, broke |-> FALSE]
      ELSE [current |-> was.current + 1,
            start   |-> start,
            broke   |-> was.current + 1 = n]

LEMMA ScanTurnType ==
  ASSUME NEW e, NEW n, NEW i \in Nat, NEW was \in ScanState
  PROVE  ScanTurn(e, n, i, was) \in ScanState
<1>1. CASE was.broke
  BY <1>1 DEF ScanTurn
<1>2. CASE ~was.broke /\ "TAKEN" \in e[i - 1]
  <2>1. ScanTurn(e, n, i, was) = [current |-> 0, start |-> -1, broke |-> FALSE]
    BY <1>2 DEF ScanTurn
  <2>2. QED
    BY <2>1 DEF ScanState
<1>3. CASE ~was.broke /\ "TAKEN" \notin e[i - 1]
  <2>1. ScanTurn(e, n, i, was) = [current |-> was.current + 1,
                                   start |-> IF was.start = -1 THEN i - 1 ELSE was.start,
                                   broke |-> was.current + 1 = n]
    BY <1>3 DEF ScanTurn
  <2>2. (was.current + 1 = n) \in BOOLEAN
    OBVIOUS
  <2>3. was.current + 1 \in Int /\ (IF was.start = -1 THEN i - 1 ELSE was.start) \in Int
    BY DEF ScanState
  <2>4. QED
    BY <2>1, <2>2, <2>3 DEF ScanState
<1>4. QED
  BY <1>1, <1>2, <1>3

\* The recursive function StartLoop is written with has the states of the scan.
LEMMA ScanTurns ==
  ASSUME NEW e, NEW n
  PROVE  \E L : /\ L[0] = ScanInit
                /\ \A i \in 1 .. Total : L[i] = ScanTurn(e, n, i, L[i - 1])
                /\ StartLoop(e, n) = L[Total].start
<1> DEFINE Body(f) == [i \in 0 .. Total |-> IF i = 0 THEN ScanInit ELSE ScanTurn(e, n, i, f[i - 1])]
           step == [a \in Nat \X ScanState |-> ScanTurn(e, n, a[1], a[2])]
           L == CHOOSE f : f = Body(f)
<1>1. ScanInit \in ScanState
  BY DEF ScanInit, ScanState
<1>2. step \in [Nat \X ScanState -> ScanState]
  BY ScanTurnType
<1>3. PICK f : Turns(f, ScanState, ScanInit, step, Total)
  <2>1. Total \in Nat
    BY HeapConstants
  <2> HIDE DEF step
  <2>2. QED
    BY <1>1, <1>2, <2>1, TurnsExist
<1>4. f = Body(f)
  <2>1. f \in [0 .. Total -> ScanState] /\ f[0] = ScanInit
    BY <1>3 DEF Turns
  <2>2. ASSUME NEW i \in 1 .. Total PROVE f[i] = ScanTurn(e, n, i, f[i - 1])
    <3>1. i - 1 \in 0 .. Total /\ i \in Nat
      BY HeapConstants
    <3>2. f[i - 1] \in ScanState
      BY <2>1, <3>1
    <3>3. f[i] = step[<<i, f[i - 1]>>]
      BY <1>3 DEF Turns
    <3>4. QED
      BY <3>1, <3>2, <3>3
  <2>3. QED
    BY <2>1, <2>2, HeapConstants
<1>5. L = Body(L)
  BY <1>4
<1>6. StartLoop(e, n) = L[Total].start
  BY DEF StartLoop, ScanInit, ScanTurn
<1> HIDE DEF L
<1>7. L[0] = ScanInit /\ \A i \in 1 .. Total : L[i] = ScanTurn(e, n, i, L[i - 1])
  <2>1. L[0] = Body(L)[0] /\ \A i \in 1 .. Total : L[i] = Body(L)[i]
    BY <1>5
  <2>2. 0 \in 0 .. Total /\ \A i \in 1 .. Total : i \in 0 .. Total /\ i # 0
    BY HeapConstants
  <2>3. Body(L)[0] = ScanInit
    BY <2>2
  <2>4. \A i \in 1 .. Total : Body(L)[i] = ScanTurn(e, n, i, L[i - 1])
    BY <2>2
  <2>5. QED
    BY <2>1, <2>3, <2>4
<1>8. QED
  BY <1>6, <1>7

\* What the scan knows after i turns.
Scanned(e, n, i, w) ==
  /\ w \in ScanState
  /\ w.broke => n > 0 /\ w.start \in Blocks /\ FirstFit(e, n, w.start)
  /\ ~w.broke =>
       /\ w.start = -1 => w.current = 0 /\ (i > 0 => ~IsFree(e, i - 1))
       /\ w.start # -1 => /\ w.start \in 0 .. i - 1 /\ w.current = i - w.start
                          /\ \A j \in w.start .. i - 1 : IsFree(e, j)
                          /\ w.start > 0 => ~IsFree(e, w.start - 1)
       /\ n > 0 => /\ w.current < n
                   /\ \A r \in Nat : r + n <= i => \E j \in r .. r + n - 1 : ~IsFree(e, j)

LEMMA ScanTurnKeeps ==
  ASSUME NEW e, NEW n \in Nat, NEW i \in 1 .. Total, NEW w, Scanned(e, n, i - 1, w)
  PROVE  Scanned(e, n, i, ScanTurn(e, n, i, w))
<1> DEFINE v == ScanTurn(e, n, i, w)
<1>1. Total \in Nat /\ i \in Nat /\ i - 1 \in Nat /\ i - 1 \in Blocks
  BY HeapConstants DEF Blocks
<1>2. w \in ScanState /\ v \in ScanState
  BY <1>1, ScanTurnType DEF Scanned
<1>3. w.current \in Int /\ w.start \in Int /\ w.broke \in BOOLEAN
  BY <1>2 DEF ScanState
<1>4. CASE w.broke
  <2>1. v = w
    BY <1>4 DEF ScanTurn
  <2>2. QED
    BY <1>2, <1>4, <2>1 DEF Scanned
<1>5. CASE ~w.broke /\ ~IsFree(e, i - 1)
  <2>1. v = [current |-> 0, start |-> -1, broke |-> FALSE]
    BY <1>5 DEF ScanTurn, IsFree
  <2>2. v.current = 0 /\ v.start = -1 /\ v.broke = FALSE
    BY <2>1
  <2>3. ASSUME n > 0, NEW r \in Nat, r + n <= i PROVE \E j \in r .. r + n - 1 : ~IsFree(e, j)
    <3>1. CASE r + n <= i - 1
      BY <1>5, <2>3, <3>1 DEF Scanned
    <3>2. CASE r + n = i
      <4>1. i - 1 \in r .. r + n - 1
        BY <1>1, <2>3, <3>2
      <4>2. QED
        BY <1>5, <4>1
    <3>3. QED
      BY <1>1, <2>3, <3>1, <3>2
  <2>4. QED
    BY <1>2, <1>5, <2>2, <2>3 DEF Scanned
<1>6. CASE ~w.broke /\ IsFree(e, i - 1)
  <2> DEFINE start == IF w.start = -1 THEN i - 1 ELSE w.start
  <2>1. v = [current |-> w.current + 1, start |-> start, broke |-> w.current + 1 = n]
    BY <1>6 DEF ScanTurn, IsFree
  <2>2. v.current = w.current + 1 /\ v.start = start /\ v.broke = (w.current + 1 = n)
    BY <2>1
  <2>3. /\ start \in 0 .. i - 1 /\ w.current + 1 = i - start
        /\ start > 0 => ~IsFree(e, start - 1)
    BY <1>1, <1>3, <1>6 DEF Scanned
  <2>4. \A j \in start .. i - 1 : IsFree(e, j)
    <3>1. SUFFICES ASSUME NEW j \in start .. i - 1 PROVE IsFree(e, j)
      OBVIOUS
    <3>2. CASE j = i - 1
      BY <1>6, <3>2
    <3>3. CASE j # i - 1
      <4>1. w.start # -1 /\ j \in w.start .. (i - 1) - 1
        BY <1>1, <1>3, <2>3, <3>3
      <4>2. QED
        BY <1>6, <4>1 DEF Scanned
    <3>4. QED
      BY <3>2, <3>3
  <2> HIDE DEF start
  <2>5. start \in Nat /\ start # -1
    BY <1>1, <2>3
  <2>6. CASE w.current + 1 = n
    <3>1. n > 0 /\ start + n = i /\ start \in Blocks
      BY <1>1, <2>3, <2>5, <2>6 DEF Blocks
    <3>2. Fits(e, n, start)
      <4>1. start + n <= Total /\ start + n - 1 = i - 1
        BY <1>1, <2>5, <3>1
      <4>2. \A j \in start .. start + n - 1 : IsFree(e, j)
        BY <2>4, <4>1
      <4>3. QED
        BY <4>1, <4>2 DEF Fits
    <3>3. ASSUME NEW r \in 0 .. start - 1 PROVE ~Fits(e, n, r)
      <4>1. r \in Nat /\ r + n <= i - 1
        BY <1>1, <2>5, <3>1
      <4>2. \E j \in r .. r + n - 1 : ~IsFree(e, j)
        BY <1>6, <3>1, <4>1 DEF Scanned
      <4>3. QED
        BY <4>2 DEF Fits
    <3>4. QED
      BY <1>2, <2>2, <2>6, <3>1, <3>2, <3>3 DEF Scanned, FirstFit
  <2>7. CASE w.current + 1 # n
    <3>1. n > 0 => w.current + 1 < n
      BY <1>3, <1>6, <2>7 DEF Scanned
    <3>2. ASSUME n > 0, NEW r \in Nat, r + n <= i PROVE \E j \in r .. r + n - 1 : ~IsFree(e, j)
      <4>1. CASE r + n <= i - 1
        BY <1>6, <3>2, <4>1 DEF Scanned
      <4>2. CASE r + n = i
        <5>1. r < start /\ start - 1 \in r .. r + n - 1 /\ start > 0
          BY <1>1, <2>3, <2>5, <3>1, <3>2, <4>2
        <5>2. QED
          BY <2>3, <5>1
      <4>3. QED
        BY <1>1, <3>2, <4>1, <4>2
    <3>3. v.broke = FALSE /\ v.start # -1
      BY <2>2, <2>5, <2>7
    <3>4. QED
      BY <1>2, <2>2, <2>3, <2>4, <3>1, <3>2, <3>3 DEF Scanned
  <2>8. QED
    BY <2>6, <2>7
<1>7. QED
  BY <1>3, <1>4, <1>5, <1>6

\* heap_get_start_block gives the first fit, or else the run at the end, or else
\* nothing (heap.c:72-105).
LEMMA ScanFinds ==
  ASSUME NEW e, NEW n \in Nat
  PROVE  /\ StartLoop(e, n) \in Blocks \cup {NoBlock}
         /\ {s \in Blocks : StartBlock(e, n, s)} = {StartLoop(e, n)} \ {NoBlock}
<1>1. PICK L : /\ L[0] = ScanInit
               /\ \A i \in 1 .. Total : L[i] = ScanTurn(e, n, i, L[i - 1])
               /\ StartLoop(e, n) = L[Total].start
  BY ScanTurns
<1>2. Total \in Nat /\ Total > 0
  BY HeapConstants
<1> DEFINE S == {i \in Nat : i <= Total => Scanned(e, n, i, L[i])}
<1>3. 0 \in S
  <2>1. Scanned(e, n, 0, ScanInit)
    BY DEF Scanned, ScanInit, ScanState
  <2>2. QED
    BY <1>1, <2>1
<1>4. ASSUME NEW k \in Nat, k \in S PROVE k + 1 \in S
  <2>1. SUFFICES ASSUME k + 1 <= Total PROVE Scanned(e, n, k + 1, L[k + 1])
    OBVIOUS
  <2>2. k + 1 \in 1 .. Total /\ (k + 1) - 1 = k
    BY <1>2, <2>1
  <2>3. Scanned(e, n, (k + 1) - 1, L[k])
    BY <1>2, <1>4, <2>1, <2>2
  <2>4. L[k + 1] = ScanTurn(e, n, k + 1, L[k])
    BY <1>1, <2>2
  <2>5. QED
    BY <2>2, <2>3, <2>4, ScanTurnKeeps
<1> HIDE DEF S
<1>5. Nat \subseteq S
  BY <1>3, <1>4, Induct
<1> DEFINE w == L[Total]
<1>6. Scanned(e, n, Total, w)
  BY <1>2, <1>5 DEF S
<1> HIDE DEF w
<1>7. w.current \in Int /\ w.start \in Int /\ w.broke \in BOOLEAN
  BY <1>6 DEF Scanned, ScanState
<1>8. CASE w.broke
  <2>1. n > 0 /\ w.start \in Blocks /\ FirstFit(e, n, w.start)
    BY <1>6, <1>8 DEF Scanned
  <2>2. \A s \in Blocks : FirstFit(e, n, s) => s = w.start
    <3>1. SUFFICES ASSUME NEW s \in Blocks, FirstFit(e, n, s), s # w.start PROVE FALSE
      OBVIOUS
    <3>2. s \in 0 .. w.start - 1 \/ w.start \in 0 .. s - 1
      BY <1>2, <2>1, <3>1 DEF Blocks
    <3>3. QED
      BY <2>1, <3>1, <3>2 DEF FirstFit
  <2>3. \A s \in Blocks : StartBlock(e, n, s) <=> s = w.start
    BY <2>1, <2>2 DEF StartBlock, NothingFound, Found
  <2>4. w.start # NoBlock
    BY <1>2, <2>1 DEF Blocks, NoBlock
  <2>5. QED
    BY <1>1, <2>1, <2>3, <2>4 DEF w
<1>9. CASE ~w.broke
  <2>1. NothingFound(e, n)
    <3>1. SUFFICES ASSUME n > 0, NEW s \in Blocks, Fits(e, n, s) PROVE FALSE
      BY DEF NothingFound, Found, FirstFit
    <3>2. s \in Nat /\ s + n <= Total
      BY <1>2, <3>1 DEF Blocks, Fits
    <3>3. \E j \in s .. s + n - 1 : ~IsFree(e, j)
      BY <1>6, <1>9, <3>1, <3>2 DEF Scanned
    <3>4. QED
      BY <3>1, <3>3 DEF Fits
  <2>2. \A s \in Blocks : StartBlock(e, n, s) <=> TrailingRun(e, s)
    BY <2>1 DEF StartBlock, NothingFound
  <2>3. CASE w.start = -1
    <3>1. ~IsFree(e, Total - 1)
      BY <1>2, <1>6, <1>9, <2>3 DEF Scanned
    <3>2. \A s \in Blocks : Total - 1 \in s .. Total - 1
      BY <1>2 DEF Blocks
    <3>3. \A s \in Blocks : ~StartBlock(e, n, s)
      BY <2>2, <3>1, <3>2 DEF TrailingRun
    <3>4. QED
      BY <1>1, <2>3, <3>3 DEF w, NoBlock
  <2>4. CASE w.start # -1
    <3>1. /\ w.start \in 0 .. Total - 1
          /\ \A j \in w.start .. Total - 1 : IsFree(e, j)
          /\ w.start > 0 => ~IsFree(e, w.start - 1)
      BY <1>6, <1>9, <2>4 DEF Scanned
    <3>2. ASSUME NEW s \in Blocks PROVE TrailingRun(e, s) <=> s = w.start
      <4>1. CASE s = w.start
        BY <3>1, <4>1 DEF TrailingRun
      <4>2. CASE s < w.start
        <5>1. w.start - 1 \in s .. Total - 1 /\ ~IsFree(e, w.start - 1)
          BY <1>2, <3>1, <4>2 DEF Blocks
        <5>2. QED
          BY <4>2, <5>1 DEF TrailingRun, Blocks
      <4>3. CASE s > w.start
        <5>1. s - 1 \in w.start .. Total - 1 /\ s > 0
          BY <1>2, <3>1, <4>3 DEF Blocks
        <5>2. QED
          BY <3>1, <4>3, <5>1 DEF TrailingRun, Blocks
      <4>4. QED
        BY <1>7, <4>1, <4>2, <4>3 DEF Blocks
    <3>3. w.start \in Blocks /\ w.start # NoBlock
      BY <2>4, <3>1 DEF Blocks, NoBlock
    <3>4. QED
      BY <1>1, <2>2, <3>2, <3>3 DEF w
  <2>5. QED
    BY <2>3, <2>4
<1>10. QED
  BY <1>7, <1>8, <1>9

------------------------------------------------------------------------------
(* heap_mark_blocks_taken.                                                   *)

Table == [Blocks -> SUBSET Flags]
MarkState == [table : Table, entry : SUBSET Flags]
MarkInit(e, n) ==
  [table |-> e, entry |-> {"TAKEN", "FIRST"} \cup (IF n > 1 THEN {"NEXT"} ELSE {})]

\* Turn k of the loop, which writes entry s + k - 1.
MarkTurn(s, n, k, was) ==
  LET last == s + n - 1
      i == s + k - 1
  IN  [table |-> IF i < Total THEN [was.table EXCEPT ![i] = was.entry] ELSE was.table,
       entry |-> {"TAKEN"} \cup (IF i # last - 1 THEN {"NEXT"} ELSE {})]

LEMMA MarkTurnType ==
  ASSUME NEW s \in Blocks, NEW n \in Nat, NEW k \in Nat, NEW was \in MarkState
  PROVE  MarkTurn(s, n, k, was) \in MarkState
<1>1. was.table \in Table /\ was.entry \in SUBSET Flags
  BY DEF MarkState
<1>2. [was.table EXCEPT ![s + k - 1] = was.entry] \in Table
  BY <1>1 DEF Table
<1>3. ({"TAKEN"} \cup (IF s + k - 1 # (s + n - 1) - 1 THEN {"NEXT"} ELSE {})) \in SUBSET Flags
  BY DEF Flags
<1>4. QED
  BY <1>1, <1>2, <1>3 DEF MarkTurn, MarkState

LEMMA MarkTurns ==
  ASSUME NEW e \in Table, NEW s \in Blocks, NEW n \in Nat
  PROVE  \E L : /\ L[0] = MarkInit(e, n)
                /\ \A k \in 1 .. n : L[k] = MarkTurn(s, n, k, L[k - 1])
                /\ TakenLoop(e, s, n) = L[n].table
<1> DEFINE Body(f) == [k \in 0 .. n |-> IF k = 0 THEN MarkInit(e, n) ELSE MarkTurn(s, n, k, f[k - 1])]
           step == [a \in Nat \X MarkState |-> MarkTurn(s, n, a[1], a[2])]
           L == CHOOSE f : f = Body(f)
<1>1. MarkInit(e, n) \in MarkState
  BY DEF MarkInit, MarkState, Flags
<1>2. step \in [Nat \X MarkState -> MarkState]
  BY MarkTurnType
<1>3. PICK f : Turns(f, MarkState, MarkInit(e, n), step, n)
  <2> HIDE DEF step
  <2>1. QED
    BY <1>1, <1>2, TurnsExist
<1>4. f = Body(f)
  <2>1. f \in [0 .. n -> MarkState] /\ f[0] = MarkInit(e, n)
    BY <1>3 DEF Turns
  <2>2. ASSUME NEW k \in 1 .. n PROVE f[k] = MarkTurn(s, n, k, f[k - 1])
    <3>1. k - 1 \in 0 .. n /\ k \in Nat
      OBVIOUS
    <3>2. f[k - 1] \in MarkState
      BY <2>1, <3>1
    <3>3. f[k] = step[<<k, f[k - 1]>>]
      BY <1>3 DEF Turns
    <3>4. QED
      BY <3>1, <3>2, <3>3
  <2>3. QED
    BY <2>1, <2>2
<1>5. L = Body(L)
  BY <1>4
<1>6. TakenLoop(e, s, n) = L[n].table
  BY DEF TakenLoop, MarkInit, MarkTurn
<1> HIDE DEF L
<1>7. L[0] = MarkInit(e, n) /\ \A k \in 1 .. n : L[k] = MarkTurn(s, n, k, L[k - 1])
  <2>1. L[0] = Body(L)[0] /\ \A k \in 1 .. n : L[k] = Body(L)[k]
    BY <1>5
  <2>2. 0 \in 0 .. n /\ \A k \in 1 .. n : k \in 0 .. n /\ k # 0
    OBVIOUS
  <2>3. Body(L)[0] = MarkInit(e, n)
    BY <2>2
  <2>4. \A k \in 1 .. n : Body(L)[k] = MarkTurn(s, n, k, L[k - 1])
    BY <2>2
  <2>5. QED
    BY <2>1, <2>3, <2>4
<1>8. QED
  BY <1>6, <1>7

\* The entries marked after k turns, and the entry to write next.
Marked(e, s, n, k, w) ==
  /\ w.table = [j \in Blocks |-> IF j \in s .. s + k - 1 THEN MarkOf(s, n, j) ELSE e[j]]
  /\ k < n => w.entry = MarkOf(s, n, s + k)

LEMMA MarkTurnKeeps ==
  ASSUME NEW e \in Table, NEW s \in Blocks, NEW n \in Nat, NEW k \in 1 .. n,
         NEW w, Marked(e, s, n, k - 1, w)
  PROVE  Marked(e, s, n, k, MarkTurn(s, n, k, w))
<1> DEFINE v == MarkTurn(s, n, k, w)
           i == s + k - 1
<1>1. s \in Nat /\ k \in Nat /\ i \in Nat /\ Total \in Nat /\ s + (k - 1) = i
  BY HeapConstants DEF Blocks
<1>2. /\ v.table = IF i < Total THEN [w.table EXCEPT ![i] = w.entry] ELSE w.table
      /\ v.entry = {"TAKEN"} \cup (IF i # (s + n - 1) - 1 THEN {"NEXT"} ELSE {})
  BY DEF MarkTurn
<1>3. /\ w.table = [j \in Blocks |-> IF j \in s .. i - 1 THEN MarkOf(s, n, j) ELSE e[j]]
      /\ w.entry = MarkOf(s, n, i)
  <2>1. s + (k - 1) - 1 = i - 1 /\ k - 1 < n
    BY <1>1
  <2> HIDE DEF i
  <2>2. w.table = [j \in Blocks |-> IF j \in s .. i - 1 THEN MarkOf(s, n, j) ELSE e[j]]
    BY <2>1 DEF Marked
  <2>3. w.entry = MarkOf(s, n, i)
    BY <1>1, <2>1 DEF Marked
  <2>4. QED
    BY <2>2, <2>3
<1> HIDE DEF v
<1>4. v.table = [j \in Blocks |-> IF j \in s .. i THEN MarkOf(s, n, j) ELSE e[j]]
  <2> HIDE DEF i
  <2>1. CASE i < Total
    <3>1. i \in Blocks /\ v.table = [w.table EXCEPT ![i] = w.entry]
      BY <1>1, <1>2, <2>1 DEF Blocks
    <3>2. i \in s .. i
      BY <1>1 DEF i
    <3>3. \A j \in Blocks : j # i => (j \in s .. i <=> j \in s .. i - 1)
      BY <1>1 DEF Blocks
    <3>4. QED
      BY <1>3, <3>1, <3>2, <3>3
  <2>2. CASE ~ (i < Total)
    <3>1. \A j \in Blocks : j \in s .. i <=> j \in s .. i - 1
      BY <1>1, <2>2 DEF Blocks
    <3>2. v.table = w.table
      BY <1>2, <2>2
    <3>3. QED
      BY <1>3, <3>1, <3>2
  <2>3. QED
    BY <2>1, <2>2
<1>5. ASSUME k < n PROVE v.entry = MarkOf(s, n, s + k)
  <2>1. s + k # s /\ (i # (s + n - 1) - 1 <=> s + k < s + n - 1)
    BY <1>1, <1>5
  <2>2. QED
    BY <1>2, <2>1 DEF MarkOf
<1>6. QED
  BY <1>4, <1>5 DEF Marked, v

\* The marks are those of MarkOf (heap.c:112-131).
LEMMA MarkLoopMarks ==
  ASSUME NEW e \in Table, NEW s \in Blocks, NEW n \in Nat
  PROVE  TakenLoop(e, s, n) = MarkTaken(e, s, n)
<1>1. PICK L : /\ L[0] = MarkInit(e, n)
               /\ \A k \in 1 .. n : L[k] = MarkTurn(s, n, k, L[k - 1])
               /\ TakenLoop(e, s, n) = L[n].table
  BY MarkTurns
<1> DEFINE S == {k \in Nat : k <= n => Marked(e, s, n, k, L[k])}
<1>2. 0 \in S
  <2>1. s \in Nat
    BY HeapConstants DEF Blocks
  <2>2. L[0].table = e /\ L[0].entry = {"TAKEN", "FIRST"} \cup (IF n > 1 THEN {"NEXT"} ELSE {})
    BY <1>1 DEF MarkInit
  <2>3. \A j \in Blocks : j \notin s .. s + 0 - 1
    BY <2>1 DEF Blocks
  <2>4. e = [j \in Blocks |-> IF j \in s .. s + 0 - 1 THEN MarkOf(s, n, j) ELSE e[j]]
    BY <2>3 DEF Table
  <2>5. MarkOf(s, n, s + 0) = {"TAKEN", "FIRST"} \cup (IF n > 1 THEN {"NEXT"} ELSE {})
    <3>1. s + 0 = s /\ (s < s + n - 1 <=> n > 1)
      BY <2>1
    <3>2. QED
      BY <3>1 DEF MarkOf
  <2>6. Marked(e, s, n, 0, L[0])
    BY <2>2, <2>4, <2>5 DEF Marked
  <2>7. QED
    BY <2>6
<1>3. ASSUME NEW k \in Nat, k \in S PROVE k + 1 \in S
  <2>1. SUFFICES ASSUME k + 1 <= n PROVE Marked(e, s, n, k + 1, L[k + 1])
    OBVIOUS
  <2>2. k + 1 \in 1 .. n /\ (k + 1) - 1 = k
    BY <2>1
  <2>3. Marked(e, s, n, (k + 1) - 1, L[k])
    BY <1>3, <2>1, <2>2
  <2>4. L[k + 1] = MarkTurn(s, n, k + 1, L[k])
    BY <1>1, <2>2
  <2>5. QED
    BY <2>2, <2>3, <2>4, MarkTurnKeeps
<1> HIDE DEF S
<1>4. Nat \subseteq S
  BY <1>2, <1>3, Induct
<1>5. Marked(e, s, n, n, L[n])
  BY <1>4 DEF S
<1>6. QED
  BY <1>1, <1>5 DEF Marked, MarkTaken, Extent

------------------------------------------------------------------------------
(* heap_mark_blocks_free.                                                    *)

ClearState == [table : Table, broke : BOOLEAN]
ClearInit(e) == [table |-> e, broke |-> FALSE]

\* The turn of the loop that looks at entry i - 1.
ClearTurn(i, was) ==
  IF was.broke THEN was
  ELSE [table |-> [was.table EXCEPT ![i - 1] = {}],
        broke |-> "NEXT" \notin was.table[i - 1]]

LEMMA ClearTurnType ==
  ASSUME NEW i, NEW was \in ClearState PROVE ClearTurn(i, was) \in ClearState
<1>1. was.table \in Table
  BY DEF ClearState
<1>2. [was.table EXCEPT ![i - 1] = {}] \in Table
  BY <1>1 DEF Table
<1>3. ("NEXT" \notin was.table[i - 1]) \in BOOLEAN
  OBVIOUS
<1>4. CASE was.broke
  BY <1>4 DEF ClearTurn
<1>5. CASE ~was.broke
  <2>1. ClearTurn(i, was) = [table |-> [was.table EXCEPT ![i - 1] = {}],
                             broke |-> "NEXT" \notin was.table[i - 1]]
    BY <1>5 DEF ClearTurn
  <2>2. QED
    BY <1>2, <1>3, <2>1 DEF ClearState
<1>6. QED
  BY <1>4, <1>5

LEMMA ClearTurns ==
  ASSUME NEW e \in Table, NEW b \in Blocks
  PROVE  \E L : /\ L[b] = ClearInit(e)
                /\ \A i \in b + 1 .. Total : L[i] = ClearTurn(i, L[i - 1])
                /\ FreeLoop(e, b) = L[Total].table
<1> DEFINE Body(f) == [i \in b .. Total |-> IF i = b THEN ClearInit(e) ELSE ClearTurn(i, f[i - 1])]
           step == [a \in Nat \X ClearState |-> ClearTurn(b + a[1], a[2])]
           L == CHOOSE f : f = Body(f)
<1>1. ClearInit(e) \in ClearState
  BY DEF ClearInit, ClearState
<1>2. step \in [Nat \X ClearState -> ClearState]
  BY ClearTurnType
<1>3. b \in Nat /\ Total \in Nat /\ b < Total /\ Total - b \in Nat
  BY HeapConstants DEF Blocks
<1>4. PICK g : Turns(g, ClearState, ClearInit(e), step, Total - b)
  <2> HIDE DEF step
  <2>1. QED
    BY <1>1, <1>2, <1>3, TurnsExist
<1> DEFINE f == [i \in b .. Total |-> g[i - b]]
<1>5. f = Body(f)
  <2>1. g \in [0 .. Total - b -> ClearState] /\ g[0] = ClearInit(e)
    BY <1>4 DEF Turns
  <2>2. f[b] = ClearInit(e)
    <3>1. b \in b .. Total /\ b - b = 0
      BY <1>3
    <3>2. QED
      BY <2>1, <3>1
  <2>3. ASSUME NEW i \in b .. Total, i # b PROVE f[i] = ClearTurn(i, f[i - 1])
    <3>1. /\ i - b \in 1 .. Total - b /\ i - b \in Nat /\ (i - b) - 1 \in 0 .. Total - b
          /\ (i - 1) - b = (i - b) - 1 /\ b + (i - b) = i /\ i - 1 \in b .. Total
      BY <1>3, <2>3
    <3>2. g[(i - b) - 1] \in ClearState
      BY <2>1, <3>1
    <3>3. g[i - b] = step[<<i - b, g[(i - b) - 1]>>]
      BY <1>4, <3>1 DEF Turns
    <3>4. step[<<i - b, g[(i - b) - 1]>>] = ClearTurn(i, g[(i - b) - 1])
      BY <3>1, <3>2
    <3>5. f[i] = g[i - b] /\ f[i - 1] = g[(i - b) - 1]
      BY <3>1
    <3>6. QED
      BY <3>3, <3>4, <3>5
  <2>4. \A i \in b .. Total : f[i] = IF i = b THEN ClearInit(e) ELSE ClearTurn(i, f[i - 1])
    BY <2>2, <2>3
  <2>5. f = [i \in b .. Total |-> f[i]]
    OBVIOUS
  <2> HIDE DEF f
  <2>6. QED
    BY <2>4, <2>5
<1> HIDE DEF f
<1>6. L = Body(L)
  BY <1>5
<1>7. FreeLoop(e, b) = L[Total].table
  BY DEF FreeLoop, ClearInit, ClearTurn
<1> HIDE DEF L
<1>8. L[b] = ClearInit(e) /\ \A i \in b + 1 .. Total : L[i] = ClearTurn(i, L[i - 1])
  <2>1. b \in b .. Total /\ \A i \in b + 1 .. Total : i \in b .. Total /\ i # b
    BY <1>3
  <2>2. L[b] = Body(L)[b] /\ \A i \in b + 1 .. Total : L[i] = Body(L)[i]
    BY <1>6
  <2>3. Body(L)[b] = ClearInit(e)
    BY <2>1
  <2>4. \A i \in b + 1 .. Total : Body(L)[i] = ClearTurn(i, L[i - 1])
    BY <2>1
  <2>5. QED
    BY <2>2, <2>3, <2>4
<1>9. QED
  BY <1>7, <1>8

\* What is cleared before entry i, and whether the loop has stopped.
Linked(e, b, j) == \A k \in b .. j - 1 : "NEXT" \in e[k]
Cleared(e, b, i, w) ==
  /\ w.table = [j \in Blocks |-> IF j >= b /\ j < i /\ Linked(e, b, j) THEN {} ELSE e[j]]
  /\ w.broke \in BOOLEAN
  /\ w.broke <=> ~Linked(e, b, i)

LEMMA ClearTurnKeeps ==
  ASSUME NEW e \in Table, NEW b \in Blocks, NEW i \in b + 1 .. Total,
         NEW w, Cleared(e, b, i - 1, w)
  PROVE  Cleared(e, b, i, ClearTurn(i, w))
<1> DEFINE v == ClearTurn(i, w)
<1>1. b \in Nat /\ Total \in Nat /\ i \in Nat /\ i - 1 \in Blocks /\ i - 1 >= b
  BY HeapConstants DEF Blocks
<1>2. /\ w.table = [j \in Blocks |-> IF j >= b /\ j < i - 1 /\ Linked(e, b, j) THEN {} ELSE e[j]]
      /\ w.broke \in BOOLEAN /\ (w.broke <=> ~Linked(e, b, i - 1))
  BY DEF Cleared
<1>3. \A j \in Blocks : j < i <=> j < i - 1 \/ j = i - 1
  BY <1>1 DEF Blocks
<1>4. Linked(e, b, i) <=> Linked(e, b, i - 1) /\ "NEXT" \in e[i - 1]
  <2>1. \A k : k \in b .. i - 1 <=> k \in b .. (i - 1) - 1 \/ k = i - 1
    BY <1>1
  <2>2. QED
    BY <2>1 DEF Linked
<1>5. CASE w.broke
  <2>1. v = w
    BY <1>5 DEF ClearTurn
  <2>2. w.table = [j \in Blocks |-> IF j >= b /\ j < i /\ Linked(e, b, j) THEN {} ELSE e[j]]
    BY <1>2, <1>3, <1>5
  <2>3. w.broke <=> ~Linked(e, b, i)
    BY <1>2, <1>4, <1>5
  <2>4. QED
    BY <1>2, <2>1, <2>2, <2>3 DEF Cleared
<1>6. CASE ~w.broke
  <2>1. v = [table |-> [w.table EXCEPT ![i - 1] = {}], broke |-> "NEXT" \notin w.table[i - 1]]
    BY <1>6 DEF ClearTurn
  <2>2. /\ v.table = [w.table EXCEPT ![i - 1] = {}]
        /\ v.broke = ("NEXT" \notin w.table[i - 1])
    BY <2>1
  <2>3. Linked(e, b, i - 1)
    BY <1>2, <1>6
  <2>4. w.table[i - 1] = e[i - 1]
    BY <1>1, <1>2
  <2>5. v.table = [j \in Blocks |-> IF j >= b /\ j < i /\ Linked(e, b, j) THEN {} ELSE e[j]]
    BY <1>1, <1>2, <1>3, <2>2, <2>3
  <2>6. v.broke \in BOOLEAN /\ (v.broke <=> ~Linked(e, b, i))
    BY <1>4, <2>2, <2>3, <2>4
  <2>7. QED
    BY <2>5, <2>6 DEF Cleared
<1>7. QED
  BY <1>5, <1>6

\* A free clears the extent that begins at the block (heap.c:149-161).
LEMMA ClearLoopClears ==
  ASSUME NEW e \in Table, NEW b \in Blocks
  PROVE  FreeLoop(e, b) = MarkFree(e, b)
<1>1. PICK L : /\ L[b] = ClearInit(e)
               /\ \A i \in b + 1 .. Total : L[i] = ClearTurn(i, L[i - 1])
               /\ FreeLoop(e, b) = L[Total].table
  BY ClearTurns
<1>2. b \in Nat /\ Total \in Nat /\ b < Total /\ Total - b \in Nat
  BY HeapConstants DEF Blocks
<1> DEFINE S == {k \in Nat : k <= Total - b => Cleared(e, b, b + k, L[b + k])}
<1>3. 0 \in S
  <2>1. b + 0 = b /\ \A j \in Blocks : ~ (j >= b /\ j < b)
    BY <1>2 DEF Blocks
  <2>2. L[b].table = e /\ L[b].broke = FALSE
    BY <1>1 DEF ClearInit
  <2>3. e = [j \in Blocks |-> IF j >= b /\ j < b /\ Linked(e, b, j) THEN {} ELSE e[j]]
    BY <2>1 DEF Table
  <2>4. Linked(e, b, b)
    BY <1>2 DEF Linked
  <2>5. Cleared(e, b, b, L[b])
    BY <2>2, <2>3, <2>4 DEF Cleared
  <2>6. QED
    BY <2>1, <2>5
<1>4. ASSUME NEW k \in Nat, k \in S PROVE k + 1 \in S
  <2>1. SUFFICES ASSUME k + 1 <= Total - b PROVE Cleared(e, b, b + (k + 1), L[b + (k + 1)])
    OBVIOUS
  <2> DEFINE i == b + (k + 1)
  <2>2. i \in b + 1 .. Total /\ i - 1 = b + k
    BY <1>2, <2>1
  <2>3. Cleared(e, b, b + k, L[b + k])
    BY <1>2, <1>4, <2>1
  <2> HIDE DEF i
  <2>4. Cleared(e, b, i - 1, L[i - 1])
    BY <2>2, <2>3
  <2>5. L[i] = ClearTurn(i, L[i - 1])
    BY <1>1, <2>2
  <2>6. Cleared(e, b, i, L[i])
    BY <2>2, <2>4, <2>5, ClearTurnKeeps
  <2>7. QED
    BY <2>6 DEF i
<1> HIDE DEF S
<1>5. Nat \subseteq S
  BY <1>3, <1>4, Induct
<1>6. Cleared(e, b, Total, L[Total])
  <2>1. b + (Total - b) = Total
    BY <1>2
  <2>2. Cleared(e, b, b + (Total - b), L[b + (Total - b)])
    BY <1>2, <1>5 DEF S
  <2>3. QED
    BY <2>1, <2>2
<1>7. \A j \in Blocks : j < Total
  BY <1>2 DEF Blocks
<1>8. QED
  BY <1>1, <1>6, <1>7 DEF Cleared, Linked, MarkFree

------------------------------------------------------------------------------
\* The table keeps its type whatever is asked for, a request for no blocks
\* included (heap.c:112-161).
LEMMA TableKept == Spec => [](entries \in Table)
<1>1. Init => entries \in Table
  BY DEF Init, Table
<1>2. entries \in Table /\ [Next]_vars => (entries \in Table)'
  <2> SUFFICES ASSUME entries \in Table, [Next]_vars PROVE entries' \in Table
    OBVIOUS
  <2>1. ASSUME NEW n, NEW s PROVE MarkTaken(entries, s, n) \in Table
    <3>1. \A i \in Blocks : MarkOf(s, n, i) \in SUBSET Flags
      BY DEF MarkOf, Flags
    <3>2. QED
      BY <3>1 DEF MarkTaken, Table
  <2>2. ASSUME NEW b PROVE MarkFree(entries, b) \in Table
    BY DEF MarkFree, Table
  <2>3. CASE \E size \in Sizes : Malloc(size)
    BY <2>1, <2>3 DEF Malloc
  <2>4. CASE \E x \in held : Free(x)
    BY <2>2, <2>4 DEF Free
  <2>5. CASE UNCHANGED vars
    BY <2>5 DEF vars
  <2>6. QED
    BY <2>3, <2>4, <2>5 DEF Next
<1>3. QED
  BY <1>1, <1>2, PTL DEF Spec

\* In every table the loops of heap.c find, mark and clear what the relations of
\* Heap say, for every size of the table and every request (heap.c:72-161).
THEOREM LoopsDoAsTheModel == Spec => []LoopsAgree
<1>1. entries \in Table => LoopsAgree
  <2> SUFFICES ASSUME entries \in Table PROVE LoopsAgree
    OBVIOUS
  <2>1. entries \in Table
    OBVIOUS
  <2>2. ASSUME NEW n \in 0 .. Total + 2
        PROVE  LET start == StartLoop(entries, n) IN
               /\ {s \in Blocks : StartBlock(entries, n, s)} = {start} \ {NoBlock}
               /\ start # NoBlock => TakenLoop(entries, start, n) = MarkTaken(entries, start, n)
    <3> DEFINE start == StartLoop(entries, n)
    <3>1. n \in Nat
      OBVIOUS
    <3>2. /\ start \in Blocks \cup {NoBlock}
          /\ {s \in Blocks : StartBlock(entries, n, s)} = {start} \ {NoBlock}
      BY <3>1, ScanFinds
    <3> HIDE DEF start
    <3>3. start # NoBlock => TakenLoop(entries, start, n) = MarkTaken(entries, start, n)
      BY <2>1, <3>1, <3>2, MarkLoopMarks
    <3>4. QED
      BY <3>2, <3>3 DEF start
  <2>3. \A b \in Blocks : FreeLoop(entries, b) = MarkFree(entries, b)
    BY <2>1, ClearLoopClears
  <2>4. QED
    BY <2>2, <2>3 DEF LoopsAgree
<1>2. QED
  BY <1>1, TableKept, PTL

=============================================================================
