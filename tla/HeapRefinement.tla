--------------------------- MODULE HeapRefinement ---------------------------
(***************************************************************************)
(* The heap implements BlockPool.  The extents are read back from the      *)
(* flags of the table alone, as heap_mark_blocks_free reads them: the      *)
(* table is all the kernel keeps, so this also says that the flags are     *)
(* enough to tell where each extent begins and ends.                       *)
(***************************************************************************)
EXTENDS Heap

\* The number of blocks heap_mark_blocks_free would clear from block s on.
MarkedLength(e, s) ==
  CHOOSE n \in 1 .. Total - s :
    /\ \A i \in s .. s + n - 2 : "NEXT" \in e[i]
    /\ "NEXT" \notin e[s + n - 1] \/ s + n = Total

MarkedExtents(e) ==
  {[at |-> s, n |-> MarkedLength(e, s)] : s \in {b \in Blocks : "FIRST" \in e[b]}}

What(r) ==
  IF r.op = "none" THEN "none"
  ELSE IF r.op = "free" THEN "released"
  ELSE IF r.at = NoBlock THEN "refused" ELSE "granted"

Outcome(r) == [what |-> What(r), n |-> IF r.op = "malloc" THEN r.n ELSE 0]

Pool == INSTANCE BlockPool
          WITH Requests <- {BlocksFor(size) : size \in Sizes},
               pool     <- MarkedExtents(entries),
               outcome  <- Outcome(ret)

\* kmalloc and kfree, seen through the table, are the grants, refusals and
\* releases of a pool of disjoint extents (heap.c:131-178).
ImplementsPool == Pool!Spec

=============================================================================
