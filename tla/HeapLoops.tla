----------------------------- MODULE HeapLoops ------------------------------
(***************************************************************************)
(* The loops of src/src/memory/heap/heap.c, iteration by iteration, as     *)
(* recursive functions, and the claim that the relations of Heap say what  *)
(* the loops compute in every table the heap can get into.                 *)
(***************************************************************************)
EXTENDS HeapRefinement

\* heap_get_start_block: the state of the loop after i iterations.
StartLoop(e, n) ==
  LET loop[i \in 0 .. Total] ==
        IF i = 0 THEN [current |-> 0, start |-> -1, broke |-> FALSE]
        ELSE LET was == loop[i - 1]
                 start == IF was.start = -1 THEN i - 1 ELSE was.start
             IN  IF was.broke THEN was
                 ELSE IF "TAKEN" \in e[i - 1] THEN [current |-> 0, start |-> -1, broke |-> FALSE]
                 ELSE [current |-> was.current + 1,
                       start   |-> start,
                       broke   |-> was.current + 1 = n]
  IN  loop[Total].start

\* heap_mark_blocks_taken: the table and the entry to write next.  Entries past
\* the table are written to memory the heap never reads.
TakenLoop(e, s, n) ==
  LET last == s + n - 1
      loop[k \in 0 .. n] ==
        IF k = 0
        THEN [table |-> e,
              entry |-> {"TAKEN", "FIRST"} \cup (IF n > 1 THEN {"NEXT"} ELSE {})]
        ELSE LET was == loop[k - 1]
                 i == s + k - 1
             IN  [table |-> IF i < Total THEN [was.table EXCEPT ![i] = was.entry]
                                         ELSE was.table,
                  entry |-> {"TAKEN"} \cup (IF i # last - 1 THEN {"NEXT"} ELSE {})]
  IN  loop[n].table

\* heap_mark_blocks_free, from block b to the end of the table.
FreeLoop(e, b) ==
  LET loop[i \in b .. Total] ==
        IF i = b THEN [table |-> e, broke |-> FALSE]
        ELSE LET was == loop[i - 1] IN
             IF was.broke THEN was
             ELSE [table |-> [was.table EXCEPT ![i - 1] = {}],
                   broke |-> "NEXT" \notin was.table[i - 1]]
  IN  loop[Total].table

\* What the three loops compute is what Heap says: where a request of any
\* number of blocks is placed, how it is marked, and what a free of any block
\* clears (heap.c:72-161).
LoopsAgree ==
  /\ \A n \in 0 .. Total + 2 :
       LET start == StartLoop(entries, n) IN
       /\ {s \in Blocks : StartBlock(entries, n, s)} = {start} \ {NoBlock}
       /\ start # NoBlock => TakenLoop(entries, start, n) = MarkTaken(entries, start, n)
  /\ \A b \in Blocks : FreeLoop(entries, b) = MarkFree(entries, b)

=============================================================================
