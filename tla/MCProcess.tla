------------------------------ MODULE MCProcess -----------------------------
(***************************************************************************)
(* Which free blocks kzalloc gives, for Process.cfg.  It matters to none   *)
(* of the properties: the lowest to a load, the highest for a path and to  *)
(* a process that asks for some, so that fewer states differ by the names  *)
(* of blocks alone.                                                        *)
(***************************************************************************)
EXTENDS Process

Lowest(free, i) == CHOOSE b \in free : Cardinality({a \in free : a < b}) = i - 1
Highest(free, i) == CHOOSE b \in free : Cardinality({a \in free : a > b}) = i - 1

HighestFirst(u, n) ==
  IF Cardinality(Blocks \ u) < n THEN {}
  ELSE {[i \in 1 .. n |-> Highest(Blocks \ u, i)]}

LowestFirst(u, n) ==
  IF Cardinality(Blocks \ u) < n THEN {}
  ELSE {[i \in 1 .. n |-> CASE i = 1 -> Lowest(Blocks \ u, 1)
                            [] i = 2 -> Highest(Blocks \ u, 1)
                            [] OTHER -> Lowest(Blocks \ u, i - 1)]}

=============================================================================
