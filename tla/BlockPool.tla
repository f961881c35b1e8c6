----------------------------- MODULE BlockPool ------------------------------
(***************************************************************************)
(* What an allocator of contiguous blocks promises its clients, with no    *)
(* table, no flags and no policy: a set of extents that never overlap.     *)
(*                                                                         *)
(* A request is granted in full from any free run that is long enough.     *)
(* When there is none it is refused, or, and this is the weak point of the *)
(* promise, cut short by the end of the pool.                              *)
(***************************************************************************)
EXTENDS Integers

CONSTANTS Total, Requests      \* the blocks of the pool; the sizes asked for

VARIABLES
  pool,          \* the extents that are out
  outcome        \* what became of the last call, and the blocks it asked for

vars == <<pool, outcome>>

Blocks == 0 .. Total - 1

Covered(x) == x.at .. x.at + x.n - 1

Extents == {x \in [at : Blocks, n : 1 .. Total] : x.at + x.n <= Total}

Room(x) == x \in Extents /\ \A y \in pool : Covered(x) \cap Covered(y) = {}

Tells(what, n) == outcome' = [what |-> what, n |-> n]

RoomFor(n) == \E s \in Blocks : Room([at |-> s, n |-> n])

Grant(n) ==
  \E s \in Blocks :
    /\ Room([at |-> s, n |-> n])
    /\ pool' = pool \cup {[at |-> s, n |-> n]}
    /\ Tells("granted", n)

Shorten(n) ==
  \E s \in Blocks :
    /\ ~RoomFor(n)
    /\ Room([at |-> s, n |-> Total - s])
    /\ pool' = pool \cup {[at |-> s, n |-> Total - s]}
    /\ Tells("granted", n)

Refuse(n) ==
  /\ ~RoomFor(n)
  /\ Tells("refused", n)
  /\ UNCHANGED pool

Release(x) ==
  /\ pool' = pool \ {x}
  /\ Tells("released", 0)

Init == pool = {} /\ outcome = [what |-> "none", n |-> 0]

Next ==
  \/ \E n \in Requests : Grant(n) \/ Shorten(n) \/ Refuse(n)
  \/ \E x \in pool : Release(x)

Spec == Init /\ [][Next]_vars

=============================================================================
