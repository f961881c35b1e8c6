----------------------------- MODULE Scheduler ------------------------------
(***************************************************************************)
(* What a round-robin scheduler promises, with no list of pointers: the    *)
(* tasks stand in the order they came, the turn goes from each to the next *)
(* and from the last to the first, and only a task that is there has it.   *)
(*                                                                         *)
(* Who has the turn after a task ends is left open: any task that is left. *)
(***************************************************************************)
EXTENDS Integers, Sequences, SequencesExt

CONSTANTS Cells, NoTask

VARIABLES ready, turn, on

vars == <<ready, turn, on>>

Place(t) == CHOOSE k \in DOMAIN ready : ready[k] = t

\* The one behind t, and from the last the first.
Behind(t) == ready[(Place(t) % Len(ready)) + 1]

Start(t) ==
  /\ turn' \in {turn, t}
  /\ ~Contains(ready, t)
  /\ ready' = Append(ready, t)
  /\ UNCHANGED on

Begin ==
  /\ ~on /\ ready # <<>>
  /\ on' = TRUE
  /\ turn' = Head(ready)
  /\ UNCHANGED ready

Turn ==
  /\ on
  /\ turn' = Behind(turn)
  /\ UNCHANGED <<ready, on>>

End ==
  /\ on /\ Len(ready) > 1
  /\ ready' = RemoveAt(ready, Place(turn))
  /\ turn' \in ToSet(ready')
  /\ UNCHANGED on

Halt == on' = FALSE /\ UNCHANGED <<ready, turn>>

Init == ready = <<>> /\ turn = NoTask /\ on = FALSE

Next == Turn \/ Begin \/ Halt \/ End \/ \E t \in Cells : Start(t)

Spec == Init /\ [][Next]_vars

=============================================================================
