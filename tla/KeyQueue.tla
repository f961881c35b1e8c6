------------------------------ MODULE KeyQueue ------------------------------
(***************************************************************************)
(* What a keyboard promises: a queue of Capacity keys for each process.    *)
(* Reading an empty queue gives no key.  A key typed when the queue is     *)
(* full garbles it: from then on a read may give anything, until the       *)
(* process ends.                                                           *)
(***************************************************************************)
EXTENDS Integers, Sequences

CONSTANTS Processes, Chars, Capacity, NoKey, NothingRead

VARIABLES queue, garbled, got

Type(p, c) ==
  /\ p \notin garbled /\ Len(queue[p]) < Capacity
  /\ queue' = [queue EXCEPT ![p] = Append(@, c)]
  /\ got' = NothingRead
  /\ UNCHANGED garbled

TypeIntoFull(p) ==
  /\ Len(queue[p]) = Capacity
  /\ queue' = [queue EXCEPT ![p] = <<>>]
  /\ garbled' = garbled \cup {p}
  /\ got' = NothingRead

Read(p) ==
  /\ p \notin garbled
  /\ IF queue[p] = <<>> THEN got' = NoKey /\ UNCHANGED queue
     ELSE /\ got' = Head(queue[p])
          /\ queue' = [queue EXCEPT ![p] = Tail(@)]
  /\ UNCHANGED garbled

ReadGarbled(p) ==
  /\ p \in garbled
  /\ got' \in Chars \cup {NoKey}
  /\ UNCHANGED <<queue, garbled>>

\* The process ends and another takes its place.
Forget(p) ==
  /\ queue' = [queue EXCEPT ![p] = <<>>]
  /\ garbled' = garbled \ {p}
  /\ got' = NothingRead

Rest == got' = NothingRead /\ UNCHANGED <<queue, garbled>>

Init ==
  /\ queue = [p \in Processes |-> <<>>]
  /\ garbled = {}
  /\ got = NothingRead

Next ==
  \/ \E p \in Processes :
       \/ TypeIntoFull(p) \/ Read(p) \/ ReadGarbled(p) \/ Forget(p)
       \/ \E c \in Chars : Type(p, c)
  \/ Rest

Spec == Init /\ [][Next]_<<queue, garbled, got>>

=============================================================================
