--------------------------- MODULE TaskRefinement ---------------------------
(***************************************************************************)
(* Until a stale prev has done harm, the list of task.c implements a       *)
(* round-robin scheduler.  The order of the tasks is read from the words   *)
(* task_head and next alone.                                               *)
(***************************************************************************)
EXTENDS Task, Sequences

\* One task more of the list, when there is one.
Further(seen) ==
  LET here == IF seen = <<>> THEN task_head ELSE next[seen[Len(seen)]]
  IN  IF here = Null THEN seen ELSE Append(seen, here)

\* The list, as a walk along next from the head sees it.
Chain ==
  LET walk[k \in 0 .. Cardinality(Cells)] ==
        IF k = 0 THEN <<>> ELSE Further(walk[k - 1])
  IN  walk[Cardinality(Cells)]

Scheduling == INSTANCE Scheduler
                WITH NoTask <- Null,
                     ready  <- Chain,
                     turn   <- current_task,
                     on     <- (phase = "run")

\* Loading, ticks and exits are the starts, turns and ends of a round-robin
\* scheduler: a new task stands last, a tick passes nobody over, an exit takes
\* out the task that ran and gives the turn to one that is left (task.c:27-121).
ImplementsScheduler ==
  Scheduling!Init /\ [][harmed' \/ Scheduling!Next]_(Scheduling!vars)

=============================================================================
