-------------------------------- MODULE Task --------------------------------
(***************************************************************************)
(* The task list and the scheduler: src/src/task/task.c with its callers,  *)
(* the clock and exception handlers of idt.c and the commands of           *)
(* isr80h/process.c that start and end tasks.                              *)
(*                                                                         *)
(* A task is a structure in a cell of the kernel heap.  kfree does not     *)
(* scrub a cell, and a freed cell is given out again, so the words next    *)
(* and prev are kept for every cell, and a pointer may name a cell that    *)
(* holds no task, or another one.  When the processor is given to a cell   *)
(* that holds no task, or a null pointer is followed, what happens next    *)
(* depends on what the memory holds: the model stops, in phase "lost".     *)
(*                                                                         *)
(* All gates are interrupt gates: a handler runs to its end before the     *)
(* next interrupt, so each one is an atomic action.                        *)
(***************************************************************************)
EXTENDS Integers, FiniteSets

CONSTANTS Cells, Null

ASSUME CellsAssumption == IsFiniteSet(Cells) /\ Null \notin Cells

VARIABLES
  live,          \* the cells that hold a task (allocated and not yet freed)
  next, prev,    \* the words task->next and task->prev of every cell
  task_head, task_tail, current_task,
  phase,         \* "boot", "run", "panic" or "lost"
  older,         \* ghost: <<a, b>> when task a was created before task b
  harmed         \* ghost: a task was removed through a stale prev, with effect

list == <<next, prev, task_head, task_tail>>
vars == <<live, list, current_task, phase, older, harmed>>

Pointers == Cells \cup {Null}

------------------------------------------------------------------------------
(* task.c, on the words n and p, the head h and the tail l.  Operators named *)
(* Wrong... are variants a slip in the code would give; no definition uses   *)
(* them.  Each stands before the one it would replace, and a property must   *)
(* tell the two apart.                                                       *)

\* Wrong: no turning back to the head.
WrongGetNextNoHead(n, h, a) == n[a]

\* Wrong: always from the head.
WrongGetNextHead(n, h, a) == h

\* Wrong: one task is passed over.
WrongGetNextSkip(n, h, a) ==
  IF n[a] = Null THEN h ELSE IF n[n[a]] = Null THEN n[a] ELSE n[n[a]]

\* task_get_next, for a current task a that is not null.
GetNext(n, h, a) == IF n[a] = Null THEN h ELSE n[a]

\* The end of task_new.
AppendNext(n, h, l, c) ==
  IF h = Null THEN [n EXCEPT ![c] = Null]
              ELSE [[n EXCEPT ![c] = Null] EXCEPT ![l] = c]
AppendPrev(p, h, l, c) == [p EXCEPT ![c] = IF h = Null THEN Null ELSE l]
WrongAppendHead(h, c) == c
AppendHead(h, c) == IF h = Null THEN c ELSE h

\* Wrong: the task in front keeps its next; the head stays.
WrongRemoveNext(n, p, t) == n
WrongRemoveHead(n, p, h, t) == h

\* task_list_remove.  The prev of the task behind t is left as it was.
RemoveNext(n, p, t) == IF p[t] = Null THEN n ELSE [n EXCEPT ![p[t]] = n[t]]
RemoveHead(n, p, h, t) == IF t = h THEN RemoveNext(n, p, t)[t] ELSE h
\* Wrong: a tail that goes leaves none.
WrongRemoveTail(p, l, t) == IF t = l THEN Null ELSE l
RemoveTail(p, l, t) == IF t = l THEN p[t] ELSE l

\* Following prev does no harm when it is null, when it is the task in front,
\* or when t is at the head and what prev names is no task and does not become
\* the tail.
PrevIsSound(t) ==
  \/ prev[t] = Null
  \/ prev[t] \in live /\ next[prev[t]] = t
  \/ prev[t] \notin live /\ t = task_head /\ t # task_tail

\* task_switch and task_return: b runs next.
Run(b, alive) ==
  /\ current_task' = b
  /\ phase' = IF b \in alive THEN "run" ELSE IF b = Null THEN "panic" ELSE "lost"

Created(c) ==
  /\ live' = live \cup {c}
  /\ older' = older \cup (live \X {c})

Destroyed(t) ==
  /\ live' = live \ {t}
  /\ older' = {pair \in older : t \notin {pair[1], pair[2]}}

Enlist(c) ==
  /\ next' = AppendNext(next, task_head, task_tail, c)
  /\ prev' = AppendPrev(prev, task_head, task_tail, c)
  /\ task_head' = AppendHead(task_head, c)
  /\ task_tail' = c

------------------------------------------------------------------------------
(* kernel_main starts two tasks and runs the first.                          *)

BootLoad(c) ==
  /\ phase = "boot" /\ Cardinality(live) < 2
  /\ c \notin live
  /\ Created(c)
  /\ Enlist(c)
  /\ current_task' = IF task_head = Null THEN c ELSE current_task
  /\ UNCHANGED <<phase, harmed>>

BootFails ==
  /\ phase = "boot" /\ Cardinality(live) < 2
  /\ phase' = "panic"
  /\ UNCHANGED <<live, list, current_task, older, harmed>>

RunFirstEverTask ==
  /\ phase = "boot" /\ Cardinality(live) = 2
  /\ Run(task_head, live)
  /\ UNCHANGED <<live, list, older, harmed>>

------------------------------------------------------------------------------
(* The handlers, entered from the running task.                              *)

\* The clock: idt_clock calls task_next.
Tick ==
  /\ phase = "run"
  /\ Run(GetNext(next, task_head, current_task), live)
  /\ UNCHANGED <<live, list, older, harmed>>

\* Commands 6 and 7 load a program in a new task and return to that task.
Load(c) ==
  /\ phase = "run" /\ c \notin live
  /\ Created(c)
  /\ Enlist(c)
  /\ current_task' = c
  /\ UNCHANGED <<phase, harmed>>

\* Command 7 fails after the program was loaded, for want of memory for its
\* arguments: the new task stays, the caller goes on.
LoadWithoutSwitch(c) ==
  /\ phase = "run" /\ c \notin live
  /\ Created(c)
  /\ Enlist(c)
  /\ current_task' = IF task_head = Null THEN c ELSE current_task
  /\ UNCHANGED <<phase, harmed>>

\* Loading fails after task_new: process_free_process frees the new task.  It is
\* the tail, and no other task has run.
LoadFails(c) ==
  LET n == AppendNext(next, task_head, task_tail, c)
      p == AppendPrev(prev, task_head, task_tail, c)
  IN
  /\ phase = "run" /\ c \notin live
  /\ task_head # Null
  /\ next' = RemoveNext(n, p, c)
  /\ prev' = p
  /\ task_head' = RemoveHead(n, p, task_head, c)
  /\ task_tail' = RemoveTail(p, c, c)
  /\ UNCHANGED <<live, current_task, phase, older, harmed>>

\* exit or an exception: process_terminate, which moves current_task on when it
\* takes the task out of the list, and then task_next, which moves it again.
Exit ==
  LET t == current_task
      n == RemoveNext(next, prev, t)
      h == RemoveHead(next, prev, task_head, t)
      a == GetNext(n, h, t)
  IN
  /\ phase = "run" /\ live # {t}
  /\ Destroyed(t)
  /\ harmed' = (harmed \/ ~PrevIsSound(t))
  /\ next' = n
  /\ task_head' = h
  /\ task_tail' = RemoveTail(prev, task_tail, t)
  /\ UNCHANGED prev
  /\ IF a = Null THEN current_task' = Null /\ phase' = "lost"
                 ELSE Run(GetNext(n, h, a), live')

\* The last process ends: process_unlink finds no other and the kernel panics.
ExitLast ==
  /\ phase = "run" /\ live = {current_task}
  /\ phase' = "panic"
  /\ UNCHANGED <<live, list, current_task, older, harmed>>

Init ==
  /\ live = {}
  /\ next = [c \in Cells |-> Null]
  /\ prev = [c \in Cells |-> Null]
  /\ task_head = Null /\ task_tail = Null /\ current_task = Null
  /\ phase = "boot"
  /\ older = {}
  /\ harmed = FALSE

Next ==
  \/ \E c \in Cells : BootLoad(c) \/ Load(c) \/ LoadWithoutSwitch(c) \/ LoadFails(c)
  \/ BootFails \/ RunFirstEverTask
  \/ Tick
  \/ Exit \/ ExitLast

Spec == Init /\ [][Next]_vars

\* The timer keeps firing and tasks run with interrupts on.
FairSpec == Spec /\ WF_vars(Tick)

------------------------------------------------------------------------------
(* Properties.                                                               *)

\* The pointers hold cells or null, and the ghosts are what they should be.
Types ==
  /\ live \subseteq Cells
  /\ next \in [Cells -> Pointers] /\ prev \in [Cells -> Pointers]
  /\ {task_head, task_tail, current_task} \subseteq Pointers
  /\ phase \in {"boot", "run", "panic", "lost"}
  /\ older \subseteq live \X live
  /\ harmed \in BOOLEAN

\* The variables have their types, the first task stays current until it runs, and
\* the processor is at a live task from then on, whatever is loaded, fails to load or
\* ends (task.c:86-94 and 105-121, isr80h/process.c:27-28 and 60-61).
TypeOK ==
  /\ Types
  /\ phase = "boot" => current_task = task_head
  /\ phase = "run" => current_task \in live

\* b was created after a and before every other task created after a.
Follows(a, b) ==
  /\ <<a, b>> \in older
  /\ \A c \in live : ~ (<<a, c>> \in older /\ <<c, b>> \in older)

Oldest(a) == a \in live /\ \A b \in live \ {a} : <<a, b>> \in older
Youngest(a) == a \in live /\ \A b \in live \ {a} : <<b, a>> \in older

\* Until a stale prev has done harm, the list from task_head to task_tail holds
\* the live tasks, all of them, in the order they were created, whatever order
\* they ended in (task.c:37-56 and 83-94).
ListInOrder ==
  ~harmed =>
    /\ live = {} => task_head = Null /\ task_tail = Null
    /\ live # {} => Oldest(task_head) /\ Youngest(task_tail)
    /\ \A a \in live : IF next[a] = Null THEN Youngest(a) ELSE Follows(a, next[a])

\* Even after that task_new does not write through a null tail (task.c:92).
TailIsThere == task_tail = Null => task_head = Null

\* Until then the processor is given to live tasks only, whichever task ends
\* (task.c:105-121, idt.c:56-68).
RunsLiveTasks == ~harmed => phase # "lost"

\* Until then "No more tasks!" (task.c:108-111) is never reached: the kernel
\* panics at boot or when the last process ends, and not while a task is left.
PanicsOnlyAtTheEnd ==
  [][phase' = "panic" /\ phase = "run" /\ ~harmed' => live' \subseteq {current_task}]_vars

\* A scheduled task is the next in the order of creation, and after the
\* youngest the oldest: a tick passes nobody over (task.c:27-35, idt.c:62-68).
TicksInOrder ==
  [][Tick /\ ~harmed =>
       \/ Follows(current_task, current_task')
       \/ Youngest(current_task) /\ Oldest(current_task')]_vars

\* Once tasks no longer start or end, every live task runs again and again.
\* While they do this is not so: an exit passes the next task over (task.c:52-55
\* and isr80h/process.c:82-83).
Quiet == Tick \/ \E c \in Cells : LoadFails(c)

EveryTaskRuns ==
  \A t \in Cells :
    <>[](t \in live /\ phase = "run" /\ ~harmed) /\ <>[][Quiet]_vars => []<>(current_task = t)

\* task.h:40, "Previous task in the linked list": the prev of a task is a task
\* of the list, the one whose next it is.
PrevIsPrevious ==
  \A t \in live : prev[t] # Null => prev[t] \in live /\ next[prev[t]] = t

=============================================================================
