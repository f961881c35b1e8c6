------------------------------- MODULE Context -------------------------------
(***************************************************************************)
(* How tasks take turns at the processor: the entries of idt.asm and       *)
(* idt.c, the registers task.c saves, and task_return of task.asm.         *)
(*                                                                         *)
(* eax stands for the registers.  It is the one that a command changes;    *)
(* the others are saved and given back with it.  An entry saves the        *)
(* registers in the task, and either goes back to the task, or gives the   *)
(* processor to another with the registers saved in that one.              *)
(***************************************************************************)
EXTENDS Integers

CONSTANTS
  Tasks,
  Zero,            \* the value a register of a new task has
  CommandNumber    \* the value of eax with which a command is called

VARIABLES
  running,         \* current_task
  eax,             \* the processor's, in user mode
  registers        \* task->registers, of every task

context == <<running, eax, registers>>

\* Wrong: the task is left without its registers saved.
WrongSaved(v) == registers

\* task_current_save_state, when eax holds v.
Saved(v) == [registers EXCEPT ![running] = v]

\* A command that goes back to its caller with a result.
CommandReturns(result) ==
  /\ registers' = Saved(CommandNumber)
  /\ eax' = result
  /\ UNCHANGED running

\* A command that starts task t and does not come back: when the caller has its
\* next turn, eax is what it was at the call.
CommandStarts(t) ==
  /\ registers' = [Saved(CommandNumber) EXCEPT ![t] = Zero]
  /\ running' = t
  /\ eax' = Zero

\* task_next, when the caller has saved the registers, or has ended.
TaskNext(t, saved) ==
  /\ registers' = saved
  /\ running' = t
  /\ eax' = saved[t]

\* The clock.
Clock(t) == TaskNext(t, Saved(eax))

\* A new task that waits for its turn.
TaskAdded(t, result) ==
  /\ registers' = [Saved(CommandNumber) EXCEPT ![t] = Zero]
  /\ eax' = result
  /\ UNCHANGED running

ContextInit(t) ==
  /\ running = t
  /\ eax = Zero
  /\ registers = [u \in Tasks |-> Zero]

=============================================================================
