------------------------------ MODULE Keyboard ------------------------------
(***************************************************************************)
(* The keyboard: the ring of keys of each process                          *)
(* (src/src/keyboard/keyboard.c), the driver that fills it (classic.c) and *)
(* the getkey command that empties it (isr80h/io.c).                       *)
(*                                                                         *)
(* A key goes to the ring of process_current(), the process in the         *)
(* foreground; getkey reads the ring of the process whose task runs.       *)
(* There is no count: a slot that is zero is empty, and a push never looks *)
(* whether the slot it writes is.                                          *)
(*                                                                         *)
(* Every action is a handler that runs with interrupts off.  A key is a    *)
(* letter in one of two cases; the other keys of the table behave like a   *)
(* letter without case, or give nothing.                                   *)
(***************************************************************************)
EXTENDS Integers, Sequences

CONSTANTS
  Processes,
  W,            \* MARROWOS_KEYBOARD_BUFFER_SIZE
  Letters,      \* the keys that give a character
  MaxTyped,     \* bound: the keys typed for one process
  Zero,         \* the character 0
  Idle          \* nothing was returned in the last step

ASSUME KeyboardConstants ==
  /\ W \in Nat \ {0} /\ MaxTyped \in Nat
  /\ Zero \notin [letter : Letters, upper : BOOLEAN]

VARIABLES
  buffer, head, tail,    \* process->keyboard, for every process
  capslock,              \* classic_keyboard.capslock_state is on
  foreground,            \* process_current()
  running,               \* task_current()->process
  got,                   \* what the last getkey returned; Idle otherwise
  overrun                \* ghost: the processes whose ring was overrun

ring == <<buffer, head, tail>>
vars == <<ring, capslock, foreground, running, got, overrun>>

\* classic_keyboard_scancode_to_char, for a code of the table that stands for a
\* letter; what a code gives otherwise is in Press and in PressPastTable.
Char(letter) == [letter |-> letter, upper |-> capslock]

Chars == [letter : Letters, upper : BOOLEAN]

------------------------------------------------------------------------------
(* keyboard.c.                                                               *)

Slot(position) == position % W

Push(p, c) ==
  /\ tail[p] < MaxTyped
  /\ buffer' = [buffer EXCEPT ![p][Slot(tail[p])] = c]
  /\ tail' = [tail EXCEPT ![p] = @ + 1]
  /\ overrun' = IF tail[p] - head[p] >= W THEN overrun \cup {p} ELSE overrun
  /\ UNCHANGED head

\* The head moves on although there was nothing to take.
WrongPopAlways(p) ==
  /\ got' = buffer[p][Slot(head[p])]
  /\ buffer' = [buffer EXCEPT ![p][Slot(head[p])] = Zero]
  /\ head' = [head EXCEPT ![p] = @ + 1]
  /\ UNCHANGED tail

\* The key taken stays in its slot.
WrongPopLeaves(p) ==
  LET c == buffer[p][Slot(head[p])] IN
  /\ got' = c
  /\ head' = IF c = Zero THEN head ELSE [head EXCEPT ![p] = @ + 1]
  /\ UNCHANGED <<buffer, tail>>

Pop(p) ==
  LET i == Slot(head[p])
      c == buffer[p][i]
  IN
  /\ got' = c
  /\ IF c = Zero
     THEN UNCHANGED ring
     ELSE /\ buffer' = [buffer EXCEPT ![p][i] = Zero]
          /\ head' = [head EXCEPT ![p] = @ + 1]
          /\ UNCHANGED tail

------------------------------------------------------------------------------
(* The driver and the command.                                               *)

\* A key that gives a character.
Press(letter) ==
  /\ Push(foreground, Char(letter))
  /\ got' = Idle
  /\ UNCHANGED <<capslock, foreground, running>>

\* The one scan code past the end of the table (classic.c:48 lets the length
\* through): what is read there is any byte.
PressPastTable ==
  /\ \/ \E c \in Chars : Push(foreground, c)
     \/ UNCHANGED <<ring, overrun>>
  /\ got' = Idle
  /\ UNCHANGED <<capslock, foreground, running>>

\* Caps lock toggles on every press and gives no character.
PressCapsLock ==
  /\ capslock' = ~capslock
  /\ got' = Idle
  /\ UNCHANGED <<ring, foreground, running, overrun>>

\* getkey, from the running process.
GetKey ==
  /\ Pop(running)
  /\ UNCHANGED <<capslock, foreground, running, overrun>>

------------------------------------------------------------------------------
(* What the rest of the kernel does to the processes.                        *)

\* process_switch: a program is started, or the foreground process ends.
Focus(p) ==
  /\ foreground' = p
  /\ got' = Idle
  /\ UNCHANGED <<ring, capslock, running, overrun>>

\* task_switch.
Switch(p) ==
  /\ running' = p
  /\ got' = Idle
  /\ UNCHANGED <<ring, capslock, foreground, overrun>>

\* Only the keys are cleared, not the two indices.
WrongRestart(p) ==
  /\ buffer' = [buffer EXCEPT ![p] = [i \in 0 .. W - 1 |-> Zero]]
  /\ got' = Idle
  /\ overrun' = overrun \ {p}
  /\ UNCHANGED <<head, tail, capslock, foreground, running>>

\* The process ends and another is started in its place: process_init clears
\* the ring.
Restart(p) ==
  /\ buffer' = [buffer EXCEPT ![p] = [i \in 0 .. W - 1 |-> Zero]]
  /\ head' = [head EXCEPT ![p] = 0]
  /\ tail' = [tail EXCEPT ![p] = 0]
  /\ overrun' = overrun \ {p}
  /\ got' = Idle
  /\ UNCHANGED <<capslock, foreground, running>>

Init ==
  /\ buffer = [p \in Processes |-> [i \in 0 .. W - 1 |-> Zero]]
  /\ head = [p \in Processes |-> 0]
  /\ tail = [p \in Processes |-> 0]
  /\ capslock = FALSE
  /\ foreground \in Processes /\ running \in Processes
  /\ got = Idle
  /\ overrun = {}

Next ==
  \/ \E letter \in Letters : Press(letter)
  \/ PressPastTable
  \/ PressCapsLock
  \/ GetKey
  \/ \E p \in Processes : Focus(p) \/ Switch(p) \/ Restart(p)

Spec == Init /\ [][Next]_vars

------------------------------------------------------------------------------
(* Properties.                                                               *)

\* The variables have the types of keyboard.h and process.h.
TypeOK ==
  /\ buffer \in [Processes -> [0 .. W - 1 -> Chars \cup {Zero}]]
  /\ head \in [Processes -> 0 .. MaxTyped] /\ tail \in [Processes -> 0 .. MaxTyped]
  /\ capslock \in BOOLEAN
  /\ foreground \in Processes /\ running \in Processes
  /\ got \in Chars \cup {Zero, Idle}
  /\ overrun \subseteq Processes

\* However the ring was overrun before, head never passes tail, and a key that
\* is waiting is overwritten only when W keys came after the one head is at
\* (keyboard.c:75-77 and 95-96).
LosesOnlyWhenFull ==
  \A p \in Processes :
    /\ head[p] <= tail[p]
    /\ buffer[p][Slot(tail[p])] # Zero => tail[p] - head[p] >= W

\* The keys of a ring in the order head will meet them.
Waiting(p) ==
  IF p \in overrun THEN <<>>
  ELSE [i \in 1 .. tail[p] - head[p] |-> buffer[p][Slot(head[p] + i - 1)]]

KeyQueues == INSTANCE KeyQueue
               WITH queue       <- [p \in Processes |-> Waiting(p)],
                    garbled     <- overrun,
                    Capacity    <- W,
                    NothingRead <- Idle,
                    NoKey       <- Zero

\* Until its ring is overrun a process reads its own keys, all of them, once and
\* in the order they were typed, and reads zero only when there is none
\* (keyboard.c:62-98).
ImplementsKeyQueue == KeyQueues!Spec

=============================================================================
