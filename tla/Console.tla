------------------------------- MODULE Console -------------------------------
(***************************************************************************)
(* The shell at work: programs/shell and the part of programs/stdlib it    *)
(* uses (readline, the parser of a command, strtok), on the terminal and   *)
(* beside another program that prints, each in its turns at the processor. *)
(*                                                                         *)
(* An action of the shell is a command of the kernel with the user code    *)
(* that follows it up to the next one.  What that code touches is the      *)
(* shell's own, so a tick within it could as well come before or after it; *)
(* only eax, which holds the key, is at stake between two actions.         *)
(*                                                                         *)
(* The keyboard is taken at its promise (KeyQueue): getkey gives a key     *)
(* that was typed, or none.  The kernel of this commit starts two programs *)
(* blank and no shell; a state here is one after a shell was started.      *)
(***************************************************************************)
EXTENDS Terminal, Context, Stdio

CONSTANTS
  Shell, Other,
  Letters, Enter, Mark,   \* Mark is what the prompt shows
  Nul, Failed, NoPointer,
  BufSize,                \* the size of the shell's buffer
  ArgumentSize,           \* the size of command_argument.argument
  MaxAllocs,              \* MARROWOS_MAX_PROGRAM_ALLOCATION
  MaxKeys, MaxPrints      \* bounds: the keys typed, the things others print

ASSUME ConsoleConstants ==
  /\ Tasks = {Shell, Other} /\ Shell # Other
  /\ BufSize \in Nat /\ BufSize > 1 /\ ArgumentSize \in Nat \ {0} /\ MaxAllocs \in Nat
  /\ MaxKeys \in Nat /\ MaxPrints \in Nat
  /\ Zero = Nul
  /\ Nul \notin Letters \cup {Blank, Enter, Backspace}
  /\ Letters \cap {Enter, Backspace, NewLine} = {}
  /\ Enter \notin {Blank, Backspace, NewLine}
  /\ Mark \notin {Backspace, NewLine}
  /\ NoPointer \notin 0 .. BufSize

VARIABLES
  live,          \* the programs that are running
  pc,            \* what the shell does next
  out, i,        \* readline: the buffer and the index
  scommand, sp,  \* the parser's copy of the line, and the place strtok keeps
  root,          \* the list of words
  held,          \* how many blocks malloc has given the shell
  key,           \* ghost: the key that getkey gave, until it is used
  given,         \* ghost: the list that was given to the kernel last
  stale,         \* ghost: strtok kept a place when the last parser ended
  origin,        \* ghost: where on the screen the line begins
  disturbed,     \* ghost: something else than this line was shown since
  typed, prints  \* how many keys were typed, and things printed by the other

reading == <<out, i>>
parsing == <<scommand, sp, root, held>>
ghosts == <<key, given, stale, origin, disturbed>>
vars == <<terminal, context, live, pc, reading, parsing, ghosts, typed, prints>>

Characters == Letters \cup {Blank}
Keys == Characters \cup {Enter, Backspace}

Row(text) == terminal' = Printed(text)

\* The cursor is where a backspace in the first column leaves it.
Adrift(t) == t.col = ColMod - 1

------------------------------------------------------------------------------
(* readline.                                                                 *)

\* print("> ").
Prompt ==
  /\ running = Shell /\ pc = "prompt" /\ pc' = "read"
  /\ Row(<<Mark, Blank>>) /\ CommandReturns(Zero)
  /\ out' = [k \in 0 .. BufSize - 1 |-> Nul] /\ i' = 0
  /\ origin' = At(terminal')
  /\ disturbed' = Adrift(terminal')
  /\ UNCHANGED <<live, parsing, key, given, stale, typed, prints>>

\* One call of getkey.
GetKey ==
  /\ running = Shell /\ pc = "read" /\ pc' = "key"
  /\ \/ /\ typed < MaxKeys /\ typed' = typed + 1
        /\ \E k \in Keys : CommandReturns(k) /\ key' = k
     \/ CommandReturns(Zero) /\ UNCHANGED <<typed, key>>
  /\ UNCHANGED <<terminal, live, reading, parsing, given, stale, origin, disturbed, prints>>

NoKeyYet ==
  /\ running = Shell /\ pc = "key" /\ eax = Zero
  /\ pc' = "read"
  /\ UNCHANGED <<terminal, context, live, reading, parsing, ghosts, typed, prints>>

\* Carriage return means we have read the line.
EndLine ==
  /\ running = Shell /\ pc = "key" /\ eax = Enter
  /\ pc' = "line"
  /\ out' = [out EXCEPT ![i] = Nul] /\ key' = Zero
  /\ UNCHANGED <<terminal, context, live, i, parsing, given, stale, origin, disturbed,
                 typed, prints>>

\* The buffer and the index after the loop's body and its i++.
Edited(c) ==
  IF c = Backspace /\ i >= 1 THEN <<[out EXCEPT ![i - 1] = Nul], i - 1>>
                               ELSE <<[out EXCEPT ![i] = c], i + 1>>

\* A key is shown, backspace too when there is nothing to erase, and stored.
TakeKey ==
  /\ running = Shell /\ pc = "key" /\ eax \notin {Zero, Enter}
  /\ Row(<<eax>>) /\ CommandReturns(Zero)
  /\ LET full == Edited(eax)[2] = BufSize - 1 IN
       /\ i' = Edited(eax)[2]
       /\ out' = IF full THEN [Edited(eax)[1] EXCEPT ![BufSize - 1] = Nul] ELSE Edited(eax)[1]
       /\ pc' = IF full THEN "line" ELSE "read"
  /\ key' = Zero
  /\ disturbed' = \/ disturbed \/ terminal'.past # {}
                  \/ eax = Backspace /\ 0 \in {i, terminal.col}
  /\ UNCHANGED <<live, parsing, given, stale, origin, typed, prints>>

------------------------------------------------------------------------------
(* system_run.                                                               *)

\* print("\n"), and the two copies of the line.  strtok takes the string only
\* when it keeps no place.
RunLine ==
  /\ running = Shell /\ pc = "line" /\ pc' = "parse"
  /\ Row(<<NewLine>>) /\ CommandReturns(Zero)
  /\ scommand' = [k \in DOMAIN scommand |-> IF k <= i THEN out[k] ELSE scommand[k]]
  /\ sp' = IF sp = NoPointer THEN 0 ELSE sp
  /\ root' = <<>>
  /\ UNCHANGED <<live, reading, held, ghosts, typed, prints>>

First(place, within) ==
  CHOOSE k \in place .. BufSize - 1 : scommand[k] \in within /\ \A j \in place .. k - 1 : scommand[j] \notin within

\* Where the next token begins, and where it ends.
TokenStart == First(sp, (Keys \cup {Nul}) \ {Blank})
TokenEnd == First(TokenStart, {Nul, Blank})

\* Wrong: the place kept is behind the terminator.
WrongPlaceAfter(e) == e + 1

PlaceAfter(e) == IF scommand[e] = Nul THEN e ELSE e + 1

\* How much of n characters strncpy copies to an argument: there must be room for
\* the terminator.
Copied(n) == IF n < ArgumentSize THEN n ELSE ArgumentSize - 1

\* The token, as it is kept in the list.
Token == [k \in 1 .. Copied(TokenEnd - TokenStart) |-> scommand[TokenStart + k - 1]]

\* strtok finds no more, and forgets its place.
NoMoreTokens ==
  /\ running = Shell /\ pc = "parse" /\ scommand[TokenStart] = Nul
  /\ sp' = NoPointer
  /\ pc' = "parsed"
  /\ UNCHANGED <<terminal, context, live, reading, scommand, root, held, ghosts, typed, prints>>

\* A token is found and malloc gives memory for it, or gives none and the rest
\* of the line is left.
NextToken ==
  /\ running = Shell /\ pc = "parse" /\ scommand[TokenStart] # Nul
  /\ scommand' = [scommand EXCEPT ![TokenEnd] = Nul]
  /\ sp' = PlaceAfter(TokenEnd)
  /\ CommandReturns(Zero)
  /\ \/ /\ held < MaxAllocs /\ held' = held + 1
        /\ root' = Append(root, Token)
        /\ UNCHANGED pc
     \/ pc' = "parsed" /\ UNCHANGED <<root, held>>
  /\ UNCHANGED <<terminal, live, reading, ghosts, typed, prints>>

Parsed ==
  /\ running = Shell /\ pc = "parsed" /\ pc' = "done"
  /\ given' = root
  /\ stale' = (sp # NoPointer)
  /\ UNCHANGED <<terminal, reading, parsing, key, origin, disturbed, typed, prints>>

\* There is no word, or no memory for the first.
GiveUp == Parsed /\ root = <<>> /\ UNCHANGED <<context, live>>

\* Command 7: the program is started, or cannot be loaded, or is loaded and the
\* arguments cannot be injected.
System ==
  /\ Parsed /\ root # <<>>
  /\ \/ Other \notin live /\ live' = Tasks /\ CommandStarts(Other)
     \/ UNCHANGED live /\ CommandReturns(Failed)
     \/ Other \notin live /\ live' = Tasks /\ TaskAdded(Other, Failed)

CommandDone ==
  /\ running = Shell /\ pc = "done" /\ pc' = "prompt"
  /\ Row(<<NewLine>>) /\ CommandReturns(Zero)
  /\ UNCHANGED <<live, reading, parsing, ghosts, typed, prints>>

ShellStep ==
  \/ Prompt \/ GetKey \/ NoKeyYet \/ EndLine \/ TakeKey
  \/ RunLine \/ NoMoreTokens \/ NextToken \/ GiveUp \/ System \/ CommandDone

------------------------------------------------------------------------------
(* The other program, and the interrupts.                                    *)

Shows(text) ==
  /\ prints < MaxPrints /\ prints' = prints + 1
  /\ Row(text) /\ disturbed' = TRUE
  /\ UNCHANGED <<live, pc, reading, parsing, key, given, stale, origin, typed>>

\* Commands 1 and 3.
OtherPrints ==
  /\ running = Other
  /\ \E c \in Letters \cup {NewLine} : Shows(<<c>>)
  /\ CommandReturns(Zero)

\* Vector 0 has an entry of its own that saves nothing: a message is printed and
\* the instruction is tried again with what that left in the registers (Failed
\* stands for it).
DivideByZero ==
  /\ running = Other
  /\ Shows(<<Mark, NewLine>>)
  /\ eax' = Failed /\ UNCHANGED <<running, registers>>

\* Command 9, and every other exception.
OtherEnds ==
  /\ running = Other
  /\ live' = {Shell} /\ TaskNext(Shell, registers)
  /\ UNCHANGED <<terminal, pc, reading, parsing, ghosts, typed, prints>>

\* A key is pressed, and the interrupt goes back where it came from.
KeyInterrupt ==
  /\ registers' = Saved(eax)
  /\ UNCHANGED <<terminal, running, eax, live, pc, reading, parsing, ghosts, typed, prints>>

\* The next of the two in the round.
After(t) == IF Other \in live /\ t = Shell THEN Other ELSE Shell

Tick ==
  /\ Clock(After(running))
  /\ UNCHANGED <<terminal, live, pc, reading, parsing, ghosts, typed, prints>>

Init ==
  /\ TerminalInit /\ ContextInit(Shell)
  /\ live = Tasks
  /\ pc = "prompt"
  /\ out = [k \in 0 .. BufSize - 1 |-> Nul] /\ i = 0
  /\ scommand = [k \in 0 .. BufSize - 1 |-> Nul] /\ sp = NoPointer
  /\ root = <<>> /\ held = 0
  /\ key = Zero /\ given = <<>> /\ stale = FALSE
  /\ origin = 0 /\ disturbed = FALSE
  /\ typed = 0 /\ prints = 0

Next ==
  \/ ShellStep
  \/ OtherPrints \/ DivideByZero \/ OtherEnds
  \/ KeyInterrupt \/ Tick

Spec == Init /\ [][Next]_vars

------------------------------------------------------------------------------
(* Properties.                                                               *)

\* The index of readline stays in the buffer and the place strtok keeps in the
\* copy of the line, which is terminated behind it: no loop of the parser runs
\* out of the copy; and a word fits in its argument with a terminator
\* (marrowos.c:4-85, string.c:104-178).
TypeOK ==
  /\ i \in 0 .. BufSize - 1 /\ out \in [0 .. BufSize - 1 -> Characters \cup {Backspace, Nul}]
  /\ \A k \in 0 .. i - 1 : out[k] # Nul
  /\ scommand \in [0 .. BufSize - 1 -> Characters \cup {Backspace, Nul}]
  /\ sp \in 0 .. BufSize - 1 \cup {NoPointer}
  /\ sp # NoPointer => \E k \in sp .. BufSize - 1 : scommand[k] = Nul
  /\ eax \in Keys \cup {Zero, Failed, CommandNumber}
  /\ Len(root) <= held /\ held <= MaxAllocs
  /\ \A n \in DOMAIN root : Len(root[n]) < ArgumentSize

\* What the shell shows of the line is the line, with the cursor behind it,
\* unless somebody else printed, the screen ended, or a backspace came with
\* nothing to erase or in the first column (kernel.c:40-78, marrowos.c:57-85).
EchoMatchesLine ==
  pc = "read" /\ ~disturbed =>
    /\ At(terminal) = origin + i
    /\ \A k \in 0 .. i - 1 : terminal.video_mem[origin + k] = out[k]

\* Nothing is stored behind the screen before the cursor has used up its rows,
\* unless a backspace in the first column has set it adrift (kernel.c:40-78).
StaysOnScreen ==
  [][Adrift(terminal) \/ Adrift(terminal') \/
       \A row \in terminal'.past : row >= VGA_HEIGHT]_terminal

\* printf shows each piece of its format in turn, each number by its numeral, the
\* least one included; it runs past the end of its format when that ends within a
\* directive, and only then; and no numeral is longer than its buffer: for 32 bits
\* they have 11 digits, or 10 and a sign, for 64 bits 22 (stdio.c:12-197,
\* stdlib.c:4-30).  It is about no variable, and claimed of the initial state.
PrintfShowsItsArguments == Init => PrintfIsRight

CommandLines == INSTANCE CommandLine
                  WITH line    <- IF pc \in {"prompt", "done"} THEN <<>>
                                  ELSE [k \in 1 .. i |-> out[k - 1]],
                       ended   <- pc \in {"line", "parse", "parsed"},
                       dirty   <- stale,
                       NoKey   <- Zero,
                       Longest <- BufSize - 1,
                       LongestWord <- ArgumentSize - 1

\* Every key that getkey gave is taken once, whatever the ticks in between do to
\* the register it is in, and the words given to the kernel are those of the line
\* that was typed, each cut to what an argument holds, unless memory ran out in
\* this command or in the one before (marrowos.c:4-85, string.c:104-178,
\* idt.asm:76-102, task.c:105-138).
ImplementsCommandLine == CommandLines!Spec

=============================================================================
