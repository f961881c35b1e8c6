------------------------------ MODULE Terminal ------------------------------
(***************************************************************************)
(* The terminal: the cursor and the video memory of src/src/kernel.c.      *)
(*                                                                         *)
(* The cursor is two words of 16 bits.  Nothing scrolls and nothing stops  *)
(* at the last row: a character is stored wherever the cursor says, also   *)
(* behind the screen, where this module only notes that it was.  Colours   *)
(* are left out.                                                           *)
(***************************************************************************)
EXTENDS Integers, Sequences

CONSTANTS
  VGA_WIDTH, VGA_HEIGHT,
  ColMod,                 \* 2^16: terminal_col is a uint16_t
  Blank, NewLine, Backspace

ASSUME TerminalConstants ==
  /\ VGA_WIDTH \in Nat \ {0} /\ VGA_HEIGHT \in Nat \ {0}
  /\ ColMod \in Nat /\ ColMod > VGA_WIDTH * VGA_HEIGHT
  /\ NewLine # Backspace /\ Blank \notin {NewLine, Backspace}

VARIABLE
  terminal  \* video_mem, terminal_row and terminal_col; past is a ghost: the
            \* rows from which the last thing printed was stored behind the screen

Cells == 0 .. VGA_WIDTH * VGA_HEIGHT - 1

At(t) == t.row * VGA_WIDTH + t.col

\* terminal_putchar at the cursor.
Stored(t, c) ==
  IF At(t) \in Cells THEN [t EXCEPT !.video_mem[At(t)] = c]
                     ELSE [t EXCEPT !.past = @ \cup {t.row}]

NextRow(t) == [t EXCEPT !.row = @ + 1, !.col = 0]

\* Wrong: the cursor stands behind the last column before it moves on.
WrongAdvanced(t) ==
  IF t.col + 1 > VGA_WIDTH THEN NextRow(t) ELSE [t EXCEPT !.col = (@ + 1) % ColMod]

\* terminal_col comes to the width by counting; the count wraps before it is
\* compared.
Advanced(t) ==
  LET col == (t.col + 1) % ColMod IN
  IF col >= VGA_WIDTH THEN NextRow(t) ELSE [t EXCEPT !.col = col]

StepLeft(t) == [t EXCEPT !.col = (@ - 1) % ColMod]

\* Wrong: the cursor stays behind the blank.
WrongErased(t) == Advanced(Stored(StepLeft(t), Blank))

\* terminal_backspace.  The blank it writes in the last column moves the cursor
\* to the next row, where the second step to the left takes it from 0 to 65535.
Erased(t) ==
  CASE t.row = 0 /\ t.col = 0 -> t
    [] t.row > 0 /\ t.col = 0 ->
         StepLeft(Advanced(Stored([t EXCEPT !.row = @ - 1, !.col = VGA_WIDTH - 1], Blank)))
    [] OTHER -> StepLeft(Advanced(Stored(StepLeft(t), Blank)))

\* terminal_writechar.
Written(t, c) ==
  CASE c = NewLine   -> NextRow(t)
    [] c = Backspace -> Erased(t)
    [] OTHER         -> Advanced(Stored(t, c))

\* print; putchar is print of one character.
Printed(text) ==
  LET shown[k \in 0 .. Len(text)] ==
        IF k = 0 THEN [terminal EXCEPT !.past = {}] ELSE Written(shown[k - 1], text[k])
  IN  shown[Len(text)]

\* terminal_initialize.
TerminalInit ==
  terminal = [video_mem |-> [x \in Cells |-> Blank], row |-> 0, col |-> 0, past |-> {}]

=============================================================================
