---------------------------- MODULE ConsoleProofs ---------------------------
(***************************************************************************)
(* Proofs about Console, for every size of the screen and of the shell's   *)
(* buffer, every set of letters and any number of keys; and about printf,  *)
(* for every number of every word of up to 64 bits.                        *)
(***************************************************************************)
EXTENDS Console, Loops, FiniteSetTheorems, SequenceTheorems

------------------------------------------------------------------------------
(* The inductive invariant.                                                  *)

Glyphs == Characters \cup {Mark}
Screen == [video_mem : [Cells -> Glyphs], row : Nat, col : 0 .. ColMod - 1, past : SUBSET Nat]

\* The cursor is on the screen's width, or adrift.
Placed(t) == t.col < VGA_WIDTH \/ Adrift(t)

Values == Keys \cup {Zero, Failed, CommandNumber}
Bytes == Characters \cup {Backspace, Nul}   \* what a byte of the buffers holds

\* What the shell finds in eax when it has the processor.
ShellEax == IF running = Shell THEN eax ELSE registers[Shell]

ScreenOK == terminal \in Screen /\ Placed(terminal)

RegistersOK ==
  /\ running \in Tasks /\ eax \in Values /\ registers \in [Tasks -> Values]
  /\ key \in Keys \cup {Zero}
  /\ IF pc = "key" THEN ShellEax = key ELSE key = Zero

LineOK ==
  /\ pc \in {"prompt", "read", "key", "line", "parse", "parsed", "done"}
  /\ i \in 0 .. BufSize - 1 /\ out \in [0 .. BufSize - 1 -> Bytes]
  /\ \A k \in 0 .. i - 1 : out[k] # Nul
  /\ pc \in {"read", "key"} => i < BufSize - 1
  /\ pc \in {"line", "parse", "parsed", "done"} => out[i] = Nul

\* What struct command_argument holds.
Arguments == {w \in Seq(Bytes) : Len(w) < ArgumentSize}

ParseOK ==
  /\ scommand \in [0 .. BufSize - 1 -> Bytes]
  /\ sp \in 0 .. BufSize - 1 \cup {NoPointer}
  /\ sp # NoPointer => \E k \in sp .. BufSize - 1 : scommand[k] = Nul
  /\ pc = "parse" => sp # NoPointer
  /\ root \in Seq(Arguments) /\ held \in Nat
  /\ Len(root) <= held /\ held <= MaxAllocs

\* The line on the screen, while it is typed.
EchoOK ==
  /\ disturbed \in BOOLEAN /\ origin \in Int
  /\ pc \in {"read", "key"} /\ ~disturbed =>
       /\ terminal.col < VGA_WIDTH
       /\ At(terminal) = origin + i
       /\ \A k \in 0 .. i - 1 : origin + k \in Cells /\ terminal.video_mem[origin + k] = out[k]

Line == [k \in 1 .. i |-> out[k - 1]]

\* The words that begin at p or before.
Begun(l, p) == {r \in CommandLines!Starts(l) : r <= p}

\* Unless an old place was taken up, the list is the words that begin before the
\* place, and the copy is the line from there on.
ParsingOK ==
  /\ stale \in BOOLEAN
  /\ pc \notin {"parse", "parsed"} => stale = (sp # NoPointer)
  /\ pc = "parse" /\ ~stale =>
       /\ sp <= i
       /\ sp \in {0, i} \/ out[sp - 1] = Blank
       /\ \A k \in sp .. i : scommand[k] = out[k]
       /\ Len(root) = Cardinality(Begun(Line, sp))
       /\ \A n \in 1 .. Len(root) : root[n] = CommandLines!Words(Line)[n]
  /\ pc = "parsed" /\ ~stale =>
       IF sp = NoPointer
         THEN root = CommandLines!Words(Line)
         ELSE \E n \in 0 .. Len(CommandLines!Words(Line)) - 1 :
                root = SubSeq(CommandLines!Words(Line), 1, n)

IInv == ScreenOK /\ RegistersOK /\ LineOK /\ ParseOK /\ EchoOK /\ ParsingOK

------------------------------------------------------------------------------
(* print.                                                                    *)

Fresh == [terminal EXCEPT !.past = {}]

\* print shows one character after the other (kernel.c:80-89).
LEMMA PrintedTurns ==
  ASSUME NEW text, Len(text) \in Nat
  PROVE  \E L : /\ Printed(text) = L[Len(text)] /\ L[0] = Fresh
                /\ \A k \in 1 .. Len(text) : L[k] = Written(L[k - 1], text[k])
<1> DEFINE Body(f, n) == [k \in 0 .. n |-> IF k = 0 THEN Fresh ELSE Written(f[k - 1], text[k])]
           S == {n \in Nat : \E f : f = Body(f, n)}
           L == CHOOSE f : f = Body(f, Len(text))
<1>1. 0 \in S
  <2> DEFINE f == [k \in 0 .. 0 |-> Fresh]
  <2>1. f = Body(f, 0)
    OBVIOUS
  <2>2. QED
    BY <2>1
<1>2. ASSUME NEW n \in Nat, n \in S PROVE n + 1 \in S
  <2>1. PICK f : f = Body(f, n)
    BY <1>2
  <2> DEFINE last == Written(f[n], text[n + 1])
             g == [k \in 0 .. n + 1 |-> IF k = n + 1 THEN last ELSE f[k]]
  <2>2. ASSUME NEW k \in 0 .. n + 1
        PROVE  g[k] = IF k = 0 THEN Fresh ELSE Written(g[k - 1], text[k])
    <3>1. CASE k = n + 1
      <4>1. g[k] = last /\ g[k - 1] = f[n] /\ k # 0
        BY <3>1
      <4>2. QED
        BY <3>1, <4>1
    <3>2. CASE k # n + 1
      <4>1. k \in 0 .. n
        BY <3>2
      <4>2. g[k] = f[k] /\ (k # 0 => g[k - 1] = f[k - 1])
        BY <3>2, <4>1
      <4>3. f[k] = Body(f, n)[k]
        BY <2>1
      <4>4. Body(f, n)[k] = IF k = 0 THEN Fresh ELSE Written(f[k - 1], text[k])
        BY <4>1
      <4>5. QED
        BY <4>2, <4>3, <4>4
    <3>3. QED
      BY <3>1, <3>2
  <2>3. g = Body(g, n + 1)
    <3>1. g = [k \in 0 .. n + 1 |-> g[k]]
      OBVIOUS
    <3> HIDE DEF g
    <3>2. QED
      BY <2>2, <3>1
  <2> HIDE DEF g
  <2>4. QED
    BY <2>3
<1> HIDE DEF S
<1>3. Nat \subseteq S
  BY <1>1, <1>2, Induct
<1>4. \E f : f = Body(f, Len(text))
  BY <1>3 DEF S
<1>5. L = Body(L, Len(text))
  BY <1>4
<1>6. Printed(text) = L[Len(text)]
  BY DEF Printed, Fresh
<1> HIDE DEF L
<1>7. \A k \in 0 .. Len(text) : L[k] = Body(L, Len(text))[k]
  BY <1>5
<1>8. \A k \in 0 .. Len(text) :
        Body(L, Len(text))[k] = IF k = 0 THEN Fresh ELSE Written(L[k - 1], text[k])
  OBVIOUS
<1>9. QED
  BY <1>6, <1>7, <1>8

LEMMA PrintedOne ==
  ASSUME NEW c
  PROVE  Printed(<<c>>) = Written(Fresh, c)
<1> DEFINE text == <<c>>
<1>1. Len(text) = 1 /\ text[1] = c
  OBVIOUS
<1> HIDE DEF text
<1>2. PICK L : /\ Printed(text) = L[Len(text)] /\ L[0] = Fresh
               /\ \A k \in 1 .. Len(text) : L[k] = Written(L[k - 1], text[k])
  BY <1>1, PrintedTurns
<1>3. 1 \in 1 .. Len(text) /\ 1 - 1 = 0
  BY <1>1
<1>4. L[1] = Written(L[0], text[1])
  BY <1>2, <1>3
<1>5. QED
  BY <1>1, <1>2, <1>4 DEF text

LEMMA PrintedTwo ==
  ASSUME NEW c, NEW d
  PROVE  Printed(<<c, d>>) = Written(Written(Fresh, c), d)
<1> DEFINE text == <<c, d>>
<1>1. Len(text) = 2 /\ text[1] = c /\ text[2] = d
  OBVIOUS
<1> HIDE DEF text
<1>2. PICK L : /\ Printed(text) = L[Len(text)] /\ L[0] = Fresh
               /\ \A k \in 1 .. Len(text) : L[k] = Written(L[k - 1], text[k])
  BY <1>1, PrintedTurns
<1>3. 1 \in 1 .. Len(text) /\ 1 - 1 = 0 /\ 2 \in 1 .. Len(text) /\ 2 - 1 = 1
  BY <1>1
<1>4. L[1] = Written(L[0], text[1]) /\ L[2] = Written(L[1], text[2])
  BY <1>2, <1>3
<1>5. QED
  BY <1>1, <1>2, <1>4 DEF text

------------------------------------------------------------------------------
(* The cursor.                                                               *)

\* Nothing behind the screen in rows that are on it.
Behind(t) == \A row \in t.past : row >= VGA_HEIGHT

LEMMA Sizes ==
  /\ VGA_WIDTH \in Nat \ {0} /\ VGA_HEIGHT \in Nat \ {0} /\ ColMod \in Nat
  /\ VGA_WIDTH < ColMod
<1>1. VGA_WIDTH \in Nat \ {0} /\ VGA_HEIGHT \in Nat \ {0} /\ ColMod \in Nat
      /\ ColMod > VGA_WIDTH * VGA_HEIGHT
  BY TerminalConstants
<1>2. VGA_WIDTH * VGA_HEIGHT >= VGA_WIDTH
  BY <1>1
<1>3. VGA_WIDTH * VGA_HEIGHT \in Nat
  BY <1>1
<1>4. QED
  BY <1>1, <1>2, <1>3

\* A place on the screen's width that is not on the screen is in a row behind it.
LEMMA RowBehind ==
  ASSUME NEW row \in Nat, NEW col \in Nat, col < VGA_WIDTH, row * VGA_WIDTH + col \notin Cells
  PROVE  row >= VGA_HEIGHT
<1> SUFFICES ASSUME row + 1 <= VGA_HEIGHT PROVE FALSE
  BY Sizes
<1> DEFINE W == VGA_WIDTH
           H == VGA_HEIGHT
           area == W * H
           start == row * W
<1>1. (row + 1) * W <= H * W
  BY Sizes
<1>2. (row + 1) * W = start + W /\ H * W = area
  BY Sizes
<1>3. start \in Nat /\ area \in Nat /\ W \in Nat
  BY Sizes
<1>4. start + col \notin 0 .. area - 1
  BY DEF Cells
<1> HIDE DEF start, area, W
<1>5. col < W
  BY DEF W
<1>6. start + W <= area
  BY <1>1, <1>2
<1>7. QED
  BY <1>3, <1>4, <1>5, <1>6

\* What is stored leaves the cursor where it is (kernel.c:32-38).
LEMMA StoredAt ==
  ASSUME NEW t \in Screen, NEW c \in Glyphs
  PROVE  LET s == Stored(t, c) IN
         /\ s \in Screen /\ s.row = t.row /\ s.col = t.col
         /\ At(t) \in Cells => s.past = t.past /\ s.video_mem = [t.video_mem EXCEPT ![At(t)] = c]
         /\ At(t) \notin Cells => s.past = t.past \cup {t.row} /\ s.video_mem = t.video_mem
BY DEF Stored, Screen

LEMMA NextRowTo ==
  ASSUME NEW t \in Screen
  PROVE  LET s == NextRow(t) IN
         /\ s \in Screen /\ s.video_mem = t.video_mem /\ s.past = t.past
         /\ s.row = t.row + 1 /\ s.col = 0
<1> DEFINE r == t.row + 1
           u == [t EXCEPT !.row = r]
           s == [u EXCEPT !.col = 0]
<1>1. r \in Nat
  BY DEF Screen
<1>2. u \in Screen /\ u.video_mem = t.video_mem /\ u.past = t.past /\ u.row = r
  BY <1>1 DEF Screen
<1>3. NextRow(t) = s
  BY DEF NextRow
<1> HIDE DEF u
<1>4. s \in Screen /\ s.video_mem = u.video_mem /\ s.past = u.past /\ s.row = u.row /\ s.col = 0
  BY <1>2, Sizes DEF Screen
<1> HIDE DEF s
<1>5. QED
  BY <1>2, <1>3, <1>4

\* The cursor moves on (kernel.c:66-77).
LEMMA AdvancedTo ==
  ASSUME NEW t \in Screen, Placed(t)
  PROVE  LET s == Advanced(t) IN
         /\ s \in Screen /\ s.video_mem = t.video_mem /\ s.past = t.past
         /\ s.col < VGA_WIDTH
         /\ t.col + 1 < VGA_WIDTH => s.row = t.row /\ s.col = t.col + 1
         /\ t.col + 1 = VGA_WIDTH => s.row = t.row + 1 /\ s.col = 0
<1>1. t.row \in Nat /\ t.col \in 0 .. ColMod - 1
  BY DEF Screen
<1>2. CASE Adrift(t)
  <2>1. (t.col + 1) % ColMod = 0
    BY <1>1, <1>2, Sizes DEF Adrift
  <2>2. Advanced(t) = [t EXCEPT !.col = 0] /\ ~ (t.col + 1 <= VGA_WIDTH)
    BY <1>1, <1>2, <2>1, Sizes DEF Advanced, Adrift
  <2>3. QED
    BY <1>1, <2>2, Sizes DEF Screen
<1>3. CASE t.col + 1 < VGA_WIDTH
  <2>1. (t.col + 1) % ColMod = t.col + 1
    BY <1>1, <1>3, Sizes
  <2>2. Advanced(t) = [t EXCEPT !.col = t.col + 1]
    BY <1>1, <1>3, <2>1, Sizes DEF Advanced
  <2>3. QED
    BY <1>1, <1>3, <2>2, Sizes DEF Screen
<1>4. CASE t.col + 1 = VGA_WIDTH
  <2>1. (t.col + 1) % ColMod = t.col + 1
    BY <1>1, <1>4, Sizes
  <2>2. Advanced(t) = NextRow(t)
    BY <1>1, <1>4, <2>1, Sizes DEF Advanced
  <2>3. QED
    BY <1>1, <1>4, <2>2, NextRowTo, Sizes
<1>5. QED
  BY <1>1, <1>2, <1>3, <1>4, Sizes DEF Placed

LEMMA StepLeftTo ==
  ASSUME NEW t \in Screen, Placed(t)
  PROVE  LET s == StepLeft(t) IN
         /\ s \in Screen /\ s.video_mem = t.video_mem /\ s.past = t.past /\ s.row = t.row
         /\ t.col = 0 => Adrift(s)
         /\ t.col > 0 => s.col = t.col - 1
<1>1. t.row \in Nat /\ t.col \in 0 .. ColMod - 1
  BY DEF Screen
<1>2. CASE t.col = 0
  <2>1. (t.col - 1) % ColMod = ColMod - 1
    BY <1>2, Sizes
  <2>2. StepLeft(t) = [t EXCEPT !.col = ColMod - 1]
    BY <2>1 DEF StepLeft
  <2>3. QED
    BY <1>1, <1>2, <2>2, Sizes DEF Screen, Adrift
<1>3. CASE t.col > 0
  <2>1. (t.col - 1) % ColMod = t.col - 1
    BY <1>1, <1>3, Sizes
  <2>2. StepLeft(t) = [t EXCEPT !.col = t.col - 1]
    BY <2>1 DEF StepLeft
  <2>3. QED
    BY <1>1, <1>3, <2>2, Sizes DEF Screen
<1>4. QED
  BY <1>1, <1>2, <1>3

\* A backspace behind the first column erases the character in front, and the cursor
\* stands there (kernel.c:46-64).
LEMMA ErasedBehind ==
  ASSUME NEW t \in Screen, t.col > 0, t.col < VGA_WIDTH
  PROVE  LET s == Erased(t)
             there == At(t) - 1
         IN
         /\ s \in Screen /\ s.row = t.row /\ s.col = t.col - 1 /\ At(s) = there
         /\ there \in Cells => s.past = t.past /\ s.video_mem = [t.video_mem EXCEPT ![there] = Blank]
         /\ there \notin Cells => s.past = t.past \cup {t.row} /\ s.video_mem = t.video_mem
<1> DEFINE u == StepLeft(t)
           v == Stored(u, Blank)
           w == Advanced(v)
           s == StepLeft(w)
           there == At(t) - 1
<1>1. t.row \in Nat /\ t.col \in Nat
  BY Sizes DEF Screen
<1>2. Erased(t) = s
  BY <1>1 DEF Erased
<1>3. /\ u \in Screen /\ u.video_mem = t.video_mem /\ u.past = t.past /\ u.row = t.row
      /\ u.col = t.col - 1
  BY <1>1, StepLeftTo DEF Placed
<1>4. At(u) = there
  BY <1>1, <1>3, Sizes DEF At
<1> HIDE DEF u
<1>5. Blank \in Glyphs
  BY DEF Glyphs, Characters
<1>6. /\ v \in Screen /\ v.row = u.row /\ v.col = u.col
      /\ there \in Cells => v.past = u.past /\ v.video_mem = [u.video_mem EXCEPT ![there] = Blank]
      /\ there \notin Cells => v.past = u.past \cup {u.row} /\ v.video_mem = u.video_mem
  BY <1>3, <1>4, <1>5, StoredAt
<1> HIDE DEF v
<1>7. /\ w \in Screen /\ w.video_mem = v.video_mem /\ w.past = v.past
      /\ w.row = t.row /\ w.col = t.col
  <2>1. Placed(v) /\ v.col + 1 < VGA_WIDTH
    BY <1>1, <1>3, <1>6, Sizes DEF Placed
  <2>2. QED
    BY <1>1, <1>3, <1>6, <2>1, AdvancedTo
<1> HIDE DEF w
<1>8. /\ s \in Screen /\ s.video_mem = w.video_mem /\ s.past = w.past /\ s.row = t.row
      /\ s.col = t.col - 1
  BY <1>1, <1>7, StepLeftTo DEF Placed
<1>9. At(s) = there
  BY <1>1, <1>8, Sizes DEF At
<1> HIDE DEF s, there
<1>10. QED
  BY <1>2, <1>3, <1>6, <1>7, <1>8, <1>9 DEF there

\* What a character is shown as, and where the cursor is then (kernel.c:40-78).
LEMMA WrittenGlyph ==
  ASSUME NEW t \in Screen, t.col < VGA_WIDTH, NEW c \in Glyphs
  PROVE  LET s == Written(t, c) IN
         /\ s \in Screen /\ s.col < VGA_WIDTH /\ At(s) = At(t) + 1
         /\ At(t) \in Cells => s.past = t.past /\ s.video_mem = [t.video_mem EXCEPT ![At(t)] = c]
         /\ At(t) \notin Cells => s.past = t.past \cup {t.row} /\ s.video_mem = t.video_mem
<1> DEFINE v == Stored(t, c)
           s == Advanced(v)
<1>1. t.row \in Nat /\ t.col \in Nat
  BY Sizes DEF Screen
<1>2. Written(t, c) = s
  BY ConsoleConstants, TerminalConstants DEF Written, Glyphs, Characters
<1>3. /\ v \in Screen /\ v.row = t.row /\ v.col = t.col
      /\ At(t) \in Cells => v.past = t.past /\ v.video_mem = [t.video_mem EXCEPT ![At(t)] = c]
      /\ At(t) \notin Cells => v.past = t.past \cup {t.row} /\ v.video_mem = t.video_mem
  BY StoredAt
<1> HIDE DEF v
<1>4. /\ s \in Screen /\ s.video_mem = v.video_mem /\ s.past = v.past /\ s.col < VGA_WIDTH
      /\ t.col + 1 < VGA_WIDTH => s.row = t.row /\ s.col = t.col + 1
      /\ t.col + 1 = VGA_WIDTH => s.row = t.row + 1 /\ s.col = 0
  BY <1>3, AdvancedTo DEF Placed
<1> HIDE DEF s
<1>5. At(s) = At(t) + 1
  <2>1. CASE t.col + 1 < VGA_WIDTH
    BY <1>1, <1>4, <2>1, Sizes DEF At
  <2>2. CASE t.col + 1 = VGA_WIDTH
    <3>1. (t.row + 1) * VGA_WIDTH = t.row * VGA_WIDTH + VGA_WIDTH
      BY <1>1, Sizes
    <3>2. QED
      BY <1>1, <1>4, <2>2, <3>1, Sizes DEF At
  <2>3. QED
    BY <1>1, <2>1, <2>2, Sizes
<1>6. QED
  BY <1>2, <1>3, <1>4, <1>5

\* A backspace anywhere else leaves the cursor where it is, or adrift.
LEMMA ErasedElsewhere ==
  ASSUME NEW t \in Screen, Placed(t), t.col = 0 \/ Adrift(t)
  PROVE  Erased(t) = t \/ (Erased(t) \in Screen /\ Adrift(Erased(t)))
<1>1. t.row \in Nat /\ t.col \in 0 .. ColMod - 1 /\ Blank \in Glyphs
  BY Sizes DEF Screen, Glyphs, Characters
<1>2. CASE t.row = 0 /\ t.col = 0
  BY <1>2 DEF Erased
<1>3. CASE t.row > 0 /\ t.col = 0
  <2> DEFINE r == t.row - 1
             a == [t EXCEPT !.row = r]
             u == [a EXCEPT !.col = VGA_WIDTH - 1]
             v == Stored(u, Blank)
             w == Advanced(v)
  <2>1. Erased(t) = StepLeft(w)
    BY <1>3 DEF Erased
  <2>2. r \in Nat
    BY <1>1, <1>3
  <2>3. a \in Screen
    BY <2>2 DEF Screen
  <2> HIDE DEF a
  <2>4. u \in Screen /\ u.col = VGA_WIDTH - 1
    BY <2>3, Sizes DEF Screen
  <2> HIDE DEF u
  <2>5. v \in Screen /\ v.col = VGA_WIDTH - 1
    BY <1>1, <2>4, StoredAt
  <2> HIDE DEF v
  <2>6. w \in Screen /\ w.col = 0
    BY <2>5, AdvancedTo, Sizes DEF Placed
  <2> HIDE DEF w
  <2>7. QED
    BY <2>1, <2>6, StepLeftTo, Sizes DEF Placed
<1>4. CASE Adrift(t)
  <2> DEFINE u == StepLeft(t)
             v == Stored(u, Blank)
             w == Advanced(v)
  <2>1. t.col > 0
    BY <1>1, <1>4, Sizes DEF Adrift
  <2>2. Erased(t) = StepLeft(w)
    BY <1>1, <2>1 DEF Erased
  <2>3. u \in Screen /\ u.col = ColMod - 2
    BY <1>1, <1>4, <2>1, StepLeftTo, Sizes DEF Adrift
  <2> HIDE DEF u
  <2>4. v \in Screen /\ v.col = ColMod - 2
    BY <1>1, <2>3, StoredAt
  <2> HIDE DEF v
  <2>5. w = NextRow(v)
    <3>1. (v.col + 1) % ColMod = ColMod - 1 /\ ColMod - 1 >= VGA_WIDTH
      BY <2>4, Sizes
    <3>2. QED
      BY <3>1 DEF Advanced
  <2>6. w \in Screen /\ w.col = 0
    BY <2>4, <2>5, NextRowTo
  <2> HIDE DEF w
  <2>7. QED
    BY <2>2, <2>6, StepLeftTo, Sizes DEF Placed
<1>5. QED
  BY <1>1, <1>2, <1>3, <1>4

\* Whatever is shown, the cursor is in the width of the screen or adrift, and what
\* is stored behind the screen is in a row behind it.
LEMMA WrittenKeeps ==
  ASSUME NEW t \in Screen, Placed(t), NEW c \in Glyphs \cup {NewLine, Backspace}
  PROVE  LET s == Written(t, c) IN
         /\ s \in Screen /\ Placed(s)
         /\ Adrift(t) \/ Adrift(s) \/ (Behind(t) => Behind(s))
         /\ c \notin {NewLine, Backspace} /\ ~ Adrift(t) => ~ Adrift(s)
<1> DEFINE s == Written(t, c)
<1>1. t.row \in Nat /\ t.col \in Nat
  BY Sizes DEF Screen
<1>2. CASE c = NewLine
  <2>1. s = NextRow(t)
    BY <1>2, TerminalConstants DEF Written
  <2>2. s \in Screen /\ s.past = t.past /\ s.col = 0
    BY <2>1, NextRowTo
  <2> HIDE DEF s
  <2>3. QED
    BY <1>2, <2>2, Sizes DEF Placed, Behind, s
<1>3. CASE c = Backspace /\ (t.col = 0 \/ Adrift(t))
  <2>1. s = Erased(t)
    BY <1>3, TerminalConstants DEF Written
  <2>2. QED
    BY <1>3, <2>1, ErasedElsewhere DEF Placed, Behind
<1>4. CASE c = Backspace /\ t.col > 0 /\ t.col < VGA_WIDTH
  <2>1. s = Erased(t)
    BY <1>4, TerminalConstants DEF Written
  <2> DEFINE there == At(t) - 1
  <2>2. /\ s \in Screen /\ s.row = t.row /\ s.col = t.col - 1
        /\ there \in Cells => s.past = t.past
        /\ there \notin Cells => s.past = t.past \cup {t.row}
    BY <1>4, <2>1, ErasedBehind
  <2>3. there = t.row * VGA_WIDTH + (t.col - 1)
    BY <1>1, Sizes DEF At
  <2>4. there \notin Cells => t.row >= VGA_HEIGHT
    <3> HIDE DEF there
    <3>1. t.col - 1 \in Nat /\ t.col - 1 < VGA_WIDTH
      BY <1>1, <1>4, Sizes
    <3>2. QED
      BY <1>1, <2>3, <3>1, RowBehind
  <2> HIDE DEF s, there
  <2>5. QED
    BY <1>1, <1>4, <2>2, <2>4, Sizes DEF Placed, Behind, s
<1>5. CASE c \in Glyphs /\ t.col < VGA_WIDTH
  <2>1. /\ s \in Screen /\ s.col < VGA_WIDTH
        /\ At(t) \in Cells => s.past = t.past
        /\ At(t) \notin Cells => s.past = t.past \cup {t.row}
    BY <1>5, WrittenGlyph
  <2>2. At(t) \notin Cells => t.row >= VGA_HEIGHT
    BY <1>1, <1>5, RowBehind DEF At
  <2>3. s.col \in Nat /\ ~ Adrift(s)
    BY <2>1, Sizes DEF Screen, Adrift
  <2> HIDE DEF s
  <2>4. QED
    BY <2>1, <2>2, <2>3 DEF Placed, Behind, s
<1>6. CASE c \in Glyphs /\ Adrift(t)
  <2> DEFINE v == Stored(t, c)
  <2>1. s = Advanced(v)
    BY <1>6, ConsoleConstants, TerminalConstants DEF Written, Glyphs, Characters
  <2>2. v \in Screen /\ v.col = t.col
    BY <1>6, StoredAt
  <2> HIDE DEF v
  <2>3. Placed(v)
    BY <1>6, <2>2 DEF Placed, Adrift
  <2>4. s \in Screen /\ s.col < VGA_WIDTH
    BY <2>1, <2>2, <2>3, AdvancedTo
  <2> HIDE DEF s
  <2>5. QED
    BY <1>6, <2>4 DEF Placed, s
<1>7. QED
  BY <1>1, <1>2, <1>3, <1>4, <1>5, <1>6 DEF Placed

------------------------------------------------------------------------------
(* The screen in a step.                                                     *)

\* What is printed: a character, the prompt, or a message with its end.
Texts == {<<c>> : c \in Glyphs \cup {NewLine, Backspace}} \cup {<<Mark, d>> : d \in {Blank, NewLine}}

LEMMA FreshScreen ==
  ASSUME ScreenOK
  PROVE  /\ Fresh \in Screen /\ Placed(Fresh) /\ Behind(Fresh)
         /\ Fresh.video_mem = terminal.video_mem /\ Fresh.row = terminal.row
         /\ Fresh.col = terminal.col /\ Fresh.past = {} /\ At(Fresh) = At(terminal)
         /\ Adrift(Fresh) = Adrift(terminal)
<1>1. /\ Fresh \in Screen
      /\ Fresh.video_mem = terminal.video_mem /\ Fresh.row = terminal.row
      /\ Fresh.col = terminal.col /\ Fresh.past = {}
  BY DEF ScreenOK, Fresh, Screen
<1> HIDE DEF Fresh
<1>2. QED
  BY <1>1 DEF ScreenOK, Placed, Adrift, At, Behind

LEMMA TextKeeps ==
  ASSUME ScreenOK, NEW text \in Texts
  PROVE  LET s == Printed(text) IN
         /\ s \in Screen /\ Placed(s)
         /\ Adrift(terminal) \/ Adrift(s) \/ Behind(s)
<1> DEFINE s == Printed(text)
<1>1. CASE text \in {<<c>> : c \in Glyphs \cup {NewLine, Backspace}}
  <2>1. PICK c \in Glyphs \cup {NewLine, Backspace} : text = <<c>>
    BY <1>1
  <2>2. s = Written(Fresh, c)
    BY <2>1, PrintedOne
  <2> HIDE DEF s
  <2>3. QED
    BY <2>2, FreshScreen, WrittenKeeps DEF s
<1>2. CASE text \in {<<Mark, d>> : d \in {Blank, NewLine}}
  <2>1. PICK d \in {Blank, NewLine} : text = <<Mark, d>>
    BY <1>2
  <2> DEFINE r == Written(Fresh, Mark)
  <2>2. s = Written(r, d)
    BY <2>1, PrintedTwo
  <2>3. /\ Mark \in Glyphs \cup {NewLine, Backspace} /\ Mark \notin {NewLine, Backspace}
        /\ d \in Glyphs \cup {NewLine, Backspace}
    BY ConsoleConstants DEF Glyphs, Characters
  <2>4. /\ r \in Screen /\ Placed(r)
        /\ Adrift(Fresh) \/ Adrift(r) \/ Behind(r)
        /\ ~ Adrift(Fresh) => ~ Adrift(r)
    BY <2>3, FreshScreen, WrittenKeeps
  <2> HIDE DEF r
  <2>5. /\ s \in Screen /\ Placed(s)
        /\ Adrift(r) \/ Adrift(s) \/ (Behind(r) => Behind(s))
    BY <2>2, <2>3, <2>4, WrittenKeeps
  <2> HIDE DEF s
  <2>6. QED
    BY <2>4, <2>5, FreshScreen DEF s
<1>3. QED
  BY <1>1, <1>2 DEF Texts

\* Every step prints one of the texts, or nothing.
LEMMA StepPrints ==
  ASSUME RegistersOK, [Next]_vars
  PROVE  terminal' = terminal \/ \E text \in Texts : Row(text)
<1>1. CASE Prompt
  <2>1. <<Mark, Blank>> \in Texts
    BY DEF Texts
  <2>2. QED
    BY <1>1, <2>1 DEF Prompt
<1>2. CASE TakeKey
  <2>1. eax \in Keys \ {Enter}
    BY <1>2 DEF TakeKey, RegistersOK, ShellEax
  <2>2. <<eax>> \in Texts
    BY <2>1 DEF Texts, Keys, Glyphs
  <2>3. QED
    BY <1>2, <2>2 DEF TakeKey
<1>3. CASE RunLine \/ CommandDone
  <2>1. <<NewLine>> \in Texts
    BY DEF Texts
  <2>2. QED
    BY <1>3, <2>1 DEF RunLine, CommandDone
<1>4. CASE OtherPrints
  <2>1. PICK c \in Letters \cup {NewLine} : Row(<<c>>)
    BY <1>4 DEF OtherPrints, Shows
  <2>2. <<c>> \in Texts
    BY DEF Texts, Glyphs, Characters
  <2>3. QED
    BY <2>1, <2>2
<1>5. CASE DivideByZero
  <2>1. <<Mark, NewLine>> \in Texts
    BY DEF Texts
  <2>2. QED
    BY <1>5, <2>1 DEF DivideByZero, Shows
<1>6. CASE GetKey \/ NoKeyYet \/ EndLine \/ NoMoreTokens \/ NextToken \/ GiveUp \/ System
  BY <1>6 DEF GetKey, NoKeyYet, EndLine, NoMoreTokens, NextToken, GiveUp, System, Parsed
<1>7. CASE OtherEnds \/ KeyInterrupt \/ Tick \/ UNCHANGED vars
  BY <1>7 DEF OtherEnds, KeyInterrupt, Tick, vars
<1>8. QED
  BY <1>1, <1>2, <1>3, <1>4, <1>5, <1>6, <1>7 DEF Next, ShellStep

LEMMA ScreenStep ==
  ASSUME ScreenOK, RegistersOK, [Next]_vars
  PROVE  /\ ScreenOK'
         /\ terminal' = terminal \/ Adrift(terminal) \/ Adrift(terminal') \/ Behind(terminal')
<1>1. CASE terminal' = terminal
  BY <1>1 DEF ScreenOK
<1>2. CASE \E text \in Texts : Row(text)
  <2>1. PICK text \in Texts : terminal' = Printed(text)
    BY <1>2 DEF Row
  <2>2. QED
    BY <2>1, TextKeeps DEF ScreenOK
<1>3. QED
  BY <1>1, <1>2, StepPrints

------------------------------------------------------------------------------
(* The registers and the key in a step.                                      *)

LEMMA RegistersStep ==
  ASSUME RegistersOK, [Next]_vars
  PROVE  RegistersOK'
<1> USE ConsoleConstants DEF RegistersOK, ShellEax
<1>0. {Zero, Failed, CommandNumber} \subseteq Values /\ Keys \subseteq Values
  BY DEF Values
<1>1. CASE GetKey
  BY <1>0, <1>1 DEF GetKey, CommandReturns, Saved
<1>2. CASE Prompt \/ TakeKey \/ RunLine \/ NextToken \/ CommandDone
  BY <1>0, <1>2 DEF Prompt, TakeKey, RunLine, NextToken, CommandDone, CommandReturns, Saved,
                    parsing, ghosts
<1>3. CASE NoKeyYet \/ EndLine \/ NoMoreTokens \/ GiveUp
  BY <1>0, <1>3 DEF NoKeyYet, EndLine, NoMoreTokens, GiveUp, Parsed, context, parsing, ghosts
<1>4. CASE System
  BY <1>0, <1>4 DEF System, Parsed, CommandReturns, CommandStarts, TaskAdded, Saved
<1>5. CASE OtherPrints \/ DivideByZero
  BY <1>0, <1>5 DEF OtherPrints, DivideByZero, Shows, CommandReturns, Saved
<1>6. CASE OtherEnds
  BY <1>0, <1>6 DEF OtherEnds, TaskNext, ghosts
<1>7. CASE KeyInterrupt
  BY <1>0, <1>7 DEF KeyInterrupt, Saved, ghosts
<1>8. CASE Tick
  BY <1>0, <1>8 DEF Tick, Clock, TaskNext, After, Saved, ghosts
<1>9. CASE UNCHANGED vars
  BY <1>9 DEF vars, context, ghosts
<1>10. QED
  BY <1>1, <1>2, <1>3, <1>4, <1>5, <1>6, <1>7, <1>8, <1>9 DEF Next, ShellStep

------------------------------------------------------------------------------
(* readline in a step.                                                       *)

LEMMA BufferSize == BufSize \in Nat /\ BufSize > 1 /\ Nul \in Bytes /\ Nul \notin Keys
BY ConsoleConstants DEF Bytes, Keys, Characters

\* The loop's body keeps the buffer and the index in bounds, and what stands before
\* the index is the line (marrowos.c:57-85).
LEMMA EditedLine ==
  ASSUME LineOK, i < BufSize - 1, NEW c \in Keys \ {Enter}
  PROVE  LET o == Edited(c)[1]
             j == Edited(c)[2]
         IN
         /\ o \in [0 .. BufSize - 1 -> Bytes] /\ j \in 0 .. BufSize - 1
         /\ \A k \in 0 .. j - 1 : o[k] # Nul
         /\ \/ /\ c = Backspace /\ i >= 1 /\ j = i - 1
               /\ \A k \in 0 .. j - 1 : o[k] = out[k]
            \/ /\ ~ (c = Backspace /\ i >= 1) /\ j = i + 1 /\ o[i] = c
               /\ \A k \in 0 .. i - 1 : o[k] = out[k]
<1>1. c \in Bytes /\ c # Nul
  BY BufferSize DEF Bytes, Keys
<1>2. i \in Nat /\ out \in [0 .. BufSize - 1 -> Bytes] /\ \A k \in 0 .. i - 1 : out[k] # Nul
  BY DEF LineOK
<1>3. CASE c = Backspace /\ i >= 1
  <2> DEFINE o == [out EXCEPT ![i - 1] = Nul]
             j == i - 1
  <2>1. Edited(c) = <<o, j>>
    BY <1>3 DEF Edited
  <2>2. /\ o \in [0 .. BufSize - 1 -> Bytes] /\ j \in 0 .. BufSize - 1
        /\ \A k \in 0 .. j - 1 : o[k] = out[k] /\ out[k] # Nul
    BY <1>2, <1>3, BufferSize
  <2> HIDE DEF o, j
  <2>3. QED
    BY <1>3, <2>1, <2>2 DEF j
<1>4. CASE ~ (c = Backspace /\ i >= 1)
  <2> DEFINE o == [out EXCEPT ![i] = c]
             j == i + 1
  <2>1. Edited(c) = <<o, j>>
    BY <1>4 DEF Edited
  <2>2. /\ o \in [0 .. BufSize - 1 -> Bytes] /\ j \in 0 .. BufSize - 1
        /\ o[i] = c /\ \A k \in 0 .. i - 1 : o[k] = out[k] /\ out[k] # Nul
    BY <1>1, <1>2, BufferSize
  <2>3. \A k \in 0 .. j - 1 : o[k] # Nul
    BY <1>1, <1>2, <2>2
  <2> HIDE DEF o, j
  <2>4. QED
    BY <1>4, <2>1, <2>2, <2>3 DEF j
<1>5. QED
  BY <1>3, <1>4

LEMMA TakeKeyLine ==
  ASSUME RegistersOK, LineOK, TakeKey
  PROVE  /\ LineOK' /\ eax \in Keys \ {Enter}
         /\ i' = Edited(eax)[2] /\ \A k \in 0 .. i' - 1 : out'[k] = Edited(eax)[1][k]
<1> DEFINE o == Edited(eax)[1]
           j == Edited(eax)[2]
<1>1. eax \in Keys \ {Enter}
  BY DEF TakeKey, RegistersOK, ShellEax
<1>2. /\ o \in [0 .. BufSize - 1 -> Bytes] /\ j \in 0 .. BufSize - 1
      /\ \A k \in 0 .. j - 1 : o[k] # Nul
  BY <1>1, EditedLine DEF TakeKey, LineOK
<1>3. /\ i' = j /\ out' = (IF j = BufSize - 1 THEN [o EXCEPT ![BufSize - 1] = Nul] ELSE o)
      /\ pc' = IF j = BufSize - 1 THEN "line" ELSE "read"
  BY DEF TakeKey
<1> HIDE DEF o, j
<1>4. CASE j = BufSize - 1
  BY <1>1, <1>2, <1>3, <1>4, BufferSize DEF LineOK, o, j
<1>5. CASE j # BufSize - 1
  BY <1>1, <1>2, <1>3, <1>5, BufferSize DEF LineOK, o, j
<1>6. QED
  BY <1>4, <1>5

LEMMA LineStep ==
  ASSUME RegistersOK, LineOK, [Next]_vars
  PROVE  LineOK'
<1> USE DEF LineOK
<1>1. CASE Prompt
  BY <1>1, BufferSize DEF Prompt
<1>2. CASE TakeKey
  BY <1>2, TakeKeyLine
<1>3. CASE GetKey \/ NoKeyYet
  BY <1>3 DEF GetKey, NoKeyYet, reading
<1>4. CASE EndLine
  BY <1>4, BufferSize DEF EndLine
<1>5. CASE RunLine \/ NoMoreTokens \/ NextToken
  BY <1>5 DEF RunLine, NoMoreTokens, NextToken, reading
<1>6. CASE GiveUp \/ System \/ CommandDone
  BY <1>6 DEF GiveUp, System, Parsed, CommandDone, reading
<1>7. CASE OtherPrints \/ DivideByZero \/ OtherEnds \/ KeyInterrupt \/ Tick
  BY <1>7 DEF OtherPrints, DivideByZero, Shows, OtherEnds, KeyInterrupt, Tick, reading
<1>8. CASE UNCHANGED vars
  BY <1>8 DEF vars, reading
<1>9. QED
  BY <1>1, <1>2, <1>3, <1>4, <1>5, <1>6, <1>7, <1>8 DEF Next, ShellStep

------------------------------------------------------------------------------
(* The line on the screen in a step.                                         *)

\* A key that is shown, and does no harm, keeps the screen in step with the line
\* (kernel.c:40-78, marrowos.c:57-85).
LEMMA TakeKeyEcho ==
  ASSUME ScreenOK, RegistersOK, LineOK, EchoOK, TakeKey
  PROVE  EchoOK'
<1> DEFINE s == terminal'
           c == eax
<1>1. /\ pc = "key" /\ i < BufSize - 1 /\ i \in Nat /\ origin' = origin /\ origin \in Int
      /\ disturbed' = (\/ disturbed \/ s.past # {}
                       \/ c = Backspace /\ 0 \in {i, terminal.col})
      /\ disturbed' \in BOOLEAN
  BY DEF TakeKey, LineOK, EchoOK
<1>2. /\ c \in Keys \ {Enter} /\ i' = Edited(c)[2]
      /\ \A k \in 0 .. i' - 1 : out'[k] = Edited(c)[1][k]
  BY TakeKeyLine
<1>3. s = Written(Fresh, c)
  BY PrintedOne DEF TakeKey, Row
<1> SUFFICES ASSUME pc' \in {"read", "key"}, ~ disturbed'
             PROVE  /\ s.col < VGA_WIDTH /\ At(s) = origin + i'
                    /\ \A k \in 0 .. i' - 1 : origin + k \in Cells /\ s.video_mem[origin + k] = out'[k]
  BY <1>1 DEF EchoOK
<1>4. /\ ~ disturbed /\ s.past = {} /\ (c = Backspace => i # 0 /\ terminal.col # 0)
  BY <1>1
<1>5. /\ Fresh \in Screen /\ Fresh.video_mem = terminal.video_mem /\ Fresh.past = {}
      /\ Fresh.row = terminal.row /\ Fresh.col = terminal.col /\ At(Fresh) = At(terminal)
  BY FreshScreen
<1>6. /\ terminal.col < VGA_WIDTH /\ At(terminal) = origin + i
      /\ \A k \in 0 .. i - 1 : origin + k \in Cells /\ terminal.video_mem[origin + k] = out[k]
  BY <1>1, <1>4 DEF EchoOK
<1>7. terminal.video_mem \in [Cells -> Glyphs] /\ terminal.col \in Nat /\ terminal.row \in Nat
  BY Sizes DEF ScreenOK, Screen
<1> DEFINE o == Edited(c)[1]
<1>8. \/ /\ c = Backspace /\ i >= 1 /\ i' = i - 1
         /\ \A k \in 0 .. i' - 1 : o[k] = out[k]
      \/ /\ ~ (c = Backspace /\ i >= 1) /\ i' = i + 1 /\ o[i] = c
         /\ \A k \in 0 .. i - 1 : o[k] = out[k]
  BY <1>1, <1>2, EditedLine
<1>9. CASE c = Backspace
  <2>1. i >= 1 /\ terminal.col > 0 /\ i' = i - 1 /\ \A k \in 0 .. i' - 1 : o[k] = out[k]
    BY <1>1, <1>4, <1>7, <1>8, <1>9
  <2>2. s = Erased(Fresh)
    BY <1>3, <1>9, TerminalConstants DEF Written
  <2> DEFINE there == At(Fresh) - 1
  <2>3. /\ s.col = terminal.col - 1 /\ At(s) = there
        /\ there \in Cells => s.video_mem = [terminal.video_mem EXCEPT ![there] = Blank]
        /\ there \notin Cells => s.past = {} \cup {Fresh.row}
    BY <1>5, <1>6, <2>1, <2>2, ErasedBehind
  <2>4. there = origin + i' /\ there \in Cells
    BY <1>1, <1>4, <1>5, <1>6, <2>1, <2>3
  <2> HIDE DEF there, o, s
  <2>5. \A k \in 0 .. i' - 1 : origin + k \in Cells /\ s.video_mem[origin + k] = out'[k]
    BY <1>1, <1>2, <1>6, <1>7, <2>1, <2>3, <2>4 DEF o
  <2>6. QED
    BY <1>6, <1>7, <2>1, <2>3, <2>4, <2>5, Sizes
<1>10. CASE c # Backspace
  <2>1. i' = i + 1 /\ o[i] = c /\ \A k \in 0 .. i - 1 : o[k] = out[k]
    BY <1>8, <1>10
  <2>2. c \in Glyphs
    BY <1>2, <1>10 DEF Keys, Glyphs
  <2>3. /\ s.col < VGA_WIDTH /\ At(s) = At(Fresh) + 1
        /\ At(Fresh) \in Cells => s.video_mem = [terminal.video_mem EXCEPT ![At(Fresh)] = c]
        /\ At(Fresh) \notin Cells => s.past = {} \cup {Fresh.row}
    BY <1>3, <1>5, <1>6, <2>2, WrittenGlyph
  <2>4. At(Fresh) = origin + i /\ At(Fresh) \in Cells
    BY <1>4, <1>5, <1>6, <2>3
  <2> HIDE DEF o, s
  <2>5. ASSUME NEW k \in 0 .. i' - 1
        PROVE  origin + k \in Cells /\ s.video_mem[origin + k] = out'[k]
    <3>1. out'[k] = o[k]
      BY <1>2 DEF o
    <3>2. CASE k = i
      BY <1>1, <1>7, <2>1, <2>3, <2>4, <3>1, <3>2
    <3>3. CASE k # i
      BY <1>1, <1>6, <1>7, <2>1, <2>3, <2>4, <3>1, <3>3
    <3>4. QED
      BY <3>2, <3>3
  <2>6. QED
    BY <1>1, <2>1, <2>3, <2>4, <2>5
<1>11. QED
  BY <1>9, <1>10

LEMMA EchoStep ==
  ASSUME ScreenOK, RegistersOK, LineOK, EchoOK, [Next]_vars
  PROVE  EchoOK'
<1>1. CASE Prompt
  <2>1. /\ i' = 0 /\ origin' = At(terminal') /\ disturbed' = Adrift(terminal')
        /\ terminal' \in Screen /\ Placed(terminal')
    BY <1>1, ScreenStep DEF Prompt, ScreenOK
  <2>2. At(terminal') \in Int
    BY <2>1, Sizes DEF At, Screen
  <2>3. Adrift(terminal') \in BOOLEAN
    BY DEF Adrift
  <2> DEFINE s == terminal'
  <2>4. EchoOK' = (/\ disturbed' \in BOOLEAN /\ origin' \in Int
                   /\ pc' \in {"read", "key"} /\ ~disturbed' =>
                        /\ s.col < VGA_WIDTH
                        /\ At(s) = origin' + i'
                        /\ \A k \in 0 .. i' - 1 :
                             origin' + k \in Cells /\ s.video_mem[origin' + k] = out'[k])
    BY DEF EchoOK
  <2> HIDE DEF s
  <2>5. ~disturbed' => s.col < VGA_WIDTH
    BY <2>1 DEF s, Placed
  <2>6. QED
    BY <2>1, <2>2, <2>3, <2>4, <2>5 DEF s
<1>2. CASE TakeKey
  BY <1>2, TakeKeyEcho
<1>3. CASE GetKey \/ NoKeyYet
  BY <1>3 DEF GetKey, NoKeyYet, reading, ghosts, EchoOK
<1>4. CASE EndLine \/ RunLine \/ NoMoreTokens \/ NextToken \/ GiveUp \/ System \/ CommandDone
  <2>1. pc' \notin {"read", "key"} /\ UNCHANGED <<disturbed, origin>>
    BY <1>4 DEF EndLine, RunLine, NoMoreTokens, NextToken, GiveUp, System, Parsed, CommandDone, ghosts
  <2>2. QED
    BY <2>1 DEF EchoOK
<1>5. CASE OtherPrints \/ DivideByZero
  BY <1>5 DEF OtherPrints, DivideByZero, Shows, EchoOK
<1>6. CASE OtherEnds \/ KeyInterrupt \/ Tick
  BY <1>6 DEF OtherEnds, KeyInterrupt, Tick, reading, ghosts, EchoOK
<1>7. CASE UNCHANGED vars
  BY <1>7 DEF vars, reading, ghosts, EchoOK
<1>8. QED
  BY <1>1, <1>2, <1>3, <1>4, <1>5, <1>6, <1>7 DEF Next, ShellStep

------------------------------------------------------------------------------
(* The parser in a step.                                                     *)

\* A byte that is looked for, and is there, is found at its first place.
LEMMA FirstIs ==
  ASSUME NEW place \in 0 .. BufSize - 1, NEW within,
         NEW there \in place .. BufSize - 1, scommand[there] \in within
  PROVE  LET f == First(place, within) IN
         /\ f \in place .. there /\ scommand[f] \in within
         /\ \A k \in place .. f - 1 : scommand[k] \notin within
<1> DEFINE f == First(place, within)
           S == {k \in Nat : k \in place .. BufSize - 1 /\ scommand[k] \in within}
<1>0. BufSize \in Nat
  BY BufferSize
<1>1. there \in S
  BY <1>0
<1>2. PICK x \in S : \A y \in S : ~ (<<y, x>> \in OpToRel(<, Nat))
  <2>1. S \in SUBSET Nat /\ S # {}
    BY <1>1
  <2> HIDE DEF S
  <2>2. QED
    BY <2>1, NatLessThanWellFounded, WFMin
<1>3. \A y \in S : ~ (y < x)
  BY <1>2 DEF OpToRel
<1>4. x \in place .. BufSize - 1 /\ scommand[x] \in within /\ \A j \in place .. x - 1 : scommand[j] \notin within
  BY <1>0, <1>3
<1>5. f \in place .. BufSize - 1 /\ scommand[f] \in within /\ \A j \in place .. f - 1 : scommand[j] \notin within
  BY <1>4 DEF First
<1>6. f <= there
  BY <1>0, <1>5
<1> HIDE DEF f
<1>7. QED
  BY <1>0, <1>5, <1>6 DEF f

\* strtok skips the blanks, and stops at the next one or at the end, which is not
\* behind the buffer (string.c:124-178).
LEMMA TokenIs ==
  ASSUME ParseOK, sp # NoPointer
  PROVE  /\ TokenStart \in sp .. BufSize - 1 /\ TokenEnd \in TokenStart .. BufSize - 1
         /\ \A k \in sp .. TokenStart - 1 : scommand[k] = Blank
         /\ scommand[TokenStart] # Blank
         /\ \A k \in TokenStart .. TokenEnd - 1 : scommand[k] \notin {Nul, Blank}
         /\ scommand[TokenEnd] \in {Nul, Blank}
         /\ \A k \in sp .. BufSize - 1 : scommand[k] = Nul => TokenEnd <= k
         /\ sp \in 0 .. BufSize - 1
<1> DEFINE within == (Keys \cup {Nul}) \ {Blank}
           st == TokenStart
           en == TokenEnd
<1>1. sp \in 0 .. BufSize - 1 /\ BufSize \in Nat /\ Nul # Blank
  BY BufferSize, ConsoleConstants DEF ParseOK
<1>2. Nul \in within /\ \A v \in Bytes : v \notin within => v = Blank
  BY <1>1 DEF Keys, Bytes
<1>3. PICK z \in sp .. BufSize - 1 : scommand[z] = Nul
  BY DEF ParseOK
<1>4. scommand[z] \in within /\ st = First(sp, within)
  BY <1>2, <1>3 DEF TokenStart
<1> HIDE DEF st, within
<1>5. /\ st \in sp .. z /\ scommand[st] \in within
      /\ \A k \in sp .. st - 1 : scommand[k] \notin within
  BY <1>1, <1>3, <1>4, FirstIs
<1>6. \A k \in sp .. st - 1 : scommand[k] = Blank
  BY <1>1, <1>2, <1>3, <1>5 DEF ParseOK
<1>7. st \in 0 .. BufSize - 1 /\ z \in st .. BufSize - 1 /\ scommand[z] \in {Nul, Blank}
  BY <1>1, <1>3, <1>5
<1>8. en = First(st, {Nul, Blank})
  BY DEF TokenEnd, st
<1> HIDE DEF en
<1>9. /\ en \in st .. z /\ scommand[en] \in {Nul, Blank}
      /\ \A k \in st .. en - 1 : scommand[k] \notin {Nul, Blank}
  BY <1>7, <1>8, FirstIs
<1>10. scommand[st] # Blank
  BY <1>5 DEF within
<1>11. ASSUME NEW k \in sp .. BufSize - 1, scommand[k] = Nul PROVE en <= k
  <2>1. k >= st
    BY <1>1, <1>5, <1>6, <1>11
  <2>2. QED
    BY <1>1, <1>5, <1>9, <1>11, <2>1
<1>12. QED
  BY <1>1, <1>3, <1>5, <1>6, <1>9, <1>10, <1>11 DEF st, en

\* strncpy copies no more than there is, and what an abstract word keeps
\* (string.c:104-115).
LEMMA CopiedIs ==
  ASSUME NEW n \in Nat
  PROVE  /\ Copied(n) \in 0 .. n /\ Copied(n) < ArgumentSize
         /\ Copied(n) = CommandLines!Kept(n)
BY ConsoleConstants DEF Copied, CommandLines!Kept

LEMMA TokenType ==
  ASSUME ParseOK, sp # NoPointer
  PROVE  Token \in Arguments
<1> DEFINE st == TokenStart
           en == TokenEnd
           n == Copied(en - st)
<1>1. st \in 0 .. BufSize - 1 /\ en \in st .. BufSize - 1 /\ BufSize \in Nat
  BY TokenIs, BufferSize
<1>2. Token = [k \in 1 .. n |-> scommand[st + k - 1]]
  BY DEF Token
<1> HIDE DEF st, en
<1>3. n \in Nat /\ n <= en - st /\ n < ArgumentSize
  BY <1>1, CopiedIs
<1> HIDE DEF n
<1>4. \A k \in 1 .. n : scommand[st + k - 1] \in Bytes
  BY <1>1, <1>3 DEF ParseOK
<1>5. [k \in 1 .. n |-> scommand[st + k - 1]] \in [1 .. n -> Bytes]
  BY <1>4
<1>6. QED
  BY <1>2, <1>3, <1>5 DEF Arguments

LEMMA NextTokenParse ==
  ASSUME ParseOK, NextToken
  PROVE  ParseOK'
<1> DEFINE en == TokenEnd
<1>1. sp # NoPointer /\ pc = "parse"
  BY DEF NextToken, ParseOK
<1>2. /\ en \in sp .. BufSize - 1 /\ sp \in 0 .. BufSize - 1 /\ BufSize \in Nat
      /\ scommand[en] \in {Nul, Blank} /\ Nul \in Bytes
      /\ \A k \in sp .. BufSize - 1 : scommand[k] = Nul => en <= k
  BY <1>1, TokenIs, BufferSize
<1>3. /\ scommand' = [scommand EXCEPT ![en] = Nul]
      /\ sp' = IF scommand[en] = Nul THEN en ELSE en + 1
  BY DEF NextToken, PlaceAfter
<1>4. PICK z \in sp .. BufSize - 1 : scommand[z] = Nul
  BY <1>1 DEF ParseOK
<1> HIDE DEF en
<1>5. z \in sp' .. BufSize - 1 /\ sp' \in 0 .. BufSize - 1 /\ sp' # NoPointer
  BY <1>2, <1>3, <1>4, ConsoleConstants
<1>6. scommand' \in [0 .. BufSize - 1 -> Bytes] /\ scommand'[z] = Nul
  BY <1>2, <1>3, <1>4 DEF ParseOK
<1>7. /\ root' \in Seq(Arguments) /\ held' \in Nat
      /\ Len(root') <= held' /\ held' <= MaxAllocs
  <2>1. CASE held < MaxAllocs /\ held' = held + 1 /\ root' = Append(root, Token)
    <3>1. Token \in Arguments
      BY <1>1, TokenType
    <3>2. root' \in Seq(Arguments) /\ Len(root') = Len(root) + 1
      BY <2>1, <3>1, AppendProperties DEF ParseOK
    <3>3. Len(root) \in Nat
      BY LenProperties DEF ParseOK
    <3>4. QED
      BY <2>1, <3>2, <3>3, ConsoleConstants DEF ParseOK
  <2>2. CASE UNCHANGED <<root, held>>
    BY <2>2 DEF ParseOK
  <2>3. QED
    BY <2>1, <2>2 DEF NextToken
<1>8. QED
  BY <1>5, <1>6, <1>7 DEF ParseOK

\* The line is copied, and the copy is terminated behind the place kept, be it an old
\* one (shell.c:12-17, marrowos.c:14-16, string.c:124-145).
LEMMA RunLineParse ==
  ASSUME LineOK, ParseOK, RunLine
  PROVE  /\ ParseOK'
         /\ \A k \in 0 .. i : scommand'[k] = out[k]
<1>1. /\ scommand' = [k \in 0 .. BufSize - 1 |-> IF k <= i THEN out[k] ELSE scommand[k]]
      /\ sp' = IF sp = NoPointer THEN 0 ELSE sp
      /\ root' = <<>> /\ held' = held /\ out[i] = Nul
  BY DEF RunLine, ParseOK, LineOK, parsing
<1>2. i \in 0 .. BufSize - 1 /\ BufSize \in Nat /\ BufSize > 1
  BY BufferSize DEF LineOK
<1>3. scommand' \in [0 .. BufSize - 1 -> Bytes] /\ \A k \in 0 .. i : scommand'[k] = out[k]
  <2>1. \A k \in 0 .. BufSize - 1 : out[k] \in Bytes /\ scommand[k] \in Bytes
    BY DEF LineOK, ParseOK
  <2>2. [k \in 0 .. BufSize - 1 |-> IF k <= i THEN out[k] ELSE scommand[k]]
          \in [0 .. BufSize - 1 -> Bytes]
    BY <2>1
  <2>3. scommand' \in [0 .. BufSize - 1 -> Bytes]
    BY <1>1, <2>2
  <2>4. ASSUME NEW k \in 0 .. i PROVE scommand'[k] = out[k]
    <3>1. k \in 0 .. BufSize - 1 /\ k <= i
      BY <1>2
    <3>2. QED
      BY <1>1, <3>1
  <2>5. QED
    BY <2>3, <2>4
<1>4. sp' # NoPointer /\ sp' \in 0 .. BufSize - 1
  <2>1. 0 # NoPointer /\ 0 \in 0 .. BufSize - 1
    BY <1>2, ConsoleConstants
  <2>2. sp # NoPointer => sp \in 0 .. BufSize - 1
    BY DEF ParseOK
  <2>3. QED
    BY <1>1, <2>1, <2>2
<1>5. \E k \in sp' .. BufSize - 1 : scommand'[k] = Nul
  <2>1. CASE sp' <= i
    BY <1>1, <1>2, <1>3, <1>4, <2>1
  <2>2. CASE sp' > i
    <3>1. sp = sp' /\ sp # NoPointer
      BY <1>1, <1>2, <1>4, <2>2
    <3>2. PICK k \in sp .. BufSize - 1 : scommand[k] = Nul
      BY <3>1 DEF ParseOK
    <3>3. scommand'[k] = Nul
      BY <1>1, <1>2, <1>4, <2>2, <3>1, <3>2
    <3>4. QED
      BY <3>1, <3>2, <3>3
  <2>3. QED
    BY <1>2, <1>4, <2>1, <2>2
<1>6. <<>> \in Seq(Arguments) /\ Len(<<>>) = 0
  OBVIOUS
<1>7. QED
  BY <1>1, <1>3, <1>4, <1>5, <1>6, ConsoleConstants DEF ParseOK

LEMMA ParseStep ==
  ASSUME LineOK, ParseOK, [Next]_vars
  PROVE  ParseOK'
<1>1. CASE RunLine
  BY <1>1, RunLineParse
<1>2. CASE NextToken
  BY <1>2, NextTokenParse
<1>3. CASE NoMoreTokens
  BY <1>3 DEF NoMoreTokens, ParseOK
<1>4. CASE Prompt \/ GetKey \/ NoKeyYet \/ EndLine \/ TakeKey
  <2>1. UNCHANGED parsing /\ pc' # "parse"
    BY <1>4 DEF Prompt, GetKey, NoKeyYet, EndLine, TakeKey
  <2>2. QED
    BY <2>1 DEF parsing, ParseOK
<1>5. CASE GiveUp \/ System \/ CommandDone
  <2>1. UNCHANGED parsing /\ pc' # "parse"
    BY <1>5 DEF GiveUp, System, Parsed, CommandDone
  <2>2. QED
    BY <2>1 DEF parsing, ParseOK
<1>6. CASE OtherPrints \/ DivideByZero \/ OtherEnds \/ KeyInterrupt \/ Tick \/ UNCHANGED vars
  <2>1. UNCHANGED <<parsing, pc>>
    BY <1>6 DEF OtherPrints, DivideByZero, Shows, OtherEnds, KeyInterrupt, Tick, vars
  <2>2. QED
    BY <2>1 DEF parsing, ParseOK
<1>7. QED
  BY <1>1, <1>2, <1>3, <1>4, <1>5, <1>6 DEF Next, ShellStep

------------------------------------------------------------------------------
(* The words of the line.                                                    *)

LEMMA SameCardinality == \A S : CommandLines!Cardinality(S) = Cardinality(S)
BY DEF CommandLines!Cardinality, Cardinality

LEMMA StartsAre ==
  ASSUME NEW l \in Seq(Bytes), NEW p
  PROVE  /\ CommandLines!Starts(l) \subseteq 1 .. Len(l) /\ Len(l) \in Nat
         /\ Begun(l, p) \subseteq CommandLines!Starts(l)
         /\ IsFiniteSet(CommandLines!Starts(l)) /\ IsFiniteSet(Begun(l, p))
         /\ Cardinality(CommandLines!Starts(l)) \in Nat /\ Cardinality(Begun(l, p)) \in Nat
<1>1. Len(l) \in Nat /\ DOMAIN l = 1 .. Len(l)
  BY LenProperties
<1>2. CommandLines!Starts(l) \subseteq 1 .. Len(l)
  BY <1>1 DEF CommandLines!Starts
<1>3. Begun(l, p) \subseteq CommandLines!Starts(l)
  BY DEF Begun
<1>4. IsFiniteSet(1 .. Len(l))
  BY <1>1, FS_Interval
<1>5. IsFiniteSet(CommandLines!Starts(l))
  BY <1>2, <1>4, FS_Subset
<1>6. IsFiniteSet(Begun(l, p))
  BY <1>3, <1>5, FS_Subset
<1>7. QED
  BY <1>1, <1>2, <1>3, <1>5, <1>6, FS_CardinalityType

\* Words are numbered by where they begin.
LEMMA StartIs ==
  ASSUME NEW l \in Seq(Bytes), NEW s \in CommandLines!Starts(l)
  PROVE  CommandLines!Start(l, Cardinality(Begun(l, s))) = s
<1> DEFINE S == CommandLines!Starts(l)
           n == Cardinality(Begun(l, s))
<1>1. S \subseteq Nat
  BY StartsAre
<1>2. ASSUME NEW a \in S, NEW b \in S, a < b, Cardinality(Begun(l, a)) = Cardinality(Begun(l, b))
      PROVE  FALSE
  <2>1. Begun(l, a) \in SUBSET Begun(l, b) /\ b \in Begun(l, b) /\ b \notin Begun(l, a)
    BY <1>1, <1>2 DEF Begun
  <2>2. IsFiniteSet(Begun(l, b))
    BY StartsAre
  <2>3. Begun(l, a) = Begun(l, b)
    BY <1>2, <2>1, <2>2, FS_Subset
  <2>4. QED
    BY <2>1, <2>3
<1>3. CommandLines!Start(l, n) = CHOOSE t \in S : Cardinality(Begun(l, t)) = n
  BY SameCardinality DEF CommandLines!Start, Begun
<1>4. \A t \in S : Cardinality(Begun(l, t)) = n => t = s
  <2>1. ASSUME NEW t \in S, Cardinality(Begun(l, t)) = n PROVE t = s
    <3>1. t < s \/ t = s \/ s < t
      BY <1>1
    <3>2. QED
      BY <1>2, <2>1, <3>1
  <2>2. QED
    BY <2>1
<1>5. s \in S /\ Cardinality(Begun(l, s)) = n
  OBVIOUS
<1> HIDE DEF S, n
<1>6. (CHOOSE t \in S : Cardinality(Begun(l, t)) = n) = s
  BY <1>4, <1>5
<1>7. QED
  BY <1>3, <1>6 DEF n

\* A word ends before a blank, or at the end of the line.
LEMMA WordIs ==
  ASSUME NEW l \in Seq(Bytes), NEW s \in CommandLines!Starts(l), NEW e \in s .. Len(l),
         \A k \in s .. e : l[k] # Blank,
         e < Len(l) => l[e + 1] = Blank
  PROVE  LET n == Cardinality(Begun(l, s)) IN
         /\ n \in 1 .. Cardinality(CommandLines!Starts(l))
         /\ CommandLines!Words(l)[n] = SubSeq(l, s, s + CommandLines!Kept(e - s + 1) - 1)
<1> DEFINE n == Cardinality(Begun(l, s))
           E == CommandLines!Ends(l, s)
<1>1. /\ Len(l) \in Nat /\ DOMAIN l = 1 .. Len(l) /\ s \in 1 .. Len(l)
  BY StartsAre, LenProperties
<1>2. E = s .. e
  <2>1. ASSUME NEW x \in E PROVE x \in s .. e
    <3>1. x \in 1 .. Len(l) /\ x >= s /\ \A k \in s .. x : l[k] # Blank
      BY <1>1 DEF CommandLines!Ends
    <3>2. x > e => e + 1 \in s .. x /\ e < Len(l)
      BY <1>1, <3>1
    <3>3. QED
      BY <1>1, <3>1, <3>2
  <2>2. ASSUME NEW x \in s .. e PROVE x \in E
    BY <1>1 DEF CommandLines!Ends
  <2>3. QED
    BY <2>1, <2>2
<1>3. Cardinality(s .. e) = e - s + 1
  BY <1>1, FS_Interval
<1>4. n \in 1 .. Cardinality(CommandLines!Starts(l))
  <2>1. n <= Cardinality(CommandLines!Starts(l))
    BY StartsAre, FS_Subset
  <2>2. s \in Begun(l, s)
    BY <1>1 DEF Begun
  <2>3. n # 0
    BY <2>2, StartsAre, FS_EmptySet
  <2>4. QED
    BY <2>1, <2>3, StartsAre
<1>5. CommandLines!Start(l, n) = s
  BY StartIs
<1> HIDE DEF n, E
<1>6. CommandLines!Words(l)[n] = SubSeq(l, s, s + CommandLines!Kept(Cardinality(E)) - 1)
  BY <1>4, <1>5, SameCardinality DEF CommandLines!Words, E
<1>7. Cardinality(E) = e - s + 1
  BY <1>1, <1>2, <1>3
<1>8. QED
  BY <1>4, <1>6, <1>7 DEF n

\* One more word begins between two places.
LEMMA OneMore ==
  ASSUME NEW l \in Seq(Bytes), NEW s \in CommandLines!Starts(l), NEW p \in Nat, NEW q \in Nat,
         p < s, s <= q,
         \A r \in CommandLines!Starts(l) : r <= q => r <= p \/ r = s
  PROVE  Cardinality(Begun(l, q)) = Cardinality(Begun(l, p)) + 1
<1>1. CommandLines!Starts(l) \subseteq Nat
  BY StartsAre
<1>2. Begun(l, q) = Begun(l, p) \cup {s} /\ s \notin Begun(l, p)
  BY <1>1 DEF Begun
<1>3. IsFiniteSet(Begun(l, p))
  BY StartsAre
<1>4. QED
  BY <1>2, <1>3, FS_AddElement

LEMMA LineIs ==
  ASSUME LineOK
  PROVE  /\ Line \in Seq(Bytes) /\ Len(Line) = i /\ i \in Nat
         /\ \A k \in 1 .. i : Line[k] = out[k - 1] /\ Line[k] \in Bytes
<1>1. i \in Nat /\ BufSize \in Nat /\ i < BufSize
  BY BufferSize DEF LineOK
<1>2. \A k \in 1 .. i : out[k - 1] \in Bytes
  BY <1>1 DEF LineOK
<1>3. Line \in [1 .. i -> Bytes]
  BY <1>2 DEF Line
<1>4. \A k \in 1 .. i : Line[k] = out[k - 1]
  BY DEF Line
<1>5. QED
  BY <1>1, <1>2, <1>3, <1>4

\* What strtok finds in a copy that is the line from the place on
\* (string.c:124-178).
LEMMA TokenInLine ==
  ASSUME LineOK, ParseOK, ParsingOK, pc = "parse", ~stale
  PROVE  /\ sp \in 0 .. i /\ i \in Nat
         /\ TokenStart \in sp .. i /\ TokenEnd \in TokenStart .. i
         /\ \A k \in sp .. i : scommand[k] = out[k]
         /\ \A k \in sp .. TokenStart - 1 : out[k] = Blank
         /\ \A k \in TokenStart .. TokenEnd - 1 : out[k] # Blank
         /\ TokenEnd < i => scommand[TokenEnd] = Blank /\ out[TokenEnd] = Blank
         /\ scommand[i] = Nul /\ Nul # Blank
         /\ IF TokenStart = i THEN scommand[TokenStart] = Nul
            ELSE /\ scommand[TokenStart] # Nul /\ TokenEnd > TokenStart
                 /\ TokenStart = 0 \/ out[TokenStart - 1] = Blank
<1> DEFINE st == TokenStart
           en == TokenEnd
<1>1. sp # NoPointer
  BY DEF ParseOK
<1>2. /\ st \in sp .. BufSize - 1 /\ en \in st .. BufSize - 1
      /\ \A k \in sp .. st - 1 : scommand[k] = Blank
      /\ scommand[st] # Blank
      /\ \A k \in st .. en - 1 : scommand[k] \notin {Nul, Blank}
      /\ scommand[en] \in {Nul, Blank}
      /\ \A k \in sp .. BufSize - 1 : scommand[k] = Nul => en <= k
      /\ sp \in 0 .. BufSize - 1
  BY <1>1, TokenIs
<1>3. /\ sp <= i /\ (sp \in {0, i} \/ out[sp - 1] = Blank)
      /\ \A k \in sp .. i : scommand[k] = out[k]
  BY DEF ParsingOK
<1>4. /\ i \in 0 .. BufSize - 1 /\ BufSize \in Nat /\ out[i] = Nul /\ Nul # Blank
      /\ \A k \in 0 .. i - 1 : out[k] # Nul
  BY BufferSize, ConsoleConstants DEF LineOK
<1> HIDE DEF st, en
<1>5. scommand[i] = Nul /\ en <= i /\ st <= i
  BY <1>2, <1>3, <1>4
<1>6. \A k \in sp .. st - 1 : out[k] = Blank
  BY <1>2, <1>3, <1>4, <1>5
<1>7. \A k \in st .. en - 1 : out[k] # Blank
  BY <1>2, <1>3, <1>4, <1>5
<1>8. en < i => scommand[en] = Blank /\ out[en] = Blank
  BY <1>2, <1>3, <1>4, <1>5
<1>9. CASE st = i
  BY <1>2, <1>3, <1>4, <1>5, <1>6, <1>7, <1>8, <1>9 DEF st, en
<1>10. CASE st # i
  <2>1. scommand[st] # Nul /\ en > st
    BY <1>2, <1>3, <1>4, <1>5, <1>10
  <2>2. st = 0 \/ out[st - 1] = Blank
    BY <1>2, <1>3, <1>4, <1>5, <1>6, <1>10
  <2>3. QED
    BY <1>2, <1>3, <1>4, <1>5, <1>6, <1>7, <1>8, <1>10, <2>1, <2>2 DEF st, en
<1>11. QED
  BY <1>9, <1>10

LEMMA RootIs ==
  ASSUME LineOK, ParseOK, ParsingOK, pc = "parse", ~stale
  PROVE  /\ Len(root) \in Nat /\ root = [n \in 1 .. Len(root) |-> root[n]]
         /\ Len(root) = Cardinality(Begun(Line, sp))
         /\ \A n \in 1 .. Len(root) : root[n] = CommandLines!Words(Line)[n]
         /\ Len(CommandLines!Words(Line)) = Cardinality(CommandLines!Starts(Line))
         /\ CommandLines!Words(Line)
              = [n \in 1 .. Cardinality(CommandLines!Starts(Line)) |-> CommandLines!Words(Line)[n]]
<1>1. root \in Seq(Arguments)
  BY DEF ParseOK
<1>2. Len(root) \in Nat /\ root = [n \in 1 .. Len(root) |-> root[n]]
  BY <1>1
<1>3. Cardinality(CommandLines!Starts(Line)) \in Nat
  BY LineIs, StartsAre
<1>4. CommandLines!Words(Line)
        = [n \in 1 .. Cardinality(CommandLines!Starts(Line)) |-> CommandLines!Words(Line)[n]]
  BY SameCardinality DEF CommandLines!Words
<1>5. Len(CommandLines!Words(Line)) = Cardinality(CommandLines!Starts(Line))
  BY <1>3, <1>4
<1>6. QED
  BY <1>2, <1>4, <1>5 DEF ParsingOK

\* When strtok finds no more, the list is all the words (marrowos.c:14-38,
\* string.c:124-178).
LEMMA AllFound ==
  ASSUME LineOK, ParseOK, ParsingOK, ~stale, NoMoreTokens
  PROVE  root = CommandLines!Words(Line)
<1> DEFINE S == CommandLines!Starts(Line)
           W == CommandLines!Words(Line)
<1>1. pc = "parse" /\ scommand[TokenStart] = Nul
  BY DEF NoMoreTokens
<1>2. sp \in 0 .. i /\ i \in Nat /\ \A k \in sp .. i - 1 : out[k] = Blank
  BY <1>1, TokenInLine
<1>3. Line \in Seq(Bytes) /\ Len(Line) = i /\ \A k \in 1 .. i : Line[k] = out[k - 1]
  BY LineIs
<1>4. S \subseteq 1 .. i /\ \A s \in S : Line[s] # Blank
  BY <1>3, StartsAre DEF CommandLines!Starts
<1> HIDE DEF S
<1>5. \A s \in S : s <= sp
  BY <1>2, <1>3, <1>4
<1>6. Begun(Line, sp) = S
  BY <1>5 DEF Begun, S
<1> HIDE DEF W
<1>7. /\ Len(root) = Cardinality(S) /\ root = [n \in 1 .. Len(root) |-> root[n]]
      /\ \A n \in 1 .. Len(root) : root[n] = W[n]
      /\ W = [n \in 1 .. Cardinality(S) |-> W[n]]
  BY <1>1, <1>6, RootIs DEF S, W
<1>8. QED
  BY <1>7 DEF W

\* The next token is the next word (string.c:147-178, marrowos.c:17-37).
LEMMA NextWord ==
  ASSUME LineOK, ParseOK, ParsingOK, pc = "parse", ~stale, scommand[TokenStart] # Nul
  PROVE  /\ Cardinality(Begun(Line, PlaceAfter(TokenEnd))) = Len(root) + 1
         /\ Len(root) + 1 \in 1 .. Cardinality(CommandLines!Starts(Line))
         /\ Token = CommandLines!Words(Line)[Len(root) + 1]
<1> DEFINE st == TokenStart
           en == TokenEnd
           S == CommandLines!Starts(Line)
           q == PlaceAfter(TokenEnd)
           s == st + 1
<1>1. /\ sp \in 0 .. i /\ i \in Nat /\ st \in sp .. i /\ en \in st .. i /\ st # i /\ en > st
      /\ \A k \in sp .. i : scommand[k] = out[k]
      /\ \A k \in sp .. st - 1 : out[k] = Blank
      /\ \A k \in st .. en - 1 : out[k] # Blank
      /\ en < i => out[en] = Blank
      /\ st = 0 \/ out[st - 1] = Blank
  BY TokenInLine
<1>2. Line \in Seq(Bytes) /\ Len(Line) = i /\ \A k \in 1 .. i : Line[k] = out[k - 1]
  BY LineIs
<1>3. q = IF en = i THEN en ELSE en + 1
  BY TokenInLine DEF PlaceAfter
<1> HIDE DEF st, en, q
<1>4. DOMAIN Line = 1 .. i
  BY <1>2, LenProperties
<1>5. s \in S
  <2>1. s \in 1 .. i /\ Line[s] # Blank
    BY <1>1, <1>2
  <2>2. s = 1 \/ Line[s - 1] = Blank
    BY <1>1, <1>2
  <2>3. QED
    BY <1>4, <2>1, <2>2 DEF CommandLines!Starts
<1>6. \A r \in S : r \in 1 .. i /\ Line[r] # Blank /\ (r = 1 \/ Line[r - 1] = Blank)
  BY <1>4 DEF CommandLines!Starts
<1> HIDE DEF S
<1>7. ASSUME NEW r \in S, r <= q, r > sp PROVE r = s
  <2>1. r \in 1 .. i /\ out[r - 1] # Blank /\ (r = 1 \/ out[r - 2] = Blank)
    BY <1>2, <1>6
  <2>2. r >= s
    BY <1>1, <1>7, <2>1
  <2>3. r - 1 # en
    BY <1>1, <2>1
  <2>4. r <= en
    BY <1>1, <1>3, <1>7, <2>1, <2>3
  <2>5. r = s
    BY <1>1, <2>1, <2>2, <2>4
  <2>6. QED
    BY <2>5
<1>8. Cardinality(Begun(Line, q)) = Cardinality(Begun(Line, sp)) + 1
  <2>1. sp \in Nat /\ q \in Nat /\ sp < s /\ s <= q
    BY <1>1, <1>3
  <2>2. \A r \in S : r <= q => r <= sp \/ r = s
    BY <1>6, <1>7, <2>1
  <2>3. QED
    BY <1>2, <1>5, <2>1, <2>2, OneMore DEF S
<1>9. Cardinality(Begun(Line, s)) = Cardinality(Begun(Line, sp)) + 1
  <2>1. sp \in Nat /\ s \in Nat /\ sp < s /\ s <= s
    BY <1>1
  <2>2. \A r \in S : r <= s => r <= sp \/ r = s
    BY <1>1, <1>3, <1>6, <1>7
  <2>3. QED
    BY <1>2, <1>5, <2>1, <2>2, OneMore DEF S
<1>10. /\ Cardinality(Begun(Line, s)) \in 1 .. Cardinality(S)
       /\ CommandLines!Words(Line)[Cardinality(Begun(Line, s))]
            = SubSeq(Line, s, s + CommandLines!Kept(en - s + 1) - 1)
  <2>1. en \in s .. Len(Line) /\ (en < Len(Line) => Line[en + 1] = Blank)
    BY <1>1, <1>2
  <2>2. \A k \in s .. en : Line[k] # Blank
    BY <1>1, <1>2
  <2> HIDE DEF s
  <2>3. QED
    BY <1>2, <1>5, <2>1, <2>2, WordIs DEF S
<1>11. SubSeq(Line, s, s + CommandLines!Kept(en - s + 1) - 1) = Token
  <2> DEFINE n == Copied(en - st)
  <2>1. Token = [k \in 1 .. n |-> scommand[st + k - 1]]
    BY DEF Token, st, en
  <2>2. CommandLines!Kept(en - s + 1) = n /\ n \in 0 .. en - st
    <3>1. en - st \in Nat /\ en - s + 1 = en - st
      BY <1>1
    <3>2. QED
      BY <3>1, CopiedIs
  <2> HIDE DEF n
  <2>3. SubSeq(Line, s, s + n - 1) = [k \in 1 .. n |-> Line[k + s - 1]]
    <3> DEFINE e == s + n - 1
    <3>1. s \in Nat /\ s >= 1 /\ e \in Nat /\ e <= Len(Line) /\ Len(Line) \in Nat
      BY <1>1, <1>2, <2>2
    <3>2. e - s + 1 = n
      BY <1>1, <2>2
    <3> HIDE DEF s, e
    <3>3. SubSeq(Line, s, e) = [k \in 1 .. e - s + 1 |-> Line[k + s - 1]]
      BY <1>2, <3>1
    <3>4. QED
      BY <3>2, <3>3 DEF e
  <2>4. \A k \in 1 .. n : Line[k + s - 1] = scommand[st + k - 1]
    BY <1>1, <1>2, <2>2
  <2> HIDE DEF s
  <2>5. QED
    BY <2>1, <2>2, <2>3, <2>4
<1>12. Len(root) = Cardinality(Begun(Line, sp))
  BY RootIs
<1>13. QED
  BY <1>8, <1>9, <1>10, <1>11, <1>12 DEF S, q, s

LEMMA RunLineParsing ==
  ASSUME LineOK, ParseOK, ParsingOK, RunLine
  PROVE  ParsingOK'
<1>1. /\ stale \in BOOLEAN /\ stale' = stale /\ pc = "line" /\ pc' = "parse"
      /\ stale = (sp # NoPointer)
  BY DEF RunLine, ParsingOK, ghosts
<1>2. \A k \in 0 .. i : scommand'[k] = out[k]
  BY RunLineParse
<1>3. out' = out /\ i' = i /\ Line' = Line /\ i \in Nat /\ Line \in Seq(Bytes)
  BY LineIs DEF RunLine, reading, Line
<1>4. root' = <<>> /\ Len(<<>>) = 0
  BY DEF RunLine
<1>5. Cardinality(Begun(Line, 0)) = 0
  <2>1. CommandLines!Starts(Line) \subseteq 1 .. i
    BY <1>3, LineIs, StartsAre
  <2>2. Begun(Line, 0) = {}
    BY <1>3, <2>1 DEF Begun
  <2>3. QED
    BY <2>2, FS_EmptySet
<1>6. CASE stale
  BY <1>1, <1>6 DEF ParsingOK
<1>7. CASE ~stale
  <2>1. sp' = 0
    BY <1>1, <1>7 DEF RunLine
  <2>2. /\ sp' <= i' /\ sp' \in {0, i'}
        /\ \A k \in sp' .. i' : scommand'[k] = out'[k]
        /\ Len(root') = Cardinality(Begun(Line', sp'))
        /\ \A n \in 1 .. Len(root') : root'[n] = CommandLines!Words(Line')[n]
    BY <1>2, <1>3, <1>4, <1>5, <2>1
  <2>3. QED
    BY <1>1, <1>7, <2>2 DEF ParsingOK
<1>8. QED
  BY <1>1, <1>6, <1>7

LEMMA NextTokenParsing ==
  ASSUME LineOK, ParseOK, ParsingOK, NextToken
  PROVE  ParsingOK'
<1> DEFINE W == CommandLines!Words(Line)
           en == TokenEnd
<1>1. /\ stale \in BOOLEAN /\ stale' = stale /\ pc = "parse" /\ scommand[TokenStart] # Nul
      /\ scommand' = [scommand EXCEPT ![en] = Nul]
      /\ sp' = PlaceAfter(en)
      /\ \/ root' = Append(root, Token) /\ pc' = "parse"
         \/ root' = root /\ pc' = "parsed"
  BY DEF NextToken, ParsingOK, ghosts
<1>2. out' = out /\ i' = i /\ Line' = Line
  BY DEF NextToken, reading, Line
<1>3. CASE stale
  BY <1>1, <1>3 DEF ParsingOK
<1>4. CASE ~stale
  <2>1. /\ i \in Nat /\ en \in 0 .. i /\ sp \in 0 .. i /\ sp <= en
        /\ \A k \in sp .. i : scommand[k] = out[k]
        /\ en < i => scommand[en] = Blank /\ out[en] = Blank
        /\ scommand[i] = Nul /\ Nul # Blank
    BY <1>1, <1>4, TokenInLine
  <2>2. /\ Cardinality(Begun(Line, sp')) = Len(root) + 1
        /\ Len(root) + 1 \in 1 .. Cardinality(CommandLines!Starts(Line))
        /\ Token = W[Len(root) + 1]
    BY <1>1, <1>4, NextWord
  <2>3. /\ Len(root) \in Nat /\ root = [n \in 1 .. Len(root) |-> root[n]]
        /\ \A n \in 1 .. Len(root) : root[n] = W[n]
        /\ Len(W) = Cardinality(CommandLines!Starts(Line))
    BY <1>1, <1>4, RootIs
  <2> HIDE DEF en, W
  <2>4. sp' = IF en = i THEN en ELSE en + 1
    BY <1>1, <2>1 DEF PlaceAfter
  <2>5. CASE root' = Append(root, Token) /\ pc' = "parse"
    <3>1. sp' <= i /\ (sp' \in {0, i} \/ out[sp' - 1] = Blank)
      BY <2>1, <2>4
    <3>2. \A k \in sp' .. i : scommand'[k] = out[k]
      <4>1. scommand \in [0 .. BufSize - 1 -> Bytes] /\ i < BufSize /\ BufSize \in Nat
        BY BufferSize DEF ParseOK, LineOK
      <4>2. QED
        BY <1>1, <2>1, <2>4, <4>1
    <3>3. Len(root') = Len(root) + 1 /\ \A n \in 1 .. Len(root') : root'[n] = W[n]
      <4>1. root \in Seq(Arguments)
        BY DEF ParseOK
      <4>2. Token \in Arguments
        BY <1>1, TokenType DEF ParseOK
      <4>3. /\ Len(root') = Len(root) + 1
            /\ root'[Len(root) + 1] = Token
            /\ \A n \in 1 .. Len(root) : root'[n] = root[n]
        BY <2>5, <4>1, <4>2, AppendProperties
      <4>4. QED
        BY <2>2, <2>3, <4>3
    <3>4. /\ sp' <= i' /\ (sp' \in {0, i'} \/ out'[sp' - 1] = Blank)
          /\ \A k \in sp' .. i' : scommand'[k] = out'[k]
          /\ Len(root') = Cardinality(Begun(Line', sp'))
          /\ \A n \in 1 .. Len(root') : root'[n] = CommandLines!Words(Line')[n]
      BY <1>2, <2>2, <3>1, <3>2, <3>3 DEF W
    <3>5. QED
      BY <1>1, <1>4, <2>5, <3>4 DEF ParsingOK
  <2>6. CASE root' = root /\ pc' = "parsed"
    <3>1. sp' # NoPointer
      <4>1. sp' \in 0 .. BufSize
        BY <2>1, <2>4, BufferSize DEF LineOK
      <4>2. QED
        BY <4>1, ConsoleConstants
    <3>2. Len(root) \in 0 .. Len(W) - 1
      BY <2>2, <2>3
    <3>3. root = SubSeq(W, 1, Len(root))
      <4>1. SubSeq(W, 1, Len(root)) = [n \in 1 .. Len(root) |-> W[n]]
        BY <2>3
      <4>2. [n \in 1 .. Len(root) |-> W[n]] = [n \in 1 .. Len(root) |-> root[n]]
        BY <2>3
      <4>3. QED
        BY <2>3, <4>1, <4>2
    <3>4. \E n \in 0 .. Len(CommandLines!Words(Line')) - 1 :
            root' = SubSeq(CommandLines!Words(Line'), 1, n)
      BY <1>2, <2>6, <3>2, <3>3 DEF W
    <3>5. QED
      BY <1>1, <1>4, <2>6, <3>1, <3>4 DEF ParsingOK
  <2>7. QED
    BY <1>1, <2>5, <2>6
<1>5. QED
  BY <1>1, <1>3, <1>4

LEMMA ParsingStep ==
  ASSUME LineOK, ParseOK, ParsingOK, [Next]_vars
  PROVE  ParsingOK'
<1>1. CASE RunLine
  BY <1>1, RunLineParsing
<1>2. CASE NextToken
  BY <1>2, NextTokenParsing
<1>3. CASE NoMoreTokens
  <2>1. /\ stale' = stale /\ stale \in BOOLEAN /\ pc' = "parsed" /\ sp' = NoPointer
        /\ root' = root /\ Line' = Line
    BY <1>3 DEF NoMoreTokens, ParsingOK, ghosts, reading, Line
  <2>2. ~stale => root = CommandLines!Words(Line)
    BY <1>3, AllFound
  <2>3. ~stale => root' = CommandLines!Words(Line')
    BY <2>1, <2>2
  <2>4. QED
    BY <2>1, <2>3 DEF ParsingOK
<1>4. CASE Prompt \/ GetKey \/ NoKeyYet \/ EndLine \/ TakeKey \/ CommandDone
  <2>1. /\ UNCHANGED <<stale, sp>>
        /\ pc \notin {"parse", "parsed"} /\ pc' \notin {"parse", "parsed"}
    BY <1>4 DEF Prompt, GetKey, NoKeyYet, EndLine, TakeKey, CommandDone, ghosts, parsing
  <2>2. QED
    BY <2>1 DEF ParsingOK
<1>5. CASE GiveUp \/ System
  <2>1. stale' = (sp # NoPointer) /\ sp' = sp /\ pc' = "done"
    BY <1>5 DEF GiveUp, System, Parsed, parsing
  <2>2. QED
    BY <2>1 DEF ParsingOK
<1>6. CASE OtherPrints \/ DivideByZero \/ OtherEnds \/ KeyInterrupt \/ Tick \/ UNCHANGED vars
  <2>1. UNCHANGED <<stale, pc, parsing, reading>>
    BY <1>6 DEF OtherPrints, DivideByZero, Shows, OtherEnds, KeyInterrupt, Tick, vars, ghosts
  <2>2. UNCHANGED <<stale, pc, sp, scommand, root, out, i, Line>>
    BY <2>1 DEF parsing, reading, Line
  <2>3. QED
    BY <2>2 DEF ParsingOK
<1>7. QED
  BY <1>1, <1>2, <1>3, <1>4, <1>5, <1>6 DEF Next, ShellStep

------------------------------------------------------------------------------
(* The shell implements the command line.                                    *)

\* The line and its end as the command line sees them.
TheLine == IF pc \in {"prompt", "done"} THEN <<>> ELSE [k \in 1 .. i |-> out[k - 1]]
Ended == pc \in {"line", "parse", "parsed"}

Implemented == CommandLines!Next \/ UNCHANGED <<TheLine, given, stale, Ended, key>>

\* A key is taken as readline says (marrowos.c:57-85).
LEMMA TakeKeyImplements ==
  ASSUME RegistersOK, LineOK, TakeKey
  PROVE  CommandLines!Type \/ CommandLines!Correct
<1> DEFINE c == eax
           o == Edited(c)[1]
           j == Edited(c)[2]
<1>1. /\ pc = "key" /\ running = Shell /\ c \in Keys \ {Enter} /\ c = key /\ key # Zero
      /\ key' = Zero /\ given' = given /\ stale' = stale
      /\ i < BufSize - 1
      /\ pc' = IF j = BufSize - 1 THEN "line" ELSE "read"
  BY TakeKeyLine DEF TakeKey, RegistersOK, ShellEax, LineOK
<1>2. i' = j /\ \A k \in 0 .. j - 1 : out'[k] = o[k]
  BY TakeKeyLine
<1>3. /\ j \in 0 .. BufSize - 1
      /\ \/ /\ c = Backspace /\ i >= 1 /\ j = i - 1
            /\ \A k \in 0 .. j - 1 : o[k] = out[k]
         \/ /\ ~ (c = Backspace /\ i >= 1) /\ j = i + 1 /\ o[i] = c
            /\ \A k \in 0 .. i - 1 : o[k] = out[k]
  BY <1>1, EditedLine
<1>4. /\ Line \in Seq(Bytes) /\ Len(Line) = i /\ i \in Nat
      /\ \A k \in 1 .. i : Line[k] = out[k - 1]
  BY LineIs
<1> HIDE DEF o, j, c
<1>5. Line' = [k \in 1 .. j |-> o[k - 1]]
  <2>1. \A k \in 1 .. j : out'[k - 1] = o[k - 1]
    BY <1>2, <1>3, BufferSize
  <2>2. Line' = [k \in 1 .. j |-> out'[k - 1]]
    BY <1>2 DEF Line
  <2>3. QED
    BY <2>1, <2>2
<1>6. j \in Nat /\ Len(Line') = j
  BY <1>3, <1>5, BufferSize
<1>7. TheLine = Line /\ TheLine' = Line' /\ ~Ended /\ (Ended' <=> j = BufSize - 1)
  BY <1>1 DEF TheLine, Line, Ended
<1>8. /\ key # Zero /\ ~Ended /\ key' = Zero /\ given' = given /\ stale' = stale
      /\ Ended' = (Len(Line') = BufSize - 1 \/ key = Enter)
  <2>1. key # Enter
    BY <1>1
  <2>2. Ended' = (Len(Line') = BufSize - 1 \/ key = Enter)
    BY <1>6, <1>7, <2>1 DEF Ended
  <2>3. QED
    BY <1>1, <1>7, <2>2
<1>9. CASE c = Backspace /\ i >= 1
  <2>1. j = i - 1 /\ \A k \in 0 .. j - 1 : o[k] = out[k]
    BY <1>3, <1>9
  <2>2. SubSeq(Line, 1, i - 1) = [k \in 1 .. i - 1 |-> Line[k]]
    BY <1>4
  <2>3. \A k \in 1 .. i - 1 : Line[k] = o[k - 1]
    BY <1>4, <2>1
  <2>4. Line' = SubSeq(Line, 1, Len(Line) - 1) /\ Line # <<>>
    BY <1>4, <1>5, <1>9, <2>1, <2>2, <2>3
  <2>5. key = Backspace
    BY <1>1, <1>9 DEF c
  <2>6. CommandLines!Takes(IF TheLine = <<>> THEN <<Backspace>> ELSE SubSeq(TheLine, 1, Len(TheLine) - 1))
    BY <1>7, <1>8, <2>4 DEF CommandLines!Takes, TheLine, Ended
  <2>7. QED
    BY <2>5, <2>6 DEF CommandLines!Correct, TheLine
<1>10. CASE ~ (c = Backspace /\ i >= 1)
  <2>1. j = i + 1 /\ o[i] = c /\ \A k \in 0 .. i - 1 : o[k] = out[k]
    BY <1>3, <1>10
  <2>2. Line' = Append(Line, c)
    <3>1. c \in Bytes
      BY <1>1 DEF c, Bytes, Keys
    <3>2. /\ Append(Line, c) \in Seq(Bytes) /\ Len(Append(Line, c)) = i + 1
          /\ \A k \in 1 .. i : Append(Line, c)[k] = Line[k]
          /\ Append(Line, c)[i + 1] = c
      BY <1>4, <3>1, AppendProperties
    <3>3. \A k \in 1 .. i + 1 : Append(Line, c)[k] = o[k - 1]
      BY <1>4, <2>1, <3>2
    <3>4. Append(Line, c) = [k \in 1 .. i + 1 |-> Append(Line, c)[k]]
      <4> DEFINE a == Append(Line, c)
      <4>1. a \in Seq(Bytes) /\ Len(a) = i + 1
        BY <3>2
      <4> HIDE DEF a
      <4>2. a \in [1 .. i + 1 -> Bytes]
        BY <4>1, LenProperties
      <4>3. a = [k \in 1 .. i + 1 |-> a[k]]
        BY <4>2
      <4>4. QED
        BY <4>3 DEF a
    <3>5. QED
      BY <1>5, <2>1, <3>3, <3>4
  <2>3. CASE c = Backspace
    <3>1. Line = <<>>
      BY <1>4, <1>10, <2>3
    <3>2. Line' = <<Backspace>>
      BY <2>2, <2>3, <3>1
    <3>3. CommandLines!Takes(IF TheLine = <<>> THEN <<Backspace>> ELSE SubSeq(TheLine, 1, Len(TheLine) - 1))
      BY <1>7, <1>8, <3>1, <3>2 DEF CommandLines!Takes, TheLine, Ended
    <3>4. key = Backspace
      BY <1>1, <2>3 DEF c
    <3>5. QED
      BY <3>3, <3>4 DEF CommandLines!Correct, TheLine
  <2>4. CASE c # Backspace
    <3>1. key \in Characters /\ c = key
      BY <1>1, <2>4 DEF c, Keys
    <3>2. CommandLines!Takes(Append(TheLine, key))
      BY <1>7, <1>8, <2>2, <3>1 DEF CommandLines!Takes, TheLine, Ended
    <3>3. QED
      BY <3>1, <3>2 DEF CommandLines!Type, TheLine
  <2>5. QED
    BY <2>3, <2>4
<1>11. QED
  BY <1>9, <1>10

LEMMA ReadingImplements ==
  ASSUME RegistersOK, LineOK, GetKey \/ EndLine \/ TakeKey
  PROVE  Implemented
<1>1. CASE GetKey
  <2>1. /\ pc = "read" /\ pc' = "key" /\ UNCHANGED <<out, i, given, stale>>
        /\ key' \in Keys \/ key' = key
    BY <1>1 DEF GetKey, reading
  <2>2. key = Zero
    BY <2>1 DEF RegistersOK
  <2>3. TheLine' = TheLine /\ Ended = FALSE /\ Ended' = FALSE
    BY <2>1 DEF TheLine, Ended
  <2>4. CASE key' = key
    BY <2>1, <2>3, <2>4 DEF Implemented
  <2>5. CASE key' \in Keys
    <3>1. CommandLines!NextKey
      BY <2>1, <2>2, <2>3, <2>5 DEF CommandLines!NextKey, Keys, TheLine, Ended
    <3>2. QED
      BY <3>1 DEF Implemented, CommandLines!Next
  <2>6. QED
    BY <2>1, <2>4, <2>5
<1>2. CASE EndLine
  <2>1. /\ pc = "key" /\ pc' = "line" /\ UNCHANGED <<i, given, stale>> /\ key' = Zero
        /\ running = Shell /\ eax = Enter /\ out' = [out EXCEPT ![i] = Nul]
    BY <1>2 DEF EndLine
  <2>2. key = Enter /\ key # Zero
    BY <2>1, ConsoleConstants DEF RegistersOK, ShellEax
  <2>3. Line' = Line
    <3>1. \A k \in 1 .. i : out'[k - 1] = out[k - 1]
      BY <2>1, BufferSize DEF LineOK
    <3>2. QED
      BY <2>1, <3>1 DEF Line
  <2>4. TheLine' = TheLine /\ Ended = FALSE /\ Ended' = TRUE
    BY <2>1, <2>3 DEF TheLine, Line, Ended
  <2>5. Ended' = (Len(TheLine) = BufSize - 1 \/ key = Enter)
    BY <2>2, <2>4
  <2>6. CommandLines!Takes(TheLine)
    BY <2>1, <2>2, <2>4, <2>5 DEF CommandLines!Takes, TheLine, Ended
  <2>7. CommandLines!End
    BY <2>2, <2>6 DEF CommandLines!End, TheLine
  <2>8. QED
    BY <2>7 DEF Implemented, CommandLines!Next
<1>3. CASE TakeKey
  BY <1>3, TakeKeyImplements DEF Implemented, CommandLines!Next
<1>4. QED
  BY <1>1, <1>2, <1>3

\* What is given to the kernel is the words, unless memory ran out in this command
\* or in the one before (shell.c:12-17, marrowos.c:4-55).
LEMMA ParsedImplements ==
  ASSUME LineOK, ParseOK, ParsingOK, Parsed
  PROVE  CommandLines!Run \/ CommandLines!RunShortOfMemory \/ CommandLines!RunAnother
<1> DEFINE W == CommandLines!Words(Line)
<1>1. /\ pc = "parsed" /\ pc' = "done" /\ given' = root /\ key' = key
      /\ stale' = (sp # NoPointer) /\ stale \in BOOLEAN
  BY DEF Parsed, ParsingOK
<1>2. TheLine = Line /\ TheLine' = <<>> /\ Ended = TRUE /\ Ended' = FALSE
  BY <1>1 DEF TheLine, Line, Ended
<1>3. CommandLines!Done
  BY <1>1, <1>2 DEF CommandLines!Done, TheLine, Ended
<1>4. CASE stale
  BY <1>1, <1>3, <1>4 DEF CommandLines!RunAnother
<1>5. CASE ~stale /\ sp = NoPointer
  <2>1. root = W
    BY <1>1, <1>5 DEF ParsingOK
  <2>2. stale' = stale
    BY <1>1, <1>5
  <2>3. given' = CommandLines!Words(TheLine)
    BY <1>1, <1>2, <2>1
  <2>4. QED
    BY <1>3, <1>5, <2>2, <2>3 DEF CommandLines!Run, TheLine
<1>6. CASE ~stale /\ sp # NoPointer
  <2>1. \E n \in 0 .. Len(W) - 1 : root = SubSeq(W, 1, n)
    BY <1>1, <1>6 DEF ParsingOK
  <2>2. stale' = TRUE
    BY <1>1, <1>6
  <2>3. \E n \in 0 .. Len(CommandLines!Words(TheLine)) - 1 :
          given' = SubSeq(CommandLines!Words(TheLine), 1, n)
    BY <1>1, <1>2, <2>1
  <2>4. QED
    BY <1>3, <1>6, <2>2, <2>3 DEF CommandLines!RunShortOfMemory, TheLine
<1>7. QED
  BY <1>1, <1>4, <1>5, <1>6

LEMMA InitImplements == Init => CommandLines!Init
<1> SUFFICES ASSUME Init PROVE CommandLines!Init
  OBVIOUS
<1>1. pc = "prompt" /\ given = <<>> /\ key = Zero
  BY DEF Init
<1>2. stale = FALSE
  BY Zenon DEF Init
<1>3. TheLine = <<>> /\ Ended = FALSE
  BY <1>1 DEF TheLine, Ended
<1>4. QED
  BY <1>1, <1>2, <1>3 DEF CommandLines!Init, TheLine, Ended

LEMMA NextImplements == IInv /\ [Next]_vars => Implemented
<1> SUFFICES ASSUME IInv, [Next]_vars PROVE Implemented
  OBVIOUS
<1>1. CASE GetKey \/ EndLine \/ TakeKey
  BY <1>1, ReadingImplements DEF IInv
<1>2. CASE GiveUp \/ System
  BY <1>2, ParsedImplements DEF IInv, GiveUp, System, Implemented, CommandLines!Next
<1>3. CASE Prompt
  <2>1. pc = "prompt" /\ pc' = "read" /\ i' = 0 /\ UNCHANGED <<given, stale, key>>
    BY <1>3 DEF Prompt
  <2>2. TheLine = <<>> /\ TheLine' = <<>> /\ Ended = FALSE /\ Ended' = FALSE
    BY <2>1 DEF TheLine, Ended
  <2>3. QED
    BY <2>1, <2>2 DEF Implemented
<1>4. CASE NoKeyYet \/ RunLine \/ NoMoreTokens \/ NextToken
  <2>1. /\ UNCHANGED <<reading, ghosts>> /\ pc \notin {"prompt", "done"} /\ pc' \notin {"prompt", "done"}
        /\ (pc \in {"line", "parse", "parsed"}) = (pc' \in {"line", "parse", "parsed"})
    BY <1>4 DEF NoKeyYet, RunLine, NoMoreTokens, NextToken
  <2>2. UNCHANGED <<TheLine, given, stale, Ended, key>>
    BY <2>1 DEF reading, ghosts, TheLine, Ended
  <2>3. QED
    BY <2>2 DEF Implemented
<1>5. CASE CommandDone
  <2>1. UNCHANGED ghosts /\ pc = "done" /\ pc' = "prompt"
    BY <1>5 DEF CommandDone
  <2>2. UNCHANGED <<TheLine, given, stale, Ended, key>>
    BY <2>1 DEF ghosts, TheLine, Ended
  <2>3. QED
    BY <2>2 DEF Implemented
<1>6. CASE OtherPrints \/ DivideByZero \/ OtherEnds \/ KeyInterrupt \/ Tick \/ UNCHANGED vars
  <2>1. UNCHANGED <<pc, reading, key, given, stale>>
    BY <1>6 DEF OtherPrints, DivideByZero, Shows, OtherEnds, KeyInterrupt, Tick, vars, ghosts
  <2>2. UNCHANGED <<TheLine, given, stale, Ended, key>>
    BY <2>1 DEF reading, TheLine, Ended
  <2>3. QED
    BY <2>2 DEF Implemented
<1>7. QED
  BY <1>1, <1>2, <1>3, <1>4, <1>5, <1>6 DEF Next, ShellStep

------------------------------------------------------------------------------
(* The theorems.                                                             *)

LEMMA InitIInv == Init => IInv
<1> SUFFICES ASSUME Init PROVE IInv
  OBVIOUS
<1>1. BufSize \in Nat /\ BufSize > 1 /\ Nul \in Bytes
  BY BufferSize
<1>2. ScreenOK
  <2> DEFINE mem == [x \in Cells |-> Blank]
  <2>1. Blank \in Glyphs
    BY DEF Glyphs, Characters
  <2>2. mem \in [Cells -> Glyphs]
    BY <2>1
  <2>3. terminal = [video_mem |-> mem, row |-> 0, col |-> 0, past |-> {}]
    BY DEF Init, TerminalInit
  <2> HIDE DEF mem
  <2>4. terminal \in Screen /\ terminal.col = 0
    BY <2>2, <2>3, Sizes DEF Screen
  <2>5. QED
    BY <2>4, Sizes DEF ScreenOK, Placed
<1>3. RegistersOK
  BY ConsoleConstants DEF Init, ContextInit, RegistersOK, Values
<1>4. LineOK
  BY <1>1 DEF Init, LineOK
<1>5. ParseOK
  <2>1. <<>> \in Seq(Arguments) /\ Len(<<>>) = 0
    OBVIOUS
  <2>2. root = <<>> /\ held = 0 /\ sp = NoPointer /\ pc = "prompt"
        /\ scommand = [k \in 0 .. BufSize - 1 |-> Nul]
    BY DEF Init
  <2>3. scommand \in [0 .. BufSize - 1 -> Bytes]
    BY <1>1, <2>2
  <2>4. held \in Nat /\ Len(root) <= held /\ held <= MaxAllocs
    BY <2>1, <2>2, ConsoleConstants
  <2>5. QED
    BY <2>1, <2>2, <2>3, <2>4 DEF ParseOK
<1>6. EchoOK
  <2>1. pc = "prompt" /\ origin = 0
    BY DEF Init
  <2>2. disturbed = FALSE
    BY Zenon DEF Init
  <2>3. disturbed \in BOOLEAN
    BY <2>2
  <2>4. QED
    BY <2>1, <2>3 DEF EchoOK
<1>7. ParsingOK
  <2>1. pc = "prompt" /\ sp = NoPointer
    BY DEF Init
  <2>2. stale = FALSE
    BY Zenon DEF Init
  <2>3. stale \in BOOLEAN /\ stale = (sp # NoPointer)
    BY <2>1, <2>2
  <2>4. QED
    BY <2>1, <2>3 DEF ParsingOK
<1>8. QED
  BY <1>2, <1>3, <1>4, <1>5, <1>6, <1>7 DEF IInv

LEMMA NextIInv == IInv /\ [Next]_vars => IInv'
BY ScreenStep, RegistersStep, LineStep, ParseStep, EchoStep, ParsingStep DEF IInv

\* The invariant: the screen, the registers, the line, the parser, the echo and the words.
THEOREM ConsoleInvariant == Spec => []IInv
BY InitIInv, NextIInv, PTL DEF Spec

\* No index of the shell leaves its buffer, no loop of the parser its copy of the
\* line, and every word fits in its argument with the null byte behind it, whatever is
\* typed and when (marrowos.c:25-85, string.c:104-178).
THEOREM TypeCorrect == Spec => []TypeOK
<1>1. IInv => TypeOK
  <2>1. root \in Seq(Arguments) => \A n \in DOMAIN root : Len(root[n]) < ArgumentSize
    BY DEF Arguments
  <2>2. QED
    BY <2>1 DEF IInv, TypeOK, RegistersOK, LineOK, ParseOK, Values, Bytes
<1>2. QED
  BY <1>1, ConsoleInvariant, PTL

\* The line on the screen is the line, for every width and height of the screen
\* (kernel.c:40-78, marrowos.c:57-85).
THEOREM EchoIsTheLine == Spec => []EchoMatchesLine
<1>1. IInv => EchoMatchesLine
  BY DEF IInv, EchoOK, EchoMatchesLine
<1>2. QED
  BY <1>1, ConsoleInvariant, PTL

\* What is stored behind the screen is in a row behind it, unless the cursor is
\* adrift (kernel.c:40-78).
THEOREM PrintsOnTheScreen == Spec => StaysOnScreen
<1> DEFINE A == Adrift(terminal) \/ Adrift(terminal') \/ \A row \in terminal'.past : row >= VGA_HEIGHT
<1>1. IInv /\ [Next]_vars => [A]_terminal
  BY ScreenStep DEF IInv, Behind
<1>2. QED
  BY <1>1, ConsoleInvariant, PTL DEF Spec, StaysOnScreen

\* Every key is taken once and the words that are run are those of the line, each cut
\* to what an argument holds, or the first of them when memory ends, for every size of
\* the buffer and of an argument, any number of keys and whatever runs beside the
\* shell: the shell implements the command line (marrowos.c:4-85, string.c:104-178).
THEOREM ShellImplementsCommandLine == Spec => ImplementsCommandLine
<1>1. IInv /\ [Next]_vars =>
        [CommandLines!Next]_<<IF pc \in {"prompt", "done"} THEN <<>> ELSE [k \in 1 .. i |-> out[k - 1]],
                              given, stale, pc \in {"line", "parse", "parsed"}, key>>
  BY NextImplements DEF Implemented, TheLine, Ended
<1>2. QED
  BY <1>1, InitImplements, ConsoleInvariant, PTL
     DEF Spec, ImplementsCommandLine, CommandLines!Spec

------------------------------------------------------------------------------
(* Numbers and formats: what Stdio says of printf holds for every word of up *)
(* to 64 bits.                                                               *)

\* A power, turn by turn.
PowerStep(b) == [x \in Nat \X (Nat \ {0}) |-> b * x[2]]

LEMMA PowerTurns ==
  ASSUME NEW b \in Nat \ {0}, NEW n \in Nat
  PROVE  \E f : Turns(f, Nat \ {0}, 1, PowerStep(b), n) /\ Power(b, n) = f[n]
<1> DEFINE X == Nat \ {0}
           step == PowerStep(b)
           Body(f) == [k \in 0 .. n |-> IF k = 0 THEN 1 ELSE b * f[k - 1]]
           power == CHOOSE f : f = Body(f)
<1>1. step \in [Nat \X X -> X]
  BY DEF PowerStep
<1>2. PICK f : Turns(f, X, 1, step, n)
  <2>1. 1 \in X
    OBVIOUS
  <2> HIDE DEF step, X
  <2>2. QED
    BY <1>1, <2>1, TurnsExist
<1>3. f = Body(f)
  <2>1. f \in [0 .. n -> X] /\ f[0] = 1
    BY <1>2 DEF Turns
  <2>2. ASSUME NEW k \in 1 .. n PROVE f[k] = b * f[k - 1]
    <3>1. k \in Nat /\ k - 1 \in 0 .. n
      OBVIOUS
    <3>2. f[k - 1] \in X
      BY <2>1, <3>1
    <3>3. f[k] = step[<<k, f[k - 1]>>]
      BY <1>2 DEF Turns
    <3>4. QED
      BY <3>1, <3>2, <3>3 DEF PowerStep
  <2>3. ASSUME NEW k \in 0 .. n PROVE f[k] = Body(f)[k]
    BY <2>1, <2>2
  <2>4. QED
    BY <2>1, <2>3
<1>4. power = Body(power)
  BY <1>3
<1>5. Power(b, n) = power[n]
  BY DEF Power
<1> HIDE DEF power
<1>6. power[0] = 1 /\ \A k \in 1 .. n : power[k] = b * power[k - 1]
  BY <1>4
<1> DEFINE S == {k \in Nat : k <= n => power[k] = f[k]}
<1>7. 0 \in S
  BY <1>3, <1>6
<1>8. ASSUME NEW k \in Nat, k \in S PROVE k + 1 \in S
  <2> SUFFICES ASSUME k + 1 <= n PROVE power[k + 1] = f[k + 1]
    OBVIOUS
  <2>1. k + 1 \in 1 .. n /\ (k + 1) - 1 = k /\ power[k] = f[k] /\ k + 1 \in 0 .. n
    BY <1>8
  <2>2. power[k + 1] = b * power[k]
    BY <1>6, <2>1
  <2>3. f[k + 1] = b * f[k]
    BY <1>3, <2>1
  <2>4. QED
    BY <2>1, <2>2, <2>3
<1> HIDE DEF S
<1>9. Nat \subseteq S
  BY <1>7, <1>8, Induct
<1>10. power[n] = f[n]
  BY <1>9 DEF S
<1>11. QED
  BY <1>2, <1>5, <1>10

\* A power is a product.
LEMMA PowerIs ==
  ASSUME NEW b \in Nat \ {0}
  PROVE  /\ Power(b, 0) = 1
         /\ \A n \in Nat : Power(b, n) \in Nat \ {0} /\ Power(b, n + 1) = b * Power(b, n)
<1>1. Power(b, 0) = 1
  BY PowerTurns DEF Turns
<1>2. ASSUME NEW n \in Nat
      PROVE  Power(b, n) \in Nat \ {0} /\ Power(b, n + 1) = b * Power(b, n)
  <2>1. PICK f : Turns(f, Nat \ {0}, 1, PowerStep(b), n) /\ Power(b, n) = f[n]
    BY PowerTurns
  <2> DEFINE m == n + 1
  <2>2. m \in Nat /\ m \in 1 .. m /\ m - 1 = n /\ n <= m
    OBVIOUS
  <2> HIDE DEF m
  <2>3. PICK g : Turns(g, Nat \ {0}, 1, PowerStep(b), m) /\ Power(b, m) = g[m]
    BY <2>2, PowerTurns
  <2>4. f[n] = g[n]
    BY <2>1, <2>2, <2>3, TurnsAgree
  <2>5. f[n] \in Nat \ {0}
    BY <2>1 DEF Turns
  <2>6. g[m] = PowerStep(b)[<<m, g[n]>>]
    BY <2>2, <2>3 DEF Turns
  <2>7. g[m] = b * g[n]
    BY <2>2, <2>4, <2>5, <2>6 DEF PowerStep
  <2>8. QED
    BY <2>1, <2>3, <2>4, <2>5, <2>7 DEF m
<1>3. QED
  BY <1>1, <1>2

LEMMA PowerAdd ==
  ASSUME NEW b \in Nat \ {0}, NEW m \in Nat, NEW n \in Nat
  PROVE  Power(b, m + n) = Power(b, m) * Power(b, n)
<1> DEFINE P(k) == Power(b, k)
           S == {k \in Nat : P(m + k) = P(m) * P(k)}
<1>1. P(0) = 1 /\ \A k \in Nat : P(k) \in Nat \ {0} /\ P(k + 1) = b * P(k)
  BY PowerIs
<1> HIDE DEF P
<1>2. 0 \in S
  BY <1>1
<1>3. ASSUME NEW k \in Nat, k \in S PROVE k + 1 \in S
  <2>1. m + k \in Nat /\ m + (k + 1) = (m + k) + 1
    OBVIOUS
  <2>2. P(m + (k + 1)) = b * P(m + k) /\ P(k + 1) = b * P(k) /\ P(m + k) = P(m) * P(k)
    BY <1>1, <1>3, <2>1
  <2>3. P(m) \in Nat /\ P(k) \in Nat
    BY <1>1
  <2>4. b * (P(m) * P(k)) = P(m) * (b * P(k))
    BY <2>3
  <2>5. QED
    BY <2>2, <2>4
<1> HIDE DEF S
<1>4. Nat \subseteq S
  BY <1>2, <1>3, Induct
<1>5. QED
  BY <1>4 DEF S, P

\* A larger exponent gives more.
LEMMA PowerGrows ==
  ASSUME NEW b \in Nat \ {0, 1}, NEW m \in Nat, NEW n \in Nat
  PROVE  /\ m <= n => Power(b, m) <= Power(b, n)
         /\ m < n => Power(b, m) < Power(b, n)
<1> DEFINE P(k) == Power(b, k)
<1>1. P(0) = 1 /\ \A k \in Nat : P(k) \in Nat \ {0} /\ P(k + 1) = b * P(k)
  BY PowerIs
<1> HIDE DEF P
<1>2. \A k \in Nat : P(k) < P(k + 1)
  <2> SUFFICES ASSUME NEW k \in Nat PROVE P(k) < P(k + 1)
    OBVIOUS
  <2> DEFINE p == P(k)
  <2>1. p \in Nat \ {0} /\ P(k + 1) = b * p
    BY <1>1
  <2> HIDE DEF p
  <2>2. b * p > p
    BY <2>1
  <2>3. QED
    BY <2>1, <2>2 DEF p
<1> DEFINE S == {k \in Nat : P(m) <= P(m + k) /\ (k > 0 => P(m) < P(m + k))}
<1>3. 0 \in S
  BY <1>1
<1>4. ASSUME NEW k \in Nat, k \in S PROVE k + 1 \in S
  <2>1. m + k \in Nat /\ m + (k + 1) = (m + k) + 1
    OBVIOUS
  <2>2. P(m + k) < P((m + k) + 1) /\ P(m) <= P(m + k)
    BY <1>2, <1>4, <2>1
  <2>3. P(m) \in Nat /\ P(m + k) \in Nat /\ P((m + k) + 1) \in Nat
    BY <1>1, <2>1
  <2>4. P(m) < P(m + (k + 1))
    BY <2>1, <2>2, <2>3
  <2>5. QED
    BY <2>3, <2>4, <2>1
<1> HIDE DEF S
<1>5. Nat \subseteq S
  BY <1>3, <1>4, Induct
<1>6. ASSUME m <= n PROVE P(m) <= P(n) /\ (m < n => P(m) < P(n))
  <2>1. n - m \in S /\ m + (n - m) = n
    BY <1>5, <1>6
  <2>2. QED
    BY <2>1 DEF S
<1>7. QED
  BY <1>6 DEF P

\* And so does a larger base.
LEMMA PowerOfTwo ==
  ASSUME NEW b \in Nat \ {0, 1}, NEW n \in Nat
  PROVE  Power(2, n) <= Power(b, n)
<1> DEFINE P(k) == Power(b, k)
           T(k) == Power(2, k)
           S == {k \in Nat : T(k) <= P(k)}
<1>1. P(0) = 1 /\ \A k \in Nat : P(k) \in Nat \ {0} /\ P(k + 1) = b * P(k)
  BY PowerIs
<1>2. T(0) = 1 /\ \A k \in Nat : T(k) \in Nat \ {0} /\ T(k + 1) = 2 * T(k)
  BY PowerIs
<1> HIDE DEF P, T
<1>3. 0 \in S
  BY <1>1, <1>2
<1>4. ASSUME NEW k \in Nat, k \in S PROVE k + 1 \in S
  <2> DEFINE p == P(k)
             t == T(k)
  <2>1. p \in Nat /\ t \in Nat /\ t <= p /\ P(k + 1) = b * p /\ T(k + 1) = 2 * t
    BY <1>1, <1>2, <1>4
  <2> HIDE DEF p, t
  <2>2. 2 * t <= b * p
    BY <2>1
  <2>3. QED
    BY <2>1, <2>2
<1> HIDE DEF S
<1>5. Nat \subseteq S
  BY <1>3, <1>4, Induct
<1>6. QED
  BY <1>5 DEF S, P, T

------------------------------------------------------------------------------
(* Numerals.                                                                 *)

\* The n last digits of v.
DigitsOf(v, base, n) == [k \in 1 .. n |-> (v \div Power(base, n - k)) % base]

\* The number of digits v needs.
Needs(v, base, n) == v < Power(base, n) /\ (n = 1 \/ v >= Power(base, n - 1))

LEMMA NumeralIs ==
  ASSUME NEW v \in Nat, v < Power(2, Bits), NEW base \in Nat \ {0, 1}
  PROVE  \E n \in 1 .. Bits : Needs(v, base, n) /\ Numeral(v, base) = DigitsOf(v, base, n)
<1> DEFINE P(k) == Power(base, k)
           S == {k \in Nat : v < P(k)}
<1>1. Bits \in Nat \ {0, 1}
  BY StdioConstants
<1>2. P(0) = 1 /\ \A k \in Nat : P(k) \in Nat \ {0} /\ P(k + 1) = base * P(k)
  BY PowerIs
<1>3. v < P(Bits)
  <2>1. Power(2, Bits) <= P(Bits) /\ Power(2, Bits) \in Nat
    BY <1>1, PowerOfTwo, PowerIs
  <2> HIDE DEF P
  <2>2. P(Bits) \in Nat
    BY <1>1, <1>2
  <2>3. QED
    BY <2>1, <2>2
<1> HIDE DEF P
<1>4. Bits \in S
  BY <1>1, <1>3
<1>5. PICK m \in S : \A k \in S : m <= k
  <2>1. S \in SUBSET Nat /\ S # {}
    BY <1>4
  <2> HIDE DEF S
  <2>2. QED
    BY <2>1, LeastIn
<1>6. m \in Nat /\ v < P(m) /\ m <= Bits
  BY <1>4, <1>5
<1>7. \E n \in 1 .. Bits : v < P(n) /\ (n = 1 \/ v >= P(n - 1))
  <2>1. CASE m = 0
    <3>1. v < P(1)
      BY <1>2, <1>6, <2>1
    <3>2. 1 \in 1 .. Bits
      BY <1>1
    <3>3. QED
      BY <3>1, <3>2
  <2>2. CASE m # 0
    <3>1. m \in 1 .. Bits /\ m - 1 \in Nat /\ ~ (m <= m - 1)
      BY <1>1, <1>6, <2>2
    <3>2. m - 1 \notin S
      BY <1>5, <3>1
    <3>3. v >= P(m - 1)
      BY <1>2, <3>1, <3>2
    <3>4. QED
      BY <1>6, <3>1, <3>3
  <2>3. QED
    BY <2>1, <2>2
<1> DEFINE size == CHOOSE n \in 1 .. Bits : v < P(n) /\ (n = 1 \/ v >= P(n - 1))
<1>8. size \in 1 .. Bits /\ v < P(size) /\ (size = 1 \/ v >= P(size - 1))
  BY <1>7
<1>9. Numeral(v, base) = DigitsOf(v, base, size)
  BY DEF Numeral, DigitsOf, P
<1> HIDE DEF size
<1>10. QED
  BY <1>8, <1>9 DEF Needs, P

\* One more digit stands before the others.
LEMMA OneMoreDigit ==
  ASSUME NEW v \in Nat, NEW base \in Nat \ {0, 1}, NEW n \in Nat
  PROVE  /\ DigitsOf(v, base, n) \in Seq(Nat) /\ Len(DigitsOf(v, base, n)) = n
         /\ DigitsOf(v, base, n + 1) = <<(v \div Power(base, n)) % base>> \o DigitsOf(v, base, n)
<1> DEFINE Digit(k) == (v \div Power(base, k)) % base
<1>1. \A k \in Nat : Digit(k) \in Nat
  <2> SUFFICES ASSUME NEW k \in Nat PROVE Digit(k) \in Nat
    OBVIOUS
  <2> DEFINE p == Power(base, k)
             q == v \div p
  <2>1. p \in Nat \ {0}
    BY PowerIs
  <2> HIDE DEF p
  <2>2. q \in Int
    BY <2>1
  <2> HIDE DEF q
  <2>3. q % base \in Nat
    BY <2>2
  <2>4. QED
    BY <2>3 DEF Digit, p, q
<1> HIDE DEF Digit
<1>2. \A m \in Nat : /\ DigitsOf(v, base, m) \in Seq(Nat) /\ Len(DigitsOf(v, base, m)) = m
                     /\ \A k \in 1 .. m : DigitsOf(v, base, m)[k] = Digit(m - k)
  <2> SUFFICES ASSUME NEW m \in Nat
               PROVE  /\ DigitsOf(v, base, m) \in Seq(Nat) /\ Len(DigitsOf(v, base, m)) = m
                      /\ \A k \in 1 .. m : DigitsOf(v, base, m)[k] = Digit(m - k)
    OBVIOUS
  <2>1. DigitsOf(v, base, m) = [k \in 1 .. m |-> Digit(m - k)]
    BY DEF DigitsOf, Digit
  <2>2. \A k \in 1 .. m : m - k \in Nat
    OBVIOUS
  <2>3. DigitsOf(v, base, m) \in [1 .. m -> Nat]
    BY <1>1, <2>1, <2>2
  <2>4. QED
    BY <2>1, <2>3, SeqDef, LenProperties
<1> DEFINE s == DigitsOf(v, base, n)
           t == DigitsOf(v, base, n + 1)
           u == <<Digit(n)>> \o s
<1>3. /\ s \in Seq(Nat) /\ Len(s) = n /\ \A k \in 1 .. n : s[k] = Digit(n - k)
      /\ t \in Seq(Nat) /\ Len(t) = n + 1 /\ \A k \in 1 .. n + 1 : t[k] = Digit((n + 1) - k)
  BY <1>2
<1> HIDE DEF s, t
<1>4. <<Digit(n)>> \in Seq(Nat) /\ Len(<<Digit(n)>>) = 1 /\ <<Digit(n)>>[1] = Digit(n)
  BY <1>1
<1>5. /\ u \in Seq(Nat) /\ Len(u) = n + 1
      /\ \A k \in 1 .. n + 1 : u[k] = IF k <= 1 THEN Digit(n) ELSE s[k - 1]
  <2> DEFINE one == <<Digit(n)>>
  <2> HIDE DEF one
  <2>1. /\ one \o s \in Seq(Nat) /\ Len(one \o s) = Len(one) + Len(s)
        /\ \A k \in 1 .. Len(one) + Len(s) :
             (one \o s)[k] = IF k <= Len(one) THEN one[k] ELSE s[k - Len(one)]
    <3>1. one \in Seq(Nat) /\ s \in Seq(Nat)
      BY <1>3, <1>4 DEF one
    <3> HIDE DEF one
    <3>2. QED
      BY <3>1, ConcatProperties
  <2>2. Len(one) = 1 /\ one[1] = Digit(n)
    BY <1>4 DEF one
  <2>3. Len(one) + Len(s) = n + 1
    BY <1>3, <2>2
  <2>4. \A k \in 1 .. n + 1 : (one \o s)[k] = IF k <= 1 THEN Digit(n) ELSE s[k - 1]
    BY <2>1, <2>2, <2>3
  <2>5. QED
    BY <2>1, <2>3, <2>4 DEF one
<1> HIDE DEF u
<1>6. \A k \in 1 .. n + 1 : u[k] = t[k]
  <2> SUFFICES ASSUME NEW k \in 1 .. n + 1 PROVE u[k] = t[k]
    OBVIOUS
  <2>1. CASE k <= 1
    <3>1. k = 1 /\ (n + 1) - k = n
      BY <2>1
    <3>2. QED
      BY <1>3, <1>5, <3>1
  <2>2. CASE ~ (k <= 1)
    <3>1. k - 1 \in 1 .. n /\ n - (k - 1) = (n + 1) - k
      BY <2>2
    <3>2. QED
      BY <1>3, <1>5, <2>2, <3>1
  <2>3. QED
    BY <2>1, <2>2
<1>7. u = t
  BY <1>3, <1>5, <1>6, SeqEqual
<1>8. QED
  BY <1>3, <1>7 DEF s, t, u, Digit

------------------------------------------------------------------------------
(* The loops over digits.                                                    *)

\* Where such a loop stands after k turns: n turns do something.
Shorter(k, n) == IF k <= n THEN k ELSE n
AfterTurns(v, base, n, k) ==
  [val |-> v \div Power(base, Shorter(k, n)), text |-> DigitsOf(v, base, Shorter(k, n))]

\* A turn of such a loop.
OneDigit(was, base) ==
  IF was.val = 0 THEN was
  ELSE [val |-> was.val \div base, text |-> <<was.val % base>> \o was.text]

LEMMA TurnsGiveDigits ==
  ASSUME NEW v \in Nat \ {0}, NEW base \in Nat \ {0, 1}, NEW n \in Nat \ {0}, Needs(v, base, n)
  PROVE  /\ AfterTurns(v, base, n, 0) = [val |-> v, text |-> <<>>]
         /\ \A k \in Nat : /\ AfterTurns(v, base, n, k + 1) = OneDigit(AfterTurns(v, base, n, k), base)
                           /\ AfterTurns(v, base, n, k).val \in 0 .. v
                           /\ AfterTurns(v, base, n, k).text \in Seq(Nat)
         /\ \A k \in Nat : n <= k => AfterTurns(v, base, n, k).text = DigitsOf(v, base, n)
<1> DEFINE P(k) == Power(base, k)
           A(k) == AfterTurns(v, base, n, k)
<1>1. P(0) = 1 /\ \A k \in Nat : P(k) \in Nat \ {0} /\ P(k + 1) = base * P(k)
  BY PowerIs
<1>2. \A k \in Nat : v \div P(k) \in 0 .. v
  <2> SUFFICES ASSUME NEW k \in Nat PROVE v \div P(k) \in 0 .. v
    OBVIOUS
  <2> DEFINE p == P(k)
             q == v \div p
             r == v % p
  <2>1. p \in Nat \ {0} /\ v \in Int
    BY <1>1
  <2> HIDE DEF p
  <2>2. q \in Int /\ r \in 0 .. p - 1 /\ v = q * p + r
    BY <2>1, DivMod
  <2>3. q \in Nat
    BY <2>1
  <2> HIDE DEF q, r
  <2>4. q <= q * p
    BY <2>1, <2>3
  <2>5. q <= v
    BY <2>1, <2>2, <2>3, <2>4
  <2>6. QED
    BY <2>3, <2>5 DEF p, q
<1>3. \A k \in Nat : A(k) = [val |-> v \div P(Shorter(k, n)), text |-> DigitsOf(v, base, Shorter(k, n))]
  BY DEF AfterTurns
<1>4. \A k \in 0 .. n - 1 : v \div P(k) # 0
  <2> SUFFICES ASSUME NEW k \in 0 .. n - 1 PROVE v \div P(k) # 0
    OBVIOUS
  <2>1. v >= P(n - 1)
    <3>1. CASE n = 1
      BY <1>1, <3>1
    <3>2. CASE n # 1
      BY <3>2 DEF Needs
    <3>3. QED
      BY <3>1, <3>2
  <2>2. k \in Nat /\ n - 1 \in Nat /\ k <= n - 1
    OBVIOUS
  <2>3. P(k) <= P(n - 1)
    BY <2>2, PowerGrows
  <2> HIDE DEF P
  <2> DEFINE p == P(k)
  <2>4. p \in Nat \ {0} /\ p <= v
    BY <1>1, <2>1, <2>2, <2>3
  <2> HIDE DEF p
  <2>5. ~ (v < 1 * p)
    BY <2>4
  <2>6. ~ (v \div p < 1)
    BY <2>4, <2>5, DivBelow
  <2>7. QED
    BY <2>6 DEF p
<1>5. v \div P(n) = 0
  <2> DEFINE p == P(n)
  <2>1. p \in Nat \ {0} /\ v < p
    BY <1>1 DEF Needs
  <2> HIDE DEF p
  <2>2. v = 0 * p + v /\ v \in 0 .. p - 1
    BY <2>1
  <2>3. v \div p = 0
    BY <2>1, <2>2, DivIs
  <2>4. QED
    BY <2>3 DEF p
<1>6. \A k \in Nat : /\ (v \div P(k)) \div base = v \div P(k + 1)
                     /\ DigitsOf(v, base, k + 1) = <<(v \div P(k)) % base>> \o DigitsOf(v, base, k)
                     /\ DigitsOf(v, base, k) \in Seq(Nat)
  <2> SUFFICES ASSUME NEW k \in Nat
               PROVE  /\ (v \div P(k)) \div base = v \div P(k + 1)
                      /\ DigitsOf(v, base, k + 1) = <<(v \div P(k)) % base>> \o DigitsOf(v, base, k)
                      /\ DigitsOf(v, base, k) \in Seq(Nat)
    OBVIOUS
  <2>1. (v \div P(k)) \div base = v \div P(k + 1)
    <3> DEFINE p == P(k)
    <3>1. p \in Nat \ {0} /\ P(k + 1) = base * p
      BY <1>1
    <3> HIDE DEF p
    <3>2. (v \div p) \div base = v \div (base * p)
      BY <3>1, DivDiv
    <3>3. QED
      BY <3>1, <3>2 DEF p
  <2>2. QED
    BY <2>1, OneMoreDigit
<1>7. A(0) = [val |-> v, text |-> <<>>]
  <2>1. Shorter(0, n) = 0
    BY DEF Shorter
  <2>2. v \div P(0) = v
    <3>1. v = v * 1 + 0 /\ 0 \in 0 .. 1 - 1
      OBVIOUS
    <3>2. v \div 1 = v
      BY <3>1, DivIs
    <3>3. QED
      BY <1>1, <3>2
  <2>3. DigitsOf(v, base, 0) = <<>>
    <3>1. DigitsOf(v, base, 0) \in Seq(Nat) /\ Len(DigitsOf(v, base, 0)) = 0
      BY OneMoreDigit
    <3>2. QED
      BY <3>1, EmptySeq
  <2> HIDE DEF P, A
  <2>4. QED
    BY <1>3, <2>1, <2>2, <2>3
<1> HIDE DEF P, A
<1>8. ASSUME NEW k \in Nat PROVE A(k + 1) = OneDigit(A(k), base)
  <2>1. CASE k < n
    <3>1. Shorter(k, n) = k /\ Shorter(k + 1, n) = k + 1 /\ k \in 0 .. n - 1
      BY <2>1 DEF Shorter
    <3>2. A(k).val = v \div P(k) /\ A(k).text = DigitsOf(v, base, k) /\ A(k).val # 0
      BY <1>3, <1>4, <3>1
    <3>3. A(k + 1) = [val |-> v \div P(k + 1), text |-> DigitsOf(v, base, k + 1)]
      BY <1>3, <3>1
    <3>4. QED
      BY <1>6, <3>2, <3>3 DEF OneDigit
  <2>2. CASE n <= k
    <3>1. Shorter(k, n) = n /\ Shorter(k + 1, n) = n
      BY <2>2 DEF Shorter
    <3>2. A(k + 1) = A(k) /\ A(k).val = 0
      BY <1>3, <1>5, <3>1
    <3>3. QED
      BY <3>2 DEF OneDigit
  <2>3. QED
    BY <2>1, <2>2
<1>9. ASSUME NEW k \in Nat PROVE A(k).val \in 0 .. v /\ A(k).text \in Seq(Nat)
  <2>1. Shorter(k, n) \in Nat
    BY DEF Shorter
  <2> DEFINE j == Shorter(k, n)
  <2>2. A(k).val = v \div P(j) /\ A(k).text = DigitsOf(v, base, j)
    BY <1>3
  <2> HIDE DEF j
  <2>3. v \div P(j) \in 0 .. v /\ DigitsOf(v, base, j) \in Seq(Nat)
    BY <1>2, <1>6, <2>1 DEF j
  <2>4. QED
    BY <2>2, <2>3
<1>10. ASSUME NEW k \in Nat, n <= k PROVE A(k).text = DigitsOf(v, base, n)
  <2>1. Shorter(k, n) = n
    BY <1>10 DEF Shorter
  <2>2. QED
    BY <1>3, <2>1
<1>11. QED
  BY <1>7, <1>8, <1>9, <1>10 DEF A

LEMMA NumeralOfZero ==
  ASSUME NEW base \in Nat \ {0, 1}
  PROVE  Numeral(0, base) = <<0>>
<1> DEFINE P(k) == Power(base, k)
<1>1. Bits \in Nat \ {0, 1}
  BY StdioConstants
<1>2. P(0) = 1 /\ \A k \in Nat : P(k) \in Nat \ {0}
  BY PowerIs
<1>3. 0 < Power(2, Bits)
  BY <1>1, PowerIs
<1>4. PICK n \in 1 .. Bits : Needs(0, base, n) /\ Numeral(0, base) = DigitsOf(0, base, n)
  BY <1>3, NumeralIs
<1>5. n = 1
  <2>1. n - 1 \in Nat
    BY <1>1
  <2>2. ~ (0 >= P(n - 1))
    BY <1>2, <2>1
  <2>3. QED
    BY <1>4, <2>2 DEF Needs
<1> DEFINE s == DigitsOf(0, base, 1)
<1>6. s = [k \in 1 .. 1 |-> (0 \div P(1 - k)) % base]
  BY DEF DigitsOf
<1>7. (0 \div P(0)) % base = 0
  <2>1. 0 = 0 * 1 + 0 /\ 0 \in 0 .. 1 - 1 /\ 0 = 0 * base + 0 /\ 0 \in 0 .. base - 1
    OBVIOUS
  <2>2. 0 \div 1 = 0 /\ 0 % base = 0
    BY <2>1, DivIs
  <2>3. QED
    BY <1>2, <2>2
<1>8. s \in Seq(Nat) /\ Len(s) = 1
  <2>1. 0 \in Nat /\ 1 \in Nat
    OBVIOUS
  <2>2. QED
    BY <2>1, OneMoreDigit
<1>9. s[1] = 0
  BY <1>6, <1>7
<1> HIDE DEF s
<1>10. s = <<0>>
  <2>1. <<0>> \in Seq(Nat) /\ Len(<<0>>) = 1 /\ <<0>>[1] = 0
    OBVIOUS
  <2>2. \A k \in 1 .. Len(s) : s[k] = <<0>>[k]
    BY <1>8, <1>9, <2>1
  <2>3. QED
    BY <1>8, <2>1, <2>2, SeqEqual
<1>11. QED
  BY <1>4, <1>5, <1>10 DEF s

\* print_uint gives the numeral (stdio.c:12-29).
LEMMA UintIs ==
  ASSUME NEW v \in Nat, v < Power(2, Bits), NEW base \in Nat \ {0, 1}
  PROVE  UintText(v, base) = Numeral(v, base)
<1>1. Bits \in Nat \ {0, 1}
  BY StdioConstants
<1>2. CASE v = 0
  BY <1>2, NumeralOfZero DEF UintText
<1>3. CASE v # 0
  <2>1. PICK n \in 1 .. Bits : Needs(v, base, n) /\ Numeral(v, base) = DigitsOf(v, base, n)
    BY NumeralIs
  <2> DEFINE A(k) == AfterTurns(v, base, n, k)
             Body(f) == [k \in 0 .. Bits |->
                           IF k = 0 THEN [val |-> v, text |-> <<>>]
                           ELSE LET was == f[k - 1] IN
                                IF was.val = 0 THEN was
                                ELSE [val |-> was.val \div base,
                                      text |-> <<was.val % base>> \o was.text]]
             a == [k \in 0 .. Bits |-> A(k)]
             loop == CHOOSE f : f = Body(f)
  <2>2. n \in Nat \ {0} /\ n <= Bits /\ v \in Nat \ {0}
    BY <1>1, <1>3
  <2>3. /\ A(0) = [val |-> v, text |-> <<>>]
        /\ \A k \in Nat : A(k + 1) = OneDigit(A(k), base)
        /\ A(Bits).text = DigitsOf(v, base, n)
    BY <1>1, <2>1, <2>2, TurnsGiveDigits
  <2> HIDE DEF A
  <2>4. a = Body(a)
    <3>1. ASSUME NEW k \in 0 .. Bits PROVE a[k] = Body(a)[k]
      <4>1. CASE k = 0
        BY <2>3, <4>1
      <4>2. CASE k # 0
        <5>1. k - 1 \in Nat /\ k - 1 \in 0 .. Bits /\ (k - 1) + 1 = k
          BY <1>1, <4>2
        <5>2. a[k] = OneDigit(A(k - 1), base)
          BY <2>3, <5>1
        <5>3. a[k - 1] = A(k - 1)
          BY <5>1
        <5>4. QED
          BY <4>2, <5>2, <5>3 DEF OneDigit
      <4>3. QED
        BY <4>1, <4>2
    <3>2. QED
      BY <3>1
  <2>5. loop = Body(loop)
    BY <2>4
  <2>6. UintText(v, base) = loop[Bits].text
    BY <1>3 DEF UintText
  <2> HIDE DEF loop, a
  <2>7. loop[Bits] = a[Bits]
    <3>1. 0 \in 0 .. Bits /\ \A k \in 0 .. Bits - 1 : k + 1 \in 0 .. Bits /\ k + 1 # 0 /\ (k + 1) - 1 = k
      BY <1>1
    <3>2. loop[0] = a[0]
      BY <2>4, <2>5, <3>1
    <3>3. ASSUME NEW k \in 0 .. Bits - 1, loop[k] = a[k] PROVE loop[k + 1] = a[k + 1]
      <4>1. /\ loop[k + 1] = Body(loop)[k + 1] /\ a[k + 1] = Body(a)[k + 1]
        BY <2>4, <2>5
      <4>2. QED
        BY <3>1, <3>3, <4>1
    <3>4. QED
      BY <1>1, <3>2, <3>3, SameLoop
  <2>8. a[Bits] = A(Bits)
    BY <1>1 DEF a
  <2>9. QED
    BY <2>1, <2>3, <2>6, <2>7, <2>8
<1>4. QED
  BY <1>2, <1>3

------------------------------------------------------------------------------
(* Long division.                                                            *)

\* What the loop of udivmod64 has after k turns: the quotient and the remainder of
\* the k highest bits.
Halfway(n, d, k) ==
  [q |-> ((n \div Power(2, Bits - k)) \div d) * Power(2, Bits - k),
   r |-> (n \div Power(2, Bits - k)) % d]

\* A turn: the next bit, place, is brought down.
BringDown(was, n, d, place) ==
  LET r == was.r * 2 + ((n \div Power(2, place)) % 2)
  IN  IF r >= d THEN [q |-> was.q + Power(2, place), r |-> r - d] ELSE [was EXCEPT !.r = r]

LEMMA BroughtDown ==
  ASSUME NEW n \in Nat, NEW d \in Nat \ {0}, NEW k \in 0 .. Bits - 1
  PROVE  Halfway(n, d, k + 1) = BringDown(Halfway(n, d, k), n, d, Bits - (k + 1))
<1> DEFINE place == Bits - (k + 1)
           p == Power(2, place)
           new == n \div p
           old == new \div 2
           bit == new % 2
           q == old \div d
           r == old % d
           s == r * 2 + bit
<1>1. place \in Nat /\ Bits - k = place + 1
  BY StdioConstants
<1>2. p \in Nat \ {0} /\ Power(2, place + 1) = 2 * p
  BY <1>1, PowerIs
<1> HIDE DEF p
<1>3. new \in Nat
  BY <1>2
<1>4. n \div (2 * p) = old
  <2>1. p \in Nat \ {0} /\ 2 \in Nat \ {0}
    BY <1>2
  <2>2. (n \div p) \div 2 = n \div (2 * p)
    BY <2>1, DivDiv, Zenon
  <2>3. QED
    BY <2>2
<1> HIDE DEF new
<1>5. old \in Nat /\ bit \in 0 .. 1 /\ new = old * 2 + bit
  BY <1>3, DivMod
<1> HIDE DEF old, bit
<1>6. q \in Nat /\ r \in 0 .. d - 1 /\ old = q * d + r
  <2>1. q \in Int /\ r \in 0 .. d - 1 /\ old = q * d + r
    BY <1>5, DivMod
  <2>2. q \in Nat
    BY <1>5
  <2>3. QED
    BY <2>1, <2>2
<1> DEFINE was == Halfway(n, d, k)
<1>7. was = [q |-> q * (2 * p), r |-> r]
  BY <1>1, <1>2, <1>4 DEF Halfway
<1> HIDE DEF was
<1> HIDE DEF q, r
<1>8. s \in Nat /\ s < 2 * d /\ new = (2 * q) * d + s
  <2>1. s \in Nat /\ s < 2 * d
    BY <1>5, <1>6
  <2> DEFINE x == q * d
  <2>2. x \in Int /\ (2 * q) * d = 2 * x
    BY <1>6
  <2>3. old = x + r
    BY <1>6
  <2> HIDE DEF x
  <2>4. new = 2 * x + s
    BY <1>5, <1>6, <2>2, <2>3
  <2>5. QED
    BY <2>1, <2>2, <2>4
<1>9. BringDown(was, n, d, place) = IF s >= d THEN [q |-> q * (2 * p) + p, r |-> s - d]
                                ELSE [q |-> q * (2 * p), r |-> s]
  BY <1>7 DEF BringDown, new, bit, p
<1>10. Halfway(n, d, k + 1) = [q |-> (new \div d) * p, r |-> new % d]
  BY DEF Halfway, new, p, place
<1> HIDE DEF s, place
<1>11. q * (2 * p) = (2 * q) * p
  BY <1>2, <1>6
<1>12. CASE s >= d
  <2> DEFINE t == 2 * q + 1
             u == s - d
  <2>1. t \in Int /\ u \in 0 .. d - 1
    BY <1>6, <1>8, <1>12
  <2>2. t * d = (2 * q) * d + d
    BY <1>6
  <2>3. (2 * q) * d \in Int
    BY <1>6
  <2>4. new = t * d + u
    BY <1>8, <2>2, <2>3
  <2>5. t * p = (2 * q) * p + p
    BY <1>2, <1>6
  <2> HIDE DEF t
  <2>6. new \div d = t /\ new % d = u
    BY <1>3, <2>1, <2>4, DivIs
  <2>7. QED
    BY <1>9, <1>10, <1>11, <1>12, <2>5, <2>6 DEF was, place
<1>13. CASE ~ (s >= d)
  <2>1. s \in 0 .. d - 1 /\ 2 * q \in Int
    BY <1>6, <1>8, <1>13
  <2>2. new \div d = 2 * q /\ new % d = s
    BY <1>3, <1>8, <2>1, DivIs
  <2>3. QED
    BY <1>9, <1>10, <1>11, <1>13, <2>2 DEF was, place
<1>14. QED
  BY <1>12, <1>13

\* udivmod64 gives the quotient and the remainder (stdio.c:31-47).
LEMMA UdivmodIs ==
  ASSUME NEW n \in Nat, n < Power(2, Bits), NEW d \in Nat \ {0}
  PROVE  Udivmod(n, d) = [q |-> n \div d, r |-> n % d]
<1> DEFINE A(k) == Halfway(n, d, k)
           Body(f) == [k \in 0 .. Bits |->
                         IF k = 0 THEN [q |-> 0, r |-> 0]
                         ELSE LET was == f[k - 1]
                                  place == Bits - k
                                  r == was.r * 2 + ((n \div Power(2, place)) % 2)
                              IN  IF r >= d THEN [q |-> was.q + Power(2, place), r |-> r - d]
                                  ELSE [was EXCEPT !.r = r]]
           a == [k \in 0 .. Bits |-> A(k)]
           loop == CHOOSE f : f = Body(f)
<1>1. Bits \in Nat \ {0, 1}
  BY StdioConstants
<1>2. A(0) = [q |-> 0, r |-> 0]
  <2> DEFINE p == Power(2, Bits)
  <2>1. p \in Nat \ {0} /\ n < p
    BY <1>1, PowerIs
  <2> HIDE DEF p
  <2>2. n = 0 * p + n /\ n \in 0 .. p - 1 /\ n \in Int
    BY <2>1
  <2>3. n \div p = 0
    BY <2>1, <2>2, DivIs
  <2>4. 0 = 0 * d + 0 /\ 0 \in 0 .. d - 1
    OBVIOUS
  <2>5. 0 \div d = 0 /\ 0 % d = 0
    BY <2>4, DivIs
  <2>6. Bits - 0 = Bits
    BY <1>1
  <2>7. 0 * p = 0
    BY <2>1
  <2>8. QED
    BY <2>3, <2>5, <2>6, <2>7 DEF Halfway, p
<1>3. A(Bits) = [q |-> n \div d, r |-> n % d]
  <2>1. Bits - Bits = 0 /\ Power(2, 0) = 1
    BY <1>1, PowerIs
  <2>2. n = n * 1 + 0 /\ 0 \in 0 .. 1 - 1
    OBVIOUS
  <2>3. n \div 1 = n
    BY <2>2, DivIs
  <2>4. (n \div d) * 1 = n \div d
    OBVIOUS
  <2>5. QED
    BY <2>1, <2>3, <2>4 DEF Halfway
<1>4. \A k \in 0 .. Bits - 1 : A(k + 1) = BringDown(A(k), n, d, Bits - (k + 1))
  BY BroughtDown
<1> HIDE DEF A
<1>5. a = Body(a)
  <2>1. ASSUME NEW k \in 0 .. Bits PROVE a[k] = Body(a)[k]
    <3>1. CASE k = 0
      BY <1>2, <3>1
    <3>2. CASE k # 0
      <4> DEFINE j == k - 1
      <4>1. j \in 0 .. Bits - 1 /\ j \in 0 .. Bits /\ k = j + 1
        BY <1>1, <3>2
      <4> HIDE DEF j
      <4>2. a[k] = BringDown(A(j), n, d, Bits - k)
        BY <1>4, <4>1
      <4>3. a[j] = A(j)
        BY <4>1
      <4>4. QED
        BY <3>2, <4>2, <4>3 DEF BringDown, j
    <3>3. QED
      BY <3>1, <3>2
  <2>2. QED
    BY <2>1
<1>6. loop = Body(loop)
  BY <1>5
<1>7. Udivmod(n, d) = loop[Bits]
  BY DEF Udivmod
<1> HIDE DEF loop, a
<1>8. loop[Bits] = a[Bits]
  <2>1. 0 \in 0 .. Bits /\ \A k \in 0 .. Bits - 1 : k + 1 \in 0 .. Bits /\ k + 1 # 0 /\ (k + 1) - 1 = k
    BY <1>1
  <2>2. loop[0] = a[0]
    BY <1>5, <1>6, <2>1
  <2>3. ASSUME NEW k \in 0 .. Bits - 1, loop[k] = a[k] PROVE loop[k + 1] = a[k + 1]
    <3>1. /\ loop[k + 1] = Body(loop)[k + 1] /\ a[k + 1] = Body(a)[k + 1]
      BY <1>5, <1>6
    <3>2. QED
      BY <2>1, <2>3, <3>1
  <2>4. QED
    BY <1>1, <2>2, <2>3, SameLoop
<1>9. a[Bits] = A(Bits)
  BY <1>1 DEF a
<1>10. QED
  BY <1>3, <1>7, <1>8, <1>9

\* print_ull gives the numeral (stdio.c:49-66).
LEMMA UllIs ==
  ASSUME NEW v \in Nat, v < Power(2, Bits), NEW base \in Nat \ {0, 1}
  PROVE  UllText(v, base) = Numeral(v, base)
<1>1. Bits \in Nat \ {0, 1}
  BY StdioConstants
<1>2. CASE v = 0
  BY <1>2, NumeralOfZero DEF UllText
<1>3. CASE v # 0
  <2>1. PICK n \in 1 .. Bits : Needs(v, base, n) /\ Numeral(v, base) = DigitsOf(v, base, n)
    BY NumeralIs
  <2> DEFINE A(k) == AfterTurns(v, base, n, k)
             Divided(was) == LET by == Udivmod(was.val, base) IN
                             IF was.val = 0 THEN was
                             ELSE [val |-> by.q, text |-> <<by.r>> \o was.text]
             Body(f) == [k \in 0 .. Bits |->
                           IF k = 0 THEN [val |-> v, text |-> <<>>] ELSE Divided(f[k - 1])]
             a == [k \in 0 .. Bits |-> A(k)]
             loop == CHOOSE f : f = Body(f)
  <2>2. n \in Nat \ {0} /\ n <= Bits /\ v \in Nat \ {0}
    BY <1>1, <1>3
  <2>3. /\ A(0) = [val |-> v, text |-> <<>>]
        /\ \A k \in Nat : A(k + 1) = OneDigit(A(k), base)
        /\ A(Bits).text = DigitsOf(v, base, n)
    BY <1>1, <2>1, <2>2, TurnsGiveDigits
  <2>4. \A k \in Nat : A(k).val \in 0 .. v
    BY <2>1, <2>2, TurnsGiveDigits
  <2>5. UllText(v, base) = loop[Bits].text
    BY <1>3 DEF UllText
  <2> HIDE DEF A
  <2>6. \A k \in Nat : A(k + 1) = Divided(A(k))
    <3> SUFFICES ASSUME NEW k \in Nat PROVE A(k + 1) = Divided(A(k))
      OBVIOUS
    <3> DEFINE w == A(k).val
    <3>1. w \in Nat /\ w < Power(2, Bits)
      <4>1. w \in 0 .. v
        BY <2>4
      <4>2. Power(2, Bits) \in Nat
        BY <1>1, PowerIs
      <4> HIDE DEF w
      <4>3. QED
        BY <4>1, <4>2
    <3> HIDE DEF w
    <3>2. Udivmod(w, base) = [q |-> w \div base, r |-> w % base]
      BY <3>1, UdivmodIs
    <3>3. A(k + 1) = OneDigit(A(k), base)
      BY <2>3
    <3>4. QED
      BY <3>2, <3>3 DEF w, OneDigit
  <2> HIDE DEF Divided
  <2>7. a = Body(a)
    <3>1. ASSUME NEW k \in 0 .. Bits PROVE a[k] = Body(a)[k]
      <4>1. CASE k = 0
        BY <2>3, <4>1
      <4>2. CASE k # 0
        <5>1. k - 1 \in Nat /\ k - 1 \in 0 .. Bits /\ (k - 1) + 1 = k
          BY <1>1, <4>2
        <5>2. a[k] = Divided(A(k - 1)) /\ a[k - 1] = A(k - 1)
          BY <2>6, <5>1
        <5>3. QED
          BY <4>2, <5>2
      <4>3. QED
        BY <4>1, <4>2
    <3>2. QED
      BY <3>1
  <2>8. loop = Body(loop)
    BY <2>7
  <2> HIDE DEF loop, a
  <2>9. loop[Bits] = a[Bits]
    <3>1. 0 \in 0 .. Bits /\ \A k \in 0 .. Bits - 1 : k + 1 \in 0 .. Bits /\ k + 1 # 0 /\ (k + 1) - 1 = k
      BY <1>1
    <3>2. loop[0] = a[0]
      BY <2>7, <2>8, <3>1
    <3>3. ASSUME NEW k \in 0 .. Bits - 1, loop[k] = a[k] PROVE loop[k + 1] = a[k + 1]
      <4>1. /\ loop[k + 1] = Body(loop)[k + 1] /\ a[k + 1] = Body(a)[k + 1]
        BY <2>7, <2>8
      <4>2. QED
        BY <3>1, <3>3, <4>1
    <3>4. QED
      BY <1>1, <3>2, <3>3, SameLoop
  <2>10. a[Bits] = A(Bits)
    BY <1>1 DEF a
  <2>11. QED
    BY <2>1, <2>3, <2>5, <2>9, <2>10
<1>4. QED
  BY <1>2, <1>3

------------------------------------------------------------------------------
(* Signed numbers.                                                           *)

\* A word is two halves.
LEMMA Halves ==
  /\ Bits \in Nat \ {0, 1} /\ Mod = Power(2, Bits) /\ Mod \in Nat \ {0}
  /\ Mod \div 2 \in Nat \ {0} /\ Mod = 2 * (Mod \div 2)
<1>1. Bits \in Nat \ {0, 1} /\ Bits - 1 \in Nat /\ (Bits - 1) + 1 = Bits
  BY StdioConstants
<1> DEFINE h == Power(2, Bits - 1)
<1>2. h \in Nat \ {0} /\ Mod = 2 * h
  BY <1>1, PowerIs DEF Mod
<1> HIDE DEF h
<1>3. Mod \div 2 = h
  <2>1. Mod = h * 2 + 0 /\ 0 \in 0 .. 2 - 1 /\ Mod \in Int
    BY <1>2
  <2>2. QED
    BY <1>2, <2>1, DivIs
<1>4. QED
  BY <1>1, <1>2, <1>3 DEF Mod

\* What a register holds is itself, read as a number of its kind.
LEMMA Registers ==
  /\ \A v \in Unsigned : AsUnsigned(v) = v /\ AsSigned(v) \in Signed
  /\ \A v \in Signed : AsSigned(v) = v
<1> DEFINE h == Mod \div 2
<1>1. h \in Nat \ {0} /\ Mod = 2 * h /\ Mod \in Nat \ {0}
  BY Halves
<1>2. Signed = -h .. h - 1 /\ Unsigned = 0 .. Mod - 1
  BY DEF Signed, Unsigned
<1>3. \A v : AsSigned(v) = IF AsUnsigned(v) < h THEN AsUnsigned(v) ELSE AsUnsigned(v) - Mod
  BY DEF AsSigned
<1> HIDE DEF h
<1>4. ASSUME NEW v \in Unsigned PROVE AsUnsigned(v) = v /\ AsSigned(v) \in Signed
  <2>1. v = 0 * Mod + v /\ v \in 0 .. Mod - 1 /\ v \in Int
    BY <1>1, <1>2
  <2>2. AsUnsigned(v) = v
    BY <1>1, <2>1, DivIs DEF AsUnsigned
  <2>3. QED
    BY <1>1, <1>2, <1>3, <2>1, <2>2
<1>5. ASSUME NEW v \in Signed PROVE AsSigned(v) = v
  <2>1. CASE v >= 0
    <3>1. v \in Unsigned
      BY <1>1, <1>2, <1>5, <2>1
    <3>2. AsUnsigned(v) = v /\ v < h
      BY <1>1, <1>2, <1>4, <1>5, <3>1
    <3>3. QED
      BY <1>3, <3>2
  <2>2. CASE v < 0
    <3> DEFINE u == v + Mod
    <3>1. v = (-1) * Mod + u /\ u \in 0 .. Mod - 1 /\ v \in Int /\ u >= h
      BY <1>1, <1>2, <1>5, <2>2
    <3>2. v % Mod = u
      BY <1>1, <3>1, DivIs
    <3>3. AsUnsigned(v) = u
      BY <3>2 DEF AsUnsigned
    <3>4. QED
      BY <1>1, <1>2, <1>3, <3>1, <3>3
  <2>3. QED
    BY <1>1, <1>2, <1>5, <2>1, <2>2
<1>6. QED
  BY <1>4, <1>5

\* print_ll gives the signed numeral, of the least number too (stdio.c:68-79).
LEMMA LlIs ==
  ASSUME NEW v \in Signed
  PROVE  LlText(v) = SignedNumeral(v)
<1> DEFINE h == Mod \div 2
<1>1. h \in Nat \ {0} /\ Mod = 2 * h /\ Mod \in Nat \ {0} /\ Mod = Power(2, Bits)
  BY Halves
<1>2. Signed = -h .. h - 1 /\ Unsigned = 0 .. Mod - 1
  BY DEF Signed, Unsigned
<1> HIDE DEF h
<1>3. v \in Int
  BY <1>1, <1>2
<1>4. CASE v < 0
  <2> DEFINE x == -(v + 1)
             y == x + 1
             z == -v
  <2>1. x \in Signed /\ y \in Unsigned /\ y = z
    BY <1>1, <1>2, <1>3, <1>4
  <2>2. AsSigned(x) = x
    BY <2>1, Registers
  <2>3. AsUnsigned(AsSigned(x) + 1) = z
    BY <2>1, <2>2, Registers
  <2>4. LlText(v) = <<"-">> \o UllText(z, 10)
    BY <1>4, <2>3 DEF LlText
  <2>5. z \in Nat /\ z < Power(2, Bits)
    BY <1>1, <1>2, <2>1
  <2> HIDE DEF z
  <2>6. UllText(z, 10) = Numeral(z, 10)
    BY <2>5, UllIs
  <2>7. QED
    BY <1>4, <2>4, <2>6 DEF SignedNumeral, z
<1>5. CASE ~ (v < 0)
  <2>1. v \in Nat /\ v < Power(2, Bits)
    BY <1>1, <1>2, <1>3, <1>5
  <2>2. UllText(v, 10) = Numeral(v, 10)
    BY <2>1, UllIs
  <2>3. QED
    BY <1>5, <2>2 DEF LlText, SignedNumeral
<1>6. QED
  BY <1>4, <1>5

\* The negative of 0, which the provers do not find.
LEMMA MinusZero == -0 = 0
<1>1. \A y \in Int : -y = 0 - y
  OBVIOUS
<1>2. 0 \in Int /\ 0 - 0 = 0
  OBVIOUS
<1>3. QED
  BY <1>1, <1>2, Zenon

\* itoa gives the signed numeral, of the least number too (stdlib.c:4-30).
LEMMA ItoaIs ==
  ASSUME NEW v \in Signed
  PROVE  Itoa(v) = SignedNumeral(v)
<1> DEFINE h == Mod \div 2
           start == IF v >= 0 THEN AsSigned(-v) ELSE v
           x == IF v < 0 THEN -v ELSE v
           Body(f) == [k \in 0 .. Bits |->
                         IF k = 0 THEN [i |-> start, text |-> <<>>]
                         ELSE LET was == f[k - 1] IN
                              IF was.i = 0 THEN was
                              ELSE [i |-> Quotient(was.i, 10),
                                    text |-> <<0 - Remainder(was.i, 10)>> \o was.text]]
           loop == CHOOSE f : f = Body(f)
           digits == IF loop[Bits].text = <<>> THEN <<0>> ELSE loop[Bits].text
<1>1. h \in Nat \ {0} /\ Mod = 2 * h /\ Mod \in Nat \ {0} /\ Mod = Power(2, Bits)
  BY Halves
<1>2. Signed = -h .. h - 1 /\ Unsigned = 0 .. Mod - 1 /\ Bits \in Nat \ {0, 1}
  BY Halves DEF Signed, Unsigned
<1>3. Itoa(v) = IF v < 0 THEN <<"-">> \o digits ELSE digits
  BY DEF Itoa
<1> HIDE DEF h
<1>4. x \in Nat /\ x < Power(2, Bits) /\ start = -x
  <2>1. CASE v < 0
    BY <1>1, <1>2, <2>1
  <2>2. CASE v >= 0
    <3> DEFINE w == -v
    <3>1. w \in Signed /\ v \in Nat /\ v < Mod
      BY <1>1, <1>2, <2>2
    <3> HIDE DEF w
    <3>2. AsSigned(w) = w
      BY <3>1, Registers
    <3>3. QED
      BY <1>1, <2>2, <3>1, <3>2 DEF w
  <2>3. QED
    BY <1>1, <1>2, <2>1, <2>2
<1>5. SignedNumeral(v) = IF v < 0 THEN <<"-">> \o Numeral(x, 10) ELSE Numeral(x, 10)
  BY DEF SignedNumeral
<1> HIDE DEF x, start
<1>6. ASSUME NEW y \in Nat \ {0}
      PROVE  Quotient(-y, 10) = -(y \div 10) /\ 0 - Remainder(-y, 10) = y % 10
  <2>1. y = (y \div 10) * 10 + (y % 10) /\ y \div 10 \in Int /\ y % 10 \in Int
    BY DivMod
  <2>2. Quotient(-y, 10) = -(y \div 10)
    <3>1. -y < 0 /\ -(-y) = y
      OBVIOUS
    <3>2. QED
      BY <3>1 DEF Quotient
  <2>3. QED
    BY <2>1, <2>2 DEF Remainder
<1>7. CASE x = 0
  <2> DEFINE a == [k \in 0 .. Bits |-> [i |-> 0, text |-> <<>>]]
  <2>1. a = Body(a)
    <3>1. ASSUME NEW k \in 0 .. Bits PROVE a[k] = Body(a)[k]
      <4>1. k # 0 => k - 1 \in 0 .. Bits
        BY <1>2
      <4>2. start = 0
        <5>1. start = -x
          BY <1>4
        <5>2. QED
          BY <1>7, <5>1, MinusZero, Zenon
      <4>3. QED
        BY <4>1, <4>2
    <3>2. QED
      BY <3>1
  <2>2. loop = Body(loop)
    BY <2>1
  <2> HIDE DEF loop, a
  <2>3. loop[Bits] = a[Bits]
    <3>1. 0 \in 0 .. Bits /\ \A k \in 0 .. Bits - 1 : k + 1 \in 0 .. Bits /\ k + 1 # 0 /\ (k + 1) - 1 = k
      BY <1>2
    <3>2. loop[0] = a[0]
      BY <2>1, <2>2, <3>1
    <3>3. ASSUME NEW k \in 0 .. Bits - 1, loop[k] = a[k] PROVE loop[k + 1] = a[k + 1]
      <4>1. /\ loop[k + 1] = Body(loop)[k + 1] /\ a[k + 1] = Body(a)[k + 1]
        BY <2>1, <2>2
      <4>2. QED
        BY <3>1, <3>3, <4>1
    <3>4. QED
      BY <1>2, <3>2, <3>3, SameLoop
  <2>4. loop[Bits].text = <<>>
    BY <1>2, <2>3 DEF a
  <2>5. digits = Numeral(x, 10)
    BY <1>7, <2>4, NumeralOfZero
  <2>6. QED
    BY <1>3, <1>5, <2>5
<1>8. CASE x # 0
  <2>1. PICK n \in 1 .. Bits : Needs(x, 10, n) /\ Numeral(x, 10) = DigitsOf(x, 10, n)
    BY <1>4, NumeralIs
  <2> DEFINE A(k) == AfterTurns(x, 10, n, k)
             N(y) == [i |-> -y.val, text |-> y.text]
             Step(was) == IF was.i = 0 THEN was
                          ELSE [i |-> Quotient(was.i, 10),
                                text |-> <<0 - Remainder(was.i, 10)>> \o was.text]
             a == [k \in 0 .. Bits |-> N(A(k))]
  <2>2. n \in Nat \ {0} /\ n <= Bits /\ x \in Nat \ {0} /\ 10 \in Nat \ {0, 1}
    BY <1>2, <1>4, <1>8
  <2>3. /\ A(0) = [val |-> x, text |-> <<>>]
        /\ \A k \in Nat : A(k + 1) = OneDigit(A(k), 10)
        /\ A(Bits).text = DigitsOf(x, 10, n)
    <3>1. x \in Nat \ {0}
      BY <2>2
    <3>2. 10 \in Nat \ {0, 1}
      BY <2>2
    <3>3. n \in Nat \ {0}
      BY <2>2
    <3>4. Needs(x, 10, n)
      BY <2>1
    <3>5. Bits \in Nat /\ n <= Bits
      BY <1>2, <2>2
    <3> HIDE DEF A
    <3>6. /\ AfterTurns(x, 10, n, 0) = [val |-> x, text |-> <<>>]
          /\ \A k \in Nat : AfterTurns(x, 10, n, k + 1) = OneDigit(AfterTurns(x, 10, n, k), 10)
      BY <3>1, <3>2, <3>3, <3>4, TurnsGiveDigits
    <3>7. AfterTurns(x, 10, n, Bits).text = DigitsOf(x, 10, n)
      BY <3>1, <3>2, <3>3, <3>4, <3>5, TurnsGiveDigits
    <3>8. QED
      BY <3>6, <3>7 DEF A
  <2>4. \A k \in Nat : A(k).val \in 0 .. x
    BY <2>1, <2>2, TurnsGiveDigits
  <2> HIDE DEF A
  <2>5. \A k \in Nat : N(A(k + 1)) = Step(N(A(k)))
    <3> SUFFICES ASSUME NEW k \in Nat PROVE N(A(k + 1)) = Step(N(A(k)))
      OBVIOUS
    <3> DEFINE y == A(k)
    <3>1. y.val \in 0 .. x /\ A(k + 1) = OneDigit(y, 10)
      BY <2>3, <2>4
    <3> HIDE DEF y
    <3>0. y.val \in Nat
      <4>1. x \in Nat
        BY <1>4
      <4>2. QED
        BY <3>1, <4>1
    <3>2. CASE y.val = 0
      <4>1. A(k + 1) = y
        BY <3>1, <3>2 DEF OneDigit
      <4>2. -y.val = 0
        BY <3>2, MinusZero, Zenon
      <4>3. Step(N(y)) = N(y)
        BY <4>2
      <4>4. QED
        BY <4>1, <4>3 DEF y
    <3>3. CASE y.val # 0
      <4> DEFINE u == y.val
      <4>1. u \in Nat \ {0}
        BY <3>0, <3>3
      <4>2. A(k + 1) = [val |-> u \div 10, text |-> <<u % 10>> \o y.text]
        BY <3>1, <3>3 DEF OneDigit
      <4> HIDE DEF u
      <4>3. Quotient(-u, 10) = -(u \div 10) /\ 0 - Remainder(-u, 10) = u % 10 /\ -u # 0
        BY <1>6, <4>1
      <4>4. N(A(k + 1)) = [i |-> -(u \div 10), text |-> <<u % 10>> \o y.text]
        <5> DEFINE q == u \div 10
                   t == <<u % 10>> \o y.text
        <5>1. A(k + 1) = [val |-> q, text |-> t]
          BY <4>2
        <5> HIDE DEF q, t
        <5>2. N(A(k + 1)) = [i |-> -q, text |-> t]
          BY <5>1
        <5>3. QED
          BY <5>2 DEF q, t
      <4>5. Step(N(y)) = [i |-> Quotient(-u, 10),
                          text |-> <<0 - Remainder(-u, 10)>> \o y.text]
        BY <4>3 DEF u
      <4>6. QED
        BY <4>3, <4>4, <4>5 DEF y
    <3>4. QED
      BY <3>2, <3>3
  <2>6. N(A(0)) = [i |-> start, text |-> <<>>]
    <3>1. start = -x
      BY <1>4
    <3>2. A(0) = [val |-> x, text |-> <<>>]
      BY <2>3
    <3>3. A(0).val = x /\ A(0).text = <<>>
      BY <3>2
    <3>4. N(A(0)) = [i |-> -A(0).val, text |-> A(0).text]
      OBVIOUS
    <3>5. QED
      BY <3>1, <3>3, <3>4, Zenon
  <2> HIDE DEF N, Step
  <2>7. \A f : Body(f) = [k \in 0 .. Bits |->
                           IF k = 0 THEN [i |-> start, text |-> <<>>] ELSE Step(f[k - 1])]
    BY DEF Step
  <2> DEFINE Turn_(f) == [k \in 0 .. Bits |->
                           IF k = 0 THEN [i |-> start, text |-> <<>>] ELSE Step(f[k - 1])]
  <2>8. a = Turn_(a)
    <3>1. ASSUME NEW k \in 0 .. Bits PROVE a[k] = Turn_(a)[k]
      <4>1. CASE k = 0
        BY <2>6, <4>1
      <4>2. CASE k # 0
        <5>1. k - 1 \in Nat /\ k - 1 \in 0 .. Bits /\ (k - 1) + 1 = k
          BY <1>2, <4>2
        <5>2. a[k] = Step(N(A(k - 1))) /\ a[k - 1] = N(A(k - 1))
          BY <2>5, <5>1
        <5>3. QED
          BY <4>2, <5>2
      <4>3. QED
        BY <4>1, <4>2
    <3>2. QED
      BY <3>1
  <2>9. loop = Turn_(loop)
    <3> HIDE DEF Body, Turn_, a
    <3>1. a = Body(a)
      BY <2>7, <2>8 DEF Turn_
    <3>2. loop = Body(loop)
      BY <3>1
    <3>3. QED
      BY <2>7, <3>2 DEF Turn_
  <2> HIDE DEF loop, a
  <2>10. loop[Bits] = a[Bits]
    <3>1. 0 \in 0 .. Bits /\ \A k \in 0 .. Bits - 1 : k + 1 \in 0 .. Bits /\ k + 1 # 0 /\ (k + 1) - 1 = k
      BY <1>2
    <3>2. loop[0] = a[0]
      BY <2>8, <2>9, <3>1
    <3>3. ASSUME NEW k \in 0 .. Bits - 1, loop[k] = a[k] PROVE loop[k + 1] = a[k + 1]
      <4>1. /\ loop[k + 1] = Turn_(loop)[k + 1] /\ a[k + 1] = Turn_(a)[k + 1]
        BY <2>8, <2>9
      <4>2. QED
        BY <3>1, <3>3, <4>1
    <3>4. QED
      BY <1>2, <3>2, <3>3, SameLoop
  <2>11. loop[Bits].text = DigitsOf(x, 10, n)
    <3>1. a[Bits] = N(A(Bits))
      BY <1>2 DEF a
    <3>2. QED
      BY <2>3, <2>10, <3>1 DEF N
  <2>12. DigitsOf(x, 10, n) # <<>>
    <3>1. Len(DigitsOf(x, 10, n)) = n
      BY <2>2, OneMoreDigit
    <3>2. QED
      BY <2>2, <3>1
  <2>13. QED
    BY <1>3, <1>5, <2>1, <2>11, <2>12
<1>9. QED
  BY <1>7, <1>8

------------------------------------------------------------------------------
(* Formats.                                                                  *)

\* The characters printf may look at.
Read(format) == Append(format, EndOfFormat) \o <<EndOfFormat, EndOfFormat, EndOfFormat>>

\* A turn of the loop of printf.
TurnOf(format, args, was) ==
  LET v == IF was.arg <= Len(args) THEN args[was.arg] ELSE 0
      turn == Turn(Read(format), was.p, v)
  IN  IF was.p >= Len(format) + 1 THEN was
      ELSE [p |-> was.p + turn.length, arg |-> was.arg + turn.takes, text |-> was.text \o turn.text]

Standing(p, n, text) == [p |-> p, arg |-> n, text |-> text]
AtFirst == Standing(1, 1, <<>>)
Goes(f, format, args) == \A k \in 0 .. Len(format) : f[k + 1] = TurnOf(format, args, f[k])

\* printf goes turn by turn (stdio.c:81-190).
LEMMA PrintfGoes ==
  ASSUME NEW format, NEW args, Len(format) \in Nat
  PROVE  \E f : /\ f[0] = AtFirst
                /\ Goes(f, format, args)
                /\ Printf(format, args).text = f[Len(format) + 1].text
                /\ Printf(format, args).past = (f[Len(format) + 1].p > Len(format) + 1)
<1> DEFINE end == Len(format) + 1
           Body(n, f) == [k \in 0 .. n |-> IF k = 0 THEN AtFirst ELSE TurnOf(format, args, f[k - 1])]
           S == {n \in Nat : \E f : f = Body(n, f)}
<1>1. 0 \in S
  <2> DEFINE f == [k \in 0 .. 0 |-> AtFirst]
  <2>1. f = Body(0, f)
    OBVIOUS
  <2>2. QED
    BY <2>1
<1>2. ASSUME NEW n \in Nat, n \in S PROVE n + 1 \in S
  <2>1. PICK f : f = Body(n, f)
    BY <1>2
  <2> DEFINE g == [k \in 0 .. n + 1 |-> IF k <= n THEN f[k] ELSE TurnOf(format, args, f[n])]
  <2>2. ASSUME NEW k \in 0 .. n + 1 PROVE g[k] = Body(n + 1, g)[k]
    <3>1. CASE k = 0
      <4>1. g[k] = f[0]
        BY <3>1
      <4>2. f[0] = AtFirst
        BY <2>1
      <4>3. QED
        BY <3>1, <4>1, <4>2
    <3>2. CASE k # 0 /\ k <= n
      <4>1. k \in 0 .. n /\ k - 1 \in 0 .. n + 1 /\ k - 1 <= n
        BY <3>2
      <4>2. g[k] = f[k] /\ g[k - 1] = f[k - 1]
        BY <3>2, <4>1
      <4>3. f[k] = TurnOf(format, args, f[k - 1])
        BY <2>1, <3>2, <4>1
      <4>4. QED
        BY <3>2, <4>2, <4>3
    <3>3. CASE k = n + 1
      <4>1. g[k] = TurnOf(format, args, f[n]) /\ g[n] = f[n] /\ k - 1 = n /\ k # 0
        BY <3>3
      <4>2. QED
        BY <4>1
    <3>4. QED
      BY <3>1, <3>2, <3>3
  <2>3. g = Body(n + 1, g)
    BY <2>2
  <2> HIDE DEF Body, g
  <2>4. \E f_ : f_ = Body(n + 1, f_)
    BY <2>3
  <2>5. n + 1 \in Nat
    OBVIOUS
  <2>6. QED
    BY <2>4, <2>5
<1> HIDE DEF S
<1>3. end \in S
  BY <1>1, <1>2, Induct
<1> DEFINE loop == CHOOSE f : f = Body(end, f)
<1>4. loop = Body(end, loop)
  <2>1. \E f : f = Body(end, f)
    BY <1>3 DEF S
  <2> HIDE DEF Body
  <2>2. QED
    BY <2>1
<1>5. Printf(format, args) = [text |-> loop[end].text, past |-> loop[end].p > end]
  BY DEF Printf, TurnOf, AtFirst, Standing, Read
<1> HIDE DEF loop
<1>6. loop[0] = AtFirst
  BY <1>4
<1>7. ASSUME NEW k \in 0 .. Len(format) PROVE loop[k + 1] = TurnOf(format, args, loop[k])
  <2>1. k + 1 \in 0 .. end /\ k + 1 # 0 /\ (k + 1) - 1 = k
    OBVIOUS
  <2>2. loop[k + 1] = Body(end, loop)[k + 1]
    BY <1>4
  <2>3. QED
    BY <2>1, <2>2
<1>8. QED
  BY <1>5, <1>6, <1>7 DEF Goes

------------------------------------------------------------------------------
(* Pieces of formats.                                                        *)

Pieces == Numbers \cup Literals

\* What a directive shows of a number.
LEMMA ShownIs ==
  ASSUME NEW v \in Unsigned
  PROVE  /\ \A x \in {"d", "i"} : Shown(x, v) = SignedNumeral(AsSigned(v))
         /\ \A x \in {"u", "x", "X", "o"} : Shown(x, v) = Numeral(v, Base(x))
         /\ Shown("p", v) = <<0, "x">> \o Numeral(v, 16)
         /\ \A x \in {"d", "i"} : ShownLongLong(x, v) = SignedNumeral(AsSigned(v))
         /\ \A x \in {"u", "x", "X", "o"} : ShownLongLong(x, v) = Numeral(v, Base(x))
<1> DEFINE w == AsSigned(v)
<1>1. w \in Signed /\ AsUnsigned(v) = v
  BY Registers
<1>2. Itoa(w) = SignedNumeral(w) /\ LlText(w) = SignedNumeral(w)
  BY <1>1, ItoaIs, LlIs
<1>3. v \in Nat /\ v < Power(2, Bits)
  BY Halves DEF Unsigned
<1>4. \A b \in Nat \ {0, 1} : UintText(v, b) = Numeral(v, b) /\ UllText(v, b) = Numeral(v, b)
  BY <1>3, UintIs, UllIs
<1> HIDE DEF w
<1>5. \A x \in {"d", "i"} : Shown(x, v) = Itoa(w) /\ ShownLongLong(x, v) = LlText(w)
  BY DEF Shown, ShownLongLong, w
<1>6. \A x \in {"u", "x", "X", "o"} : Base(x) \in Nat \ {0, 1}
  BY DEF Base
<1>7. \A x \in {"u", "x", "X", "o"} :
        Shown(x, v) = UintText(v, Base(x)) /\ ShownLongLong(x, v) = UllText(v, Base(x))
  BY <1>1 DEF Shown, ShownLongLong
<1>8. Shown("p", v) = <<0, "x">> \o UintText(v, 16)
  BY <1>1 DEF Shown
<1>9. Shown("p", v) = <<0, "x">> \o Numeral(v, 16)
  BY <1>4, <1>8
<1>10. QED
  BY <1>2, <1>4, <1>5, <1>6, <1>7, <1>9 DEF w

\* A piece stands at p in the characters c.
Stands(piece, c, p) == \A k \in 0 .. Len(piece) - 1 : c[p + k] = piece[k + 1]

Letter == {"d", "i", "u", "x", "X", "o"}

LEMMA KindsOfPieces ==
  ASSUME NEW x \in Pieces
  PROVE  \/ x = <<"a">> \/ x = <<"l">> \/ x = <<"%", "%">> \/ x = <<"%", "p">>
         \/ \E l \in Letter : x = <<"%", l>> \/ x = <<"%", "l", l>> \/ x = <<"%", "l", "l", l>>
  BY DEF Pieces, Numbers, Literals, LongDirectives, Letter

\* A turn takes a piece, with its argument, and shows what it means.
LEMMA TurnOfPiece ==
  ASSUME NEW x \in Pieces, NEW v \in Unsigned, NEW c, NEW p \in Nat, Stands(x, c, p)
  PROVE  Turn(c, p, v) = [length |-> Len(x), takes |-> Len(ArgumentsOf(x, v)), text |-> Meaning(x, v)]
<1>1. CASE x = <<"a">> \/ x = <<"l">>
  <2>1. Len(x) = 1 /\ 0 \in 0 .. Len(x) - 1
    BY <1>1
  <2>2. c[p + 0] = x[0 + 1]
    BY <2>1 DEF Stands
  <2>3. c[p] = x[1]
    BY <2>2
  <2>4. QED
    BY <1>1, <2>1, <2>3 DEF Turn, Meaning, ArgumentsOf, Literals, Numbers, LongDirectives
<1>2. CASE x = <<"%", "%">>
  <2>1. c[p] = "%" /\ c[p + 1] = "%" /\ Len(x) = 2
    BY <1>2 DEF Stands
  <2>2. QED
    BY <1>2, <2>1 DEF Turn, Meaning, ArgumentsOf, Literals, Numbers, LongDirectives, Directives
<1>3. CASE x = <<"%", "p">>
  <2>1. c[p] = "%" /\ c[p + 1] = "p" /\ Len(x) = 2
    BY <1>3 DEF Stands
  <2>2. x \in Numbers /\ x \notin Literals
    BY <1>3 DEF Numbers, Literals
  <2>3. ArgumentsOf(x, v) = <<v>> /\ Len(ArgumentsOf(x, v)) = 1 /\ x[Len(x)] = "p"
    BY <1>3, <2>1, <2>2 DEF ArgumentsOf
  <2>4. Meaning(x, v) = <<0, "x">> \o Numeral(v, 16)
    BY <2>2, <2>3 DEF Meaning
  <2>5. Shown("p", v) = <<0, "x">> \o Numeral(v, 16)
    BY ShownIs
  <2>6. Turn(c, p, v) = [length |-> 2, takes |-> 1, text |-> Shown("p", v)]
    BY <2>1 DEF Turn, Directives
  <2>7. QED
    BY <2>1, <2>3, <2>4, <2>5, <2>6
<1>4. ASSUME NEW l \in Letter, x = <<"%", l>> \/ x = <<"%", "l", l>> \/ x = <<"%", "l", "l", l>>
      PROVE  Turn(c, p, v) = [length |-> Len(x), takes |-> Len(ArgumentsOf(x, v)), text |-> Meaning(x, v)]
  <2>1. l \in LongDirectives /\ l \in Directives
    BY DEF Letter, LongDirectives, Directives
  <2>2. x \in Numbers /\ x \notin Literals
    BY <1>4, <2>1 DEF Numbers, Literals, Letter
  <2>3. ArgumentsOf(x, v) = <<v>> /\ Len(ArgumentsOf(x, v)) = 1
    BY <2>2 DEF ArgumentsOf
  <2>4. x[Len(x)] = l
    <3>1. CASE x = <<"%", l>>
      <4>1. Len(x) = 2
        BY <3>1
      <4>2. QED
        BY <3>1, <4>1
    <3>2. CASE x = <<"%", "l", l>>
      <4>1. Len(x) = 3
        BY <3>2
      <4>2. QED
        BY <3>2, <4>1
    <3>3. CASE x = <<"%", "l", "l", l>>
      <4>1. Len(x) = 4
        BY <3>3
      <4>2. QED
        BY <3>3, <4>1
    <3>4. QED
      BY <1>4, <3>1, <3>2, <3>3
  <2>5. Meaning(x, v) = Shown(l, v) /\ Meaning(x, v) = ShownLongLong(l, v)
    BY <2>2, <2>4, ShownIs DEF Meaning, Letter
  <2>6. CASE x = <<"%", l>>
    <3>1. c[p] = "%" /\ c[p + 1] = l /\ Len(x) = 2
      BY <2>6 DEF Stands
    <3>2. Turn(c, p, v) = [length |-> 2, takes |-> 1, text |-> Shown(l, v)]
      BY <2>1, <3>1 DEF Turn, LongDirectives, Directives
    <3>3. QED
      BY <2>3, <2>5, <3>1, <3>2
  <2>7. CASE x = <<"%", "l", l>>
    <3>1. c[p] = "%" /\ c[p + 1] = "l" /\ c[p + 2] = l /\ Len(x) = 3
      BY <2>7 DEF Stands
    <3>2. Turn(c, p, v) = [length |-> 3, takes |-> 1, text |-> Shown(l, v)]
      BY <2>1, <3>1 DEF Turn, LongDirectives, Directives
    <3>3. QED
      BY <2>3, <2>5, <3>1, <3>2
  <2>8. CASE x = <<"%", "l", "l", l>>
    <3>1. c[p] = "%" /\ c[p + 1] = "l" /\ c[p + 2] = "l" /\ c[p + 3] = l /\ Len(x) = 4
      BY <2>8 DEF Stands
    <3>2. Turn(c, p, v) = [length |-> 4, takes |-> 1, text |-> ShownLongLong(l, v)]
      BY <2>1, <3>1 DEF Turn, LongDirectives, Directives
    <3>3. QED
      BY <2>3, <2>5, <3>1, <3>2
  <2>9. QED
    BY <1>4, <2>6, <2>7, <2>8
<1>5. QED
  BY <1>1, <1>2, <1>3, <1>4, KindsOfPieces

LEMMA Tuples ==
  ASSUME NEW S, NEW a \in S, NEW b \in S, NEW c \in S, NEW d \in S
  PROVE  /\ <<a>> \in Seq(S) /\ Len(<<a>>) \in 1 .. 4
         /\ <<a, b>> \in Seq(S) /\ Len(<<a, b>>) \in 1 .. 4
         /\ <<a, b, c>> \in Seq(S) /\ Len(<<a, b, c>>) \in 1 .. 4
         /\ <<a, b, c, d>> \in Seq(S) /\ Len(<<a, b, c, d>>) \in 1 .. 4
<1>1. Len(<<a>>) = 1 /\ Len(<<a, b>>) = 2 /\ Len(<<a, b, c>>) = 3 /\ Len(<<a, b, c, d>>) = 4
  OBVIOUS
<1>2. <<a>> \in Seq(S)
  OBVIOUS
<1>3. <<a, b>> \in Seq(S)
  OBVIOUS
<1>4. <<a, b, c>> \in Seq(S)
  OBVIOUS
<1>5. <<a, b, c, d>> \in Seq(S)
  OBVIOUS
<1>6. QED
  BY <1>1, <1>2, <1>3, <1>4, <1>5

\* The characters of formats, and what may be shown.
Signs == Letter \cup {"p", "%", "a", "l", "-", EndOfFormat}
Shapes == Nat \cup Signs

LEMMA PieceIs ==
  ASSUME NEW x \in Pieces, NEW v \in Unsigned
  PROVE  /\ x \in Seq(Signs) /\ Len(x) \in 1 .. 4
         /\ ArgumentsOf(x, v) \in Seq(Unsigned) /\ Len(ArgumentsOf(x, v)) \in {0, 1}
         /\ Len(ArgumentsOf(x, v)) = 1 => ArgumentsOf(x, v)[1] = v
         /\ Meaning(x, v) \in Seq(Shapes)
<1>1. x \in Seq(Signs) /\ Len(x) \in 1 .. 4
  <2>1. "a" \in Signs /\ "l" \in Signs /\ "%" \in Signs /\ "p" \in Signs /\ Letter \subseteq Signs
    BY DEF Signs
  <2>2. CASE x = <<"a">> \/ x = <<"l">> \/ x = <<"%", "%">> \/ x = <<"%", "p">>
    BY <2>1, <2>2, Tuples, Zenon
  <2>3. ASSUME NEW l \in Letter, x = <<"%", l>> \/ x = <<"%", "l", l>> \/ x = <<"%", "l", "l", l>>
        PROVE  x \in Seq(Signs) /\ Len(x) \in 1 .. 4
    <3>1. l \in Signs
      BY <2>1
    <3>2. /\ <<"%", l>> \in Seq(Signs) /\ Len(<<"%", l>>) \in 1 .. 4
          /\ <<"%", "l", l>> \in Seq(Signs) /\ Len(<<"%", "l", l>>) \in 1 .. 4
          /\ <<"%", "l", "l", l>> \in Seq(Signs) /\ Len(<<"%", "l", "l", l>>) \in 1 .. 4
      <4>1. "%" \in Signs /\ "l" \in Signs
        BY <2>1
      <4>2. QED
        BY <3>1, <4>1, Tuples
    <3>3. QED
      BY <2>3, <3>2
  <2>4. QED
    BY <2>2, <2>3, KindsOfPieces
<1>2. ArgumentsOf(x, v) = <<v>> \/ ArgumentsOf(x, v) = <<>>
  BY DEF ArgumentsOf
<1>3. /\ ArgumentsOf(x, v) \in Seq(Unsigned) /\ Len(ArgumentsOf(x, v)) \in {0, 1}
      /\ Len(ArgumentsOf(x, v)) = 1 => ArgumentsOf(x, v)[1] = v
  <2> DEFINE s == ArgumentsOf(x, v)
  <2> HIDE DEF s
  <2>1. CASE s = <<v>>
    BY <2>1 DEF s
  <2>2. CASE s = <<>>
    BY <2>2 DEF s
  <2>3. QED
    BY <1>2, <2>1, <2>2 DEF s
<1>4. \A n \in Nat, b \in Nat \ {0, 1} : n < Power(2, Bits) => Numeral(n, b) \in Seq(Shapes)
  <2> SUFFICES ASSUME NEW n \in Nat, NEW b \in Nat \ {0, 1}, n < Power(2, Bits)
               PROVE  Numeral(n, b) \in Seq(Shapes)
    OBVIOUS
  <2>1. PICK k \in 1 .. Bits : Numeral(n, b) = DigitsOf(n, b, k)
    BY NumeralIs
  <2>2. DigitsOf(n, b, k) \in Seq(Nat)
    <3>1. k \in Nat
      BY <2>1, StdioConstants
    <3>2. QED
      BY <3>1, OneMoreDigit
  <2>3. QED
    BY <2>1, <2>2 DEF Shapes
<1>5. v \in Nat /\ v < Power(2, Bits)
  BY Halves DEF Unsigned
<1>6. \A b \in {8, 10, 16} : Numeral(v, b) \in Seq(Shapes)
  BY <1>4, <1>5
<1>7. SignedNumeral(AsSigned(v)) \in Seq(Shapes)
  <2> DEFINE w == AsSigned(v)
  <2>1. w \in Signed
    BY Registers
  <2>2. w \in Int /\ -Mod < w /\ w < Mod /\ Mod = Power(2, Bits)
    BY <2>1, Halves DEF Signed
  <2> HIDE DEF w
  <2>3. CASE w < 0
    <3> DEFINE z == -w
    <3>1. z \in Nat /\ z < Mod
      BY <2>2, <2>3, Halves
    <3> HIDE DEF z
    <3>2. Numeral(z, 10) \in Seq(Shapes)
      BY <1>4, <2>2, <3>1
    <3>5. <<"-">> \in Seq(Shapes)
      BY DEF Shapes, Signs, Letter
    <3>3. SignedNumeral(w) = <<"-">> \o Numeral(z, 10)
      BY <2>3 DEF SignedNumeral, z
    <3>4. QED
      BY <3>2, <3>3, <3>5 DEF w  <2>4. CASE ~ (w < 0)
    <3>1. w \in Nat /\ w < Power(2, Bits)
      BY <2>2, <2>4
    <3>2. QED
      BY <1>4, <2>4, <3>1 DEF SignedNumeral, w
  <2>5. QED
    BY <2>3, <2>4
<1>8. x[Len(x)] \in Signs
  BY <1>1
<1>9. /\ x[Len(x)] \in {"a", "l", "%"} => x \in Literals
      /\ x[Len(x)] \in {"d", "i", "u", "x", "X", "o", "p", "a", "l", "%"}
  <2>1. CASE x = <<"a">> \/ x = <<"l">>
    <3>1. Len(x) = 1
      BY <2>1
    <3>2. QED
      BY <2>1, <3>1 DEF Literals
  <2>2. CASE x = <<"%", "%">> \/ x = <<"%", "p">>
    <3>1. Len(x) = 2
      BY <2>2
    <3>2. QED
      BY <2>2, <3>1 DEF Literals
  <2>3. ASSUME NEW l \in Letter, x = <<"%", l>> \/ x = <<"%", "l", l>> \/ x = <<"%", "l", "l", l>>
        PROVE  x[Len(x)] = l
    <3>1. CASE x = <<"%", l>>
      BY <3>1
    <3>2. CASE x = <<"%", "l", l>>
      BY <3>2
    <3>3. CASE x = <<"%", "l", "l", l>>
      BY <3>3
    <3>4. QED
      BY <2>3, <3>1, <3>2, <3>3
  <2>4. QED
    BY <2>1, <2>2, <2>3, KindsOfPieces DEF Letter
<1>10. CASE x \in Literals
  <2>1. Meaning(x, v) = <<x[Len(x)]>>
    BY <1>10 DEF Meaning, Literals
  <2>2. QED
    BY <1>1, <1>3, <1>8, <2>1 DEF Shapes
<1>11. CASE x \notin Literals
  <2> DEFINE l == x[Len(x)]
  <2>1. CASE l \in {"d", "i"}
    <3>1. Meaning(x, v) = SignedNumeral(AsSigned(v))
      BY <1>11, <2>1 DEF Meaning
    <3>2. QED
      BY <1>1, <1>3, <1>7, <3>1
  <2>2. CASE l = "p"
    <3>1. Meaning(x, v) = <<0, "x">> \o Numeral(v, 16)
      BY <1>11, <2>2 DEF Meaning
    <3>2. 0 \in Shapes /\ "x" \in Shapes
      BY DEF Shapes, Signs, Letter
    <3>3. <<0, "x">> \in Seq(Shapes)
      BY <3>2
    <3>4. Numeral(v, 16) \in Seq(Shapes)
      BY <1>6
    <3>5. QED
      BY <1>1, <1>3, <3>1, <3>3, <3>4
  <2>3. CASE l \in {"u", "o", "x", "X"}
    <3>1. Meaning(x, v) = Numeral(v, Base(l))
      BY <1>11, <2>3 DEF Meaning
    <3>2. Base(l) \in {8, 10, 16}
      BY <2>3 DEF Base
    <3>3. QED
      BY <1>1, <1>3, <1>6, <3>1, <3>2
  <2>4. QED
    BY <1>9, <1>11, <2>1, <2>2, <2>3
<1>12. QED
  BY <1>10, <1>11

LEMMA Joined ==
  ASSUME NEW S, NEW x \in Seq(S), NEW y \in Seq(S)
  PROVE  /\ x \o y \in Seq(S) /\ Len(x \o y) = Len(x) + Len(y) /\ Len(x) \in Nat /\ Len(y) \in Nat
         /\ \A k \in 1 .. Len(x) : (x \o y)[k] = x[k]
         /\ \A k \in 1 .. Len(y) : (x \o y)[Len(x) + k] = y[k]
<1>1. x \o y \in Seq(S) /\ Len(x \o y) = Len(x) + Len(y) /\ Len(x) \in Nat /\ Len(y) \in Nat
  OBVIOUS
<1>2. \A k \in 1 .. Len(x) + Len(y) : (x \o y)[k] = IF k <= Len(x) THEN x[k] ELSE y[k - Len(x)]
  OBVIOUS
<1>3. \A k \in 1 .. Len(x) : (x \o y)[k] = x[k]
  BY <1>1, <1>2
<1>4. ASSUME NEW k \in 1 .. Len(y) PROVE (x \o y)[Len(x) + k] = y[k]
  <2>1. Len(x) + k \in 1 .. Len(x) + Len(y) /\ ~ (Len(x) + k <= Len(x)) /\ (Len(x) + k) - Len(x) = k
    BY <1>1
  <2>2. QED
    BY <1>2, <2>1
<1>5. QED
  BY <1>1, <1>3, <1>4

\* The characters of a format, then its end, four times.
LEMMA ReadIs ==
  ASSUME NEW x \in Seq(Signs)
  PROVE  /\ \A k \in 1 .. Len(x) : Read(x)[k] = x[k]
         /\ \A k \in Len(x) + 1 .. Len(x) + 4 : Read(x)[k] = EndOfFormat
<1> DEFINE e == EndOfFormat
           t == <<e, e, e>>
           y == Append(x, e)
<1>1. e \in Signs
  BY DEF Signs
<1> HIDE DEF e
<1>2. t \in Seq(Signs) /\ Len(t) = 3 /\ t[1] = e /\ t[2] = e /\ t[3] = e
  BY <1>1
<1>3. y \in Seq(Signs) /\ Len(y) = Len(x) + 1 /\ y[Len(x) + 1] = e
      /\ \A k \in 1 .. Len(x) : y[k] = x[k]
  BY <1>1
<1>4. Len(x) \in Nat
  OBVIOUS
<1>5. Read(x) = y \o t
  BY DEF Read, e
<1> HIDE DEF t, y
<1>6. /\ \A k \in 1 .. Len(y) : (y \o t)[k] = y[k]
      /\ \A k \in 1 .. Len(t) : (y \o t)[Len(y) + k] = t[k]
  <2>1. y \in Seq(Signs) /\ t \in Seq(Signs)
    BY <1>2, <1>3
  <2> HIDE DEF e
  <2>2. \A k \in 1 .. Len(y) : (y \o t)[k] = y[k]
    BY <2>1, Joined
  <2>3. \A k \in 1 .. Len(t) : (y \o t)[Len(y) + k] = t[k]
    BY <2>1, Joined
  <2>4. QED
    BY <2>2, <2>3
<1>7. ASSUME NEW k \in 1 .. Len(x) PROVE Read(x)[k] = x[k]
  BY <1>3, <1>4, <1>5, <1>6
<1>8. ASSUME NEW k \in Len(x) + 1 .. Len(x) + 4 PROVE Read(x)[k] = e
  <2>1. CASE k = Len(x) + 1
    BY <1>3, <1>4, <1>5, <1>6, <2>1
  <2>2. CASE k # Len(x) + 1
    <3> DEFINE m == k - Len(y)
    <3>1. m \in 1 .. Len(t) /\ k = Len(y) + m /\ (m = 1 \/ m = 2 \/ m = 3)
      BY <1>2, <1>3, <1>4, <2>2
    <3> HIDE DEF m
    <3>2. Read(x)[k] = t[m]
      BY <1>5, <1>6, <3>1
    <3>3. QED
      BY <1>2, <3>1, <3>2
  <2>3. QED
    BY <2>1, <2>2
<1>9. QED
  BY <1>7, <1>8 DEF e

\* Where a piece and what follows it stand.
LEMMA PiecesStand ==
  ASSUME NEW x \in Pieces, NEW y \in Seq(Signs)
  PROVE  /\ Stands(x, Read(x \o y), 1)
         /\ y \in Pieces => Stands(y, Read(x \o y), Len(x) + 1)
         /\ \A k \in 0 .. Len(y) - 1 : Read(x \o y)[Len(x) + 1 + k] = y[k + 1]
         /\ \A k \in Len(y) .. Len(y) + 3 : Read(x \o y)[Len(x) + 1 + k] = EndOfFormat
<1> DEFINE z == x \o y
           r == Read(z)
<1>1. x \in Seq(Signs)
  <2>1. 0 \in Unsigned
    BY Halves DEF Unsigned
  <2>2. QED
    BY <2>1, PieceIs
<1>2. /\ z \in Seq(Signs) /\ Len(z) = Len(x) + Len(y) /\ Len(x) \in Nat /\ Len(y) \in Nat
      /\ \A k \in 1 .. Len(x) : z[k] = x[k]
      /\ \A k \in 1 .. Len(y) : z[Len(x) + k] = y[k]
  BY <1>1, Joined
<1> HIDE DEF z
<1>3. /\ \A k \in 1 .. Len(z) : r[k] = z[k]
      /\ \A k \in Len(z) + 1 .. Len(z) + 4 : r[k] = EndOfFormat
  BY <1>2, ReadIs
<1> HIDE DEF r
<1>4. ASSUME NEW k \in 0 .. Len(x) - 1 PROVE r[1 + k] = x[k + 1]
  <2>1. k + 1 \in 1 .. Len(x) /\ k + 1 \in 1 .. Len(z) /\ 1 + k = k + 1
    BY <1>2
  <2>2. QED
    BY <1>2, <1>3, <2>1
<1>5. ASSUME NEW k \in 0 .. Len(y) - 1 PROVE r[Len(x) + 1 + k] = y[k + 1]
  <2>1. k + 1 \in 1 .. Len(y) /\ Len(x) + (k + 1) \in 1 .. Len(z) /\ Len(x) + 1 + k = Len(x) + (k + 1)
    BY <1>2
  <2>2. QED
    BY <1>2, <1>3, <2>1
<1>6. ASSUME NEW k \in Len(y) .. Len(y) + 3 PROVE r[Len(x) + 1 + k] = EndOfFormat
  <2>1. Len(x) + 1 + k \in Len(z) + 1 .. Len(z) + 4
    BY <1>2
  <2>2. QED
    BY <1>3, <2>1
<1>7. QED
  BY <1>4, <1>5, <1>6 DEF Stands, r, z

\* Past the end there are no more turns.
LEMMA NoMoreTurns ==
  ASSUME NEW format, NEW args, Len(format) \in Nat, NEW f, Goes(f, format, args),
         NEW j \in 0 .. Len(format) + 1, f[j].p >= Len(format) + 1
  PROVE  f[Len(format) + 1] = f[j]
<1> DEFINE end == Len(format) + 1
           S == {n \in Nat : j + n <= end => f[j + n] = f[j]}
<1>1. 0 \in S
  OBVIOUS
<1>2. ASSUME NEW n \in Nat, n \in S PROVE n + 1 \in S
  <2> SUFFICES ASSUME j + (n + 1) <= end PROVE f[j + (n + 1)] = f[j]
    OBVIOUS
  <2>1. j + n \in 0 .. Len(format) /\ (j + n) + 1 = j + (n + 1) /\ j + n <= end
    OBVIOUS
  <2>2. f[j + n] = f[j]
    BY <1>2, <2>1
  <2>3. f[(j + n) + 1] = TurnOf(format, args, f[j])
    BY <2>1, <2>2 DEF Goes
  <2>4. TurnOf(format, args, f[j]) = f[j]
    BY DEF TurnOf
  <2>5. QED
    BY <2>1, <2>3, <2>4
<1> HIDE DEF S
<1>3. end - j \in S
  <2>1. end - j \in Nat
    OBVIOUS
  <2>2. QED
    BY <1>1, <1>2, <2>1, Induct
<1>4. j + (end - j) <= end /\ j + (end - j) = end
  OBVIOUS
<1>5. QED
  BY <1>3, <1>4 DEF S

------------------------------------------------------------------------------
(* What printf shows.                                                        *)

\* The argument of a piece, if it takes one, is the n-th.
Fed(args, n, x, v) == Len(ArgumentsOf(x, v)) = 1 => n <= Len(args) /\ args[n] = v

\* A turn takes the piece that stands at p.
LEMMA PieceShown ==
  ASSUME NEW format \in Seq(Signs), NEW args \in Seq(Unsigned), NEW x \in Pieces, NEW v \in Unsigned,
         NEW p \in 1 .. Len(format), NEW n \in Nat \ {0}, NEW text,
         Stands(x, Read(format), p),
         Fed(args, n, x, v)
  PROVE  TurnOf(format, args, Standing(p, n, text)) =
           Standing(p + Len(x), n + Len(ArgumentsOf(x, v)), text \o Meaning(x, v))
<1> DEFINE w == IF n <= Len(args) THEN args[n] ELSE 0
           c == Read(format)
<1>1. w \in Unsigned
  <2>1. 0 \in Unsigned
    BY Halves DEF Unsigned
  <2>2. Len(args) \in Nat /\ \A k \in 1 .. Len(args) : args[k] \in Unsigned
    OBVIOUS
  <2>3. n <= Len(args) => n \in 1 .. Len(args)
    BY <2>2
  <2>4. QED
    BY <2>1, <2>2, <2>3
<1>2. w = v \/ x \in Literals
  <2>1. Len(ArgumentsOf(x, v)) = 1 => w = v
    BY DEF Fed
  <2>2. x \in Numbers => Len(ArgumentsOf(x, v)) = 1
    BY DEF ArgumentsOf
  <2>3. QED
    BY <2>1, <2>2 DEF Pieces
<1> HIDE DEF w, c
<1>3. Meaning(x, w) = Meaning(x, v) /\ Len(ArgumentsOf(x, w)) = Len(ArgumentsOf(x, v))
  <2>1. CASE w = v
    BY <2>1
  <2>2. CASE x \in Literals
    <3>1. x \notin Numbers
      BY <2>2 DEF Literals, Numbers, LongDirectives
    <3>2. ArgumentsOf(x, w) = <<>> /\ ArgumentsOf(x, v) = <<>>
      BY <3>1 DEF ArgumentsOf
    <3>3. Meaning(x, w) = <<x[Len(x)]>> /\ Meaning(x, v) = <<x[Len(x)]>>
      <4>1. x[Len(x)] \in {"a", "l", "%"}
        <5>1. CASE x = <<"a">>
          <6>1. Len(x) = 1 /\ x[1] = "a"
            BY <5>1
          <6>2. QED
            BY <6>1
        <5>2. CASE x = <<"l">>
          <6>1. Len(x) = 1 /\ x[1] = "l"
            BY <5>2
          <6>2. QED
            BY <6>1
        <5>3. CASE x = <<"%", "%">>
          <6>1. Len(x) = 2 /\ x[2] = "%"
            BY <5>3
          <6>2. QED
            BY <6>1
        <5>4. QED
          BY <2>2, <5>1, <5>2, <5>3 DEF Literals
      <4>2. QED
        BY <2>2, <4>1 DEF Meaning
    <3>4. QED
      BY <3>2, <3>3
  <2>3. QED
    BY <1>2, <2>1, <2>2
<1>4. Turn(c, p, w) = [length |-> Len(x), takes |-> Len(ArgumentsOf(x, v)), text |-> Meaning(x, v)]
  <2>1. p \in Nat
    OBVIOUS
  <2>2. QED
    BY <1>1, <1>3, <2>1, TurnOfPiece DEF c
<1>5. ~ (p >= Len(format) + 1)
  OBVIOUS
<1> DEFINE was == Standing(p, n, text)
           turn == Turn(c, p, w)
<1>6. was.p = p /\ was.arg = n /\ was.text = text
  BY DEF Standing
<1> HIDE DEF was, turn
<1>7. TurnOf(format, args, was) =
        [p |-> was.p + turn.length, arg |-> was.arg + turn.takes, text |-> was.text \o turn.text]
  BY <1>5, <1>6 DEF TurnOf, turn, c, w
<1>8. turn.length = Len(x) /\ turn.takes = Len(ArgumentsOf(x, v)) /\ turn.text = Meaning(x, v)
  BY <1>4 DEF turn
<1>9. QED
  BY <1>6, <1>7, <1>8 DEF was, Standing

\* A turn, whatever may stand before it.
LEMMA NextTurn ==
  ASSUME NEW format \in Seq(Signs), NEW args \in Seq(Unsigned), NEW x \in Pieces, NEW v \in Unsigned
  PROVE  \A p \in 1 .. Len(format), n \in Nat \ {0} : \A text :
           Stands(x, Read(format), p) /\ Fed(args, n, x, v) =>
             TurnOf(format, args, Standing(p, n, text)) =
               Standing(p + Len(x), n + Len(ArgumentsOf(x, v)), text \o Meaning(x, v))
  BY PieceShown

\* The first piece, when it is not alone.
LEMMA FirstTurn ==
  ASSUME NEW x \in Pieces, NEW v \in Unsigned, NEW y \in Seq(Signs), NEW args \in Seq(Unsigned),
         Fed(args, 1, x, v)
  PROVE  TurnOf(x \o y, args, AtFirst) = Standing(Len(x) + 1, 1 + Len(ArgumentsOf(x, v)), Meaning(x, v))
<1>1. /\ x \in Seq(Signs) /\ Len(x) \in 1 .. 4 /\ Len(ArgumentsOf(x, v)) \in {0, 1}
      /\ Meaning(x, v) \in Seq(Shapes)
  BY PieceIs
<1>2. x \o y \in Seq(Signs) /\ Len(x \o y) = Len(x) + Len(y) /\ Len(y) \in Nat
  BY <1>1, Joined
<1> DEFINE z == x \o y
<1>3. z \in Seq(Signs)
  BY <1>2
<1>4. Stands(x, Read(z), 1)
  BY PiecesStand
<1> HIDE DEF z
<1>5. 1 \in 1 .. Len(z) /\ 1 \in Nat \ {0}
  <2> DEFINE l == Len(x)
             m == Len(y)
  <2>1. l \in 1 .. 4 /\ m \in Nat
    BY <1>1, <1>2
  <2>2. Len(z) = l + m
    BY <1>2 DEF z
  <2> HIDE DEF l, m
  <2>3. Len(z) \in Nat /\ Len(z) >= 1
    BY <2>1, <2>2
  <2>4. QED
    BY <2>3
<1>6. TurnOf(z, args, AtFirst) =
        Standing(1 + Len(x), 1 + Len(ArgumentsOf(x, v)), <<>> \o Meaning(x, v))
  <2>1. \A p \in 1 .. Len(z), n \in Nat \ {0} : \A text :
          Stands(x, Read(z), p) /\ Fed(args, n, x, v) =>
            TurnOf(z, args, Standing(p, n, text)) =
              Standing(p + Len(x), n + Len(ArgumentsOf(x, v)), text \o Meaning(x, v))
    BY <1>3, NextTurn
  <2>2. TurnOf(z, args, Standing(1, 1, <<>>)) =
          Standing(1 + Len(x), 1 + Len(ArgumentsOf(x, v)), <<>> \o Meaning(x, v))
    BY <1>4, <1>5, <2>1, Zenon
  <2>3. QED
    BY <2>2 DEF AtFirst
<1>7. <<>> \o Meaning(x, v) = Meaning(x, v)
  BY <1>1
<1>8. 1 + Len(x) = Len(x) + 1
  BY <1>1
<1>9. QED
  BY <1>6, <1>7, <1>8 DEF z

\* One piece.
LEMMA OnePiece ==
  ASSUME NEW x \in Pieces, NEW v \in Unsigned
  PROVE  Printf(x, ArgumentsOf(x, v)).text = Meaning(x, v)
<1> DEFINE a == ArgumentsOf(x, v)
           m == Meaning(x, v)
<1>1. /\ x \in Seq(Signs) /\ Len(x) \in 1 .. 4 /\ a \in Seq(Unsigned) /\ Len(a) \in {0, 1}
      /\ Fed(a, 1, x, v)
  BY PieceIs DEF Fed
<1>2. x \o <<>> = x /\ <<>> \in Seq(Signs)
  BY <1>1
<1>3. TurnOf(x, a, AtFirst) = Standing(Len(x) + 1, 1 + Len(a), m)
  <2>1. TurnOf(x \o <<>>, a, AtFirst) = Standing(Len(x) + 1, 1 + Len(a), m)
    BY <1>1, <1>2, FirstTurn
  <2>2. QED
    BY <1>2, <2>1
<1> HIDE DEF a, m
<1>4. Len(x) \in Nat /\ 0 \in 0 .. Len(x) /\ 0 + 1 = 1
  BY <1>1
<1>5. PICK f : /\ f[0] = AtFirst
               /\ Goes(f, x, a)
               /\ Printf(x, a).text = f[Len(x) + 1].text
  BY <1>4, PrintfGoes
<1>6. f[1] = Standing(Len(x) + 1, 1 + Len(a), m)
  <2>1. f[0 + 1] = TurnOf(x, a, AtFirst)
    BY <1>4, <1>5 DEF Goes
  <2>2. QED
    BY <1>3, <1>4, <2>1
<1>7. f[1].p >= Len(x) + 1 /\ f[1].text = m
  BY <1>4, <1>6 DEF Standing
<1>8. 1 \in 0 .. Len(x) + 1
  BY <1>4
<1>9. f[Len(x) + 1] = f[1]
  <2>1. Goes(f, x, a)
    BY <1>5
  <2>2. Len(x) \in Nat /\ f[1].p >= Len(x) + 1
    BY <1>4, <1>7
  <2>3. QED
    BY <1>8, <2>1, <2>2, NoMoreTurns
<1>10. QED
  BY <1>5, <1>7, <1>9 DEF a, m

\* Two pieces, each with its argument.
LEMMA TwoPieces ==
  ASSUME NEW x \in Pieces, NEW y \in Pieces, NEW v \in Unsigned, NEW w \in Unsigned
  PROVE  LET shown == Printf(x \o y, ArgumentsOf(x, v) \o ArgumentsOf(y, w))
         IN  shown.text = Meaning(x, v) \o Meaning(y, w) /\ ~shown.past
<1> DEFINE z == x \o y
           a == ArgumentsOf(x, v)
           b == ArgumentsOf(y, w)
           args == a \o b
           second == Standing(Len(x) + 1, 1 + Len(a), Meaning(x, v))
           last == Standing(Len(x) + 1 + Len(y), 1 + Len(a) + Len(b), Meaning(x, v) \o Meaning(y, w))
<1>1. /\ x \in Seq(Signs) /\ Len(x) \in 1 .. 4 /\ y \in Seq(Signs) /\ Len(y) \in 1 .. 4
  BY PieceIs
<1>2. /\ a \in Seq(Unsigned) /\ Len(a) \in {0, 1} /\ (Len(a) = 1 => a[1] = v)
      /\ b \in Seq(Unsigned) /\ Len(b) \in {0, 1} /\ (Len(b) = 1 => b[1] = w)
  BY PieceIs
<1>3. z \in Seq(Signs) /\ Len(z) = Len(x) + Len(y)
  BY <1>1, Joined
<1>4. Stands(y, Read(z), Len(x) + 1)
  BY <1>1, PiecesStand
<1>5. Fed(args, 1, x, v) /\ Fed(args, 1 + Len(a), y, w) /\ args \in Seq(Unsigned)
  <2> HIDE DEF a, b
  <2>1. /\ args \in Seq(Unsigned) /\ Len(args) = Len(a) + Len(b) /\ Len(a) \in Nat /\ Len(b) \in Nat
        /\ \A k \in 1 .. Len(a) : args[k] = a[k]
        /\ \A k \in 1 .. Len(b) : args[Len(a) + k] = b[k]
    BY <1>2, Joined
  <2> HIDE DEF args
  <2>2. Len(a) = 1 => 1 <= Len(args) /\ args[1] = v
    BY <1>2, <2>1
  <2>3. Len(b) = 1 => 1 + Len(a) <= Len(args) /\ args[1 + Len(a)] = w
    <3> SUFFICES ASSUME Len(b) = 1 PROVE 1 + Len(a) <= Len(args) /\ args[1 + Len(a)] = w
      OBVIOUS
    <3>1. 1 \in 1 .. Len(b) /\ 1 + Len(a) = Len(a) + 1
      BY <2>1
    <3>2. QED
      BY <1>2, <2>1, <3>1
  <2>4. QED
    BY <2>1, <2>2, <2>3 DEF Fed, a, b
<1>6. TurnOf(z, args, AtFirst) = second
  BY <1>1, <1>5, FirstTurn
<1>7. TurnOf(z, args, second) = last
  <2> HIDE DEF z, args, a, b
  <2>1. Len(x) + 1 \in 1 .. Len(z) /\ 1 + Len(a) \in Nat \ {0}
    <3>1. Len(x) \in 1 .. 4 /\ Len(y) \in 1 .. 4
      BY <1>1
    <3>2. Len(z) = Len(x) + Len(y)
      BY <1>3
    <3>3. Len(x) + 1 \in 1 .. Len(z)
      BY <3>1, <3>2
    <3>4. Len(a) \in {0, 1}
      BY <1>2
    <3>5. 1 + Len(a) \in Nat \ {0}
      BY <3>4
    <3>6. QED
      BY <3>3, <3>5
  <2>2. \A p \in 1 .. Len(z), n \in Nat \ {0} : \A text :
          Stands(y, Read(z), p) /\ Fed(args, n, y, w) =>
            TurnOf(z, args, Standing(p, n, text)) = Standing(p + Len(y), n + Len(b), text \o Meaning(y, w))
    BY <1>3, <1>5, NextTurn DEF b
  <2>3. QED
    BY <1>4, <1>5, <2>1, <2>2, Zenon
<1> HIDE DEF z, args, a, b
<1>8. Len(z) \in Nat /\ 0 \in 0 .. Len(z) /\ 1 \in 0 .. Len(z) /\ 2 \in 0 .. Len(z) + 1
  <2>1. Len(x) \in 1 .. 4 /\ Len(y) \in 1 .. 4
    BY <1>1
  <2>2. Len(z) = Len(x) + Len(y)
    BY <1>3
  <2> DEFINE l == Len(x)
             m == Len(y)
  <2>3. l \in 1 .. 4 /\ m \in 1 .. 4 /\ Len(z) = l + m
    BY <2>1, <2>2
  <2> HIDE DEF l, m
  <2>4. Len(z) \in Nat /\ Len(z) >= 2
    BY <2>3
  <2>5. QED
    BY <2>4
<1>9. PICK f : /\ f[0] = AtFirst /\ Goes(f, z, args)
               /\ Printf(z, args).text = f[Len(z) + 1].text
               /\ Printf(z, args).past = (f[Len(z) + 1].p > Len(z) + 1)
  BY <1>8, PrintfGoes
<1>10. f[2] = last
  <2>1. f[0 + 1] = second /\ 0 + 1 = 1
    BY <1>6, <1>8, <1>9 DEF Goes
  <2>2. f[1 + 1] = TurnOf(z, args, f[1]) /\ 1 + 1 = 2
    BY <1>8, <1>9 DEF Goes
  <2> HIDE DEF second, last
  <2>3. QED
    BY <1>7, <2>1, <2>2
<1>11. f[2].p = Len(z) + 1 /\ f[2].text = Meaning(x, v) \o Meaning(y, w)
  <2>1. f[2].p = Len(x) + 1 + Len(y) /\ f[2].text = Meaning(x, v) \o Meaning(y, w)
    BY <1>10 DEF Standing
  <2>2. Len(x) \in Nat /\ Len(y) \in Nat
    BY <1>1
  <2>3. QED
    BY <1>3, <2>1, <2>2
<1>12. f[2].p >= Len(z) + 1
  BY <1>8, <1>11
<1>13. f[Len(z) + 1] = f[2]
  <2>1. Goes(f, z, args)
    BY <1>9
  <2>2. Len(z) \in Nat /\ 2 \in 0 .. Len(z) + 1
    BY <1>8
  <2>3. QED
    BY <1>12, <2>1, <2>2, NoMoreTurns
<1>14. ~ (f[2].p > Len(z) + 1)
  BY <1>8, <1>11
<1>15. Printf(z, args).text = Meaning(x, v) \o Meaning(y, w) /\ ~ Printf(z, args).past
  BY <1>9, <1>11, <1>13, <1>14
<1>16. QED
  BY <1>15 DEF z, args, a, b

\* A directive that the end of the format cuts short takes that end too.
LEMMA UnfinishedTurn ==
  ASSUME NEW cut \in Unfinished, NEW c, NEW p \in Nat, NEW v,
         Stands(cut, c, p), c[p + Len(cut)] = EndOfFormat
  PROVE  Turn(c, p, v).length = Len(cut) + 1
<1>1. CASE cut = <<"%">>
  <2>1. c[p] = "%" /\ c[p + 1] = EndOfFormat /\ Len(cut) = 1
    BY <1>1 DEF Stands
  <2>2. QED
    BY <2>1 DEF Turn, LongDirectives, Directives, EndOfFormat
<1>2. CASE cut = <<"%", "l">>
  <2>1. c[p] = "%" /\ c[p + 1] = "l" /\ c[p + 2] = EndOfFormat /\ Len(cut) = 2
    BY <1>2 DEF Stands
  <2>2. QED
    BY <2>1 DEF Turn, LongDirectives, Directives, EndOfFormat
<1>3. CASE cut = <<"%", "l", "l">>
  <2>1. c[p] = "%" /\ c[p + 1] = "l" /\ c[p + 2] = "l" /\ c[p + 3] = EndOfFormat /\ Len(cut) = 3
    BY <1>3 DEF Stands
  <2>2. QED
    BY <2>1 DEF Turn, LongDirectives, Directives, EndOfFormat
<1>4. QED
  BY <1>1, <1>2, <1>3 DEF Unfinished

LEMMA GoesPast ==
  ASSUME NEW x \in Pieces, NEW cut \in Unfinished
  PROVE  Printf(x \o cut, <<0>>).past
<1> DEFINE z == x \o cut
           args == <<0>>
           a == ArgumentsOf(x, 0)
           second == Standing(Len(x) + 1, 1 + Len(a), Meaning(x, 0))
<1>1. 0 \in Unsigned /\ args \in Seq(Unsigned) /\ Len(args) = 1 /\ args[1] = 0
  <2>1. 0 \in Unsigned
    BY Halves DEF Unsigned
  <2>2. QED
    BY <2>1
<1>2. x \in Seq(Signs) /\ Len(x) \in 1 .. 4 /\ Len(a) \in {0, 1}
  BY <1>1, PieceIs
<1>3. cut \in Seq(Signs) /\ Len(cut) \in 1 .. 4
  <2>1. "%" \in Signs /\ "l" \in Signs
    BY DEF Signs
  <2>2. QED
    BY <2>1, Tuples, Zenon DEF Unfinished
<1>4. z \in Seq(Signs) /\ Len(z) = Len(x) + Len(cut)
  BY <1>2, <1>3, Joined
<1> DEFINE p == Len(x) + 1
           c == Read(z)
           n == Len(cut)
<1>5. p \in Nat /\ n \in Nat
  BY <1>2, <1>3
<1>6. Stands(cut, c, p) /\ c[p + n] = EndOfFormat
  <2>1. /\ \A k \in 0 .. n - 1 : c[p + k] = cut[k + 1]
        /\ \A k \in n .. n + 3 : c[p + k] = EndOfFormat
    BY <1>3, PiecesStand
  <2> HIDE DEF c, p, n
  <2>2. n \in n .. n + 3
    BY <1>5
  <2>3. QED
    BY <2>1, <2>2 DEF Stands, n
<1>7. Fed(args, 1, x, 0)
  BY <1>1 DEF Fed
<1>8. TurnOf(z, args, AtFirst) = second
  BY <1>1, <1>3, <1>7, FirstTurn
<1> HIDE DEF args, a, c
<1>9. TurnOf(z, args, second).p = p + (n + 1)
  <2> DEFINE v == IF second.arg <= Len(args) THEN args[second.arg] ELSE 0
             turn == Turn(c, p, v)
  <2>1. second.p = p
    BY DEF Standing
  <2> HIDE DEF v
  <2>2. turn.length = n + 1
    BY <1>5, <1>6, UnfinishedTurn
  <2> HIDE DEF second, turn
  <2>3. ~ (p >= Len(z) + 1)
    <3>1. Len(x) \in 1 .. 4 /\ n \in 1 .. 4
      BY <1>2, <1>3
    <3> HIDE DEF z, n
    <3>2. Len(z) = Len(x) + n
      BY <1>4 DEF n
    <3>3. QED
      BY <3>1, <3>2
  <2> HIDE DEF p, z, n
  <2>4. TurnOf(z, args, second) =
          [p |-> p + turn.length, arg |-> second.arg + turn.takes, text |-> second.text \o turn.text]
    BY <2>1, <2>3 DEF TurnOf, turn, v, c
  <2>5. QED
    BY <2>2, <2>4
<1> HIDE DEF z
<1>10. Len(z) \in Nat /\ 0 \in 0 .. Len(z) /\ 1 \in 0 .. Len(z) /\ 2 \in 0 .. Len(z) + 1
       /\ p + (n + 1) > Len(z) + 1 /\ p + (n + 1) >= Len(z) + 1
  <2> DEFINE l == Len(x)
  <2>1. l \in 1 .. 4 /\ n \in 1 .. 4
    BY <1>2, <1>3
  <2>2. Len(z) = l + n /\ p = l + 1
    BY <1>4
  <2> HIDE DEF l, n, p
  <2>3. Len(z) \in Nat /\ Len(z) >= 2
    BY <2>1, <2>2
  <2>4. p + (n + 1) = Len(z) + 2
    BY <2>1, <2>2
  <2>5. QED
    BY <2>3, <2>4
<1> HIDE DEF p, n
<1>11. PICK f : /\ f[0] = AtFirst /\ Goes(f, z, args)
                /\ Printf(z, args).past = (f[Len(z) + 1].p > Len(z) + 1)
  BY <1>10, PrintfGoes
<1>12. f[2].p = p + (n + 1)
  <2>1. f[0 + 1] = second /\ 0 + 1 = 1
    BY <1>8, <1>10, <1>11 DEF Goes
  <2>2. f[1 + 1] = TurnOf(z, args, f[1]) /\ 1 + 1 = 2
    BY <1>10, <1>11 DEF Goes
  <2> HIDE DEF second
  <2>3. QED
    BY <1>9, <2>1, <2>2
<1>13. f[2].p >= Len(z) + 1
  BY <1>10, <1>12
<1>14. f[Len(z) + 1] = f[2]
  <2>1. Goes(f, z, args)
    BY <1>11
  <2>2. Len(z) \in Nat /\ 2 \in 0 .. Len(z) + 1
    BY <1>10
  <2>3. QED
    BY <1>13, <2>1, <2>2, NoMoreTurns
<1>15. Printf(z, args).past
  BY <1>10, <1>11, <1>12, <1>14
<1>16. QED
  BY <1>15 DEF z, args

------------------------------------------------------------------------------
(* The length of a numeral.                                                  *)

\* A numeral is no longer than its number needs.
LEMMA NumeralLength ==
  ASSUME NEW v \in Nat, v < Power(2, Bits), NEW base \in Nat \ {0, 1}
  PROVE  /\ Numeral(v, base) \in Seq(Nat) /\ Len(Numeral(v, base)) \in Nat \ {0}
         /\ Len(Numeral(v, base)) = 1 \/ Power(base, Len(Numeral(v, base)) - 1) <= v
<1>1. PICK n \in 1 .. Bits : Needs(v, base, n) /\ Numeral(v, base) = DigitsOf(v, base, n)
  BY NumeralIs
<1>2. n \in Nat \ {0} /\ n - 1 \in Nat
  BY <1>1, StdioConstants
<1>3. Numeral(v, base) \in Seq(Nat) /\ Len(Numeral(v, base)) = n
  <2>1. DigitsOf(v, base, n) \in Seq(Nat) /\ Len(DigitsOf(v, base, n)) = n
    <3>1. n \in Nat
      BY <1>2
    <3>2. QED
      BY <3>1, OneMoreDigit
  <2>2. QED
    BY <1>1, <2>1
<1>4. Power(base, n - 1) \in Nat
  BY <1>2, PowerIs
<1>5. n = 1 \/ Power(base, n - 1) <= v
  BY <1>1, <1>4 DEF Needs
<1>6. QED
  BY <1>2, <1>3, <1>5

LEMMA SmallPowers ==
  /\ Power(2, 0) = 1 /\ Power(2, 1) = 2 /\ Power(2, 2) = 4 /\ Power(2, 3) = 8 /\ Power(2, 4) = 16
  /\ Power(2, 5) = 32 /\ Power(2, 6) = 64 /\ Power(2, 7) = 128 /\ Power(2, 8) = 256
  /\ Power(2, 9) = 512 /\ Power(2, 10) = 1024
  /\ Power(10, 1) = 10 /\ Power(10, 2) = 100 /\ Power(10, 3) = 1000
<1>1. /\ Power(2, 0) = 1 /\ \A k \in Nat : Power(2, k + 1) = 2 * Power(2, k)
      /\ Power(10, 0) = 1 /\ \A k \in Nat : Power(10, k + 1) = 10 * Power(10, k)
  BY PowerIs
<1>2. Power(2, 1) = 2 /\ Power(10, 1) = 10
  <2>1. 0 \in Nat /\ 0 + 1 = 1
    OBVIOUS
  <2>2. Power(2, 1) = 2 * Power(2, 0) /\ Power(10, 1) = 10 * Power(10, 0)
    BY <1>1, <2>1
  <2>3. QED
    BY <1>1, <2>2
<1>3. Power(2, 2) = 4 /\ Power(10, 2) = 100
  <2>1. 1 \in Nat /\ 1 + 1 = 2
    OBVIOUS
  <2>2. Power(2, 2) = 2 * Power(2, 1) /\ Power(10, 2) = 10 * Power(10, 1)
    BY <1>1, <2>1
  <2>3. QED
    BY <1>2, <2>2
<1>4. Power(2, 3) = 8 /\ Power(10, 3) = 1000
  <2>1. 2 \in Nat /\ 2 + 1 = 3
    OBVIOUS
  <2>2. Power(2, 3) = 2 * Power(2, 2) /\ Power(10, 3) = 10 * Power(10, 2)
    BY <1>1, <2>1
  <2>3. QED
    BY <1>3, <2>2
<1>5. Power(2, 4) = 16
  <2>1. 3 \in Nat /\ 3 + 1 = 4
    OBVIOUS
  <2>2. Power(2, 4) = 2 * Power(2, 3)
    BY <1>1, <2>1
  <2>3. QED
    BY <1>4, <2>2
<1>6. Power(2, 5) = 32
  <2>1. 4 \in Nat /\ 4 + 1 = 5
    OBVIOUS
  <2>2. Power(2, 5) = 2 * Power(2, 4)
    BY <1>1, <2>1
  <2>3. QED
    BY <1>5, <2>2
<1>7. Power(2, 6) = 64
  <2>1. 5 \in Nat /\ 5 + 1 = 6
    OBVIOUS
  <2>2. Power(2, 6) = 2 * Power(2, 5)
    BY <1>1, <2>1
  <2>3. QED
    BY <1>6, <2>2
<1>8. Power(2, 7) = 128
  <2>1. 6 \in Nat /\ 6 + 1 = 7
    OBVIOUS
  <2>2. Power(2, 7) = 2 * Power(2, 6)
    BY <1>1, <2>1
  <2>3. QED
    BY <1>7, <2>2
<1>9. Power(2, 8) = 256
  <2>1. 7 \in Nat /\ 7 + 1 = 8
    OBVIOUS
  <2>2. Power(2, 8) = 2 * Power(2, 7)
    BY <1>1, <2>1
  <2>3. QED
    BY <1>8, <2>2
<1>10. Power(2, 9) = 512
  <2>1. 8 \in Nat /\ 8 + 1 = 9
    OBVIOUS
  <2>2. Power(2, 9) = 2 * Power(2, 8)
    BY <1>1, <2>1
  <2>3. QED
    BY <1>9, <2>2
<1>11. Power(2, 10) = 1024
  <2>1. 9 \in Nat /\ 9 + 1 = 10
    OBVIOUS
  <2>2. Power(2, 10) = 2 * Power(2, 9)
    BY <1>1, <2>1
  <2>3. QED
    BY <1>10, <2>2
<1>12. QED
  BY <1>1, <1>2, <1>3, <1>4, <1>5, <1>6, <1>7, <1>8, <1>9, <1>10, <1>11

LEMMA PowersOfEight ==
  ASSUME NEW m \in Nat
  PROVE  Power(8, m) = Power(2, 3 * m)
<1> DEFINE S == {k \in Nat : Power(8, k) = Power(2, 3 * k)}
<1>1. /\ Power(2, 0) = 1 /\ \A k \in Nat : Power(2, k) \in Nat /\ Power(2, k + 1) = 2 * Power(2, k)
      /\ Power(8, 0) = 1 /\ \A k \in Nat : Power(8, k) \in Nat /\ Power(8, k + 1) = 8 * Power(8, k)
  BY PowerIs
<1>2. 0 \in S
  <2>1. 3 * 0 = 0
    OBVIOUS
  <2>2. QED
    BY <1>1, <2>1
<1>3. ASSUME NEW k \in Nat, k \in S PROVE k + 1 \in S
  <2> DEFINE j == 3 * k
  <2>1. j \in Nat /\ 3 * (k + 1) = j + 3 /\ 3 \in Nat
    OBVIOUS
  <2>2. Power(8, k) = Power(2, j)
    BY <1>3
  <2> HIDE DEF j
  <2>3. Power(2, j + 3) = Power(2, j) * Power(2, 3)
    BY <2>1, PowerAdd
  <2>4. Power(8, k + 1) = 8 * Power(2, j) /\ Power(2, j) \in Nat
    BY <1>1, <2>1, <2>2
  <2>5. Power(8, k + 1) = Power(2, 3 * (k + 1))
    BY <2>1, <2>3, <2>4, SmallPowers
  <2>6. QED
    BY <2>5
<1> HIDE DEF S
<1>4. m \in S
  BY <1>2, <1>3, Induct
<1>5. QED
  BY <1>4 DEF S

\* The buffer of octal digits is long enough (stdio.c:13).
LEMMA OctalFits ==
  ASSUME NEW v \in Unsigned
  PROVE  Len(UintText(v, 8)) <= (Bits + 2) \div 3
<1>1. Bits \in Nat \ {0, 1} /\ v \in Nat /\ v < Power(2, Bits) /\ Power(2, Bits) \in Nat
  BY Halves DEF Unsigned
<1> DEFINE n == Len(UintText(v, 8))
           q == (Bits + 2) \div 3
           m == n - 1
<1>2. UintText(v, 8) = Numeral(v, 8)
  BY <1>1, UintIs
<1>3. n \in Nat \ {0} /\ (n = 1 \/ Power(8, m) <= v)
  <2> DEFINE t == Numeral(v, 8)
  <2>1. 8 \in Nat \ {0, 1}
    OBVIOUS
  <2>2. Len(t) \in Nat \ {0} /\ (Len(t) = 1 \/ Power(8, Len(t) - 1) <= v)
    BY <1>1, <2>1, NumeralLength
  <2>3. n = Len(t)
    BY <1>2
  <2> HIDE DEF t, n
  <2>4. QED
    BY <2>2, <2>3
<1>4. q \in Int /\ Bits + 2 <= 3 * q + 2
  BY <1>1
<1>5. q >= 1
  BY <1>1, <1>4
<1> HIDE DEF n, q
<1>6. CASE n # 1
  <2>1. m \in Nat /\ 3 * m \in Nat
    BY <1>3
  <2>2. Power(2, 3 * m) <= v
    BY <1>3, <1>6, <2>1, PowersOfEight
  <2> DEFINE k == 3 * m
  <2>3. k \in Nat /\ Power(2, k) \in Nat
    BY <2>1, PowerIs
  <2>4. Power(2, k) < Power(2, Bits)
    BY <1>1, <2>2, <2>3
  <2> HIDE DEF k
  <2>5. ~ (Bits <= k)
    <3>1. Bits <= k => Power(2, Bits) <= Power(2, k)
      BY <1>1, <2>3, PowerGrows
    <3>2. QED
      BY <1>1, <2>3, <2>4, <3>1
  <2>6. 3 * m < Bits
    BY <1>1, <2>3, <2>5 DEF k
  <2>7. QED
    BY <1>1, <1>3, <1>4, <2>6 DEF n, q
<1>7. CASE n = 1
  BY <1>5, <1>7 DEF n, q
<1>8. QED
  BY <1>6, <1>7

\* Ten bits are less than three digits, and a little.
LEMMA ThousandsLead ==
  ASSUME NEW a \in 0 .. 6
  PROVE  Power(2, 10 * a) <= 2 * Power(10, 3 * a)
<1> DEFINE P(k) == Power(2, 10 * k)
           T(k) == Power(10, 3 * k)
<1>1. P(0) = 1 /\ T(0) = 1
  BY PowerIs
<1>2. ASSUME NEW k \in Nat
      PROVE  P(k) \in Nat /\ T(k) \in Nat /\ P(k + 1) = 1024 * P(k) /\ T(k + 1) = 1000 * T(k)
  <2>1. 10 * k \in Nat /\ 3 * k \in Nat /\ 10 * (k + 1) = 10 * k + 10 /\ 3 * (k + 1) = 3 * k + 3
    OBVIOUS
  <2>2. Power(2, 10 * k + 10) = Power(2, 10 * k) * Power(2, 10)
    BY <2>1, PowerAdd
  <2>3. Power(10, 3 * k + 3) = Power(10, 3 * k) * Power(10, 3)
    BY <2>1, PowerAdd
  <2>4. Power(2, 10) = 1024
    BY SmallPowers
  <2>5. Power(10, 3) = 1000
    BY SmallPowers
  <2>6. Power(2, 10 * k) \in Nat /\ Power(10, 3 * k) \in Nat
    <3>1. \A j \in Nat : Power(2, j) \in Nat /\ Power(10, j) \in Nat
      BY PowerIs
    <3>2. QED
      BY <2>1, <3>1
  <2>7. QED
    BY <2>1, <2>2, <2>3, <2>4, <2>5, <2>6
<1>3. 100 * P(0) <= 100 * T(0)
  BY <1>1
<1>4. 100 * P(1) <= 103 * T(1)
  <2>1. 0 \in Nat /\ 0 + 1 = 1
    OBVIOUS
  <2> HIDE DEF P, T
  <2>2. /\ P(0) \in Nat /\ T(0) \in Nat
        /\ P(1) = 1024 * P(0) /\ T(1) = 1000 * T(0)
    BY <1>2, <2>1
  <2>3. QED
    BY <1>3, <2>2
<1>5. 100 * P(2) <= 106 * T(2)
  <2>1. 1 \in Nat /\ 1 + 1 = 2
    OBVIOUS
  <2> HIDE DEF P, T
  <2>2. /\ P(1) \in Nat /\ T(1) \in Nat
        /\ P(2) = 1024 * P(1) /\ T(2) = 1000 * T(1)
    BY <1>2, <2>1
  <2>3. QED
    BY <1>4, <2>2
<1>6. 100 * P(3) <= 109 * T(3)
  <2>1. 2 \in Nat /\ 2 + 1 = 3
    OBVIOUS
  <2> HIDE DEF P, T
  <2>2. /\ P(2) \in Nat /\ T(2) \in Nat
        /\ P(3) = 1024 * P(2) /\ T(3) = 1000 * T(2)
    BY <1>2, <2>1
  <2>3. QED
    BY <1>5, <2>2
<1>7. 100 * P(4) <= 112 * T(4)
  <2>1. 3 \in Nat /\ 3 + 1 = 4
    OBVIOUS
  <2> HIDE DEF P, T
  <2>2. /\ P(3) \in Nat /\ T(3) \in Nat
        /\ P(4) = 1024 * P(3) /\ T(4) = 1000 * T(3)
    BY <1>2, <2>1
  <2>3. QED
    BY <1>6, <2>2
<1>8. 100 * P(5) <= 115 * T(5)
  <2>1. 4 \in Nat /\ 4 + 1 = 5
    OBVIOUS
  <2> HIDE DEF P, T
  <2>2. /\ P(4) \in Nat /\ T(4) \in Nat
        /\ P(5) = 1024 * P(4) /\ T(5) = 1000 * T(4)
    BY <1>2, <2>1
  <2>3. QED
    BY <1>7, <2>2
<1>9. 100 * P(6) <= 118 * T(6)
  <2>1. 5 \in Nat /\ 5 + 1 = 6
    OBVIOUS
  <2> HIDE DEF P, T
  <2>2. /\ P(5) \in Nat /\ T(5) \in Nat
        /\ P(6) = 1024 * P(5) /\ T(6) = 1000 * T(5)
    BY <1>2, <2>1
  <2>3. QED
    BY <1>8, <2>2
<1>10. ASSUME NEW k \in 0 .. 6 PROVE P(k) <= 2 * T(k)
  <2>1. k \in Nat
    OBVIOUS
  <2> HIDE DEF P, T
  <2>2. P(k) \in Nat /\ T(k) \in Nat
    BY <1>2, <2>1
  <2>3. k = 0 \/ k = 1 \/ k = 2 \/ k = 3 \/ k = 4 \/ k = 5 \/ k = 6
    OBVIOUS
  <2>4. 100 * P(k) <= 118 * T(k)
    <3>2. CASE k = 0
      BY <1>3, <2>2, <3>2
    <3>3. CASE k = 1
      BY <1>4, <2>2, <3>3
    <3>4. CASE k = 2
      BY <1>5, <2>2, <3>4
    <3>5. CASE k = 3
      BY <1>6, <2>2, <3>5
    <3>6. CASE k = 4
      BY <1>7, <2>2, <3>6
    <3>7. CASE k = 5
      BY <1>8, <2>2, <3>7
    <3>8. CASE k = 6
      BY <1>9, <2>2, <3>8
    <3>9. QED
      BY <2>3, <3>2, <3>3, <3>4, <3>5, <3>6, <3>7, <3>8
  <2>5. QED
    BY <2>2, <2>4
<1>11. QED
  BY <1>10

LEMMA TensLead ==
  ASSUME Bits <= 64
  PROVE  Power(2, Bits - 1) < Power(10, (3 * Bits) \div 10 + 1)
<1> DEFINE a == Bits \div 10
           c == Bits % 10
           d == (3 * c) \div 10 + 1
           U == Power(2, 10 * a)
           T == Power(10, 3 * a)
           H == Power(2, Bits - 1)
<1>1. Bits \in Nat \ {0, 1} /\ Bits - 1 \in Nat
  BY StdioConstants
<1>2. a \in 0 .. 6 /\ c \in 0 .. 9 /\ Bits = 10 * a + c
  BY <1>1
<1> HIDE DEF a, c
<1>3. d \in 1 .. 3 /\ 3 * a \in Nat /\ 10 * a \in Nat /\ c \in Nat
  BY <1>2
<1>4. (3 * Bits) \div 10 + 1 = 3 * a + d
  BY <1>2
<1>5. \A j \in Nat : Power(2, j) \in Nat \ {0} /\ Power(10, j) \in Nat \ {0}
  <2>1. 2 \in Nat \ {0} /\ 10 \in Nat \ {0}
    OBVIOUS
  <2>2. \A j \in Nat : Power(2, j) \in Nat \ {0}
    BY <2>1, PowerIs
  <2>3. \A j \in Nat : Power(10, j) \in Nat \ {0}
    BY <2>1, PowerIs
  <2>4. QED
    BY <2>2, <2>3
<1>6. U \in Nat \ {0} /\ T \in Nat \ {0} /\ H \in Nat \ {0}
  BY <1>1, <1>3, <1>5
<1>7. 2 * H = U * Power(2, c)
  <2>1. Power(2, (Bits - 1) + 1) = 2 * H
    BY <1>1, PowerIs
  <2>2. (Bits - 1) + 1 = 10 * a + c
    BY <1>1, <1>2
  <2>3. Power(2, 10 * a + c) = U * Power(2, c)
    BY <1>3, PowerAdd
  <2>4. QED
    BY <2>1, <2>2, <2>3
<1>8. Power(10, 3 * a + d) = T * Power(10, d)
  <2>1. d \in Nat
    BY <1>3
  <2> HIDE DEF d
  <2>2. QED
    BY <1>3, <2>1, PowerAdd
<1>9. U <= 2 * T
  BY <1>2, ThousandsLead
<1>10. Power(2, c) + 1 <= Power(10, d)
  <2>1. c = 0 \/ c = 1 \/ c = 2 \/ c = 3 \/ c = 4 \/ c = 5 \/ c = 6 \/ c = 7 \/ c = 8 \/ c = 9
    BY <1>2
  <2>2. CASE c \in 0 .. 3
    <3>1. d = 1
      BY <2>2
    <3>2. QED
      BY <2>1, <2>2, <3>1, SmallPowers
  <2>3. CASE c \in 4 .. 6
    <3>1. d = 2
      BY <2>3
    <3>2. QED
      BY <2>1, <2>3, <3>1, SmallPowers
  <2>4. CASE c \in 7 .. 9
    <3>1. d = 3
      BY <2>4
    <3>2. QED
      BY <2>1, <2>4, <3>1, SmallPowers
  <2>5. QED
    BY <1>2, <2>2, <2>3, <2>4
<1> DEFINE x == Power(2, c)
           y == Power(10, d)
<1>11. x \in Nat \ {0} /\ y \in Nat \ {0} /\ x < y
  <2>1. d \in Nat
    BY <1>3
  <2> HIDE DEF d
  <2>2. x \in Nat \ {0} /\ y \in Nat \ {0}
    BY <1>3, <1>5, <2>1
  <2>3. QED
    BY <1>10, <2>2
<1> HIDE DEF U, T, H, x, y
<1>12. U * x <= (2 * T) * x
  BY <1>6, <1>9, <1>11
<1>13. T * x < T * y
  BY <1>6, <1>11
<1>14. 2 * H <= 2 * (T * x)
  <2>1. (2 * T) * x = 2 * (T * x)
    BY <1>6, <1>11
  <2>2. QED
    BY <1>7, <1>12, <2>1 DEF x
<1>15. T * x \in Nat /\ T * y \in Nat
  BY <1>6, <1>11
<1>16. H < T * y
  BY <1>6, <1>13, <1>14, <1>15
<1>17. QED
  BY <1>4, <1>8, <1>16 DEF H, y

\* The buffer of itoa is long enough, sign and all (stdlib.c:6).
LEMMA DecimalFits ==
  ASSUME Bits <= 64, NEW w \in Signed
  PROVE  Len(Itoa(w)) <= (3 * Bits) \div 10 + 2
<1> DEFINE x == IF w < 0 THEN -w ELSE w
           t == Numeral(x, 10)
           n == Len(t)
           m == (3 * Bits) \div 10
           H == Power(2, Bits - 1)
<1>1. Bits \in Nat \ {0, 1} /\ Bits - 1 \in Nat /\ m \in Nat
  BY StdioConstants
<1>2. H \in Nat \ {0} /\ Mod = 2 * H
  <2>1. Power(2, (Bits - 1) + 1) = 2 * H /\ H \in Nat \ {0}
    BY <1>1, PowerIs
  <2>2. (Bits - 1) + 1 = Bits
    BY <1>1
  <2>3. QED
    BY <2>1, <2>2, Halves
<1>3. H < Power(10, m + 1)
  BY TensLead
<1> HIDE DEF H, m
<1>4. x \in Nat /\ x <= H /\ x < Mod
  <2>1. Mod \div 2 = H
    <3>1. Mod = H * 2 + 0 /\ 0 \in 0 .. 2 - 1 /\ Mod \in Int
      BY <1>2
    <3>2. QED
      BY <1>2, <3>1, DivIs
  <2>2. w \in -H .. H - 1
    BY <2>1 DEF Signed
  <2>3. QED
    BY <1>2, <2>2
<1>5. x < Power(2, Bits)
  BY <1>4, Halves
<1>6. SignedNumeral(w) = IF w < 0 THEN <<"-">> \o t ELSE t
  BY DEF SignedNumeral
<1> HIDE DEF x
<1>7. t \in Seq(Nat) /\ n \in Nat \ {0} /\ (n = 1 \/ Power(10, n - 1) <= x)
  <2>1. 10 \in Nat \ {0, 1} /\ x \in Nat
    BY <1>4
  <2>2. QED
    BY <1>5, <2>1, NumeralLength
<1>8. Len(Itoa(w)) <= n + 1
  <2>1. t \in Seq(Shapes) /\ <<"-">> \in Seq(Shapes) /\ Len(<<"-">>) = 1
    BY <1>7 DEF Shapes, Signs
  <2> HIDE DEF t
  <2>2. Len(<<"-">> \o t) = 1 + n
    BY <2>1, Joined
  <2>3. Itoa(w) = SignedNumeral(w)
    BY ItoaIs
  <2> HIDE DEF n
  <2>4. Itoa(w) = <<"-">> \o t \/ Itoa(w) = t
    BY <1>6, <2>3
  <2>5. n \in Nat /\ n = Len(t)
    BY <1>7 DEF n
  <2>6. QED
    BY <2>2, <2>4, <2>5
<1> HIDE DEF t, n
<1>9. n - 1 <= m
  <2>1. CASE n = 1
    BY <1>1, <2>1
  <2>2. CASE n # 1
    <3>1. n - 1 \in Nat /\ m + 1 \in Nat
      BY <1>1, <1>7
    <3>2. Power(10, n - 1) \in Nat /\ Power(10, m + 1) \in Nat
      <4>1. 10 \in Nat \ {0}
        OBVIOUS
      <4>2. \A j \in Nat : Power(10, j) \in Nat
        BY <4>1, PowerIs
      <4>3. QED
        BY <3>1, <4>2
    <3>3. Power(10, n - 1) < Power(10, m + 1)
      BY <1>2, <1>3, <1>4, <1>7, <2>2, <3>2
    <3>4. m + 1 <= n - 1 => Power(10, m + 1) <= Power(10, n - 1)
      BY <3>1, PowerGrows
    <3>5. ~ (m + 1 <= n - 1)
      BY <3>2, <3>3, <3>4
    <3>6. QED
      BY <1>1, <1>7, <3>5
  <2>3. QED
    BY <2>1, <2>2
<1>10. n + 1 <= m + 2
  BY <1>1, <1>7, <1>9
<1>11. Len(Itoa(w)) \in Nat
  <2>1. t \in Seq(Shapes) /\ <<"-">> \in Seq(Shapes)
    BY <1>7 DEF Shapes, Signs
  <2>2. Itoa(w) \in Seq(Shapes)
    BY <1>6, <2>1, ItoaIs
  <2>3. QED
    BY <2>2
<1>12. QED
  BY <1>1, <1>7, <1>8, <1>10, <1>11 DEF m

------------------------------------------------------------------------------
(* Together.                                                                 *)

LEMMA PrintsRight ==
  ASSUME Bits <= 64
  PROVE  PrintfIsRight
<1>1. ShowsNumbers
  <2> SUFFICES ASSUME NEW x \in Numbers, NEW v \in Unsigned
               PROVE  Printf(x, <<v>>).text = Meaning(x, v)
    BY DEF ShowsNumbers
  <2>1. x \in Pieces /\ ArgumentsOf(x, v) = <<v>>
    BY DEF Pieces, ArgumentsOf
  <2>2. QED
    BY <2>1, OnePiece
<1>2. Corners \subseteq Unsigned
  BY DEF Corners
<1>3. ShowsEachPiece
  BY <1>2, TwoPieces DEF ShowsEachPiece, Pieces
<1>4. RunsPastUnfinished
  BY GoesPast DEF RunsPastUnfinished, Pieces
<1>5. FitsTheBuffers
  <2> SUFFICES ASSUME NEW v \in Unsigned
               PROVE  /\ Len(UintText(v, 8)) <= (Bits + 2) \div 3
                      /\ Len(Itoa(AsSigned(v))) <= (3 * Bits) \div 10 + 2
    BY DEF FitsTheBuffers
  <2>1. AsSigned(v) \in Signed
    BY Registers
  <2>2. QED
    BY <2>1, OctalFits, DecimalFits
<1>6. QED
  BY <1>1, <1>3, <1>4, <1>5 DEF PrintfIsRight

\* printf shows every number whole in every base, signed and unsigned, pieces in their
\* order with an argument each; it runs past a format that ends in a directive, and no
\* numeral is longer than its buffer (stdlib.c:4-30, stdio.c:12-190).  A word has at
\* most 64 bits: from 393 on, three digits for ten bits are too few.
THEOREM PrintfShowsArguments ==
  ASSUME Bits <= 64
  PROVE  Spec => []PrintfShowsItsArguments
<1>1. PrintfShowsItsArguments
  BY PrintsRight DEF PrintfShowsItsArguments
<1>2. QED
  BY <1>1, PTL

=============================================================================
