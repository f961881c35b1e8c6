-------------------------------- MODULE Stdio --------------------------------
(***************************************************************************)
(* How the library of the programs prints numbers and formats:             *)
(* programs/stdlib, itoa of stdlib.c and stdio.c.                          *)
(*                                                                         *)
(* A text is a sequence: a digit is its value, in whatever case it is      *)
(* shown, and any other character is a string.  A word has Bits bits, and  *)
(* a long long is taken to have as many: no loop here asks for its width.  *)
(***************************************************************************)
EXTENDS Integers, Sequences

CONSTANT Bits

ASSUME StdioConstants == Bits \in Nat \ {0, 1}

\* The n-th power of b; proofs rest on it, and the prover does not know of ^.
Power(b, n) == LET power[k \in 0 .. n] == IF k = 0 THEN 1 ELSE b * power[k - 1] IN power[n]

Mod == Power(2, Bits)
Unsigned == 0 .. Mod - 1
Signed == -(Mod \div 2) .. (Mod \div 2) - 1

\* A register read as an unsigned number, and as a signed one.
AsUnsigned(v) == v % Mod
AsSigned(v) == IF AsUnsigned(v) < Mod \div 2 THEN AsUnsigned(v) ELSE AsUnsigned(v) - Mod

------------------------------------------------------------------------------
(* The loops over digits, from the last to the first.  Operators named       *)
(* Wrong... are variants a slip in the code would give; no definition uses   *)
(* them.  Each stands before the one it would replace, and a property must   *)
(* tell the two apart.                                                       *)

\* print_uint.
UintText(val, base) ==
  LET loop[k \in 0 .. Bits] ==
        IF k = 0 THEN [val |-> val, text |-> <<>>]
        ELSE LET was == loop[k - 1] IN
             IF was.val = 0 THEN was
             ELSE [val |-> was.val \div base, text |-> <<was.val % base>> \o was.text]
  IN  IF val = 0 THEN <<0>> ELSE loop[Bits].text

\* Wrong: a remainder as large as the divisor is kept.
WrongUdivmod(n, d) ==
  LET loop[k \in 0 .. Bits] ==
        IF k = 0 THEN [q |-> 0, r |-> 0]
        ELSE LET was == loop[k - 1]
                 i == Bits - k
                 r == was.r * 2 + ((n \div Power(2, i)) % 2)
             IN  IF r > d THEN [q |-> was.q + Power(2, i), r |-> r - d] ELSE [was EXCEPT !.r = r]
  IN  loop[Bits]

\* udivmod64: the quotient and the remainder, bit by bit from the highest.
Udivmod(n, d) ==
  LET loop[k \in 0 .. Bits] ==
        IF k = 0 THEN [q |-> 0, r |-> 0]
        ELSE LET was == loop[k - 1]
                 i == Bits - k
                 r == was.r * 2 + ((n \div Power(2, i)) % 2)
             IN  IF r >= d THEN [q |-> was.q + Power(2, i), r |-> r - d] ELSE [was EXCEPT !.r = r]
  IN  loop[Bits]

\* print_ull.
UllText(val, base) ==
  LET loop[k \in 0 .. Bits] ==
        IF k = 0 THEN [val |-> val, text |-> <<>>]
        ELSE LET was == loop[k - 1]
                 by == Udivmod(was.val, base)
             IN  IF was.val = 0 THEN was ELSE [val |-> by.q, text |-> <<by.r>> \o was.text]
  IN  IF val = 0 THEN <<0>> ELSE loop[Bits].text

\* print_ll.  The negative of the least number is not a number of the word.
LlText(val) ==
  IF val < 0 THEN <<"-">> \o UllText(AsUnsigned(AsSigned(-(val + 1)) + 1), 10)
             ELSE UllText(val, 10)

\* / and % of C round towards 0.
Quotient(a, b) == IF a < 0 THEN -((-a) \div b) ELSE a \div b
Remainder(a, b) == a - b * Quotient(a, b)

\* itoa works on the number that is not positive, of which there are more.
Itoa(i) ==
  LET start == IF i >= 0 THEN AsSigned(-i) ELSE i
      loop[k \in 0 .. Bits] ==
        IF k = 0 THEN [i |-> start, text |-> <<>>]
        ELSE LET was == loop[k - 1] IN
             IF was.i = 0 THEN was
             ELSE [i |-> Quotient(was.i, 10), text |-> <<0 - Remainder(was.i, 10)>> \o was.text]
      digits == IF loop[Bits].text = <<>> THEN <<0>> ELSE loop[Bits].text
  IN  IF i < 0 THEN <<"-">> \o digits ELSE digits

------------------------------------------------------------------------------
(* printf.                                                                   *)

Base(letter) == CASE letter = "u" -> 10 [] letter = "o" -> 8 [] letter \in {"x", "X", "p"} -> 16

\* What a directive shows of an argument v, which is a text for %s.
Shown(letter, v) ==
  CASE letter \in {"d", "i"}           -> Itoa(AsSigned(v))
    [] letter \in {"u", "x", "X", "o"} -> UintText(AsUnsigned(v), Base(letter))
    [] letter = "p"                    -> <<0, "x">> \o UintText(AsUnsigned(v), 16)
    [] letter = "c"                    -> <<v>>
    [] letter = "s"                    -> v

ShownLongLong(letter, v) ==
  CASE letter \in {"d", "i"} -> LlText(AsSigned(v))
    [] OTHER                 -> UllText(AsUnsigned(v), Base(letter))

\* What ends a format.
EndOfFormat == "nul"

LongDirectives == {"d", "i", "u", "x", "X", "o"}
Directives == LongDirectives \cup {"p", "c", "s"}

\* One turn of the loop, at character p of a format: how many characters it takes,
\* if it takes an argument, and what it shows.  The letter of a directive is not
\* asked if it is the end of the format.
Turn(fmt, p, v) ==
  LET c(k) == fmt[p + k]
      shows(n, takes, text) == [length |-> n, takes |-> takes, text |-> text]
  IN
  IF c(0) # "%" THEN shows(1, 0, <<c(0)>>)
  ELSE CASE c(1) \in Directives     -> shows(2, 1, Shown(c(1), v))
         [] c(1) = "l" /\ c(2) = "l" ->
              IF c(3) \in LongDirectives THEN shows(4, 1, ShownLongLong(c(3), v))
                                      ELSE shows(4, 0, <<c(3)>>)
         [] c(1) = "l" /\ c(2) # "l" ->
              IF c(2) \in LongDirectives THEN shows(3, 1, Shown(c(2), v))
                                      ELSE shows(3, 0, <<c(2)>>)
         [] OTHER -> shows(2, 0, <<c(1)>>)

\* printf: what it shows of a format, which ends with EndOfFormat, and the arguments; past
\* is whether it ran past the end.
Printf(format, args) ==
  LET fmt == Append(format, EndOfFormat) \o <<EndOfFormat, EndOfFormat, EndOfFormat>>
      end == Len(format) + 1
      loop[k \in 0 .. end] ==
        IF k = 0 THEN [p |-> 1, arg |-> 1, text |-> <<>>]
        ELSE LET was == loop[k - 1]
                 v == IF was.arg <= Len(args) THEN args[was.arg] ELSE 0
                 turn == Turn(fmt, was.p, v)
             IN  IF was.p >= end THEN was
                 ELSE [p |-> was.p + turn.length, arg |-> was.arg + turn.takes,
                       text |-> was.text \o turn.text]
  IN  [text |-> loop[end].text, past |-> loop[end].p > end]

------------------------------------------------------------------------------
(* Properties.                                                               *)

\* The numeral of v: as many digits as it needs, each for its power of the base.
Numeral(v, base) ==
  LET size == CHOOSE n \in 1 .. Bits : v < Power(base, n) /\ (n = 1 \/ v >= Power(base, n - 1))
  IN  [k \in 1 .. size |-> (v \div Power(base, size - k)) % base]

SignedNumeral(v) == IF v < 0 THEN <<"-">> \o Numeral(-v, 10) ELSE Numeral(v, 10)

\* The pieces of a format: a character, or a directive.
Literals == {<<"a">>, <<"l">>, <<"%", "%">>}
Numbers ==
  {<<"%", x>> : x \in LongDirectives \cup {"p"}}
    \cup {<<"%", "l", x>> : x \in LongDirectives} \cup {<<"%", "l", "l", x>> : x \in LongDirectives}
Unfinished == {<<"%">>, <<"%", "l">>, <<"%", "l", "l">>}

\* What a piece is to show of the argument v, if it takes one.
Meaning(piece, v) ==
  LET last == piece[Len(piece)] IN
  CASE piece \in Literals  -> <<last>>
    [] last \in {"d", "i"}   -> SignedNumeral(AsSigned(v))
    [] last = "p"            -> <<0, "x">> \o Numeral(v, 16)
    [] last \in {"u", "o", "x", "X"} -> Numeral(v, Base(last))

ArgumentsOf(piece, v) == IF piece \in Numbers THEN <<v>> ELSE <<>>

\* Both ends of the numbers of a word, and of those with one digit, as far as it has them.
Corners == {0, 9, 10, Mod \div 2 - 1, Mod \div 2, Mod - 1} \cap Unsigned

ShowsNumbers ==
  \A x \in Numbers, v \in Unsigned : Printf(x, <<v>>).text = Meaning(x, v)

ShowsEachPiece ==
  \A x, y \in Numbers \cup Literals : \A v, w \in Corners :
    LET shown == Printf(x \o y, ArgumentsOf(x, v) \o ArgumentsOf(y, w))
    IN  shown.text = Meaning(x, v) \o Meaning(y, w) /\ ~shown.past

RunsPastUnfinished ==
  \A x \in Numbers \cup Literals, cut \in Unfinished : Printf(x \o cut, <<0>>).past

FitsTheBuffers ==
  \A v \in Unsigned :
    /\ Len(UintText(v, 8)) <= (Bits + 2) \div 3
    /\ Len(Itoa(AsSigned(v))) <= (3 * Bits) \div 10 + 2

\* The parts together; Console claims them (PrintfShowsItsArguments).
PrintfIsRight ==
  ShowsNumbers /\ ShowsEachPiece /\ RunsPastUnfinished /\ FitsTheBuffers

=============================================================================
