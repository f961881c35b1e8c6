----------------------------- MODULE CommandLine -----------------------------
(***************************************************************************)
(* What a shell promises: the line is the keys that were typed, corrected  *)
(* by backspace, every key in its turn and once, and the words of the line *)
(* are what is run, when Enter is typed or the line is full.  Of a word    *)
(* that is too long the beginning is run.                                  *)
(*                                                                         *)
(* When there is no memory for a word, those before it are run, and the    *)
(* next line may be taken for another one.                                 *)
(***************************************************************************)
EXTENDS Integers, Sequences, FiniteSets

CONSTANTS
  Characters, Blank, Enter, Backspace,
  NoKey,
  Longest,      \* the most characters of a line
  LongestWord   \* the most characters of a word that are kept

VARIABLES
  key,          \* the one typed last, until it is taken
  line,
  ended,        \* the line is complete
  given,        \* the words that were run last
  dirty         \* the next line may be taken for another one

Starts(l) == {s \in DOMAIN l : l[s] # Blank /\ (s = 1 \/ l[s - 1] = Blank)}

Start(l, n) == CHOOSE s \in Starts(l) : Cardinality({r \in Starts(l) : r <= s}) = n

Ends(l, s) == {e \in DOMAIN l : e >= s /\ \A k \in s .. e : l[k] # Blank}

Kept(n) == IF n < LongestWord THEN n ELSE LongestWord

\* The longest runs of characters without a blank, in order, of each what is kept.
Words(l) ==
  [n \in 1 .. Cardinality(Starts(l)) |->
     LET s == Start(l, n) IN SubSeq(l, s, s + Kept(Cardinality(Ends(l, s))) - 1)]

\* The next key is typed.
NextKey ==
  /\ key = NoKey /\ ~ended
  /\ key' \in Characters \cup {Enter, Backspace}
  /\ UNCHANGED <<line, given, dirty, ended>>

\* A key that was typed is taken, once, and the line is l.
Takes(l) ==
  /\ key # NoKey /\ ~ended
  /\ line' = l /\ key' = NoKey
  /\ ended' = (Len(l) = Longest \/ key = Enter)
  /\ UNCHANGED <<given, dirty>>

Type == key \in Characters /\ Takes(Append(line, key))

\* With nothing to erase, backspace is a character like others.
Correct ==
  /\ key = Backspace
  /\ Takes(IF line = <<>> THEN <<Backspace>> ELSE SubSeq(line, 1, Len(line) - 1))

End == key = Enter /\ Takes(line)

Done == ended /\ ~ended' /\ line' = <<>> /\ UNCHANGED key

Run ==
  /\ Done
  /\ ~dirty /\ UNCHANGED dirty
  /\ given' = Words(line)

RunShortOfMemory ==
  /\ Done
  /\ ~dirty /\ dirty' = TRUE
  /\ \E n \in 0 .. Len(Words(line)) - 1 : given' = SubSeq(Words(line), 1, n)

RunAnother ==
  /\ Done
  /\ dirty /\ dirty' \in BOOLEAN

Init == line = <<>> /\ given = <<>> /\ dirty = FALSE /\ ended = FALSE /\ key = NoKey

Next == NextKey \/ Type \/ Correct \/ End \/ Run \/ RunShortOfMemory \/ RunAnother

Spec == Init /\ [][Next]_<<line, given, dirty, ended, key>>

=============================================================================
