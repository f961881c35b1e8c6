----------------------------- MODULE FileReader -----------------------------
(***************************************************************************)
(* What a file that is open for reading promises: the bytes of the file in *)
(* their order, from a position that moves with what was read.  Past the   *)
(* end it promises nothing but that the position stays or moves by what    *)
(* was asked for.                                                          *)
(***************************************************************************)
EXTENDS Integers, Sequences

VARIABLES
  content,   \* the bytes of the file
  pos,       \* where the next read begins
  given      \* what the last read gave: its status and its bytes

vars == <<content, pos, given>>

Init == pos = 0

Read(n) ==
  /\ n > 0 /\ pos + n <= Len(content)
  /\ given' = [status |-> "ok", bytes |-> SubSeq(content, pos + 1, pos + n)]
  /\ pos' = pos + n
  /\ UNCHANGED content

\* Past the end bytes are given that are not of the file.
ReadPastEnd(n) ==
  /\ n > 0 /\ pos + n > Len(content)
  /\ given'.status = "ok" /\ Len(given'.bytes) = n
  /\ pos' = pos + n
  /\ UNCHANGED content

\* A read fails only where there are not so many bytes, and moves nothing.
Fail(n) ==
  /\ n = 0 \/ pos + n > Len(content)
  /\ given'.status = "error"
  /\ UNCHANGED <<content, pos>>

\* A seek goes to a byte of the file, or ahead by less than its size.
Seek ==
  /\ pos' \in 0 .. Len(content) - 1 \/ pos' - pos \in 0 .. Len(content) - 1
  /\ UNCHANGED <<content, given>>

=============================================================================
