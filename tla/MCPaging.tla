------------------------------ MODULE MCPaging ------------------------------
(***************************************************************************)
(* Files for Paging.cfg: a memory of sixteen pages of two bytes, of which  *)
(* six are the heap.  Programs are linked for address 10.                  *)
(***************************************************************************)
EXTENDS Paging, TLC

Segment(vaddr, offset, filesz, memsz, write) ==
  [type |-> "load", vaddr |-> vaddr, offset |-> offset, filesz |-> filesz,
   memsz |-> memsz, write |-> write]

\* A header such as PT_GNU_STACK, that asks for no memory.
OtherHeader == [type |-> "other", vaddr |-> 0, offset |-> 0, filesz |-> 0,
                memsz |-> 0, write |-> TRUE]

File(size, passes, entry, headers) ==
  [size |-> size, passes |-> passes, entry |-> entry, headers |-> headers]

TestFiles ==
  {\* Data before text; execution begins inside the text.
   File(4, Checks, 11, <<Segment(12, 2, 2, 2, TRUE), Segment(10, 0, 2, 2, FALSE)>>),
   \* A segment that begins and ends in the middle of a page, with a byte that is
   \* not in the file.
   File(4, Checks, 11, <<Segment(11, 1, 1, 2, TRUE), OtherHeader>>),
   \* No ELF file: it fails every check, its class is wrong, or it is to begin
   \* below the address of programs.
   File(3, {}, 0, <<>>),
   File(4, Checks \ {"class"}, 10, <<Segment(10, 2, 2, 2, TRUE)>>),
   File(2, Checks, 9, <<Segment(8, 0, 2, 2, TRUE)>>),
   \* A segment that goes past the end of its file, and one so large that its end
   \* wraps.
   File(2, Checks, 10, <<Segment(10, 0, 2, 3, TRUE)>>),
   File(2, Checks, 10, <<Segment(10, 0, 2, 16, TRUE)>>)}

\* The heap does not reach the last page: the end of a block is an address.
HeapPages == {16, 18, 20, 22, 24, 26}

\* The tasks do the same things.
TaskSymmetry == Permutations(Tasks)

=============================================================================
