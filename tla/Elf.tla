--------------------------------- MODULE Elf ---------------------------------
(***************************************************************************)
(* The ELF files: src/src/loader/formats/elfloader.c, elf.h.               *)
(*                                                                         *)
(* A file is a header and a sequence of program headers.  Of the header    *)
(* the checks it passes and the entry point are kept, of a program header  *)
(* what is used.  A file that fails a check is not refused: process.c *)
(* loads it as a plain binary.                                             *)
(***************************************************************************)
EXTENDS Integers, Sequences

CONSTANT ProgramAddress   \* MARROWOS_PROGRAM_VIRTUAL_ADDRESS

ASSUME ElfConstants == ProgramAddress \in Nat

\* struct elf32_phdr, as far as it is used: what is PT_LOAD, and what is not.
ProgramHeaders ==
  [type : {"load", "other"}, vaddr : Nat, offset : Nat, filesz : Nat, memsz : Nat,
   write : BOOLEAN]

\* elf_valid_signature, _class, _encoding, elf_has_program_header, and whether
\* the type is ET_EXEC.
Checks == {"signature", "class", "encoding", "phoff", "exec"}

\* A file that is not empty, with what struct elf_header says.
ElfFiles ==
  [size : Nat \ {0}, passes : SUBSET Checks, entry : Nat, headers : Seq(ProgramHeaders)]

\* elf_validate_loaded.
IsElf(file) == file.passes = Checks /\ file.entry >= ProgramAddress

\* What is mapped: every program header of an ELF file, whatever its type, and
\* all of a binary, writable, at the program's address.
Segments(file) ==
  IF IsElf(file) THEN file.headers
  ELSE <<[type |-> "load", vaddr |-> ProgramAddress, offset |-> 0,
          filesz |-> file.size, memsz |-> file.size, write |-> TRUE]>>

\* task_init: where the program begins to run.
EntryPoint(file) == IF IsElf(file) THEN file.entry ELSE ProgramAddress

NoBounds == [vbase |-> 0, vend |-> 0, pbase |-> 0, pend |-> 0]

\* Wrong: a lower base than the one there is does not replace it.
WrongWithLoad(b, h, memory) ==
  LET end == h.vaddr + h.filesz IN
  [vbase |-> IF b.vbase = 0 THEN h.vaddr ELSE b.vbase,
   pbase |-> IF b.vbase = 0 THEN memory + h.offset ELSE b.pbase,
   vend  |-> IF b.vend <= end THEN end ELSE b.vend,
   pend  |-> IF b.vend <= end THEN memory + h.offset + h.filesz ELSE b.pend]

\* elf_process_phdr_pt_load: an address of 0 stands for none yet.
WithLoad(b, h, memory) ==
  LET end == h.vaddr + h.filesz
      lower == b.vbase >= h.vaddr \/ b.vbase = 0
      higher == b.vend <= end \/ b.vend = 0
  IN
  [vbase |-> IF lower THEN h.vaddr ELSE b.vbase,
   pbase |-> IF lower THEN memory + h.offset ELSE b.pbase,
   vend  |-> IF higher THEN end ELSE b.vend,
   pend  |-> IF higher THEN memory + h.offset + h.filesz ELSE b.pend]

\* elf_process_pheaders, for a file that was read to memory.
Bounds(file, memory) ==
  LET after[i \in 0 .. Len(file.headers)] ==
        IF i = 0 THEN NoBounds
        ELSE IF file.headers[i].type = "load" THEN WithLoad(after[i - 1], file.headers[i], memory)
        ELSE after[i - 1]
  IN  IF IsElf(file) THEN after[Len(file.headers)] ELSE NoBounds

=============================================================================
