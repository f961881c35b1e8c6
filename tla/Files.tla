-------------------------------- MODULE Files --------------------------------
(***************************************************************************)
(* Opening and closing files: the descriptors of src/src/fs/file.c, the    *)
(* path parser of src/src/fs/pparser.c, and the lookup of a path in the    *)
(* directories of src/src/fs/fat/fat16.c.                                  *)
(*                                                                         *)
(* Everything this code takes from the heap fits in one block (a directory *)
(* of up to 128 entries), and a request for one block fails only when none *)
(* is free (FailsOnlyWhenFull of Heap): memory is a number of free blocks. *)
(* The rest of the kernel takes and gives back blocks between two calls.   *)
(*                                                                         *)
(* Where the code follows a null pointer, a freed block or an error code   *)
(* the phase becomes "lost": what comes then depends on what lies there.   *)
(***************************************************************************)
EXTENDS Integers, Sequences, FiniteSets, SequencesExt

CONSTANTS
  Total,           \* blocks of the heap for files and the rest of the kernel
  MaxDescriptors,  \* MARROWOS_MAX_FILE_DESCRIPTORS
  Root,            \* the root directory: a sequence of entries
  Paths,           \* the paths asked for: a drive and the parts between slashes
  Modes            \* the modes asked for

VARIABLES
  free,               \* the blocks that are free
  others,             \* those the rest of the kernel has
  file_descriptors,   \* by fd: what is open there, or Closed
  mounted,            \* disk.filesystem is there
  lost,               \* ghost: blocks that nothing names any more
  phase               \* "boot", "run" or "lost"

vars == <<free, others, file_descriptors, mounted, lost, phase>>

Fds == 1 .. MaxDescriptors
Empty == ""           \* the part between two slashes that follow each other
Deleted == "deleted"  \* the name of an entry that is not used (0xE5)
Closed == [open |-> FALSE]
NotFound == [found |-> FALSE]

ASSUME FilesConstants ==
  /\ Total \in Nat /\ Total > 5   \* memory is not short when the kernel boots
  /\ MaxDescriptors \in Nat
  /\ \A path \in Paths :
       path.drive \in -1 .. 1 /\ path.parts \in Seq(STRING)   \* -1: no path, 1: no disk

------------------------------------------------------------------------------
(* The path parser.  Operators named Wrong... are variants a slip in the     *)
(* code would give; no definition uses them.  Each stands before the one it  *)
(* would replace, and a property must tell the two apart.                    *)

Smaller(a, b) == IF a <= b THEN a ELSE b

\* The parts before the first empty one: an empty part ends a path.
Leading(parts) ==
  SelectInSeq(parts, LAMBDA name : name = Empty)

Named(path) ==
  IF Leading(path.parts) = 0 THEN path.parts ELSE SubSeq(path.parts, 1, Leading(path.parts) - 1)

\* pathparser_parse with n free blocks: the parts it keeps.  A part takes two
\* blocks, and one for which there is no memory ends the path.
Parsed(path, n) == SubSeq(Named(path), 1, Smaller(Len(Named(path)), (n - 1) \div 2))

PathBlocks(parts) == 1 + 2 * Len(parts)

------------------------------------------------------------------------------
(* The directories.  An entry has a name and a first cluster, says if it is  *)
(* a directory, and has the entries of the directory.                        *)

InUse(dir) == {i \in DOMAIN dir : dir[i].name # Deleted}

\* Wrong: the last entry is not searched.
WrongSearched(dir) == SubSeq(dir, 1, Cardinality(InUse(dir)) - 1)

\* The entries that are searched: as many of the first as there are entries in
\* use, although those that are not in use take places among them.
Searched(dir) == SubSeq(dir, 1, Cardinality(InUse(dir)))

\* fat16_new_fat_item_for_directory_item: the item, and a copy of the entry or
\* a directory with its entries.
ItemBlocks(entry) == IF entry.isDir THEN 3 ELSE 2

At(entry, n, gone) == [at |-> "item", entry |-> entry, free |-> n, gone |-> gone]
\* No item, and the caller says so; no item, but the walk goes on; a null or a
\* freed pointer is followed.
Missing(n, gone) == [at |-> "missing", free |-> n, gone |-> gone]
Null(n) == [at |-> "null", free |-> n, gone |-> 0]
Astray == [at |-> "astray", free |-> 0, gone |-> 0]

\* Wrong: memory for the item is not asked about.
WrongFind(dir, name, n) ==
  LET i == SelectInSeq(Searched(dir), LAMBDA e : e.name = name)
  IN  IF i = 0 \/ n = 0 THEN Null(n) ELSE At(dir[i], n - ItemBlocks(dir[i]), 0)

\* fat16_find_item_in_directory, with n free blocks.  With some of the blocks of
\* an item but not all, the item names no entry or a directory that was freed.
Find(dir, name, n) ==
  LET i == SelectInSeq(Searched(dir), LAMBDA e : e.name = name)
  IN  IF i = 0 \/ n = 0 THEN Null(n)
      ELSE IF n < ItemBlocks(dir[i]) THEN Astray
      ELSE At(dir[i], n - ItemBlocks(dir[i]), 0)

\* Wrong: every part is looked for in the root directory.
WrongStep(w, name) ==
  IF w.entry.isDir
  THEN LET next == Find(Root, name, w.free)
       IN  IF next.at = "astray" THEN next ELSE [next EXCEPT !.free = @ + ItemBlocks(w.entry)]
  ELSE Missing(w.free, ItemBlocks(w.entry))

\* One turn of the loop of fat16_get_directory_entry, at the item of a part: it
\* is freed when the next was looked for, unless it is a file, which ends the
\* walk and is forgotten.
Step(w, name) ==
  IF w.entry.isDir
  THEN LET next == Find(w.entry.entries, name, w.free)
       IN  IF next.at = "astray" THEN next ELSE [next EXCEPT !.free = @ + ItemBlocks(w.entry)]
  ELSE Missing(w.free, ItemBlocks(w.entry))

\* The whole walk.  The loop follows current_item without asking if it is there.
Walk(parts, n) ==
  LET first == Find(Root, parts[1], n)
      walk[i \in 1 .. Len(parts)] ==
        IF i = 1 THEN IF first.at = "null" THEN Missing(n, 0) ELSE first
        ELSE CASE walk[i - 1].at = "item" -> Step(walk[i - 1], parts[i])
               [] walk[i - 1].at = "null" -> Astray
               [] OTHER -> walk[i - 1]
  IN  walk[Len(parts)]

------------------------------------------------------------------------------
(* Mounting, once at boot.                                                   *)

\* fat16_init_private: the streams.
Streams == 3

\* What a volume keeps: its private data, the streams, and the root directory
\* that fat16_get_root_directory read.
MountBlocks == 1 + Streams + 1

MountFat16 ==
  /\ phase = "boot" /\ phase' = "run"
  /\ mounted' = TRUE
  /\ free' = free - MountBlocks
  /\ UNCHANGED <<others, file_descriptors, lost>>

\* fat16_resolve finds another signature.  It frees the private data, and with it
\* the only pointers to the streams; the disk is left without a file system.
MountRefused ==
  /\ phase = "boot" /\ phase' = "run"
  /\ free' = free - Streams /\ lost' = lost + Streams
  /\ UNCHANGED <<others, file_descriptors, mounted>>

------------------------------------------------------------------------------
(* The calls.                                                                *)

FreeFds == {fd \in Fds : file_descriptors[fd] = Closed}
Lowest(fds) == CHOOSE fd \in fds : \A k \in fds : fd <= k

\* fopen returns 0 and gives back what it took.
FopenRefused == UNCHANGED vars

\* Wrong: the descriptor of the file system is kept.
WrongFopenClosesError(gone) ==
  /\ phase' \in {"run", "lost"}
  /\ free' = free - gone - 1 /\ lost' = lost + gone + 1
  /\ UNCHANGED <<others, file_descriptors, mounted>>

\* It has what the file system returned for a failure, an error code, and closes
\* it as if it were a file: it reads there, and frees what it reads.
FopenClosesError(gone) ==
  /\ phase' \in {"run", "lost"}
  /\ free' = free - gone /\ lost' = lost + gone
  /\ UNCHANGED <<others, file_descriptors, mounted>>

GoAstray == phase' = "lost" /\ UNCHANGED <<free, others, file_descriptors, mounted, lost>>

\* A descriptor of the file system and one of file.c, and the item.  The path is
\* never freed.
FopenSucceeds(path, parts, entry) ==
  /\ file_descriptors' = [file_descriptors EXCEPT ![Lowest(FreeFds)] =
                            [open |-> TRUE, path |-> path, entry |-> entry]]
  /\ free' = free - (PathBlocks(parts) + 1 + ItemBlocks(entry) + 1)
  /\ lost' = lost + PathBlocks(parts)
  /\ UNCHANGED <<others, mounted, phase>>

\* fopen, with the blocks that are free after the path is parsed; one of them
\* is for the descriptor of the file system.
FopenParsed(path, mode, parts) ==
  LET left == free - PathBlocks(parts)
      w == Walk(parts, left - 1)
  IN
  IF path.drive # 0 \/ ~mounted \/ mode \notin {"r", "w"} THEN FopenRefused
  ELSE IF mode = "w" \/ left = 0 THEN FopenClosesError(0)
  ELSE CASE w.at = "astray" -> GoAstray
         [] w.at = "null" -> FopenClosesError(0)
         [] w.at = "missing" -> FopenClosesError(w.gone)
         [] OTHER -> IF FreeFds = {} THEN FopenRefused
                     ELSE IF w.free = 0 THEN GoAstray
                     ELSE FopenSucceeds(path, parts, w.entry)

Fopen(path, mode) ==
  /\ phase = "run"
  /\ IF path.drive = -1 \/ free = 0 \/ Parsed(path, free) = <<>> THEN FopenRefused
     ELSE FopenParsed(path, mode, Parsed(path, free))

\* Wrong: the item of a file is not freed.
WrongOpenBlocks(d) == IF d.open THEN 2 + (IF d.entry.isDir THEN 3 ELSE 1) ELSE 0

\* What an open file holds: the two descriptors and the item.
OpenBlocks(d) == IF d.open THEN 2 + ItemBlocks(d.entry) ELSE 0

\* fclose, with any number.
Fclose(fd) ==
  /\ phase = "run"
  /\ IF fd \in Fds /\ file_descriptors[fd].open
     THEN /\ file_descriptors' = [file_descriptors EXCEPT ![fd] = Closed]
          /\ free' = free + OpenBlocks(file_descriptors[fd])
          /\ UNCHANGED <<others, mounted, lost, phase>>
     ELSE UNCHANGED vars

\* The rest of the kernel.
Take ==
  /\ phase = "run" /\ free > 0
  /\ free' = free - 1 /\ others' = others + 1
  /\ UNCHANGED <<file_descriptors, mounted, lost, phase>>

GiveBack ==
  /\ phase = "run" /\ others > 0
  /\ free' = free + 1 /\ others' = others - 1
  /\ UNCHANGED <<file_descriptors, mounted, lost, phase>>

Init ==
  /\ free = Total /\ others = 0
  /\ file_descriptors = [fd \in Fds |-> Closed]
  /\ mounted = FALSE /\ lost = 0
  /\ phase = "boot"

Next ==
  \/ MountFat16 \/ MountRefused
  \/ \E path \in Paths, mode \in Modes : Fopen(path, mode)
  \/ \E fd \in 0 .. MaxDescriptors + 1 : Fclose(fd)
  \/ Take \/ GiveBack

Spec == Init /\ [][Next]_vars

------------------------------------------------------------------------------
(* Properties.                                                               *)

Entries(dir) == {dir[i] : i \in DOMAIN dir}

\* The entries that the first k names lead to.
ReachedAt(names, k) ==
  LET reach[j \in 0 .. Len(names)] ==
        IF j = 0 THEN {[name |-> Empty, isDir |-> TRUE, entries |-> Root]}
        ELSE UNION {{e \in Entries(d.entries) : e.name = names[j]} : d \in reach[j - 1]}
  IN  reach[k]

Reached(names) == ReachedAt(names, Len(names))

\* Those that are passed on the way.
Passed(names) == UNION {ReachedAt(names, k) : k \in 0 .. Len(names) - 1}

ASSUME DirectoriesAreSequences ==
  \A path \in Paths : \A d \in Passed(Named(path)) :
    Len(d.entries) \in Nat /\ DOMAIN d.entries = 1 .. Len(d.entries)

\* The variables have their types; no block is given out that is not there.
TypeOK ==
  /\ free \in 0 .. Total /\ others \in 0 .. Total /\ lost \in 0 .. Total
  /\ phase \in {"boot", "run", "lost"} /\ mounted \in BOOLEAN
  /\ DOMAIN file_descriptors = Fds
  /\ \A fd \in Fds : file_descriptors[fd] # Closed => file_descriptors[fd].path \in Paths

Descriptors == {fd \in Fds : file_descriptors[fd].open}

\* Every block is free, of the rest of the kernel, lost, held by the volume, or by
\* an open file: its two descriptors, its item, and a copy of its entry or a
\* directory and its entries (file.c:131-246, fat16.c:265-309, 490-515 and 663-673).
MemoryAccounted ==
  LET directories == {fd \in Descriptors : file_descriptors[fd].entry.isDir}
  IN  Total = free + others + lost + (IF mounted THEN 5 ELSE 0)
                + 4 * Cardinality(Descriptors) + Cardinality(directories)

\* What is open is what its path names, up to an empty part.  A path that was cut
\* short for want of memory opens nothing, for then no memory is left to open
\* the directory it was cut at, and nothing is opened on a disk without a file
\* system (pparser.c:41-160, fat16.c:265-309 and 582-626).
OpensWhatIsNamed ==
  \A fd \in Descriptors :
    mounted /\ file_descriptors[fd].entry \in Reached(Named(file_descriptors[fd].path))

\* No directory on the way has an entry that is not in use.
NoGaps(names) ==
  \A d \in Passed(names) : \A e \in Entries(d.entries) : e.name # Deleted

\* As a volume is made: no directory on the way has a name twice, and a file has no
\* entries.
Unambiguous(names) ==
  \A d \in Passed(names) :
    /\ ~d.isDir => d.entries = <<>>
    /\ \A e, f \in Entries(d.entries) : e.name = f.name => e = f

\* With eight blocks beside those of the path, what is there is found: no entry is
\* overlooked in a directory from which nothing was deleted (fat16.c:163-207 and
\* 582-626).
FindsWhatIsThere ==
  \A path \in Paths :
    LET named == Named(path)
        parts == Parsed(path, free)
    IN  /\ mounted /\ named # <<>> /\ Reached(named) # {}
        /\ NoGaps(named) /\ Unambiguous(named)
        /\ free >= PathBlocks(named) + 8
        => LET w == Walk(parts, free - PathBlocks(parts) - 1)
           IN  w.at = "item" /\ w.free > 0 /\ w.entry \in Reached(named)

\* A file stands in the middle of the path.
ThroughFile(path) ==
  \E e \in Passed(Named(path)) : ~e.isDir

\* fopen that opens nothing loses no memory, unless its path goes through a file:
\* then it loses the item of that file (file.c:191-212, fat16.c:609-623).
FailedOpenLeavesNothing ==
  [][file_descriptors' = file_descriptors /\ others' = others /\ phase = "run" /\ phase' = "run" =>
       \/ free' = free
       \/ /\ free' = free - 2
          /\ \E path \in Paths : Fopen(path, "r") /\ ThroughFile(path)]_vars

=============================================================================
