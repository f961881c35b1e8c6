------------------------------- MODULE Paging -------------------------------
(***************************************************************************)
(* The page directories: src/src/memory/paging/paging.c with its callers   *)
(* in task.c (task_init, copy_string_from_task) and process.c (mapping a   *)
(* program and its stack, process_malloc, process_free).                   *)
(*                                                                         *)
(* An address is a number below Top, in a virtual space as in memory.  A   *)
(* directory is a table of tables, an entry is a frame and its flags.  The *)
(* blocks of the heap are the frames of Pool; kzalloc gives the lowest run *)
(* of them that is free.  A file is read into the heap as a whole (Elf),   *)
(* and its segments are mapped where they lie in it.                       *)
(***************************************************************************)
EXTENDS Elf, FiniteSets

CONSTANTS
  PageSize,      \* PAGING_PAGE_SIZE
  Entries,       \* PAGING_TOTAL_ENTRIES_PER_TABLE
  Pool,          \* the addresses of the blocks of the heap
  StackEnd,      \* MARROWOS_PROGRAM_VIRTUAL_STACK_ADDRESS_END
  StackSize,     \* MARROWOS_USER_PROGRAM_STACK_SIZE
  Tasks,         \* names for the tasks
  Programs,      \* the files: a size, and what Elf says of them
  Sizes          \* the sizes asked of process_malloc

VARIABLE task    \* the tasks that live: directory, program, memory

vars == task

Live == DOMAIN task
Top == Entries * Entries * PageSize
Indexes == 0 .. Entries - 1
Pages == {i * PageSize : i \in 0 .. Entries * Entries - 1}

\* The heap ends before the last page; the stack of a program lies below the
\* program, and both below the blocks of the heap (config.h).
ASSUME PagingConstants ==
  /\ PageSize \in Nat \ {0} /\ Entries \in Nat \ {0}
  /\ Pool \subseteq Pages \ {Top - PageSize}
  /\ StackEnd \in Pages /\ StackSize \in Nat \ {0} /\ StackEnd + StackSize <= Top
  /\ \A a \in Pool : StackEnd + StackSize <= a
  /\ ProgramAddress \in Pages \ Pool /\ StackEnd + StackSize <= ProgramAddress
  /\ Programs \subseteq ElfFiles /\ Sizes \subseteq Nat \ {0}

------------------------------------------------------------------------------
(* paging.c.  Operators named Wrong... are variants a slip in the code would *)
(* give; no definition uses them.  Each stands before the one it would       *)
(* replace, and a property must tell the two apart.                          *)

IsAligned(a) == a % PageSize = 0

AlignUp(a) == IF IsAligned(a) THEN a ELSE (a + PageSize - (a % PageSize)) % Top
AlignDown(a) == a - (a % PageSize)

\* paging_get_indexes.
DirectoryIndex(v) == v \div (Entries * PageSize)
TableIndex(v) == (v % (Entries * PageSize)) \div PageSize

Entry(frame, flags) == [frame |-> frame, flags |-> flags]

Get(dir, v) == dir[DirectoryIndex(v)][TableIndex(v)]
Set(dir, v, e) == [dir EXCEPT ![DirectoryIndex(v)][TableIndex(v)] = e]

PhysicalAddress(dir, v) == Get(dir, AlignDown(v)).frame + (v - AlignDown(v))

\* paging_new_4gb: every page is mapped to itself.
New(flags) ==
  [i \in Indexes |-> [b \in Indexes |-> Entry((i * Entries + b) * PageSize, flags)]]

\* Wrong: one page more.
WrongMapRange(dir, virt, phys, n, flags) ==
  [i \in Indexes |-> [b \in Indexes |->
     LET k == (i * Entries + b) - (virt \div PageSize)
     IN  IF k \in 0 .. n THEN Entry((phys + k * PageSize) % Top, flags) ELSE dir[i][b]]]

\* paging_map_range, for a range that does not go past the end of the space.
MapRange(dir, virt, phys, n, flags) ==
  [i \in Indexes |-> [b \in Indexes |->
     LET k == (i * Entries + b) - (virt \div PageSize)
     IN  IF k \in 0 .. n - 1 THEN Entry((phys + k * PageSize) % Top, flags) ELSE dir[i][b]]]

\* Its loop, page by page.
MapLoop(dir, virt, phys, n, flags) ==
  LET after[i \in 0 .. n] ==
        IF i = 0 THEN dir
        ELSE Set(after[i - 1], virt + (i - 1) * PageSize,
                 Entry((phys + (i - 1) * PageSize) % Top, flags))
  IN  after[n]

\* What paging_map_to refuses, with -EINVARG.
Refused(virt, phys, end) ==
  ~(IsAligned(virt) /\ IsAligned(phys) /\ IsAligned(end) /\ phys <= end)

MapTo(dir, virt, phys, end, flags) ==
  IF Refused(virt, phys, end) THEN dir
  ELSE MapRange(dir, virt, phys, (end - phys) \div PageSize, flags)

Readable == {"present", "user"}
Writable == Readable \cup {"writable"}

------------------------------------------------------------------------------
(* The memory of the tasks.                                                  *)

PagesOf(at, size) == {a \in Pages : at <= a /\ a < at + size}

Held(t) ==
  LET r == task[t] IN
  PagesOf(r.ptr, r.program.size) \cup PagesOf(r.stack, StackSize)
    \cup UNION {PagesOf(x.at, x.size) : x \in r.blocks}

Taken == UNION {Held(t) : t \in Live}

\* kzalloc, when the pages in taken are in use: the lowest run, or none.  That the
\* heap gives a run that is too short when none fits is left to Heap (EnoughBlocks).
Kzalloc(size, taken) ==
  LET fits == {a \in Pool : a + size <= Top /\ PagesOf(a, size) \subseteq Pool \ taken}
  IN  {a \in fits : \A b \in fits : a <= b}

\* The frames a segment of a file at ptr is mapped to.  The sums wrap at the end of
\* the space, as 32 bits do.
SegmentFrames(ptr, s) ==
  LET phys == (ptr + s.offset) % Top
  IN  [first |-> AlignDown(phys), end |-> AlignUp((phys + s.memsz) % Top)]

\* Wrong: the frames of a segment are counted from the start of the file.
WrongMapped(dir, ptr, s) ==
  MapTo(dir, AlignDown(s.vaddr), ptr, AlignUp(ptr + s.memsz),
        IF s.write THEN Writable ELSE Readable)

\* process_map_elf for one header, and process_map_binary.
Mapped(dir, ptr, s) ==
  LET f == SegmentFrames(ptr, s)
  IN  MapTo(dir, AlignDown(s.vaddr), f.first, f.end, IF s.write THEN Writable ELSE Readable)

Mappable(file, ptr) ==
  \A i \in DOMAIN Segments(file) :
    LET f == SegmentFrames(ptr, Segments(file)[i])
    IN  ~Refused(AlignDown(Segments(file)[i].vaddr), f.first, f.end)

\* task_init and process_map_memory.
Built(file, ptr, stack) ==
  LET S == Segments(file)
      after[i \in 0 .. Len(S)] ==
        IF i = 0 THEN New(Readable) ELSE Mapped(after[i - 1], ptr, S[i])
  IN  MapTo(after[Len(S)], StackEnd, stack, AlignUp(stack + StackSize), Writable)

\* process_load.  A file with a segment that cannot be mapped is not loaded, and
\* what was allocated for it is given back.
Load(t, file) ==
  /\ t \notin Live
  /\ \E ptr \in Kzalloc(file.size, Taken) :
       \E stack \in Kzalloc(StackSize, Taken \cup PagesOf(ptr, file.size)) :
         /\ Mappable(file, ptr)
         /\ task' = [u \in Live \cup {t} |->
                       IF u # t THEN task[u]
                       ELSE [directory |-> Built(file, ptr, stack), program |-> file,
                             ptr |-> ptr, stack |-> stack, blocks |-> {},
                             ip |-> EntryPoint(file), bounds |-> Bounds(file, ptr)]]

\* process_malloc.  Mapping cannot fail: a block is aligned.
Malloc(t, size) ==
  \E ptr \in Kzalloc(size, Taken) :
    task' = [task EXCEPT ![t].blocks = @ \cup {[at |-> ptr, size |-> size]},
                         ![t].directory = MapTo(@, ptr, ptr, AlignUp(ptr + size), Writable)]

\* Wrong: only the pages that are full are taken away.
WrongFree(t, x) ==
  task' = [task EXCEPT ![t].blocks = @ \ {x},
                       ![t].directory = MapTo(@, x.at, x.at, AlignDown(x.at + x.size), {})]

\* process_free.
Free(t, x) ==
  task' = [task EXCEPT ![t].blocks = @ \ {x},
                       ![t].directory = MapTo(@, x.at, x.at, AlignUp(x.at + x.size), {})]

\* copy_string_from_task: a buffer is mapped while the string is copied, and
\* then its page is given the entry it had.
CopyString(t) ==
  \E tmp \in Kzalloc(1, Taken) :
    LET old == Get(task[t].directory, tmp)
        lent == Set(task[t].directory, tmp, Entry(tmp, Writable))
    IN  task' = [task EXCEPT ![t].directory = Set(lent, tmp, old)]

\* process_free_process.
Exit(t) == task' = [u \in Live \ {t} |-> task[u]]

Init == task = [t \in {} |-> 0]

Next ==
  \/ \E t \in Tasks, program \in Programs : Load(t, program)
  \/ \E t \in Live :
       \/ \E size \in Sizes : Malloc(t, size)
       \/ \E x \in task[t].blocks : Free(t, x)
       \/ CopyString(t) \/ Exit(t)

Spec == Init /\ [][Next]_vars

------------------------------------------------------------------------------
(* Properties.                                                               *)

\* The frames a segment of a file at ptr is mapped to, and the pages it is mapped at.
FramesOf(ptr, s) ==
  PagesOf(AlignDown(ptr + s.offset), ((ptr + s.offset) % PageSize) + s.memsz)
SegmentPages(s) == PagesOf(AlignDown(s.vaddr), (s.offset % PageSize) + s.memsz)

\* The pages of the file that the segments of a program make writable.
WritablePages(program, ptr) ==
  LET S == Segments(program)
  IN  UNION {FramesOf(ptr, S[i]) : i \in {j \in DOMAIN S : S[j].write}}

\* The segments lie in the memory of their file: no segment is so much larger in
\* memory than in the file that it goes past the file's last page.
Contained(program) ==
  \A i \in DOMAIN Segments(program) :
    Segments(program)[i].offset + Segments(program)[i].memsz <= AlignUp(program.size)

\* What nothing in the kernel checks of a program: that its segments end before
\* the address space and the memory do, and that no page of one is a page of
\* another, of the stack or of the heap.
LinkedApart(program, ptr) ==
  LET S == Segments(program) IN
  /\ \A i \in DOMAIN S :
       /\ AlignDown(S[i].vaddr) + (S[i].offset % PageSize) + S[i].memsz <= Top
       /\ ptr + S[i].offset + S[i].memsz <= Top - PageSize
       /\ SegmentPages(S[i]) \cap (Pool \cup PagesOf(StackEnd, StackSize)) = {}
  /\ \A i, k \in DOMAIN S : i # k => SegmentPages(S[i]) \cap SegmentPages(S[k]) = {}

\* Linked apart, and the pages of a segment are the same in the file and in memory.
WellPlaced(program, ptr) ==
  /\ LinkedApart(program, ptr)
  /\ \A i \in DOMAIN Segments(program) :
       Segments(program)[i].vaddr % PageSize = Segments(program)[i].offset % PageSize

\* The loop of paging_map_range writes what MapRange says (paging.c:96-108).
MapLoopAgrees ==
  \A t \in Live : \A x \in task[t].blocks :
    LET n == (AlignUp(x.at + x.size) - x.at) \div PageSize IN
    MapLoop(task[t].directory, x.at, x.at, n, {}) = MapRange(task[t].directory, x.at, x.at, n, {})

\* The frames a task can write to.
Open(r) == {Get(r.directory, v).frame : v \in {w \in Pages : Get(r.directory, w).flags = Writable}}

\* A task can write to its stack, to what malloc gave it, and to the segments of
\* its program that are writable, and to no other frame: what it freed, and what
\* was mapped for a moment, it cannot; and all of it was allocated for this task
\* when the segments lie in the memory of the file (paging.c:110-142,
\* process.c:59-92, 285-311 and 394-470, task.c:138-175).
WritesOnlyItsOwn ==
  \A t \in Live :
    LinkedApart(task[t].program, task[t].ptr) =>
    LET r == task[t] IN
    /\ Open(r) = WritablePages(r.program, r.ptr) \cup PagesOf(r.stack, StackSize)
                   \cup UNION {PagesOf(x.at, x.size) : x \in r.blocks}
    /\ Contained(r.program) => Open(r) \subseteq Held(t)

\* Every byte of a segment is found at its address, and every byte malloc gave at
\* its own, where it can be written, whatever the task asked for and freed since
\* it was loaded; a file that is no ELF file runs from its first byte (process.c:59-92
\* and 409-458, task.c:222-227, paging.c:165-170).
MemoryInPlace ==
  \A t \in Live :
    LET r == task[t]
        S == Segments(r.program)
    IN
    /\ WellPlaced(r.program, r.ptr) =>
         \A i \in DOMAIN S : \A k \in 0 .. S[i].memsz - 1 :
           PhysicalAddress(r.directory, S[i].vaddr + k) = r.ptr + S[i].offset + k
    /\ ~IsElf(r.program) => PhysicalAddress(r.directory, r.ip) = r.ptr
    /\ \A x \in r.blocks : \A a \in x.at .. x.at + x.size - 1 :
         /\ PhysicalAddress(r.directory, a) = a
         /\ Get(r.directory, AlignDown(a)).flags = Writable

\* The segments to load have bytes in the file, and an address other than 0, which
\* the loader takes for none.
LoadsHaveBytes(headers) ==
  \A i \in DOMAIN headers :
    headers[i].type = "load" =>
      0 < headers[i].vaddr /\ 0 < headers[i].filesz /\ headers[i].filesz <= headers[i].memsz

\* What the loader notes of an ELF file agrees with what is mapped: the segments to
\* load lie between the bounds, and the bounds in memory are where the bounds in
\* the address space lead, in whatever order the headers come
\* (elfloader.c:111-153, process.c:430-458).
BoundsAreMapped ==
  \A t \in Live :
    LET r == task[t]
        S == r.program.headers
        loads == {i \in DOMAIN S : S[i].type = "load"}
    IN
    (IsElf(r.program) /\ WellPlaced(r.program, r.ptr) /\ LoadsHaveBytes(S) /\ loads # {}) =>
      /\ \A i \in loads :
           r.bounds.vbase <= S[i].vaddr /\ S[i].vaddr + S[i].filesz <= r.bounds.vend
      /\ PhysicalAddress(r.directory, r.bounds.vbase) = r.bounds.pbase
      /\ PhysicalAddress(r.directory, r.bounds.vend - 1) = r.bounds.pend - 1

=============================================================================
