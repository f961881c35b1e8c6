# marrowOS: a TLA+ verification project

marrowOS is a small 32-bit protected-mode kernel: a block heap, paging, a
keyboard, a FAT16 file system, an ELF loader, and processes of one task each
that are scheduled round robin and call the kernel through interrupt 0x80.
This directory holds TLA+ models of its core, the TLC runs that check them on
small instances, and proofs, checked by TLAPS, that hold for every instance.

Source lines are given relative to `src/src/` (`heap.c` is
`memory/heap/heap.c`, and so on). The file `PROJECT.json` maps every definition
to the lines it stands for.

## The system

| component | state it keeps | operations | who calls it |
|---|---|---|---|
| heap (`heap.c`, `kheap.c`) | one byte of flags for each 4 KB block | `kmalloc`, `kzalloc`, `kfree` | everybody |
| tasks (`task.c`) | a doubly linked list, `current_task` | `task_new`, `task_free`, `task_next`, `task_switch` | processes, clock, exceptions, commands |
| processes (`process.c`) | 12 slots, the foreground process, and for each its program, stack, task, 1024 allocations, key ring, arguments | load, `process_malloc`, `process_free`, inject arguments, terminate | commands, exceptions, `kernel_main` |
| commands (`isr80h/`) | none | print, getkey, putchar, malloc, free, load, system, arguments, exit | user programs, interrupt 0x80 |
| interrupts (`idt.c`) | the callback of each vector | the clock calls `task_next`; an exception ends the process | the processor |
| keyboard (`keyboard.c`, `classic.c`) | caps lock; the ring is in the process | push from interrupt 0x21, pop from getkey | interrupts, commands |
| entry and return (`idt.asm`, `task.asm`) | the registers saved in each task | save, return to user mode, return with a result | the processor |
| terminal (`kernel.c`) | the video memory, row and column of the cursor | print, putchar, backspace | commands, kernel |
| paging (`paging.c`) | a directory of tables for each task | new, free, map, get | tasks, processes |
| files (`file.c`, `pparser.c`) | 512 descriptors, the file systems, one disk | `fopen`, `fread`, `fseek`, `fstat`, `fclose` | loader |
| FAT16 (`fat16.c`, `streamer.c`, `disk.c`) | the header and root directory; for each open file an item and a position | open, read, seek, stat, close | files |
| ELF loader (`elfloader.c`) | the file in memory, its bounds and its entry | validate, load, close | processes |
| shell and library (`src/programs/`) | the line, the words, the place `strtok` keeps | readline, parse a command, `printf` | the user |

The parts share memory and call each other directly. Every gate of the
descriptor table is an interrupt gate (`idt.c:52`), so a handler runs to its end
before the next interrupt, and the only interleaving is of whole handlers, at
any instruction of user code. This is why an action of the models is a whole
handler.

What is hard here:

* *long legal sequences*: mallocs and frees, loads and exits in any order, each
  leaving behind the words the next one reads (the heap's flags, `next` and
  `prev`, the allocation table, `head` and `tail` of a ring);
* *reuse*: `kfree` scrubs nothing and a freed cell is soon another task or
  process, so a stale pointer does not fail, it names something else;
* *failures in the middle* of a load, which takes four allocations and a file,
  and of opening a file, which takes five and more;
* *limits*: a full pool, a full table, a full ring, a full line, a size that
  wraps, a page or a cluster more or fewer, the first column and the last row;
* *the order of two handlers*: a key arrives for one process while another
  runs; a tick falls between a load and an exit, or between a command that
  returns a key and the program that looks at it.

## The modules

| module | what it is |
|---|---|
| `Heap` | `heap.c` and `kheap.c`: the table, placing a request, marking and clearing |
| `HeapLoops` | the three loops of `heap.c` iteration by iteration, and `LoopsAgree` |
| `BlockPool` | abstract: a set of extents that never overlap |
| `HeapRefinement` | the extents read back from the flags; `ImplementsPool` |
| `HeapProofs` | theorems about the heap, its loops and its refinement |
| `Loops` | lemmas about loops: induction on the turns, and that a loop has a state after each |
| `Task` | `task.c`, its clock, exception, load and exit callers |
| `Scheduler` | abstract: a queue of tasks and a turn that goes round |
| `TaskRefinement` | the order read from `task_head` and `next`; `ImplementsScheduler` |
| `TaskProofs` | theorems about the list, its tail and the scheduler |
| `Keyboard` | the rings, the driver, getkey |
| `KeyQueue` | abstract: a bounded queue of keys for each process |
| `KeyboardProofs` | theorems about the rings and their refinement |
| `Process`, `MCProcess` | `process.c` and the commands that act on processes |
| `ProcessProofs` | theorems about processes and their memory |
| `Elf` | `elfloader.c`: validation, program headers, bounds, entry point |
| `Paging`, `MCPaging` | extends `Elf`: `paging.c` and those who map: programs, stacks, malloc and free, the copy of a string |
| `PagingProofs` | theorems about directories and what tasks reach through them |
| `Files`, `MCFiles` | mounting, `fopen` and `fclose`: descriptors, the path parser, the lookup in `fat16.c` |
| `FilesProofs` | theorems about opening files, and about reading them (`Fat16`) |
| `FileReader` | abstract: the bytes of a file, in order, from a position |
| `Fat16` | `fread` and `fseek`: cluster chains, pieces, sectors; `ImplementsReader` |
| `Terminal` | the cursor and the video memory |
| `Context` | whose registers are saved where, at a command, a tick, a start and an end |
| `Stdio` | `printf` and the numerals of `itoa`, `lltoa` and their unsigned forms |
| `CommandLine` | abstract: a line of keys, corrected by backspace, and its words |
| `Console` | composes the three: the shell beside another program; `ImplementsCommandLine` |
| `ConsoleProofs` | theorems about the console: the screen, the registers, the line and its words; and about `printf` |

The operators named `Wrong...` are slips a programmer could make. No definition
uses them; each stands before the one it would replace, and replacing it must
break the property PROJECT.json names.

### Heap

`entries` is the table, an entry the set of flags that are on. What the clients
hold is the ghost `held`; `ret` records the last call. `Malloc(size)` is
`kmalloc` with all it calls: align, scan, mark. `StartBlock` says what the scan
finds as a relation (the first fit, or else the run at the end of the table);
`HeapLoops` has the scan and the two marking loops as they are written, as
recursive functions, and `LoopsAgree` compares them in every table: checked on
the small ones, proved for all. `TableIsExact` says that the marks are those of
the extents held and no others.
Sizes wrap at `WordMod`. A program may ask for no block at all, which
`isr80h/heap.c:8` does not refuse; `NonZeroRequests` says that nobody does, the
properties need it, and `Process` stops where somebody does. A client frees what it holds, once: `kfree` trusts its
callers, and whether the callers deserve it is the subject of `Process`.

### Task

A task is a cell of the heap. `next` and `prev` are kept for every cell, also
after it was freed, because the code follows `prev` words that name freed cells.
`task_list_remove` never corrects the `prev` of the task behind; the ghost
`harmed` becomes true at the first exit that follows such a word with an effect
(`PrevIsSound` says when it has none). A heap has finitely many cells
(`CellsAssumption`), so the walk along `next` that `TaskRefinement` takes, one cell
at a time (`Further`), can see them all. What happens before is checked and
proved; the run `task_prev` shows the stale word itself. `Exit` is
`process_terminate` and `task_next` together, with both steps of
`current_task`. When the processor would be given to a cell that holds no task
the model stops, in phase `lost`: while it runs, the processor is at a live task,
which is part of `TypeOK`. `older` is a ghost: the order of creation.

### Keyboard

`buffer`, `head`, `tail` for each process as in `process.h`, with the 0 of an
empty slot as `Zero`. `Push` does not look whether the slot is free, as the
code does not. `foreground` is `process_current()` and `running` the process of
`task_current()`; they change independently. The ghost `overrun` holds the
processes whose ring was overrun since they started. The scan code one past the
table may give any character.

### Process

A process is named by the block of its `struct process`. `used` is the heap,
taken at the promise proved of it (`BlockPool`), one block for each thing that
is allocated. Which free blocks are given is the choice of the operators
`Choices` and `LoadChoices`: `MCProcess` gives the highest or the lowest, so
that TLC follows two allocators with different habits instead of every possible
one, and the proofs hold whatever they choose. A load takes five of them, for
the struct, the path of its file, the program, the stack and the task, and
`LoadFails` fails after any of them and clears up as `process_free_process`
does. The path is never given back (`file.c:192` frees it only when `fopen`
fails); `lost` holds these blocks. `writable` is the set of blocks that are
mapped writable in the process's directory. Where the code goes on in a way no line
of it determines, the phase is `lost`: a null pointer is followed (`LoadGoesWrong`), a
program asks for no memory and is given a block that is not marked
(`MallocOfNothing`), or the name of a command is longer than the path it is copied to
(`NameTooLong`; `isr80h/process.c:50` lets `strncpy` write as much behind `0:/` as the
whole path holds). The next running process is any that
lives, which is what `Scheduler` promises.

### Elf and Paging

`Elf` reads a file as the checks it passes, its entry and its program headers:
what fails a check, or is to begin below the address of programs, is loaded as a
plain binary. `Bounds` goes through the headers in the order they come, as
`elf_process_phdr_pt_load` does; `BoundsAreMapped` compares what it notes with
what is mapped. In `Paging` an address is a number, a directory a table of
tables of entries, an entry a frame and its flags. `MapRange` says at once what
the loop of `paging_map_range` does page by page (`MapLoop`, compared with it by
`MapLoopAgrees`); `AlignUp` and the sums
before it wrap at the end of the address space, as 32 bits do. A run that is cut short
at the end of the pool is left to `Heap`: a block is as long as was asked for. `Load` builds a directory from nothing: every page readable at its own
address, then the segments, then the stack. `Malloc` and `Free` map and unmap
whole pages; `CopyString` lends a page and restores its entry. A file with a
segment `paging_map_to` refuses is not loaded.

Nothing in the kernel refuses a file that is linked over its own stack, over the
heap, or with two segments on one page; the later mapping wins. `LinkedApart` says
that a file does none of this, `WellPlaced` that its segments begin at the same
place of a page in the file and in memory as well, `Contained` that no segment goes
past the last page of its file, `LoadsHaveBytes` that those to load have an address
and bytes. `Load` assumes none of them; each property names the ones it needs. `WritesOnlyItsOwn` says first which frames
a task can write to, exactly, and then that they are its own if its file is
`Contained`. What the constants are assumed to be (`PagingConstants`) is the memory
map of `config.h`: the stack below the heap, the program above both, all in the
address space.

### Files and Fat16

`Files` begins before the disk is mounted. `MountFat16` keeps five blocks for the
volume; `MountRefused` frees the private data and with it the only pointers to
three streams, and leaves a disk without a file system. `Files` counts blocks.
Each request of this layer fits in one block, and such a
request fails only when none is free, which is what `FailsOnlyWhenFull` says of
the heap; so how far a call gets is a function of `free`. `Parsed` cuts a path at
an empty part and where memory ends, as `pathparser_parse` does without a word;
`Walk` is the loop of `fat16_get_directory_entry`, with the item it frees, the
one it forgets and the null one it follows; `Searched` is the part of a directory
that is looked at. Where the code follows a null pointer or a freed block the
phase is `lost`; where it closes an error code (`file.c:200`) it may be. `Unambiguous` says of
the directories on the way of a path what a volume has as it is made: no name twice,
and no entries under a file.

In `Fat16` a byte is its position on the disk. `Stream` reads sector by sector,
also the one behind a read that ends with a sector; `ReadInternal` reads piece by
piece, each as long as a cluster whatever it begins at; `ClusterFor` walks the
chain. The file, its chain and its mark are chosen at the start and never change:
the driver does not write. `asked` is a ghost: the arguments of the last read.

### Terminal, Context, Stdio and Console

`Terminal` is the cursor as two 16-bit words and the cells they point at. Nothing
scrolls: a character behind the last cell is noted in the ghost `past`. A
backspace in the first column writes its blank in the last column of the row
above, which moves the cursor on, and steps from column 0 to 65535. `Printed`, the loop of print, is a recursive
function of the letters printed so far. `Context`
keeps one register for all of them, `eax`, since a command changes only that one:
an entry saves it in the current task, a return loads it. A command that starts a
program does not return to its caller, whose `eax` is still the number of the
command when its turn comes.

`Console` is the shell, its library and one more program. An action of the shell
is a command with the user code behind it up to the next command; only what the
command returned in `eax` is used across the boundary, so `key` waits there while
ticks come in between. `scommand` and `sp` are the copy of the line `strtok` cuts
up and the place it keeps in a static variable, which outlives a command when
memory ends in the middle of a line. A word is copied into an argument of
`ArgumentSize` bytes (512 in the code, and a line may have 1023 characters) and cut
to what fits with the null byte (`Copied`). The kernel of this commit starts two blank
programs and no shell; `Init` is a state after one was started. Colours and the
switch of the page directory are left out; what an uninitialised buffer holds is
never looked at. `ConsoleConstants` says which
values the code tells apart: the null byte is no key, Enter, backspace and the line
feed are no letters. `Stdio` states what `printf`
shows for a set of formats, and the numerals for every number of `Bits` bits; a
`long long` is taken with the same number of bits. `CommandLine` is what a user
would say a line is, of which a word that is too long is cut (`Kept`).

The models meet in these assumptions: `Process` relies on the pool `Heap`
implements, on the scheduler `Task` implements until it is harmed, on `Paging`
for what mapping a block does and on `Files` for the path that is lost; `Task` and
`Keyboard` rely on `Process` for which processes there are; `Files` on the heap for
when a request fails; `Console` on `KeyQueue` for the keys and on `Scheduler` for
the turns.

## The runs

| run | module, cfg | what it shows |
|---|---|---|
| `heap` | `HeapLoops`, `Heap.cfg` | 6 blocks, requests of 1, 2, 3, 4 and 7 blocks. No block is held twice or lost, the marks are exactly those of what is held, a request fails or is cut short only when nothing fits, the loops compute what the relations say, and the heap implements `BlockPool` |
| `heap_short_run` | `Heap`, `HeapShortRun.cfg` | violation: `heap.c:94` says enough blocks were found, and the run at the end may be too short |
| `task` | `TaskRefinement`, `Task.cfg` | 4 cells, up to the first harm: order of the list, only live tasks run, ticks pass nobody over, panic only at the end, a round-robin scheduler is implemented, and every task runs again once the set of tasks stays. Also after it: a tail is there to append to |
| `task_prev` | `Task`, `TaskPrev.cfg` | violation: `task.h:40` says `prev` is the previous task of the list |
| `keyboard` | `Keyboard`, `Keyboard.cfg` | 2 processes, a ring of 2, 5 keys each: a bounded queue of keys for each process until it is overrun, and what an overrun may destroy |
| `process` | `MCProcess`, `Process.cfg` | 3 slots, 2 allocations each, 15 blocks, 2 words: slots, foreground and running process name processes that live; every block in use has one owner who alone may write it, or is a lost path; a failed load leaves nothing but its path |
| `process_free` | `MCProcess`, `ProcessFree.cfg` | violation: `process.c:292` says a pointer that is not ours goes no further; a null pointer does |
| `paging` | `MCPaging`, `Paging.cfg` | 16 pages of 2 bytes, 6 of them heap, tables of 4, 2 tasks, 7 files: a task writes to its own frames only and finds its program and its blocks where they belong; the bounds of an ELF file lead to where it is mapped; the loop maps what the relation says |
| `files` | `MCFiles`, `Files.cfg` | 29 blocks, 3 descriptors, 13 paths over two levels, with and without a volume: blocks are held, lost or free; what is opened is what was named, even when memory cuts the path short; what is there is found; a failed open loses only an item in the middle of a path |
| `fat16` | `Fat16`, `Fat16.cfg` | sectors of 2 bytes, 2 to a cluster, all chains of up to 3 clusters: the right bytes in order and no failure before the end, but for torn reads; the disk hangs only where its last byte is read |
| `fat16_torn` | `Fat16`, `Fat16Torn.cfg` | violation: `fat16.c:403` speaks of the correct cluster for the offset; a read across the end of a cluster takes what lies behind it on the disk |
| `console` | `Console`, `Console.cfg` | a screen of 3 rows of 4, a line of 4 keys, 2 words, one more program: what the shell shows is the line, its words, cut to two letters, are what the kernel gets, no key is taken twice or missed whatever the ticks do to `eax`; nothing is stored behind the screen before its rows are used up; `printf` shows its arguments |

Bounds. Six blocks hold three extents with gaps between and around them, an
extent at the end, one that is cut short there, and a request that never fits:
every case of the scan and of the marks. Four cells hold the two boot tasks and
two more, so a task can be at the head, at the tail or between, and a freed cell
can come back while a stale `prev` still names it. A ring of two is gone round
more than twice with five keys. Three slots give the foreground a choice when a
process ends (two would not: there is only one left); three processes take all
the fifteen blocks there are, and two with their allocations and the paths that
were lost bring the table of each and the heap to their limits. Tables of four
entries make a range cross from one table to the next; the programs are two
segments out of order, one that begins and ends within a page, three files that
are no ELF file (each fails another check), a segment that goes past the end of
its file, and one whose end wraps; the heap leaves out the last page, as the
real one ends far below 4 GB. The paths of `files` take every way through the
walk, and 29 blocks, five of them the volume's, are taken away one by one, so
that each of them is tried with each amount of memory. The sizes of `fat16` are
one byte, less than a cluster, a cluster, two and a byte, in one or two
elements, from every offset a seek can reach up to `MaxPos`, which bounds
`SEEK_CUR` only. In `console` the prompt takes half of a row of four, so a line
of four keys crosses into the next row, and a second line is typed on the last
row of three; five keys (`MaxKeys`) are a line and its Enter, or two short
lines; one print (`MaxPrints`) of the other program is enough to disturb a line
at every place; memory for two words runs out in the second line; an argument of
three bytes cuts words of three and four letters and leaves those of one and two;
columns wrap at 16 instead of 65536, which must only be more than the cells of the screen.

Fairness. `EveryTaskRuns` is checked under `WF_vars(Tick)`: the timer keeps
firing, tasks run with interrupts on (`task_return` sets the flag), and no
handler waits. No other action is assumed to happen. It is claimed only for
behaviours in which tasks stop starting and ending: `idt_clock` goes round, but
an exit passes the next task over (`task.c:52-55` moves `current_task`, and
`task_next` moves it again), so a task may starve while others keep ending.

`CHECK_DEADLOCK FALSE` is set where the kernel really stops: after a panic it
loops for ever (`kernel.c`), in phase `lost` nothing is known, and a disk that
hangs is waited for without end.

## The proofs

| module | theorem | for every ... |
|---|---|---|
| `HeapProofs` | `HeapInvariant`, `NoDoubleAllocation`, `TableMatchesClients`, `TypeCorrect`, `OverrunIsLast` | pool, block size, word size, set of non-empty requests |
| | `LoopsDoAsTheModel` | table and request, the empty one too |
| | `FailureMeansFull`, `OverrunMeansFull`, `HeapImplementsPool` | the same as for `HeapInvariant` |
| `TaskProofs` | `TaskInvariant`, `TypeCorrect`, `ListStaysInOrder`, `OnlyLiveTasksRun`, `TicksGoRound`, `NoEarlyPanic`, `TailStaysThere`, `ListImplementsScheduler` | finite set of cells |
| `KeyboardProofs` | `RingInvariant`, `TypeCorrect`, `KeysLostOnlyWhenFull`, `RingImplementsQueue` | size of the ring, set of processes |
| `ProcessProofs` | `ProcessInvariant`, `TypeCorrect`, `MemoryIsAccounted`, `WritesStayInside`, `SlotsAreRight`, `FailedLoadsLeaveNothing`, `FocusStays` | heap, number of slots, of places in the allocation table and of words, choice of free blocks |
| `PagingProofs` | `Invariant`, `LoopAgrees`, `WritesOwn`, `TasksAreIsolated`, `InPlace`, `BoundsLead` | size of pages and tables, memory map, set of files, of sizes and of tasks |
| `FilesProofs` | `FilesInvariant`, `TypeCorrect`, `MemoryIsAccounted`, `OpensTheNamed`, `FailedOpensLoseAnItem`, `FindsTheNamed` | volume, set of paths and modes, number of descriptors, amount of memory |
| | `ReadsTheFile`, `HangsAtTheEnd` (of `Fat16`) | width of sectors and clusters, size of the volume, chain and size of the file, place, size and number of what is read |
| `ConsoleProofs` | `ConsoleInvariant`, `TypeCorrect`, `EchoIsTheLine`, `PrintsOnTheScreen`, `ShellImplementsCommandLine`, `PrintfShowsArguments` | screen, size of the buffer and of an argument, set of letters, number of keys, of prints and of words; a word of at most 64 bits |

*Heap.* The inductive invariant is the types, `HeldNonEmpty`, `HeldMarked`,
`NoBlockLost` and `HeldDisjoint` together: none of them is inductive alone (that
a new extent overlaps no other needs that a free entry belongs to nobody; that a
free clears only its own needs that the marks are as they were written).
`TableIsExact` is `HeldMarked` and `NoBlockLost`; that only the extent at the
end of the pool can run past it (`OverrunIsLast`) is a corollary no run repeats.
The theorems assume `NonZeroRequests`: a request of no blocks (size 0, or a size
that wraps) returns an address that is not marked. The kernel makes none that it
keeps (an empty file is given such a block, cannot be read and gives it back);
a program can. The refinement maps the
extents, read from the flags, to the pool; each action maps to a grant, a
shortened grant, a refusal or a release.

*Loops.* A loop is written as a recursive function of its turns, and a theorem of
induction over them cannot be cited with an operator as its parameter. `Loops`
states induction about a set of numbers instead, from the least number that is not
in it. From it follows that a function with the recursive equation exists, which
is what makes `CHOOSE` mean the function the model writes down, and then what
holds after each turn: `Scanned` is the loop invariant of the scan (no run of the
size ends before here; `start` and `current` describe the run we are in), `Marked`
and `Cleared` those of the marking loops. `LoopsDoAsTheModel` needs no assumption:
that the table keeps its type is inductive by itself.

*Task.* The invariant adds to the checked properties that `older` is a total
order on the live tasks, that nothing is harmed and nobody runs during boot,
that a running kernel runs a live task, and that only the head has a null
`prev`. The only assumptions are that null is not a cell and that there are finitely
many cells.

That a tail is always there to append to, also after the harm (`TailStaysThere`),
has an invariant of its own, since nothing is known of the order then: some set of
cells (`Region`) holds the head, the tail and the current task and is closed under
`next` and `prev`; and of a live task whose `prev` is null either the walk from the
tail never comes to it (`Cut`) or it passes every other one first and nothing
stands behind the tail (`Whole`). So an exit that empties head and tail is the exit
of the last task.

*Scheduler.* What the abstract scheduler keeps in `ready` is the sequence a walk from
`task_head` sees. `Walked` is what is known of the walk after some steps: each cell in
it is live, is younger than those before it and is the `next` of the last, so no cell
comes twice, and as there are finitely many the walk ends (`WalkEnds`). The invariant
makes it see every live task. `ListsAgree` shows that a set of tasks has only one
sequence in the order of their creation. So a step is followed by saying what that
sequence is afterwards: the same with a new task at the end, or without the one that
went, and the turn moves as `task_next` moves `current_task`.

*Keyboard.* The invariant says of every slot that is not empty that the key in
it came at one of the last W positions, and that head has not passed it. That
two of W positions in a row have different slots is the arithmetic lemma it
rests on. The bound `MaxTyped` is an arbitrary natural number. The queue of the
refinement is what lies in the slots from `head` to `tail`: a push that overruns
nobody appends one, a pop takes the first and leaves a 0, and a ring that was overrun
promises nothing any more.

*Process.* The invariant has three parts. `Types`. `Accounts`: what processes
hold are disjoint sets of blocks that together with the lost paths are what is
in use, a process holds four different blocks (its struct, program, stack and
task) and those of its table, and what it may write is its program, its stack
and the blocks of its table (`Own`); one lemma each says that this survives a
process that is added, changed or removed, and a path that is lost.
`SlotsInUse`: a slot names a process that lives and has that slot, and during
boot slot 0 is filled first, without which the foreground could name nobody
after the second load of `kernel_main`. `MemoryAccounted` alone is not
inductive: that an exit frees nobody else's block needs that the tables hold no
block twice. The choice of free blocks is a parameter no assumption restricts,
since `Grants` keeps from a choice what is free.

*Paging.* The invariant says of each task what its directory maps (`Placed`): outside
the heap what `task_init` left there, each page of a block to itself and writable,
and, if its file is linked apart, no other page of the heap writable. `Sound` adds
that program, stack and blocks lie in the heap and that blocks are apart; that what
is allocated for one task (`Own`) is not allocated for another is the third part.
What a range maps is proved once for all ranges (`MapLoop` page by page against
`MapRange`), and the directory a load builds is followed header by header, with the
stack last. From `WritesOwn` it follows that no two tasks can write to the
same frame (`TasksAreIsolated`), if their files are linked apart and contained.
`BoundsLead` follows the loop over the headers once more, with the least address and
the greatest end seen so far.

*Files.* The walk of a path is a loop again; its invariant, `Walked`, says that the
item at a part is an entry its names lead to and took two or three of the blocks
there were, or that the walk failed in one of four ways, one of which has lost the
item of a file in the middle of the path. When a path is cut for want of memory, at
most one block is left, so the walk cannot reach an item: that is why what is
opened is what was named. The invariant adds that a file is open only on a disk that
was mounted, and the sum of the blocks. `DirectoriesAreSequences` is assumed of the
directories on the way of the paths. For `FindsTheNamed` the walk is followed where
names lead somewhere without gaps or ambiguity (`Plain`): after each part it stands at
the only entry the names so far lead to (`Standing`), and eight blocks carry it there.

*Reading.* `FilesProofs` takes `Fat16` as the instance `Fat`, under its assumptions
(`Layout`), and shows that a read is a step of `FileReader`. Each of the three loops
is a function defined from its end: `Loops` has it that such a function exists
(`ValuesAheadExist`) and the induction from above (`InductDown`). From the inside out:
`ClusterForIs` (after as many entries of the table as the offset has clusters before
it, the loop is at that cluster of the chain, or failed behind it); `StreamIs` (sector
by sector, the bytes from a position on, unless it comes to the end of the disk);
`PieceLies` (the bytes of a piece lie behind each other on the disk, also where it goes
from one cluster into the next, since the read is not torn); then `PieceIs`,
`ReadInternalIs` and `ReadElementsIs`, which say the same two things of a piece, an
element and the whole: it gives as many bytes as asked for or fails behind the file
(`Reads`), and within the file, not torn, they are the bytes of the file, or it takes
the last byte of the disk (`Right`). `ReadsTheFile` is `ImplementsReader`, and
`HangsAtTheEnd` is `HangsOnlyAtTheEnd`. The invariant they need, `FileOK`, is that the
chain has no cluster twice and holds the size.

*Console.* The invariant has six parts. `ScreenOK`: the cursor is within a row, unless
a backspace took it out of the screen (`Adrift`). `RegistersOK`: when the shell has
received a key, `eax` as it finds it is that key, wherever it was saved meanwhile.
`LineOK` and `ParseOK`: the line is terminated once it was read, and so is the copy
from the place `strtok` keeps on; without that a word could run out of the buffer.
`EchoOK`: until somebody else prints, the cell `k` places from where the line began
shows its key `k`. Printing is a loop again, followed with `Induct`. `ParsingOK` is
what the refinement needs: while words are cut, the copy from the place kept on is
the line, and the list has the words that begin before it, as many as they are and
each cut to what an argument holds. That
the abstract line has the word that is cut next is a matter of counting starts of words.

*Numbers and formats.* `PrintfShowsItsArguments` says the same in every state, so its
proof needs no invariant, but loops again. The loops of `print_uint`, `print_ull` and
`itoa` have, after k turns, the k last digits and what is left of the number
(`AfterTurns`); the one of `udivmod64` has the quotient and the remainder of the k
highest bits (`Halfway`), and so gives both of the number (`UdivmodIs`). `PrintfGoes`
says that `printf` has a state after each turn, `TurnOfPiece` that a turn takes the
piece that stands there and shows what it means. With `FirstTurn` and `NextTurn` that
gives one piece, two pieces and a piece with an unfinished directive behind it, for
every number of the word, not only for `Corners`. That three decimal digits for ten
bits are enough is a matter of 1000 and 1024: it fails from 393 bits on, so the
theorem assumes `Bits <= 64`, and no word of the library has more. `Stdio` defines
powers as a recursive function, since the prover knows nothing of `^`.

Only model-checked: `EveryTaskRuns`, since liveness is out of the prover's reach.

## Not modelled, and the plan

Next: reading an 8.3 name and the fields of a FAT header.

Not planned, with the reason:

* the boot sector and the other assembly, the ATA port protocol, loading segment
  and task registers: hardware, and no state the kernel keeps;
* the encoding of segment descriptors, the descriptor table of interrupts and the
  table of callbacks, which are written once at boot;
* the byte loops of `memory.c` and `string.c`, except for `strtok`, which keeps a
  place between calls;
* `fstat` and `get_program_arguments`, which only read, and `sum`, which changes
  nothing;
* the start-up code of user programs, and blank, whose calls are inputs of `Process`,
  `Keyboard` and `Console`.
