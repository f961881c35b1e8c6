------------------------------- MODULE Process -------------------------------
(***************************************************************************)
(* The processes: src/src/task/process.c with its callers in isr80h        *)
(* (malloc, free, load, system, exit), idt.c (exceptions) and kernel_main. *)
(*                                                                         *)
(* What a process owns is a set of blocks of the kernel heap, one for each *)
(* thing kzalloc gave for it: its struct process, the memory of its        *)
(* program, its stack, its task (with the page directory and tables), and  *)
(* the blocks it asked for.  A process is named by the block of its struct,*)
(* as a struct process * does, and the block is used again after kfree.    *)
(* fopen parses the path of the program into blocks that it frees only     *)
(* when it fails (Files): one block stands for them here, and is lost.  It *)
(* stands for the path of a plain binary too, which is opened twice, once  *)
(* to see that it is no ELF file.                                          *)
(*                                                                         *)
(* The heap is taken at its promise (BlockPool): a request is given a      *)
(* block that is free, or fails, and it may fail while blocks are free,    *)
(* for want of a run that is long enough.  It promises nothing once it was *)
(* asked for no block (NonZeroRequests in Heap), which a program can make  *)
(* it be: the model stops there, in phase "lost".  The scheduler is taken  *)
(* at its promise too (Scheduler): a switch gives the processor to a task  *)
(* that exists.                                                            *)
(*                                                                         *)
(* Every action is a handler that runs with interrupts off.                *)
(***************************************************************************)
EXTENDS Integers, Sequences, FiniteSets

CONSTANTS
  Blocks,        \* of the heap
  Null,          \* address 0
  MaxProcesses,  \* MARROWOS_MAX_PROCESSES
  MaxAllocs,     \* MARROWOS_MAX_PROGRAM_ALLOCATION
  MaxArguments,  \* the most words of a command
  Choices(_, _),     \* what n calls of kzalloc may give, one after the other,
                     \* when the blocks u are in use: a set of sequences
  LoadChoices(_, _)  \* the same, for the calls of a load

ASSUME ProcessConstants ==
  /\ Blocks \subseteq Nat /\ Null \notin Blocks
  /\ MaxProcesses \in Nat /\ MaxProcesses > 1
  /\ MaxAllocs \in Nat /\ MaxArguments \in Nat \ {0}

VARIABLES
  used,             \* the blocks of the heap that are in use
  lost,             \* ghost: those of the paths fopen has parsed
  processes,        \* processes[], by slot
  proc,             \* the struct process of each process that lives
  current_process,  \* the process in the foreground
  running,          \* task_current()->process
  phase,            \* "boot", "run", "panic" or "lost"
  stray             \* ghost: the pointer process_free gave to kfree in the
                    \* last step, if no block in use was there

table == <<used, lost, processes, proc>>
vars == <<table, current_process, running, phase, stray>>

Slots == 0 .. MaxProcesses - 1
Indexes == 0 .. MaxAllocs - 1
Pointers == Blocks \cup {Null}
Nothing == {}

Live == DOMAIN proc

------------------------------------------------------------------------------
(* Memory.  Operators named Wrong... are variants a slip in the code would   *)
(* give; no definition uses them.  Each stands before the one it would       *)
(* replace, and a property must tell the two apart.                          *)

Given(g) == {g[i] : i \in DOMAIN g}

Apart(f) == \A i, k \in DOMAIN f : f[i] = f[k] => i = k

\* What BlockPool promises of n calls that succeed: blocks that are free, each once.
Granted(choices, u, n) == {g \in choices : g \in [1 .. n -> Blocks \ u] /\ Apart(g)}
Grants(u, n) == Granted(Choices(u, n), u, n)
LoadGrants(u, n) == Granted(LoadChoices(u, n), u, n)

\* process_find_free_allocation_index.
FreeIndexes(r) == {i \in Indexes : r.allocations[i] = Null}
FirstOf(set) == CHOOSE i \in set : \A k \in set : i <= k

Allocated(r) == {r.allocations[i] : i \in Indexes} \ {Null}

\* The end of process_malloc, for block b.
WithBlock(r, b) ==
  [r EXCEPT !.allocations[FirstOf(FreeIndexes(r))] = b, !.writable = @ \cup {b}]

\* Wrong: the pages stay with the process.
WrongWithoutBlock(r, ptr) ==
  [r EXCEPT !.allocations = [i \in Indexes |-> IF @[i] = ptr THEN Null ELSE @[i]]]

\* process_free of a pointer found in the table.  A null pointer is found in
\* any empty place and has no pages.
WithoutBlock(r, ptr) ==
  [r EXCEPT !.allocations = [i \in Indexes |-> IF @[i] = ptr THEN Null ELSE @[i]],
            !.writable = @ \ {ptr}]

\* Wrong: the stack is forgotten.
WrongFreedWith(p, r) == ({p, r.ptr, r.task} \cup Allocated(r)) \ {Null}

\* The blocks process_free_process gives back.
FreedWith(p, r) == ({p, r.ptr, r.stack, r.task} \cup Allocated(r)) \ {Null}

------------------------------------------------------------------------------
(* process_load_for_slot, and process_inject_arguments.                      *)

FreeSlots == {s \in Slots : processes[s] = Null}

\* Wrong: the stack is allocated and not kept.
WrongBuilt(g) ==
  LET field(i) == IF i \in DOMAIN g THEN g[i] ELSE Null IN
  [id          |-> IF 5 \in DOMAIN g THEN FirstOf(FreeSlots) ELSE 0,
   ptr         |-> field(3),
   stack       |-> Null,
   task        |-> field(5),
   allocations |-> [i \in Indexes |-> Null],
   writable    |-> {field(3), field(4)} \ {Null},
   argv        |-> Null]

\* The struct process after the first Len(g) of the five kzallocs of a load,
\* which gave the struct, the path, the program, the stack and the task.
Built(g) ==
  LET field(i) == IF i \in DOMAIN g THEN g[i] ELSE Null IN
  [id          |-> IF 5 \in DOMAIN g THEN FirstOf(FreeSlots) ELSE 0,
   ptr         |-> field(3),
   stack       |-> field(4),
   task        |-> field(5),
   allocations |-> [i \in Indexes |-> Null],
   writable    |-> {field(3), field(4)} \ {Null},
   argv        |-> Null]

\* What fopen took for the path.
PathOf(g) == IF 2 \in DOMAIN g THEN {g[2]} ELSE {}

\* The process with the blocks h for its arguments: a list of pointers and then
\* the words.  The list is only kept when every word has its block.
WithArguments(r, h, complete) ==
  [r EXCEPT !.allocations = [i \in Indexes |-> IF i + 1 \in DOMAIN h THEN h[i + 1] ELSE Null],
            !.writable = @ \cup Given(h),
            !.argv = IF complete THEN h[1] ELSE Null]

\* A load that succeeds, and the injection of words that got as far as h.
Loaded(g, h, complete) ==
  LET p == g[1]
      r == Built(g)
  IN
  /\ FreeSlots # {}
  /\ processes' = [processes EXCEPT ![r.id] = p]
  /\ proc' = [q \in Live \cup {p} |-> IF q = p THEN WithArguments(r, h, complete) ELSE proc[q]]
  /\ used' = used \cup Given(g) \cup Given(h)
  /\ lost' = lost \cup PathOf(g)
  /\ current_process' = p

Boot ==
  /\ phase = "boot" /\ Cardinality(Live) < 2
  /\ stray' = Nothing /\ UNCHANGED <<running, phase>>
  /\ \E g \in LoadGrants(used, 5) :
       \E n \in 0 .. 2 : n <= MaxAllocs /\
         \E h \in Grants(used \cup Given(g), n) : Loaded(g, h, n = 2)

BootFails ==
  /\ phase = "boot" /\ Cardinality(Live) < 2
  /\ phase' = "panic" /\ stray' = Nothing
  /\ UNCHANGED <<table, current_process, running>>

RunFirstEverTask ==
  /\ phase = "boot" /\ Cardinality(Live) = 2
  /\ running' = processes[0]
  /\ phase' = "run" /\ stray' = Nothing
  /\ UNCHANGED <<table, current_process>>

------------------------------------------------------------------------------
(* The commands of the running process.                                      *)

\* Command 6.
LoadStart ==
  /\ phase = "run" /\ stray' = Nothing /\ UNCHANGED phase
  /\ \E g \in LoadGrants(used, 5) : Loaded(g, <<>>, FALSE) /\ running' = g[1]

\* Command 7 with words words, of which each needs a block, and one more for the
\* list of them.  When one is missing the command fails: the program was loaded
\* and is in the foreground, but the caller goes on.
SystemCommand(words) ==
  /\ phase = "run" /\ stray' = Nothing /\ UNCHANGED phase
  /\ \E g \in LoadGrants(used, 5) :
       \E n \in 0 .. words + 1 : n <= MaxAllocs /\
         \E h \in Grants(used \cup Given(g), n) :
           /\ Loaded(g, h, n = words + 1)
           /\ running' = IF n = words + 1 THEN g[1] ELSE running

\* Loading fails for want of a slot or of memory for the struct, because the
\* program cannot be opened, for want of memory for the program or the stack,
\* or because it cannot be read or mapped; process_free_process clears up.  A file
\* that is empty is one that cannot be read: it is given a block that is not marked
\* and gives it back, which clears nothing.
LoadFails ==
  /\ phase = "run" /\ stray' = Nothing
  /\ \E k \in {0, 1, 2, 3, 5} : \E g \in LoadGrants(used, k) :
       /\ used' = (used \cup Given(g)) \ IF k = 0 THEN {} ELSE FreedWith(g[1], Built(g))
       /\ lost' = lost \cup PathOf(g)
  /\ UNCHANGED <<processes, proc, current_process, running, phase>>

\* Loading fails in elf_file_new or in task_new, and a null pointer is followed,
\* or in the file system, and fopen closes the error code it was given for a
\* file.
LoadGoesWrong ==
  /\ phase = "run" /\ FreeSlots # {} /\ stray' = Nothing
  /\ Grants(used, 1) # {}
  /\ phase' = "lost"
  /\ UNCHANGED <<table, current_process, running>>

\* Command 7 with a name that is longer than a path has room for behind "0:/": what
\* strncpy may write is as much as the whole path holds, and it writes past its end,
\* on the stack of the kernel.  When it overwrites nothing of use the command goes on
\* as another.
NameTooLong ==
  /\ phase = "run"
  /\ phase' = "lost" /\ stray' = Nothing
  /\ UNCHANGED <<table, current_process, running>>

\* Command 4.
Malloc ==
  /\ phase = "run" /\ FreeIndexes(proc[running]) # {} /\ stray' = Nothing
  /\ \E g \in Grants(used, 1) :
       /\ used' = used \cup {g[1]}
       /\ proc' = [proc EXCEPT ![running] = WithBlock(@, g[1])]
  /\ UNCHANGED <<lost, processes, current_process, running, phase>>

\* Command 4 with a size of 0, or one that wraps to 0: the process is given a block
\* that is not marked taken and holds it, and so may the next one who asks, a load
\* or another process.  From then on a block may have two owners.
MallocOfNothing ==
  /\ phase = "run" /\ FreeIndexes(proc[running]) # {} /\ Blocks \ used # {}
  /\ phase' = "lost" /\ stray' = Nothing
  /\ UNCHANGED <<table, current_process, running>>

\* Wrong: the table is full and the block is kept.
WrongMallocFails ==
  /\ phase = "run" /\ FreeIndexes(proc[running]) = {} /\ stray' = Nothing
  /\ \E g \in Grants(used, 1) : used' = used \cup {g[1]}
  /\ UNCHANGED <<lost, processes, proc, current_process, running, phase>>

\* The table is full: the block is given back.
MallocFails ==
  /\ phase = "run" /\ FreeIndexes(proc[running]) = {} /\ stray' = Nothing
  /\ \E g \in Grants(used, 1) : used' = (used \cup {g[1]}) \ {g[1]}
  /\ UNCHANGED <<lost, processes, proc, current_process, running, phase>>

\* Command 5, with any pointer.
Free(ptr) ==
  /\ phase = "run"
  /\ IF \E i \in Indexes : proc[running].allocations[i] = ptr
     THEN /\ proc' = [proc EXCEPT ![running] = WithoutBlock(@, ptr)]
          /\ used' = used \ {ptr}
          /\ stray' = {ptr} \ used
     ELSE stray' = Nothing /\ UNCHANGED <<proc, used>>
  /\ UNCHANGED <<lost, processes, current_process, running, phase>>

\* Wrong: the foreground stays where it was, or always moves.
WrongFront(p, left) == current_process
WrongFrontMoves(p, left) == left[FirstOf({s \in Slots : left[s] # Null})]

\* process_unlink and process_switch_to_any: the foreground when p has left the
\* slots.
Front(p, left) ==
  IF current_process = p THEN left[FirstOf({s \in Slots : left[s] # Null})]
                         ELSE current_process

\* Command 9 and the exceptions: process_terminate and task_next.
Terminate ==
  LET p == running
      left == [processes EXCEPT ![proc[p].id] = Null]
  IN
  /\ phase = "run" /\ stray' = Nothing
  /\ processes' = left /\ UNCHANGED lost
  /\ IF current_process = p /\ \A s \in Slots : left[s] = Null
     THEN phase' = "panic" /\ UNCHANGED <<used, proc, current_process, running>>
     ELSE /\ current_process' = Front(p, left)
          /\ used' = used \ FreedWith(p, proc[p])
          /\ proc' = [q \in Live \ {p} |-> proc[q]]
          /\ running' \in Live \ {p}
          /\ UNCHANGED phase

\* The clock.
Tick ==
  /\ phase = "run" /\ stray' = Nothing
  /\ running' \in Live
  /\ UNCHANGED <<table, current_process, phase>>

Init ==
  /\ used = {} /\ lost = {}
  /\ processes = [s \in Slots |-> Null]
  /\ proc = [p \in {} |-> Null]
  /\ current_process = Null /\ running = Null
  /\ phase = "boot"
  /\ stray = Nothing

Next ==
  \/ Boot \/ BootFails \/ RunFirstEverTask
  \/ LoadStart \/ LoadFails \/ LoadGoesWrong
  \/ \E words \in 1 .. MaxArguments : SystemCommand(words)
  \/ Malloc \/ MallocFails \/ MallocOfNothing \/ NameTooLong
  \/ \E ptr \in Pointers : Free(ptr)
  \/ Terminate \/ Tick

Spec == Init /\ [][Next]_vars

------------------------------------------------------------------------------
(* Properties.                                                               *)

\* The variables have the types of process.h.
TypeOK ==
  /\ lost \subseteq used /\ used \subseteq Blocks
  /\ processes \in [Slots -> Pointers]
  /\ Live \subseteq Blocks
  /\ \A p \in Live :
       proc[p] \in [id : Slots, ptr : Blocks, stack : Blocks, task : Blocks,
                    allocations : [Indexes -> Pointers], writable : SUBSET Blocks,
                    argv : Pointers]
  /\ {current_process, running} \subseteq Pointers
  /\ phase \in {"boot", "run", "panic", "lost"}
  /\ stray = Nothing \/ stray \in {{ptr} : ptr \in Pointers}

\* What process p holds, one by one.
Holdings(p) ==
  LET r == proc[p] IN <<p, r.ptr, r.stack, r.task>>

Held(p) == FreedWith(p, proc[p])

\* Every block in use belongs to one process, and to one of its fields, or is
\* one of those fopen has lost: nothing else a load, a failed load, a malloc or
\* an exit took or gave back is lost or shared (process.c:59-92, 119-166,
\* 190-211 and 494-564).
MemoryAccounted ==
  /\ used = lost \cup UNION {Held(p) : p \in Live}
  /\ \A p \in Live : Held(p) \cap lost = {}
  /\ \A p, q \in Live : p # q => Held(p) \cap Held(q) = {}
  /\ \A p \in Live :
       /\ Apart(Holdings(p))
       /\ Given(Holdings(p)) \cap Allocated(proc[p]) = {}
       /\ \A i, k \in Indexes : proc[p].allocations[i] = proc[p].allocations[k] =>
            i = k \/ proc[p].allocations[i] = Null

\* The pages a process may write are those of its program, its stack and the
\* blocks it holds: free takes the pages away and no other process, nor the
\* next owner of a block, can be written to (process.c:59-92 and 285-311).
WritesOnlyItsOwn ==
  \A p \in Live :
    proc[p].writable = {proc[p].ptr, proc[p].stack} \cup Allocated(proc[p])

\* The slots hold the living processes, each once and at its id, and the
\* process in the foreground is one of them (process.c:168-188 and 494-564).
SlotsHoldTheLiving ==
  phase # "panic" =>
    /\ \A p \in Live : processes[proc[p].id] = p
    /\ \A s \in Slots : processes[s] # Null => processes[s] \in Live /\ proc[processes[s]].id = s
    /\ Live # {} => current_process \in Live
    /\ phase = "run" => running \in Live

\* A load that fails leaves everything as it was, but for the path
\* (process.c:551-564).
FailedLoadLeavesNothing ==
  [][LoadFails =>
       /\ UNCHANGED <<used \ lost, processes, proc, current_process, running>>
       /\ Cardinality(lost' \ lost) <= 1]_vars

\* The foreground changes only when a program is started, or to a process that
\* is left when the one in the foreground ends (process.c:181-188, 370-378).
FocusIsKept ==
  [][current_process' # current_process =>
       \/ current_process' \in DOMAIN proc' \ Live
       \/ current_process \notin DOMAIN proc' /\ current_process' \in DOMAIN proc']_vars

\* process.c:292, "Oops it's not our pointer.": a pointer the process did not
\* get from malloc goes no further.  malloc gives out no null pointer.
OnlyOurPointers == stray = Nothing

=============================================================================
