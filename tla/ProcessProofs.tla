--------------------------- MODULE ProcessProofs ----------------------------
(***************************************************************************)
(* Proofs about Process, for every heap, every number of slots and of      *)
(* places in the allocation table, and every choice of free blocks.        *)
(***************************************************************************)
EXTENDS Process, TLAPS, FiniteSetTheorems, WellFoundedInduction

\* The first free slot or place is free (process.c:32-47 and 494-512).
LEMMA FirstIsLeast ==
  ASSUME NEW set, set \subseteq Nat, set # {}
  PROVE  FirstOf(set) \in set /\ \A k \in set : FirstOf(set) <= k
<1>1. PICK x \in set : \A y \in set : ~ (<<y, x>> \in OpToRel(<, Nat))
  BY NatLessThanWellFounded, WFMin
<1>2. \A y \in set : ~ (y < x)
  BY <1>1 DEF OpToRel
<1>3. \E i \in set : \A k \in set : i <= k
  BY <1>2
<1>4. QED
  BY <1>3 DEF FirstOf

------------------------------------------------------------------------------
(* What a struct process holds.                                              *)

Record ==
  [id : Slots, ptr : Blocks, stack : Blocks, task : Blocks,
   allocations : [Indexes -> Pointers], writable : SUBSET Blocks, argv : Pointers]

\* Each thing process p holds is a block of its own, and it may write exactly its
\* program, its stack and the blocks it asked for.
Own(p, r) ==
  /\ p \in Blocks /\ r \in Record
  /\ p # r.ptr /\ p # r.stack /\ p # r.task
  /\ r.ptr # r.stack /\ r.ptr # r.task /\ r.stack # r.task
  /\ {p, r.ptr, r.stack, r.task} \cap Allocated(r) = {}
  /\ \A i, k \in Indexes : r.allocations[i] = r.allocations[k] => i = k \/ r.allocations[i] = Null
  /\ r.writable = {r.ptr, r.stack} \cup Allocated(r)

\* process_malloc puts the block in a place of the table that was empty, and
\* nothing else changes hands (process.c:59-92).
LEMMA WithBlockOwns ==
  ASSUME NEW p, NEW r, Own(p, r), FreeIndexes(r) # {},
         NEW b \in Blocks, b \notin FreedWith(p, r)
  PROVE  Own(p, WithBlock(r, b)) /\ FreedWith(p, WithBlock(r, b)) = FreedWith(p, r) \cup {b}
<1> DEFINE i == FirstOf(FreeIndexes(r))
           s == WithBlock(r, b)
<1>1. i \in Indexes /\ r.allocations[i] = Null
  BY FirstIsLeast, ProcessConstants DEF FreeIndexes, Indexes
<1>2. r.allocations \in [Indexes -> Pointers] /\ r \in Record
  BY DEF Own, Record
<1>3. /\ s.allocations = [r.allocations EXCEPT ![i] = b]
      /\ s.writable = r.writable \cup {b}
      /\ s.id = r.id /\ s.ptr = r.ptr /\ s.stack = r.stack /\ s.task = r.task /\ s.argv = r.argv
  BY <1>2 DEF WithBlock, Record
<1> HIDE DEF i
<1>4. s \in Record
  BY <1>1, <1>2 DEF WithBlock, Record, Pointers, i
<1>5. b # Null /\ b \notin Allocated(r) /\ b # p /\ b # r.ptr /\ b # r.stack /\ b # r.task
  BY ProcessConstants DEF FreedWith
<1> HIDE DEF s
<1>6. Allocated(s) = Allocated(r) \cup {b}
  BY <1>1, <1>2, <1>3, <1>5 DEF Allocated
<1>7. \A j, k \in Indexes :
        s.allocations[j] = s.allocations[k] => j = k \/ s.allocations[j] = Null
  BY <1>1, <1>2, <1>3, <1>5 DEF Own, Allocated
<1>8. Own(p, s)
  BY <1>3, <1>4, <1>5, <1>6, <1>7 DEF Own
<1>9. FreedWith(p, s) = FreedWith(p, r) \cup {b}
  BY <1>3, <1>5, <1>6 DEF FreedWith
<1>10. QED
  BY <1>8, <1>9 DEF s

\* process_free empties the one place that holds the pointer and gives back that
\* block alone; a null pointer gives back nothing (process.c:285-311).
LEMMA WithoutBlockOwns ==
  ASSUME NEW p, NEW r, Own(p, r), NEW ptr, \E i \in Indexes : r.allocations[i] = ptr
  PROVE  /\ Own(p, WithoutBlock(r, ptr))
         /\ FreedWith(p, WithoutBlock(r, ptr)) = FreedWith(p, r) \ {ptr}
         /\ ptr # Null => ptr \in FreedWith(p, r)
<1> DEFINE s == WithoutBlock(r, ptr)
<1>1. r.allocations \in [Indexes -> Pointers] /\ r \in Record
  BY DEF Own, Record
<1>2. /\ s.allocations = [i \in Indexes |-> IF r.allocations[i] = ptr THEN Null ELSE r.allocations[i]]
      /\ s.writable = r.writable \ {ptr}
      /\ s.id = r.id /\ s.ptr = r.ptr /\ s.stack = r.stack /\ s.task = r.task /\ s.argv = r.argv
  BY <1>1 DEF WithoutBlock, Record
<1>3. s \in Record
  BY <1>1 DEF WithoutBlock, Record, Pointers
<1> HIDE DEF s
<1>4. ptr # Null => ptr \in Allocated(r)
  BY DEF Allocated
<1>5. Allocated(s) = Allocated(r) \ {ptr}
  BY <1>1, <1>2 DEF Allocated
<1>6. ptr \notin {p, r.ptr, r.stack, r.task}
  BY <1>1, <1>4, ProcessConstants DEF Own, Record
<1>7. \A j, k \in Indexes :
        s.allocations[j] = s.allocations[k] => j = k \/ s.allocations[j] = Null
  BY <1>1, <1>2 DEF Own
<1>8. Own(p, s)
  BY <1>2, <1>3, <1>5, <1>6, <1>7 DEF Own
<1>9. FreedWith(p, s) = FreedWith(p, r) \ {ptr}
  BY <1>2, <1>5, <1>6 DEF FreedWith
<1>10. QED
  BY <1>4, <1>8, <1>9 DEF s, FreedWith

\* What BlockPool promises of the blocks of n calls.
LEMMA GrantsAreFree ==
  ASSUME NEW u, NEW n \in Nat, NEW g, g \in Grants(u, n) \/ g \in LoadGrants(u, n)
  PROVE  g \in [1 .. n -> Blocks \ u] /\ \A i, k \in 1 .. n : g[i] = g[k] => i = k
<1>1. g \in [1 .. n -> Blocks \ u] /\ Apart(g)
  BY DEF Grants, LoadGrants, Granted
<1>2. DOMAIN g = 1 .. n
  BY <1>1
<1>3. QED
  BY <1>1, <1>2 DEF Apart

\* A load that fails after any of its allocations gives back all but the path
\* (process.c:551-564).
LEMMA FailedLoadGivesBack ==
  ASSUME NEW u, u \subseteq Blocks, NEW k \in {1, 2, 3, 5}, NEW g \in LoadGrants(u, k)
  PROVE  /\ PathOf(g) \subseteq Blocks \ u
         /\ (u \cup Given(g)) \ FreedWith(g[1], Built(g)) = u \cup PathOf(g)
<1>1. g \in [1 .. k -> Blocks \ u] /\ \A i, j \in 1 .. k : g[i] = g[j] => i = j
  BY GrantsAreFree
<1>2. DOMAIN g = 1 .. k
  BY <1>1
<1>3. Allocated(Built(g)) = {}
  BY DEF Built, Allocated
<1>4. CASE k = 1
  <2>1. Given(g) = {g[1]} /\ PathOf(g) = {}
    BY <1>2, <1>4 DEF Given, PathOf
  <2>2. FreedWith(g[1], Built(g)) = {g[1]}
    BY <1>1, <1>2, <1>3, <1>4, ProcessConstants DEF FreedWith, Built
  <2>3. QED
    BY <1>1, <1>4, <2>1, <2>2
<1>5. CASE k = 2
  <2>1. Given(g) = {g[1], g[2]} /\ PathOf(g) = {g[2]}
    BY <1>2, <1>5 DEF Given, PathOf
  <2>2. FreedWith(g[1], Built(g)) = {g[1]}
    BY <1>1, <1>2, <1>3, <1>5, ProcessConstants DEF FreedWith, Built
  <2>3. g[1] # g[2] /\ g[1] \in Blocks \ u /\ g[2] \in Blocks \ u
    BY <1>1, <1>5
  <2>4. QED
    BY <2>1, <2>2, <2>3
<1>6. CASE k = 3
  <2>1. Given(g) = {g[1], g[2], g[3]} /\ PathOf(g) = {g[2]}
    BY <1>2, <1>6 DEF Given, PathOf
  <2>2. FreedWith(g[1], Built(g)) = {g[1], g[3]}
    BY <1>1, <1>2, <1>3, <1>6, ProcessConstants DEF FreedWith, Built
  <2>3. /\ g[1] # g[2] /\ g[3] # g[2]
        /\ g[1] \in Blocks \ u /\ g[2] \in Blocks \ u /\ g[3] \in Blocks \ u
    BY <1>1, <1>6
  <2>4. QED
    BY <2>1, <2>2, <2>3
<1>7. CASE k = 5
  <2>1. Given(g) = {g[1], g[2], g[3], g[4], g[5]} /\ PathOf(g) = {g[2]}
    BY <1>2, <1>7 DEF Given, PathOf
  <2>2. FreedWith(g[1], Built(g)) = {g[1], g[3], g[4], g[5]}
    BY <1>1, <1>2, <1>3, <1>7, ProcessConstants DEF FreedWith, Built
  <2>3. /\ g[1] # g[2] /\ g[3] # g[2] /\ g[4] # g[2] /\ g[5] # g[2]
        /\ \A i \in 1 .. 5 : g[i] \in Blocks \ u
    BY <1>1, <1>7
  <2>4. QED
    BY <2>1, <2>2, <2>3
<1>8. QED
  BY <1>4, <1>5, <1>6, <1>7

\* A process that is loaded, with as many of its arguments as there was memory for,
\* holds every block of its load but the path, each in one place
\* (process.c:119-166 and 494-549).
LEMMA LoadedOwns ==
  ASSUME NEW u, NEW n \in Nat, n <= MaxAllocs,
         NEW g \in LoadGrants(u, 5),
         NEW h \in [1 .. n -> Blocks \ (u \cup Given(g))], Apart(h),
         NEW complete \in BOOLEAN, complete => n > 0,
         FreeSlots # {}
  PROVE  /\ Own(g[1], WithArguments(Built(g), h, complete))
         /\ FreedWith(g[1], WithArguments(Built(g), h, complete))
              = (Given(g) \cup Given(h)) \ PathOf(g)
         /\ WithArguments(Built(g), h, complete).id = FirstOf(FreeSlots)
         /\ FirstOf(FreeSlots) \in FreeSlots
<1> DEFINE b == Built(g)
           r == WithArguments(b, h, complete)
<1>1. g \in [1 .. 5 -> Blocks \ u] /\ \A i, j \in 1 .. 5 : g[i] = g[j] => i = j
  <2>1. g \in [1 .. 5 -> Blocks \ u] /\ Apart(g)
    BY DEF LoadGrants, Granted
  <2>2. DOMAIN g = 1 .. 5
    BY <2>1
  <2>3. QED
    BY <2>1, <2>2 DEF Apart
<1>2. /\ h \in [1 .. n -> Blocks \ (u \cup Given(g))]
      /\ \A i, j \in 1 .. n : h[i] = h[j] => i = j
  BY DEF Apart
<1>3. Given(g) = {g[1], g[2], g[3], g[4], g[5]} /\ PathOf(g) = {g[2]}
  <2>1. DOMAIN g = 1 .. 5
    BY <1>1
  <2>2. QED
    BY <2>1 DEF Given, PathOf
<1>4. DOMAIN h = 1 .. n
  BY <1>2
<1>5. FirstOf(FreeSlots) \in FreeSlots /\ FirstOf(FreeSlots) \in Slots
  <2>1. FreeSlots \subseteq Slots /\ FreeSlots \subseteq Nat
    BY ProcessConstants DEF FreeSlots, Slots
  <2>2. QED
    BY <2>1, FirstIsLeast
<1>6. b = [id |-> FirstOf(FreeSlots), ptr |-> g[3], stack |-> g[4], task |-> g[5],
           allocations |-> [i \in Indexes |-> Null], writable |-> {g[3], g[4]},
           argv |-> Null]
  <2>1. DOMAIN g = 1 .. 5
    BY <1>1
  <2>2. {g[3], g[4]} \ {Null} = {g[3], g[4]}
    BY <1>1, ProcessConstants
  <2>3. 3 \in DOMAIN g /\ 4 \in DOMAIN g /\ 5 \in DOMAIN g
    BY <2>1
  <2>4. QED
    BY <2>2, <2>3 DEF Built
<1> HIDE DEF b
<1>7. /\ r.id = FirstOf(FreeSlots) /\ r.ptr = g[3] /\ r.stack = g[4] /\ r.task = g[5]
      /\ r.allocations = [i \in Indexes |-> IF i + 1 \in 1 .. n THEN h[i + 1] ELSE Null]
      /\ r.writable = {g[3], g[4]} \cup Given(h)
      /\ r.argv = IF complete THEN h[1] ELSE Null
  BY <1>4, <1>6 DEF WithArguments
<1>8. b \in Record
  <2>1. \A i \in 1 .. 5 : g[i] \in Blocks
    BY <1>1
  <2>2. Null \in Pointers /\ [i \in Indexes |-> Null] \in [Indexes -> Pointers]
    BY DEF Pointers
  <2>3. QED
    BY <1>5, <1>6, <2>1, <2>2 DEF Record
<1> HIDE DEF r
<1>9. \A i \in Indexes : i \in Nat
  BY ProcessConstants DEF Indexes
<1>10. \A i \in 1 .. n : i - 1 \in Indexes /\ (i - 1) + 1 = i
  BY ProcessConstants DEF Indexes
<1>11. Given(h) = {h[i] : i \in 1 .. n}
  BY <1>4 DEF Given
<1>12. Allocated(r) = Given(h)
  <2>1. ASSUME NEW x \in Allocated(r) PROVE x \in Given(h)
    BY <2>1, <1>7, <1>11 DEF Allocated
  <2>2. ASSUME NEW x \in Given(h) PROVE x \in Allocated(r)
    <3>1. PICK i \in 1 .. n : x = h[i]
      BY <1>11
    <3>2. r.allocations[i - 1] = x
      BY <1>7, <1>10, <3>1
    <3>3. x # Null
      BY <1>2, <3>1, ProcessConstants
    <3>4. QED
      BY <1>10, <3>2, <3>3 DEF Allocated
  <2>3. QED
    BY <2>1, <2>2
<1>13. r.allocations \in [Indexes -> Pointers]
  BY <1>2, <1>7 DEF Pointers
<1>14. r.argv \in Pointers
  BY <1>2, <1>7 DEF Pointers
<1>15. Given(h) \subseteq Blocks /\ Given(h) \cap Given(g) = {}
  BY <1>2, <1>11
<1>16. g[1] \in Blocks /\ r \in Record
  <2>1. \A i \in 1 .. 5 : g[i] \in Blocks
    BY <1>1
  <2>2. r.writable \subseteq Blocks
    BY <1>7, <1>15, <2>1
  <2>3. r = [[[b EXCEPT !.allocations = r.allocations] EXCEPT !.writable = r.writable]
               EXCEPT !.argv = r.argv]
    BY <1>4, <1>7, <1>8 DEF r, WithArguments, Record
  <2>4. [b EXCEPT !.allocations = r.allocations] \in Record
    BY <1>8, <1>13 DEF Record
  <2>5. [[b EXCEPT !.allocations = r.allocations] EXCEPT !.writable = r.writable] \in Record
    BY <2>2, <2>4 DEF Record
  <2>6. [[[b EXCEPT !.allocations = r.allocations] EXCEPT !.writable = r.writable]
          EXCEPT !.argv = r.argv] \in Record
    BY <1>14, <2>5 DEF Record
  <2>7. QED
    BY <2>1, <2>3, <2>6
<1>17. \A i, k \in Indexes : r.allocations[i] = r.allocations[k] => i = k \/ r.allocations[i] = Null
  <2>1. SUFFICES ASSUME NEW i \in Indexes, NEW k \in Indexes,
                        r.allocations[i] = r.allocations[k], r.allocations[i] # Null
                 PROVE  i = k
    OBVIOUS
  <2>2. i + 1 \in 1 .. n /\ k + 1 \in 1 .. n /\ h[i + 1] = h[k + 1]
    BY <1>7, <2>1
  <2>3. i + 1 = k + 1
    BY <1>2, <2>2
  <2>4. QED
    BY <1>9, <2>3
<1>18. Own(g[1], r)
  <2>1. {g[1], g[3], g[4], g[5]} \cap Given(h) = {}
    BY <1>3, <1>15
  <2>2. /\ g[1] # g[3] /\ g[1] # g[4] /\ g[1] # g[5]
        /\ g[3] # g[4] /\ g[3] # g[5] /\ g[4] # g[5]
    BY <1>1
  <2>3. QED
    BY <1>7, <1>12, <1>16, <1>17, <2>1, <2>2 DEF Own
<1>19. FreedWith(g[1], r) = (Given(g) \cup Given(h)) \ PathOf(g)
  <2>1. g[2] \notin {g[1], g[3], g[4], g[5]} /\ g[2] \notin Given(h)
    BY <1>1, <1>3, <1>15
  <2>2. Null \notin Given(g) \cup Given(h)
    BY <1>1, <1>3, <1>15, ProcessConstants
  <2>3. QED
    BY <1>3, <1>7, <1>12, <2>1, <2>2 DEF FreedWith
<1>20. QED
  BY <1>5, <1>7, <1>18, <1>19 DEF r, b

------------------------------------------------------------------------------
(* The whole heap.  The struct processes f, the used blocks u and the lost   *)
(* ones l account for each other.                                            *)

Accounts(u, l, f) ==
  /\ u \subseteq Blocks
  /\ \A p \in DOMAIN f : Own(p, f[p]) /\ FreedWith(p, f[p]) \cap l = {}
  /\ \A p, q \in DOMAIN f : p # q => FreedWith(p, f[p]) \cap FreedWith(q, f[q]) = {}
  /\ \A x : x \in u <=> x \in l \/ \E p \in DOMAIN f : x \in FreedWith(p, f[p])

\* The struct processes after a load, a malloc or a free, and an exit.
With(f, p, r) == [q \in DOMAIN f \cup {p} |-> IF q = p THEN r ELSE f[q]]
Changed(f, p, r) == [f EXCEPT ![p] = r]
Without(f, p) == [q \in DOMAIN f \ {p} |-> f[q]]

\* A process holds blocks only, its own struct among them.
LEMMA HoldsBlocks ==
  ASSUME NEW p, NEW r, Own(p, r)
  PROVE  p \in FreedWith(p, r) /\ FreedWith(p, r) \subseteq Blocks
<1>1. Allocated(r) \subseteq Blocks
  BY DEF Own, Record, Allocated, Pointers
<1>2. QED
  BY <1>1, ProcessConstants DEF Own, Record, FreedWith

\* A load that succeeds adds a process, and a path that is lost.
LEMMA AddProcess ==
  ASSUME NEW u, NEW l, NEW f, Accounts(u, l, f), NEW p, NEW r, Own(p, r),
         FreedWith(p, r) \cap u = {},
         NEW path, path \subseteq Blocks \ u, path \cap FreedWith(p, r) = {}
  PROVE  /\ p \notin DOMAIN f
         /\ Accounts(u \cup FreedWith(p, r) \cup path, l \cup path, With(f, p, r))
<1> DEFINE e == With(f, p, r)
           v == u \cup FreedWith(p, r) \cup path
           m == l \cup path
<1>1. p \in FreedWith(p, r) /\ FreedWith(p, r) \subseteq Blocks
  BY HoldsBlocks
<1>2. \A q \in DOMAIN f : q \in u
  BY HoldsBlocks DEF Accounts
<1>3. p \notin DOMAIN f
  BY <1>1, <1>2
<1>4. DOMAIN e = DOMAIN f \cup {p} /\ e[p] = r /\ \A q \in DOMAIN f : e[q] = f[q]
  BY <1>3 DEF With
<1> HIDE DEF e
<1>5. l \subseteq u /\ \A q \in DOMAIN f : FreedWith(q, f[q]) \subseteq u
  BY DEF Accounts
<1>6. v \subseteq Blocks
  BY <1>1 DEF Accounts
<1>7. \A q \in DOMAIN e : Own(q, e[q]) /\ FreedWith(q, e[q]) \cap m = {}
  BY <1>4, <1>5 DEF Accounts
<1>8. \A q, o \in DOMAIN e : q # o => FreedWith(q, e[q]) \cap FreedWith(o, e[o]) = {}
  BY <1>4, <1>5 DEF Accounts
<1>9. \A x : x \in v <=> x \in m \/ \E q \in DOMAIN e : x \in FreedWith(q, e[q])
  BY <1>4 DEF Accounts
<1>10. Accounts(v, m, e)
  BY <1>6, <1>7, <1>8, <1>9 DEF Accounts
<1>11. QED
  BY <1>3, <1>10 DEF e

\* A malloc or a free changes what one process holds.
LEMMA ChangeProcess ==
  ASSUME NEW u, NEW l, NEW f, Accounts(u, l, f), NEW p \in DOMAIN f, NEW r, Own(p, r),
         FreedWith(p, r) \cap (u \ FreedWith(p, f[p])) = {}
  PROVE  Accounts((u \ FreedWith(p, f[p])) \cup FreedWith(p, r), l, Changed(f, p, r))
<1> DEFINE e == Changed(f, p, r)
           v == (u \ FreedWith(p, f[p])) \cup FreedWith(p, r)
<1>1. FreedWith(p, r) \subseteq Blocks
  BY HoldsBlocks
<1>2. DOMAIN e = DOMAIN f /\ e[p] = r /\ \A q \in DOMAIN f \ {p} : e[q] = f[q]
  BY DEF Changed
<1> HIDE DEF e
<1>3. \A q \in DOMAIN f \ {p} : FreedWith(q, f[q]) \subseteq u \ FreedWith(p, f[p])
  BY DEF Accounts
<1>4. l \subseteq u \ FreedWith(p, f[p])
  BY DEF Accounts
<1>5. v \subseteq Blocks
  BY <1>1 DEF Accounts
<1>6. \A q \in DOMAIN e : Own(q, e[q]) /\ FreedWith(q, e[q]) \cap l = {}
  BY <1>2, <1>4 DEF Accounts
<1>7. \A q, o \in DOMAIN e : q # o => FreedWith(q, e[q]) \cap FreedWith(o, e[o]) = {}
  BY <1>2, <1>3 DEF Accounts
<1>8. \A x : x \in v <=> x \in l \/ \E q \in DOMAIN e : x \in FreedWith(q, e[q])
  BY <1>2, <1>3, <1>4 DEF Accounts
<1>9. QED
  BY <1>5, <1>6, <1>7, <1>8 DEF Accounts, e

\* An exit gives back all that the process held (process.c:190-211).
LEMMA RemoveProcess ==
  ASSUME NEW u, NEW l, NEW f, Accounts(u, l, f), NEW p \in DOMAIN f
  PROVE  Accounts(u \ FreedWith(p, f[p]), l, Without(f, p))
<1> DEFINE e == Without(f, p)
<1>1. DOMAIN e = DOMAIN f \ {p} /\ \A q \in DOMAIN e : e[q] = f[q]
  BY DEF Without
<1> HIDE DEF e
<1>2. \A q \in DOMAIN e : FreedWith(q, f[q]) \cap FreedWith(p, f[p]) = {}
  BY <1>1 DEF Accounts
<1>3. l \cap FreedWith(p, f[p]) = {}
  BY DEF Accounts
<1>4. QED
  BY <1>1, <1>2, <1>3 DEF Accounts, e

\* A failed load loses a path at the most.
LEMMA LosePath ==
  ASSUME NEW u, NEW l, NEW f, Accounts(u, l, f), NEW path, path \subseteq Blocks \ u
  PROVE  Accounts(u \cup path, l \cup path, f)
BY DEF Accounts

------------------------------------------------------------------------------
(* The inductive invariant.  SlotsHoldTheLiving is inductive only with the   *)
(* boot, which runs the process of slot 0 (kernel.c: task_run_first_ever_    *)
(* task): the first process to be loaded is there.                           *)

Types ==
  /\ processes \in [Slots -> Pointers]
  /\ current_process \in Pointers /\ running \in Pointers
  /\ phase \in {"boot", "run", "panic", "lost"}
  /\ stray = Nothing \/ stray \in {{ptr} : ptr \in Pointers}

SlotsAndFront ==
  /\ \A p \in Live : processes[proc[p].id] = p
  /\ \A s \in Slots : processes[s] # Null => processes[s] \in Live /\ proc[processes[s]].id = s
  /\ Live # {} => current_process \in Live

SlotsInUse ==
  /\ phase # "panic" => SlotsAndFront
  /\ phase = "run" => running \in Live
  /\ phase = "boot" /\ Live # {} => processes[0] # Null

IInv == Types /\ Accounts(used, lost, proc) /\ SlotsInUse

LEMMA InitIInv == Init => IInv
<1> SUFFICES ASSUME Init PROVE IInv
  OBVIOUS
<1>1. Live = {}
  BY DEF Init, Live
<1>2. Types
  BY DEF Init, Types, Pointers, Nothing
<1>3. Accounts(used, lost, proc)
  BY DEF Init, Accounts
<1>4. SlotsInUse
  BY <1>1 DEF Init, SlotsInUse, SlotsAndFront
<1>5. QED
  BY <1>2, <1>3, <1>4 DEF IInv

\* A load that succeeds, with any of its arguments (process.c:494-549).
LEMMA LoadedStep ==
  ASSUME IInv, phase # "panic",
         NEW g \in LoadGrants(used, 5), NEW n \in Nat, n <= MaxAllocs,
         NEW h \in [1 .. n -> Blocks \ (used \cup Given(g))], Apart(h),
         NEW complete \in BOOLEAN, complete => n > 0,
         Loaded(g, h, complete)
  PROVE  /\ Accounts(used', lost', proc')
         /\ processes' \in [Slots -> Pointers]
         /\ g[1] \in Live' \ Live /\ g[1] \in Pointers /\ Live \subseteq Live'
         /\ current_process' = g[1]
         /\ SlotsAndFront'
         /\ (Live = {} \/ processes[0] # Null) => processes'[0] # Null
<1> DEFINE p == g[1]
           r == WithArguments(Built(g), h, complete)
           path == PathOf(g)
<1>1. /\ Accounts(used, lost, proc) /\ SlotsAndFront
      /\ processes \in [Slots -> Pointers]
  BY DEF IInv, SlotsInUse, Types
<1>2. /\ FreeSlots # {}
      /\ processes' = [processes EXCEPT ![Built(g).id] = p]
      /\ proc' = [q \in Live \cup {p} |-> IF q = p THEN r ELSE proc[q]]
      /\ used' = used \cup Given(g) \cup Given(h)
      /\ lost' = lost \cup path
      /\ current_process' = p
  BY DEF Loaded
<1>3. /\ Own(p, r) /\ FreedWith(p, r) = (Given(g) \cup Given(h)) \ path
      /\ r.id = FirstOf(FreeSlots) /\ FirstOf(FreeSlots) \in FreeSlots
  BY <1>2, LoadedOwns
<1>4. /\ g \in [1 .. 5 -> Blocks \ used]
      /\ h \in [1 .. n -> Blocks \ (used \cup Given(g))]
  BY DEF LoadGrants, Granted
<1>5. /\ Given(g) \cap used = {} /\ Given(h) \cap used = {}
      /\ Given(g) \cup Given(h) \subseteq Blocks
      /\ path \subseteq Given(g)
  BY <1>4 DEF Given, PathOf
<1>6. used' = used \cup FreedWith(p, r) \cup path
  BY <1>2, <1>3, <1>5
<1>8. Built(g).id = r.id
  BY DEF WithArguments, Built
<1> HIDE DEF p, r, path
<1>7. p \notin Live /\ Accounts(used', lost', proc')
  <2>1. FreedWith(p, r) \cap used = {} /\ path \subseteq Blocks \ used /\ path \cap FreedWith(p, r) = {}
    BY <1>3, <1>5
  <2>2. /\ p \notin DOMAIN proc
        /\ Accounts(used \cup FreedWith(p, r) \cup path, lost \cup path, With(proc, p, r))
    BY <1>1, <1>3, <2>1, AddProcess
  <2>3. proc' = With(proc, p, r)
    BY <1>2 DEF With, Live
  <2>4. QED
    BY <1>2, <1>6, <2>2, <2>3 DEF Live
<1>9. r.id \in Slots /\ processes[r.id] = Null
  BY <1>3 DEF FreeSlots
<1>10. p \in Blocks /\ p # Null /\ p \in Pointers
  BY <1>3, ProcessConstants DEF Own, Pointers
<1>11. Live' = Live \cup {p} /\ proc'[p] = r /\ \A q \in Live : proc'[q] = proc[q]
  BY <1>2, <1>7 DEF Live
<1>12. /\ processes' \in [Slots -> Pointers] /\ processes'[r.id] = p
       /\ \A s \in Slots : s # r.id => processes'[s] = processes[s]
  BY <1>1, <1>2, <1>8, <1>9, <1>10
<1>13. SlotsAndFront'
  <2>1. \A q \in Live : proc[q].id # r.id /\ proc[q].id \in Slots
    <3>1. SUFFICES ASSUME NEW q \in Live PROVE proc[q].id # r.id /\ proc[q].id \in Slots
      OBVIOUS
    <3>2. Own(q, proc[q])
      BY <1>1 DEF Accounts, Live
    <3>3. q # Null /\ proc[q].id \in Slots
      BY <3>2, ProcessConstants DEF Own, Record
    <3>4. QED
      BY <1>1, <1>9, <3>3 DEF SlotsAndFront
  <2>2. \A q \in Live' : processes'[proc'[q].id] = q
    BY <1>1, <1>11, <1>12, <2>1 DEF SlotsAndFront
  <2>3. \A s \in Slots : processes'[s] # Null =>
          processes'[s] \in Live' /\ proc'[processes'[s]].id = s
    BY <1>1, <1>11, <1>12 DEF SlotsAndFront
  <2>4. current_process' \in Live'
    BY <1>2, <1>11
  <2>5. QED
    BY <2>2, <2>3, <2>4 DEF SlotsAndFront
<1>14. (Live = {} \/ processes[0] # Null) => processes'[0] # Null
  <2>1. 0 \in Slots
    BY ProcessConstants DEF Slots
  <2>2. CASE processes[0] # Null
    BY <1>9, <1>12, <2>1, <2>2
  <2>3. CASE Live = {} /\ processes[0] = Null
    <3>1. 0 \in FreeSlots /\ FreeSlots \subseteq Nat
      BY <2>1, <2>3, ProcessConstants DEF FreeSlots, Slots
    <3>2. FirstOf(FreeSlots) <= 0 /\ FirstOf(FreeSlots) \in Nat
      BY <3>1, FirstIsLeast
    <3>3. r.id = 0
      BY <1>3, <3>2
    <3>4. QED
      BY <1>10, <1>12, <3>3
  <2>4. QED
    BY <2>2, <2>3
<1>15. QED
  BY <1>2, <1>7, <1>10, <1>11, <1>12, <1>13, <1>14 DEF p

LEMMA BootKeepsIInv == IInv /\ Boot => IInv'
<1> SUFFICES ASSUME IInv, Boot PROVE IInv'
  OBVIOUS
<1>1. PICK g \in LoadGrants(used, 5), n \in 0 .. 2 :
        n <= MaxAllocs /\ \E h \in Grants(used \cup Given(g), n) : Loaded(g, h, n = 2)
  BY DEF Boot
<1>2. PICK h \in Grants(used \cup Given(g), n) : Loaded(g, h, n = 2)
  BY <1>1
<1>3. n \in Nat /\ n <= MaxAllocs /\ (n = 2) \in BOOLEAN /\ ((n = 2) => n > 0)
  BY <1>1
<1>0. h \in [1 .. n -> Blocks \ (used \cup Given(g))] /\ Apart(h)
  BY DEF Grants, Granted
<1>4. phase = "boot" /\ phase' = phase /\ running' = running /\ stray' = Nothing
  BY DEF Boot
<1>5. /\ Accounts(used', lost', proc')
      /\ processes' \in [Slots -> Pointers]
      /\ g[1] \in Pointers /\ current_process' = g[1]
      /\ SlotsAndFront'
      /\ (Live = {} \/ processes[0] # Null) => processes'[0] # Null
  BY <1>0, <1>2, <1>3, <1>4, LoadedStep
<1>6. Types'
  BY <1>4, <1>5 DEF IInv, Types
<1>7. SlotsInUse'
  BY <1>4, <1>5 DEF IInv, SlotsInUse
<1>8. QED
  BY <1>5, <1>6, <1>7 DEF IInv

LEMMA LoadStartKeepsIInv == IInv /\ LoadStart => IInv'
<1> SUFFICES ASSUME IInv, LoadStart PROVE IInv'
  OBVIOUS
<1>1. PICK g \in LoadGrants(used, 5) : Loaded(g, <<>>, FALSE) /\ running' = g[1]
  BY DEF LoadStart
<1>2. phase = "run" /\ phase' = "run" /\ stray' = Nothing
  BY DEF LoadStart
<1>3. <<>> \in [1 .. 0 -> Blocks \ (used \cup Given(g))] /\ Apart(<<>>)
  BY DEF Apart
<1>4. /\ Accounts(used', lost', proc')
      /\ processes' \in [Slots -> Pointers]
      /\ g[1] \in Live' /\ g[1] \in Pointers
      /\ current_process' = g[1]
      /\ SlotsAndFront'
  <2>1. 0 \in Nat /\ 0 <= MaxAllocs /\ FALSE \in BOOLEAN
    BY ProcessConstants
  <2>2. QED
    BY <1>1, <1>2, <1>3, <2>1, LoadedStep
<1>5. Types'
  BY <1>1, <1>2, <1>4 DEF IInv, Types
<1>6. SlotsInUse'
  BY <1>1, <1>2, <1>4 DEF IInv, SlotsInUse
<1>7. QED
  BY <1>4, <1>5, <1>6 DEF IInv

LEMMA SystemCommandKeepsIInv ==
  ASSUME NEW words \in 1 .. MaxArguments, IInv, SystemCommand(words) PROVE IInv'
<1>1. PICK g \in LoadGrants(used, 5), n \in 0 .. words + 1 :
        /\ n <= MaxAllocs
        /\ \E h \in Grants(used \cup Given(g), n) :
             /\ Loaded(g, h, n = words + 1)
             /\ running' = IF n = words + 1 THEN g[1] ELSE running
  BY DEF SystemCommand
<1>2. PICK h \in Grants(used \cup Given(g), n) :
        /\ Loaded(g, h, n = words + 1)
        /\ running' = IF n = words + 1 THEN g[1] ELSE running
  BY <1>1
<1>3. n \in Nat /\ n <= MaxAllocs /\ (n = words + 1) \in BOOLEAN /\ ((n = words + 1) => n > 0)
  BY <1>1, ProcessConstants
<1>0. h \in [1 .. n -> Blocks \ (used \cup Given(g))] /\ Apart(h)
  BY DEF Grants, Granted
<1>4. phase = "run" /\ phase' = "run" /\ stray' = Nothing
  BY DEF SystemCommand
<1>5. /\ Accounts(used', lost', proc')
      /\ processes' \in [Slots -> Pointers]
      /\ g[1] \in Live' /\ g[1] \in Pointers /\ Live \subseteq Live'
      /\ current_process' = g[1]
      /\ SlotsAndFront'
  BY <1>0, <1>2, <1>3, <1>4, LoadedStep
<1>6. running' \in Live' /\ running' \in Pointers
  BY <1>2, <1>4, <1>5 DEF IInv, Types, SlotsInUse
<1>7. Types'
  BY <1>4, <1>5, <1>6 DEF IInv, Types
<1>8. SlotsInUse'
  BY <1>4, <1>5, <1>6 DEF IInv, SlotsInUse
<1>9. QED
  BY <1>5, <1>7, <1>8 DEF IInv

\* A load that fails loses its path, if it came that far, and nothing more.
LEMMA FailedLoadLosesPath ==
  ASSUME used \subseteq Blocks, LoadFails
  PROVE  \E path \in SUBSET (Blocks \ used) :
           /\ used' = used \cup path /\ lost' = lost \cup path
           /\ path = {} \/ \E x : path = {x}
<1>1. PICK k \in {0, 1, 2, 3, 5} : \E g \in LoadGrants(used, k) :
        /\ used' = (used \cup Given(g)) \ IF k = 0 THEN {} ELSE FreedWith(g[1], Built(g))
        /\ lost' = lost \cup PathOf(g)
  BY DEF LoadFails
<1>2. PICK g \in LoadGrants(used, k) :
        /\ used' = (used \cup Given(g)) \ IF k = 0 THEN {} ELSE FreedWith(g[1], Built(g))
        /\ lost' = lost \cup PathOf(g)
  BY <1>1
<1>3. PathOf(g) \subseteq Blocks \ used /\ used' = used \cup PathOf(g)
  <2>1. CASE k = 0
    <3>1. g \in [1 .. 0 -> Blocks \ used]
      BY <2>1 DEF LoadGrants, Granted
    <3>2. Given(g) = {} /\ PathOf(g) = {}
      BY <3>1 DEF Given, PathOf
    <3>3. QED
      BY <1>2, <2>1, <3>2
  <2>2. CASE k # 0
    <3>1. k \in {1, 2, 3, 5}
      BY <2>2
    <3>2. QED
      BY <1>2, <2>2, <3>1, FailedLoadGivesBack
  <2>3. QED
    BY <2>1, <2>2
<1>4. PathOf(g) = {} \/ \E x : PathOf(g) = {x}
  BY DEF PathOf
<1>5. QED
  BY <1>2, <1>3, <1>4

LEMMA LoadFailsKeepsIInv == IInv /\ LoadFails => IInv'
<1> SUFFICES ASSUME IInv, LoadFails PROVE IInv'
  OBVIOUS
<1>1. PICK path \in SUBSET (Blocks \ used) : used' = used \cup path /\ lost' = lost \cup path
  BY FailedLoadLosesPath DEF IInv, Accounts
<1>2. UNCHANGED <<processes, proc, current_process, running, phase>> /\ stray' = Nothing
  BY DEF LoadFails
<1>3. Accounts(used', lost', proc')
  BY <1>1, <1>2, LosePath DEF IInv
<1>4. Types' /\ SlotsInUse'
  BY <1>2 DEF IInv, Types, SlotsInUse, SlotsAndFront, Live
<1>5. QED
  BY <1>3, <1>4 DEF IInv

\* What a malloc or a free of the running process changes, but for the heap.
LEMMA SameSlots ==
  ASSUME IInv, phase = "run", NEW r, r.id = proc[running].id,
         proc' = [proc EXCEPT ![running] = r],
         UNCHANGED <<processes, current_process, running, phase>>,
         stray' = Nothing \/ stray' \in {{ptr} : ptr \in Pointers}
  PROVE  Types' /\ SlotsInUse'
<1>1. Live' = Live /\ \A q \in Live : proc'[q].id = proc[q].id
  BY DEF Live
<1>2. SlotsAndFront'
  BY <1>1 DEF IInv, SlotsInUse, SlotsAndFront
<1>3. QED
  BY <1>1, <1>2 DEF IInv, Types, SlotsInUse

LEMMA MallocKeepsIInv == IInv /\ Malloc => IInv'
<1> SUFFICES ASSUME IInv, Malloc PROVE IInv'
  OBVIOUS
<1>1. PICK g \in Grants(used, 1) :
        /\ used' = used \cup {g[1]}
        /\ proc' = [proc EXCEPT ![running] = WithBlock(@, g[1])]
  BY DEF Malloc
<1>2. /\ phase = "run" /\ FreeIndexes(proc[running]) # {} /\ stray' = Nothing
      /\ UNCHANGED <<lost, processes, current_process, running, phase>>
  BY DEF Malloc
<1> DEFINE p == running
           r == WithBlock(proc[p], g[1])
<1>3. running \in Live /\ Accounts(used, lost, proc)
  BY <1>2 DEF IInv, SlotsInUse
<1>4. g[1] \in Blocks \ used
  BY DEF Grants, Granted
<1>5. Own(p, proc[p]) /\ FreedWith(p, proc[p]) \subseteq used
  BY <1>3 DEF Accounts, Live
<1>6. Own(p, r) /\ FreedWith(p, r) = FreedWith(p, proc[p]) \cup {g[1]}
  BY <1>2, <1>4, <1>5, WithBlockOwns
<1>7. r.id = proc[p].id
  BY <1>5 DEF WithBlock, Own, Record
<1> HIDE DEF r
<1>8. proc' = Changed(proc, p, r)
  BY <1>1 DEF Changed, r
<1>9. Accounts(used', lost', proc')
  <2>1. FreedWith(p, r) \cap (used \ FreedWith(p, proc[p])) = {}
    BY <1>4, <1>6
  <2>2. Accounts((used \ FreedWith(p, proc[p])) \cup FreedWith(p, r), lost, Changed(proc, p, r))
    BY <1>3, <1>6, <2>1, ChangeProcess DEF Live
  <2>3. (used \ FreedWith(p, proc[p])) \cup FreedWith(p, r) = used'
    BY <1>1, <1>5, <1>6
  <2>4. QED
    BY <1>2, <1>8, <2>2, <2>3
<1>10. Types' /\ SlotsInUse'
  BY <1>2, <1>7, <1>8, SameSlots DEF Changed
<1>11. QED
  BY <1>9, <1>10 DEF IInv

LEMMA FreeKeepsIInv == ASSUME NEW ptr \in Pointers, IInv, Free(ptr) PROVE IInv'
<1> DEFINE p == running
           r == WithoutBlock(proc[p], ptr)
<1>1. /\ phase = "run"
      /\ UNCHANGED <<lost, processes, current_process, running, phase>>
  BY DEF Free
<1>2. running \in Live /\ Accounts(used, lost, proc)
  BY <1>1 DEF IInv, SlotsInUse
<1>3. CASE \E i \in Indexes : proc[p].allocations[i] = ptr
  <2>1. /\ proc' = [proc EXCEPT ![p] = r]
        /\ used' = used \ {ptr}
        /\ stray' = {ptr} \ used
    BY <1>3 DEF Free
  <2>2. Own(p, proc[p]) /\ FreedWith(p, proc[p]) \subseteq used
    BY <1>2 DEF Accounts, Live
  <2>3. /\ Own(p, r) /\ FreedWith(p, r) = FreedWith(p, proc[p]) \ {ptr}
        /\ ptr # Null => ptr \in FreedWith(p, proc[p])
    BY <1>3, <2>2, WithoutBlockOwns
  <2>4. r.id = proc[p].id
    BY <2>2 DEF WithoutBlock, Own, Record
  <2>5. stray' = Nothing \/ stray' \in {{x} : x \in Pointers}
    BY <2>1 DEF Nothing
  <2> HIDE DEF r
  <2>6. proc' = Changed(proc, p, r)
    BY <2>1 DEF Changed
  <2>7. Null \notin used
    BY <1>2, ProcessConstants DEF Accounts
  <2>8. Accounts(used', lost', proc')
    <3>1. FreedWith(p, r) \cap (used \ FreedWith(p, proc[p])) = {}
      BY <2>3
    <3>2. Accounts((used \ FreedWith(p, proc[p])) \cup FreedWith(p, r), lost, Changed(proc, p, r))
      BY <1>2, <2>3, <3>1, ChangeProcess DEF Live
    <3>3. (used \ FreedWith(p, proc[p])) \cup FreedWith(p, r) = used'
      BY <2>1, <2>2, <2>3, <2>7
    <3>4. QED
      BY <1>1, <2>6, <3>2, <3>3
  <2>9. Types' /\ SlotsInUse'
    BY <1>1, <2>1, <2>4, <2>5, SameSlots
  <2>10. QED
    BY <2>8, <2>9 DEF IInv
<1>4. CASE ~ \E i \in Indexes : proc[p].allocations[i] = ptr
  <2>1. stray' = Nothing /\ UNCHANGED <<proc, used>>
    BY <1>4 DEF Free
  <2>2. Accounts(used', lost', proc')
    BY <1>1, <1>2, <2>1
  <2>3. Types' /\ SlotsInUse'
    BY <1>1, <2>1 DEF IInv, Types, SlotsInUse, SlotsAndFront, Live
  <2>4. QED
    BY <2>2, <2>3 DEF IInv
<1>5. QED
  BY <1>3, <1>4

\* Where an exit that is survived leaves the slots and the foreground
\* (process_unlink and process_switch_to_any, process.c:168-188).
LEMMA SlotsAfterExit ==
  ASSUME IInv, phase = "run",
         NEW left, left = [processes EXCEPT ![proc[running].id] = Null],
         processes' = left,
         ~ (current_process = running /\ \A s \in Slots : left[s] = Null),
         current_process' = Front(running, left),
         proc' = Without(proc, running)
  PROVE  /\ SlotsAndFront' /\ Live' = Live \ {running}
         /\ processes' \in [Slots -> Pointers] /\ current_process' \in Live'
<1> DEFINE p == running
<1>1. /\ running \in Live /\ SlotsAndFront /\ processes \in [Slots -> Pointers]
      /\ Accounts(used, lost, proc)
  BY DEF IInv, Types, SlotsInUse
<1>2. Live' = Live \ {p} /\ \A q \in Live' : proc'[q] = proc[q]
  BY DEF Live, Without
<1>3. \A q \in Live : Own(q, proc[q])
  BY <1>1 DEF Accounts, Live
<1>4. \A q \in Live : proc[q].id \in Slots /\ q \in Pointers /\ q # Null
  BY <1>3, ProcessConstants DEF Own, Record, Pointers
<1>5. left \in [Slots -> Pointers]
  BY <1>1 DEF Pointers
<1>6. \A s \in Slots : left[s] = IF s = proc[p].id THEN Null ELSE processes[s]
  BY <1>1, <1>4
<1>7. \A q \in Live' : proc[q].id # proc[p].id
  BY <1>1, <1>2 DEF SlotsAndFront
<1>8. \A q \in Live' : processes'[proc'[q].id] = q
  BY <1>1, <1>2, <1>4, <1>6, <1>7 DEF SlotsAndFront
<1>9. \A s \in Slots : left[s] # Null => left[s] \in Live' /\ proc'[left[s]].id = s
  BY <1>1, <1>2, <1>6 DEF SlotsAndFront
<1>10. current_process' \in Live'
  <2>1. CASE current_process = p
    <3> DEFINE rest == {s \in Slots : left[s] # Null}
    <3>1. rest # {} /\ rest \subseteq Nat
      BY <2>1, ProcessConstants DEF Slots
    <3>2. FirstOf(rest) \in rest
      BY <3>1, FirstIsLeast
    <3>3. current_process' = left[FirstOf(rest)]
      BY <2>1 DEF Front
    <3>4. QED
      BY <1>9, <3>2, <3>3
  <2>2. CASE current_process # p
    BY <1>1, <1>2, <2>2 DEF SlotsAndFront, Front
  <2>3. QED
    BY <2>1, <2>2
<1>11. SlotsAndFront'
  BY <1>8, <1>9, <1>10 DEF SlotsAndFront
<1>12. QED
  BY <1>2, <1>5, <1>10, <1>11

LEMMA TerminateKeepsIInv == IInv /\ Terminate => IInv'
<1> SUFFICES ASSUME IInv, Terminate PROVE IInv'
  OBVIOUS
<1> DEFINE p == running
           left == [processes EXCEPT ![proc[p].id] = Null]
<1>1. phase = "run" /\ stray' = Nothing /\ processes' = left /\ UNCHANGED lost
  BY DEF Terminate
<1>2. running \in Live /\ Accounts(used, lost, proc) /\ running \in Pointers
  BY <1>1 DEF IInv, SlotsInUse, Types
<1>3. CASE current_process = p /\ \A s \in Slots : left[s] = Null
  <2>1. phase' = "panic" /\ UNCHANGED <<used, proc, current_process, running>>
    BY <1>3 DEF Terminate
  <2>2. left \in [Slots -> Pointers]
    BY DEF IInv, Types, Pointers
  <2>3. Types'
    BY <1>1, <2>1, <2>2 DEF IInv, Types
  <2>4. Accounts(used', lost', proc')
    BY <1>1, <1>2, <2>1
  <2>5. SlotsInUse'
    BY <2>1 DEF SlotsInUse
  <2>6. QED
    BY <2>3, <2>4, <2>5 DEF IInv
<1>4. CASE ~ (current_process = p /\ \A s \in Slots : left[s] = Null)
  <2>1. /\ current_process' = Front(p, left)
        /\ used' = used \ FreedWith(p, proc[p])
        /\ proc' = [q \in Live \ {p} |-> proc[q]]
        /\ running' \in Live \ {p}
        /\ phase' = phase
    BY <1>4 DEF Terminate
  <2>2. proc' = Without(proc, p)
    BY <2>1 DEF Without, Live
  <2>3. Accounts(used', lost', proc')
    BY <1>1, <1>2, <2>1, <2>2, RemoveProcess DEF Live
  <2> HIDE DEF left
  <2>4. /\ SlotsAndFront' /\ Live' = Live \ {p}
        /\ processes' \in [Slots -> Pointers] /\ current_process' \in Live'
    BY <1>1, <1>4, <2>1, <2>2, SlotsAfterExit DEF left
  <2>5. \A q \in Live : q \in Pointers
    BY <1>2 DEF Accounts, Live, Own, Pointers
  <2>6. Types'
    BY <1>1, <2>1, <2>4, <2>5 DEF IInv, Types
  <2>7. SlotsInUse'
    BY <1>1, <2>1, <2>4 DEF SlotsInUse
  <2>8. QED
    BY <2>3, <2>6, <2>7 DEF IInv
<1>5. QED
  BY <1>3, <1>4

\* The steps after which nothing is known.
GoesWrong == LoadGoesWrong \/ MallocOfNothing \/ NameTooLong

LEMMA OthersKeepIInv ==
  IInv /\ (BootFails \/ RunFirstEverTask \/ GoesWrong \/ MallocFails \/ Tick) => IInv'
<1> SUFFICES ASSUME IInv,
                    BootFails \/ RunFirstEverTask \/ GoesWrong \/ MallocFails \/ Tick
             PROVE  IInv'
  OBVIOUS
<1>1. UNCHANGED <<used, lost, processes, proc, current_process>> /\ stray' = Nothing
  <2>1. CASE MallocFails
    <3>1. PICK g \in Grants(used, 1) : used' = (used \cup {g[1]}) \ {g[1]}
      BY <2>1 DEF MallocFails
    <3>2. g[1] \notin used
      BY DEF Grants, Granted
    <3>3. QED
      BY <2>1, <3>1, <3>2 DEF MallocFails
  <2>2. QED
    BY <2>1 DEF BootFails, RunFirstEverTask, GoesWrong, LoadGoesWrong, MallocOfNothing,
                NameTooLong, Tick, table
<1>2. Accounts(used', lost', proc')
  BY <1>1 DEF IInv
<1>3. Live' = Live /\ \A q \in Live : q \in Pointers
  BY <1>1 DEF IInv, Accounts, Live, Own, Pointers
<1>4. /\ phase' \in {"boot", "run", "panic", "lost"} /\ running' \in Pointers
      /\ phase = "panic" => phase' = "panic"
      /\ phase' = "run" => running' \in Live
      /\ phase' = "boot" => phase = "boot"
  <2>1. CASE BootFails
    BY <2>1 DEF BootFails, IInv, Types
  <2>2. CASE RunFirstEverTask
    <3>1. phase = "boot" /\ Cardinality(Live) = 2 /\ running' = processes[0] /\ phase' = "run"
      BY <2>2 DEF RunFirstEverTask
    <3>2. Live # {}
      BY <3>1, FS_EmptySet
    <3>3. 0 \in Slots
      BY ProcessConstants DEF Slots
    <3>4. processes[0] \in Live
      BY <3>1, <3>2, <3>3 DEF IInv, SlotsInUse, SlotsAndFront
    <3>5. QED
      BY <1>3, <3>1, <3>4
  <2>3. CASE GoesWrong
    BY <2>3 DEF GoesWrong, LoadGoesWrong, MallocOfNothing, NameTooLong, IInv, Types
  <2>4. CASE MallocFails
    BY <2>4 DEF MallocFails, IInv, Types, SlotsInUse
  <2>5. CASE Tick
    BY <1>3, <2>5 DEF Tick, IInv, Types
  <2>6. QED
    BY <2>1, <2>2, <2>3, <2>4, <2>5
<1>5. Types'
  BY <1>1, <1>4 DEF IInv, Types
<1>6. SlotsInUse'
  BY <1>1, <1>3, <1>4 DEF IInv, SlotsInUse, SlotsAndFront
<1>7. QED
  BY <1>2, <1>5, <1>6 DEF IInv

LEMMA NextKeepsIInv == IInv /\ [Next]_vars => IInv'
<1> SUFFICES ASSUME IInv, [Next]_vars PROVE IInv'
  OBVIOUS
<1>1. CASE UNCHANGED vars
  BY <1>1 DEF vars, table, IInv, Types, SlotsInUse, SlotsAndFront, Live
<1>2. CASE Boot
  BY <1>2, BootKeepsIInv
<1>3. CASE LoadStart
  BY <1>3, LoadStartKeepsIInv
<1>4. CASE LoadFails
  BY <1>4, LoadFailsKeepsIInv
<1>5. ASSUME NEW words \in 1 .. MaxArguments, SystemCommand(words) PROVE IInv'
  BY <1>5, SystemCommandKeepsIInv
<1>6. CASE Malloc
  BY <1>6, MallocKeepsIInv
<1>7. ASSUME NEW ptr \in Pointers, Free(ptr) PROVE IInv'
  BY <1>7, FreeKeepsIInv
<1>8. CASE Terminate
  BY <1>8, TerminateKeepsIInv
<1>9. CASE BootFails \/ RunFirstEverTask \/ GoesWrong \/ MallocFails \/ Tick
  BY <1>9, OthersKeepIInv
<1>10. QED
  BY <1>1, <1>2, <1>3, <1>4, <1>5, <1>6, <1>7, <1>8, <1>9 DEF Next, GoesWrong

\* The inductive invariant holds in every state.
THEOREM ProcessInvariant == Spec => []IInv
<1>1. Init => IInv
  BY InitIInv
<1>2. IInv /\ [Next]_vars => IInv'
  BY NextKeepsIInv
<1>3. QED
  BY <1>1, <1>2, PTL DEF Spec

------------------------------------------------------------------------------
(* What the invariant says of the properties the runs check.                 *)

\* The variables have the types of process.h.
THEOREM TypeCorrect == Spec => []TypeOK
<1>1. IInv => TypeOK
  <2> SUFFICES ASSUME IInv PROVE TypeOK
    OBVIOUS
  <2>1. \A p \in Live : p \in Blocks /\ proc[p] \in Record
    BY DEF IInv, Accounts, Own, Live
  <2>2. lost \subseteq used /\ used \subseteq Blocks
    BY DEF IInv, Accounts
  <2>3. QED
    BY <2>1, <2>2 DEF IInv, Types, TypeOK, Record
<1>2. QED
  BY <1>1, ProcessInvariant, PTL

\* No block is lost but those of the paths fopen forgets, and none has two owners
\* (process.c:59-92, 119-166, 190-211 and 494-564).
THEOREM MemoryIsAccounted == Spec => []MemoryAccounted
<1>1. IInv => MemoryAccounted
  <2> SUFFICES ASSUME IInv PROVE MemoryAccounted
    OBVIOUS
  <2>1. /\ \A p \in Live : Held(p) \cap lost = {}
        /\ \A p, q \in Live : p # q => Held(p) \cap Held(q) = {}
        /\ \A x : x \in used <=> x \in lost \/ \E p \in Live : x \in Held(p)
    BY DEF IInv, Accounts, Live, Held
  <2>2. used = lost \cup UNION {Held(p) : p \in Live}
    BY <2>1
  <2>3. ASSUME NEW p \in Live
        PROVE  /\ Apart(Holdings(p))
               /\ Given(Holdings(p)) \cap Allocated(proc[p]) = {}
               /\ \A i, k \in Indexes : proc[p].allocations[i] = proc[p].allocations[k] =>
                    i = k \/ proc[p].allocations[i] = Null
    <3>1. Own(p, proc[p])
      BY DEF IInv, Accounts, Live
    <3>2. /\ DOMAIN Holdings(p) = 1 .. 4
          /\ Holdings(p)[1] = p /\ Holdings(p)[2] = proc[p].ptr
          /\ Holdings(p)[3] = proc[p].stack /\ Holdings(p)[4] = proc[p].task
      BY DEF Holdings
    <3>3. Given(Holdings(p)) = {p, proc[p].ptr, proc[p].stack, proc[p].task}
      BY <3>2 DEF Given
    <3>4. Apart(Holdings(p))
      BY <3>1, <3>2 DEF Apart, Own
    <3>5. QED
      BY <3>1, <3>3, <3>4 DEF Own
  <2>4. QED
    BY <2>1, <2>2, <2>3 DEF MemoryAccounted
<1>2. QED
  BY <1>1, ProcessInvariant, PTL

\* A process may write its own blocks and no others (process.c:59-92, 285-311).
THEOREM WritesStayInside == Spec => []WritesOnlyItsOwn
<1>1. IInv => WritesOnlyItsOwn
  BY DEF IInv, Accounts, Own, Live, WritesOnlyItsOwn
<1>2. QED
  BY <1>1, ProcessInvariant, PTL

\* The slots name the living processes, each once, and so do the foreground and the
\* processor (process.c:168-188 and 494-564).
THEOREM SlotsAreRight == Spec => []SlotsHoldTheLiving
<1>1. IInv => SlotsHoldTheLiving
  BY DEF IInv, SlotsInUse, SlotsAndFront, SlotsHoldTheLiving
<1>2. QED
  BY <1>1, ProcessInvariant, PTL

\* A load that fails gives back what it took, but for the path
\* (process.c:551-564).
THEOREM FailedLoadsLeaveNothing == Spec => FailedLoadLeavesNothing
<1>1. IInv /\ LoadFails =>
        /\ UNCHANGED <<used \ lost, processes, proc, current_process, running>>
        /\ Cardinality(lost' \ lost) <= 1
  <2> SUFFICES ASSUME IInv, LoadFails
      PROVE  /\ UNCHANGED <<used \ lost, processes, proc, current_process, running>>
             /\ Cardinality(lost' \ lost) <= 1
    OBVIOUS
  <2>1. used \subseteq Blocks /\ lost \subseteq used
    BY DEF IInv, Accounts
  <2>2. PICK path \in SUBSET (Blocks \ used) :
          /\ used' = used \cup path /\ lost' = lost \cup path
          /\ path = {} \/ \E x : path = {x}
    BY <2>1, FailedLoadLosesPath
  <2>3. used' \ lost' = used \ lost /\ lost' \ lost = path
    BY <2>1, <2>2
  <2>4. Cardinality(path) <= 1
    <3>1. CASE path = {}
      <4>1. Cardinality(path) = 0
        BY <3>1, FS_EmptySet
      <4>2. QED
        BY <4>1
    <3>2. CASE path # {}
      <4>1. Cardinality(path) = 1
        BY <2>2, <3>2, FS_Singleton
      <4>2. QED
        BY <4>1
    <3>3. QED
      BY <3>1, <3>2
  <2>5. QED
    BY <2>3, <2>4 DEF LoadFails
<1>2. QED
  BY <1>1, ProcessInvariant, PTL DEF Spec, FailedLoadLeavesNothing

\* The foreground is left alone but by a load and by the exit of its process
\* (process.c:181-188, 370-378).
THEOREM FocusStays == Spec => FocusIsKept
<1> DEFINE Keeps == current_process' # current_process =>
                      \/ current_process' \in DOMAIN proc' \ Live
                      \/ current_process \notin DOMAIN proc' /\ current_process' \in DOMAIN proc'
<1>1. IInv /\ [Next]_vars => Keeps
  <2> SUFFICES ASSUME IInv, [Next]_vars, current_process' # current_process PROVE Keeps
    OBVIOUS
  <2>1. CASE \E g, h, complete : Loaded(g, h, complete) /\ g \in LoadGrants(used, 5)
    <3>1. PICK g, h, complete : Loaded(g, h, complete) /\ g \in LoadGrants(used, 5)
      BY <2>1
    <3>2. current_process' = g[1] /\ g[1] \in DOMAIN proc'
      BY <3>1 DEF Loaded
    <3>3. g[1] \notin used
      BY <3>1 DEF LoadGrants, Granted
    <3>4. \A q \in Live : q \in used
      BY HoldsBlocks DEF IInv, Accounts, Live
    <3>5. QED
      BY <3>2, <3>3, <3>4
  <2>2. CASE Terminate
    <3> DEFINE left == [processes EXCEPT ![proc[running].id] = Null]
    <3>1. phase = "run" /\ processes' = left
      BY <2>2 DEF Terminate
    <3>2. /\ ~ (current_process = running /\ \A s \in Slots : left[s] = Null)
          /\ current_process' = Front(running, left)
          /\ proc' = Without(proc, running)
      BY <2>2 DEF Terminate, Without, Live
    <3> HIDE DEF left
    <3>3. Live' = Live \ {running} /\ current_process' \in Live'
      BY <3>1, <3>2, SlotsAfterExit DEF left
    <3>4. current_process = running
      BY <3>2 DEF Front
    <3>5. QED
      BY <3>3, <3>4 DEF Live
  <2>3. Boot \/ LoadStart \/ (\E words \in 1 .. MaxArguments : SystemCommand(words)) \/ Terminate
    BY DEF Next, vars, table, BootFails, RunFirstEverTask, LoadFails, LoadGoesWrong,
           MallocOfNothing, NameTooLong, Malloc, MallocFails, Free, Tick
  <2>4. QED
    BY <2>1, <2>2, <2>3 DEF Boot, LoadStart, SystemCommand
<1>2. QED
  BY <1>1, ProcessInvariant, PTL DEF Spec, FocusIsKept

=============================================================================
