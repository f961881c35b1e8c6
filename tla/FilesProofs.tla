----------------------------- MODULE FilesProofs ----------------------------
(***************************************************************************)
(* Proofs about the file system: about Files, for every volume, every set  *)
(* of paths, every number of descriptors and every amount of memory, and   *)
(* about Fat16, the reading of an open file.                               *)
(***************************************************************************)
EXTENDS Files, Loops, FiniteSetTheorems, SequenceTheorems

------------------------------------------------------------------------------
(* Numbers.                                                                  *)

\* file_new_descriptor takes the lowest descriptor that is free (file.c:70-88).
LEMMA LowestIsFree == FreeFds # {} => Lowest(FreeFds) \in FreeFds /\ Lowest(FreeFds) \in Fds
<1>1. FreeFds \in SUBSET Nat
  BY FilesConstants DEF FreeFds, Fds
<1>2. FreeFds # {} => \E x \in FreeFds : \A y \in FreeFds : x <= y
  BY <1>1, LeastIn
<1>3. QED
  BY <1>2 DEF Lowest, FreeFds

------------------------------------------------------------------------------
(* The path parser.                                                          *)

\* An empty part ends a path, so what is named is a sequence (pparser.c:41-67).
LEMMA NamedIsSequence == \A path \in Paths : Named(path) \in Seq(STRING)
<1> SUFFICES ASSUME NEW path \in Paths PROVE Named(path) \in Seq(STRING)
  OBVIOUS
<1> DEFINE s == path.parts
           I == {i \in 1 .. Len(s) : s[i] = Empty}
<1>1. s \in Seq(STRING) /\ Len(s) \in Nat
  BY FilesConstants
<1>2. Leading(s) = IF I # {} THEN Min(I) ELSE 0
  BY DEF Leading, SelectInSeq
<1>3. CASE I = {}
  BY <1>1, <1>2, <1>3 DEF Named
<1>4. CASE I # {}
  <2>1. I \in SUBSET Nat
    OBVIOUS
  <2>2. \E x \in I : \A y \in I : x <= y
    BY <1>4, <2>1, LeastIn
  <2>3. Min(I) \in I
    BY <2>2 DEF Min
  <2>4. Leading(s) \in 1 .. Len(s)
    BY <1>2, <1>4, <2>3
  <2>5. SubSeq(s, 1, Leading(s) - 1) \in Seq(STRING)
    BY <1>1, <2>4
  <2>6. Named(path) = SubSeq(s, 1, Leading(s) - 1)
    BY <2>4 DEF Named
  <2>7. QED
    BY <2>5, <2>6
<1>5. QED
  BY <1>3, <1>4

\* What the parser keeps is the beginning of what is named, and no more than there
\* is memory for; when it kept less, it left one block at most (pparser.c:69-160).
LEMMA ParsedIsPrefix ==
  ASSUME NEW path \in Paths, NEW n \in Nat \ {0}
  PROVE  LET named == Named(path)
             parts == Parsed(path, n)
         IN  /\ Len(named) \in Nat /\ Len(parts) \in 0 .. Len(named)
             /\ \A i \in 1 .. Len(parts) : parts[i] = named[i]
             /\ PathBlocks(parts) <= n
             /\ Len(parts) < Len(named) => n - PathBlocks(parts) <= 1
             /\ parts # <<>> => Len(parts) > 0
<1> DEFINE named == Named(path)
           q == (n - 1) \div 2
           m == Smaller(Len(named), q)
<1>1. named \in Seq(STRING) /\ Len(named) \in Nat
  BY NamedIsSequence
<1>2. q \in Nat /\ 2 * q <= n - 1 /\ n - 1 <= 2 * q + 1
  OBVIOUS
<1>3. m \in Nat /\ m <= Len(named) /\ m <= q /\ (m < Len(named) => m = q)
  BY <1>1, <1>2 DEF Smaller
<1>4. \A i \in 1 .. m : named[i] \in STRING
  BY <1>1, <1>3
<1> HIDE DEF named, m
<1>5. /\ Len(SubSeq(named, 1, m)) = IF 1 <= m THEN m - 1 + 1 ELSE 0
      /\ \A i \in 1 .. m - 1 + 1 : SubSeq(named, 1, m)[i] = named[1 + i - 1]
  BY <1>3, <1>4, SubSeqProperties
<1>6. Parsed(path, n) = SubSeq(named, 1, m)
  BY DEF Parsed, named, m
<1>7. Len(SubSeq(named, 1, m)) = m /\ \A i \in 1 .. m : SubSeq(named, 1, m)[i] = named[i]
  BY <1>3, <1>5
<1>8. m = 0 => SubSeq(named, 1, m) = <<>>
  BY SubSeqEmpty
<1>9. PathBlocks(SubSeq(named, 1, m)) = 1 + 2 * m
  BY <1>7 DEF PathBlocks
<1>10. QED
  BY <1>1, <1>2, <1>3, <1>6, <1>7, <1>8, <1>9 DEF named

------------------------------------------------------------------------------
(* What names lead to.                                                       *)

RootItem == [name |-> Empty, isDir |-> TRUE, entries |-> Root]

Below(dirs, name) == UNION {{e \in Entries(d.entries) : e.name = name} : d \in dirs}

\* The first name is looked for in the root, and each of the others in what the one
\* before leads to.
LEMMA ReachedTurns ==
  ASSUME NEW names, Len(names) \in Nat
  PROVE  /\ ReachedAt(names, 0) = {RootItem}
         /\ \A k \in 1 .. Len(names) :
              ReachedAt(names, k) = Below(ReachedAt(names, k - 1), names[k])
<1> DEFINE Body(f, n) == [j \in 0 .. n |-> IF j = 0 THEN {RootItem} ELSE Below(f[j - 1], names[j])]
           S == {n \in Nat : \E f : f = Body(f, n)}
           R == CHOOSE f : f = Body(f, Len(names))
<1>1. 0 \in S
  <2> DEFINE f == [j \in 0 .. 0 |-> {RootItem}]
  <2>1. f = Body(f, 0)
    OBVIOUS
  <2>2. QED
    BY <2>1
<1>2. ASSUME NEW n \in Nat, n \in S PROVE n + 1 \in S
  <2>1. PICK f : f = Body(f, n)
    BY <1>2
  <2> DEFINE g == [j \in 0 .. n + 1 |-> IF j = n + 1 THEN Below(f[n], names[n + 1]) ELSE f[j]]
  <2>2. ASSUME NEW j \in 0 .. n + 1
        PROVE  g[j] = IF j = 0 THEN {RootItem} ELSE Below(g[j - 1], names[j])
    <3>1. CASE j = 0
      <4>1. g[j] = f[0]
        BY <3>1
      <4>2. f[0] = Body(f, n)[0]
        BY <2>1
      <4>3. Body(f, n)[0] = {RootItem}
        OBVIOUS
      <4>4. QED
        BY <3>1, <4>1, <4>2, <4>3
    <3>2. CASE j = n + 1
      <4>1. g[j - 1] = f[n] /\ g[j] = Below(f[n], names[j])
        BY <3>2
      <4>2. QED
        BY <3>2, <4>1
    <3>3. CASE j # 0 /\ j # n + 1
      <4>1. j \in 0 .. n /\ j - 1 \in 0 .. n + 1 /\ j - 1 # n + 1
        BY <3>3
      <4>2. g[j] = f[j] /\ g[j - 1] = f[j - 1]
        BY <3>3, <4>1
      <4>3. f[j] = Body(f, n)[j]
        BY <2>1
      <4>4. Body(f, n)[j] = Below(f[j - 1], names[j])
        BY <3>3, <4>1
      <4>5. QED
        BY <3>3, <4>2, <4>3, <4>4
    <3>4. QED
      BY <3>1, <3>2, <3>3
  <2>3. g = Body(g, n + 1)
    <3>1. g = [j \in 0 .. n + 1 |-> g[j]]
      OBVIOUS
    <3> HIDE DEF g
    <3>2. QED
      BY <2>2, <3>1
  <2> HIDE DEF g
  <2>4. QED
    BY <2>3
<1> HIDE DEF S
<1>3. Nat \subseteq S
  BY <1>1, <1>2, Induct
<1>4. \E f : f = Body(f, Len(names))
  BY <1>3 DEF S
<1>5. R = Body(R, Len(names))
  BY <1>4
<1>6. \A k : ReachedAt(names, k) = R[k]
  BY DEF ReachedAt, RootItem, Below
<1> HIDE DEF R
<1>7. R[0] = Body(R, Len(names))[0] /\ \A k \in 1 .. Len(names) : R[k] = Body(R, Len(names))[k]
  BY <1>5
<1>8. Body(R, Len(names))[0] = {RootItem}
  OBVIOUS
<1>9. \A k \in 1 .. Len(names) : Body(R, Len(names))[k] = Below(R[k - 1], names[k])
  OBVIOUS
<1>10. QED
  BY <1>6, <1>7, <1>8, <1>9

------------------------------------------------------------------------------
(* The search of a directory and the walk.                                   *)

IsDirectory(dir) == Len(dir) \in Nat /\ DOMAIN dir = 1 .. Len(dir)

\* An item for an entry was made, of n blocks that were free.
FoundItem(n, e, w) == ItemBlocks(e) \in {2, 3} /\ ItemBlocks(e) <= n /\ w = At(e, n - ItemBlocks(e), 0)

\* No more entries are searched than there are (fat16.c:163-207).
LEMMA SearchedInside ==
  ASSUME NEW dir, IsDirectory(dir)
  PROVE  \A i \in 1 .. Len(Searched(dir)) : i \in DOMAIN dir /\ Searched(dir)[i] = dir[i]
<1> DEFINE c == Cardinality(InUse(dir))
<1>1. IsFiniteSet(1 .. Len(dir)) /\ Cardinality(1 .. Len(dir)) = Len(dir)
  <2>1. Len(dir) \in Int
    BY DEF IsDirectory
  <2>2. Cardinality(1 .. Len(dir)) = IF 1 > Len(dir) THEN 0 ELSE Len(dir) - 1 + 1
    BY <2>1, FS_Interval
  <2>3. IsFiniteSet(1 .. Len(dir))
    BY <2>1, FS_Interval
  <2>4. QED
    BY <2>2, <2>3 DEF IsDirectory
<1>2. InUse(dir) \in SUBSET (1 .. Len(dir))
  BY DEF InUse, IsDirectory
<1>3. IsFiniteSet(InUse(dir)) /\ c <= Len(dir)
  BY <1>1, <1>2, FS_Subset
<1>4. c \in Nat
  BY <1>3, FS_CardinalityType
<1> HIDE DEF c
<1>5. \A i \in 1 .. c : dir[i] \in Entries(dir)
  BY <1>3, <1>4 DEF Entries, IsDirectory
<1>6. /\ Len(SubSeq(dir, 1, c)) = IF 1 <= c THEN c - 1 + 1 ELSE 0
      /\ \A i \in 1 .. c - 1 + 1 : SubSeq(dir, 1, c)[i] = dir[1 + i - 1]
  BY <1>4, <1>5, SubSeqProperties
<1>7. Len(SubSeq(dir, 1, c)) = c /\ \A i \in 1 .. c : SubSeq(dir, 1, c)[i] = dir[i]
  BY <1>4, <1>6
<1>8. Searched(dir) = SubSeq(dir, 1, c)
  BY DEF Searched, c
<1>9. QED
  BY <1>3, <1>4, <1>7, <1>8 DEF IsDirectory

\* A search finds nothing, goes astray, or makes an item for an entry of that name
\* (fat16.c:517-597).
LEMMA FindFinds ==
  ASSUME NEW dir, NEW name, NEW n \in Nat
  PROVE  LET w == Find(dir, name, n) IN
         \/ w = Null(n)
         \/ w = Astray
         \/ \E e : /\ FoundItem(n, e, w)
                   /\ IsDirectory(dir) => e \in Entries(dir) /\ e.name = name
<1> DEFINE I == {i \in 1 .. Len(Searched(dir)) : Searched(dir)[i].name = name}
           k == IF I # {} THEN Min(I) ELSE 0
           w == Find(dir, name, n)
<1>1. w = IF k = 0 \/ n = 0 THEN Null(n)
          ELSE IF n < ItemBlocks(dir[k]) THEN Astray
          ELSE At(dir[k], n - ItemBlocks(dir[k]), 0)
  BY DEF Find, SelectInSeq
<1>2. k # 0 => k \in I
  <2>1. SUFFICES ASSUME I # {} PROVE Min(I) \in I
    OBVIOUS
  <2>2. I \in SUBSET Nat
    OBVIOUS
  <2> HIDE DEF I
  <2>3. \E x \in I : \A y \in I : x <= y
    BY <2>1, <2>2, LeastIn
  <2>4. QED
    BY <2>3 DEF Min
<1>3. k # 0 /\ IsDirectory(dir) => dir[k] \in Entries(dir) /\ dir[k].name = name
  <2> SUFFICES ASSUME k # 0, IsDirectory(dir) PROVE dir[k] \in Entries(dir) /\ dir[k].name = name
    OBVIOUS
  <2>1. k \in 1 .. Len(Searched(dir)) /\ Searched(dir)[k].name = name
    BY <1>2
  <2> HIDE DEF k
  <2>2. k \in DOMAIN dir /\ Searched(dir)[k] = dir[k]
    BY <2>1, SearchedInside
  <2>3. QED
    BY <2>1, <2>2 DEF Entries
<1> HIDE DEF k, w
<1>4. ItemBlocks(dir[k]) \in {2, 3}
  BY DEF ItemBlocks
<1>5. CASE k = 0 \/ n = 0
  BY <1>1, <1>5 DEF w
<1>6. CASE k # 0 /\ n # 0 /\ n < ItemBlocks(dir[k])
  BY <1>1, <1>6 DEF w
<1>7. CASE k # 0 /\ n # 0 /\ ~(n < ItemBlocks(dir[k]))
  <2>1. ItemBlocks(dir[k]) <= n
    BY <1>4, <1>7
  <2>2. FoundItem(n, dir[k], w)
    BY <1>1, <1>4, <1>7, <2>1 DEF FoundItem
  <2>3. QED
    BY <1>3, <1>7, <2>2 DEF w
<1>8. QED
  BY <1>5, <1>6, <1>7

\* The walk at part i of names, with n blocks free before it.
Walked(names, n, i, w) ==
  \/ \E e \in ReachedAt(names, i) : FoundItem(n, e, w)
  \/ \E k : w = Null(k)
  \/ w = Missing(n, 0)
  \/ /\ n >= 2 /\ w = Missing(n - 2, 2)
     /\ \E e \in Passed(names) : ~e.isDir
  \/ w = Astray

\* The directories that are searched are sequences of entries.
Searchable(names) == \A d \in Passed(names) : IsDirectory(d.entries)

FirstTurn(names, n) ==
  LET first == Find(Root, names[1], n) IN IF first.at = "null" THEN Missing(n, 0) ELSE first

LaterTurn(was, name) ==
  CASE was.at = "item" -> Step(was, name)
    [] was.at = "null" -> Astray
    [] OTHER -> was

LEMMA FirstTurnKeeps ==
  ASSUME NEW names, Len(names) \in Nat, Len(names) > 0, Searchable(names), NEW n \in Nat
  PROVE  Walked(names, n, 1, FirstTurn(names, n))
<1> DEFINE w == Find(Root, names[1], n)
<1>1. ReachedAt(names, 0) = {RootItem} /\ ReachedAt(names, 1) = Below({RootItem}, names[1])
  <2>1. 1 \in 1 .. Len(names) /\ 1 - 1 = 0
    OBVIOUS
  <2>2. QED
    BY <2>1, ReachedTurns
<1>2. IsDirectory(Root)
  <2>1. RootItem \in Passed(names)
    BY <1>1 DEF Passed
  <2>2. QED
    BY <2>1 DEF Searchable, RootItem
<1>3. w = Null(n) \/ w = Astray
        \/ \E e : FoundItem(n, e, w) /\ e \in Entries(Root) /\ e.name = names[1]
  BY <1>2, FindFinds
<1>4. CASE w = Null(n)
  BY <1>4 DEF Walked, FirstTurn, Null
<1>5. CASE w = Astray
  BY <1>5 DEF Walked, FirstTurn, Astray
<1>6. CASE \E e : FoundItem(n, e, w) /\ e \in Entries(Root) /\ e.name = names[1]
  <2>1. PICK e : FoundItem(n, e, w) /\ e \in Entries(Root) /\ e.name = names[1]
    BY <1>6
  <2>2. e \in ReachedAt(names, 1)
    BY <1>1, <2>1 DEF Below, RootItem
  <2>3. w.at = "item"
    BY <2>1 DEF FoundItem, At
  <2>4. QED
    BY <2>1, <2>2, <2>3 DEF Walked, FirstTurn
<1>7. QED
  BY <1>3, <1>4, <1>5, <1>6

\* One more turn of the loop of fat16_get_directory_entry (fat16.c:611-622).
LEMMA LaterTurnKeeps ==
  ASSUME NEW names, Len(names) \in Nat, Searchable(names), NEW n \in Nat,
         NEW i \in 2 .. Len(names), NEW was, Walked(names, n, i - 1, was)
  PROVE  Walked(names, n, i, LaterTurn(was, names[i]))
<1>1. CASE \E e \in ReachedAt(names, i - 1) : FoundItem(n, e, was)
  <2>1. PICK d \in ReachedAt(names, i - 1) : FoundItem(n, d, was)
    BY <1>1
  <2> DEFINE m == n - ItemBlocks(d)
             next == Find(d.entries, names[i], m)
  <2>2. /\ ItemBlocks(d) \in {2, 3} /\ ItemBlocks(d) <= n /\ was = At(d, m, 0)
        /\ was.at = "item" /\ was.entry = d /\ was.free = m
    BY <2>1 DEF FoundItem, At
  <2>3. d \in Passed(names)
    <3>1. i - 1 \in 0 .. Len(names) - 1
      OBVIOUS
    <3>2. QED
      BY <2>1, <3>1 DEF Passed
  <2>4. IsDirectory(d.entries)
    BY <2>3 DEF Searchable
  <2>5. LaterTurn(was, names[i]) = Step(was, names[i])
    BY <2>2 DEF LaterTurn
  <2>6. CASE ~d.isDir
    <3>1. ItemBlocks(d) = 2
      BY <2>6 DEF ItemBlocks
    <3>2. Step(was, names[i]) = Missing(n - 2, 2)
      BY <2>2, <2>6, <3>1 DEF Step
    <3>3. QED
      BY <2>2, <2>3, <2>5, <2>6, <3>1, <3>2 DEF Walked
  <2>7. CASE d.isDir
    <3>1. Step(was, names[i]) = IF next.at = "astray" THEN next
                                ELSE [next EXCEPT !.free = @ + ItemBlocks(d)]
      BY <2>2, <2>7 DEF Step
    <3>2. m \in Nat
      BY <2>2
    <3> HIDE DEF m
    <3>3. next = Null(m) \/ next = Astray
            \/ \E e : FoundItem(m, e, next) /\ e \in Entries(d.entries) /\ e.name = names[i]
      BY <2>4, <3>2, FindFinds
    <3> HIDE DEF next
    <3>4. CASE next = Null(m)
      <4>1. Step(was, names[i]) = Null(m + ItemBlocks(d))
        BY <3>1, <3>4 DEF Null
      <4>2. QED
        BY <2>5, <4>1 DEF Walked
    <3>5. CASE next = Astray
      <4>1. Step(was, names[i]) = Astray
        BY <3>1, <3>5 DEF Astray
      <4>2. QED
        BY <2>5, <4>1 DEF Walked
    <3>6. CASE \E e : FoundItem(m, e, next) /\ e \in Entries(d.entries) /\ e.name = names[i]
      <4>1. PICK e : FoundItem(m, e, next) /\ e \in Entries(d.entries) /\ e.name = names[i]
        BY <3>6
      <4>2. ItemBlocks(e) \in {2, 3} /\ ItemBlocks(e) <= m /\ next = At(e, m - ItemBlocks(e), 0)
        BY <4>1 DEF FoundItem
      <4>3. Step(was, names[i]) = At(e, (m - ItemBlocks(e)) + ItemBlocks(d), 0)
        BY <3>1, <4>2 DEF At
      <4>4. (m - ItemBlocks(e)) + ItemBlocks(d) = n - ItemBlocks(e) /\ ItemBlocks(e) <= n
        BY <2>2, <4>2 DEF m
      <4>5. FoundItem(n, e, Step(was, names[i]))
        BY <4>2, <4>3, <4>4 DEF FoundItem
      <4>6. e \in ReachedAt(names, i)
        <5>1. ReachedAt(names, i) = Below(ReachedAt(names, i - 1), names[i])
          BY ReachedTurns
        <5>2. QED
          BY <2>1, <4>1, <5>1 DEF Below
      <4>7. QED
        BY <2>5, <4>5, <4>6 DEF Walked
    <3>7. QED
      BY <3>3, <3>4, <3>5, <3>6
  <2>8. QED
    BY <2>6, <2>7
<1>2. CASE \E k : was = Null(k)
  <2>1. was.at = "null"
    BY <1>2 DEF Null
  <2>2. LaterTurn(was, names[i]) = Astray
    BY <2>1 DEF LaterTurn
  <2>3. QED
    BY <2>2 DEF Walked
<1>3. CASE \/ was = Missing(n, 0)
           \/ was = Missing(n - 2, 2) /\ n >= 2 /\ \E e \in Passed(names) : ~e.isDir
           \/ was = Astray
  <2>1. was.at \in {"missing", "astray"}
    BY <1>3 DEF Missing, Astray
  <2>2. LaterTurn(was, names[i]) = was
    BY <2>1 DEF LaterTurn
  <2>3. QED
    BY <1>3, <2>2 DEF Walked
<1>4. QED
  BY <1>1, <1>2, <1>3 DEF Walked

\* The loop has a state after each part.
LEMMA WalkTurns ==
  ASSUME NEW parts, Len(parts) \in Nat, NEW n
  PROVE  \E L : /\ Walk(parts, n) = L[Len(parts)]
                /\ \A i \in 1 .. Len(parts) :
                     L[i] = IF i = 1 THEN FirstTurn(parts, n) ELSE LaterTurn(L[i - 1], parts[i])
<1> DEFINE Body(f, k) ==
             [i \in 1 .. k |-> IF i = 1 THEN FirstTurn(parts, n) ELSE LaterTurn(f[i - 1], parts[i])]
           S == {k \in Nat : \E f : f = Body(f, k)}
           L == CHOOSE f : f = Body(f, Len(parts))
<1>1. 0 \in S
  <2> DEFINE f == [i \in 1 .. 0 |-> 0]
  <2>1. f = Body(f, 0)
    OBVIOUS
  <2>2. QED
    BY <2>1
<1>2. ASSUME NEW k \in Nat, k \in S PROVE k + 1 \in S
  <2>1. PICK f : f = Body(f, k)
    BY <1>2
  <2> DEFINE was == IF k = 0 THEN FirstTurn(parts, n) ELSE LaterTurn(f[k], parts[k + 1])
             g == [i \in 1 .. k + 1 |-> IF i = k + 1 THEN was ELSE f[i]]
  <2>2. ASSUME NEW i \in 1 .. k + 1
        PROVE  g[i] = IF i = 1 THEN FirstTurn(parts, n) ELSE LaterTurn(g[i - 1], parts[i])
    <3>1. CASE i = k + 1
      <4>1. g[i] = was
        BY <3>1
      <4>2. k # 0 => g[i - 1] = f[k]
        BY <3>1
      <4>3. QED
        BY <3>1, <4>1, <4>2
    <3>2. CASE i # k + 1
      <4>1. i \in 1 .. k
        BY <3>2
      <4>2. g[i] = f[i] /\ (i # 1 => g[i - 1] = f[i - 1])
        BY <3>2, <4>1
      <4>3. f[i] = Body(f, k)[i]
        BY <2>1
      <4>4. Body(f, k)[i] = IF i = 1 THEN FirstTurn(parts, n) ELSE LaterTurn(f[i - 1], parts[i])
        BY <4>1
      <4>5. QED
        BY <4>2, <4>3, <4>4
    <3>3. QED
      BY <3>1, <3>2
  <2>3. g = Body(g, k + 1)
    <3>1. g = [i \in 1 .. k + 1 |-> g[i]]
      OBVIOUS
    <3> HIDE DEF g
    <3>2. QED
      BY <2>2, <3>1
  <2> HIDE DEF g
  <2>4. QED
    BY <2>3
<1> HIDE DEF S
<1>3. Nat \subseteq S
  BY <1>1, <1>2, Induct
<1>4. \E f : f = Body(f, Len(parts))
  BY <1>3 DEF S
<1>5. L = Body(L, Len(parts))
  BY <1>4
<1>6. Walk(parts, n) = L[Len(parts)]
  BY DEF Walk, FirstTurn, LaterTurn
<1> HIDE DEF L
<1>7. \A i \in 1 .. Len(parts) : L[i] = Body(L, Len(parts))[i]
  BY <1>5
<1>8. \A i \in 1 .. Len(parts) :
        Body(L, Len(parts))[i] = IF i = 1 THEN FirstTurn(parts, n) ELSE LaterTurn(L[i - 1], parts[i])
  OBVIOUS
<1>9. QED
  BY <1>6, <1>7, <1>8

\* The whole walk, over the parts that were kept of names (fat16.c:599-626).
LEMMA WalkWalks ==
  ASSUME NEW names, Len(names) \in Nat, Searchable(names), NEW n \in Nat,
         NEW parts, Len(parts) \in 1 .. Len(names),
         \A i \in 1 .. Len(parts) : parts[i] = names[i]
  PROVE  Walked(names, n, Len(parts), Walk(parts, n))
<1>1. PICK L : /\ Walk(parts, n) = L[Len(parts)]
               /\ \A i \in 1 .. Len(parts) :
                    L[i] = IF i = 1 THEN FirstTurn(parts, n) ELSE LaterTurn(L[i - 1], parts[i])
  BY WalkTurns
<1> DEFINE S == {k \in Nat : k + 1 <= Len(parts) => Walked(names, n, k + 1, L[k + 1])}
<1>2. 0 \in S
  <2>1. L[1] = FirstTurn(parts, n) /\ parts[1] = names[1]
    BY <1>1
  <2>2. FirstTurn(parts, n) = FirstTurn(names, n)
    BY <2>1 DEF FirstTurn
  <2>3. Walked(names, n, 1, L[1])
    BY <2>1, <2>2, FirstTurnKeeps
  <2>4. QED
    BY <2>3
<1>3. ASSUME NEW k \in Nat, k \in S PROVE k + 1 \in S
  <2>1. SUFFICES ASSUME k + 2 <= Len(parts) PROVE Walked(names, n, k + 2, L[k + 2])
    <3>1. (k + 1) + 1 = k + 2
      OBVIOUS
    <3>2. QED
      BY <3>1
  <2> DEFINE i == k + 2
  <2>2. /\ i \in 2 .. Len(names) /\ i \in 1 .. Len(parts) /\ i # 1 /\ i - 1 = k + 1
        /\ k + 1 <= Len(parts)
    BY <2>1
  <2>3. Walked(names, n, i - 1, L[i - 1])
    BY <1>3, <2>2
  <2> HIDE DEF i
  <2>4. L[i] = LaterTurn(L[i - 1], names[i])
    BY <1>1, <2>2
  <2>5. Walked(names, n, i, L[i])
    BY <2>2, <2>3, <2>4, LaterTurnKeeps
  <2>6. QED
    BY <2>5 DEF i
<1>4. Len(parts) - 1 \in Nat
  OBVIOUS
<1>5. Len(parts) - 1 \in S
  <2> HIDE DEF S
  <2>1. QED
    BY <1>2, <1>3, <1>4, Induct
<1>6. (Len(parts) - 1) + 1 = Len(parts)
  OBVIOUS
<1>7. QED
  BY <1>1, <1>5, <1>6

------------------------------------------------------------------------------
(* fopen.                                                                    *)

\* fopen leaves everything as it was, goes astray, closes an error, or opens what
\* the path names, with memory for all of it (file.c:131-214, fat16.c:628-661).
LEMMA FopenOutcome ==
  ASSUME free \in Nat, NEW path \in Paths, NEW mode \in Modes, Fopen(path, mode)
  PROVE  \/ UNCHANGED vars
         \/ GoAstray
         \/ FopenClosesError(0)
         \/ free >= 2 /\ FopenClosesError(2) /\ mode = "r" /\ ThroughFile(path)
         \/ \E parts, e :
              /\ FopenSucceeds(path, parts, e) /\ FreeFds # {} /\ mounted
              /\ e \in Reached(Named(path)) /\ ItemBlocks(e) \in {2, 3}
              /\ PathBlocks(parts) \in Nat
              /\ PathBlocks(parts) + ItemBlocks(e) + 2 <= free
<1> DEFINE names == Named(path)
           parts == Parsed(path, free)
           left == free - PathBlocks(parts)
           w == Walk(parts, left - 1)
<1>1. CASE path.drive = -1 \/ free = 0 \/ parts = <<>>
  BY <1>1 DEF Fopen, FopenRefused
<1>2. CASE ~(path.drive = -1 \/ free = 0 \/ parts = <<>>)
  <2>1. FopenParsed(path, mode, parts)
    BY <1>2 DEF Fopen
  <2>2. free \in Nat \ {0}
    BY <1>2
  <2>3. /\ Len(names) \in Nat /\ Len(parts) \in 1 .. Len(names)
        /\ \A i \in 1 .. Len(parts) : parts[i] = names[i]
        /\ PathBlocks(parts) \in Nat /\ PathBlocks(parts) <= free
        /\ Len(parts) < Len(names) => free - PathBlocks(parts) <= 1
    <3>1. /\ Len(names) \in Nat /\ Len(parts) \in 0 .. Len(names)
          /\ \A i \in 1 .. Len(parts) : parts[i] = names[i]
          /\ PathBlocks(parts) <= free
          /\ Len(parts) < Len(names) => free - PathBlocks(parts) <= 1
          /\ parts # <<>> => Len(parts) > 0
      BY <2>2, ParsedIsPrefix
    <3>2. PathBlocks(parts) \in Nat
      BY <3>1 DEF PathBlocks
    <3>3. QED
      BY <1>2, <3>1, <3>2
  <2>4. Searchable(names)
    BY DirectoriesAreSequences DEF Searchable, IsDirectory
  <2> HIDE DEF names, parts
  <2>5. left \in Nat
    BY <2>3
  <2>6. CASE path.drive # 0 \/ ~mounted \/ mode \notin {"r", "w"}
    BY <2>1, <2>6 DEF FopenParsed, FopenRefused
  <2>7. CASE /\ ~(path.drive # 0 \/ ~mounted \/ mode \notin {"r", "w"})
             /\ mode = "w" \/ left = 0
    BY <2>1, <2>7 DEF FopenParsed
  <2>8. CASE /\ ~(path.drive # 0 \/ ~mounted \/ mode \notin {"r", "w"})
             /\ ~(mode = "w" \/ left = 0)
    <3>1. (CASE w.at = "astray" -> GoAstray
             [] w.at = "null" -> FopenClosesError(0)
             [] w.at = "missing" -> FopenClosesError(w.gone)
             [] OTHER -> IF FreeFds = {} THEN FopenRefused
                         ELSE IF w.free = 0 THEN GoAstray
                         ELSE FopenSucceeds(path, parts, w.entry))
      BY <2>1, <2>8 DEF FopenParsed
    <3>2. left - 1 \in Nat /\ mounted /\ mode = "r"
      BY <2>5, <2>8
    <3> DEFINE n == left - 1
    <3>3. n \in Nat
      BY <3>2
    <3> HIDE DEF n
    <3>4. Walked(names, n, Len(parts), Walk(parts, n))
      BY <2>3, <2>4, <3>3, WalkWalks
    <3>5. Walked(names, n, Len(parts), w)
      BY <3>4 DEF n
    <3>6. n = free - PathBlocks(parts) - 1
      BY DEF n
    <3> HIDE DEF w, left
    <3>7. CASE \E e \in ReachedAt(names, Len(parts)) : FoundItem(n, e, w)
      <4>1. PICK e \in ReachedAt(names, Len(parts)) : FoundItem(n, e, w)
        BY <3>7
      <4>2. /\ ItemBlocks(e) \in {2, 3} /\ ItemBlocks(e) <= n
            /\ w.at = "item" /\ w.free = n - ItemBlocks(e) /\ w.entry = e
        BY <4>1 DEF FoundItem, At
      <4>3. CASE FreeFds = {}
        BY <3>1, <4>2, <4>3 DEF FopenRefused
      <4>4. CASE FreeFds # {} /\ w.free = 0
        BY <3>1, <4>2, <4>4
      <4>5. CASE FreeFds # {} /\ w.free # 0
        <5>1. FopenSucceeds(path, parts, e)
          BY <3>1, <4>2, <4>5
        <5>2. PathBlocks(parts) + ItemBlocks(e) + 2 <= free
          BY <2>3, <3>3, <3>6, <4>2, <4>5
        <5>3. Len(parts) = Len(names)
          BY <2>3, <3>6, <4>2
        <5>4. e \in Reached(Named(path))
          BY <4>1, <5>3 DEF Reached, names
        <5>5. QED
          BY <2>3, <3>2, <4>2, <4>5, <5>1, <5>2, <5>4
      <4>6. QED
        BY <4>3, <4>4, <4>5
    <3>8. CASE \E k : w = Null(k)
      <4>1. w.at = "null"
        BY <3>8 DEF Null
      <4>2. QED
        BY <3>1, <4>1
    <3>9. CASE w = Missing(n, 0)
      <4>1. w.at = "missing" /\ w.gone = 0
        BY <3>9 DEF Missing
      <4>2. QED
        BY <3>1, <4>1
    <3>10. CASE n >= 2 /\ w = Missing(n - 2, 2) /\ \E e \in Passed(names) : ~e.isDir
      <4>1. w.at = "missing" /\ w.gone = 2
        BY <3>10 DEF Missing
      <4>2. FopenClosesError(2)
        BY <3>1, <4>1
      <4>3. free >= 2
        BY <2>3, <3>6, <3>10
      <4>4. ThroughFile(path)
        BY <3>10 DEF ThroughFile, names
      <4>5. QED
        BY <3>2, <4>2, <4>3, <4>4
    <3>11. CASE w = Astray
      <4>1. w.at = "astray"
        BY <3>11 DEF Astray
      <4>2. QED
        BY <3>1, <4>1
    <3>12. QED
      BY <3>5, <3>7, <3>8, <3>9, <3>10, <3>11 DEF Walked
  <2>9. QED
    BY <2>6, <2>7, <2>8
<1>3. QED
  BY <1>1, <1>2

------------------------------------------------------------------------------
(* The inductive invariant: what is open was named, and every block has its  *)
(* place.  Files are opened after mounting, which happens in full memory.    *)

OpenAs(path, e) == [open |-> TRUE, path |-> path, entry |-> e]

\* What may be open.
Opened == UNION {{OpenAs(path, e) : e \in Reached(Named(path))} : path \in Paths}

OpenDirectories == {fd \in Descriptors : file_descriptors[fd].entry.isDir}

HeldByFiles == 4 * Cardinality(Descriptors) + Cardinality(OpenDirectories)
HeldByVolume == IF mounted THEN 5 ELSE 0

IInv ==
  /\ free \in Nat /\ others \in Nat /\ lost \in Nat
  /\ mounted \in BOOLEAN /\ phase \in {"boot", "run", "lost"}
  /\ file_descriptors \in [Fds -> {Closed} \cup Opened]
  /\ phase = "boot" => free = Total /\ ~mounted
  /\ \A fd \in Fds : file_descriptors[fd] # Closed => mounted
  /\ Total = free + others + lost + HeldByVolume + HeldByFiles

LEMMA OpenIsNotClosed ==
  \A d \in Opened :
    /\ d.open /\ d # Closed
    /\ d.path \in Paths /\ d.entry \in Reached(Named(d.path))
<1> SUFFICES ASSUME NEW d \in Opened
             PROVE  /\ d.open /\ d # Closed
                    /\ d.path \in Paths /\ d.entry \in Reached(Named(d.path))
  OBVIOUS
<1>1. PICK path \in Paths : d \in {OpenAs(path, e) : e \in Reached(Named(path))}
  BY DEF Opened
<1>2. PICK e \in Reached(Named(path)) : d = OpenAs(path, e)
  BY <1>1
<1>3. d.open = TRUE /\ d.path = path /\ d.entry = e
  BY <1>2 DEF OpenAs
<1>4. Closed.open = FALSE
  BY DEF Closed
<1>5. d # Closed
  BY <1>3, <1>4
<1>6. QED
  BY <1>1, <1>2, <1>3, <1>5

\* The open descriptors are those that are not closed, and there are finitely many.
LEMMA DescriptorsAreOpen ==
  ASSUME IInv
  PROVE  /\ \A fd \in Fds : fd \in Descriptors <=> file_descriptors[fd] # Closed
         /\ \A fd \in Fds : fd \in Descriptors <=> file_descriptors[fd] \in Opened
         /\ IsFiniteSet(Descriptors) /\ IsFiniteSet(OpenDirectories)
         /\ Cardinality(Descriptors) \in Nat /\ Cardinality(OpenDirectories) \in Nat
<1>1. ASSUME NEW fd \in Fds
      PROVE  /\ fd \in Descriptors <=> file_descriptors[fd] # Closed
             /\ fd \in Descriptors <=> file_descriptors[fd] \in Opened
  <2>1. file_descriptors[fd] \in {Closed} \cup Opened
    BY DEF IInv
  <2>2. Closed.open = FALSE
    BY DEF Closed
  <2>3. Closed \notin Opened
    BY OpenIsNotClosed
  <2>4. QED
    BY <2>1, <2>2, <2>3, OpenIsNotClosed DEF Descriptors
<1>2. IsFiniteSet(Fds)
  BY FilesConstants, FS_Interval DEF Fds
<1>3. Descriptors \in SUBSET Fds /\ OpenDirectories \in SUBSET Fds
  BY DEF Descriptors, OpenDirectories
<1>4. IsFiniteSet(Descriptors) /\ IsFiniteSet(OpenDirectories)
  BY <1>2, <1>3, FS_Subset
<1>5. QED
  BY <1>1, <1>4, FS_CardinalityType

LEMMA InitIInv == Init => IInv
<1> SUFFICES ASSUME Init PROVE IInv
  OBVIOUS
<1>1. Descriptors = {} /\ OpenDirectories = {}
  BY DEF Init, Descriptors, OpenDirectories, Closed
<1>2. Cardinality(Descriptors) = 0 /\ Cardinality(OpenDirectories) = 0
  BY <1>1, FS_EmptySet
<1>3. HeldByFiles = 0 /\ HeldByVolume = 0
  BY <1>2 DEF Init, HeldByFiles, HeldByVolume
<1>4. file_descriptors \in [Fds -> {Closed} \cup Opened]
  BY DEF Init
<1>5. \A fd \in Fds : file_descriptors[fd] = Closed
  BY DEF Init
<1>6. Total = free + others + lost + HeldByVolume + HeldByFiles
  BY <1>3, FilesConstants DEF Init
<1>7. QED
  BY <1>4, <1>5, <1>6, FilesConstants DEF Init, IInv

\* Mounting (fat16.c:265-309): a volume is held, or the streams are lost.
LEMMA MountKeepsIInv == ASSUME IInv, MountFat16 \/ MountRefused PROVE IInv'
<1>1. Descriptors' = Descriptors /\ OpenDirectories' = OpenDirectories
  BY DEF MountFat16, MountRefused, Descriptors, OpenDirectories
<1>2. HeldByFiles' = HeldByFiles
  BY <1>1 DEF HeldByFiles
<1>3. HeldByFiles \in Nat
  BY DescriptorsAreOpen DEF HeldByFiles
<1>4. free = Total /\ ~mounted /\ Total \in Nat /\ Total > 5
  BY FilesConstants DEF IInv, MountFat16, MountRefused
<1>5. CASE MountFat16
  <2>1. free' = free - 5 /\ mounted' = TRUE /\ HeldByVolume' = 5 /\ HeldByVolume = 0
    BY <1>4, <1>5 DEF MountFat16, MountBlocks, Streams, HeldByVolume
  <2>2. QED
    BY <1>2, <1>3, <1>4, <1>5, <2>1 DEF IInv, MountFat16
<1>6. CASE MountRefused
  <2>1. free' = free - 3 /\ lost' = lost + 3 /\ mounted' = mounted /\ HeldByVolume' = HeldByVolume
    BY <1>6 DEF MountRefused, Streams, HeldByVolume
  <2>2. HeldByVolume = 0
    BY <1>4 DEF HeldByVolume
  <2>3. QED
    BY <1>2, <1>3, <1>4, <1>6, <2>1, <2>2 DEF IInv, MountRefused
<1>7. QED
  BY <1>5, <1>6

\* A step that leaves the files and the volume alone, and moves blocks between what
\* is free, what the rest of the kernel has and what is lost.
LEMMA MovingKeepsIInv ==
  ASSUME IInv, phase # "boot", phase' \in {"run", "lost"},
         UNCHANGED <<file_descriptors, mounted>>,
         free' \in Nat, others' \in Nat, lost' \in Nat,
         free' + others' + lost' = free + others + lost
  PROVE  IInv'
<1>1. Descriptors' = Descriptors /\ OpenDirectories' = OpenDirectories
  BY DEF Descriptors, OpenDirectories
<1>2. HeldByFiles' = HeldByFiles /\ HeldByVolume' = HeldByVolume
  BY <1>1 DEF HeldByFiles, HeldByVolume
<1>3. HeldByFiles \in Nat /\ HeldByVolume \in Nat
  BY DescriptorsAreOpen DEF HeldByFiles, HeldByVolume
<1>4. Total = free' + others' + lost' + HeldByVolume' + HeldByFiles'
  BY <1>2, <1>3 DEF IInv
<1>5. QED
  BY <1>4 DEF IInv

\* A file is opened (file.c:181-189).
LEMMA OpeningKeepsIInv ==
  ASSUME IInv, NEW path \in Paths, NEW parts, NEW e \in Reached(Named(path)),
         FopenSucceeds(path, parts, e), FreeFds # {}, mounted, phase # "boot",
         ItemBlocks(e) \in {2, 3}, PathBlocks(parts) \in Nat,
         PathBlocks(parts) + ItemBlocks(e) + 2 <= free
  PROVE  IInv'
<1> DEFINE fd == Lowest(FreeFds)
           d == OpenAs(path, e)
<1>1. fd \in Fds /\ file_descriptors[fd] = Closed
  BY LowestIsFree DEF FreeFds
<1> HIDE DEF fd
<1>2. file_descriptors' = [file_descriptors EXCEPT ![fd] = d]
  BY DEF FopenSucceeds, fd, OpenAs
<1>3. d \in Opened /\ d.open = TRUE /\ d.entry = e
  <2>1. d \in {OpenAs(path, x) : x \in Reached(Named(path))}
    OBVIOUS
  <2>2. d \in Opened
    BY <2>1 DEF Opened
  <2>3. QED
    BY <2>2 DEF OpenAs
<1> HIDE DEF d
<1>4. file_descriptors' \in [Fds -> {Closed} \cup Opened]
  BY <1>2, <1>3 DEF IInv
<1>5. /\ file_descriptors'[fd] = d
      /\ \A k \in Fds : k # fd => file_descriptors'[k] = file_descriptors[k]
  BY <1>1, <1>2 DEF IInv
<1>6. fd \notin Descriptors /\ fd \notin OpenDirectories
  BY <1>1, DescriptorsAreOpen DEF OpenDirectories
<1>7. Descriptors' = Descriptors \cup {fd}
  BY <1>1, <1>3, <1>5 DEF Descriptors
<1>8. OpenDirectories' = IF e.isDir THEN OpenDirectories \cup {fd} ELSE OpenDirectories
  <2>1. ASSUME NEW k
        PROVE  k \in OpenDirectories' <=>
                 (k \in OpenDirectories \/ (k = fd /\ e.isDir))
    <3>1. CASE k = fd
      BY <1>3, <1>5, <1>6, <1>7, <3>1 DEF OpenDirectories
    <3>2. CASE k # fd
      <4>1. k \in Descriptors => file_descriptors'[k] = file_descriptors[k]
        BY <1>5, <3>2 DEF Descriptors
      <4>2. QED
        BY <1>7, <3>2, <4>1 DEF OpenDirectories
    <3>3. QED
      BY <3>1, <3>2
  <2>2. QED
    BY <2>1
<1>9. Cardinality(Descriptors') = Cardinality(Descriptors) + 1
  BY <1>6, <1>7, DescriptorsAreOpen, FS_AddElement
<1>10. Cardinality(OpenDirectories') = Cardinality(OpenDirectories) + (ItemBlocks(e) - 2)
  <2>1. CASE e.isDir
    <3>1. ItemBlocks(e) = 3
      BY <2>1 DEF ItemBlocks
    <3>2. Cardinality(OpenDirectories') = Cardinality(OpenDirectories) + 1
      BY <1>6, <1>8, <2>1, DescriptorsAreOpen, FS_AddElement
    <3>3. QED
      BY <3>1, <3>2
  <2>2. CASE ~e.isDir
    <3>1. ItemBlocks(e) = 2 /\ OpenDirectories' = OpenDirectories
      BY <1>8, <2>2 DEF ItemBlocks
    <3>2. QED
      BY <3>1, DescriptorsAreOpen
  <2>3. QED
    BY <2>1, <2>2
<1>11. Cardinality(Descriptors) \in Nat /\ Cardinality(OpenDirectories) \in Nat
  BY DescriptorsAreOpen
<1>12. HeldByFiles' = HeldByFiles + ItemBlocks(e) + 2 /\ HeldByFiles \in Nat
  BY <1>9, <1>10, <1>11 DEF HeldByFiles
<1>13. /\ free' = free - (PathBlocks(parts) + 1 + ItemBlocks(e) + 1)
       /\ lost' = lost + PathBlocks(parts)
       /\ UNCHANGED <<others, mounted, phase>>
  BY DEF FopenSucceeds
<1>14. HeldByVolume' = HeldByVolume /\ HeldByVolume \in Nat
  BY <1>13 DEF HeldByVolume
<1>15. /\ free' \in Nat /\ lost' \in Nat
       /\ Total = free' + others' + lost' + HeldByVolume' + HeldByFiles'
  BY <1>12, <1>13, <1>14 DEF IInv
<1>16. QED
  BY <1>4, <1>13, <1>15 DEF IInv

\* A file is closed (file.c:230-246).
LEMMA ClosingKeepsIInv ==
  ASSUME IInv, NEW fd, Fclose(fd)
  PROVE  IInv'
<1>1. CASE ~(fd \in Fds /\ file_descriptors[fd].open)
  BY <1>1 DEF Fclose, vars, IInv, HeldByFiles, HeldByVolume, Descriptors, OpenDirectories
<1>2. CASE fd \in Fds /\ file_descriptors[fd].open
  <2> DEFINE e == file_descriptors[fd].entry
  <2>1. /\ file_descriptors' = [file_descriptors EXCEPT ![fd] = Closed]
        /\ free' = free + 2 + ItemBlocks(e)
        /\ UNCHANGED <<others, mounted, lost, phase>>
        /\ ItemBlocks(e) \in {2, 3}
        /\ phase = "run"
    <3>1. OpenBlocks(file_descriptors[fd]) = 2 + ItemBlocks(e)
      BY <1>2 DEF OpenBlocks
    <3>2. ItemBlocks(e) \in {2, 3}
      BY DEF ItemBlocks
    <3>3. free \in Nat
      BY DEF IInv
    <3>4. QED
      BY <1>2, <3>1, <3>2, <3>3 DEF Fclose
  <2>2. fd \in Descriptors /\ Descriptors \subseteq Fds
    BY <1>2 DEF Descriptors
  <2>3. /\ file_descriptors'[fd] = Closed
        /\ \A k \in Fds : k # fd => file_descriptors'[k] = file_descriptors[k]
        /\ file_descriptors' \in [Fds -> {Closed} \cup Opened]
    BY <1>2, <2>1 DEF IInv
  <2>4. Closed.open = FALSE
    BY DEF Closed
  <2>5. Descriptors' = Descriptors \ {fd}
    BY <2>3, <2>4 DEF Descriptors
  <2>6. OpenDirectories' = OpenDirectories \ {fd}
    BY <2>2, <2>3, <2>5 DEF OpenDirectories
  <2>7. fd \in OpenDirectories <=> e.isDir
    BY <2>2 DEF OpenDirectories
  <2> HIDE DEF e
  <2>8. Cardinality(Descriptors') = Cardinality(Descriptors) - 1
    BY <2>2, <2>5, DescriptorsAreOpen, FS_RemoveElement
  <2>9. Cardinality(OpenDirectories') = Cardinality(OpenDirectories) - (ItemBlocks(e) - 2)
    <3>1. CASE e.isDir
      <4>1. ItemBlocks(e) = 3
        BY <3>1 DEF ItemBlocks
      <4>2. Cardinality(OpenDirectories') = Cardinality(OpenDirectories) - 1
        BY <2>6, <2>7, <3>1, DescriptorsAreOpen, FS_RemoveElement
      <4>3. QED
        BY <4>1, <4>2
    <3>2. CASE ~e.isDir
      <4>1. ItemBlocks(e) = 2 /\ OpenDirectories' = OpenDirectories
        BY <2>6, <2>7, <3>2 DEF ItemBlocks
      <4>2. QED
        BY <4>1, DescriptorsAreOpen
    <3>3. QED
      BY <3>1, <3>2
  <2>10. Cardinality(Descriptors) \in Nat /\ Cardinality(OpenDirectories) \in Nat
    BY DescriptorsAreOpen
  <2>11. HeldByFiles' = HeldByFiles - ItemBlocks(e) - 2 /\ HeldByFiles \in Nat
    BY <2>1, <2>8, <2>9, <2>10 DEF HeldByFiles
  <2>12. HeldByVolume' = HeldByVolume /\ HeldByVolume \in Nat
    BY <2>1 DEF HeldByVolume
  <2>13. free' \in Nat /\ Total = free' + others' + lost' + HeldByVolume' + HeldByFiles'
    BY <2>1, <2>11, <2>12 DEF IInv
  <2>14. \A k \in Fds : file_descriptors'[k] # Closed => mounted'
    BY <2>1, <2>3 DEF IInv
  <2>15. QED
    BY <2>1, <2>3, <2>13, <2>14 DEF IInv
<1>3. QED
  BY <1>1, <1>2

\* fopen (file.c:131-214).
LEMMA FopenKeepsIInv ==
  ASSUME IInv, NEW path \in Paths, NEW mode \in Modes, Fopen(path, mode)
  PROVE  IInv'
<1>1. phase = "run" /\ free \in Nat /\ others \in Nat /\ lost \in Nat
  BY DEF Fopen, IInv
<1>2. CASE UNCHANGED vars
  BY <1>1, <1>2, MovingKeepsIInv DEF vars
<1>3. CASE GoAstray
  BY <1>1, <1>3, MovingKeepsIInv DEF GoAstray
<1>4. CASE FopenClosesError(0)
  <2>1. /\ free' = free /\ lost' = lost
        /\ phase' \in {"run", "lost"} /\ UNCHANGED <<others, file_descriptors, mounted>>
    BY <1>1, <1>4 DEF FopenClosesError
  <2>2. QED
    BY <1>1, <2>1, MovingKeepsIInv
<1>5. CASE free >= 2 /\ FopenClosesError(2)
  <2>1. /\ free' = free - 2 /\ lost' = lost + 2
        /\ phase' \in {"run", "lost"} /\ UNCHANGED <<others, file_descriptors, mounted>>
    BY <1>1, <1>5 DEF FopenClosesError
  <2>2. free' \in Nat /\ lost' \in Nat /\ free' + others' + lost' = free + others + lost
    BY <1>1, <1>5, <2>1
  <2>3. QED
    BY <1>1, <2>1, <2>2, MovingKeepsIInv
<1>6. CASE \E parts, e :
              /\ FopenSucceeds(path, parts, e) /\ FreeFds # {} /\ mounted
              /\ e \in Reached(Named(path)) /\ ItemBlocks(e) \in {2, 3}
              /\ PathBlocks(parts) \in Nat
              /\ PathBlocks(parts) + ItemBlocks(e) + 2 <= free
  BY <1>1, <1>6, OpeningKeepsIInv
<1>7. QED
  BY <1>1, <1>2, <1>3, <1>4, <1>5, <1>6, FopenOutcome

LEMMA NextIInv == IInv /\ [Next]_vars => IInv'
<1> SUFFICES ASSUME IInv, [Next]_vars PROVE IInv'
  OBVIOUS
<1>1. CASE MountFat16 \/ MountRefused
  BY <1>1, MountKeepsIInv
<1>2. CASE \E path \in Paths, mode \in Modes : Fopen(path, mode)
  BY <1>2, FopenKeepsIInv
<1>3. CASE \E fd \in 0 .. MaxDescriptors + 1 : Fclose(fd)
  BY <1>3, ClosingKeepsIInv
<1>4. CASE Take
  <2>1. /\ free' \in Nat /\ others' \in Nat /\ free' + others' + lost' = free + others + lost
        /\ lost' \in Nat
    BY <1>4 DEF Take, IInv
  <2>2. QED
    BY <1>4, <2>1, MovingKeepsIInv DEF Take
<1>5. CASE GiveBack
  <2>1. /\ free' \in Nat /\ others' \in Nat /\ free' + others' + lost' = free + others + lost
        /\ lost' \in Nat
    BY <1>5 DEF GiveBack, IInv
  <2>2. QED
    BY <1>5, <2>1, MovingKeepsIInv DEF GiveBack
<1>6. CASE UNCHANGED vars
  BY <1>6 DEF vars, IInv, HeldByFiles, HeldByVolume, Descriptors, OpenDirectories
<1>7. QED
  BY <1>1, <1>2, <1>3, <1>4, <1>5, <1>6 DEF Next

\* The inductive invariant holds in every state.
THEOREM FilesInvariant == Spec => []IInv
<1>1. QED
  BY InitIInv, NextIInv, PTL DEF Spec

------------------------------------------------------------------------------
(* What the invariant says of the properties the run checks.                 *)

\* The variables have their types: no more blocks are free, lost or taken than
\* there are (file.c:24-62).
THEOREM TypeCorrect == Spec => []TypeOK
<1>1. IInv => TypeOK
  <2> SUFFICES ASSUME IInv PROVE TypeOK
    OBVIOUS
  <2>1. HeldByFiles \in Nat /\ HeldByVolume \in Nat
    BY DescriptorsAreOpen DEF HeldByFiles, HeldByVolume
  <2>2. free \in 0 .. Total /\ others \in 0 .. Total /\ lost \in 0 .. Total
    BY <2>1, FilesConstants DEF IInv
  <2>3. ASSUME NEW fd \in Fds, file_descriptors[fd] # Closed
        PROVE  file_descriptors[fd].path \in Paths
    BY <2>3, DescriptorsAreOpen, OpenIsNotClosed
  <2>4. QED
    BY <2>2, <2>3 DEF IInv, TypeOK
<1>2. QED
  BY <1>1, FilesInvariant, PTL

\* Every block is free, of the rest of the kernel, lost, of the volume or of an open
\* file (file.c:131-246, fat16.c:265-309, 490-515 and 663-673).
THEOREM MemoryIsAccounted == Spec => []MemoryAccounted
<1>1. IInv => MemoryAccounted
  <2> SUFFICES ASSUME IInv PROVE MemoryAccounted
    OBVIOUS
  <2>1. Cardinality(Descriptors) \in Nat /\ Cardinality(OpenDirectories) \in Nat
    BY DescriptorsAreOpen
  <2>2. HeldByVolume \in Nat
    BY DEF HeldByVolume
  <2>3. Total = free + others + lost + HeldByVolume
                  + 4 * Cardinality(Descriptors) + Cardinality(OpenDirectories)
    BY <2>1, <2>2 DEF IInv, HeldByFiles
  <2>4. QED
    BY <2>3 DEF MemoryAccounted, HeldByVolume, OpenDirectories
<1>2. QED
  BY <1>1, FilesInvariant, PTL

\* What is open is what its path names, however much of the path there was memory
\* for (pparser.c:41-160, fat16.c:265-309 and 582-626).
THEOREM OpensTheNamed == Spec => []OpensWhatIsNamed
<1>1. IInv => OpensWhatIsNamed
  <2> SUFFICES ASSUME IInv, NEW fd \in Descriptors
               PROVE  /\ mounted
                      /\ file_descriptors[fd].entry
                           \in Reached(Named(file_descriptors[fd].path))
    BY DEF OpensWhatIsNamed
  <2>1. fd \in Fds
    BY DEF Descriptors
  <2>2. file_descriptors[fd] # Closed /\ file_descriptors[fd] \in Opened
    BY <2>1, DescriptorsAreOpen
  <2>3. QED
    BY <2>1, <2>2, OpenIsNotClosed DEF IInv
<1>2. QED
  BY <1>1, FilesInvariant, PTL

\* fopen that opens nothing loses no memory but the item of a file in the middle of
\* its path (file.c:191-212, fat16.c:609-623).
THEOREM FailedOpensLoseAnItem == Spec => FailedOpenLeavesNothing
<1> DEFINE Lost == \/ free' = free
                   \/ /\ free' = free - 2
                      /\ \E path \in Paths : Fopen(path, "r") /\ ThroughFile(path)
           Fails == file_descriptors' = file_descriptors /\ others' = others
                      /\ phase = "run" /\ phase' = "run"
<1>1. IInv /\ [Next]_vars => [Fails => Lost]_vars
  <2> SUFFICES ASSUME IInv, Next, Fails PROVE Lost
    OBVIOUS
  <2>1. free \in Nat /\ others \in Nat
    BY DEF IInv
  <2>2. CASE MountFat16 \/ MountRefused
    BY <2>2 DEF MountFat16, MountRefused
  <2>3. ASSUME NEW path \in Paths, NEW mode \in Modes, Fopen(path, mode) PROVE Lost
    <3>1. CASE UNCHANGED vars
      BY <3>1 DEF vars
    <3>2. CASE GoAstray
      BY <3>2 DEF GoAstray
    <3>3. CASE FopenClosesError(0)
      BY <2>1, <3>3 DEF FopenClosesError
    <3>4. CASE free >= 2 /\ FopenClosesError(2) /\ mode = "r" /\ ThroughFile(path)
      BY <2>1, <2>3, <3>4 DEF FopenClosesError
    <3>5. ASSUME NEW parts, NEW e, FopenSucceeds(path, parts, e), FreeFds # {}
          PROVE  FALSE
      <4> DEFINE fd == Lowest(FreeFds)
                 d == [open |-> TRUE, path |-> path, entry |-> e]
      <4>1. fd \in Fds /\ file_descriptors[fd] = Closed
        BY <3>5, LowestIsFree DEF FreeFds
      <4>2. file_descriptors' = [file_descriptors EXCEPT ![fd] = d]
        BY <3>5 DEF FopenSucceeds
      <4> HIDE DEF fd
      <4>3. file_descriptors'[fd] = d
        BY <4>1, <4>2 DEF IInv
      <4>4. d.open = TRUE /\ Closed.open = FALSE
        BY DEF Closed
      <4>5. QED
        BY <4>1, <4>3, <4>4
    <3>6. QED
      BY <2>1, <2>3, <3>1, <3>2, <3>3, <3>4, <3>5, FopenOutcome
  <2>4. ASSUME NEW fd, Fclose(fd) PROVE Lost
    <3>1. CASE ~(fd \in Fds /\ file_descriptors[fd].open)
      BY <2>4, <3>1 DEF Fclose, vars
    <3>2. CASE fd \in Fds /\ file_descriptors[fd].open
      <4>1. file_descriptors' = [file_descriptors EXCEPT ![fd] = Closed]
        BY <2>4, <3>2 DEF Fclose
      <4>2. file_descriptors'[fd] = Closed
        BY <3>2, <4>1 DEF IInv
      <4>3. QED
        BY <3>2, <4>2 DEF Closed
    <3>3. QED
      BY <3>1, <3>2
  <2>5. CASE Take \/ GiveBack
    BY <2>1, <2>5 DEF Take, GiveBack
  <2>6. QED
    BY <2>2, <2>3, <2>4, <2>5 DEF Next
<1>2. QED
  BY <1>1, FilesInvariant, PTL DEF Spec, FailedOpenLeavesNothing

------------------------------------------------------------------------------
(* What is there is found.                                                   *)

\* In a directory from which nothing was deleted every entry is searched, and with
\* three blocks there is memory for the item of any (fat16.c:163-207 and 582-597).
LEMMA FindGets ==
  ASSUME NEW dir, IsDirectory(dir), \A e \in Entries(dir) : e.name # Deleted,
         NEW name, \E e \in Entries(dir) : e.name = name,
         NEW n \in Nat, n >= 3
  PROVE  \E e \in Entries(dir) : FoundItem(n, e, Find(dir, name, n)) /\ e.name = name
<1>1. InUse(dir) = 1 .. Len(dir)
  BY DEF IsDirectory, InUse, Entries
<1>2. Len(dir) \in Int
  BY DEF IsDirectory
<1>3. Cardinality(1 .. Len(dir)) = IF 1 > Len(dir) THEN 0 ELSE Len(dir) - 1 + 1
  BY <1>2, FS_Interval
<1>4. Cardinality(InUse(dir)) = Len(dir) /\ Len(dir) \in Nat
  BY <1>1, <1>3 DEF IsDirectory
<1> DEFINE c == Len(dir)
<1>5. \A i \in 1 .. c : dir[i] \in Entries(dir)
  BY DEF Entries, IsDirectory
<1> HIDE DEF c
<1>6. /\ Len(SubSeq(dir, 1, c)) = IF 1 <= c THEN c - 1 + 1 ELSE 0
      /\ \A i \in 1 .. c - 1 + 1 : SubSeq(dir, 1, c)[i] = dir[1 + i - 1]
  BY <1>4, <1>5, SubSeqProperties DEF c
<1>7. Searched(dir) = SubSeq(dir, 1, c)
  BY <1>4 DEF Searched, c
<1>8. Len(Searched(dir)) = Len(dir) /\ \A i \in 1 .. Len(dir) : Searched(dir)[i] = dir[i]
  BY <1>4, <1>6, <1>7 DEF c
<1> DEFINE I == {i \in 1 .. Len(Searched(dir)) : Searched(dir)[i].name = name}
           k == IF I # {} THEN Min(I) ELSE 0
           w == Find(dir, name, n)
<1>9. PICK j \in 1 .. Len(dir) : dir[j].name = name
  BY DEF Entries, IsDirectory
<1>10. j \in I
  BY <1>8, <1>9
<1>11. k \in I
  <2>1. I \in SUBSET Nat /\ I # {}
    BY <1>10
  <2> HIDE DEF I
  <2>2. \E x \in I : \A y \in I : x <= y
    BY <2>1, LeastIn
  <2>3. QED
    BY <2>1, <2>2 DEF Min
<1>12. w = IF k = 0 \/ n = 0 THEN Null(n)
           ELSE IF n < ItemBlocks(dir[k]) THEN Astray
           ELSE At(dir[k], n - ItemBlocks(dir[k]), 0)
  BY DEF Find, SelectInSeq
<1>13. k \in 1 .. Len(dir) /\ dir[k].name = name
  BY <1>8, <1>11
<1> HIDE DEF k, w
<1>14. dir[k] \in Entries(dir) /\ k # 0
  BY <1>4, <1>13 DEF Entries, IsDirectory
<1>15. ItemBlocks(dir[k]) \in {2, 3}
  BY DEF ItemBlocks
<1>16. FoundItem(n, dir[k], w)
  BY <1>12, <1>14, <1>15 DEF FoundItem
<1>17. QED
  BY <1>13, <1>14, <1>16 DEF w

\* Names that lead to something lead somewhere at each part.
LEMMA ReachedOnTheWay ==
  ASSUME NEW names, Len(names) \in Nat, Reached(names) # {}
  PROVE  \A k \in 0 .. Len(names) : ReachedAt(names, k) # {}
<1> SUFFICES ASSUME NEW m \in 0 .. Len(names), ReachedAt(names, m) = {} PROVE FALSE
  OBVIOUS
<1> DEFINE S == {k \in Nat : m + k <= Len(names) => ReachedAt(names, m + k) = {}}
<1>1. 0 \in S
  OBVIOUS
<1>2. ASSUME NEW k \in Nat, k \in S PROVE k + 1 \in S
  <2>1. SUFFICES ASSUME m + (k + 1) <= Len(names) PROVE ReachedAt(names, m + (k + 1)) = {}
    OBVIOUS
  <2>2. m + k <= Len(names) /\ m + (k + 1) \in 1 .. Len(names) /\ (m + (k + 1)) - 1 = m + k
    BY <2>1
  <2>3. ReachedAt(names, m + (k + 1)) = Below(ReachedAt(names, (m + (k + 1)) - 1), names[m + (k + 1)])
    BY <2>2, ReachedTurns
  <2>4. ReachedAt(names, m + k) = {}
    BY <1>2, <2>2
  <2>5. QED
    BY <2>2, <2>3, <2>4 DEF Below
<1>3. Len(names) - m \in Nat /\ m + (Len(names) - m) = Len(names)
  OBVIOUS
<1>4. Len(names) - m \in S
  <2> HIDE DEF S
  <2>1. QED
    BY <1>1, <1>2, <1>3, Induct
<1>5. QED
  BY <1>3, <1>4 DEF Reached

\* The walk stands at what the first i names lead to.
Standing(names, n, i, w) == \E e : ReachedAt(names, i) = {e} /\ FoundItem(n, e, w)

\* The names lead somewhere, in directories from which nothing was deleted and that
\* have no name twice.
Plain(names) == Reached(names) # {} /\ NoGaps(names) /\ Unambiguous(names) /\ Searchable(names)

\* In the only directory the names before lead to, the next name is found.
LEMMA NextIsFound ==
  ASSUME NEW names, Len(names) \in Nat, Plain(names), NEW i \in 1 .. Len(names),
         NEW d, ReachedAt(names, i - 1) = {d}, NEW n \in Nat, n >= 3
  PROVE  \E e : /\ ReachedAt(names, i) = {e} /\ d.isDir
                /\ FoundItem(n, e, Find(d.entries, names[i], n))
<1>1. d \in Passed(names)
  <2>1. i - 1 \in 0 .. Len(names) - 1
    OBVIOUS
  <2>2. QED
    BY <2>1 DEF Passed
<1>2. ReachedAt(names, i) = {e \in Entries(d.entries) : e.name = names[i]}
  BY ReachedTurns DEF Below
<1>3. ReachedAt(names, i) # {}
  BY ReachedOnTheWay DEF Plain
<1>4. IsDirectory(d.entries) /\ \A e \in Entries(d.entries) : e.name # Deleted
  BY <1>1 DEF Plain, Searchable, NoGaps
<1>5. PICK e \in Entries(d.entries) : FoundItem(n, e, Find(d.entries, names[i], n)) /\ e.name = names[i]
  BY <1>2, <1>3, <1>4, FindGets
<1>6. ReachedAt(names, i) = {e}
  <2>1. \A f \in Entries(d.entries) : f.name = names[i] => f = e
    BY <1>1, <1>5 DEF Plain, Unambiguous
  <2>2. QED
    BY <1>2, <1>5, <2>1
<1>7. d.isDir
  <2>1. ~ d.isDir => Entries(d.entries) = {}
    BY <1>1 DEF Plain, Unambiguous, Entries
  <2>2. QED
    BY <1>5, <2>1
<1>8. QED
  BY <1>5, <1>6, <1>7

LEMMA FirstTurnFinds ==
  ASSUME NEW names, Len(names) \in Nat, Len(names) > 0, Plain(names), NEW n \in Nat, n >= 3
  PROVE  Standing(names, n, 1, FirstTurn(names, n))
<1>1. 1 \in 1 .. Len(names) /\ ReachedAt(names, 1 - 1) = {RootItem}
  BY ReachedTurns
<1>2. PICK e : ReachedAt(names, 1) = {e} /\ FoundItem(n, e, Find(RootItem.entries, names[1], n))
  BY <1>1, NextIsFound
<1>3. RootItem.entries = Root
  BY DEF RootItem
<1>4. FirstTurn(names, n) = Find(Root, names[1], n)
  BY <1>2, <1>3 DEF FirstTurn, FoundItem, At
<1>5. QED
  BY <1>2, <1>3, <1>4 DEF Standing

LEMMA LaterTurnFinds ==
  ASSUME NEW names, Len(names) \in Nat, Plain(names), NEW n \in Nat, n >= 6,
         NEW i \in 2 .. Len(names), NEW was, Standing(names, n, i - 1, was)
  PROVE  Standing(names, n, i, LaterTurn(was, names[i]))
<1>1. PICK d : ReachedAt(names, i - 1) = {d} /\ FoundItem(n, d, was)
  BY DEF Standing
<1> DEFINE m == n - ItemBlocks(d)
           next == Find(d.entries, names[i], m)
<1>2. /\ ItemBlocks(d) \in {2, 3} /\ was = At(d, m, 0)
      /\ was.at = "item" /\ was.entry = d /\ was.free = m
  BY <1>1 DEF FoundItem, At
<1>3. m \in Nat /\ m >= 3 /\ m + ItemBlocks(d) = n /\ i \in 1 .. Len(names)
  BY <1>2
<1>4. LaterTurn(was, names[i]) = Step(was, names[i])
  BY <1>2 DEF LaterTurn
<1> HIDE DEF m
<1>5. PICK e : ReachedAt(names, i) = {e} /\ d.isDir /\ FoundItem(m, e, next)
  BY <1>1, <1>3, NextIsFound
<1>6. Step(was, names[i]) = IF next.at = "astray" THEN next
                            ELSE [next EXCEPT !.free = @ + ItemBlocks(d)]
  BY <1>2, <1>5 DEF Step
<1> HIDE DEF next
<1>7. ItemBlocks(e) \in {2, 3} /\ ItemBlocks(e) <= m /\ next = At(e, m - ItemBlocks(e), 0)
  BY <1>5 DEF FoundItem
<1>8. Step(was, names[i]) = At(e, (m - ItemBlocks(e)) + ItemBlocks(d), 0)
  BY <1>6, <1>7 DEF At
<1>9. (m - ItemBlocks(e)) + ItemBlocks(d) = n - ItemBlocks(e) /\ ItemBlocks(e) <= n
  BY <1>2, <1>3, <1>7
<1>10. FoundItem(n, e, Step(was, names[i]))
  BY <1>7, <1>8, <1>9 DEF FoundItem
<1>11. QED
  BY <1>4, <1>5, <1>10 DEF Standing

\* The whole walk (fat16.c:599-626).
LEMMA WalkFinds ==
  ASSUME NEW names, Len(names) \in Nat \ {0}, Plain(names), NEW n \in Nat, n >= 6,
         NEW parts, Len(parts) = Len(names), \A i \in 1 .. Len(parts) : parts[i] = names[i]
  PROVE  Standing(names, n, Len(names), Walk(parts, n))
<1>1. PICK L : /\ Walk(parts, n) = L[Len(parts)]
               /\ \A i \in 1 .. Len(parts) :
                    L[i] = IF i = 1 THEN FirstTurn(parts, n) ELSE LaterTurn(L[i - 1], parts[i])
  BY WalkTurns
<1> DEFINE S == {k \in Nat : k + 1 <= Len(parts) => Standing(names, n, k + 1, L[k + 1])}
<1>2. 0 \in S
  <2>1. L[1] = FirstTurn(parts, n) /\ parts[1] = names[1]
    BY <1>1
  <2>2. FirstTurn(parts, n) = FirstTurn(names, n)
    BY <2>1 DEF FirstTurn
  <2>3. Standing(names, n, 1, L[1])
    BY <2>1, <2>2, FirstTurnFinds
  <2>4. QED
    BY <2>3
<1>3. ASSUME NEW k \in Nat, k \in S PROVE k + 1 \in S
  <2>1. SUFFICES ASSUME k + 2 <= Len(parts) PROVE Standing(names, n, k + 2, L[k + 2])
    <3>1. (k + 1) + 1 = k + 2
      OBVIOUS
    <3>2. QED
      BY <3>1
  <2> DEFINE i == k + 2
  <2>2. /\ i \in 2 .. Len(names) /\ i \in 1 .. Len(parts) /\ i # 1 /\ i - 1 = k + 1
        /\ k + 1 <= Len(parts)
    BY <2>1
  <2>3. Standing(names, n, i - 1, L[i - 1])
    BY <1>3, <2>2
  <2> HIDE DEF i
  <2>4. L[i] = LaterTurn(L[i - 1], names[i])
    BY <1>1, <2>2
  <2>5. Standing(names, n, i, L[i])
    BY <2>2, <2>3, <2>4, LaterTurnFinds
  <2>6. QED
    BY <2>5 DEF i
<1>4. Len(parts) - 1 \in Nat /\ (Len(parts) - 1) + 1 = Len(parts)
  OBVIOUS
<1>5. Len(parts) - 1 \in S
  <2> HIDE DEF S
  <2>1. QED
    BY <1>2, <1>3, <1>4, Induct
<1>6. QED
  BY <1>1, <1>4, <1>5

\* With eight blocks beside those of the path, what is there is found, however deep
\* it lies (fat16.c:163-207 and 582-626).
THEOREM FindsTheNamed == Spec => []FindsWhatIsThere
<1>1. IInv => FindsWhatIsThere
  <2> SUFFICES ASSUME IInv, NEW path \in Paths,
                      Named(path) # <<>>, Reached(Named(path)) # {},
                      NoGaps(Named(path)), Unambiguous(Named(path)),
                      free >= PathBlocks(Named(path)) + 8
               PROVE  LET w == Walk(Parsed(path, free), free - PathBlocks(Parsed(path, free)) - 1)
                      IN  w.at = "item" /\ w.free > 0 /\ w.entry \in Reached(Named(path))
    BY DEF FindsWhatIsThere
  <2> DEFINE named == Named(path)
             parts == Parsed(path, free)
             n == free - PathBlocks(parts) - 1
             w == Walk(parts, n)
  <2>1. named \in Seq(STRING) /\ Len(named) \in Nat \ {0}
    BY NamedIsSequence
  <2>2. Searchable(named)
    BY DirectoriesAreSequences DEF Searchable, IsDirectory
  <2>3. Plain(named)
    BY <2>2 DEF Plain
  <2>4. free \in Nat \ {0} /\ free >= 9 + 2 * Len(named)
    BY <2>1 DEF IInv, PathBlocks
  <2>5. /\ Len(parts) \in 0 .. Len(named)
        /\ \A i \in 1 .. Len(parts) : parts[i] = named[i]
        /\ Len(parts) < Len(named) => free - PathBlocks(parts) <= 1
    BY <2>4, ParsedIsPrefix
  <2>6. Len(parts) = Len(named)
    BY <2>1, <2>4, <2>5 DEF PathBlocks
  <2>7. n \in Nat /\ n >= 6
    BY <2>1, <2>4, <2>6 DEF PathBlocks
  <2> HIDE DEF named, parts, n
  <2>8. Standing(named, n, Len(named), w)
    BY <2>1, <2>3, <2>5, <2>6, <2>7, WalkFinds
  <2>9. PICK e : ReachedAt(named, Len(named)) = {e} /\ FoundItem(n, e, w)
    BY <2>8 DEF Standing
  <2>10. w.at = "item" /\ w.free = n - ItemBlocks(e) /\ w.entry = e /\ ItemBlocks(e) \in {2, 3}
    BY <2>9 DEF FoundItem, At
  <2>11. w.free > 0
    BY <2>7, <2>10
  <2>12. w.entry \in Reached(named)
    BY <2>9, <2>10 DEF Reached
  <2> HIDE DEF w
  <2>13. QED
    BY <2>10, <2>11, <2>12 DEF named, parts, n, w
<1>2. QED
  BY <1>1, FilesInvariant, PTL

------------------------------------------------------------------------------
(* Reading an open file, of Fat16: for every width of sectors and clusters,  *)
(* every volume, every chain of a file and every size of a read.  Each of    *)
(* the three loops, over the sectors of a piece, the pieces of an element    *)
(* and the elements, is a function of where it stands, defined from its end. *)

CONSTANTS
  SectorSize, SectorsPerCluster, DataStart, Clusters, MaxChain, Sizes, Counts, MaxPos

VARIABLES
  file, pos, asked, given, hung

Fat == INSTANCE Fat16

------------------------------------------------------------------------------
(* The volume.                                                               *)

\* What is assumed of the volume.
Layout == Fat!Fat16Constants

\* Behind the last byte of the disk.
DiskEnd == Fat!DiskSectors * SectorSize

\* The disk is its sectors, and its data the clusters.
LEMMA Widths ==
  ASSUME Layout
  PROVE  /\ SectorSize \in Nat \ {0} /\ Fat!ClusterSize \in Nat \ {0}
         /\ Fat!DiskSectors \in Nat /\ DiskEnd \in Nat
         /\ DiskEnd = DataStart * SectorSize + (Clusters - 1) * Fat!ClusterSize
         /\ DataStart * SectorSize \in Nat
<1>1. /\ SectorSize \in Nat \ {0} /\ SectorsPerCluster \in Nat \ {0} /\ DataStart \in Nat
      /\ Clusters - 1 \in Nat
  BY DEF Layout, Fat!Fat16Constants
<1> DEFINE c == Clusters - 1
<1>2. c * SectorsPerCluster \in Nat /\ DataStart * SectorSize \in Nat
  BY <1>1
<1>3. SectorsPerCluster * SectorSize \in Nat \ {0}
  BY <1>1
<1>4. (DataStart + c * SectorsPerCluster) * SectorSize
         = DataStart * SectorSize + c * (SectorsPerCluster * SectorSize)
  BY <1>1
<1>5. DataStart + c * SectorsPerCluster \in Nat
  BY <1>1, <1>2
<1>6. (DataStart + c * SectorsPerCluster) * SectorSize \in Nat
  <2> DEFINE n == DataStart + c * SectorsPerCluster
  <2>1. n \in Nat
    BY <1>5
  <2> HIDE DEF n
  <2>2. n * SectorSize \in Nat
    BY <1>1, <2>1
  <2>3. QED
    BY <2>2 DEF n
<1>7. QED
  BY <1>1, <1>2, <1>3, <1>4, <1>5, <1>6 DEF DiskEnd, Fat!DiskSectors, Fat!ClusterSize

\* A file has a chain of clusters, none twice, which holds its bytes.
FileOK ==
  /\ file.chain \in Seq(2 .. Clusters)
  /\ \A i, k \in 1 .. Len(file.chain) : file.chain[i] = file.chain[k] => i = k
  /\ file.mark \in Fat!Marks
  /\ file.size \in Nat /\ file.size <= Len(file.chain) * Fat!ClusterSize
  /\ pos \in Nat

\* Bytes are named by their positions.
Numbers == Int

LEMMA ErrorIsNumber == Fat!Error \in Numbers
  BY DEF Numbers, Fat!Error

\* The chain of a file is a sequence of clusters of the volume.
LEMMA ChainFacts ==
  ASSUME Layout, FileOK
  PROVE  /\ Len(file.chain) \in Nat /\ DOMAIN file.chain = 1 .. Len(file.chain)
         /\ file.chain = <<>> \/ Len(file.chain) > 0
         /\ \A i \in 1 .. Len(file.chain) :
              file.chain[i] \in 2 .. Clusters /\ file.chain[i] \in Int
         /\ Clusters \in Nat /\ Clusters < 4080
<1> DEFINE chain == file.chain
<1>1. chain \in Seq(2 .. Clusters)
  BY DEF FileOK
<1>2. Clusters \in Nat /\ Clusters < 4080
  BY DEF Layout, Fat!Fat16Constants
<1> HIDE DEF chain
<1>3. Len(chain) \in Nat /\ DOMAIN chain = 1 .. Len(chain)
  BY <1>1, LenProperties
<1>4. chain = <<>> \/ Len(chain) > 0
  BY <1>1, EmptySeq
<1>5. \A i \in 1 .. Len(chain) : chain[i] \in 2 .. Clusters
  BY <1>1, ElementOfSeq
<1>6. \A i \in 1 .. Len(chain) : chain[i] \in Int
  BY <1>2, <1>5
<1>7. QED
  BY <1>2, <1>3, <1>4, <1>5, <1>6 DEF chain

\* The table leads from a cluster of the chain to the next (fat16.c:377-401).
LEMMA FatLeads ==
  ASSUME Layout, FileOK
  PROVE  /\ \A c \in Numbers : Fat!Fat(c) \in Numbers
         /\ \A i \in 1 .. Len(file.chain) - 1 : Fat!Fat(file.chain[i]) = file.chain[i + 1]
<1> DEFINE chain == file.chain
<1>1. /\ Len(chain) \in Nat /\ DOMAIN chain = 1 .. Len(chain)
      /\ \A i \in 1 .. Len(chain) : chain[i] \in 2 .. Clusters /\ chain[i] \in Int
      /\ Clusters \in Nat
  BY ChainFacts
<1>6. Len(chain) \in Nat
  BY <1>1
<1>5. /\ \A i, k \in 1 .. Len(chain) : chain[i] = chain[k] => i = k
      /\ file.mark \in Int
  BY DEF FileOK, Fat!Marks
<1>2. ASSUME NEW c \in Numbers PROVE Fat!Fat(c) \in Numbers
  <2> DEFINE at == {i \in DOMAIN chain : chain[i] = c}
             i0 == CHOOSE i \in at : TRUE
  <2>1. CASE at # {} /\ c # 0
    <3>1. i0 \in at
      BY <2>1
    <3>2. i0 \in 1 .. Len(chain)
      BY <1>1, <3>1
    <3>3. \E j \in 1 .. Len(chain) :
            Fat!Fat(c) = IF j = Len(chain) THEN file.mark ELSE chain[j + 1]
      <4>1. Fat!Fat(c) = IF i0 = Len(chain) THEN file.mark ELSE chain[i0 + 1]
        BY <2>1 DEF Fat!Fat
      <4>2. QED
        BY <3>2, <4>1
    <3> HIDE DEF i0, at
    <3>4. PICK j \in 1 .. Len(chain) :
            Fat!Fat(c) = IF j = Len(chain) THEN file.mark ELSE chain[j + 1]
      BY <3>3
    <3> HIDE DEF chain
    <3>5. j # Len(chain) => j + 1 \in 1 .. Len(chain)
      BY <1>6
    <3>6. j # Len(chain) => chain[j + 1] \in Int
      BY <1>1, <3>5
    <3>7. QED
      BY <1>5, <3>4, <3>6 DEF Numbers
  <2>2. CASE at = {} \/ c = 0
    BY <2>2 DEF Fat!Fat, Numbers
  <2>3. QED
    BY <2>1, <2>2
<1>3. ASSUME NEW i \in 1 .. Len(chain) - 1 PROVE Fat!Fat(chain[i]) = chain[i + 1]
  <2>1. i \in 1 .. Len(chain) /\ i # Len(chain)
    BY <1>1
  <2>2. chain[i] # 0 /\ {k \in DOMAIN chain : chain[k] = chain[i]} = {i}
    BY <1>1, <1>5, <2>1
  <2>3. QED
    BY <2>1, <2>2 DEF Fat!Fat
<1>4. QED
  BY <1>2, <1>3

\* A turn of fat16_get_cluster_for_offset: it fails at a mark (fat16.c:411-440).
Following(c) == IF c = Fat!Error \/ Fat!Fat(c) \in Fat!Refused THEN Fat!Error ELSE Fat!Fat(c)

\* What follows is a cluster of the chain, or a failure at its end.
LEMMA FollowingIs ==
  ASSUME Layout, FileOK
  PROVE  /\ \A c \in Numbers : Following(c) \in Numbers
         /\ \A i \in 1 .. Len(file.chain) - 1 : Following(file.chain[i]) = file.chain[i + 1]
<1> DEFINE chain == file.chain
<1>1. \A c \in Numbers : Following(c) \in Numbers
  BY FatLeads, ErrorIsNumber DEF Following
<1>2. ASSUME NEW i \in 1 .. Len(chain) - 1 PROVE Following(chain[i]) = chain[i + 1]
  <2>1. i \in 1 .. Len(chain) /\ i + 1 \in 1 .. Len(chain)
    BY ChainFacts
  <2>2. chain[i] \in 2 .. Clusters /\ chain[i + 1] \in 2 .. Clusters /\ Clusters \in Nat /\ Clusters < 4080
    BY <2>1, ChainFacts
  <2>3. Fat!Fat(chain[i]) = chain[i + 1]
    BY FatLeads
  <2> HIDE DEF chain
  <2>4. chain[i] # -1 /\ chain[i + 1] \notin {65528, 65535} \cup {4087, 4080, 4086, 0}
    BY <2>2
  <2>5. QED
    BY <2>3, <2>4 DEF Following, Fat!Error, Fat!Refused, Fat!Marks
<1>3. QED
  BY <1>1, <1>2

\* The cluster of an offset is the one of the chain, where there is one
\* (fat16.c:403-444).
LEMMA ClusterForIs ==
  ASSUME Layout, FileOK, NEW o \in Nat
  PROVE  /\ Fat!ClusterFor(o) \in Int
         /\ o \div Fat!ClusterSize < Len(file.chain) =>
              Fat!ClusterFor(o) = file.chain[(o \div Fat!ClusterSize) + 1]
<1> DEFINE chain == file.chain
           n == Fat!ClustersAhead(o)
           X == Numbers
           Turn(c) == Following(c)
           first == Fat!FirstCluster
           step == [x \in Nat \X X |-> Turn(x[2])]
           Body(f) == [i \in 0 .. n |-> IF i = 0 THEN first ELSE Turn(f[i - 1])]
           use == CHOOSE f : f = Body(f)
<1>1. /\ Len(chain) \in Nat /\ Clusters \in Nat /\ Clusters < 4080
      /\ \A i \in 1 .. Len(chain) : chain[i] \in 2 .. Clusters /\ chain[i] \in Int
      /\ chain = <<>> \/ Len(chain) > 0
  BY ChainFacts
<1>2. /\ \A c \in X : Turn(c) \in X
      /\ \A i \in 1 .. Len(chain) - 1 : Turn(chain[i]) = chain[i + 1]
  BY FollowingIs
<1>3. n \in Nat /\ n = o \div Fat!ClusterSize
  <2> DEFINE w == Fat!ClusterSize
  <2>1. w \in Nat \ {0}
    BY Widths
  <2> HIDE DEF w
  <2>2. o \div w \in Int
    BY <2>1, DivMod
  <2>3. ~ (o < 0 * w) <=> ~ (o \div w < 0)
    BY <2>1, DivBelow
  <2>4. o \div w \in Nat
    BY <2>1, <2>2, <2>3
  <2>5. QED
    BY <2>4 DEF Fat!ClustersAhead, w
<1>4. first \in X /\ (Len(chain) > 0 => first = chain[1])
  <2>1. Len(chain) > 0 => chain # <<>> /\ chain[1] \in Int
    BY <1>1
  <2>2. QED
    BY <1>1, <2>1 DEF Fat!FirstCluster, Numbers
<1>6. Fat!ClusterFor(o) = use[n]
  BY DEF Fat!ClusterFor, Following
<1> HIDE DEF n, X, first, Turn
<1>5. step \in [Nat \X X -> X]
  BY <1>2
<1>20. n \in Nat
  BY <1>3
<1>21. first \in X
  BY <1>4
<1>17. \A i \in 1 .. n, c \in X : step[<<i, c>>] = Turn(c)
  BY <1>20
<1> HIDE DEF step
<1>7. PICK f : Turns(f, X, first, step, n)
  BY <1>20, <1>21, <1>5, TurnsExist
<1>8. /\ f \in [0 .. n -> X] /\ f[0] = first
      /\ \A i \in 1 .. n : f[i] = step[<<i, f[i - 1]>>]
  BY <1>7 DEF Turns
<1>9. ASSUME NEW i \in 1 .. n PROVE f[i] = Turn(f[i - 1])
  <2>1. f[i - 1] \in X
    BY <1>20, <1>8
  <2>3. QED
    BY <1>17, <1>8, <2>1
<1>10. f = Body(f)
  <2>1. ASSUME NEW i \in 0 .. n PROVE f[i] = IF i = 0 THEN first ELSE Turn(f[i - 1])
    BY <1>20, <1>8, <1>9
  <2>2. QED
    BY <1>8, <2>1
<1>18. use = Body(use)
  BY <1>10
<1> HIDE DEF use
<1>19. \A i \in 0 .. n : use[i] = IF i = 0 THEN first ELSE Turn(use[i - 1])
  BY <1>18
<1> DEFINE S == {i \in Nat : i <= n => use[i] \in X /\ (i < Len(chain) => use[i] = chain[i + 1])}
<1>11. 0 \in S
  BY <1>3, <1>4, <1>19
<1>12. ASSUME NEW i \in Nat, i \in S PROVE i + 1 \in S
  <2> SUFFICES ASSUME i + 1 <= n
               PROVE  use[i + 1] \in X /\ (i + 1 < Len(chain) => use[i + 1] = chain[i + 2])
    OBVIOUS
  <2>1. use[i] \in X /\ (i < Len(chain) => use[i] = chain[i + 1])
    BY <1>3, <1>12
  <2>2. use[i + 1] = Turn(use[i])
    <3>1. i + 1 \in 0 .. n /\ i + 1 # 0 /\ (i + 1) - 1 = i
      BY <1>3
    <3>2. QED
      BY <1>19, <3>1
  <2>3. use[i + 1] \in X
    BY <1>2, <2>1, <2>2
  <2>4. ASSUME i + 1 < Len(chain) PROVE use[i + 1] = chain[i + 2]
    <3>1. i + 1 \in 1 .. Len(chain) - 1 /\ i < Len(chain) /\ (i + 1) + 1 = i + 2
      BY <1>1, <2>4
    <3>2. QED
      BY <1>2, <2>1, <2>2, <3>1
  <2>5. QED
    BY <2>3, <2>4
<1> HIDE DEF S
<1>13. Nat \subseteq S
  BY <1>11, <1>12, Induct
<1>14. n \in S
  BY <1>3, <1>13
<1>15. use[n] \in X /\ (n < Len(chain) => use[n] = chain[n + 1])
  BY <1>3, <1>14 DEF S
<1>16. QED
  BY <1>3, <1>6, <1>15 DEF X, Numbers

------------------------------------------------------------------------------
(* Sectors.                                                                  *)

Outcomes == [status : {"ok", "error", "hangs"}, bytes : Seq(Numbers)]

\* The bytes of the disk between two positions.
LEMMA BytesAre ==
  ASSUME NEW a \in Int, NEW b \in Int, a <= b
  PROVE  /\ Fat!Bytes(a, b) \in Seq(Numbers) /\ Len(Fat!Bytes(a, b)) = b - a
         /\ \A k \in 1 .. b - a : Fat!Bytes(a, b)[k] = a + k - 1
<1> DEFINE n == b - a
           s == [i \in 1 .. n |-> a + i - 1]
<1>1. n \in Nat
  OBVIOUS
<1>2. \A i \in 1 .. n : a + i - 1 \in Int
  OBVIOUS
<1>3. Fat!Bytes(a, b) = s
  BY DEF Fat!Bytes
<1> HIDE DEF n
<1>4. s \in Seq(Int)
  BY <1>1, <1>2, IsASeq
<1>5. Len(s) = n /\ \A k \in 1 .. n : s[k] = a + k - 1
  BY <1>1
<1>6. QED
  BY <1>3, <1>4, <1>5 DEF n, Numbers

\* Bytes that follow each other are joined.
LEMMA BytesJoin ==
  ASSUME NEW a \in Int, NEW b \in Int, NEW c \in Int, a <= b, b <= c
  PROVE  Fat!Bytes(a, b) \o Fat!Bytes(b, c) = Fat!Bytes(a, c)
<1> DEFINE s == Fat!Bytes(a, b)
           t == Fat!Bytes(b, c)
           u == Fat!Bytes(a, c)
<1>1. /\ s \in Seq(Numbers) /\ Len(s) = b - a
      /\ \A k \in 1 .. b - a : s[k] = a + k - 1
  BY BytesAre
<1>2. /\ t \in Seq(Numbers) /\ Len(t) = c - b
      /\ \A k \in 1 .. c - b : t[k] = b + k - 1
  BY BytesAre
<1>3. /\ u \in Seq(Numbers) /\ Len(u) = c - a
      /\ \A k \in 1 .. c - a : u[k] = a + k - 1
  <2>1. a <= c
    OBVIOUS
  <2>2. QED
    BY <2>1, BytesAre
<1> HIDE DEF s, t, u
<1>4. /\ s \o t \in Seq(Numbers) /\ Len(s \o t) = Len(s) + Len(t)
      /\ \A i \in 1 .. Len(s) + Len(t) :
           (s \o t)[i] = IF i <= Len(s) THEN s[i] ELSE t[i - Len(s)]
  BY <1>1, <1>2, ConcatProperties
<1>5. Len(s \o t) = Len(u)
  BY <1>1, <1>2, <1>3, <1>4
<1>6. ASSUME NEW i \in 1 .. Len(s \o t) PROVE (s \o t)[i] = u[i]
  <2>1. i \in 1 .. c - a /\ i \in 1 .. Len(s) + Len(t)
    BY <1>1, <1>2, <1>4
  <2>2. u[i] = a + i - 1
    BY <1>3, <2>1
  <2>3. CASE i <= b - a
    BY <1>1, <1>4, <2>1, <2>2, <2>3
  <2>4. CASE ~ (i <= b - a)
    <3>1. i - (b - a) \in 1 .. c - b
      BY <2>1, <2>4
    <3>2. t[i - (b - a)] = b + (i - (b - a)) - 1
      BY <1>2, <3>1
    <3>3. (s \o t)[i] = t[i - (b - a)]
      BY <1>1, <1>4, <2>1, <2>4
    <3>4. QED
      BY <2>2, <3>2, <3>3
  <2>5. QED
    BY <2>3, <2>4
<1>7. s \o t = u
  BY <1>3, <1>4, <1>5, <1>6, SeqEqual
<1>8. QED
  BY <1>7 DEF s, t, u

\* Outcomes are made of outcomes.
LEMMA EmptyOutcome ==
  ASSUME NEW status \in {"ok", "error", "hangs"}
  PROVE  Fat!Outcome(status, <<>>) \in Outcomes
<1>1. <<>> \in Seq(Numbers)
  BY EmptySeq
<1>2. QED
  BY <1>1 DEF Fat!Outcome, Outcomes

LEMMA AndThenIs ==
  ASSUME NEW b \in Seq(Numbers), NEW x \in Outcomes
  PROVE  Fat!AndThen(b, x) \in Outcomes
<1>1. x.bytes \in Seq(Numbers) /\ x.status \in {"ok", "error", "hangs"}
  BY DEF Outcomes
<1>2. b \o x.bytes \in Seq(Numbers)
  BY <1>1, ConcatProperties
<1>3. QED
  BY <1>1, <1>2 DEF Fat!AndThen, Fat!Outcome, Outcomes

\* Where the sector after that of p begins.
NextAt(p) == p - (p % SectorSize) + SectorSize

\* It is ahead of p, and not behind the end of the disk if p is on it (streamer.c:29-39).
LEMMA NextSector ==
  ASSUME Layout, NEW p \in Int
  PROVE  /\ NextAt(p) \in Int /\ NextAt(p) > p
         /\ (p \div SectorSize >= Fat!DiskSectors) <=> (p >= DiskEnd)
         /\ p < DiskEnd => NextAt(p) <= DiskEnd
<1> DEFINE b == SectorSize
           D == Fat!DiskSectors
           q == p \div b
           r == p % b
<1>1. b \in Nat \ {0} /\ D \in Nat /\ DiskEnd = D * b
  BY Widths DEF DiskEnd
<1>2. q \in Int /\ r \in 0 .. b - 1 /\ p = q * b + r
  BY <1>1, DivMod
<1>3. NextAt(p) = p - r + b
  BY DEF NextAt
<1> HIDE DEF b, D
<1>4. (p < D * b) <=> (q < D)
  BY <1>1, DivBelow
<1> HIDE DEF q, r
<1>5. NextAt(p) \in Int /\ NextAt(p) > p
  BY <1>1, <1>2, <1>3
<1>6. DiskEnd \in Int
  BY <1>1
<1>7. (q >= D) <=> (p >= DiskEnd)
  BY <1>1, <1>2, <1>4, <1>6
<1>8. ASSUME p < DiskEnd PROVE NextAt(p) <= DiskEnd
  <2> DEFINE d == D - q
  <2>1. d \in Int /\ d >= 1
    BY <1>1, <1>2, <1>4, <1>8
  <2>2. DiskEnd - NextAt(p) = (d - 1) * b
    BY <1>1, <1>2, <1>3
  <2> HIDE DEF d
  <2>3. (d - 1) * b >= 0
    BY <1>1, <2>1
  <2>4. QED
    BY <1>5, <1>6, <2>2, <2>3
<1>9. QED
  BY <1>5, <1>7, <1>8 DEF q, b, D

\* What the streamer reads: the bytes from where it stands, unless it goes up to the
\* end of the disk (streamer.c:27-62).
LEMMA StreamIs ==
  ASSUME Layout, NEW from \in Int, NEW total \in Nat
  PROVE  /\ Fat!Stream(from, total) \in Outcomes
         /\ from + total < DiskEnd =>
              Fat!Stream(from, total) = Fat!Outcome("ok", Fat!Bytes(from, from + total))
         /\ from + total >= DiskEnd => Fat!Stream(from, total).status = "hangs"
<1> DEFINE to == from + total
           Off(p) == p \div SectorSize >= Fat!DiskSectors
           FirstPart(p) == Fat!Bytes(p, NextAt(p))
           End(p) == IF Off(p) THEN Fat!Outcome("hangs", <<>>) ELSE Fat!Outcome("ok", Fat!Bytes(p, to))
           more == {p \in from .. to : ~ Off(p) /\ NextAt(p) <= to}
           jump == [p \in from .. to |-> NextAt(p)]
           leaf == [p \in from .. to |-> End(p)]
           join == [x \in (from .. to) \X Outcomes |-> Fat!AndThen(FirstPart(x[1]), x[2])]
           Body(f) == [p \in from .. to |->
                         IF Off(p) THEN Fat!Outcome("hangs", <<>>)
                         ELSE IF NextAt(p) <= to THEN Fat!AndThen(FirstPart(p), f[NextAt(p)])
                         ELSE Fat!Outcome("ok", Fat!Bytes(p, to))]
           read == CHOOSE f : f = Body(f)
<1>1. to \in Int /\ from <= to /\ from \in from .. to
  OBVIOUS
<1>2. Fat!Stream(from, total) = read[from]
  BY DEF Fat!Stream, NextAt
<1>3. \A p \in from .. to : NextAt(p) \in Int /\ NextAt(p) > p /\ (Off(p) <=> p >= DiskEnd)
                            /\ (p < DiskEnd => NextAt(p) <= DiskEnd)
  BY NextSector
<1>4. \A p \in from .. to : FirstPart(p) \in Seq(Numbers)
  BY <1>3, BytesAre
<1>5. \A p \in from .. to : End(p) \in Outcomes
  <2> SUFFICES ASSUME NEW p \in from .. to PROVE End(p) \in Outcomes
    OBVIOUS
  <2>1. p \in Int /\ p <= to
    OBVIOUS
  <2>2. Fat!Bytes(p, to) \in Seq(Numbers)
    BY <1>1, <2>1, BytesAre
  <2>3. Fat!Outcome("ok", Fat!Bytes(p, to)) \in Outcomes
    BY <2>2 DEF Fat!Outcome, Outcomes
  <2>4. Fat!Outcome("hangs", <<>>) \in Outcomes
    BY EmptyOutcome
  <2>5. QED
    BY <2>3, <2>4
<1> HIDE DEF to, Off, FirstPart
<1>6. \A p \in from .. to : p \notin more => leaf[p] \in Outcomes
  BY <1>5
<1>7. \A p \in from .. to, x \in Outcomes : join[<<p, x>>] \in Outcomes
  BY <1>4, AndThenIs
<1>8. \A p \in from .. to : p \in more => jump[p] \in p + 1 .. to
  BY <1>1, <1>3
<1>21. GoesAhead(from, to, Outcomes, more, jump, leaf, join)
  <2> HIDE DEF more, jump, leaf, join
  <2>1. QED
    BY <1>1, <1>6, <1>7, <1>8 DEF GoesAhead
<1>22. PICK f : ValuesAhead(f, from, to, Outcomes, more, jump, leaf, join)
  <2> HIDE DEF more, jump, leaf, join
  <2>1. QED
    BY <1>21, ValuesAheadExist
<1>9. /\ f \in [from .. to -> Outcomes]
      /\ \A p \in from .. to : f[p] = IF p \in more THEN join[<<p, f[jump[p]]>>] ELSE leaf[p]
  <2> HIDE DEF more, jump, leaf, join
  <2>1. QED
    BY <1>22 DEF ValuesAhead
<1>10. f = Body(f)
  <2>1. ASSUME NEW p \in from .. to PROVE f[p] = Body(f)[p]
    <3>1. CASE p \in more
      <4>1. jump[p] = NextAt(p) /\ NextAt(p) \in from .. to
        BY <1>3, <3>1
      <4>2. f[p] = join[<<p, f[NextAt(p)]>>]
        BY <1>9, <3>1, <4>1
      <4>3. f[NextAt(p)] \in Outcomes
        BY <1>9, <4>1
      <4>4. f[p] = Fat!AndThen(FirstPart(p), f[NextAt(p)])
        BY <4>2, <4>3
      <4>5. QED
        BY <3>1, <4>4
    <3>2. CASE p \notin more
      <4>1. f[p] = End(p)
        BY <1>9, <3>2
      <4>2. QED
        BY <3>2, <4>1
    <3>3. QED
      BY <3>1, <3>2
  <2>2. QED
    BY <1>9, <2>1
<1>11. read = Body(read)
  BY <1>10
<1> HIDE DEF read
<1>12. ASSUME NEW p \in from .. to
       PROVE  read[p] = IF Off(p) THEN Fat!Outcome("hangs", <<>>)
                        ELSE IF NextAt(p) <= to THEN Fat!AndThen(FirstPart(p), read[NextAt(p)])
                        ELSE Fat!Outcome("ok", Fat!Bytes(p, to))
  BY <1>11
<1> HIDE DEF more, jump, leaf, join, Body
<1> DEFINE Read(p, x) == /\ x \in Outcomes
                         /\ to < DiskEnd => x = Fat!Outcome("ok", Fat!Bytes(p, to))
                         /\ to >= DiskEnd => x.status = "hangs"
           S == {p \in from .. to : Read(p, read[p])}
<1>13. DiskEnd \in Int
  BY Widths
<1>14. ASSUME NEW p \in from .. to, \A q \in p + 1 .. to : q \in S PROVE p \in S
  <2>1. p \in Int /\ p <= to
    BY <1>1
  <2>2. CASE Off(p)
    <3>1. read[p] = Fat!Outcome("hangs", <<>>) /\ ~ (to < DiskEnd)
      BY <1>1, <1>3, <1>12, <1>13, <2>1, <2>2
    <3>2. read[p] \in Outcomes /\ read[p].status = "hangs"
      BY <3>1, EmptyOutcome DEF Fat!Outcome
    <3>3. QED
      BY <3>1, <3>2
  <2>3. CASE ~ Off(p) /\ NextAt(p) <= to
    <3>1. NextAt(p) \in p + 1 .. to /\ p < NextAt(p) /\ NextAt(p) \in Int /\ p \in Int
      BY <1>1, <1>3, <2>1, <2>3
    <3>2. Read(NextAt(p), read[NextAt(p)])
      BY <1>14, <3>1
    <3>3. read[p] = Fat!AndThen(FirstPart(p), read[NextAt(p)])
      BY <1>12, <2>3
    <3>4. read[p] \in Outcomes
      BY <1>4, <3>2, <3>3, AndThenIs
    <3>5. ASSUME to >= DiskEnd PROVE read[p].status = "hangs"
      <4>1. read[p].status = read[NextAt(p)].status
        BY <3>3 DEF Fat!AndThen, Fat!Outcome
      <4>2. QED
        BY <3>2, <3>5, <4>1
    <3>6. ASSUME to < DiskEnd PROVE read[p] = Fat!Outcome("ok", Fat!Bytes(p, to))
      <4>1. read[NextAt(p)] = Fat!Outcome("ok", Fat!Bytes(NextAt(p), to))
        BY <3>2, <3>6
      <4>2. Fat!Bytes(p, NextAt(p)) \o Fat!Bytes(NextAt(p), to) = Fat!Bytes(p, to)
        <5>1. p <= NextAt(p) /\ NextAt(p) <= to
          BY <2>3, <3>1
        <5>2. QED
          BY <1>1, <3>1, <5>1, BytesJoin
      <4>3. /\ read[NextAt(p)].status = "ok"
            /\ read[NextAt(p)].bytes = Fat!Bytes(NextAt(p), to)
        BY <4>1 DEF Fat!Outcome
      <4>4. read[p] = [status |-> read[NextAt(p)].status,
                       bytes |-> FirstPart(p) \o read[NextAt(p)].bytes]
        BY <3>3 DEF Fat!AndThen, Fat!Outcome
      <4>5. FirstPart(p) = Fat!Bytes(p, NextAt(p))
        BY DEF FirstPart
      <4>6. read[p] = [status |-> "ok", bytes |-> Fat!Bytes(p, to)]
        BY <4>2, <4>3, <4>4, <4>5
      <4>7. QED
        BY <4>6 DEF Fat!Outcome
    <3>7. QED
      BY <3>4, <3>5, <3>6
  <2>4. CASE ~ Off(p) /\ ~ (NextAt(p) <= to)
    <3>1. read[p] = Fat!Outcome("ok", Fat!Bytes(p, to)) /\ read[p] = End(p)
      BY <1>12, <2>4
    <3>2. to < DiskEnd
      BY <1>1, <1>3, <1>13, <2>1, <2>4
    <3>3. read[p] \in Outcomes
      BY <1>5, <3>1
    <3>4. QED
      BY <1>1, <1>13, <3>1, <3>2, <3>3
  <2>5. QED
    BY <2>2, <2>3, <2>4
<1>15. from \in S
  <2> HIDE DEF S
  <2>1. \A p \in from .. to : p \in S
    BY <1>1, <1>14, InductDown
  <2>2. QED
    BY <1>1, <2>1
<1>16. Read(from, read[from])
  BY <1>15
<1>20. QED
  BY <1>2, <1>16 DEF to
------------------------------------------------------------------------------
(* Where the bytes of the file lie.                                          *)

\* Where a piece begins that is read from an offset.
Start(o) == Fat!ClusterToSector(Fat!ClusterFor(o)) * SectorSize + (o % Fat!ClusterSize)

\* An offset that has a cluster.
HasCluster(o) == o \div Fat!ClusterSize < Len(file.chain)

\* An offset is its cluster and its place in it; those of the file have a cluster.
LEMMA OffsetFacts ==
  ASSUME Layout, FileOK, NEW o \in Nat
  PROVE  /\ o \div Fat!ClusterSize \in Nat /\ o % Fat!ClusterSize \in 0 .. Fat!ClusterSize - 1
         /\ o = (o \div Fat!ClusterSize) * Fat!ClusterSize + (o % Fat!ClusterSize)
         /\ HasCluster(o) <=> o < Len(file.chain) * Fat!ClusterSize
         /\ o < file.size => HasCluster(o)
         /\ HasCluster(o) => (o \div Fat!ClusterSize) + 1 \in DOMAIN file.chain
<1> DEFINE w == Fat!ClusterSize
           n == Len(file.chain)
           size == file.size
           q == o \div w
           r == o % w
<1>1. w \in Nat \ {0} /\ n \in Nat /\ size \in Nat /\ size <= n * w
  BY Widths, ChainFacts DEF FileOK
<1>2. DOMAIN file.chain = 1 .. n
  BY ChainFacts
<1> HIDE DEF w, n, size
<1>3. q \in Int /\ r \in 0 .. w - 1 /\ o = q * w + r
  BY <1>1, DivMod
<1>4. (o < n * w) <=> (q < n)
  BY <1>1, DivBelow
<1>5. (o < 0 * w) <=> (q < 0)
  BY <1>1, DivBelow
<1> HIDE DEF q, r
<1>6. q \in Nat
  <2>1. 0 * w = 0
    BY <1>1
  <2>2. QED
    BY <1>3, <1>5, <2>1
<1>7. o < size => q < n
  <2>1. n * w \in Nat
    BY <1>1
  <2>2. QED
    BY <1>1, <1>4, <2>1
<1>8. q < n => q + 1 \in 1 .. n
  BY <1>1, <1>6
<1>9. QED
  BY <1>2, <1>3, <1>4, <1>6, <1>7, <1>8 DEF w, n, size, q, r, HasCluster

\* A piece begins where the byte lies, when the offset has a cluster
\* (fat16.c:367-370 and 457-460).
LEMMA StartIs ==
  ASSUME Layout, FileOK, NEW o \in Nat
  PROVE  /\ Start(o) \in Int
         /\ HasCluster(o) =>
              Start(o) = Fat!Position(o) /\ Start(o) < DiskEnd /\ Fat!ClusterFor(o) # Fat!Error
<1> DEFINE w == Fat!ClusterSize
           q == o \div w
           r == o % w
           c == Fat!ClusterFor(o)
           base == DataStart * SectorSize
<1>1. /\ w \in Nat \ {0} /\ base \in Nat /\ DiskEnd \in Nat
      /\ DiskEnd = base + (Clusters - 1) * w
  BY Widths
<1>2. q \in Nat /\ r \in 0 .. w - 1 /\ (HasCluster(o) => q + 1 \in DOMAIN file.chain)
  BY OffsetFacts
<1>3. c \in Int /\ (HasCluster(o) => c = file.chain[q + 1])
  BY ClusterForIs DEF HasCluster
<1>4. HasCluster(o) => c \in 2 .. Clusters /\ Clusters \in Nat
  BY <1>2, <1>3, ChainFacts
<1>5. Start(o) = (DataStart + (c - 2) * SectorsPerCluster) * SectorSize + r
  BY DEF Start, Fat!ClusterToSector
<1>6. w = SectorsPerCluster * SectorSize
  BY DEF Fat!ClusterSize
<1>7. DataStart \in Int /\ SectorsPerCluster \in Int /\ SectorSize \in Int
  BY DEF Layout, Fat!Fat16Constants
<1> HIDE DEF w, q, r, c
<1>8. (DataStart + (c - 2) * SectorsPerCluster) * SectorSize = base + (c - 2) * w
  <2> DEFINE d == c - 2
  <2>1. d \in Int
    BY <1>3
  <2> HIDE DEF d
  <2>2. (DataStart + d * SectorsPerCluster) * SectorSize
          = DataStart * SectorSize + d * (SectorsPerCluster * SectorSize)
    BY <1>7, <2>1
  <2>3. QED
    BY <1>6, <2>2 DEF d
<1>9. Start(o) = base + (c - 2) * w + r
  BY <1>5, <1>8
<1>10. HasCluster(o) => Start(o) = Fat!Position(o)
  BY <1>3, <1>9 DEF Fat!Position, w, q, r
<1> HIDE DEF base
<1>11. Start(o) \in Int
  <2>1. (c - 2) * w \in Int
    BY <1>1, <1>3
  <2>2. QED
    BY <1>1, <1>2, <1>9, <2>1
<1>12. ASSUME HasCluster(o) PROVE Start(o) < DiskEnd /\ c # Fat!Error
  <2> DEFINE d == Clusters - c
  <2>1. d \in Nat /\ c \in Nat /\ Clusters \in Nat
    BY <1>4, <1>12
  <2>2. d * w \in Nat
    BY <1>1, <2>1
  <2>3. DiskEnd - Start(o) = d * w + w - r
    <3>1. (Clusters - 1) * w = (c - 2) * w + d * w + w
      BY <1>1, <2>1
    <3>2. (c - 2) * w \in Int
      BY <1>1, <1>3
    <3> HIDE DEF d
    <3>3. QED
      BY <1>1, <1>2, <1>9, <2>2, <3>1, <3>2
  <2> HIDE DEF d
  <2>4. Start(o) < DiskEnd
    BY <1>1, <1>2, <1>11, <2>2, <2>3
  <2>5. c # -1
    BY <2>1
  <2>6. QED
    BY <2>4, <2>5 DEF Fat!Error
<1>13. QED
  BY <1>10, <1>11, <1>12 DEF c

\* Within the file, and not torn.
Within(offset, size) == offset + size <= file.size /\ Fat!Untorn(offset, size)

\* A piece goes through the file byte by byte, even from one cluster to the next.
LEMMA PieceLies ==
  ASSUME Layout, FileOK, NEW offset \in Nat, NEW size \in Nat, Within(offset, size),
         NEW j \in Nat, j % Fat!ClusterSize = 0,
         NEW k \in 0 .. Fat!ClusterSize - 1, j + k < size
  PROVE  /\ HasCluster(offset + j) /\ HasCluster(offset + j + k)
         /\ Fat!Position(offset + j + k) = Start(offset + j) + k
<1> DEFINE w == Fat!ClusterSize
           o == offset + j
           x == offset + j + k
           first == (o \div w) + 1
           here == (x \div w) + 1
           chain == file.chain
           base == DataStart * SectorSize
<1>1. w \in Nat \ {0} /\ base \in Nat
  BY Widths
<1>2. k \in Nat /\ k < w /\ o \in Nat /\ x \in Nat /\ x = o + k /\ j + k \in Nat
  BY <1>1
<1>3. o < file.size /\ x < file.size
  BY <1>2 DEF Within, FileOK
<1> HIDE DEF o, x
<1>4. HasCluster(o) /\ HasCluster(x)
  BY <1>2, <1>3, OffsetFacts
<1>5. /\ o \div w \in Nat /\ o % w \in 0 .. w - 1 /\ o = (o \div w) * w + (o % w)
      /\ first \in DOMAIN chain
  BY <1>2, <1>4, OffsetFacts
<1>6. /\ x \div w \in Nat /\ x % w \in 0 .. w - 1 /\ x = (x \div w) * w + (x % w)
      /\ here \in DOMAIN chain
  BY <1>2, <1>4, OffsetFacts
<1>7. (j + k) % w = k
  <2> HIDE DEF w
  <2>1. j \div w \in Int /\ j = (j \div w) * w + (j % w) /\ j % w = 0
    BY <1>1, DivMod DEF w
  <2> DEFINE d == j \div w
  <2>2. d \in Int /\ j = d * w
    BY <1>1, <2>1
  <2> HIDE DEF d
  <2>3. j + k = d * w + k /\ k \in 0 .. w - 1 /\ j + k \in Int
    BY <1>1, <1>2, <2>2
  <2>4. QED
    BY <1>1, <2>2, <2>3, DivIs
<1>8. chain[here] - chain[first] = here - first
  <2>1. j + k \in 0 .. size - 1
    BY <1>2
  <2>2. offset + ((j + k) - ((j + k) % w)) = o /\ offset + (j + k) = x
    BY <1>2, <1>7 DEF o, x
  <2>3. {first, here} \subseteq DOMAIN chain => chain[here] - chain[first] = here - first
    BY <2>1, <2>2 DEF Within, Fat!Untorn
  <2>4. QED
    BY <1>5, <1>6, <2>3
<1>9. Fat!Position(o) = base + (chain[first] - 2) * w + (o % w)
  BY DEF Fat!Position
<1>10. Fat!Position(x) = base + (chain[here] - 2) * w + (x % w)
  BY DEF Fat!Position
<1>11. chain[first] \in Int /\ chain[here] \in Int
  <2>1. \A i \in DOMAIN chain : chain[i] \in Int
    BY ChainFacts
  <2> HIDE DEF first, here, chain
  <2>2. QED
    BY <1>5, <1>6, <2>1
<1>12. Start(o) = Fat!Position(o)
  BY <1>2, <1>4, StartIs
<1>13. Fat!Position(x) = Fat!Position(o) + k
  <2> DEFINE a == o \div w
             b == x \div w
             r == o % w
             t == x % w
             c == chain[first]
             e == chain[here]
  <2>1. a \in Int /\ b \in Int /\ r \in Int /\ t \in Int /\ c \in Int /\ e \in Int
    BY <1>5, <1>6, <1>11
  <2>2. o = a * w + r /\ x = b * w + t /\ x = o + k
    BY <1>2, <1>5, <1>6
  <2>3. e = c + (b - a)
    BY <1>8, <2>1
  <2>4. Fat!Position(o) = base + (c - 2) * w + r /\ Fat!Position(x) = base + (e - 2) * w + t
    BY <1>9, <1>10
  <2> HIDE DEF a, b, r, t, c, e, w, base
  <2>5. (e - 2) * w = (c - 2) * w + b * w - a * w
    BY <1>1, <2>1, <2>3
  <2>6. (c - 2) * w \in Int /\ b * w \in Int /\ a * w \in Int
    BY <1>1, <2>1
  <2>7. QED
    BY <1>1, <1>2, <2>1, <2>2, <2>4, <2>5, <2>6
<1>14. QED
  BY <1>4, <1>12, <1>13 DEF o, x

------------------------------------------------------------------------------
(* Outcomes.                                                                 *)

\* A read from one offset to another gives as many bytes, or fails behind the file.
Reads(from, to, x) ==
  /\ x \in Outcomes
  /\ x.status = "ok" => Len(x.bytes) = to - from
  /\ x.status = "error" => to > file.size

\* It gives the bytes of the file, or goes up to the last one of the disk.
Right(from, to, x) ==
  /\ x.status = "ok" => \A k \in 1 .. to - from : x.bytes[k] = Fat!Position(from + k - 1)
  /\ x.status = "hangs" => \E k \in from .. to - 1 : Fat!Position(k) = DiskEnd - 1

\* Two reads that follow each other are one.
LEMMA ReadsOn ==
  ASSUME NEW from \in Nat, NEW mid \in Nat, NEW to \in Nat, from <= mid, mid <= to,
         NEW piece, NEW x, Reads(from, mid, piece), piece.status = "ok", Reads(mid, to, x)
  PROVE  /\ Reads(from, to, Fat!AndThen(piece.bytes, x))
         /\ Right(from, mid, piece) /\ Right(mid, to, x) =>
              Right(from, to, Fat!AndThen(piece.bytes, x))
<1> DEFINE b == piece.bytes
           c == x.bytes
           y == Fat!AndThen(b, x)
<1>1. /\ b \in Seq(Numbers) /\ Len(b) = mid - from
      /\ x \in Outcomes /\ c \in Seq(Numbers)
      /\ x.status = "ok" => Len(c) = to - mid
      /\ x.status = "error" => to > file.size
  BY DEF Reads, Outcomes
<1>2. y.status = x.status /\ y.bytes = b \o c
  BY DEF Fat!AndThen, Fat!Outcome
<1>3. y \in Outcomes
  BY <1>1, AndThenIs
<1> HIDE DEF b, c, y
<1>4. /\ Len(b \o c) = Len(b) + Len(c)
      /\ \A i \in 1 .. Len(b) + Len(c) :
           (b \o c)[i] = IF i <= Len(b) THEN b[i] ELSE c[i - Len(b)]
  BY <1>1, ConcatProperties
<1>5. x.status = "ok" => Len(b \o c) = to - from
  BY <1>1, <1>4
<1>6. Reads(from, to, y)
  BY <1>1, <1>2, <1>3, <1>5 DEF Reads
<1>7. ASSUME Right(from, mid, piece), Right(mid, to, x) PROVE Right(from, to, y)
  <2>1. ASSUME y.status = "ok", NEW k \in 1 .. to - from
        PROVE  y.bytes[k] = Fat!Position(from + k - 1)
    <3>1. Len(b) = mid - from /\ Len(c) = to - mid /\ k \in 1 .. Len(b) + Len(c)
      BY <1>1, <1>2, <2>1
    <3>2. CASE k <= mid - from
      <4>1. y.bytes[k] = b[k]
        BY <1>2, <1>4, <3>1, <3>2
      <4>2. k \in 1 .. mid - from
        BY <2>1, <3>2
      <4>3. b[k] = Fat!Position(from + k - 1)
        BY <1>7, <4>2 DEF Right, b
      <4>4. QED
        BY <4>1, <4>3
    <3>3. CASE ~ (k <= mid - from)
      <4> DEFINE l == k - (mid - from)
      <4>1. l \in 1 .. to - mid /\ mid + l - 1 = from + k - 1
        BY <2>1, <3>3
      <4>2. y.bytes[k] = c[l]
        BY <1>2, <1>4, <3>1, <3>3
      <4> HIDE DEF l
      <4>3. c[l] = Fat!Position(mid + l - 1)
        BY <1>2, <1>7, <2>1, <4>1 DEF Right, c
      <4>4. QED
        BY <4>1, <4>2, <4>3
    <3>4. QED
      BY <3>2, <3>3
  <2>2. ASSUME y.status = "hangs" PROVE \E k \in from .. to - 1 : Fat!Position(k) = DiskEnd - 1
    <3>1. PICK k \in mid .. to - 1 : Fat!Position(k) = DiskEnd - 1
      BY <1>2, <1>7, <2>2 DEF Right
    <3>2. k \in from .. to - 1
      OBVIOUS
    <3>3. QED
      BY <3>1, <3>2
  <2>3. QED
    BY <2>1, <2>2 DEF Right
<1>8. QED
  BY <1>6, <1>7 DEF y, b
------------------------------------------------------------------------------
(* Reading piece by piece.                                                   *)

\* The length of the piece at o, and the piece.
Length(o, to) == IF to - o > Fat!ClusterSize THEN Fat!ClusterSize ELSE to - o
Piece(o, to) == Fat!Stream(Start(o), Length(o, to))

\* A piece ends with the read or is a cluster long (fat16.c:461).
LEMMA LengthIs ==
  ASSUME Layout, NEW o \in Nat, NEW to \in Nat, o <= to
  PROVE  /\ Length(o, to) \in Nat /\ o + Length(o, to) <= to /\ Length(o, to) <= Fat!ClusterSize
         /\ o < to => Length(o, to) > 0
         /\ o + Length(o, to) # to => Length(o, to) = Fat!ClusterSize
<1> DEFINE w == Fat!ClusterSize
<1>1. w \in Nat \ {0}
  BY Widths
<1>2. Length(o, to) = IF to - o > w THEN w ELSE to - o
  BY DEF Length
<1> HIDE DEF w
<1>3. QED
  BY <1>1, <1>2 DEF w

\* A piece is as long as it should be, and no piece fails; one that begins a number
\* of clusters after the read gives the bytes of the file (fat16.c:457-472).
LEMMA PieceIs ==
  ASSUME Layout, FileOK, NEW o \in Nat, NEW to \in Nat, o < to,
         Fat!ClusterFor(o) # Fat!Error
  PROVE  /\ Reads(o, o + Length(o, to), Piece(o, to)) /\ Piece(o, to).status # "error"
         /\ \A offset \in Nat, j \in Nat :
              (/\ o = offset + j /\ j % Fat!ClusterSize = 0
               /\ to > offset /\ Within(offset, to - offset))
                 => Right(o, o + Length(o, to), Piece(o, to))
<1> DEFINE n == Length(o, to)
           a == Start(o)
           x == Piece(o, to)
<1>1. n \in Nat /\ o + n <= to /\ n <= Fat!ClusterSize /\ n > 0
  BY LengthIs
<1>2. a \in Int
  BY StartIs
<1>3. x = Fat!Stream(a, n)
  BY DEF Piece
<1> HIDE DEF n, a, x
<1>4. /\ x \in Outcomes
      /\ a + n < DiskEnd => x = Fat!Outcome("ok", Fat!Bytes(a, a + n))
      /\ a + n >= DiskEnd => x.status = "hangs"
  BY <1>1, <1>2, <1>3, StreamIs
<1>5. DiskEnd \in Nat
  BY Widths
<1>6. /\ Len(Fat!Bytes(a, a + n)) = n
      /\ \A k \in 1 .. n : Fat!Bytes(a, a + n)[k] = a + k - 1
  <2>1. a <= a + n /\ a + n \in Int /\ (a + n) - a = n
    BY <1>1, <1>2
  <2>2. QED
    BY <1>2, <2>1, BytesAre
<1>7. a + n < DiskEnd => x.status = "ok" /\ x.bytes = Fat!Bytes(a, a + n)
  BY <1>4 DEF Fat!Outcome
<1>8. a + n < DiskEnd \/ a + n >= DiskEnd
  BY <1>1, <1>2, <1>5
<1>9. x.status = "ok" => Len(x.bytes) = n
  BY <1>4, <1>6, <1>7, <1>8
<1>10. x.status # "error"
  BY <1>4, <1>7, <1>8
<1>11. Reads(o, o + n, x)
  <2>1. (o + n) - o = n
    BY <1>1
  <2>2. QED
    BY <1>4, <1>9, <1>10, <2>1 DEF Reads
<1>12. ASSUME NEW offset \in Nat, NEW j \in Nat, o = offset + j, j % Fat!ClusterSize = 0,
              to > offset, Within(offset, to - offset)
       PROVE  Right(o, o + n, x)
  <2>1. ASSUME NEW k \in 0 .. n - 1
        PROVE  HasCluster(o + k) /\ Fat!Position(o + k) = a + k
    <3>1. Fat!ClusterSize \in Nat
      BY Widths
    <3>2. k \in 0 .. Fat!ClusterSize - 1 /\ j + k < to - offset /\ to - offset \in Nat
      BY <1>1, <1>12, <3>1
    <3>3. /\ HasCluster(offset + j + k)
          /\ Fat!Position(offset + j + k) = Start(offset + j) + k
      BY <1>12, <3>2, PieceLies
    <3>4. QED
      BY <1>12, <3>3 DEF a
  <2>2. ASSUME x.status = "ok", NEW k \in 1 .. n PROVE x.bytes[k] = Fat!Position(o + k - 1)
    <3>1. x.bytes[k] = a + k - 1
      BY <1>4, <1>6, <1>7, <1>8, <2>2
    <3>2. k - 1 \in 0 .. n - 1 /\ o + (k - 1) = o + k - 1
      BY <1>1
    <3>3. Fat!Position(o + k - 1) = a + (k - 1)
      BY <2>1, <3>2
    <3>4. QED
      BY <1>2, <3>1, <3>3
  <2>3. ASSUME x.status = "hangs"
        PROVE  \E k \in o .. (o + n) - 1 : Fat!Position(k) = DiskEnd - 1
    <3> DEFINE k == o + (n - 1)
    <3>1. a + n >= DiskEnd
      BY <1>7, <1>8, <2>3
    <3>2. n - 1 \in 0 .. n - 1
      BY <1>1
    <3>3. HasCluster(k) /\ Fat!Position(k) = a + (n - 1)
      BY <2>1, <3>2
    <3>4. k \in Nat /\ k \in o .. (o + n) - 1
      BY <1>1
    <3> HIDE DEF k
    <3>5. Fat!Position(k) < DiskEnd
      BY <3>3, <3>4, StartIs
    <3>6. Fat!Position(k) = DiskEnd - 1
      BY <1>1, <1>2, <1>5, <3>1, <3>3, <3>5
    <3>7. QED
      BY <3>4, <3>6
  <2>4. (o + n) - o = n
    BY <1>1
  <2>5. QED
    BY <2>2, <2>3, <2>4 DEF Right
<1>13. QED
  BY <1>10, <1>11, <1>12 DEF n, x

\* A piece that is not the last is a cluster long, so the next begins as aligned.
LEMMA NextAligned ==
  ASSUME Layout, NEW j \in Nat, j % Fat!ClusterSize = 0
  PROVE  (j + Fat!ClusterSize) % Fat!ClusterSize = 0
<1> DEFINE w == Fat!ClusterSize
           q == j \div w
<1>1. w \in Nat \ {0}
  BY Widths
<1> HIDE DEF w
<1>2. q \in Int /\ j = q * w + (j % w) /\ j % w = 0
  BY <1>1, DivMod DEF w
<1> HIDE DEF q
<1>3. j + w = (q + 1) * w + 0
  BY <1>1, <1>2
<1>4. (j + w) % w = 0
  <2>1. q + 1 \in Int /\ 0 \in 0 .. w - 1 /\ j + w \in Int
    BY <1>1, <1>2
  <2> DEFINE e == q + 1
             a == j + w
  <2>2. e \in Int /\ a \in Int /\ a = e * w + 0
    BY <1>3, <2>1
  <2> HIDE DEF e, a
  <2>3. a % w = 0
    BY <1>1, <2>1, <2>2, DivIs
  <2>4. QED
    BY <2>3 DEF a
<1>5. QED
  BY <1>4 DEF w

\* fat16_read_internal_from_stream gives as many bytes as asked for, or fails behind the
\* file; within the file, and not torn, they are those of the file (fat16.c:446-481).
LEMMA ReadInternalIs ==
  ASSUME Layout, FileOK, NEW offset \in Nat, NEW total \in Nat \ {0}
  PROVE  /\ Reads(offset, offset + total, Fat!ReadInternal(offset, total))
         /\ Within(offset, total) =>
              Right(offset, offset + total, Fat!ReadInternal(offset, total))
<1> DEFINE to == offset + total
           None(o) == Fat!ClusterFor(o) = Fat!Error
           Final(o) == Piece(o, to).status # "ok" \/ o + Length(o, to) = to
           Fails == Fat!Outcome("error", <<>>)
           more == {o \in offset .. to : ~ None(o) /\ ~ Final(o)}
           jump == [o \in offset .. to |-> o + Length(o, to)]
           leaf == [o \in offset .. to |-> IF None(o) THEN Fails ELSE Piece(o, to)]
           join == [x \in (offset .. to) \X Outcomes |-> Fat!AndThen(Piece(x[1], to).bytes, x[2])]
           Body(f) == [o \in offset .. to |->
                         IF None(o) THEN Fails
                         ELSE IF Final(o) THEN Piece(o, to)
                         ELSE Fat!AndThen(Piece(o, to).bytes, f[o + Length(o, to)])]
           read == CHOOSE f : f = Body(f)
<1>1. /\ to \in Nat /\ offset < to /\ offset \in offset .. to
      /\ \A o \in offset .. to : o \in Nat /\ o <= to
  OBVIOUS
<1>2. Fat!ReadInternal(offset, total) = read[offset]
  BY DEF Fat!ReadInternal, Start, Piece, Length
<1>3. \A o \in offset .. to : Piece(o, to) \in Outcomes /\ Piece(o, to).bytes \in Seq(Numbers)
  <2> SUFFICES ASSUME NEW o \in offset .. to
               PROVE  Piece(o, to) \in Outcomes /\ Piece(o, to).bytes \in Seq(Numbers)
    OBVIOUS
  <2>1. o \in Nat /\ o <= to /\ to \in Nat
    BY <1>1
  <2>2. Start(o) \in Int /\ Length(o, to) \in Nat
    <3> HIDE DEF to
    <3>1. QED
      BY <2>1, StartIs, LengthIs
  <2>3. Piece(o, to) \in Outcomes
    BY <2>2, StreamIs DEF Piece
  <2>4. QED
    BY <2>3 DEF Outcomes
<1>4. Fails \in Outcomes
  BY EmptyOutcome
<1> HIDE DEF to, None, Fails
<1>5. \A o \in offset .. to :
        /\ Length(o, to) \in Nat /\ o + Length(o, to) <= to /\ o + Length(o, to) \in Nat
        /\ ~ Final(o) => /\ Length(o, to) > 0 /\ o + Length(o, to) < to
                        /\ Length(o, to) = Fat!ClusterSize
  <2> SUFFICES ASSUME NEW o \in offset .. to
               PROVE  /\ Length(o, to) \in Nat /\ o + Length(o, to) <= to /\ o + Length(o, to) \in Nat
                      /\ ~ Final(o) => /\ Length(o, to) > 0 /\ o + Length(o, to) < to
                                      /\ Length(o, to) = Fat!ClusterSize
    OBVIOUS
  <2>1. o \in Nat /\ o <= to /\ to \in Nat
    BY <1>1
  <2>2. /\ Length(o, to) \in Nat /\ o + Length(o, to) <= to
        /\ o < to => Length(o, to) > 0
        /\ o + Length(o, to) # to => Length(o, to) = Fat!ClusterSize
    BY <2>1, LengthIs
  <2>3. QED
    BY <2>1, <2>2
<1> HIDE DEF Final
<1>6. GoesAhead(offset, to, Outcomes, more, jump, leaf, join)
  <2>1. offset \in Int /\ to \in Int
    BY <1>1
  <2>2. \A o \in offset .. to : o \notin more => leaf[o] \in Outcomes
    BY <1>3, <1>4
  <2>3. \A o \in offset .. to, x \in Outcomes : join[<<o, x>>] \in Outcomes
    BY <1>3, AndThenIs
  <2>4. \A o \in offset .. to : o \in more => jump[o] \in o + 1 .. to
    BY <1>1, <1>5
  <2> HIDE DEF more, jump, leaf, join
  <2>5. QED
    BY <2>1, <2>2, <2>3, <2>4 DEF GoesAhead
<1>7. PICK f : ValuesAhead(f, offset, to, Outcomes, more, jump, leaf, join)
  <2> HIDE DEF more, jump, leaf, join
  <2>1. QED
    BY <1>6, ValuesAheadExist
<1>8. /\ f \in [offset .. to -> Outcomes]
      /\ \A o \in offset .. to : f[o] = IF o \in more THEN join[<<o, f[jump[o]]>>] ELSE leaf[o]
  <2> HIDE DEF more, jump, leaf, join
  <2>1. QED
    BY <1>7 DEF ValuesAhead
<1>9. f = Body(f)
  <2>1. ASSUME NEW o \in offset .. to PROVE f[o] = Body(f)[o]
    <3>1. CASE o \in more
      <4> DEFINE p == o + Length(o, to)
      <4>1. jump[o] = p /\ p \in offset .. to
        BY <1>1, <1>5, <3>1
      <4> HIDE DEF p
      <4>2. f[o] = join[<<o, f[p]>>]
        BY <1>8, <3>1, <4>1
      <4>3. f[p] \in Outcomes
        BY <1>8, <4>1
      <4>4. f[o] = Fat!AndThen(Piece(o, to).bytes, f[p])
        BY <4>2, <4>3
      <4>5. QED
        BY <3>1, <4>4 DEF p
    <3>2. CASE o \notin more
      <4>1. f[o] = leaf[o]
        BY <1>8, <3>2
      <4>2. QED
        BY <3>2, <4>1
    <3>3. QED
      BY <3>1, <3>2
  <2>2. QED
    BY <1>8, <2>1
<1>10. read = Body(read)
  BY <1>9
<1> HIDE DEF read
<1>11. ASSUME NEW o \in offset .. to
       PROVE  read[o] = IF None(o) THEN Fails
                        ELSE IF Final(o) THEN Piece(o, to)
                        ELSE Fat!AndThen(Piece(o, to).bytes, read[o + Length(o, to)])
  BY <1>10
<1> HIDE DEF more, jump, leaf, join, Body
<1> DEFINE Aligned(o) == Within(offset, total) /\ (o - offset) % Fat!ClusterSize = 0
           S == {o \in offset .. to :
                   o < to => Reads(o, to, read[o]) /\ (Aligned(o) => Right(o, to, read[o]))}
<1>12. ASSUME NEW o \in offset .. to, \A q \in o + 1 .. to : q \in S PROVE o \in S
  <2> SUFFICES ASSUME o < to
               PROVE  Reads(o, to, read[o]) /\ (Aligned(o) => Right(o, to, read[o]))
    OBVIOUS
  <2> DEFINE n == Length(o, to)
             p == o + n
             x == Piece(o, to)
  <2>1. /\ o \in Nat /\ to \in Nat /\ o - offset \in Nat /\ o = offset + (o - offset)
        /\ total = to - offset /\ offset < to
    BY <1>1 DEF to
  <2>2. n \in Nat /\ p <= to /\ p \in Nat /\ o <= p
    BY <1>5, <2>1
  <2>3. CASE None(o)
    <3>1. read[o] = Fails
      BY <1>11, <2>3
    <3>2. read[o].status = "error" /\ read[o] \in Outcomes
      BY <1>4, <3>1 DEF Fails, Fat!Outcome
    <3>3. ~ (o < file.size)
      BY <2>1, <2>3, OffsetFacts, StartIs DEF None
    <3>4. to > file.size
      BY <2>1, <3>3 DEF FileOK
    <3>5. QED
      BY <3>2, <3>4 DEF Reads, Right, Within, to
  <2>4. CASE ~ None(o)
    <3>1. Reads(o, p, x) /\ x.status # "error"
      BY <2>1, <2>4, PieceIs DEF None
    <3>2. Aligned(o) => Right(o, p, x)
      <4>1. Aligned(o) => /\ o = offset + (o - offset) /\ (o - offset) % Fat!ClusterSize = 0
                          /\ to > offset /\ Within(offset, to - offset)
        BY <2>1
      <4>2. QED
        BY <2>1, <2>4, <4>1, PieceIs DEF None
    <3> HIDE DEF x, Aligned
    <3>3. CASE Final(o)
      <4>1. read[o] = x
        BY <1>11, <2>4, <3>3 DEF x
      <4>2. CASE x.status = "ok"
        <5>1. p = to
          BY <3>3, <4>2 DEF Final, x
        <5>2. QED
          BY <3>1, <3>2, <4>1, <5>1
      <4>3. CASE x.status # "ok"
        <5>1. Reads(o, to, x)
          BY <3>1, <4>3 DEF Reads
        <5>2. ASSUME Right(o, p, x) PROVE Right(o, to, x)
          <6>1. \A k \in o .. p - 1 : k \in o .. to - 1
            BY <2>1, <2>2
          <6> HIDE DEF p
          <6>2. QED
            BY <4>3, <5>2, <6>1 DEF Right
        <5>3. QED
          BY <3>2, <4>1, <5>1, <5>2
      <4>4. QED
        BY <4>2, <4>3
    <3>4. CASE ~ Final(o)
      <4>1. n > 0 /\ p < to /\ n = Fat!ClusterSize /\ x.status = "ok"
        BY <1>5, <3>4 DEF Final, x
      <4>2. p \in o + 1 .. to /\ p \in offset .. to
        BY <2>1, <2>2, <4>1
      <4>3. Reads(p, to, read[p]) /\ (Aligned(p) => Right(p, to, read[p]))
        BY <1>12, <4>1, <4>2
      <4>4. read[o] = Fat!AndThen(x.bytes, read[p])
        BY <1>11, <2>4, <3>4 DEF x
      <4>5. Aligned(o) => Aligned(p)
        BY <2>1, <2>2, <4>1, NextAligned DEF Aligned
      <4> HIDE DEF p
      <4>6. /\ Reads(o, to, Fat!AndThen(x.bytes, read[p]))
            /\ Right(o, p, x) /\ Right(p, to, read[p]) => Right(o, to, Fat!AndThen(x.bytes, read[p]))
        BY <2>1, <2>2, <3>1, <4>1, <4>3, ReadsOn
      <4>7. QED
        BY <3>2, <4>3, <4>4, <4>5, <4>6
    <3>5. QED
      BY <3>3, <3>4 DEF Aligned
  <2>5. QED
    BY <2>3, <2>4
<1>13. offset \in S
  <2> HIDE DEF S
  <2>3. offset \in Int /\ to \in Int
    BY <1>1
  <2>4. \A o \in offset .. to : (\A q \in o + 1 .. to : q \in S) => o \in S
    BY <1>12
  <2>1. \A o \in offset .. to : o \in S
    BY <2>3, <2>4, InductDown
  <2>2. QED
    BY <1>1, <2>1
<1>14. Within(offset, total) => Aligned(offset)
  <2>1. 0 % Fat!ClusterSize = 0
    BY Widths
  <2>2. offset - offset = 0
    OBVIOUS
  <2>3. QED
    BY <2>1, <2>2
<1>15. QED
  BY <1>1, <1>2, <1>13, <1>14 DEF to
------------------------------------------------------------------------------
(* fread.                                                                    *)

\* Where element i begins.
ElementAt(size, i) == pos + i * size

\* The elements follow each other.
LEMMA ElementFacts ==
  ASSUME FileOK, NEW size \in Nat \ {0}, NEW i \in Nat
  PROVE  /\ ElementAt(size, i) \in Nat
         /\ ElementAt(size, i + 1) = ElementAt(size, i) + size
         /\ \A k \in Nat : i <= k => ElementAt(size, i) <= ElementAt(size, k)
<1>1. pos \in Nat
  BY DEF FileOK
<1>2. i * size \in Nat /\ (i + 1) * size = i * size + size
  OBVIOUS
<1>3. ASSUME NEW k \in Nat, i <= k PROVE i * size <= k * size
  <2> DEFINE d == k - i
  <2>1. d \in Nat
    BY <1>3
  <2>2. k * size = i * size + d * size
    OBVIOUS
  <2> HIDE DEF d
  <2>3. d * size \in Nat /\ k * size \in Nat
    BY <2>1
  <2>4. QED
    BY <1>2, <2>2, <2>3
<1>4. ASSUME NEW k \in Nat, i <= k PROVE ElementAt(size, i) <= ElementAt(size, k)
  <2>1. k * size \in Nat
    OBVIOUS
  <2> DEFINE m == k * size
             l == i * size
  <2>2. m \in Nat /\ l \in Nat /\ l <= m
    BY <1>2, <1>3, <1>4, <2>1
  <2> HIDE DEF m, l
  <2>3. pos + l <= pos + m
    BY <1>1, <2>2
  <2>4. QED
    BY <2>3 DEF m, l, ElementAt
<1>5. QED
  <2> DEFINE l == i * size
             m == (i + 1) * size
  <2>1. l \in Nat /\ m = l + size
    BY <1>2
  <2> HIDE DEF l, m
  <2>2. pos + l \in Nat /\ pos + m = (pos + l) + size
    BY <1>1, <2>1
  <2>3. QED
    BY <1>4, <2>2 DEF l, m, ElementAt

\* All of the read lies in the file, and no element of it is torn.
Whole(size, nmemb) == pos + size * nmemb <= file.size /\ ~ Fat!Torn(size, nmemb)

\* Then each element lies in the file and is not torn.
LEMMA ElementsWithin ==
  ASSUME FileOK, NEW size \in Nat \ {0}, NEW nmemb \in Nat \ {0}, Whole(size, nmemb),
         NEW i \in 0 .. nmemb - 1
  PROVE  Within(ElementAt(size, i), size)
<1>1. i \in Nat /\ i + 1 \in Nat /\ nmemb \in Nat /\ i + 1 <= nmemb
  OBVIOUS
<1>2. ElementAt(size, i) + size <= ElementAt(size, nmemb)
  BY <1>1, ElementFacts
<1>3. ElementAt(size, nmemb) = pos + size * nmemb
  BY DEF ElementAt
<1>4. Fat!Untorn(ElementAt(size, i), size)
  BY DEF Whole, Fat!Torn, ElementAt
<1>5. ElementAt(size, i) \in Nat /\ ElementAt(size, nmemb) \in Nat /\ file.size \in Nat
  BY <1>1, ElementFacts DEF FileOK
<1>6. ElementAt(size, nmemb) <= file.size
  BY <1>3 DEF Whole
<1>7. QED
  BY <1>2, <1>4, <1>5, <1>6 DEF Within

\* The loop of fat16_read over the elements (fat16.c:704-713).
LEMMA ReadElementsIs ==
  ASSUME Layout, FileOK, NEW size \in Nat \ {0}, NEW nmemb \in Nat \ {0}
  PROVE  /\ Reads(pos, pos + size * nmemb, Fat!ReadElements(size, nmemb))
         /\ Whole(size, nmemb) => Right(pos, pos + size * nmemb, Fat!ReadElements(size, nmemb))
<1> DEFINE hi == nmemb - 1
           Element(i) == Fat!ReadInternal(pos + i * size, size)
           Final(i) == Element(i).status # "ok" \/ i = hi
           more == {i \in 0 .. hi : ~ Final(i)}
           jump == [i \in 0 .. hi |-> i + 1]
           leaf == [i \in 0 .. hi |-> Element(i)]
           join == [x \in (0 .. hi) \X Outcomes |-> Fat!AndThen(Element(x[1]).bytes, x[2])]
           Body(f) == [i \in 0 .. hi |->
                         IF Final(i) THEN Element(i) ELSE Fat!AndThen(Element(i).bytes, f[i + 1])]
           read == CHOOSE f : f = Body(f)
           Begin(i) == ElementAt(size, i)
           to == pos + size * nmemb
<1>1. hi \in Nat /\ 0 \in 0 .. hi /\ \A i \in 0 .. hi : i \in Nat /\ i + 1 \in Nat
  OBVIOUS
<1>2. Fat!ReadElements(size, nmemb) = read[0]
  BY DEF Fat!ReadElements
<1>3. \A i \in 0 .. hi :
        /\ Begin(i) \in Nat /\ Begin(i + 1) \in Nat /\ Begin(i + 1) = Begin(i) + size
        /\ Begin(i + 1) <= Begin(nmemb)
        /\ Reads(Begin(i), Begin(i + 1), Element(i))
        /\ Whole(size, nmemb) => Right(Begin(i), Begin(i + 1), Element(i))
  <2> SUFFICES ASSUME NEW i \in 0 .. hi
               PROVE  /\ Begin(i) \in Nat /\ Begin(i + 1) \in Nat /\ Begin(i + 1) = Begin(i) + size
                      /\ Begin(i + 1) <= Begin(nmemb)
                      /\ Reads(Begin(i), Begin(i + 1), Element(i))
                      /\ Whole(size, nmemb) => Right(Begin(i), Begin(i + 1), Element(i))
    OBVIOUS
  <2>1. i \in Nat /\ i + 1 \in Nat /\ i + 1 <= nmemb /\ i \in 0 .. nmemb - 1
    BY <1>1
  <2>2. Begin(i) \in Nat /\ Begin(i + 1) \in Nat /\ Begin(i + 1) = Begin(i) + size
        /\ Begin(i + 1) <= Begin(nmemb)
    BY <2>1, ElementFacts
  <2>3. Element(i) = Fat!ReadInternal(Begin(i), size)
    BY DEF ElementAt
  <2>4. Whole(size, nmemb) => Within(Begin(i), size)
    BY <2>1, ElementsWithin
  <2> HIDE DEF Begin, Element
  <2>5. /\ Reads(Begin(i), Begin(i) + size, Element(i))
        /\ Within(Begin(i), size) => Right(Begin(i), Begin(i) + size, Element(i))
    BY <2>2, <2>3, ReadInternalIs
  <2>6. QED
    BY <2>2, <2>4, <2>5
<1>4. Begin(0) = pos /\ Begin(nmemb) = to /\ pos \in Nat
  BY DEF ElementAt, FileOK
<1>5. \A i \in 0 .. hi : Element(i) \in Outcomes /\ Element(i).bytes \in Seq(Numbers)
  BY <1>3 DEF Reads, Outcomes
<1> HIDE DEF Element, Begin, to
<1>6. GoesAhead(0, hi, Outcomes, more, jump, leaf, join)
  <2>1. 0 \in Int /\ hi \in Int
    BY <1>1
  <2>2. \A i \in 0 .. hi : i \notin more => leaf[i] \in Outcomes
    BY <1>5
  <2>3. \A i \in 0 .. hi, x \in Outcomes : join[<<i, x>>] \in Outcomes
    BY <1>5, AndThenIs
  <2>4. \A i \in 0 .. hi : i \in more => jump[i] \in i + 1 .. hi
    BY <1>1
  <2> HIDE DEF more, jump, leaf, join, hi
  <2>5. QED
    BY <2>1, <2>2, <2>3, <2>4 DEF GoesAhead
<1>7. PICK f : ValuesAhead(f, 0, hi, Outcomes, more, jump, leaf, join)
  <2> HIDE DEF more, jump, leaf, join, hi
  <2>1. QED
    BY <1>6, ValuesAheadExist
<1>8. /\ f \in [0 .. hi -> Outcomes]
      /\ \A i \in 0 .. hi : f[i] = IF i \in more THEN join[<<i, f[jump[i]]>>] ELSE leaf[i]
  <2> HIDE DEF more, jump, leaf, join, hi
  <2>1. QED
    BY <1>7 DEF ValuesAhead
<1>9. f = Body(f)
  <2>1. ASSUME NEW i \in 0 .. hi PROVE f[i] = Body(f)[i]
    <3>1. CASE i \in more
      <4>1. jump[i] = i + 1 /\ i + 1 \in 0 .. hi
        BY <1>1, <3>1
      <4>2. f[i] = join[<<i, f[i + 1]>>]
        BY <1>8, <3>1, <4>1
      <4>3. f[i + 1] \in Outcomes
        BY <1>8, <4>1
      <4>4. f[i] = Fat!AndThen(Element(i).bytes, f[i + 1])
        BY <4>2, <4>3
      <4>5. QED
        BY <3>1, <4>4
    <3>2. CASE i \notin more
      <4>1. f[i] = leaf[i]
        BY <1>8, <3>2
      <4>2. QED
        BY <3>2, <4>1
    <3>3. QED
      BY <3>1, <3>2
  <2>2. QED
    BY <1>8, <2>1
<1>10. read = Body(read)
  BY <1>9
<1> HIDE DEF read
<1>11. ASSUME NEW i \in 0 .. hi
       PROVE  read[i] = IF Final(i) THEN Element(i) ELSE Fat!AndThen(Element(i).bytes, read[i + 1])
  BY <1>10
<1> HIDE DEF more, jump, leaf, join, Body
<1> DEFINE Read(i) == /\ Reads(Begin(i), to, read[i])
                      /\ Whole(size, nmemb) => Right(Begin(i), to, read[i])
           S == {i \in 0 .. hi : Read(i)}
<1>12. ASSUME NEW i \in 0 .. hi, \A q \in i + 1 .. hi : q \in S PROVE i \in S
  <2> DEFINE a == Begin(i)
             b == Begin(i + 1)
             x == Element(i)
  <2>1. /\ a \in Nat /\ b \in Nat /\ b = a + size /\ b <= to /\ to \in Nat
        /\ Reads(a, b, x) /\ (Whole(size, nmemb) => Right(a, b, x))
    <3>1. /\ a \in Nat /\ b \in Nat /\ b = a + size /\ b <= Begin(nmemb)
          /\ Reads(a, b, x) /\ (Whole(size, nmemb) => Right(a, b, x))
      BY <1>3
    <3>2. to \in Nat
      <4>1. nmemb \in Nat
        OBVIOUS
      <4>2. Begin(nmemb) \in Nat
        BY <4>1, ElementFacts DEF Begin
      <4>3. QED
        BY <1>4, <4>2
    <3>3. QED
      BY <1>4, <3>1, <3>2
  <2>2. i = hi => b = to
    BY <1>4
  <2> HIDE DEF a, b, x
  <2>3. CASE Final(i)
    <3>1. read[i] = x
      BY <1>11, <2>3 DEF x
    <3>2. CASE x.status = "ok"
      <4>1. b = to
        BY <2>2, <2>3, <3>2 DEF x
      <4>2. QED
        BY <2>1, <3>1, <4>1 DEF a
    <3>3. CASE x.status # "ok"
      <4>1. Reads(a, to, x)
        <5>1. x.status = "error" => to > file.size
          BY <2>1 DEF Reads, FileOK
        <5>2. QED
          BY <2>1, <3>3, <5>1 DEF Reads
      <4>2. Right(a, b, x) => Right(a, to, x)
        <5>1. \A k \in a .. b - 1 : k \in a .. to - 1
          BY <2>1
        <5>2. QED
          BY <3>3, <5>1 DEF Right
      <4>3. QED
        BY <2>1, <3>1, <4>1, <4>2 DEF a
    <3>4. QED
      BY <3>2, <3>3
  <2>4. CASE ~ Final(i)
    <3>1. i + 1 \in i + 1 .. hi /\ x.status = "ok"
      BY <1>1, <2>4 DEF x
    <3>2. Reads(b, to, read[i + 1]) /\ (Whole(size, nmemb) => Right(b, to, read[i + 1]))
      BY <1>12, <3>1 DEF b
    <3>3. read[i] = Fat!AndThen(x.bytes, read[i + 1])
      BY <1>11, <2>4 DEF x
    <3>4. a <= b
      BY <2>1
    <3>5. /\ Reads(a, to, Fat!AndThen(x.bytes, read[i + 1]))
          /\ Right(a, b, x) /\ Right(b, to, read[i + 1])
               => Right(a, to, Fat!AndThen(x.bytes, read[i + 1]))
      BY <2>1, <3>1, <3>2, <3>4, ReadsOn
    <3>6. QED
      BY <2>1, <3>2, <3>3, <3>5 DEF a
  <2>5. QED
    BY <2>3, <2>4
<1>13. 0 \in S
  <2> HIDE DEF S, hi
  <2>1. 0 \in Int /\ hi \in Int
    BY <1>1
  <2>2. \A i \in 0 .. hi : (\A q \in i + 1 .. hi : q \in S) => i \in S
    BY <1>12
  <2>3. \A i \in 0 .. hi : i \in S
    BY <2>1, <2>2, InductDown
  <2>4. QED
    BY <1>1, <2>3
<1>14. QED
  BY <1>2, <1>4, <1>13 DEF to

------------------------------------------------------------------------------
(* The invariant of an open file.                                            *)

\* A file that fopen gives is well formed (fat16.c:652-653).
LEMMA InitFileOK ==
  ASSUME Layout
  PROVE  Fat!Init => FileOK
<1> SUFFICES ASSUME Fat!Init PROVE FileOK
  OBVIOUS
<1>1. MaxChain \in Nat /\ Fat!ClusterSize \in Nat \ {0}
  BY Widths DEF Layout, Fat!Fat16Constants
<1>2. PICK chain \in Fat!Chains, mark \in Fat!Marks, size \in 0 .. MaxChain * Fat!ClusterSize :
        /\ size <= Len(chain) * Fat!ClusterSize
        /\ file = [chain |-> chain, mark |-> mark, size |-> size]
  BY DEF Fat!Init
<1>3. file.chain = chain /\ file.mark = mark /\ file.size = size
  BY <1>2
<1>4. PICK n \in 0 .. MaxChain : chain \in [1 .. n -> 2 .. Clusters]
  BY DEF Fat!Chains
<1>5. \A i, k \in DOMAIN chain : chain[i] = chain[k] => i = k
  BY DEF Fat!Chains
<1>6. n \in Nat /\ chain \in Seq(2 .. Clusters) /\ DOMAIN chain = 1 .. Len(chain)
  <2>1. n \in Nat
    BY <1>1
  <2>2. chain \in Seq(2 .. Clusters)
    BY <1>4, <2>1, SeqDef
  <2>3. QED
    BY <2>1, <2>2, LenProperties
<1>7. size \in Nat
  <2> DEFINE w == Fat!ClusterSize
  <2> HIDE DEF w
  <2>1. MaxChain * w \in Nat
    BY <1>1 DEF w
  <2>2. QED
    BY <2>1 DEF w
<1>8. pos = 0
  BY DEF Fat!Init
<1>9. QED
  BY <1>2, <1>3, <1>5, <1>6, <1>7, <1>8 DEF FileOK

\* A read or a seek leaves the position a natural number (fat16.c:713-714 and 737-751).
LEMMA NextFileOK ==
  ASSUME Layout, FileOK, [Fat!Next]_(Fat!vars)
  PROVE  FileOK'
<1>1. Sizes \subseteq Nat /\ Counts \subseteq Nat /\ pos \in Nat
  BY DEF Layout, Fat!Fat16Constants, FileOK
<1>2. file' = file
  BY DEF Fat!Next, Fat!vars, Fat!Read, Fat!SeekSet, Fat!SeekCur, Fat!SeekRefused
<1>3. pos' \in Nat
  <2>1. ASSUME NEW size \in Sizes, NEW nmemb \in Counts, Fat!Read(size, nmemb) PROVE pos' \in Nat
    <3>1. pos' = pos + size * nmemb \/ pos' = pos
      BY <2>1 DEF Fat!Read
    <3>2. size * nmemb \in Nat
      BY <1>1
    <3>3. QED
      BY <1>1, <3>1, <3>2
  <2>2. ASSUME NEW offset \in Sizes,
               Fat!SeekSet(offset) \/ Fat!SeekCur(offset) \/ Fat!SeekRefused(offset)
        PROVE  pos' \in Nat
    <3>1. pos' = offset \/ pos' = pos + offset \/ pos' = pos
      BY <2>2 DEF Fat!SeekSet, Fat!SeekCur, Fat!SeekRefused
    <3>2. QED
      BY <1>1, <3>1
  <2>3. CASE UNCHANGED Fat!vars
    BY <1>1, <2>3 DEF Fat!vars
  <2>4. QED
    BY <2>1, <2>2, <2>3 DEF Fat!Next
<1>4. QED
  BY <1>2, <1>3 DEF FileOK

------------------------------------------------------------------------------
(* An open file reads as FileReader says.                                    *)

\* The content is a sequence of as many bytes as the size says.
LEMMA ContentIs ==
  ASSUME FileOK
  PROVE  /\ Len(Fat!Content) = file.size
         /\ \A k \in 1 .. file.size : Fat!Content[k] = Fat!Position(k - 1)
         /\ \E S : Fat!Content \in Seq(S)
<1> DEFINE n == file.size
           S == {Fat!Position(k - 1) : k \in 1 .. n}
<1>1. n \in Nat
  BY DEF FileOK
<1>2. Fat!Content = [k \in 1 .. n |-> Fat!Position(k - 1)]
  BY DEF Fat!Content
<1> HIDE DEF n
<1>3. Fat!Content \in [1 .. n -> S]
  BY <1>2
<1> HIDE DEF S
<1>4. Fat!Content \in Seq(S) /\ Len(Fat!Content) = n
  BY <1>1, <1>3, SeqDef, LenProperties
<1>5. QED
  BY <1>2, <1>4 DEF n

\* What is read whole is a part of the content.
LEMMA RightIsContent ==
  ASSUME FileOK, NEW from \in Nat, NEW n \in Nat, from + n <= file.size, NEW x,
         Reads(from, from + n, x), Right(from, from + n, x), x.status = "ok"
  PROVE  x.bytes = SubSeq(Fat!Content, from + 1, from + n)
<1> DEFINE c == Fat!Content
           b == x.bytes
           t == SubSeq(c, from + 1, from + n)
<1>1. file.size \in Nat
  BY DEF FileOK
<1>2. Len(c) = file.size /\ \A k \in 1 .. file.size : c[k] = Fat!Position(k - 1)
  BY ContentIs
<1>3. PICK S : c \in Seq(S)
  BY ContentIs
<1>4. b \in Seq(Numbers) /\ Len(b) = n
  BY <1>1 DEF Reads, Outcomes
<1>5. \A k \in 1 .. n : b[k] = Fat!Position(from + k - 1)
  BY <1>1 DEF Right
<1> HIDE DEF b, c
<1>6. /\ t \in Seq(S) /\ Len(t) = n
      /\ \A k \in 1 .. n : t[k] = c[from + k]
  <2>1. from + 1 \in 1 .. Len(c) + 1 /\ from + n \in from .. Len(c)
    BY <1>1, <1>2
  <2> DEFINE lo == from + 1
             hi == from + n
  <2>2. lo \in 1 .. Len(c) + 1 /\ hi \in lo - 1 .. Len(c) /\ hi - lo + 1 = n
    BY <1>1, <2>1
  <2> HIDE DEF lo, hi
  <2>3. /\ SubSeq(c, lo, hi) \in Seq(S) /\ Len(SubSeq(c, lo, hi)) = hi - lo + 1
        /\ \A i \in 1 .. hi - lo + 1 : SubSeq(c, lo, hi)[i] = c[lo + i - 1]
    BY <1>3, <2>2, SubSeqProperties
  <2>4. \A k \in 1 .. n : lo + k - 1 = from + k
    BY <1>1 DEF lo
  <2>5. QED
    BY <2>2, <2>3, <2>4 DEF lo, hi
<1> HIDE DEF t
<1>7. \A k \in 1 .. n : t[k] = b[k]
  <2> SUFFICES ASSUME NEW k \in 1 .. n PROVE t[k] = b[k]
    OBVIOUS
  <2> DEFINE size == file.size
  <2>1. size \in Nat /\ from + n <= size
    BY <1>1
  <2> HIDE DEF size
  <2>2. from + k \in 1 .. size
    BY <1>1, <2>1
  <2>3. c[from + k] = Fat!Position(from + k - 1)
    <3>1. \A j \in 1 .. size : c[j] = Fat!Position(j - 1)
      BY <1>2 DEF size
    <3> DEFINE j == from + k
    <3>2. j \in 1 .. size
      BY <2>2
    <3> HIDE DEF j
    <3>3. c[j] = Fat!Position(j - 1)
      BY <3>1, <3>2
    <3>4. QED
      BY <3>3 DEF j
  <2>4. QED
    BY <1>5, <1>6, <2>3
<1>8. b \in Seq(Numbers \cup S) /\ t \in Seq(Numbers \cup S)
  BY <1>4, <1>6, SeqDef
<1>9. b = t
  BY <1>4, <1>6, <1>7, <1>8, SeqEqual
<1>10. QED
  BY <1>9 DEF b, c, t

\* A read with its step of FileReader.
ReadAs(n) == Fat!Reader!Read(n) \/ Fat!Reader!ReadPastEnd(n) \/ Fat!Reader!Fail(n)

\* A read, or fread, is a step of FileReader, unless it hangs or is torn (file.c:262-282 and
\* fat16.c:698-719).
LEMMA ReadIsRead ==
  ASSUME Layout, FileOK, NEW size \in Nat, NEW nmemb \in Nat, Fat!Read(size, nmemb)
  PROVE  hung' \/ ReadAs(size * nmemb) \/ Fat!Torn(size, nmemb)
<1> DEFINE n == size * nmemb
           x == Fat!ReadElements(size, nmemb)
           y == IF size = 0 \/ nmemb = 0 THEN Fat!Outcome("error", <<>>) ELSE x
<1>1. /\ hung' = (y.status = "hangs")
      /\ given' = IF hung' THEN given ELSE Fat!Told(y)
      /\ pos' = IF y.status = "ok" THEN pos + n ELSE pos
      /\ file' = file
  BY DEF Fat!Read
<1>2. Fat!Content' = Fat!Content
  BY <1>1 DEF Fat!Content, Fat!Position
<1>3. Len(Fat!Content) = file.size /\ pos \in Nat /\ file.size \in Nat /\ n \in Nat
  BY ContentIs DEF FileOK
<1>4. CASE size = 0 \/ nmemb = 0
  <2>1. n = 0 /\ y.status = "error"
    BY <1>4 DEF Fat!Outcome
  <2>2. given'.status = "error" /\ pos' = pos
    BY <1>1, <2>1 DEF Fat!Told, Fat!Outcome
  <2>3. Fat!Reader!Fail(n)
    BY <1>2, <2>1, <2>2 DEF Fat!Reader!Fail
  <2>4. QED
    BY <2>3 DEF ReadAs
<1>5. CASE size \in Nat \ {0} /\ nmemb \in Nat \ {0}
  <2>1. y = x
    BY <1>5
  <2>2. Reads(pos, pos + n, x) /\ (Whole(size, nmemb) => Right(pos, pos + n, x))
    BY <1>5, ReadElementsIs
  <2>3. n > 0
    BY <1>5
  <2> HIDE DEF n, x, y
  <2>4. CASE x.status = "ok"
    <3>1. given' = x /\ pos' = pos + n
      BY <1>1, <2>1, <2>4 DEF Fat!Told
    <3>2. CASE pos + n <= file.size
      <4>1. SUFFICES ASSUME ~ Fat!Torn(size, nmemb) PROVE Fat!Reader!Read(n)
        BY DEF ReadAs, n
      <4>2. Right(pos, pos + n, x)
        BY <2>2, <3>2, <4>1 DEF Whole, n
      <4>3. x.bytes = SubSeq(Fat!Content, pos + 1, pos + n)
        BY <1>3, <2>2, <2>4, <3>2, <4>2, RightIsContent
      <4>4. x = [status |-> "ok", bytes |-> SubSeq(Fat!Content, pos + 1, pos + n)]
        BY <2>2, <2>4, <4>3 DEF Reads, Outcomes
      <4>5. QED
        BY <1>2, <1>3, <2>3, <3>1, <3>2, <4>4 DEF Fat!Reader!Read
    <3>3. CASE pos + n > file.size
      <4>1. Len(x.bytes) = n
        BY <1>3, <2>2, <2>4 DEF Reads
      <4>2. Fat!Reader!ReadPastEnd(n)
        BY <1>2, <1>3, <2>3, <2>4, <3>1, <3>3, <4>1 DEF Fat!Reader!ReadPastEnd
      <4>3. QED
        BY <4>2 DEF ReadAs, n
    <3>4. QED
      BY <1>3, <3>2, <3>3
  <2>5. CASE x.status = "error"
    <3>1. given'.status = "error" /\ pos' = pos
      BY <1>1, <2>1, <2>5 DEF Fat!Told, Fat!Outcome
    <3>2. pos + n > file.size
      BY <2>2, <2>5 DEF Reads
    <3>3. Fat!Reader!Fail(n)
      BY <1>2, <1>3, <3>1, <3>2 DEF Fat!Reader!Fail
    <3>4. QED
      BY <3>3 DEF ReadAs, n
  <2>6. CASE x.status = "hangs"
    BY <1>1, <2>1, <2>6
  <2>7. QED
    BY <2>2, <2>4, <2>5, <2>6 DEF Reads, Outcomes
<1>6. QED
  BY <1>4, <1>5

\* fseek goes to a byte of the file, or ahead by less than its size (fat16.c:721-754).
LEMMA SeekIsSeek ==
  ASSUME Layout, FileOK, NEW offset \in Nat, Fat!SeekSet(offset) \/ Fat!SeekCur(offset)
  PROVE  asked' = <<>> /\ Fat!Reader!Seek
<1>1. Fat!Content' = Fat!Content
  BY DEF Fat!Content, Fat!Position, Fat!SeekSet, Fat!SeekCur
<1>2. Len(Fat!Content) = file.size /\ pos \in Nat /\ file.size \in Nat
  BY ContentIs DEF FileOK
<1>3. /\ offset < file.size
      /\ pos' = offset \/ pos' = pos + offset
      /\ given' = given /\ asked' = <<>>
  BY DEF Fat!SeekSet, Fat!SeekCur
<1>4. offset \in 0 .. Len(Fat!Content) - 1
  BY <1>2, <1>3
<1>5. pos' \in 0 .. Len(Fat!Content) - 1 \/ pos' - pos \in 0 .. Len(Fat!Content) - 1
  BY <1>2, <1>3, <1>4
<1>6. QED
  BY <1>1, <1>3, <1>5 DEF Fat!Reader!Seek

\* ImplementsReader: on every volume, whatever the chain of the file, fread gives its
\* bytes in order, fails only where there are not so many, and moves the position by
\* what was read, unless an element begins within a cluster and goes on into one that
\* does not lie behind it, or the disk hangs (file.c:248-282, fat16.c:377-488 and
\* 698-754, streamer.c:21-62).
THEOREM ReadsTheFile == Layout => (Fat!Spec => Fat!ImplementsReader)
<1> SUFFICES ASSUME Layout PROVE Fat!Spec => Fat!ImplementsReader
  OBVIOUS
<1>1. Fat!Init => FileOK /\ Fat!Reader!Init
  BY InitFileOK DEF Fat!Init, Fat!Reader!Init
<1>2. FileOK /\ [Fat!Next]_(Fat!vars) => FileOK'
  BY NextFileOK
<1>3. FileOK /\ [Fat!Next]_(Fat!vars) =>
        [\/ hung'
         \/ asked' = <<>> /\ Fat!Reader!Seek
         \/ /\ asked' # <<>>
            /\ LET n == asked'[1] * asked'[2]
               IN  \/ Fat!Reader!Read(n) \/ Fat!Reader!ReadPastEnd(n) \/ Fat!Reader!Fail(n)
                   \/ Fat!Torn(asked'[1], asked'[2])]_(Fat!Reader!vars)
  <2> SUFFICES ASSUME FileOK, Fat!Next \/ UNCHANGED Fat!vars
               PROVE  \/ hung'
                      \/ asked' = <<>> /\ Fat!Reader!Seek
                      \/ /\ asked' # <<>>
                         /\ LET n == asked'[1] * asked'[2]
                            IN  \/ Fat!Reader!Read(n) \/ Fat!Reader!ReadPastEnd(n)
                                \/ Fat!Reader!Fail(n)
                                \/ Fat!Torn(asked'[1], asked'[2])
                      \/ UNCHANGED Fat!Reader!vars
    OBVIOUS
  <2>1. Sizes \subseteq Nat /\ Counts \subseteq Nat
    BY DEF Layout, Fat!Fat16Constants
  <2>2. ASSUME NEW size \in Sizes, NEW nmemb \in Counts, Fat!Read(size, nmemb)
        PROVE  \/ hung'
               \/ /\ asked' # <<>>
                  /\ LET n == asked'[1] * asked'[2]
                     IN  \/ Fat!Reader!Read(n) \/ Fat!Reader!ReadPastEnd(n)
                         \/ Fat!Reader!Fail(n)
                         \/ Fat!Torn(asked'[1], asked'[2])
    <3>1. asked' = <<size, nmemb>>
      BY <2>2 DEF Fat!Read
    <3>2. asked' # <<>> /\ asked'[1] = size /\ asked'[2] = nmemb
      BY <3>1
    <3>3. hung' \/ ReadAs(size * nmemb) \/ Fat!Torn(size, nmemb)
      BY <2>1, <2>2, ReadIsRead
    <3>4. QED
      BY <3>2, <3>3 DEF ReadAs
  <2>3. ASSUME NEW offset \in Sizes, Fat!SeekSet(offset) \/ Fat!SeekCur(offset)
        PROVE  asked' = <<>> /\ Fat!Reader!Seek
    BY <2>1, <2>3, SeekIsSeek
  <2>4. ASSUME file' = file /\ pos' = pos /\ given' = given PROVE UNCHANGED Fat!Reader!vars
    BY <2>4 DEF Fat!Reader!vars, Fat!Content, Fat!Position
  <2>5. ASSUME NEW offset \in Sizes, Fat!SeekRefused(offset) PROVE UNCHANGED Fat!Reader!vars
    BY <2>4, <2>5 DEF Fat!SeekRefused
  <2>6. CASE UNCHANGED Fat!vars
    BY <2>4, <2>6 DEF Fat!vars
  <2>7. QED
    BY <2>2, <2>3, <2>5, <2>6 DEF Fat!Next
<1>4. QED
  BY <1>1, <1>2, <1>3, PTL DEF Fat!Spec, Fat!ImplementsReader

\* A read that is right hangs only at the last byte of the disk.
LEMMA RightHangs ==
  ASSUME NEW from \in Nat, NEW n \in Nat, NEW x, Right(from, from + n, x), x.status = "hangs"
  PROVE  \E k \in from .. from + n - 1 : Fat!Position(k) = Fat!DiskSectors * SectorSize - 1
  BY DEF Right, DiskEnd

\* HangsOnlyAtTheEnd: a read within the file that is not torn asks the disk for a
\* sector it does not have only when it takes the last byte of the disk
\* (streamer.c:33 and 55-58, disk.c:57-60).
THEOREM HangsAtTheEnd == Layout => (Fat!Spec => Fat!HangsOnlyAtTheEnd)
<1> SUFFICES ASSUME Layout PROVE Fat!Spec => Fat!HangsOnlyAtTheEnd
  OBVIOUS
<1> DEFINE Ends == LET n == asked'[1] * asked'[2] IN
                   \/ pos + n > file.size
                   \/ Fat!Torn(asked'[1], asked'[2])
                   \/ \E k \in pos .. pos + n - 1 :
                        Fat!Position(k) = Fat!DiskSectors * SectorSize - 1
<1>1. Fat!Init => FileOK /\ ~ hung
  BY InitFileOK DEF Fat!Init
<1>2. FileOK /\ [Fat!Next]_(Fat!vars) => FileOK'
  BY NextFileOK
<1>3. FileOK /\ [Fat!Next]_(Fat!vars) => [hung' => Ends]_(Fat!vars)
  <2> SUFFICES ASSUME FileOK, Fat!Next, hung' PROVE Ends
    OBVIOUS
  <2>1. Sizes \subseteq Nat /\ Counts \subseteq Nat
    BY DEF Layout, Fat!Fat16Constants
  <2>2. PICK size \in Sizes, nmemb \in Counts : Fat!Read(size, nmemb)
    BY DEF Fat!Next, Fat!SeekSet, Fat!SeekCur, Fat!SeekRefused
  <2>3. asked' = <<size, nmemb>>
    BY <2>2 DEF Fat!Read
  <2>4. asked'[1] = size /\ asked'[2] = nmemb
    BY <2>3
  <2> DEFINE n == size * nmemb
             x == Fat!ReadElements(size, nmemb)
             y == IF size = 0 \/ nmemb = 0 THEN Fat!Outcome("error", <<>>) ELSE x
  <2>5. y.status = "hangs"
    BY <2>2 DEF Fat!Read
  <2>6. y = x /\ size \in Nat \ {0} /\ nmemb \in Nat \ {0}
    BY <2>1, <2>5 DEF Fat!Outcome
  <2>7. Whole(size, nmemb) => Right(pos, pos + n, x)
    BY <2>6, ReadElementsIs
  <2>8. n \in Nat /\ pos \in Nat /\ file.size \in Nat
    BY <2>6 DEF FileOK
  <2> HIDE DEF n, x, y
  <2>9. Whole(size, nmemb) =>
          \E k \in pos .. pos + n - 1 : Fat!Position(k) = Fat!DiskSectors * SectorSize - 1
    <3>1. x.status = "hangs"
      BY <2>5, <2>6
    <3>2. QED
      BY <2>7, <2>8, <3>1, RightHangs
  <2>10. \/ pos + n > file.size \/ Fat!Torn(size, nmemb)
         \/ Whole(size, nmemb)
    BY <2>8 DEF Whole, n
  <2>11. QED
    BY <2>4, <2>9, <2>10 DEF n
<1>4. QED
  BY <1>1, <1>2, <1>3, PTL DEF Fat!Spec, Fat!HangsOnlyAtTheEnd
=============================================================================
