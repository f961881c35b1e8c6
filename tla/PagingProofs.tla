----------------------------- MODULE PagingProofs -----------------------------
(***************************************************************************)
(* Proofs about Paging, for every size of a page, a table and the heap,    *)
(* and every number of tasks and programs.                                 *)
(***************************************************************************)
EXTENDS Paging, Loops

------------------------------------------------------------------------------
(* Pages.                                                                    *)

LEMMA SizesNat == PageSize \in Nat \ {0} /\ Entries \in Nat \ {0}
  BY PagingConstants

\* Quotient and remainder are the only ones there are.
LEMMA Division ==
  ASSUME NEW d \in Nat \ {0}, NEW q \in Int, NEW r \in 0 .. d - 1, NEW n, n = d * q + r
  PROVE  n \div d = q /\ n % d = r
  <1> DEFINE p == n \div d
             s == n % d
  <1>1. n \in Int /\ d * q \in Int
    OBVIOUS
  <1>2. p \in Int /\ s \in 0 .. d - 1 /\ n = d * p + s
    BY <1>1
  <1> HIDE DEF p, s
  <1>3. d * (p - q) = d * p - d * q /\ d * p \in Int
    BY <1>1, <1>2
  <1>4. d * (p - q) = r - s /\ p - q \in Int
    BY <1>1, <1>2, <1>3
  <1>5. ~ (p - q >= 1)
    <2>1. ASSUME p - q >= 1 PROVE d * (p - q) >= d
      BY <1>4, <2>1
    <2> QED BY <1>2, <1>4, <2>1
  <1>6. ~ (p - q <= -1)
    <2>1. ASSUME p - q <= -1 PROVE d * (p - q) <= -d
      BY <1>4, <2>1
    <2> QED BY <1>2, <1>4, <2>1
  <1>7. p = q
    BY <1>2, <1>5, <1>6
  <1>8. s = r
    BY <1>1, <1>2, <1>7
  <1> QED BY <1>7, <1>8 DEF p, s

\* A multiple of d, and the sums and differences of multiples.
LEMMA Multiple ==
  ASSUME NEW d \in Nat \ {0}, NEW q \in Int
  PROVE  (d * q) % d = 0 /\ (d * q) \div d = q
  <1>1. d * q = d * q + 0 /\ 0 \in 0 .. d - 1 /\ d * q \in Int
    OBVIOUS
  <1> DEFINE n == d * q
  <1>2. n = d * q + 0
    BY <1>1
  <1> HIDE DEF n
  <1>3. n \div d = q /\ n % d = 0
    BY <1>1, <1>2, Division
  <1> QED BY <1>3 DEF n

LEMMA Multiples ==
  ASSUME NEW d \in Nat \ {0}, NEW x \in Int, NEW y \in Int, x % d = 0, y % d = 0
  PROVE  /\ (x + y) % d = 0 /\ (x + y) \div d = (x \div d) + (y \div d)
         /\ (x - y) % d = 0 /\ (x - y) \div d = (x \div d) - (y \div d)
  <1> DEFINE p == x \div d
             q == y \div d
  <1>1. p \in Int /\ q \in Int /\ x = d * p /\ y = d * q
    OBVIOUS
  <1> HIDE DEF p, q
  <1>2. x + y = d * (p + q) /\ x - y = d * (p - q) /\ p + q \in Int /\ p - q \in Int
    BY <1>1
  <1>3. (d * (p + q)) % d = 0 /\ (d * (p + q)) \div d = p + q
    BY <1>2, Multiple
  <1>4. (d * (p - q)) % d = 0 /\ (d * (p - q)) \div d = p - q
    BY <1>2, Multiple
  <1> QED BY <1>2, <1>3, <1>4 DEF p, q

\* The number of pages.
Frames == Entries * Entries

LEMMA FramesNat == Frames \in Nat \ {0} /\ Top = Frames * PageSize /\ Top = PageSize * Frames
                     /\ Top \in Nat \ {0}
  <1>1. Frames \in Nat
    BY SizesNat DEF Frames
  <1>2. Frames # 0
    BY SizesNat DEF Frames
  <1>3. Top = Frames * PageSize
    BY DEF Top, Frames
  <1> HIDE DEF Frames
  <1>4. Frames * PageSize = PageSize * Frames /\ Frames * PageSize \in Nat /\ Frames * PageSize # 0
    BY <1>1, <1>2, SizesNat
  <1> QED BY <1>1, <1>2, <1>3, <1>4

\* The pages are the multiples of the size of a page.
LEMMA PagesAre ==
  ASSUME NEW v
  PROVE  v \in Pages <=> (v \in 0 .. Top - 1 /\ v % PageSize = 0)
  <1>1. Frames \in Nat \ {0} /\ Top = PageSize * Frames /\ Pages = {i * PageSize : i \in 0 .. Frames - 1}
    BY FramesNat DEF Pages, Frames
  <1>2. ASSUME NEW i \in 0 .. Frames - 1, v = i * PageSize
        PROVE  v \in 0 .. Top - 1 /\ v % PageSize = 0
    <2>1. v = PageSize * i /\ v \in Nat
      BY <1>2, SizesNat
    <2>2. PageSize * Frames - PageSize * i = PageSize * (Frames - i)
      BY <1>1, SizesNat
    <2>3. PageSize * (Frames - i) >= 1
      BY <1>1, SizesNat
    <2>4. (PageSize * i) % PageSize = 0
      BY Multiple, SizesNat
    <2>5. PageSize * i \in Int /\ PageSize * Frames \in Int
      BY <1>1, SizesNat
    <2> QED BY <1>1, <2>1, <2>2, <2>3, <2>4, <2>5
  <1>3. ASSUME v \in 0 .. Top - 1, v % PageSize = 0
        PROVE  v \in Pages
    <2> DEFINE i == v \div PageSize
    <2>1. i \in Int /\ v = PageSize * i /\ v \in Int
      BY <1>3, FramesNat, SizesNat
    <2> HIDE DEF i
    <2>2. i >= 0
      <3>1. ASSUME i <= -1 PROVE PageSize * i <= -1
        BY <2>1, <3>1, SizesNat
      <3> QED BY <1>3, <2>1, <3>1, FramesNat
    <2>3. i < Frames
      <3>1. PageSize * i - PageSize * Frames = PageSize * (i - Frames)
        BY <1>1, <2>1, SizesNat
      <3>2. ASSUME i >= Frames PROVE PageSize * (i - Frames) >= 0
        BY <1>1, <2>1, <3>2, SizesNat
      <3>3. PageSize * i \in Int /\ PageSize * Frames \in Int
        BY <1>1, <2>1, SizesNat
      <3> QED BY <1>1, <1>3, <2>1, <3>1, <3>2, <3>3
    <2>4. v = i * PageSize /\ i \in 0 .. Frames - 1
      BY <1>1, <2>1, <2>2, <2>3, SizesNat
    <2> QED BY <1>1, <2>4
  <1> QED BY <1>1, <1>2, <1>3

LEMMA PageNumber ==
  ASSUME NEW v \in Pages
  PROVE  v \div PageSize \in 0 .. Frames - 1 /\ v = PageSize * (v \div PageSize)
  <1> DEFINE n == v \div PageSize
  <1>1. v \in 0 .. Top - 1 /\ v % PageSize = 0 /\ Top = PageSize * Frames /\ Frames \in Nat \ {0}
    BY PagesAre, FramesNat
  <1>2. n \in Int /\ v = PageSize * n
    BY <1>1, SizesNat
  <1> HIDE DEF n
  <1>3. ~ (n <= -1)
    <2>1. ASSUME n <= -1 PROVE PageSize * n <= -1
      BY <1>2, <2>1, SizesNat
    <2> QED BY <1>1, <1>2, <2>1
  <1>4. ~ (n >= Frames)
    <2>1. PageSize * n - PageSize * Frames = PageSize * (n - Frames)
      BY <1>1, <1>2, SizesNat
    <2>2. ASSUME n >= Frames PROVE PageSize * (n - Frames) >= 0
      BY <1>1, <1>2, <2>2, SizesNat
    <2>3. PageSize * n \in Int /\ PageSize * Frames \in Int
      BY <1>1, <1>2, SizesNat
    <2> QED BY <1>1, <1>2, <2>1, <2>2, <2>3
  <1> QED BY <1>1, <1>2, <1>3, <1>4 DEF n

\* paging_get_indexes of a page and of the page at two indexes (paging.c:57-69).
LEMMA IndexesOf ==
  ASSUME NEW i \in Indexes, NEW b \in Indexes, NEW v, v = (i * Entries + b) * PageSize
  PROVE  /\ v \in Pages /\ v \div PageSize = i * Entries + b
         /\ DirectoryIndex(v) = i /\ TableIndex(v) = b
  <1> DEFINE n == i * Entries + b
             Span == Entries * PageSize
  <1>1. Entries \in Nat \ {0} /\ PageSize \in Nat \ {0} /\ i \in 0 .. Entries - 1 /\ b \in 0 .. Entries - 1
    BY SizesNat DEF Indexes
  <1>2. i * Entries \in Nat /\ n \in Nat /\ n \in 0 .. Frames - 1
    <2>1. i * Entries \in Nat /\ Entries * Entries \in Nat
      BY <1>1
    <2>2. Entries * Entries - i * Entries = (Entries - i) * Entries
      BY <1>1
    <2>3. (Entries - i) * Entries >= Entries
      BY <1>1
    <2> QED BY <1>1, <2>1, <2>2, <2>3 DEF Frames
  <1>3. Span \in Nat \ {0}
    BY <1>1
  <1>4. PageSize * b \in 0 .. Span - 1
    <2>1. Span - PageSize * b = PageSize * (Entries - b) /\ PageSize * b \in Nat
      BY <1>1
    <2>2. PageSize * (Entries - b) >= 1
      BY <1>1
    <2> QED BY <1>3, <2>1, <2>2
  <1>5. v = Span * i + PageSize * b
    <2>1. (i * Entries + b) * PageSize = (i * Entries) * PageSize + b * PageSize
      BY <1>1
    <2>2. (i * Entries) * PageSize = (Entries * PageSize) * i
      BY <1>1
    <2> QED BY <1>1, <2>1, <2>2
  <1>6. v = PageSize * n /\ n \in Int
    BY <1>1, <1>2
  <1>7. v \in Pages
    BY <1>2 DEF Pages, Frames
  <1> HIDE DEF n
  <1>8. v \div PageSize = n
    BY <1>1, <1>6, Multiple
  <1> HIDE DEF Span
  <1>9. v \div Span = i /\ v % Span = PageSize * b
    <2> DEFINE m == PageSize * b
    <2>1. m \in 0 .. Span - 1 /\ v = Span * i + m /\ i \in Int /\ Span \in Nat \ {0}
      BY <1>1, <1>3, <1>4, <1>5
    <2> HIDE DEF m
    <2>2. v \div Span = i /\ v % Span = m
      BY <2>1, Division
    <2> QED BY <2>2 DEF m
  <1>10. (PageSize * b) \div PageSize = b
    BY <1>1, Multiple
  <1> QED BY <1>7, <1>8, <1>9, <1>10 DEF DirectoryIndex, TableIndex, Span, n

LEMMA IndexesOfPage ==
  ASSUME NEW v \in Pages
  PROVE  /\ DirectoryIndex(v) \in Indexes /\ TableIndex(v) \in Indexes
         /\ v = (DirectoryIndex(v) * Entries + TableIndex(v)) * PageSize
         /\ v \div PageSize = DirectoryIndex(v) * Entries + TableIndex(v)
  <1> DEFINE n == v \div PageSize
             i == n \div Entries
             b == n % Entries
  <1>1. n \in 0 .. Frames - 1 /\ v = PageSize * n
    BY PageNumber
  <1>2. Entries \in Nat \ {0} /\ Frames = Entries * Entries /\ Frames \in Nat
    BY FramesNat, SizesNat DEF Frames
  <1> HIDE DEF n
  <1>3. n \in Int
    BY <1>1, <1>2
  <1>4. i \in Int /\ b \in 0 .. Entries - 1 /\ n = Entries * i + b
    BY <1>2, <1>3
  <1> HIDE DEF i, b
  <1>5. Entries * i \in Int
    BY <1>2, <1>4
  <1>6. ~ (i <= -1)
    <2>1. ASSUME i <= -1 PROVE Entries * i <= -Entries
      <3>1. Entries * (i + 1) = Entries * i + Entries
        BY <1>2, <1>4
      <3>2. Entries * (i + 1) <= 0
        BY <1>2, <1>4, <2>1
      <3> QED BY <1>2, <1>5, <3>1, <3>2
    <2> QED BY <1>1, <1>2, <1>4, <1>5, <2>1
  <1>7. ~ (i >= Entries)
    <2>1. Entries * i - Entries * Entries = Entries * (i - Entries)
      BY <1>2, <1>4
    <2>2. ASSUME i >= Entries PROVE Entries * (i - Entries) >= 0
      BY <1>2, <1>4, <2>2
    <2> QED BY <1>1, <1>2, <1>4, <1>5, <2>1, <2>2
  <1>8. i \in Indexes /\ b \in Indexes
    BY <1>2, <1>4, <1>6, <1>7 DEF Indexes
  <1>9. v = (i * Entries + b) * PageSize
    BY <1>1, <1>2, <1>4, SizesNat
  <1> QED BY <1>8, <1>9, IndexesOf

------------------------------------------------------------------------------
(* Directories.                                                              *)

Directories == [Indexes -> [Indexes -> [frame : Nat, flags : SUBSET Writable]]]

\* A directory is what it says of each page.
LEMMA SameDirectory ==
  ASSUME NEW d \in Directories, NEW e \in Directories,
         \A v \in Pages : Get(d, v) = Get(e, v)
  PROVE  d = e
  <1>1. ASSUME NEW i \in Indexes, NEW b \in Indexes PROVE d[i][b] = e[i][b]
    <2> DEFINE v == (i * Entries + b) * PageSize
    <2>1. v \in Pages /\ DirectoryIndex(v) = i /\ TableIndex(v) = b
      BY IndexesOf
    <2> HIDE DEF v
    <2>2. Get(d, v) = Get(e, v)
      BY <2>1
    <2> QED BY <2>1, <2>2 DEF Get
  <1>2. ASSUME NEW i \in Indexes PROVE d[i] = e[i]
    <2>1. /\ d[i] \in [Indexes -> [frame : Nat, flags : SUBSET Writable]]
          /\ e[i] \in [Indexes -> [frame : Nat, flags : SUBSET Writable]]
      BY DEF Directories
    <2> QED BY <1>1, <2>1
  <1> QED BY <1>2 DEF Directories

LEMMA SamePlace ==
  ASSUME NEW v \in Pages, NEW w \in Pages,
         DirectoryIndex(v) = DirectoryIndex(w), TableIndex(v) = TableIndex(w)
  PROVE  v = w
  BY IndexesOfPage

\* paging_set and paging_get (paging.c:144-178).
LEMMA GetSet ==
  ASSUME NEW d \in Directories, NEW w \in Pages, NEW e \in [frame : Nat, flags : SUBSET Writable]
  PROVE  /\ Set(d, w, e) \in Directories
         /\ \A v \in Pages : Get(Set(d, w, e), v) = IF v = w THEN e ELSE Get(d, v)
  <1> DEFINE i == DirectoryIndex(w)
             b == TableIndex(w)
  <1>1. i \in Indexes /\ b \in Indexes
    BY IndexesOfPage
  <1>2. Set(d, w, e) = [d EXCEPT ![i][b] = e]
    BY DEF Set
  <1> HIDE DEF i, b
  <1>3. [d EXCEPT ![i][b] = e] \in Directories
    BY <1>1 DEF Directories
  <1>4. ASSUME NEW j \in Indexes, NEW c \in Indexes
        PROVE  [d EXCEPT ![i][b] = e][j][c] = IF j = i /\ c = b THEN e ELSE d[j][c]
    BY <1>1 DEF Directories
  <1>5. ASSUME NEW v \in Pages
        PROVE  Get(Set(d, w, e), v) = IF v = w THEN e ELSE Get(d, v)
    <2>1. DirectoryIndex(v) \in Indexes /\ TableIndex(v) \in Indexes
      BY IndexesOfPage
    <2>2. (DirectoryIndex(v) = i /\ TableIndex(v) = b) <=> v = w
      BY SamePlace DEF i, b
    <2> QED BY <1>2, <1>4, <2>1, <2>2 DEF Get
  <1> QED BY <1>2, <1>3, <1>5

\* paging_new_4gb (paging.c:10-28).
LEMMA GetNew ==
  ASSUME NEW flags \in SUBSET Writable
  PROVE  /\ New(flags) \in Directories
         /\ \A v \in Pages : Get(New(flags), v) = Entry(v, flags)
  <1>1. ASSUME NEW i \in Indexes, NEW b \in Indexes
        PROVE  Entry((i * Entries + b) * PageSize, flags) \in [frame : Nat, flags : SUBSET Writable]
    <2>1. (i * Entries + b) * PageSize \in Pages
      BY IndexesOf
    <2> QED BY <2>1, PagesAre, FramesNat DEF Entry
  <1>2. New(flags) \in Directories
    BY <1>1 DEF New, Directories
  <1>3. ASSUME NEW v \in Pages PROVE Get(New(flags), v) = Entry(v, flags)
    BY IndexesOfPage DEF Get, New
  <1> QED BY <1>2, <1>3

\* How many pages v lies after virt.
Steps(virt, v) == (v \div PageSize) - (virt \div PageSize)

\* paging_map_range, page by page (paging.c:96-108).
LEMMA GetMapRange ==
  ASSUME NEW d \in Directories, NEW virt \in Nat, NEW phys \in Nat, NEW n \in Int,
         NEW flags \in SUBSET Writable
  PROVE  /\ MapRange(d, virt, phys, n, flags) \in Directories
         /\ \A v \in Pages :
              Get(MapRange(d, virt, phys, n, flags), v) =
                IF Steps(virt, v) \in 0 .. n - 1
                THEN Entry((phys + Steps(virt, v) * PageSize) % Top, flags)
                ELSE Get(d, v)
  <1>1. ASSUME NEW i \in Indexes, NEW b \in Indexes
        PROVE  (LET k == (i * Entries + b) - (virt \div PageSize)
                IN  IF k \in 0 .. n - 1 THEN Entry((phys + k * PageSize) % Top, flags)
                    ELSE d[i][b])
                 \in [frame : Nat, flags : SUBSET Writable]
    <2> DEFINE k == (i * Entries + b) - (virt \div PageSize)
    <2>1. d[i][b] \in [frame : Nat, flags : SUBSET Writable]
      BY DEF Directories
    <2>2. ASSUME k \in 0 .. n - 1 PROVE (phys + k * PageSize) % Top \in Nat
      <3> HIDE DEF k
      <3>1. phys + k * PageSize \in Int
        BY <2>2, SizesNat
      <3> QED BY <3>1, FramesNat
    <2> HIDE DEF k
    <2>3. (IF k \in 0 .. n - 1 THEN Entry((phys + k * PageSize) % Top, flags) ELSE d[i][b])
             \in [frame : Nat, flags : SUBSET Writable]
      BY <2>1, <2>2 DEF Entry
    <2> QED BY <2>3 DEF k
  <1>2. MapRange(d, virt, phys, n, flags) \in Directories
    BY <1>1 DEF MapRange, Directories
  <1>3. ASSUME NEW v \in Pages
        PROVE  Get(MapRange(d, virt, phys, n, flags), v) =
                 IF Steps(virt, v) \in 0 .. n - 1
                 THEN Entry((phys + Steps(virt, v) * PageSize) % Top, flags)
                 ELSE Get(d, v)
    BY IndexesOfPage DEF Get, MapRange, Steps
  <1> QED BY <1>2, <1>3

\* The distance between two pages, in pages.
LEMMA Distance ==
  ASSUME NEW x \in Nat, x % PageSize = 0, NEW y \in Nat, y % PageSize = 0, NEW n \in Int
  PROVE  /\ Steps(y, x) \in Int /\ x - y = PageSize * Steps(y, x)
         /\ Steps(y, x) <= n <=> x - y <= PageSize * n
         /\ Steps(y, x) < n <=> x - y < PageSize * n
         /\ Steps(y, x) >= 0 <=> x >= y
         /\ Steps(y, x) = n <=> x = y + n * PageSize
  <1> DEFINE k == Steps(y, x)
  <1>1. PageSize \in Nat \ {0} /\ x \in Int /\ y \in Int
    BY SizesNat
  <1>2. (x - y) % PageSize = 0 /\ (x - y) \div PageSize = k
    BY <1>1, Multiples DEF Steps
  <1> HIDE DEF k
  <1>3. k \in Int /\ x - y = PageSize * k
    BY <1>1, <1>2
  <1>4. PageSize * k - PageSize * n = PageSize * (k - n) /\ PageSize * k \in Int /\ PageSize * n \in Int
    BY <1>1, <1>3
  <1>5. /\ k - n <= 0 => PageSize * (k - n) <= 0
        /\ k - n < 0 => PageSize * (k - n) < 0
        /\ k - n > 0 => PageSize * (k - n) > 0
        /\ k - n >= 0 => PageSize * (k - n) >= 0
    BY <1>1, <1>3
  <1>6. (k <= n <=> x - y <= PageSize * n) /\ (k < n <=> x - y < PageSize * n)
    BY <1>1, <1>3, <1>4, <1>5
  <1>7. k = n <=> x - y = PageSize * n
    BY <1>1, <1>3, <1>4, <1>5
  <1>8. k >= 0 <=> x >= y
    <2>1. (k >= 0 => PageSize * k >= 0) /\ (k < 0 => PageSize * k < 0)
      BY <1>1, <1>3
    <2> QED BY <1>1, <1>3, <2>1
  <1>9. k = n <=> x = y + n * PageSize
    <2>1. PageSize * n = n * PageSize
      BY <1>1
    <2> QED BY <1>1, <1>4, <1>7, <2>1
  <1> QED BY <1>3, <1>6, <1>8, <1>9 DEF k

\* The loop of paging_map_range writes what MapRange says, for every range that
\* does not go past the end of the address space (paging.c:96-108).
LEMMA MapLoopIsMapRange ==
  ASSUME NEW d \in Directories, NEW virt \in Pages, NEW phys \in Nat, NEW n \in Nat,
         virt + n * PageSize <= Top, NEW flags \in SUBSET Writable
  PROVE  MapLoop(d, virt, phys, n, flags) = MapRange(d, virt, phys, n, flags)
  <1> DEFINE range(i) == MapRange(d, virt, phys, i, flags)
             Turn(was, i) == Set(was, virt + (i - 1) * PageSize,
                                 Entry((phys + (i - 1) * PageSize) % Top, flags))
             after == CHOOSE f : f = [i \in 0 .. n |-> IF i = 0 THEN d ELSE Turn(f[i - 1], i)]
             f0 == [i \in 0 .. n |-> range(i)]
  <1>1. virt \in Nat /\ virt % PageSize = 0 /\ virt < Top /\ PageSize \in Nat \ {0} /\ Top \in Nat \ {0}
    BY PagesAre, FramesNat, SizesNat
  <1>2. range(0) = d
    <2>1. range(0) \in Directories /\ 0 - 1 = -1 /\ 0 .. -1 = {}
      BY <1>1, GetMapRange
    <2>2. \A v \in Pages : Get(range(0), v) = Get(d, v)
      BY <1>1, <2>1, GetMapRange
    <2> QED BY <2>1, <2>2, SameDirectory
  <1>3. ASSUME NEW i \in 1 .. n PROVE Turn(range(i - 1), i) = range(i)
    <2> DEFINE w == virt + (i - 1) * PageSize
               e == Entry((phys + (i - 1) * PageSize) % Top, flags)
    <2>1. (i - 1) * PageSize \in Nat /\ ((i - 1) * PageSize) % PageSize = 0
      <3>1. (PageSize * (i - 1)) % PageSize = 0 /\ PageSize * (i - 1) = (i - 1) * PageSize
        BY <1>1, Multiple
      <3> QED BY <1>1, <3>1
    <2>2. w < Top
      <3>1. n * PageSize - (i - 1) * PageSize = (n - i + 1) * PageSize /\ (n - i + 1) * PageSize >= 1
        BY <1>1
      <3>2. n * PageSize \in Nat
        BY <1>1
      <3> QED BY <1>1, <2>1, <3>1, <3>2
    <2>3. w \in Pages
      <3>1. w % PageSize = 0
        <4> DEFINE m == (i - 1) * PageSize
        <4>1. m \in Int /\ m % PageSize = 0 /\ virt \in Int
          BY <1>1, <2>1
        <4> HIDE DEF m
        <4>2. (virt + m) % PageSize = 0
          BY <1>1, <4>1, Multiples
        <4> QED BY <4>2 DEF m
      <3> QED BY <1>1, <2>1, <2>2, <3>1, PagesAre
    <2>4. e \in [frame : Nat, flags : SUBSET Writable]
      <3>1. (phys + (i - 1) * PageSize) % Top \in Nat
        BY <1>1, <2>1
      <3> QED BY <3>1 DEF Entry
    <2> HIDE DEF e
    <2>5. range(i - 1) \in Directories /\ range(i) \in Directories
      BY <1>1, GetMapRange
    <2>6. ASSUME NEW v \in Pages
          PROVE  Get(Set(range(i - 1), w, e), v) = Get(range(i), v)
      <3> DEFINE k == Steps(virt, v)
      <3>1. k \in Int /\ (k = i - 1 <=> v = w)
        <4> DEFINE m == i - 1
        <4>1. v \in Nat /\ v % PageSize = 0 /\ m \in Int
          BY PagesAre, FramesNat
        <4> HIDE DEF m
        <4>2. k \in Int /\ (k = m <=> v = virt + m * PageSize)
          BY <1>1, <4>1, Distance
        <4> QED BY <4>2 DEF m
      <3>2. Get(range(i), v) = IF k \in 0 .. i - 1 THEN Entry((phys + k * PageSize) % Top, flags)
                               ELSE Get(d, v)
        BY <1>1, GetMapRange
      <3>3. Get(range(i - 1), v) =
              IF k \in 0 .. (i - 1) - 1 THEN Entry((phys + k * PageSize) % Top, flags) ELSE Get(d, v)
        <4> DEFINE m == i - 1
        <4>1. m \in Int
          OBVIOUS
        <4> HIDE DEF m
        <4>2. Get(MapRange(d, virt, phys, m, flags), v) =
                IF Steps(virt, v) \in 0 .. m - 1
                THEN Entry((phys + Steps(virt, v) * PageSize) % Top, flags) ELSE Get(d, v)
          BY <1>1, <4>1, GetMapRange
        <4> QED BY <4>2 DEF m
      <3> HIDE DEF w, range
      <3>4. Get(Set(range(i - 1), w, e), v) = IF v = w THEN e ELSE Get(range(i - 1), v)
        BY <2>3, <2>4, <2>5, GetSet
      <3> HIDE DEF k
      <3>5. CASE v = w
        BY <3>1, <3>2, <3>4, <3>5 DEF e
      <3>6. CASE v # w
        <4>1. k \in 0 .. i - 1 <=> k \in 0 .. (i - 1) - 1
          BY <3>1, <3>6
        <4> QED BY <3>2, <3>3, <3>4, <3>6, <4>1
      <3> QED BY <3>5, <3>6
    <2>7. Set(range(i - 1), w, e) \in Directories
      <3> HIDE DEF w, range
      <3> QED BY <2>3, <2>4, <2>5, GetSet
    <2>8. Set(range(i - 1), w, e) = range(i)
      <3> HIDE DEF w, range
      <3> QED BY <2>5, <2>6, <2>7, SameDirectory
    <2> QED BY <2>8 DEF e
  <1> HIDE DEF range, Turn
  <1>4. f0 = [i \in 0 .. n |-> IF i = 0 THEN d ELSE Turn(f0[i - 1], i)]
    <2>1. ASSUME NEW i \in 0 .. n PROVE f0[i] = IF i = 0 THEN d ELSE Turn(f0[i - 1], i)
      <3>1. CASE i = 0
        BY <1>2, <3>1
      <3>2. CASE i # 0
        <4>1. i \in 1 .. n /\ i - 1 \in 0 .. n
          BY <3>2
        <4>2. f0[i] = range(i) /\ f0[i - 1] = range(i - 1)
          BY <4>1
        <4> HIDE DEF f0
        <4> QED BY <1>3, <3>2, <4>1, <4>2
      <3> QED BY <3>1, <3>2
    <2> QED BY <2>1
  <1> HIDE DEF f0
  <1>5. after = [i \in 0 .. n |-> IF i = 0 THEN d ELSE Turn(after[i - 1], i)]
    BY <1>4
  <1> HIDE DEF after
  <1>6. \A i \in 0 .. n : after[i] = IF i = 0 THEN d ELSE Turn(after[i - 1], i)
    BY <1>5
  <1> DEFINE S == {i \in Nat : i <= n => after[i] = range(i)}
  <1>7. 0 \in S
    BY <1>2, <1>6
  <1>8. ASSUME NEW i \in Nat, i \in S PROVE i + 1 \in S
    <2>1. ASSUME i + 1 <= n PROVE after[i + 1] = range(i + 1)
      <3>1. after[i] = range(i) /\ i + 1 \in 1 .. n /\ i + 1 \in 0 .. n /\ (i + 1) - 1 = i /\ i + 1 # 0
        BY <1>8, <2>1
      <3>2. after[i + 1] = Turn(after[i], i + 1)
        BY <1>6, <3>1
      <3>3. Turn(range(i), i + 1) = range(i + 1)
        BY <1>3, <3>1
      <3> QED BY <3>1, <3>2, <3>3
    <2> QED BY <2>1
  <1> HIDE DEF S
  <1>9. n \in S
    BY <1>7, <1>8, Induct
  <1>10. after[n] = range(n)
    BY <1>9 DEF S
  <1> QED BY <1>10 DEF MapLoop, after, range, Turn

\* paging_map_to, for a range in memory (paging.c:110-142).
LEMMA GetMapTo ==
  ASSUME NEW d \in Directories, NEW virt \in Nat, NEW phys \in Nat, NEW end \in Nat,
         ~Refused(virt, phys, end), end <= Top, NEW flags \in SUBSET Writable
  PROVE  /\ MapTo(d, virt, phys, end, flags) \in Directories
         /\ \A v \in Pages :
              Get(MapTo(d, virt, phys, end, flags), v) =
                IF virt <= v /\ v < virt + (end - phys) THEN Entry(phys + (v - virt), flags)
                ELSE Get(d, v)
  <1> DEFINE n == (end - phys) \div PageSize
  <1>1. /\ virt % PageSize = 0 /\ phys % PageSize = 0 /\ end % PageSize = 0 /\ phys <= end
        /\ PageSize \in Nat \ {0}
    BY SizesNat DEF Refused, IsAligned
  <1>2. n \in Int /\ end - phys = PageSize * n
    <2>1. (end - phys) % PageSize = 0
      <3>1. end \in Int /\ phys \in Int
        OBVIOUS
      <3> QED BY <1>1, <3>1, Multiples
    <2> QED BY <1>1, <2>1
  <1>3. MapTo(d, virt, phys, end, flags) = MapRange(d, virt, phys, n, flags)
    BY DEF MapTo
  <1> HIDE DEF n
  <1>4. ASSUME NEW v \in Pages
        PROVE  Get(MapRange(d, virt, phys, n, flags), v) =
                 IF virt <= v /\ v < virt + (end - phys) THEN Entry(phys + (v - virt), flags)
                 ELSE Get(d, v)
    <2> DEFINE k == Steps(virt, v)
    <2>1. v \in Nat /\ v % PageSize = 0
      BY PagesAre, FramesNat
    <2>2. /\ k \in Int /\ v - virt = PageSize * k /\ (k >= 0 <=> v >= virt)
          /\ (k < n <=> v - virt < PageSize * n)
      BY <1>1, <1>2, <2>1, Distance
    <2>3. Get(MapRange(d, virt, phys, n, flags), v) =
            IF k \in 0 .. n - 1 THEN Entry((phys + k * PageSize) % Top, flags) ELSE Get(d, v)
      BY <1>2, GetMapRange
    <2> HIDE DEF k
    <2>4. k \in 0 .. n - 1 <=> (virt <= v /\ v < virt + (end - phys))
      BY <1>2, <2>1, <2>2
    <2>5. ASSUME virt <= v, v < virt + (end - phys)
          PROVE  (phys + k * PageSize) % Top = phys + (v - virt)
      <3>1. k * PageSize = v - virt
        BY <1>1, <2>2
      <3>2. phys + (v - virt) \in 0 .. Top - 1
        BY <2>1, <2>5, FramesNat
      <3> QED BY <3>1, <3>2, FramesNat
    <2> QED BY <2>3, <2>4, <2>5
  <1> QED BY <1>2, <1>3, <1>4, GetMapRange

------------------------------------------------------------------------------
(* Alignment.                                                                *)

LEMMA Aligned ==
  /\ IsAligned(0) /\ IsAligned(PageSize) /\ IsAligned(Top)
  /\ \A x, y \in Int : IsAligned(x) /\ IsAligned(y) => IsAligned(x + y) /\ IsAligned(x - y)
  /\ \A v : v \in Pages <=> v \in 0 .. Top - 1 /\ IsAligned(v)
  <1>1. PageSize \in Nat \ {0} /\ Top = PageSize * Frames /\ Frames \in Nat
    BY FramesNat, SizesNat
  <1>2. Top % PageSize = 0 /\ 0 % PageSize = 0 /\ PageSize % PageSize = 0
    BY <1>1, Multiple
  <1>3. ASSUME NEW x \in Int, NEW y \in Int, IsAligned(x), IsAligned(y)
        PROVE  IsAligned(x + y) /\ IsAligned(x - y)
    BY <1>1, <1>3, Multiples DEF IsAligned
  <1> QED BY <1>2, <1>3, PagesAre DEF IsAligned

LEMMA PageNat == \A v \in Pages : v \in Nat /\ IsAligned(v) /\ v < Top
  <1> TAKE v \in Pages
  <1>1. v \in 0 .. Top - 1 /\ IsAligned(v) /\ Top \in Nat
    BY Aligned, FramesNat
  <1> QED BY <1>1

\* paging_align_to_lower_page (paging.c:80-85).
LEMMA Down ==
  ASSUME NEW x \in Nat
  PROVE  /\ AlignDown(x) \in Nat /\ IsAligned(AlignDown(x))
         /\ x % PageSize \in 0 .. PageSize - 1 /\ AlignDown(x) + (x % PageSize) = x
         /\ IsAligned(x) => AlignDown(x) = x
  <1> DEFINE q == x \div PageSize
             r == x % PageSize
  <1>1. q \in Nat /\ r \in 0 .. PageSize - 1 /\ x = PageSize * q + r /\ PageSize \in Nat \ {0}
    BY SizesNat
  <1> HIDE DEF q, r
  <1>2. PageSize * q \in Nat /\ (PageSize * q) % PageSize = 0 /\ x - r = PageSize * q
    BY <1>1, Multiple
  <1>3. AlignDown(x) = x - r /\ (IsAligned(x) <=> r = 0)
    BY DEF AlignDown, IsAligned, r
  <1>4. x - r + r = x /\ (r = 0 => x - r = x)
    BY <1>1
  <1> QED BY <1>1, <1>2, <1>3, <1>4 DEF r, IsAligned

\* Between a multiple of the size of a page and the next there is none.
LEMMA NextMultiple ==
  ASSUME NEW x \in Int, IsAligned(x), NEW y \in Int, IsAligned(y), x < y
  PROVE  x + PageSize <= y
  <1> DEFINE q == (y - x) \div PageSize
  <1>1. PageSize \in Nat \ {0} /\ (y - x) % PageSize = 0 /\ y - x \in Int
    <2>1. IsAligned(y - x)
      BY Aligned
    <2> QED BY <2>1, SizesNat DEF IsAligned
  <1>2. q \in Int /\ y - x = PageSize * q
    BY <1>1
  <1> HIDE DEF q
  <1>3. q >= 1
    <2>1. q <= 0 => PageSize * q <= 0
      BY <1>1, <1>2
    <2> QED BY <1>2, <2>1
  <1>4. PageSize * q >= PageSize
    BY <1>1, <1>2, <1>3
  <1> QED BY <1>1, <1>2, <1>4

\* paging_align_address, where it does not wrap (paging.c:71-78).
LEMMA Up ==
  ASSUME NEW x \in Nat, x <= Top - PageSize
  PROVE  /\ AlignUp(x) \in Nat /\ IsAligned(AlignUp(x))
         /\ x <= AlignUp(x) /\ AlignUp(x) <= Top - PageSize
         /\ IsAligned(x) => AlignUp(x) = x
         /\ \A v \in Int : IsAligned(v) => (v < AlignUp(x) <=> v < x)
  <1> DEFINE r == x % PageSize
             low == AlignDown(x)
  <1>1. /\ low \in Nat /\ IsAligned(low) /\ r \in 0 .. PageSize - 1 /\ low + r = x
        /\ (IsAligned(x) <=> r = 0)
    BY Down DEF IsAligned
  <1>2. PageSize \in Nat \ {0} /\ Top \in Nat \ {0}
    BY FramesNat, SizesNat
  <1>3. AlignUp(x) = IF IsAligned(x) THEN x ELSE (x + PageSize - r) % Top
    BY DEF AlignUp
  <1> HIDE DEF r, low
  <1>4. CASE IsAligned(x)
    BY <1>1, <1>2, <1>3, <1>4
  <1>5. CASE ~IsAligned(x)
    <2> DEFINE up == low + PageSize
    <2>1. x + PageSize - r = up /\ up \in Nat /\ IsAligned(up)
      BY <1>1, <1>2, Aligned
    <2>2. low < Top - PageSize /\ IsAligned(Top - PageSize) /\ Top - PageSize \in Int
      BY <1>1, <1>2, <1>5, Aligned
    <2>3. up <= Top - PageSize
      BY <1>1, <1>2, <2>2, NextMultiple
    <2>4. up % Top = up
      BY <1>2, <2>1, <2>3
    <2>5. x <= up /\ x > low
      BY <1>1, <1>2, <1>5
    <2>6. ASSUME NEW v \in Int, IsAligned(v) PROVE v < up <=> v < x
      <3>1. ASSUME v < up, ~ (v < x) PROVE FALSE
        <4>1. low < v /\ low \in Int
          BY <1>1, <2>5, <2>6, <3>1
        <4>2. low + PageSize <= v
          BY <1>1, <2>6, <4>1, NextMultiple
        <4> QED BY <1>1, <1>2, <2>6, <3>1, <4>2
      <3>2. v < x => v < up
        BY <1>1, <2>1, <2>5, <2>6
      <3> QED BY <3>1, <3>2
    <2> QED BY <1>3, <1>5, <2>1, <2>3, <2>4, <2>5, <2>6
  <1> QED BY <1>4, <1>5

\* The offset in a page does not change with the page a file begins at.
LEMMA SameOffset ==
  ASSUME NEW p \in Nat, IsAligned(p), NEW x \in Nat
  PROVE  (p + x) % PageSize = x % PageSize
  <1> DEFINE q == p \div PageSize
             u == x \div PageSize
             r == x % PageSize
  <1>1. /\ q \in Int /\ u \in Int /\ r \in 0 .. PageSize - 1 /\ PageSize \in Nat \ {0}
        /\ p = PageSize * q /\ x = PageSize * u + r
    BY SizesNat DEF IsAligned
  <1> HIDE DEF q, u, r
  <1>2. p + x = PageSize * (q + u) + r /\ q + u \in Int
    BY <1>1
  <1>3. (p + x) % PageSize = r
    BY <1>1, <1>2, Division
  <1> QED BY <1>3 DEF r

------------------------------------------------------------------------------
(* What is mapped.                                                           *)

Flags(s) == IF s.write THEN Writable ELSE Readable

\* Where a page of a segment leads.
FrameAt(ptr, s, v) == AlignDown(ptr + s.offset) + (v - AlignDown(s.vaddr))

\* A segment ends in memory (what LinkedApart says of each).
EndsInMemory(ptr, s) == ptr + s.offset + s.memsz <= Top - PageSize

LEMMA PoolPages ==
  /\ Pool \subseteq Pages /\ \A a \in Pool : a \in Nat /\ IsAligned(a) /\ a < Top - PageSize
  <1>1. ASSUME NEW a \in Pool PROVE a \in Pages /\ a \in Nat /\ IsAligned(a) /\ a < Top - PageSize
    <2>1. a \in Pages /\ a # Top - PageSize /\ a \in 0 .. Top - 1 /\ IsAligned(a)
      BY Aligned, PagingConstants
    <2>2. Top \in Nat /\ PageSize \in Nat
      BY FramesNat, SizesNat
    <2>3. ~ (Top - PageSize < a)
      <3>1. ASSUME Top - PageSize < a PROVE (Top - PageSize) + PageSize <= a
        BY <2>1, <2>2, <3>1, Aligned, NextMultiple
      <3> QED BY <2>1, <2>2, <3>1
    <2> QED BY <2>1, <2>2, <2>3
  <1> QED BY <1>1

\* The memory of a block of the heap ends before the last page, so that rounding
\* its end up does not wrap.
LEMMA BlockEnds ==
  ASSUME NEW a \in Pool, NEW size \in Nat \ {0}, a + size <= Top, PagesOf(a, size) \subseteq Pool
  PROVE  a + size <= Top - PageSize
  <1>1. /\ a \in Nat /\ IsAligned(a) /\ Top \in Nat /\ PageSize \in Nat \ {0} /\ a < Top - PageSize
        /\ IsAligned(Top) /\ IsAligned(Top - PageSize)
    BY PoolPages, FramesNat, Aligned, SizesNat
  <1> DEFINE last == Top - PageSize
  <1>2. last \in Pages
    <2>1. last \in 0 .. Top - 1 /\ IsAligned(last)
      BY <1>1
    <2> QED BY <2>1, Aligned
  <1>3. last \notin PagesOf(a, size)
    BY <1>2, PagingConstants
  <1> QED BY <1>1, <1>2, <1>3 DEF PagesOf

LEMMA FlagsAre == \A s \in ProgramHeaders : Flags(s) \in SUBSET Writable
  BY DEF Flags, Writable, Readable

\* process_map_elf: the pages of a segment lead to the frames of its bytes, and no
\* other page is touched (process.c:430-458).
LEMMA GetMapped ==
  ASSUME NEW d \in Directories, NEW ptr \in Pool, NEW s \in ProgramHeaders, EndsInMemory(ptr, s)
  PROVE  /\ Mapped(d, ptr, s) \in Directories
         /\ \A v \in Pages :
              Get(Mapped(d, ptr, s), v) =
                IF v \in SegmentPages(s) THEN Entry(FrameAt(ptr, s, v), Flags(s)) ELSE Get(d, v)
  <1> DEFINE phys == ptr + s.offset
             first == AlignDown(phys)
             virt == AlignDown(s.vaddr)
             end == AlignUp(phys + s.memsz)
  <1>1. /\ ptr \in Nat /\ IsAligned(ptr) /\ s.offset \in Nat /\ s.memsz \in Nat /\ s.vaddr \in Nat
        /\ Top \in Nat \ {0} /\ PageSize \in Nat \ {0}
    BY PoolPages, FramesNat, SizesNat DEF ProgramHeaders
  <1>2. phys \in Nat /\ phys + s.memsz \in Nat /\ phys + s.memsz <= Top - PageSize
    BY <1>1 DEF EndsInMemory
  <1>3. SegmentFrames(ptr, s) = [first |-> first, end |-> end]
    <2>1. phys % Top = phys /\ (phys + s.memsz) % Top = phys + s.memsz
      BY <1>1, <1>2
    <2> QED BY <2>1 DEF SegmentFrames
  <1>4. phys % PageSize = s.offset % PageSize
    BY <1>1, SameOffset
  <1> DEFINE part == s.offset % PageSize
  <1> HIDE DEF phys
  <1>5. /\ first \in Nat /\ IsAligned(first) /\ first + part = phys /\ part \in 0 .. PageSize - 1
    BY <1>2, <1>4, Down
  <1>6. virt \in Nat /\ IsAligned(virt)
    BY <1>1, Down
  <1>7. /\ end \in Nat /\ IsAligned(end) /\ phys + s.memsz <= end /\ end <= Top - PageSize
        /\ \A v \in Int : IsAligned(v) => (v < end <=> v < phys + s.memsz)
    BY <1>2, Up
  <1> HIDE DEF part, first, end, virt
  <1>8. first <= end /\ end <= Top
    BY <1>1, <1>2, <1>5, <1>7
  <1>9. ~Refused(virt, first, end)
    BY <1>5, <1>6, <1>7, <1>8 DEF Refused
  <1>10. Mapped(d, ptr, s) = MapTo(d, virt, first, end, Flags(s))
    BY <1>3 DEF Mapped, Flags, virt
  <1>11. /\ MapTo(d, virt, first, end, Flags(s)) \in Directories
         /\ \A v \in Pages :
              Get(MapTo(d, virt, first, end, Flags(s)), v) =
                IF virt <= v /\ v < virt + (end - first) THEN Entry(first + (v - virt), Flags(s))
                ELSE Get(d, v)
    BY <1>5, <1>6, <1>7, <1>8, <1>9, FlagsAre, GetMapTo
  <1>12. ASSUME NEW v \in Pages
         PROVE  (virt <= v /\ v < virt + (end - first)) <=> v \in SegmentPages(s)
    <2>1. v \in Nat /\ IsAligned(v)
      BY Aligned, FramesNat
    <2>2. v \in SegmentPages(s) <=> virt <= v /\ v < virt + (part + s.memsz)
      BY DEF SegmentPages, PagesOf, virt, part
    <2> DEFINE u == first + (v - virt)
    <2>3. u \in Int /\ IsAligned(u)
      BY <1>5, <1>6, <2>1, Aligned
    <2>4. u < end <=> u < phys + s.memsz
      BY <1>7, <2>3
    <2>5. u < phys + s.memsz <=> v < virt + (part + s.memsz)
      BY <1>1, <1>2, <1>5, <1>6, <2>1
    <2>6. u < end <=> v < virt + (end - first)
      BY <1>5, <1>6, <1>7, <2>1
    <2> QED BY <2>2, <2>4, <2>5, <2>6
  <1> QED BY <1>10, <1>11, <1>12 DEF FrameAt, first, virt, phys

LEMMA SegmentsAre ==
  ASSUME NEW file \in ElfFiles
  PROVE  /\ Segments(file) \in Seq(ProgramHeaders) /\ Len(Segments(file)) \in Nat
         /\ DOMAIN Segments(file) = 1 .. Len(Segments(file))
         /\ \A i \in 1 .. Len(Segments(file)) : Segments(file)[i] \in ProgramHeaders
  <1>1. CASE IsElf(file)
    <2>1. Segments(file) = file.headers /\ file.headers \in Seq(ProgramHeaders)
      BY <1>1 DEF Segments, ElfFiles
    <2> QED BY <2>1
  <1>2. CASE ~IsElf(file)
    <2> DEFINE h == [type |-> "load", vaddr |-> ProgramAddress, offset |-> 0,
                     filesz |-> file.size, memsz |-> file.size, write |-> TRUE]
    <2>1. h \in ProgramHeaders
      BY ElfConstants DEF ProgramHeaders, ElfFiles
    <2>2. Segments(file) = <<h>>
      BY <1>2 DEF Segments
    <2> HIDE DEF h
    <2> QED BY <2>1, <2>2
  <1> QED BY <1>1, <1>2

LEMMA AlignUpNat == \A x \in Nat : AlignUp(x) \in Nat
  <1> TAKE x \in Nat
  <1>1. x % PageSize \in 0 .. PageSize - 1 /\ PageSize \in Nat \ {0} /\ Top \in Nat \ {0}
    BY FramesNat, SizesNat
  <1> DEFINE y == x + PageSize - (x % PageSize)
  <1>2. y \in Nat
    BY <1>1
  <1> HIDE DEF y
  <1>3. y % Top \in Nat
    BY <1>1, <1>2
  <1> QED BY <1>3 DEF AlignUp, y

\* Whatever is mapped, a directory stays one.
LEMMA MapToType ==
  ASSUME NEW d \in Directories, NEW virt \in Nat, NEW phys \in Nat, NEW end \in Nat,
         NEW flags \in SUBSET Writable
  PROVE  MapTo(d, virt, phys, end, flags) \in Directories
  <1>1. CASE Refused(virt, phys, end)
    BY <1>1 DEF MapTo
  <1>2. CASE ~Refused(virt, phys, end)
    <2> DEFINE n == (end - phys) \div PageSize
    <2>1. n \in Int
      BY SizesNat
    <2> HIDE DEF n
    <2>2. MapRange(d, virt, phys, n, flags) \in Directories
      BY <2>1, GetMapRange
    <2> QED BY <1>2, <2>2 DEF MapTo, n
  <1> QED BY <1>1, <1>2

LEMMA MappedType ==
  ASSUME NEW d \in Directories, NEW ptr \in Pool, NEW s \in ProgramHeaders
  PROVE  Mapped(d, ptr, s) \in Directories
  <1> DEFINE phys == (ptr + s.offset) % Top
             sum == (phys + s.memsz) % Top
  <1>1. /\ ptr + s.offset \in Nat /\ s.vaddr \in Nat /\ s.memsz \in Nat
        /\ Top \in Nat \ {0}
    BY PoolPages, FramesNat DEF ProgramHeaders
  <1>2. phys \in Nat
    BY <1>1
  <1> HIDE DEF phys
  <1>3. sum \in Nat
    BY <1>1, <1>2
  <1>4. AlignDown(phys) \in Nat /\ AlignDown(s.vaddr) \in Nat /\ AlignUp(sum) \in Nat
    BY <1>1, <1>2, <1>3, Down, AlignUpNat
  <1>5. MapTo(d, AlignDown(s.vaddr), AlignDown(phys), AlignUp(sum), Flags(s)) \in Directories
    BY <1>4, FlagsAre, MapToType
  <1> QED BY <1>5 DEF Mapped, SegmentFrames, Flags, phys

\* The turns of process_map_elf (process.c:436-455).
LEMMA BuiltTurns ==
  ASSUME NEW file \in ElfFiles, NEW ptr \in Pool, NEW stack
  PROVE  \E f \in [0 .. Len(Segments(file)) -> Directories] :
           /\ f[0] = New(Readable)
           /\ \A i \in 1 .. Len(Segments(file)) : f[i] = Mapped(f[i - 1], ptr, Segments(file)[i])
           /\ Built(file, ptr, stack) =
                MapTo(f[Len(Segments(file))], StackEnd, stack, AlignUp(stack + StackSize), Writable)
  <1> DEFINE S == Segments(file)
             n == Len(S)
             step == [p \in Nat \X Directories |->
                        IF p[1] \in 1 .. n THEN Mapped(p[2], ptr, S[p[1]]) ELSE p[2]]
             Body(f) == [i \in 0 .. n |-> IF i = 0 THEN New(Readable) ELSE Mapped(f[i - 1], ptr, S[i])]
             after == CHOOSE f : f = Body(f)
  <1>1. n \in Nat /\ \A i \in 1 .. n : S[i] \in ProgramHeaders
    BY SegmentsAre
  <1>2. New(Readable) \in Directories
    BY GetNew DEF Readable, Writable
  <1>3. Built(file, ptr, stack) = MapTo(after[n], StackEnd, stack, AlignUp(stack + StackSize), Writable)
    BY DEF Built
  <1> HIDE DEF S, n
  <1>4. step \in [Nat \X Directories -> Directories]
    BY <1>1, MappedType
  <1>5. \A i \in 1 .. n, d \in Directories : step[<<i, d>>] = Mapped(d, ptr, S[i])
    BY <1>1
  <1> HIDE DEF step
  <1>6. PICK f : Turns(f, Directories, New(Readable), step, n)
    BY <1>1, <1>2, <1>4, TurnsExist
  <1>7. /\ f \in [0 .. n -> Directories] /\ f[0] = New(Readable)
        /\ \A i \in 1 .. n : f[i] = step[<<i, f[i - 1]>>]
    BY <1>6 DEF Turns
  <1>8. ASSUME NEW i \in 1 .. n PROVE f[i] = Mapped(f[i - 1], ptr, S[i])
    <2>1. f[i - 1] \in Directories
      BY <1>1, <1>7
    <2> QED BY <1>5, <1>7, <2>1
  <1>9. f = Body(f)
    <2>1. ASSUME NEW i \in 0 .. n
          PROVE  f[i] = IF i = 0 THEN New(Readable) ELSE Mapped(f[i - 1], ptr, S[i])
      BY <1>1, <1>7, <1>8
    <2> QED BY <1>7, <2>1
  <1>10. after = Body(after)
    BY <1>9
  <1> HIDE DEF after
  <1>11. /\ DOMAIN after = 0 .. n
         /\ \A i \in 0 .. n : after[i] = IF i = 0 THEN New(Readable) ELSE Mapped(after[i - 1], ptr, S[i])
    BY <1>10
  <1>12. ASSUME NEW i \in 0 .. n PROVE after[i] = f[i]
    <2> DEFINE T == {k \in Nat : k <= n => after[k] = f[k]}
    <2>1. 0 \in T
      BY <1>1, <1>7, <1>11
    <2>2. ASSUME NEW k \in Nat, k \in T PROVE k + 1 \in T
      <3>1. ASSUME k + 1 <= n PROVE after[k + 1] = f[k + 1]
        <4>1. k + 1 \in 1 .. n /\ k + 1 \in 0 .. n /\ k + 1 # 0 /\ (k + 1) - 1 = k /\ after[k] = f[k]
          BY <1>1, <2>2, <3>1
        <4>2. after[k + 1] = Mapped(after[k], ptr, S[k + 1])
          BY <1>11, <4>1
        <4>3. f[k + 1] = Mapped(f[k], ptr, S[k + 1])
          BY <1>8, <4>1
        <4> QED BY <4>1, <4>2, <4>3
      <3> QED BY <3>1
    <2> HIDE DEF T
    <2>3. i \in T
      BY <1>1, <2>1, <2>2, Induct
    <2> QED BY <1>1, <2>3 DEF T
  <1>13. after[n] = f[n]
    BY <1>1, <1>12
  <1> QED BY <1>3, <1>7, <1>8, <1>13 DEF S, n

\* What LinkedApart says, in terms of the lemmas.
LEMMA LinkedSegments ==
  ASSUME NEW file \in ElfFiles, NEW ptr, LinkedApart(file, ptr)
  PROVE  /\ \A i \in DOMAIN Segments(file) :
              /\ EndsInMemory(ptr, Segments(file)[i])
              /\ SegmentPages(Segments(file)[i]) \cap Pool = {}
              /\ SegmentPages(Segments(file)[i]) \cap PagesOf(StackEnd, StackSize) = {}
         /\ \A i, k \in DOMAIN Segments(file) :
              i # k => SegmentPages(Segments(file)[i]) \cap SegmentPages(Segments(file)[k]) = {}
  BY DEF LinkedApart, EndsInMemory

\* A run of pages of the heap.
InHeap(at, size) == at + size <= Top /\ PagesOf(at, size) \subseteq Pool

\* paging_map_to for a block of the heap, at any page: the stack of a program
\* (process_map_memory), what malloc gives and what free takes away (process.c:80,
\* 304 and 460-470).
LEMMA MapBlock ==
  ASSUME NEW d \in Directories, NEW virt \in Pages, NEW a \in Pool, NEW size \in Nat \ {0},
         InHeap(a, size), NEW flags \in SUBSET Writable
  PROVE  /\ MapTo(d, virt, a, AlignUp(a + size), flags) \in Directories
         /\ \A v \in Pages :
              Get(MapTo(d, virt, a, AlignUp(a + size), flags), v) =
                IF v \in PagesOf(virt, size) THEN Entry(a + (v - virt), flags) ELSE Get(d, v)
  <1> DEFINE end == AlignUp(a + size)
  <1>1. /\ a \in Nat /\ IsAligned(a) /\ a + size \in Nat /\ Top \in Nat \ {0} /\ PageSize \in Nat \ {0}
    BY PoolPages, FramesNat, SizesNat
  <1>2. a + size <= Top - PageSize
    BY BlockEnds DEF InHeap
  <1>3. virt \in Nat /\ IsAligned(virt)
    BY PageNat
  <1>4. /\ end \in Nat /\ IsAligned(end) /\ a + size <= end /\ end <= Top - PageSize
        /\ \A v \in Int : IsAligned(v) => (v < end <=> v < a + size)
    BY <1>1, <1>2, Up
  <1> HIDE DEF end
  <1>5. ~Refused(virt, a, end) /\ end <= Top
    BY <1>1, <1>3, <1>4 DEF Refused
  <1>6. /\ MapTo(d, virt, a, end, flags) \in Directories
        /\ \A v \in Pages :
             Get(MapTo(d, virt, a, end, flags), v) =
               IF virt <= v /\ v < virt + (end - a) THEN Entry(a + (v - virt), flags) ELSE Get(d, v)
    BY <1>1, <1>3, <1>4, <1>5, GetMapTo
  <1>7. ASSUME NEW v \in Pages
        PROVE  (virt <= v /\ v < virt + (end - a)) <=> v \in PagesOf(virt, size)
    <2>1. v \in Nat /\ IsAligned(v)
      BY PageNat
    <2> DEFINE u == a + (v - virt)
    <2>2. u \in Int /\ IsAligned(u)
      BY <1>1, <1>3, <2>1, Aligned
    <2>3. u < end <=> u < a + size
      BY <1>4, <2>2
    <2> QED BY <1>1, <1>3, <1>4, <2>1, <2>3 DEF PagesOf
  <1> QED BY <1>6, <1>7 DEF end

LEMMA FlagSets == Writable \in SUBSET Writable /\ Readable \in SUBSET Writable /\ {} \in SUBSET Writable
                    /\ Readable # Writable /\ {} # Writable
  BY DEF Readable, Writable

LEMMA StackPages == StackEnd \in Pages /\ StackSize \in Nat \ {0}
  BY PagingConstants

LEMMA BuiltType ==
  ASSUME NEW file \in ElfFiles, NEW ptr \in Pool, NEW stack \in Pool
  PROVE  Built(file, ptr, stack) \in Directories
  <1> DEFINE n == Len(Segments(file))
             end == AlignUp(stack + StackSize)
  <1>1. PICK f \in [0 .. n -> Directories] :
          Built(file, ptr, stack) = MapTo(f[n], StackEnd, stack, end, Writable)
    BY BuiltTurns
  <1>2. n \in Nat
    BY SegmentsAre
  <1> HIDE DEF n
  <1>3. StackEnd \in Nat /\ stack \in Nat /\ stack + StackSize \in Nat
    <2>1. StackSize \in Nat /\ StackEnd \in Pages
      BY PagingConstants
    <2>2. stack \in Nat
      BY PoolPages
    <2> QED BY <2>1, <2>2, PageNat
  <1>4. end \in Nat
    BY <1>3, AlignUpNat
  <1>5. f[n] \in Directories /\ Writable \in SUBSET Writable
    BY <1>2
  <1> HIDE DEF end
  <1>6. MapTo(f[n], StackEnd, stack, end, Writable) \in Directories
    BY <1>3, <1>4, <1>5, MapToType
  <1> QED BY <1>1, <1>6

\* task_init and process_map_memory: every page of a segment leads to its bytes,
\* every page of the stack to the stack, and every other page to itself, to be
\* read (task.c:210-240, process.c:394-470).
LEMMA BuiltIs ==
  ASSUME NEW file \in ElfFiles, NEW ptr \in Pool, NEW stack \in Pool, InHeap(stack, StackSize),
         LinkedApart(file, ptr), NEW v \in Pages
  PROVE  LET S == Segments(file)
             e == Get(Built(file, ptr, stack), v)
         IN  /\ v \in PagesOf(StackEnd, StackSize) => e = Entry(stack + (v - StackEnd), Writable)
             /\ \A j \in DOMAIN S :
                  v \in SegmentPages(S[j]) => e = Entry(FrameAt(ptr, S[j], v), Flags(S[j]))
             /\ v \notin PagesOf(StackEnd, StackSize) /\ (\A j \in DOMAIN S : v \notin SegmentPages(S[j]))
                  => e = Entry(v, Readable)
  <1> DEFINE S == Segments(file)
             n == Len(S)
             end == AlignUp(stack + StackSize)
  <1>1. PICK f \in [0 .. n -> Directories] :
          /\ f[0] = New(Readable)
          /\ \A i \in 1 .. n : f[i] = Mapped(f[i - 1], ptr, S[i])
          /\ Built(file, ptr, stack) = MapTo(f[n], StackEnd, stack, end, Writable)
    BY BuiltTurns
  <1>2. n \in Nat /\ DOMAIN S = 1 .. n /\ \A i \in 1 .. n : S[i] \in ProgramHeaders
    BY SegmentsAre
  <1>3. /\ \A i \in 1 .. n : EndsInMemory(ptr, S[i])
        /\ \A i \in 1 .. n : SegmentPages(S[i]) \cap PagesOf(StackEnd, StackSize) = {}
        /\ \A i, k \in 1 .. n : i # k => SegmentPages(S[i]) \cap SegmentPages(S[k]) = {}
    BY <1>2, LinkedSegments
  <1> HIDE DEF S, n
  <1> DEFINE After(k) ==
               /\ \A j \in 1 .. k :
                    v \in SegmentPages(S[j]) => Get(f[k], v) = Entry(FrameAt(ptr, S[j], v), Flags(S[j]))
               /\ (\A j \in 1 .. k : v \notin SegmentPages(S[j])) => Get(f[k], v) = Entry(v, Readable)
             T == {k \in Nat : k <= n => After(k)}
  <1>4. 0 \in T
    <2>1. Readable \in SUBSET Writable
      BY DEF Readable, Writable
    <2>2. Get(f[0], v) = Entry(v, Readable)
      BY <1>1, <2>1, GetNew
    <2>3. 1 .. 0 = {}
      OBVIOUS
    <2> QED BY <2>2, <2>3
  <1>5. ASSUME NEW k \in Nat, k \in T PROVE k + 1 \in T
    <2>1. ASSUME k + 1 <= n PROVE After(k + 1)
      <3>1. k + 1 \in 1 .. n /\ k \in 0 .. n /\ (k + 1) - 1 = k /\ 1 .. k + 1 = (1 .. k) \cup {k + 1}
            /\ 1 .. k \subseteq 1 .. n
        BY <1>2, <2>1
      <3>2. After(k)
        BY <1>5, <2>1, <3>1
      <3> DEFINE s == S[k + 1]
      <3>3. f[k] \in Directories /\ s \in ProgramHeaders /\ EndsInMemory(ptr, s)
        BY <1>2, <1>3, <3>1
      <3>4. f[k + 1] = Mapped(f[k], ptr, s)
        BY <1>1, <3>1
      <3> HIDE DEF s
      <3>5. Get(f[k + 1], v) =
              IF v \in SegmentPages(s) THEN Entry(FrameAt(ptr, s, v), Flags(s)) ELSE Get(f[k], v)
        BY <3>3, <3>4, GetMapped
      <3>6. \A j \in 1 .. k : v \in SegmentPages(S[j]) => v \notin SegmentPages(s)
        <4>1. \A j \in 1 .. k : j \in 1 .. n /\ j # k + 1
          BY <3>1
        <4> QED BY <1>3, <3>1, <4>1 DEF s
      <3> QED BY <3>1, <3>2, <3>5, <3>6 DEF s
    <2> QED BY <2>1
  <1> HIDE DEF T
  <1>6. n \in T
    BY <1>2, <1>4, <1>5, Induct
  <1>7. After(n)
    BY <1>6, <1>2 DEF T
  <1>8. Get(Built(file, ptr, stack), v) =
          IF v \in PagesOf(StackEnd, StackSize) THEN Entry(stack + (v - StackEnd), Writable)
          ELSE Get(f[n], v)
    <2>1. f[n] \in Directories
      BY <1>2
    <2> QED BY <1>1, <2>1, FlagSets, StackPages, MapBlock
  <1>9. \A j \in 1 .. n : v \in SegmentPages(S[j]) => v \notin PagesOf(StackEnd, StackSize)
    BY <1>3
  <1> HIDE DEF After
  <1>10. /\ v \in PagesOf(StackEnd, StackSize) =>
              Get(Built(file, ptr, stack), v) = Entry(stack + (v - StackEnd), Writable)
         /\ \A j \in DOMAIN S : v \in SegmentPages(S[j]) =>
              Get(Built(file, ptr, stack), v) = Entry(FrameAt(ptr, S[j], v), Flags(S[j]))
         /\ v \notin PagesOf(StackEnd, StackSize) /\ (\A j \in DOMAIN S : v \notin SegmentPages(S[j]))
              => Get(Built(file, ptr, stack), v) = Entry(v, Readable)
    BY <1>2, <1>7, <1>8, <1>9 DEF After
  <1> QED BY <1>10 DEF S

------------------------------------------------------------------------------
(* The invariant.  It says of each task what its directory maps, and that    *)
(* what is allocated for one task is not allocated for another.              *)

BlockPages(blocks) == UNION {PagesOf(x.at, x.size) : x \in blocks}

\* What is allocated for a task (Held says it of a task by its name).
Own(r) ==
  PagesOf(r.ptr, r.program.size) \cup PagesOf(r.stack, StackSize) \cup BlockPages(r.blocks)

Records ==
  [directory : Directories, program : Programs, ptr : Pool, stack : Pool,
   blocks : SUBSET [at : Pool, size : Sizes],
   ip : {EntryPoint(file) : file \in Programs},
   bounds : {Bounds(file, ptr) : file \in Programs, ptr \in Pool}]

\* The program and the stack stay where task_init mapped them, a block is mapped
\* to itself, and no other page of the heap can be written.
Placed(r) ==
  /\ \A v \in Pages \ Pool : Get(r.directory, v) = Get(Built(r.program, r.ptr, r.stack), v)
  /\ \A x \in r.blocks : \A v \in PagesOf(x.at, x.size) : Get(r.directory, v) = Entry(v, Writable)
  /\ LinkedApart(r.program, r.ptr) =>
       \A v \in Pool \ BlockPages(r.blocks) : Get(r.directory, v).flags # Writable

Sound(r) ==
  /\ InHeap(r.ptr, r.program.size) /\ InHeap(r.stack, StackSize)
  /\ \A x \in r.blocks : InHeap(x.at, x.size)
  /\ \A x, y \in r.blocks : x # y => PagesOf(x.at, x.size) \cap PagesOf(y.at, y.size) = {}
  /\ r.ip = EntryPoint(r.program) /\ r.bounds = Bounds(r.program, r.ptr)
  /\ Placed(r)

IInv ==
  /\ task \in [Live -> Records]
  /\ \A t \in Live : Sound(task[t])
  /\ \A t, u \in Live : t # u => Own(task[t]) \cap Own(task[u]) = {}

\* A block is not empty, and its first page is its own.
LEMMA BlockStart ==
  ASSUME NEW a \in Pool, NEW size \in Nat \ {0}
  PROVE  a \in PagesOf(a, size) /\ PagesOf(a, size) \subseteq Pages
  <1>1. a \in Pages /\ a \in Nat
    BY PoolPages
  <1>2. a <= a /\ a < a + size
    BY <1>1
  <1> QED BY <1>1, <1>2 DEF PagesOf

LEMMA SizesAre == \A size \in Sizes : size \in Nat \ {0}
  BY PagingConstants

LEMMA ProgramsAre == \A file \in Programs : file \in ElfFiles /\ file.size \in Nat \ {0}
  <1>1. \A file \in ElfFiles : file.size \in Nat \ {0}
    BY DEF ElfFiles
  <1> QED BY <1>1, PagingConstants

\* The pages of a program's stack are not those of the heap.
LEMMA StackApart == PagesOf(StackEnd, StackSize) \subseteq Pages \ Pool
  <1>1. ASSUME NEW v \in PagesOf(StackEnd, StackSize) PROVE v \in Pages \ Pool
    <2>1. v \in Pages /\ v < StackEnd + StackSize /\ v \in Nat
      BY PageNat DEF PagesOf
    <2>2. StackEnd \in Nat /\ StackSize \in Nat
      BY StackPages, PageNat
    <2>3. v \notin Pool
      <3>1. ASSUME v \in Pool PROVE FALSE
        <4>1. StackEnd + StackSize <= v
          BY <3>1, PagingConstants
        <4> QED BY <2>1, <2>2, <4>1
      <3> QED BY <3>1
    <2> QED BY <2>1, <2>3
  <1> QED BY <1>1

\* A record is its fields.
LEMMA RecordsAre ==
  ASSUME NEW r \in Records
  PROVE  /\ r.directory \in Directories /\ r.program \in Programs /\ r.ptr \in Pool /\ r.stack \in Pool
         /\ \A x \in r.blocks : x \in [at : Pool, size : Sizes]
         /\ \A x \in r.blocks : x.at \in Pool /\ x.size \in Sizes
         /\ r.blocks \in SUBSET [at : Pool, size : Sizes]
  <1>1. r.blocks \in SUBSET [at : Pool, size : Sizes]
    BY DEF Records
  <1> QED BY <1>1 DEF Records

\* A task with other blocks and another directory.
With(r, b, d) == [r EXCEPT !.blocks = b, !.directory = d]

LEMMA RecordWith ==
  ASSUME NEW r \in Records, NEW d \in Directories, NEW b \in SUBSET [at : Pool, size : Sizes], NEW q,
         q = With(r, b, d)
  PROVE  /\ q \in Records /\ q.directory = d /\ q.blocks = b
         /\ q.program = r.program /\ q.ptr = r.ptr /\ q.stack = r.stack
         /\ q.ip = r.ip /\ q.bounds = r.bounds
  <1> DEFINE X == SUBSET [at : Pool, size : Sizes]
             I == {EntryPoint(file) : file \in Programs}
             B == {Bounds(file, ptr) : file \in Programs, ptr \in Pool}
             p == [r EXCEPT !.blocks = b]
  <1>1. Records = [directory : Directories, program : Programs, ptr : Pool, stack : Pool,
                   blocks : X, ip : I, bounds : B]
    BY DEF Records
  <1>2. b \in X /\ q = [p EXCEPT !.directory = d]
    BY DEF With
  <1> HIDE DEF X, I, B
  <1>3. /\ p \in Records /\ p.blocks = b /\ p.program = r.program /\ p.ptr = r.ptr
        /\ p.stack = r.stack /\ p.ip = r.ip /\ p.bounds = r.bounds
    BY <1>1, <1>2
  <1> HIDE DEF p
  <1> QED BY <1>1, <1>2, <1>3

\* A task as process_load leaves it is sound (process.c:559-631).
LEMMA LoadSound ==
  ASSUME NEW file \in Programs, NEW ptr \in Pool, NEW stack \in Pool, InHeap(ptr, file.size),
         InHeap(stack, StackSize), NEW r,
         r = [directory |-> Built(file, ptr, stack), program |-> file, ptr |-> ptr, stack |-> stack,
              blocks |-> {}, ip |-> EntryPoint(file), bounds |-> Bounds(file, ptr)]
  PROVE  /\ r \in Records /\ Sound(r)
         /\ Own(r) = PagesOf(ptr, file.size) \cup PagesOf(stack, StackSize)
  <1>1. /\ r.directory = Built(file, ptr, stack) /\ r.program = file /\ r.ptr = ptr /\ r.stack = stack
        /\ r.blocks = {} /\ r.ip = EntryPoint(file) /\ r.bounds = Bounds(file, ptr)
    OBVIOUS
  <1>2. file \in ElfFiles
    BY ProgramsAre
  <1>3. r \in Records
    <2>1. Built(file, ptr, stack) \in Directories
      BY <1>2, BuiltType
    <2> QED BY <2>1 DEF Records
  <1>4. BlockPages(r.blocks) = {}
    BY <1>1 DEF BlockPages
  <1>5. ASSUME LinkedApart(file, ptr), NEW v \in Pool
        PROVE  Get(Built(file, ptr, stack), v).flags # Writable
    <2>1. v \in Pages
      BY PoolPages
    <2>2. v \notin PagesOf(StackEnd, StackSize)
      BY StackApart
    <2>3. \A j \in DOMAIN Segments(file) : v \notin SegmentPages(Segments(file)[j])
      BY <1>2, <1>5, LinkedSegments
    <2>4. Get(Built(file, ptr, stack), v) = Entry(v, Readable)
      BY <1>2, <1>5, <2>1, <2>2, <2>3, BuiltIs
    <2> QED BY <2>4, FlagSets DEF Entry
  <1>6. Placed(r)
    BY <1>1, <1>5 DEF Placed
  <1>7. Sound(r)
    BY <1>1, <1>6 DEF Sound
  <1>8. Own(r) = PagesOf(ptr, file.size) \cup PagesOf(stack, StackSize)
    BY <1>1, <1>4 DEF Own
  <1> QED BY <1>3, <1>7, <1>8

\* process_malloc keeps a task sound (process.c:59-92).
LEMMA MallocSound ==
  ASSUME NEW r \in Records, Sound(r), NEW ptr \in Pool, NEW size \in Sizes, InHeap(ptr, size),
         PagesOf(ptr, size) \cap Own(r) = {}, NEW q,
         q = With(r, r.blocks \cup {[at |-> ptr, size |-> size]},
                  MapTo(r.directory, ptr, ptr, AlignUp(ptr + size), Writable))
  PROVE  q \in Records /\ Sound(q) /\ Own(q) = Own(r) \cup PagesOf(ptr, size)
  <1> DEFINE new == [at |-> ptr, size |-> size]
             d == MapTo(r.directory, ptr, ptr, AlignUp(ptr + size), Writable)
             b == r.blocks \cup {new}
             given == PagesOf(ptr, size)
  <1>1. size \in Nat \ {0} /\ r.directory \in Directories /\ ptr \in Pages
    BY SizesAre, RecordsAre, PoolPages
  <1>2. /\ d \in Directories
        /\ \A v \in Pages : Get(d, v) = IF v \in given THEN Entry(ptr + (v - ptr), Writable)
                                        ELSE Get(r.directory, v)
    BY <1>1, FlagSets, MapBlock
  <1>3. \A v \in Pages : Get(d, v) = IF v \in given THEN Entry(v, Writable) ELSE Get(r.directory, v)
    <2>1. \A v \in Pages : ptr + (v - ptr) = v
      <3> TAKE v \in Pages
      <3>1. ptr \in Nat /\ v \in Nat
        BY <1>1, PageNat
      <3> QED BY <3>1
    <2> QED BY <1>2, <2>1
  <1>4. b \in SUBSET [at : Pool, size : Sizes] /\ new.at = ptr /\ new.size = size
    BY RecordsAre
  <1> HIDE DEF d
  <1>5. /\ q \in Records /\ q.directory = d /\ q.blocks = b
        /\ q.program = r.program /\ q.ptr = r.ptr /\ q.stack = r.stack
        /\ q.ip = r.ip /\ q.bounds = r.bounds
    <2> HIDE DEF b
    <2>1. q = With(r, b, d)
      BY DEF b, d
    <2> QED BY <1>2, <1>4, <2>1, RecordWith
  <1>6. given \subseteq Pool /\ BlockPages(b) = BlockPages(r.blocks) \cup given
    BY <1>4 DEF InHeap, BlockPages
  <1>7. \A x \in r.blocks : PagesOf(x.at, x.size) \cap given = {} /\ PagesOf(x.at, x.size) \subseteq Pages
    <2>1. \A x \in r.blocks : PagesOf(x.at, x.size) \subseteq BlockPages(r.blocks)
      BY DEF BlockPages
    <2> QED BY <2>1 DEF Own, PagesOf
  <1> HIDE DEF new, given
  <1>8. Placed(q)
    <2>1. \A v \in Pages \ Pool : Get(q.directory, v) = Get(Built(q.program, q.ptr, q.stack), v)
      BY <1>3, <1>5, <1>6 DEF Sound, Placed
    <2>2. ASSUME NEW x \in b, NEW v \in PagesOf(x.at, x.size)
          PROVE  Get(d, v) = Entry(v, Writable)
      <3>1. CASE x = new
        <4>1. v \in given /\ v \in Pages
          BY <1>4, <2>2, <3>1 DEF given, PagesOf
        <4> QED BY <1>3, <4>1
      <3>2. CASE x \in r.blocks
        <4>1. v \in Pages /\ v \notin given
          BY <1>7, <2>2, <3>2
        <4>2. Get(r.directory, v) = Entry(v, Writable)
          BY <2>2, <3>2 DEF Sound, Placed
        <4> QED BY <1>3, <4>1, <4>2
      <3> QED BY <3>1, <3>2
    <2>3. LinkedApart(q.program, q.ptr) =>
            \A v \in Pool \ BlockPages(q.blocks) : Get(q.directory, v).flags # Writable
      BY <1>3, <1>5, <1>6, PoolPages DEF Sound, Placed
    <2> QED BY <1>5, <2>1, <2>2, <2>3 DEF Placed
  <1>9. \A x \in b : InHeap(x.at, x.size)
    BY <1>4 DEF Sound
  <1>10. ASSUME NEW x \in b, NEW y \in b, x # y
         PROVE  PagesOf(x.at, x.size) \cap PagesOf(y.at, y.size) = {}
    <2>1. CASE x \in r.blocks /\ y \in r.blocks
      BY <1>10, <2>1 DEF Sound
    <2>2. CASE x = new /\ y \in r.blocks
      BY <1>4, <1>7, <2>2 DEF given
    <2>3. CASE y = new /\ x \in r.blocks
      BY <1>4, <1>7, <2>3 DEF given
    <2> QED BY <1>10, <2>1, <2>2, <2>3
  <1>11. Sound(q)
    <2>1. /\ InHeap(q.ptr, q.program.size) /\ InHeap(q.stack, StackSize)
          /\ q.ip = EntryPoint(q.program) /\ q.bounds = Bounds(q.program, q.ptr)
      BY <1>5 DEF Sound
    <2> QED BY <1>5, <1>8, <1>9, <1>10, <2>1 DEF Sound
  <1>12. Own(q) = Own(r) \cup given
    BY <1>5, <1>6 DEF Own
  <1> QED BY <1>5, <1>11, <1>12 DEF given

\* process_free keeps a task sound (process.c:285-311).
LEMMA FreeSound ==
  ASSUME NEW r \in Records, Sound(r), NEW x \in r.blocks, NEW q,
         q = With(r, r.blocks \ {x},
                  MapTo(r.directory, x.at, x.at, AlignUp(x.at + x.size), {}))
  PROVE  q \in Records /\ Sound(q) /\ Own(q) \subseteq Own(r)
  <1> DEFINE at == x.at
             size == x.size
             d == MapTo(r.directory, at, at, AlignUp(at + size), {})
             b == r.blocks \ {x}
             gone == PagesOf(at, size)
  <1>1. at \in Pool /\ at \in Pages /\ size \in Nat \ {0} /\ r.directory \in Directories /\ InHeap(at, size)
    BY SizesAre, RecordsAre, PoolPages DEF Sound
  <1> HIDE DEF at, size
  <1>2. /\ d \in Directories
        /\ \A v \in Pages : Get(d, v) = IF v \in gone THEN Entry(at + (v - at), {})
                                        ELSE Get(r.directory, v)
    BY <1>1, FlagSets, MapBlock
  <1>3. b \in SUBSET [at : Pool, size : Sizes]
    BY RecordsAre
  <1>4. q = With(r, b, d)
    BY DEF at, size
  <1> HIDE DEF d
  <1>5. /\ q \in Records /\ q.directory = d /\ q.blocks = b
        /\ q.program = r.program /\ q.ptr = r.ptr /\ q.stack = r.stack
        /\ q.ip = r.ip /\ q.bounds = r.bounds
    <2> HIDE DEF b
    <2> QED BY <1>2, <1>3, <1>4, RecordWith
  <1>6. gone \subseteq Pool /\ BlockPages(r.blocks) = BlockPages(b) \cup gone
    BY <1>1 DEF InHeap, BlockPages, at, size
  <1>7. \A y \in b : PagesOf(y.at, y.size) \cap gone = {} /\ PagesOf(y.at, y.size) \subseteq Pages
    BY DEF Sound, PagesOf, at, size
  <1> HIDE DEF gone
  <1>8. Placed(q)
    <2>1. \A v \in Pages \ Pool : Get(q.directory, v) = Get(Built(q.program, q.ptr, q.stack), v)
      BY <1>2, <1>5, <1>6 DEF Sound, Placed
    <2>2. ASSUME NEW y \in b, NEW v \in PagesOf(y.at, y.size)
          PROVE  Get(d, v) = Entry(v, Writable)
      <3>1. v \in Pages /\ v \notin gone
        BY <1>7, <2>2
      <3>2. Get(r.directory, v) = Entry(v, Writable)
        BY <2>2 DEF Sound, Placed
      <3> QED BY <1>2, <3>1, <3>2
    <2>3. ASSUME LinkedApart(q.program, q.ptr), NEW v \in Pool \ BlockPages(b)
          PROVE  Get(d, v).flags # Writable
      <3>1. v \in Pages
        BY PoolPages
      <3>2. CASE v \in gone
        <4>1. Get(d, v) = Entry(at + (v - at), {})
          BY <1>2, <3>1, <3>2
        <4> QED BY <4>1, FlagSets DEF Entry
      <3>3. CASE v \notin gone
        <4>1. Get(d, v) = Get(r.directory, v)
          BY <1>2, <3>1, <3>3
        <4>2. v \in Pool \ BlockPages(r.blocks)
          BY <1>6, <3>3
        <4> QED BY <1>5, <2>3, <4>1, <4>2 DEF Sound, Placed
      <3> QED BY <3>2, <3>3
    <2> QED BY <1>5, <2>1, <2>2, <2>3 DEF Placed
  <1>9. \A y \in b : InHeap(y.at, y.size)
    BY DEF Sound
  <1>10. \A y, z \in b : y # z => PagesOf(y.at, y.size) \cap PagesOf(z.at, z.size) = {}
    BY DEF Sound
  <1>11. Sound(q)
    <2>1. /\ InHeap(q.ptr, q.program.size) /\ InHeap(q.stack, StackSize)
          /\ q.ip = EntryPoint(q.program) /\ q.bounds = Bounds(q.program, q.ptr)
      BY <1>5 DEF Sound
    <2> QED BY <1>5, <1>8, <1>9, <1>10, <2>1 DEF Sound
  <1>12. Own(q) \subseteq Own(r)
    BY <1>5, <1>6 DEF Own
  <1> QED BY <1>5, <1>11, <1>12

\* copy_string_from_task leaves a task as it was (task.c:138-175).
LEMMA CopyStringSame ==
  ASSUME NEW r \in Records, NEW w \in Pool, NEW q,
         q = [r EXCEPT !.directory = Set(Set(r.directory, w, Entry(w, Writable)), w, Get(r.directory, w))]
  PROVE  q = r
  <1> DEFINE d == r.directory
             old == Get(d, w)
             lent == Set(d, w, Entry(w, Writable))
             after == Set(lent, w, old)
  <1>1. d \in Directories /\ w \in Pages /\ w \in Nat
    BY RecordsAre, PoolPages
  <1>2. Entry(w, Writable) \in [frame : Nat, flags : SUBSET Writable]
    BY <1>1 DEF Entry
  <1>3. old \in [frame : Nat, flags : SUBSET Writable]
    BY <1>1, IndexesOfPage DEF Get, Directories
  <1> HIDE DEF d, old
  <1>4. /\ lent \in Directories
        /\ \A v \in Pages : Get(lent, v) = IF v = w THEN Entry(w, Writable) ELSE Get(d, v)
    BY <1>1, <1>2, GetSet
  <1> HIDE DEF lent
  <1>5. /\ after \in Directories
        /\ \A v \in Pages : Get(after, v) = IF v = w THEN old ELSE Get(lent, v)
    BY <1>1, <1>3, <1>4, GetSet
  <1> HIDE DEF after
  <1>6. \A v \in Pages : Get(after, v) = Get(d, v)
    BY <1>4, <1>5 DEF old
  <1>7. after = d
    BY <1>1, <1>5, <1>6, SameDirectory
  <1>8. q = [r EXCEPT !.directory = r.directory]
    BY <1>7 DEF after, lent, old, d
  <1> QED BY <1>8 DEF Records

\* kzalloc gives a run of pages of the heap that are not taken.
LEMMA KzallocGives ==
  ASSUME NEW size, NEW taken, NEW a \in Kzalloc(size, taken)
  PROVE  a \in Pool /\ InHeap(a, size) /\ PagesOf(a, size) \cap taken = {}
  BY DEF Kzalloc, InHeap

\* What is allocated for a task is what the model takes for it.
LEMMA TakenIs == Taken = UNION {Own(task[t]) : t \in Live}
  <1>1. \A t : Held(t) = Own(task[t])
    BY DEF Held, Own, BlockPages
  <1> QED BY <1>1 DEF Taken

\* The invariant of the page directories (task.c:138-240, process.c:59-92, 285-311,
\* 370-470 and 559-631, paging.c).
THEOREM Invariant == Spec => []IInv
  <1>1. Init => IInv
    <2> SUFFICES ASSUME Init PROVE IInv
      OBVIOUS
    <2>1. Live = {} /\ task = [t \in {} |-> 0]
      BY DEF Init, Live
    <2> QED BY <2>1 DEF IInv, Live
  <1>2. IInv /\ [Next]_vars => IInv'
    <2> SUFFICES ASSUME IInv, [Next]_vars PROVE IInv'
      OBVIOUS
    <2>1. /\ \A u \in Live : task[u] \in Records /\ Sound(task[u])
          /\ \A u, v \in Live : u # v => Own(task[u]) \cap Own(task[v]) = {}
      BY DEF IInv
    <2>2. ASSUME NEW t, NEW r \in Records, Sound(r),
                 \A u \in Live : u # t => Own(task[u]) \cap Own(r) = {},
                 task' = [u \in Live \cup {t} |-> IF u = t THEN r ELSE task[u]]
          PROVE  IInv'
      <3> DEFINE f == task'
      <3>1. f = [u \in Live \cup {t} |-> IF u = t THEN r ELSE task[u]]
        BY <2>2
      <3>2. Live' = Live \cup {t}
        BY <2>2 DEF Live
      <3> HIDE DEF f
      <3>3. \A u \in Live \cup {t} : f[u] = IF u = t THEN r ELSE task[u]
        BY <3>1
      <3>4. f \in [Live \cup {t} -> Records] /\ \A u \in Live \cup {t} : Sound(f[u])
        BY <2>1, <2>2, <3>1, <3>3
      <3>5. ASSUME NEW u \in Live \cup {t}, NEW v \in Live \cup {t}, u # v
            PROVE  Own(f[u]) \cap Own(f[v]) = {}
        <4>1. CASE u = t
          BY <2>2, <3>3, <3>5, <4>1
        <4>2. CASE v = t
          BY <2>2, <3>3, <3>5, <4>2
        <4>3. CASE u # t /\ v # t
          BY <2>1, <3>3, <3>5, <4>3
        <4> QED BY <4>1, <4>2, <4>3
      <3> QED BY <3>2, <3>4, <3>5 DEF IInv, f
    <2>3. ASSUME NEW t \in Tasks, NEW program \in Programs, Load(t, program) PROVE IInv'
      <3>0. PICK ptr \in Kzalloc(program.size, Taken) :
              \E stack \in Kzalloc(StackSize, Taken \cup PagesOf(ptr, program.size)) :
                task' = [u \in Live \cup {t} |->
                          IF u # t THEN task[u]
                          ELSE [directory |-> Built(program, ptr, stack), program |-> program,
                                ptr |-> ptr, stack |-> stack, blocks |-> {},
                                ip |-> EntryPoint(program), bounds |-> Bounds(program, ptr)]]
        BY <2>3 DEF Load
      <3>1. PICK stack \in Kzalloc(StackSize, Taken \cup PagesOf(ptr, program.size)) :
              task' = [u \in Live \cup {t} |->
                        IF u # t THEN task[u]
                        ELSE [directory |-> Built(program, ptr, stack), program |-> program,
                              ptr |-> ptr, stack |-> stack, blocks |-> {},
                              ip |-> EntryPoint(program), bounds |-> Bounds(program, ptr)]]
        BY <3>0
      <3> DEFINE r == [directory |-> Built(program, ptr, stack), program |-> program,
                       ptr |-> ptr, stack |-> stack, blocks |-> {},
                       ip |-> EntryPoint(program), bounds |-> Bounds(program, ptr)]
      <3>2. /\ ptr \in Pool /\ InHeap(ptr, program.size)
            /\ PagesOf(ptr, program.size) \cap Taken = {}
        BY KzallocGives
      <3>3. /\ stack \in Pool /\ InHeap(stack, StackSize)
            /\ PagesOf(stack, StackSize) \cap (Taken \cup PagesOf(ptr, program.size)) = {}
        BY KzallocGives
      <3>4. task' = [u \in Live \cup {t} |-> IF u = t THEN r ELSE task[u]]
        BY <3>1
      <3>5. r = [directory |-> Built(program, ptr, stack), program |-> program,
                 ptr |-> ptr, stack |-> stack, blocks |-> {},
                 ip |-> EntryPoint(program), bounds |-> Bounds(program, ptr)]
        OBVIOUS
      <3> HIDE DEF r
      <3>6. r \in Records /\ Sound(r) /\ Own(r) = PagesOf(ptr, program.size) \cup PagesOf(stack, StackSize)
        BY <3>2, <3>3, <3>5, LoadSound
      <3>7. \A u \in Live : u # t => Own(task[u]) \cap Own(r) = {}
        BY <3>2, <3>3, <3>6, TakenIs
      <3> QED BY <2>2, <3>4, <3>6, <3>7
    <2>4. ASSUME NEW t \in Live, NEW size \in Sizes, Malloc(t, size) PROVE IInv'
      <3>1. PICK ptr \in Kzalloc(size, Taken) :
              task' = [task EXCEPT ![t].blocks = @ \cup {[at |-> ptr, size |-> size]},
                                   ![t].directory = MapTo(@, ptr, ptr, AlignUp(ptr + size), Writable)]
        BY <2>4 DEF Malloc
      <3> DEFINE b == task[t].blocks \cup {[at |-> ptr, size |-> size]}
                 d == MapTo(task[t].directory, ptr, ptr, AlignUp(ptr + size), Writable)
                 q == With(task[t], b, d)
      <3>2. ptr \in Pool /\ InHeap(ptr, size) /\ PagesOf(ptr, size) \cap Taken = {}
        BY KzallocGives
      <3>3. task[t] \in Records /\ Sound(task[t])
        BY <2>1
      <3>4. task' = [u \in Live \cup {t} |-> IF u = t THEN q ELSE task[u]]
        BY <3>1 DEF With, IInv
      <3>5. PagesOf(ptr, size) \cap Own(task[t]) = {}
        BY <3>2, TakenIs
      <3> DEFINE r == task[t]
      <3>6. q = With(r, r.blocks \cup {[at |-> ptr, size |-> size]},
                     MapTo(r.directory, ptr, ptr, AlignUp(ptr + size), Writable))
        OBVIOUS
      <3> HIDE DEF b, d, q, r
      <3>7. q \in Records /\ Sound(q) /\ Own(q) = Own(r) \cup PagesOf(ptr, size)
        BY <3>2, <3>3, <3>5, <3>6, MallocSound DEF r
      <3>8. \A u \in Live : u # t => Own(task[u]) \cap Own(q) = {}
        BY <2>1, <3>2, <3>7, TakenIs DEF r
      <3> QED BY <2>2, <3>4, <3>7, <3>8
    <2>5. ASSUME NEW t \in Live, NEW x \in task[t].blocks, Free(t, x) PROVE IInv'
      <3> DEFINE r == task[t]
                 b == r.blocks \ {x}
                 d == MapTo(r.directory, x.at, x.at, AlignUp(x.at + x.size), {})
                 q == With(r, b, d)
      <3>1. task' = [u \in Live \cup {t} |-> IF u = t THEN q ELSE task[u]]
        BY <2>5 DEF Free, With, IInv
      <3>2. r \in Records /\ Sound(r) /\ x \in r.blocks
        BY <2>1
      <3>3. q = With(r, r.blocks \ {x}, MapTo(r.directory, x.at, x.at, AlignUp(x.at + x.size), {}))
        OBVIOUS
      <3> HIDE DEF b, d, q, r
      <3>4. q \in Records /\ Sound(q) /\ Own(q) \subseteq Own(r)
        BY <3>2, <3>3, FreeSound
      <3>5. \A u \in Live : u # t => Own(task[u]) \cap Own(q) = {}
        BY <2>1, <3>4 DEF r
      <3> QED BY <2>2, <3>1, <3>4, <3>5
    <2>6. ASSUME NEW t \in Live, CopyString(t) PROVE IInv'
      <3>1. PICK w \in Kzalloc(1, Taken) :
              task' = [task EXCEPT ![t].directory =
                        Set(Set(task[t].directory, w, Entry(w, Writable)), w, Get(task[t].directory, w))]
        BY <2>6 DEF CopyString
      <3> DEFINE r == task[t]
                 q == [r EXCEPT !.directory = Set(Set(r.directory, w, Entry(w, Writable)), w,
                                                  Get(r.directory, w))]
      <3>2. task' = [task EXCEPT ![t] = q]
        BY <3>1
      <3>3. r \in Records /\ w \in Pool
        BY <2>1, KzallocGives
      <3>4. q = [r EXCEPT !.directory = Set(Set(r.directory, w, Entry(w, Writable)), w,
                                            Get(r.directory, w))]
        OBVIOUS
      <3> HIDE DEF q, r
      <3>5. q = r
        BY <3>3, <3>4, CopyStringSame
      <3>6. task' = task
        BY <3>2, <3>5 DEF r, IInv
      <3> QED BY <3>6 DEF IInv, Live
    <2>7. ASSUME NEW t \in Live, Exit(t) PROVE IInv'
      <3>1. task' = [u \in Live \ {t} |-> task[u]] /\ Live' = Live \ {t}
        BY <2>7 DEF Exit, Live
      <3> DEFINE f == task'
      <3>2. f \in [Live \ {t} -> Records] /\ \A u \in Live \ {t} : f[u] = task[u]
        BY <2>1, <3>1
      <3> HIDE DEF f
      <3>3. /\ \A u \in Live \ {t} : Sound(f[u])
            /\ \A u, v \in Live \ {t} : u # v => Own(f[u]) \cap Own(f[v]) = {}
        BY <2>1, <3>2
      <3> QED BY <3>1, <3>2, <3>3 DEF IInv, f
    <2>8. CASE UNCHANGED vars
      BY <2>8 DEF vars, IInv, Live
    <2> QED BY <2>3, <2>4, <2>5, <2>6, <2>7, <2>8 DEF Next
  <1> QED BY <1>1, <1>2, PTL DEF Spec

------------------------------------------------------------------------------
(* What the invariant says of the properties.                                *)

\* No multiple of the size of a page lies between an address and its page.
LEMMA DownIsLargest ==
  ASSUME NEW x \in Nat, NEW y \in Int, IsAligned(y), y <= x
  PROVE  y <= AlignDown(x)
  <1> DEFINE low == AlignDown(x)
             part == x % PageSize
  <1>1. low \in Nat /\ IsAligned(low) /\ part \in 0 .. PageSize - 1 /\ low + part = x
    BY Down
  <1>2. PageSize \in Nat \ {0}
    BY SizesNat
  <1> HIDE DEF low, part
  <1>3. ASSUME low < y PROVE FALSE
    <2>1. low \in Int /\ low + PageSize <= y
      BY <1>1, <1>3, NextMultiple
    <2> QED BY <1>1, <1>2, <2>1
  <1>4. y <= low
    BY <1>1, <1>3
  <1> QED BY <1>4 DEF low

\* The loop of paging_map_range when a block is freed.
LEMMA BlockLoop ==
  ASSUME NEW d \in Directories, NEW a \in Pool, NEW size \in Nat \ {0}, InHeap(a, size), NEW n,
         n = (AlignUp(a + size) - a) \div PageSize
  PROVE  MapLoop(d, a, a, n, {}) = MapRange(d, a, a, n, {})
  <1> DEFINE end == AlignUp(a + size)
  <1>1. /\ a \in Nat /\ a \in Int /\ a \in Pages /\ IsAligned(a) /\ a + size \in Nat
        /\ Top \in Nat \ {0} /\ PageSize \in Nat \ {0}
    BY PoolPages, FramesNat, SizesNat
  <1>2. a + size <= Top - PageSize
    BY BlockEnds DEF InHeap
  <1>3. end \in Nat /\ end \in Int /\ IsAligned(end) /\ a + size <= end /\ end <= Top - PageSize
    BY <1>1, <1>2, Up
  <1> HIDE DEF end
  <1> DEFINE length == end - a
  <1>4. length \in Nat /\ IsAligned(length)
    BY <1>1, <1>3, Aligned
  <1>5. n = length \div PageSize
    BY DEF end
  <1>6. length + a = end
    BY <1>1, <1>3
  <1> HIDE DEF length
  <1>7. n \in Nat /\ length = n * PageSize
    BY <1>1, <1>4, <1>5 DEF IsAligned
  <1>8. a + n * PageSize <= Top
    <2> DEFINE m == n * PageSize
    <2>1. m = length
      BY <1>7
    <2> HIDE DEF m
    <2>2. a + m <= Top
      BY <1>1, <1>3, <1>4, <1>6, <2>1
    <2> QED BY <2>2 DEF m
  <1> QED BY <1>1, <1>7, <1>8, FlagSets, MapLoopIsMapRange

\* The loop of paging_map_range writes what MapRange says, in every state
\* (paging.c:96-108).
THEOREM LoopAgrees == Spec => []MapLoopAgrees
  <1>1. IInv => MapLoopAgrees
    <2> SUFFICES ASSUME IInv, NEW t \in Live, NEW x \in task[t].blocks, NEW n,
                        n = (AlignUp(x.at + x.size) - x.at) \div PageSize
                 PROVE  MapLoop(task[t].directory, x.at, x.at, n, {}) =
                          MapRange(task[t].directory, x.at, x.at, n, {})
      BY DEF MapLoopAgrees
    <2> DEFINE r == task[t]
               a == x.at
               size == x.size
               d == r.directory
    <2>1. r \in Records /\ Sound(r)
      BY DEF IInv
    <2> HIDE DEF r
    <2>2. x \in r.blocks
      BY DEF r
    <2>3. d \in Directories /\ a \in Pool /\ size \in Nat \ {0} /\ InHeap(a, size)
      BY <2>1, <2>2, RecordsAre, SizesAre DEF Sound
    <2>4. n = (AlignUp(a + size) - a) \div PageSize
      OBVIOUS
    <2> HIDE DEF a, size, d
    <2>5. MapLoop(d, a, a, n, {}) = MapRange(d, a, a, n, {})
      BY <2>3, <2>4, BlockLoop
    <2> QED BY <2>5 DEF a, d, r
  <1> QED BY <1>1, Invariant, PTL

\* Every byte malloc gave is found at its address.
LEMMA BlockInPlace ==
  ASSUME NEW r \in Records, Sound(r), NEW x \in r.blocks, NEW a \in x.at .. x.at + x.size - 1
  PROVE  PhysicalAddress(r.directory, a) = a /\ Get(r.directory, AlignDown(a)).flags = Writable
  <1> DEFINE v == AlignDown(a)
             at == x.at
             size == x.size
  <1>1. /\ at \in Nat /\ IsAligned(at) /\ size \in Nat \ {0} /\ at + size <= Top /\ Top \in Nat
        /\ PageSize \in Nat \ {0}
    BY RecordsAre, SizesAre, PoolPages, FramesNat, SizesNat DEF Sound, InHeap
  <1>2. a \in at .. at + size - 1
    OBVIOUS
  <1> HIDE DEF at, size
  <1>3. a \in Nat /\ at \in Int /\ at <= a /\ a < at + size
    BY <1>1, <1>2
  <1>4. v \in Nat /\ IsAligned(v) /\ v <= a
    <2> DEFINE part == a % PageSize
    <2>1. v \in Nat /\ IsAligned(v) /\ part \in 0 .. PageSize - 1 /\ v + part = a
      BY <1>3, Down
    <2> HIDE DEF part, v
    <2> QED BY <1>1, <1>3, <2>1
  <1>5. at <= v
    BY <1>1, <1>3, DownIsLargest
  <1> HIDE DEF v
  <1>6. v \in 0 .. Top - 1
    BY <1>1, <1>3, <1>4
  <1>7. v \in Pages /\ v < at + size
    BY <1>1, <1>3, <1>4, <1>6, Aligned
  <1>8. v \in PagesOf(at, size)
    BY <1>5, <1>7 DEF PagesOf
  <1>9. Get(r.directory, v) = Entry(v, Writable)
    BY <1>8 DEF Sound, Placed, at, size
  <1>10. v + (a - v) = a
    BY <1>3, <1>4
  <1> QED BY <1>9, <1>10 DEF PhysicalAddress, Entry, v

\* Every byte of a segment is found at its address.
LEMMA SegmentInPlace ==
  ASSUME NEW r \in Records, Sound(r), WellPlaced(r.program, r.ptr),
         NEW i \in DOMAIN Segments(r.program), NEW k \in 0 .. Segments(r.program)[i].memsz - 1
  PROVE  PhysicalAddress(r.directory, Segments(r.program)[i].vaddr + k) =
           r.ptr + Segments(r.program)[i].offset + k
  <1> DEFINE S == Segments(r.program)
             s == S[i]
             ptr == r.ptr
             a == s.vaddr + k
             v == AlignDown(a)
             virt == AlignDown(s.vaddr)
             part == s.vaddr % PageSize
             phys == ptr + s.offset
             first == AlignDown(phys)
  <1>1. r.program \in ElfFiles /\ ptr \in Pool /\ r.stack \in Pool
    BY RecordsAre, ProgramsAre
  <1>2. s \in ProgramHeaders
    BY <1>1, SegmentsAre
  <1>3. /\ SegmentPages(s) \cap Pool = {} /\ LinkedApart(r.program, ptr)
        /\ virt + (s.offset % PageSize) + s.memsz <= Top
        /\ s.vaddr % PageSize = s.offset % PageSize
    BY <1>1, LinkedSegments DEF WellPlaced, LinkedApart
  <1> HIDE DEF S, s
  <1>4. /\ s.vaddr \in Nat /\ s.offset \in Nat /\ s.memsz \in Nat /\ ptr \in Nat /\ IsAligned(ptr)
        /\ Top \in Nat /\ PageSize \in Nat \ {0}
    BY <1>1, <1>2, PoolPages, FramesNat, SizesNat DEF ProgramHeaders
  <1>5. k \in 0 .. s.memsz - 1
    BY DEF s, S
  <1>6. a \in Nat /\ s.vaddr <= a /\ a < s.vaddr + s.memsz
    BY <1>4, <1>5
  <1>7. phys \in Nat /\ phys % PageSize = part
    <2> DEFINE x == s.offset
    <2>1. ptr \in Nat /\ IsAligned(ptr) /\ x \in Nat
      BY <1>4
    <2> HIDE DEF ptr, x
    <2>2. (ptr + x) % PageSize = x % PageSize
      BY <2>1, SameOffset
    <2>3. ptr + x \in Nat
      BY <2>1
    <2> QED BY <1>3, <2>2, <2>3 DEF x
  <1>8. virt \in Nat /\ IsAligned(virt) /\ part \in 0 .. PageSize - 1 /\ virt + part = s.vaddr
    BY <1>4, Down
  <1>9. first \in Nat /\ first + part = phys
    <2> HIDE DEF phys, part
    <2> QED BY <1>7, Down
  <1>10. v \in Nat /\ IsAligned(v) /\ v <= a
    <2> DEFINE rest == a % PageSize
    <2> HIDE DEF a
    <2>1. v \in Nat /\ IsAligned(v) /\ rest \in 0 .. PageSize - 1 /\ v + rest = a
      BY <1>6, Down
    <2> HIDE DEF rest, v
    <2> QED BY <1>4, <1>6, <2>1
  <1>11. virt <= v
    <2> HIDE DEF a, virt, part
    <2>1. virt \in Int /\ virt <= a
      BY <1>4, <1>6, <1>8
    <2> QED BY <1>6, <1>8, <2>1, DownIsLargest
  <1>12. virt + (part + s.memsz) <= Top /\ v < virt + (part + s.memsz)
    <2> HIDE DEF virt, part, v, a
    <2>1. virt + part + s.memsz <= Top
      BY <1>3 DEF part
    <2> QED BY <1>4, <1>6, <1>8, <1>10, <2>1
  <1>13. v \in SegmentPages(s)
    <2> HIDE DEF virt, part, v
    <2>1. v \in 0 .. Top - 1
      BY <1>4, <1>8, <1>10, <1>12
    <2>2. v \in Pages
      BY <1>10, <2>1, Aligned
    <2>3. SegmentPages(s) = PagesOf(virt, part + s.memsz)
      BY <1>3 DEF SegmentPages, virt, part
    <2> QED BY <1>11, <1>12, <2>2, <2>3 DEF PagesOf
  <1> HIDE DEF v
  <1>14. v \in Pages \ Pool
    BY <1>3, <1>13 DEF SegmentPages, PagesOf
  <1>15. Get(r.directory, v) = Get(Built(r.program, r.ptr, r.stack), v)
    BY <1>14 DEF Sound, Placed
  <1>16. Get(Built(r.program, ptr, r.stack), v) = Entry(FrameAt(ptr, s, v), Flags(s))
    <2> HIDE DEF ptr
    <2>1. InHeap(r.stack, StackSize) /\ v \in Pages
      BY <1>14 DEF Sound
    <2> QED BY <1>1, <1>3, <1>13, <2>1, BuiltIs DEF s, S
  <1>17. PhysicalAddress(r.directory, a) = first + (v - virt) + (a - v)
    BY <1>15, <1>16 DEF PhysicalAddress, Entry, FrameAt, v
  <1>18. first + (v - virt) + (a - v) = phys + k
    <2> HIDE DEF first, virt, part, phys
    <2>1. a = s.vaddr + k
      OBVIOUS
    <2> HIDE DEF a
    <2>2. k \in Int
      BY <1>5
    <2> QED BY <1>4, <1>6, <1>7, <1>8, <1>9, <1>10, <2>1, <2>2
  <1> QED BY <1>17, <1>18 DEF s, S

\* A file that is no ELF file runs from its first byte, whatever its size.
LEMMA BinaryInPlace ==
  ASSUME NEW r \in Records, Sound(r), ~IsElf(r.program)
  PROVE  PhysicalAddress(r.directory, r.ip) = r.ptr
  <1> DEFINE file == r.program
             ptr == r.ptr
             stack == r.stack
             s == Segments(file)[1]
             v == ProgramAddress
             end == AlignUp(stack + StackSize)
  <1>1. /\ file \in ElfFiles /\ file.size \in Nat \ {0} /\ ptr \in Pool /\ stack \in Pool
        /\ InHeap(ptr, file.size) /\ InHeap(stack, StackSize) /\ r.ip = EntryPoint(file)
    BY RecordsAre, ProgramsAre DEF Sound
  <1>2. /\ v \in Pages /\ v \notin Pool /\ v \in Nat /\ IsAligned(v) /\ StackEnd + StackSize <= v
        /\ StackEnd \in Nat /\ StackSize \in Nat
    BY PagingConstants, PageNat, StackPages
  <1>3. r.ip = v /\ Len(Segments(file)) = 1
    BY <1>1 DEF EntryPoint, Segments
  <1>4. /\ s \in ProgramHeaders /\ s.vaddr = v /\ s.offset = 0 /\ s.memsz = file.size
    <2>1. s \in ProgramHeaders
      BY <1>1, <1>3, SegmentsAre
    <2> QED BY <2>1 DEF Segments
  <1>5. PICK f \in [0 .. 1 -> Directories] :
          /\ f[0] = New(Readable) /\ f[1] = Mapped(f[0], ptr, s)
          /\ Built(file, ptr, stack) = MapTo(f[1], StackEnd, stack, end, Writable)
    <2>1. PICK f \in [0 .. Len(Segments(file)) -> Directories] :
            /\ f[0] = New(Readable)
            /\ \A i \in 1 .. Len(Segments(file)) : f[i] = Mapped(f[i - 1], ptr, Segments(file)[i])
            /\ Built(file, ptr, stack) = MapTo(f[Len(Segments(file))], StackEnd, stack, end, Writable)
      <3>1. file \in ElfFiles /\ ptr \in Pool
        BY <1>1
      <3> HIDE DEF file, ptr, stack
      <3> QED BY <3>1, BuiltTurns
    <2>2. 1 \in 1 .. 1 /\ 1 - 1 = 0
      OBVIOUS
    <2> QED BY <1>3, <2>1, <2>2
  <1> HIDE DEF s, file, ptr, stack, end, v
  <1>6. /\ ptr \in Nat /\ IsAligned(ptr) /\ ptr + file.size <= Top - PageSize
        /\ Top \in Nat /\ PageSize \in Nat \ {0}
    <2>1. ptr + file.size <= Top - PageSize
      BY <1>1, BlockEnds DEF InHeap
    <2> QED BY <1>1, <2>1, PoolPages, FramesNat, SizesNat
  <1>7. EndsInMemory(ptr, s) /\ ptr + s.offset = ptr /\ s.offset % PageSize = 0
    BY <1>1, <1>4, <1>6 DEF EndsInMemory
  <1>8. AlignDown(ptr) = ptr /\ AlignDown(v) = v
    BY <1>2, <1>6, Down
  <1>9. v \in SegmentPages(s)
    <2>1. SegmentPages(s) = PagesOf(v, 0 + file.size)
      BY <1>4, <1>7, <1>8 DEF SegmentPages
    <2>2. v <= v /\ v < v + (0 + file.size)
      BY <1>1, <1>2
    <2> QED BY <1>2, <2>1, <2>2 DEF PagesOf
  <1>10. Get(f[1], v) = Entry(FrameAt(ptr, s, v), Flags(s)) /\ f[1] \in Directories
    <2>1. f[0] \in Directories /\ f[1] \in Directories
      OBVIOUS
    <2> QED BY <1>1, <1>2, <1>4, <1>5, <1>7, <1>9, <2>1, GetMapped
  <1>11. v \notin PagesOf(StackEnd, StackSize)
    BY <1>2 DEF PagesOf
  <1>12. Get(Built(file, ptr, stack), v) = Get(f[1], v)
    <2> DEFINE d == f[1]
    <2>1. d \in Directories /\ Built(file, ptr, stack) = MapTo(d, StackEnd, stack, end, Writable)
      BY <1>5, <1>10
    <2> HIDE DEF d
    <2>2. Get(MapTo(d, StackEnd, stack, AlignUp(stack + StackSize), Writable), v) = Get(d, v)
      BY <1>1, <1>2, <1>11, <2>1, StackPages, FlagSets, MapBlock
    <2> QED BY <2>1, <2>2 DEF d, end
  <1>13. FrameAt(ptr, s, v) = ptr
    <2>1. ptr + (v - v) = ptr
      BY <1>2, <1>6
    <2> QED BY <1>4, <1>7, <1>8, <2>1 DEF FrameAt
  <1>14. Get(r.directory, v) = Entry(ptr, Flags(s))
    BY <1>2, <1>10, <1>12, <1>13 DEF Sound, Placed, file, ptr, stack
  <1>15. ptr + (v - v) = ptr
    BY <1>2, <1>6
  <1> QED BY <1>3, <1>8, <1>14, <1>15 DEF PhysicalAddress, Entry, ptr

\* Programs and blocks are where their addresses lead (process.c:59-92 and 409-458,
\* task.c:222-227, paging.c:165-170).
THEOREM InPlace == Spec => []MemoryInPlace
  <1>1. IInv => MemoryInPlace
    <2> SUFFICES ASSUME IInv, NEW t \in Live, NEW r, r = task[t]
                 PROVE  /\ WellPlaced(r.program, r.ptr) =>
                             \A i \in DOMAIN Segments(r.program) :
                               \A k \in 0 .. Segments(r.program)[i].memsz - 1 :
                                 PhysicalAddress(r.directory, Segments(r.program)[i].vaddr + k) =
                                   r.ptr + Segments(r.program)[i].offset + k
                        /\ ~IsElf(r.program) => PhysicalAddress(r.directory, r.ip) = r.ptr
                        /\ \A x \in r.blocks : \A a \in x.at .. x.at + x.size - 1 :
                             /\ PhysicalAddress(r.directory, a) = a
                             /\ Get(r.directory, AlignDown(a)).flags = Writable
      BY DEF MemoryInPlace
    <2>1. r \in Records /\ Sound(r)
      BY DEF IInv
    <2> QED BY <2>1, BlockInPlace, SegmentInPlace, BinaryInPlace
  <1> QED BY <1>1, Invariant, PTL

\* A page of one run and the page at its place in another.
LEMMA Shift ==
  ASSUME NEW a \in Nat, IsAligned(a), NEW b \in Nat, IsAligned(b), NEW size \in Nat, b + size <= Top,
         NEW v \in PagesOf(a, size)
  PROVE  /\ b + (v - a) \in PagesOf(b, size)
         /\ a + ((b + (v - a)) - b) = v
  <1> DEFINE u == b + (v - a)
  <1>1. v \in Pages /\ v \in Nat /\ IsAligned(v) /\ a <= v /\ v < a + size
    BY PageNat DEF PagesOf
  <1>2. u \in Nat /\ IsAligned(u) /\ b <= u /\ u < b + size
    BY <1>1, Aligned
  <1>3. u \in 0 .. Top - 1
    BY <1>2, FramesNat
  <1>4. a + (u - b) = v
    BY <1>1
  <1> HIDE DEF u
  <1>5. u \in Pages
    BY <1>2, <1>3, Aligned
  <1> QED BY <1>2, <1>4, <1>5 DEF PagesOf, u

\* The pages of a segment lead to its frames, to all of them.
LEMMA SegmentShift ==
  ASSUME NEW ptr \in Pool, NEW s \in ProgramHeaders, EndsInMemory(ptr, s),
         AlignDown(s.vaddr) + (s.offset % PageSize) + s.memsz <= Top
  PROVE  /\ \A v \in SegmentPages(s) : FrameAt(ptr, s, v) \in FramesOf(ptr, s)
         /\ \A u \in FramesOf(ptr, s) :
              \E v \in SegmentPages(s) : FrameAt(ptr, s, v) = u
  <1> DEFINE phys == ptr + s.offset
             first == AlignDown(phys)
             virt == AlignDown(s.vaddr)
             part == s.offset % PageSize
             size == part + s.memsz
  <1>1. /\ ptr \in Nat /\ IsAligned(ptr) /\ s.offset \in Nat /\ s.memsz \in Nat /\ s.vaddr \in Nat
        /\ Top \in Nat \ {0} /\ PageSize \in Nat \ {0}
    BY PoolPages, FramesNat, SizesNat DEF ProgramHeaders
  <1>2. phys \in Nat /\ phys % PageSize = part /\ phys + s.memsz <= Top - PageSize
    <2>1. phys % PageSize = part
      BY <1>1, SameOffset
    <2> QED BY <1>1, <2>1 DEF EndsInMemory
  <1>3. first \in Nat /\ IsAligned(first) /\ first + part = phys /\ part \in 0 .. PageSize - 1
    <2> HIDE DEF phys, part
    <2> QED BY <1>2, Down
  <1>4. virt \in Nat /\ IsAligned(virt)
    BY <1>1, Down
  <1>5. SegmentPages(s) = PagesOf(virt, size) /\ FramesOf(ptr, s) = PagesOf(first, size)
    BY <1>2 DEF SegmentPages, FramesOf
  <1>6. \A v : FrameAt(ptr, s, v) = first + (v - virt)
    BY DEF FrameAt
  <1>7. size \in Nat /\ virt + size <= Top /\ first + size <= Top
    <2> HIDE DEF part, first, virt, phys
    <2>1. virt + part + s.memsz <= Top
      BY DEF part, virt
    <2> QED BY <1>1, <1>2, <1>3, <1>4, <2>1
  <1> HIDE DEF first, virt, size
  <1>8. ASSUME NEW v \in PagesOf(virt, size) PROVE first + (v - virt) \in PagesOf(first, size)
    BY <1>3, <1>4, <1>7, Shift
  <1>9. ASSUME NEW u \in PagesOf(first, size)
        PROVE  \E v \in PagesOf(virt, size) : first + (v - virt) = u
    <2>1. virt + (u - first) \in PagesOf(virt, size) /\ first + ((virt + (u - first)) - virt) = u
      BY <1>3, <1>4, <1>7, Shift
    <2> QED BY <2>1
  <1> QED BY <1>5, <1>6, <1>8, <1>9

\* The frames of a segment that lies in its file are those of the file.
LEMMA SegmentInFile ==
  ASSUME NEW ptr \in Pool, NEW size \in Nat \ {0}, InHeap(ptr, size), NEW s \in ProgramHeaders,
         EndsInMemory(ptr, s), s.offset + s.memsz <= AlignUp(size)
  PROVE  FramesOf(ptr, s) \subseteq PagesOf(ptr, size)
  <1> DEFINE phys == ptr + s.offset
             first == AlignDown(phys)
             part == phys % PageSize
             end == AlignUp(size)
  <1>1. /\ ptr \in Nat /\ ptr \in Int /\ IsAligned(ptr) /\ s.offset \in Nat /\ s.memsz \in Nat
        /\ Top \in Nat \ {0} /\ PageSize \in Nat \ {0}
    BY PoolPages, FramesNat, SizesNat DEF ProgramHeaders
  <1>2. size <= Top - PageSize
    <2>1. ptr + size <= Top - PageSize
      BY BlockEnds DEF InHeap
    <2> QED BY <1>1, <2>1
  <1>3. end \in Nat /\ \A v \in Int : IsAligned(v) => (v < end <=> v < size)
    BY <1>2, Up
  <1>4. phys \in Nat /\ ptr <= phys
    BY <1>1
  <1>5. s.offset + s.memsz <= end
    OBVIOUS
  <1>6. phys = ptr + s.offset
    OBVIOUS
  <1> HIDE DEF phys, end
  <1>7. first \in Nat /\ part \in 0 .. PageSize - 1 /\ first + part = phys /\ ptr <= first
    BY <1>1, <1>4, Down, DownIsLargest
  <1>8. FramesOf(ptr, s) = PagesOf(first, part + s.memsz)
    BY DEF FramesOf, phys
  <1> HIDE DEF first, part
  <1>9. ASSUME NEW v \in PagesOf(first, part + s.memsz) PROVE v \in PagesOf(ptr, size)
    <2>1. v \in Pages /\ v \in Nat /\ IsAligned(v) /\ first <= v /\ v < first + (part + s.memsz)
      BY PageNat DEF PagesOf
    <2>2. v - ptr \in Int /\ IsAligned(v - ptr) /\ v - ptr < end /\ ptr <= v
      <3>1. IsAligned(v - ptr)
        BY <1>1, <2>1, Aligned
      <3> QED BY <1>1, <1>3, <1>4, <1>5, <1>6, <1>7, <2>1, <3>1
    <2>3. v - ptr < size
      BY <1>3, <2>2
    <2>4. v < ptr + size
      BY <1>1, <2>1, <2>3
    <2> QED BY <2>1, <2>2, <2>4 DEF PagesOf
  <1> QED BY <1>8, <1>9

\* What a task can write to: no more, and no less.
LEMMA OpenIs ==
  ASSUME NEW r \in Records, Sound(r), LinkedApart(r.program, r.ptr)
  PROVE  Open(r) = WritablePages(r.program, r.ptr) \cup PagesOf(r.stack, StackSize)
                     \cup BlockPages(r.blocks)
  <1> DEFINE file == r.program
             ptr == r.ptr
             stack == r.stack
             d == r.directory
             S == Segments(file)
             flags(v) == Get(d, v).flags
             frame(v) == Get(d, v).frame
  <1>1. /\ file \in ElfFiles /\ ptr \in Pool /\ stack \in Pool /\ InHeap(stack, StackSize)
        /\ LinkedApart(file, ptr)
    BY RecordsAre, ProgramsAre DEF Sound
  <1>2. \A j \in DOMAIN S :
          /\ S[j] \in ProgramHeaders /\ EndsInMemory(ptr, S[j])
          /\ SegmentPages(S[j]) \cap Pool = {}
          /\ AlignDown(S[j].vaddr) + (S[j].offset % PageSize) + S[j].memsz <= Top
    <2>1. \A j \in DOMAIN S : S[j] \in ProgramHeaders
      BY <1>1, SegmentsAre
    <2>2. \A j \in DOMAIN S : AlignDown(S[j].vaddr) + (S[j].offset % PageSize) + S[j].memsz <= Top
      BY <1>1 DEF LinkedApart
    <2> QED BY <1>1, <2>1, <2>2, LinkedSegments
  <1>3. ASSUME NEW j \in DOMAIN S
        PROVE  /\ \A v \in SegmentPages(S[j]) : FrameAt(ptr, S[j], v) \in FramesOf(ptr, S[j])
               /\ \A u \in FramesOf(ptr, S[j]) :
                    \E v \in SegmentPages(S[j]) : FrameAt(ptr, S[j], v) = u
    <2> DEFINE s == S[j]
    <2>1. /\ s \in ProgramHeaders /\ EndsInMemory(ptr, s)
          /\ AlignDown(s.vaddr) + (s.offset % PageSize) + s.memsz <= Top
      BY <1>2
    <2> HIDE DEF s, ptr, S
    <2>2. /\ \A v \in SegmentPages(s) : FrameAt(ptr, s, v) \in FramesOf(ptr, s)
          /\ \A u \in FramesOf(ptr, s) : \E v \in SegmentPages(s) : FrameAt(ptr, s, v) = u
      BY <1>1, <2>1, SegmentShift
    <2> QED BY <2>2 DEF s
  <1>4. \A v \in Pages \ Pool : Get(d, v) = Get(Built(file, ptr, stack), v)
    BY DEF Sound, Placed
  <1>5. \A x \in r.blocks : \A v \in PagesOf(x.at, x.size) : Get(d, v) = Entry(v, Writable)
    BY DEF Sound, Placed
  <1>6. \A v \in Pool \ BlockPages(r.blocks) : flags(v) # Writable
    BY DEF Sound, Placed
  <1> HIDE DEF file, ptr, stack, d
  <1>7. \A v \in Pages \ Pool :
          /\ v \in PagesOf(StackEnd, StackSize) => Get(d, v) = Entry(stack + (v - StackEnd), Writable)
          /\ \A j \in DOMAIN S :
               v \in SegmentPages(S[j]) => Get(d, v) = Entry(FrameAt(ptr, S[j], v), Flags(S[j]))
          /\ v \notin PagesOf(StackEnd, StackSize) /\ (\A j \in DOMAIN S : v \notin SegmentPages(S[j]))
               => Get(d, v) = Entry(v, Readable)
    BY <1>1, <1>4, BuiltIs
  <1>8. WritablePages(file, ptr) = UNION {FramesOf(ptr, S[i]) : i \in {j \in DOMAIN S : S[j].write}}
    BY DEF WritablePages
  <1>9. Open(r) = {frame(v) : v \in {w \in Pages : flags(w) = Writable}}
    BY DEF Open, d
  <1> HIDE DEF S, flags, frame
  <1>10. \A v, a, g : Get(d, v) = Entry(a, g) => flags(v) = g /\ frame(v) = a
    BY DEF flags, frame, Entry
  <1>11. StackEnd \in Nat /\ IsAligned(StackEnd) /\ stack \in Nat /\ IsAligned(stack) /\ StackSize \in Nat
         /\ StackEnd + StackSize <= Top /\ stack + StackSize <= Top
    <2>1. StackEnd + StackSize <= Top /\ StackEnd \in Pages
      BY PagingConstants
    <2> QED BY <1>1, <2>1, StackPages, PageNat, PoolPages DEF InHeap
  <1>12. ASSUME NEW v \in Pages, flags(v) = Writable
         PROVE  frame(v) \in WritablePages(file, ptr) \cup PagesOf(stack, StackSize)
                               \cup BlockPages(r.blocks)
    <2>1. CASE v \in Pool
      <3>1. PICK x \in r.blocks : v \in PagesOf(x.at, x.size)
        BY <1>6, <1>12, <2>1 DEF BlockPages
      <3>2. frame(v) = v
        BY <1>5, <1>10, <3>1
      <3> QED BY <3>1, <3>2 DEF BlockPages
    <2>2. CASE v \notin Pool
      <3>1. CASE v \in PagesOf(StackEnd, StackSize)
        <4> DEFINE u == stack + (v - StackEnd)
        <4>1. Get(d, v) = Entry(u, Writable)
          BY <1>7, <2>2, <3>1
        <4>2. u \in PagesOf(stack, StackSize)
          BY <1>11, <3>1, Shift
        <4> HIDE DEF u
        <4>3. frame(v) = u
          BY <1>10, <4>1
        <4> QED BY <4>2, <4>3
      <3>2. ASSUME NEW j \in DOMAIN S, v \in SegmentPages(S[j])
            PROVE  frame(v) \in WritablePages(file, ptr)
        <4>1. frame(v) = FrameAt(ptr, S[j], v) /\ flags(v) = Flags(S[j])
          BY <1>7, <1>10, <2>2, <3>2
        <4>2. S[j].write
          BY <1>12, <4>1, FlagSets DEF Flags
        <4>3. frame(v) \in FramesOf(ptr, S[j])
          BY <1>3, <3>2, <4>1
        <4> QED BY <1>8, <4>2, <4>3
      <3>3. CASE v \notin PagesOf(StackEnd, StackSize) /\ \A j \in DOMAIN S : v \notin SegmentPages(S[j])
        <4>1. flags(v) = Readable
          BY <1>7, <1>10, <2>2, <3>3
        <4> QED BY <1>12, <4>1, FlagSets
      <3> QED BY <3>1, <3>2, <3>3
    <2> QED BY <2>1, <2>2
  <1>13. ASSUME NEW u \in WritablePages(file, ptr) PROVE u \in Open(r)
    <2>1. PICK j \in DOMAIN S : S[j].write /\ u \in FramesOf(ptr, S[j])
      BY <1>8
    <2>2. PICK v \in SegmentPages(S[j]) : FrameAt(ptr, S[j], v) = u
      BY <1>3, <2>1
    <2>3. v \in Pages \ Pool
      BY <1>2 DEF SegmentPages, PagesOf
    <2>4. frame(v) = u /\ flags(v) = Flags(S[j])
      BY <1>7, <1>10, <2>2, <2>3
    <2>5. flags(v) = Writable
      BY <2>1, <2>4 DEF Flags
    <2> QED BY <1>9, <2>3, <2>4, <2>5
  <1>14. ASSUME NEW u \in PagesOf(stack, StackSize) PROVE u \in Open(r)
    <2> DEFINE v == StackEnd + (u - stack)
    <2>1. v \in PagesOf(StackEnd, StackSize) /\ stack + (v - StackEnd) = u
      BY <1>11, Shift
    <2> HIDE DEF v
    <2>2. v \in Pages \ Pool
      BY <2>1, StackApart
    <2>3. frame(v) = u /\ flags(v) = Writable
      BY <1>7, <1>10, <2>1, <2>2
    <2> QED BY <1>9, <2>2, <2>3
  <1>15. ASSUME NEW u \in BlockPages(r.blocks) PROVE u \in Open(r)
    <2>1. PICK x \in r.blocks : u \in PagesOf(x.at, x.size)
      BY DEF BlockPages
    <2>2. u \in Pages /\ frame(u) = u /\ flags(u) = Writable
      BY <1>5, <1>10, <2>1 DEF PagesOf
    <2> QED BY <1>9, <2>2
  <1>16. Open(r) = WritablePages(file, ptr) \cup PagesOf(stack, StackSize) \cup BlockPages(r.blocks)
    <2>1. Open(r) \subseteq WritablePages(file, ptr) \cup PagesOf(stack, StackSize) \cup BlockPages(r.blocks)
      BY <1>9, <1>12
    <2> QED BY <1>13, <1>14, <1>15, <2>1
  <1> QED BY <1>16 DEF file, ptr, stack

\* And all of it was allocated for the task.
LEMMA OpenIsOwn ==
  ASSUME NEW r \in Records, Sound(r), LinkedApart(r.program, r.ptr), Contained(r.program)
  PROVE  Open(r) \subseteq Own(r)
  <1> DEFINE file == r.program
             ptr == r.ptr
             S == Segments(file)
  <1>1. /\ file \in ElfFiles /\ file.size \in Nat \ {0} /\ ptr \in Pool /\ InHeap(ptr, file.size)
        /\ LinkedApart(file, ptr) /\ Contained(file)
    BY RecordsAre, ProgramsAre DEF Sound
  <1>2. ASSUME NEW j \in DOMAIN S PROVE FramesOf(ptr, S[j]) \subseteq PagesOf(ptr, file.size)
    <2> DEFINE s == S[j]
               size == file.size
    <2>1. s \in ProgramHeaders
      BY <1>1, SegmentsAre
    <2>2. EndsInMemory(ptr, s)
      BY <1>1, LinkedSegments
    <2>3. s.offset + s.memsz <= AlignUp(size)
      BY <1>1 DEF Contained
    <2>4. size \in Nat \ {0} /\ InHeap(ptr, size)
      BY <1>1
    <2> HIDE DEF s, S, size, ptr
    <2>5. FramesOf(ptr, s) \subseteq PagesOf(ptr, size)
      BY <1>1, <2>1, <2>2, <2>3, <2>4, SegmentInFile
    <2> QED BY <2>5 DEF s, size
  <1>3. WritablePages(file, ptr) \subseteq PagesOf(ptr, file.size)
    BY <1>2 DEF WritablePages
  <1> QED BY <1>3, OpenIs DEF Own

\* A task can write to what is its own and to nothing else (paging.c:110-142,
\* process.c:59-92, 285-311 and 394-470, task.c:138-175).
THEOREM WritesOwn == Spec => []WritesOnlyItsOwn
  <1>1. IInv => WritesOnlyItsOwn
    <2> SUFFICES ASSUME IInv, NEW t \in Live, LinkedApart(task[t].program, task[t].ptr), NEW r, r = task[t]
                 PROVE  /\ Open(r) = WritablePages(r.program, r.ptr) \cup PagesOf(r.stack, StackSize)
                                       \cup UNION {PagesOf(x.at, x.size) : x \in r.blocks}
                        /\ Contained(r.program) => Open(r) \subseteq Held(t)
      BY DEF WritesOnlyItsOwn
    <2>1. r \in Records /\ Sound(r) /\ LinkedApart(r.program, r.ptr)
      BY DEF IInv
    <2>2. Held(t) = Own(r)
      BY DEF Held, Own, BlockPages
    <2> QED BY <2>1, <2>2, OpenIs, OpenIsOwn DEF BlockPages
  <1> QED BY <1>1, Invariant, PTL

\* No two tasks can write to the same frame, when their files are linked apart and
\* lie in their memory.
Isolated ==
  \A t, u \in Live :
    (/\ t # u
     /\ LinkedApart(task[t].program, task[t].ptr) /\ Contained(task[t].program)
     /\ LinkedApart(task[u].program, task[u].ptr) /\ Contained(task[u].program))
      => Open(task[t]) \cap Open(task[u]) = {}

\* The memory of one task is safe from the others (process.c:59-92, 285-311 and
\* 394-470, task.c:138-175).
THEOREM TasksAreIsolated == Spec => []Isolated
  <1>1. IInv => Isolated
    BY OpenIsOwn DEF IInv, Isolated
  <1> QED BY <1>1, Invariant, PTL

------------------------------------------------------------------------------
(* What the loader notes of a file.                                          *)

Notes == [vbase : Nat, vend : Nat, pbase : Nat, pend : Nat]

\* A turn with a segment to load (elfloader.c:111-129).
LEMMA WithLoadNotes ==
  ASSUME NEW b \in Notes, NEW h \in ProgramHeaders, NEW memory \in Nat
  PROVE  WithLoad(b, h, memory) \in Notes
  <1>1. h.vaddr \in Nat /\ h.filesz \in Nat /\ h.offset \in Nat
    BY DEF ProgramHeaders
  <1>2. b.vbase \in Nat /\ b.vend \in Nat /\ b.pbase \in Nat /\ b.pend \in Nat
    BY DEF Notes
  <1>3. h.vaddr + h.filesz \in Nat /\ memory + h.offset \in Nat /\ memory + h.offset + h.filesz \in Nat
    BY <1>1
  <1> DEFINE w == WithLoad(b, h, memory)
  <1>4. /\ w.vbase \in Nat /\ w.vend \in Nat /\ w.pbase \in Nat /\ w.pend \in Nat
        /\ w = [vbase |-> w.vbase, vend |-> w.vend, pbase |-> w.pbase, pend |-> w.pend]
    BY <1>1, <1>2, <1>3 DEF WithLoad
  <1> HIDE DEF w
  <1>5. w \in Notes
    BY <1>4 DEF Notes
  <1> QED BY <1>5 DEF w

\* The turns of elf_process_pheaders (elfloader.c:131-153).
LEMMA BoundsTurns ==
  ASSUME NEW file \in ElfFiles, IsElf(file), NEW memory \in Nat, NEW n, n = Len(file.headers)
  PROVE  \E f \in [0 .. n -> Notes] :
           /\ f[0] = NoBounds /\ f[n] = Bounds(file, memory)
           /\ \A i \in 1 .. n :
                f[i] = IF file.headers[i].type = "load" THEN WithLoad(f[i - 1], file.headers[i], memory)
                       ELSE f[i - 1]
  <1> DEFINE H == file.headers
             Turn(b, i) == IF H[i].type = "load" THEN WithLoad(b, H[i], memory) ELSE b
             step == [p \in Nat \X Notes |-> IF p[1] \in 1 .. n THEN Turn(p[2], p[1]) ELSE p[2]]
             Body(f) == [i \in 0 .. n |-> IF i = 0 THEN NoBounds ELSE Turn(f[i - 1], i)]
             after == CHOOSE f : f = Body(f)
  <1>1. n \in Nat /\ \A i \in 1 .. n : H[i] \in ProgramHeaders
    BY DEF ElfFiles
  <1>2. NoBounds \in Notes
    BY DEF NoBounds, Notes
  <1>3. Bounds(file, memory) = after[n]
    BY DEF Bounds
  <1>4. \A i \in 1 .. n, b \in Notes : Turn(b, i) \in Notes
    <2> SUFFICES ASSUME NEW i \in 1 .. n, NEW b \in Notes PROVE Turn(b, i) \in Notes
      OBVIOUS
    <2>1. H[i] \in ProgramHeaders
      BY <1>1
    <2>2. WithLoad(b, H[i], memory) \in Notes
      BY <2>1, WithLoadNotes
    <2> QED BY <2>2
  <1> HIDE DEF H, Turn
  <1>5. step \in [Nat \X Notes -> Notes]
    BY <1>4
  <1>6. \A i \in 1 .. n, b \in Notes : step[<<i, b>>] = Turn(b, i)
    BY <1>1
  <1> HIDE DEF step
  <1>7. PICK f : Turns(f, Notes, NoBounds, step, n)
    BY <1>1, <1>2, <1>5, TurnsExist
  <1>8. /\ f \in [0 .. n -> Notes] /\ f[0] = NoBounds
        /\ \A i \in 1 .. n : f[i] = step[<<i, f[i - 1]>>]
    BY <1>7 DEF Turns
  <1>9. ASSUME NEW i \in 1 .. n PROVE f[i] = Turn(f[i - 1], i)
    <2>1. f[i - 1] \in Notes
      BY <1>1, <1>8
    <2> QED BY <1>6, <1>8, <2>1
  <1>10. f = Body(f)
    <2>1. ASSUME NEW i \in 0 .. n PROVE f[i] = IF i = 0 THEN NoBounds ELSE Turn(f[i - 1], i)
      BY <1>1, <1>8, <1>9
    <2> QED BY <1>8, <2>1
  <1>11. after = Body(after)
    BY <1>10
  <1> HIDE DEF after
  <1>12. \A i \in 0 .. n : after[i] = IF i = 0 THEN NoBounds ELSE Turn(after[i - 1], i)
    BY <1>11
  <1> DEFINE T == {k \in Nat : k <= n => after[k] = f[k]}
  <1>13. 0 \in T
    BY <1>1, <1>8, <1>12
  <1>14. ASSUME NEW k \in Nat, k \in T PROVE k + 1 \in T
    <2>1. ASSUME k + 1 <= n PROVE after[k + 1] = f[k + 1]
      <3>1. k + 1 \in 1 .. n /\ k + 1 \in 0 .. n /\ k + 1 # 0 /\ (k + 1) - 1 = k /\ after[k] = f[k]
        BY <1>1, <1>14, <2>1
      <3>2. after[k + 1] = Turn(after[k], k + 1)
        BY <1>12, <3>1
      <3>3. f[k + 1] = Turn(f[k], k + 1)
        BY <1>9, <3>1
      <3> QED BY <3>1, <3>2, <3>3
    <2> QED BY <2>1
  <1> HIDE DEF T
  <1>15. n \in T
    BY <1>1, <1>13, <1>14, Induct
  <1>16. after[n] = f[n]
    BY <1>1, <1>15 DEF T
  <1> QED BY <1>3, <1>8, <1>9, <1>16 DEF Turn, H

\* One header: a bound is that of the segment or the one there was, whichever is
\* further out (elfloader.c:111-129).
LEMMA OneLoad ==
  ASSUME NEW b \in Notes, NEW h \in ProgramHeaders, 0 < h.vaddr, 0 < h.filesz, NEW memory \in Nat,
         NEW c, c = WithLoad(b, h, memory)
  PROVE  /\ c.vbase <= h.vaddr /\ h.vaddr + h.filesz <= c.vend
         /\ b.vbase # 0 => c.vbase <= b.vbase
         /\ b.vend <= c.vend
         /\ \/ c.vbase = h.vaddr /\ c.pbase = memory + h.offset
            \/ b.vbase # 0 /\ c.vbase = b.vbase /\ c.pbase = b.pbase
         /\ \/ c.vend = h.vaddr + h.filesz /\ c.pend = memory + h.offset + h.filesz
            \/ b.vend # 0 /\ c.vend = b.vend /\ c.pend = b.pend
  <1>1. /\ h.vaddr \in Nat /\ h.filesz \in Nat /\ h.offset \in Nat
        /\ b.vbase \in Nat /\ b.vend \in Nat
    BY DEF ProgramHeaders, Notes
  <1>2. /\ c.vbase = IF b.vbase >= h.vaddr \/ b.vbase = 0 THEN h.vaddr ELSE b.vbase
        /\ c.pbase = IF b.vbase >= h.vaddr \/ b.vbase = 0 THEN memory + h.offset ELSE b.pbase
        /\ c.vend = IF b.vend <= h.vaddr + h.filesz \/ b.vend = 0 THEN h.vaddr + h.filesz ELSE b.vend
        /\ c.pend = IF b.vend <= h.vaddr + h.filesz \/ b.vend = 0 THEN memory + h.offset + h.filesz
                    ELSE b.pend
    BY DEF WithLoad
  <1> QED BY <1>1, <1>2

\* What the bounds say of the first k headers: they are the ends of segments to
\* load, and no such segment goes past them.
Noted(H, memory, b, k) ==
  LET loads == {i \in 1 .. k : H[i].type = "load"} IN
  /\ loads = {} => b = NoBounds
  /\ loads # {} =>
       /\ \E i \in loads : b.vbase = H[i].vaddr /\ b.pbase = memory + H[i].offset
       /\ \E i \in loads : /\ b.vend = H[i].vaddr + H[i].filesz
                           /\ b.pend = memory + H[i].offset + H[i].filesz
       /\ \A i \in loads : b.vbase <= H[i].vaddr /\ H[i].vaddr + H[i].filesz <= b.vend

LEMMA BoundsAre ==
  ASSUME NEW file \in ElfFiles, IsElf(file), NEW memory \in Nat, LoadsHaveBytes(file.headers)
  PROVE  Noted(file.headers, memory, Bounds(file, memory), Len(file.headers))
  <1> DEFINE H == file.headers
             n == Len(H)
  <1>1. n \in Nat /\ DOMAIN H = 1 .. n /\ \A i \in 1 .. n : H[i] \in ProgramHeaders
    BY DEF ElfFiles
  <1>2. \A i \in 1 .. n : H[i].type = "load" => 0 < H[i].vaddr /\ 0 < H[i].filesz
    BY <1>1 DEF LoadsHaveBytes
  <1>3. PICK f \in [0 .. n -> Notes] :
          /\ f[0] = NoBounds /\ f[n] = Bounds(file, memory)
          /\ \A i \in 1 .. n :
               f[i] = IF H[i].type = "load" THEN WithLoad(f[i - 1], H[i], memory) ELSE f[i - 1]
    <2>1. n = Len(file.headers)
      OBVIOUS
    <2> HIDE DEF n
    <2> QED BY <2>1, BoundsTurns
  <1> HIDE DEF H, n
  <1> DEFINE T == {k \in Nat : k <= n => Noted(H, memory, f[k], k)}
  <1>4. 0 \in T
    <2>1. 1 .. 0 = {}
      OBVIOUS
    <2> QED BY <1>3, <2>1 DEF Noted
  <1>5. ASSUME NEW k \in Nat, k \in T PROVE k + 1 \in T
    <2>1. ASSUME k + 1 <= n PROVE Noted(H, memory, f[k + 1], k + 1)
      <3> DEFINE h == H[k + 1]
                 b == f[k]
                 c == f[k + 1]
                 old == {i \in 1 .. k : H[i].type = "load"}
                 new == {i \in 1 .. k + 1 : H[i].type = "load"}
      <3>1. /\ k + 1 \in 1 .. n /\ k \in 0 .. n /\ (k + 1) - 1 = k /\ 1 .. k + 1 = (1 .. k) \cup {k + 1}
            /\ 1 .. k \subseteq 1 .. n
        BY <1>1, <2>1
      <3>2. /\ old = {} => b = NoBounds
            /\ old # {} =>
                 /\ \E i \in old : b.vbase = H[i].vaddr /\ b.pbase = memory + H[i].offset
                 /\ \E i \in old : /\ b.vend = H[i].vaddr + H[i].filesz
                                   /\ b.pend = memory + H[i].offset + H[i].filesz
                 /\ \A i \in old : b.vbase <= H[i].vaddr /\ H[i].vaddr + H[i].filesz <= b.vend
        BY <1>5, <2>1, <3>1 DEF Noted
      <3>3. b \in Notes /\ c \in Notes /\ h \in ProgramHeaders /\ \A i \in old : H[i] \in ProgramHeaders
        BY <1>1, <3>1
      <3>4. c = IF h.type = "load" THEN WithLoad(b, h, memory) ELSE b
        BY <1>3, <3>1
      <3>5. h.type = "load" => 0 < h.vaddr /\ 0 < h.filesz
        BY <1>2, <3>1
      <3>6. new = IF h.type = "load" THEN old \cup {k + 1} ELSE old
        BY <3>1
      <3>7. ASSUME h.type = "load"
            PROVE  /\ \E i \in new : c.vbase = H[i].vaddr /\ c.pbase = memory + H[i].offset
                   /\ \E i \in new : /\ c.vend = H[i].vaddr + H[i].filesz
                                     /\ c.pend = memory + H[i].offset + H[i].filesz
                   /\ \A i \in new : c.vbase <= H[i].vaddr /\ H[i].vaddr + H[i].filesz <= c.vend
        <4>1. new = old \cup {k + 1} /\ h = H[k + 1]
          BY <3>6, <3>7
        <4>2. \A i \in old : H[i].vaddr \in Nat /\ H[i].filesz \in Nat
          BY <3>3 DEF ProgramHeaders
        <4>3. b.vbase \in Nat /\ b.vend \in Nat /\ c.vbase \in Nat /\ c.vend \in Nat
          BY <3>3 DEF Notes
        <4> HIDE DEF h, b, c, new, old
        <4>4. /\ c.vbase <= h.vaddr /\ h.vaddr + h.filesz <= c.vend
              /\ b.vbase # 0 => c.vbase <= b.vbase
              /\ b.vend <= c.vend
              /\ \/ c.vbase = h.vaddr /\ c.pbase = memory + h.offset
                 \/ b.vbase # 0 /\ c.vbase = b.vbase /\ c.pbase = b.pbase
              /\ \/ c.vend = h.vaddr + h.filesz /\ c.pend = memory + h.offset + h.filesz
                 \/ b.vend # 0 /\ c.vend = b.vend /\ c.pend = b.pend
          BY <3>3, <3>4, <3>5, <3>7, OneLoad
        <4>5. (b.vbase # 0 \/ b.vend # 0) => old # {}
          BY <3>2 DEF NoBounds
        <4>6. \A i \in old : 0 < H[i].vaddr
          BY <1>2, <3>1 DEF old
        <4>7. old # {} => b.vbase # 0
          BY <3>2, <4>6
        <4>8. \E i \in new : c.vbase = H[i].vaddr /\ c.pbase = memory + H[i].offset
          BY <3>2, <4>1, <4>4, <4>5
        <4>9. \E i \in new : /\ c.vend = H[i].vaddr + H[i].filesz
                             /\ c.pend = memory + H[i].offset + H[i].filesz
          BY <3>2, <4>1, <4>4, <4>5
        <4>10. \A i \in new : c.vbase <= H[i].vaddr /\ H[i].vaddr + H[i].filesz <= c.vend
          BY <3>2, <4>1, <4>2, <4>3, <4>4, <4>7
        <4> QED BY <4>8, <4>9, <4>10
      <3>8. CASE h.type = "load"
        <4>1. new # {}
          BY <3>6, <3>8
        <4> QED BY <3>7, <3>8, <4>1 DEF Noted
      <3>9. CASE h.type # "load"
        <4>1. new = old /\ c = b
          BY <3>4, <3>6, <3>9
        <4> QED BY <3>2, <4>1 DEF Noted
      <3> QED BY <3>8, <3>9
    <2> QED BY <2>1
  <1> HIDE DEF T
  <1>6. n \in T
    BY <1>1, <1>4, <1>5, Induct
  <1> QED BY <1>1, <1>3, <1>6 DEF T, H, n

\* The bounds in memory are where the bounds in the address space lead
\* (elfloader.c:111-153, process.c:430-458).
THEOREM BoundsLead == Spec => []BoundsAreMapped
  <1>1. ASSUME NEW r \in Records, Sound(r), IsElf(r.program), WellPlaced(r.program, r.ptr),
               LoadsHaveBytes(r.program.headers),
               {i \in DOMAIN r.program.headers : r.program.headers[i].type = "load"} # {}
        PROVE  /\ \A i \in {k \in DOMAIN r.program.headers : r.program.headers[k].type = "load"} :
                    /\ r.bounds.vbase <= r.program.headers[i].vaddr
                    /\ r.program.headers[i].vaddr + r.program.headers[i].filesz <= r.bounds.vend
               /\ PhysicalAddress(r.directory, r.bounds.vbase) = r.bounds.pbase
               /\ PhysicalAddress(r.directory, r.bounds.vend - 1) = r.bounds.pend - 1
    <2> DEFINE file == r.program
               H == file.headers
               n == Len(H)
               b == r.bounds
               ptr == r.ptr
               loads == {i \in 1 .. n : H[i].type = "load"}
    <2>1. /\ file \in ElfFiles /\ ptr \in Nat /\ b = Bounds(file, ptr) /\ Segments(file) = H
      BY <1>1, RecordsAre, ProgramsAre, PoolPages DEF Sound, Segments
    <2>2. DOMAIN H = 1 .. n /\ \A i \in 1 .. n : H[i] \in ProgramHeaders
      BY <2>1 DEF ElfFiles
    <2>3. Noted(H, ptr, b, n)
      <3> HIDE DEF ptr, b, file
      <3> QED BY <1>1, <2>1, BoundsAre DEF file
    <2>4. \A i \in loads : 0 < H[i].filesz /\ H[i].filesz <= H[i].memsz
      BY <1>1, <2>2 DEF LoadsHaveBytes
    <2>5. ASSUME NEW i \in loads, NEW k \in 0 .. H[i].memsz - 1
          PROVE  PhysicalAddress(r.directory, H[i].vaddr + k) = ptr + H[i].offset + k
      <3>1. i \in DOMAIN Segments(r.program) /\ k \in 0 .. Segments(r.program)[i].memsz - 1
        BY <2>1, <2>2, <2>5
      <3>2. PhysicalAddress(r.directory, Segments(r.program)[i].vaddr + k) =
              r.ptr + Segments(r.program)[i].offset + k
        BY <1>1, <3>1, SegmentInPlace
      <3> QED BY <2>1, <3>2
    <2>6. \A i \in loads : /\ H[i].filesz \in Nat /\ H[i].memsz \in Nat /\ H[i].vaddr \in Nat
                           /\ H[i].offset \in Nat
      BY <2>2 DEF ProgramHeaders
    <2>7. loads # {}
      BY <1>1, <2>2
    <2> HIDE DEF file, H, n, b, ptr, loads
    <2>8. /\ \E i \in loads : b.vbase = H[i].vaddr /\ b.pbase = ptr + H[i].offset
          /\ \E i \in loads : /\ b.vend = H[i].vaddr + H[i].filesz
                              /\ b.pend = ptr + H[i].offset + H[i].filesz
          /\ \A i \in loads : b.vbase <= H[i].vaddr /\ H[i].vaddr + H[i].filesz <= b.vend
      BY <2>3, <2>7 DEF Noted, loads
    <2>9. PhysicalAddress(r.directory, b.vbase) = b.pbase
      <3>1. PICK i \in loads : b.vbase = H[i].vaddr /\ b.pbase = ptr + H[i].offset
        BY <2>8
      <3>2. 0 \in 0 .. H[i].memsz - 1
        BY <2>4, <2>6
      <3>3. PhysicalAddress(r.directory, H[i].vaddr + 0) = ptr + H[i].offset + 0
        BY <2>5, <3>2
      <3>4. H[i].vaddr + 0 = H[i].vaddr /\ ptr + H[i].offset + 0 = ptr + H[i].offset
        BY <2>1, <2>6
      <3> QED BY <3>1, <3>3, <3>4
    <2>10. PhysicalAddress(r.directory, b.vend - 1) = b.pend - 1
      <3>1. PICK i \in loads : b.vend = H[i].vaddr + H[i].filesz /\ b.pend = ptr + H[i].offset + H[i].filesz
        BY <2>8
      <3> DEFINE k == H[i].filesz - 1
      <3>2. k \in 0 .. H[i].memsz - 1
        BY <2>4, <2>6
      <3>3. b.vend - 1 = H[i].vaddr + k /\ b.pend - 1 = ptr + H[i].offset + k
        BY <2>1, <2>6, <3>1
      <3> HIDE DEF k
      <3>4. PhysicalAddress(r.directory, H[i].vaddr + k) = ptr + H[i].offset + k
        BY <2>5, <3>2
      <3> QED BY <3>3, <3>4
    <2>11. loads = {k \in DOMAIN H : H[k].type = "load"}
      BY <2>2 DEF loads
    <2> QED BY <2>8, <2>9, <2>10, <2>11 DEF b, H, file
  <1>2. IInv => BoundsAreMapped
    <2> SUFFICES ASSUME IInv PROVE BoundsAreMapped
      OBVIOUS
    <2>1. \A t \in Live : task[t] \in Records /\ Sound(task[t])
      BY DEF IInv
    <2> QED BY <1>1, <2>1 DEF BoundsAreMapped
  <1> QED BY <1>2, Invariant, PTL

=============================================================================
