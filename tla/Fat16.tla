-------------------------------- MODULE Fat16 --------------------------------
(***************************************************************************)
(* Reading an open file: fread and fseek of src/src/fs/file.c for a file   *)
(* of src/src/fs/fat/fat16.c, down to the sectors of disk/streamer.c.      *)
(*                                                                         *)
(* A byte of the disk is named by its position, so a read shows where its  *)
(* bytes come from.  The disk holds one file, in any chain of clusters; it *)
(* is written outside this program, as mtools writes it.                   *)
(***************************************************************************)
EXTENDS Integers, Sequences

CONSTANTS
  SectorSize,         \* MARROWOS_SECTOR_SIZE
  SectorsPerCluster,  \* of the header of the volume
  DataStart,          \* root_directory.ending_sector_pos
  Clusters,           \* the last cluster of the volume; the first is 2
  MaxChain,           \* the most clusters of a file
  Sizes, Counts,      \* the size and nmemb of a read
  MaxPos              \* bound: how far SEEK_CUR may go

VARIABLES
  file,   \* the item of the directory and its chain of clusters
  pos,    \* of the descriptor
  asked,  \* ghost: the size and nmemb of the last step if it was a read, or <<>>
  given,  \* what the last read gave: its status and its bytes
  hung    \* the disk is asked for a sector it does not have

vars == <<file, pos, asked, given, hung>>

ClusterSize == SectorsPerCluster * SectorSize
DiskSectors == DataStart + (Clusters - 1) * SectorsPerCluster

ASSUME Fat16Constants ==
  /\ SectorSize \in Nat \ {0} /\ SectorsPerCluster \in Nat \ {0}
  /\ Clusters \in Nat \ {0, 1}
  /\ DataStart \in Nat /\ DataStart >= 2 * SectorsPerCluster
  /\ Clusters < 4080   \* 0xFF0, the first of the marks
  /\ MaxChain \in Nat /\ MaxPos \in Nat
  /\ Sizes \subseteq Nat /\ Counts \subseteq Nat

------------------------------------------------------------------------------
(* The volume.                                                               *)

Marks == {65528, 65535}              \* 0xFFF8 and 0xFFFF: the end of a chain
Refused == Marks \cup {4087, 4080, 4086, 0}  \* bad, reserved and free

\* The allocation table: the chain of the file, and its other entries free.
Fat(cluster) ==
  LET chain == file.chain
      at == {i \in DOMAIN chain : chain[i] = cluster}
  IN  IF cluster = 0 THEN 65528   \* the mark of the medium
      ELSE IF at = {} THEN 0
      ELSE LET i == CHOOSE i \in at : TRUE
           IN  IF i = Len(chain) THEN file.mark ELSE chain[i + 1]

\* fat16_get_first_cluster.  A file without clusters has 0.
FirstCluster == IF file.chain = <<>> THEN 0 ELSE file.chain[1]

\* Operators named Wrong... are variants a slip in the code would give; no
\* definition uses them.  Each stands before the one it would replace, and a
\* property must tell the two apart.

\* Wrong: the first cluster is taken for 1.
WrongClusterToSector(cluster) == DataStart + (cluster - 1) * SectorsPerCluster

ClusterToSector(cluster) == DataStart + (cluster - 2) * SectorsPerCluster

------------------------------------------------------------------------------
(* Reading.  An outcome has a status and the bytes that were read.           *)

Outcome(status, bytes) == [status |-> status, bytes |-> bytes]

Bytes(from, to) == [i \in 1 .. to - from |-> from + i - 1]

\* The outcome of reading bytes and then what next gives.
AndThen(bytes, next) == Outcome(next.status, bytes \o next.bytes)

\* disk_streamer_read, sector by sector.  When what is read ends with a sector
\* the next one is read too, for none of its bytes; a sector that is not on the
\* disk is waited for without end (disk.c:57-60).
Stream(from, total) ==
  LET to == from + total
      read[p \in from .. to] ==
        LET next == p - (p % SectorSize) + SectorSize IN
        IF p \div SectorSize >= DiskSectors THEN Outcome("hangs", <<>>)
        ELSE IF next <= to THEN AndThen(Bytes(p, next), read[next])
        ELSE Outcome("ok", Bytes(p, to))
  IN  read[from]

\* Wrong: the number of clusters to go ahead is rounded up.
WrongClustersAhead(offset) == (offset + ClusterSize - 1) \div ClusterSize

ClustersAhead(offset) == offset \div ClusterSize

Error == -1

\* fat16_get_cluster_for_offset.
ClusterFor(offset) ==
  LET use[i \in 0 .. ClustersAhead(offset)] ==
        IF i = 0 THEN FirstCluster
        ELSE IF use[i - 1] = Error \/ Fat(use[i - 1]) \in Refused THEN Error
        ELSE Fat(use[i - 1])
  IN  use[ClustersAhead(offset)]

\* fat16_read_internal_from_stream, piece by piece.  A piece is as long as a
\* cluster, and so goes past the end of the one it begins in the middle of.
ReadInternal(offset, total) ==
  LET to == offset + total
      read[o \in offset .. to] ==
        LET cluster == ClusterFor(o)
            length == IF to - o > ClusterSize THEN ClusterSize ELSE to - o
            piece == Stream(ClusterToSector(cluster) * SectorSize + (o % ClusterSize), length)
        IN  IF cluster = Error THEN Outcome("error", <<>>)
            ELSE IF piece.status # "ok" \/ o + length = to THEN piece
            ELSE AndThen(piece.bytes, read[o + length])
  IN  read[offset]

\* The loop of fat16_read over the elements.
ReadElements(size, nmemb) ==
  LET read[i \in 0 .. nmemb - 1] ==
        LET element == ReadInternal(pos + i * size, size) IN
        IF element.status # "ok" \/ i = nmemb - 1 THEN element
        ELSE AndThen(element.bytes, read[i + 1])
  IN  read[0]

\* Of a read that fails the caller learns nothing but that.
Told(outcome) == IF outcome.status = "ok" THEN outcome ELSE Outcome(outcome.status, <<>>)

\* fread: nothing is no size for a read.  The position moves only with success.
Read(size, nmemb) ==
  /\ ~hung /\ asked' = <<size, nmemb>>
  /\ LET outcome == IF size = 0 \/ nmemb = 0 THEN Outcome("error", <<>>)
                                             ELSE ReadElements(size, nmemb) IN
     /\ hung' = (outcome.status = "hangs")
     /\ given' = IF hung' THEN given ELSE Told(outcome)
     /\ pos' = IF outcome.status = "ok" THEN pos + size * nmemb ELSE pos
  /\ UNCHANGED file

\* fseek with SEEK_SET and SEEK_CUR.  Both refuse an offset that is not less
\* than the size; SEEK_END is refused always.
SeekSet(offset) ==
  /\ ~hung /\ offset < file.size
  /\ pos' = offset /\ asked' = <<>>
  /\ UNCHANGED <<file, given, hung>>

SeekCur(offset) ==
  /\ ~hung /\ offset < file.size
  /\ pos + offset <= MaxPos
  /\ pos' = pos + offset /\ asked' = <<>>
  /\ UNCHANGED <<file, given, hung>>

SeekRefused(offset) ==
  /\ ~hung /\ offset >= file.size
  /\ asked' = <<>> /\ UNCHANGED <<file, pos, given, hung>>

Chains ==
  {s \in UNION {[1 .. n -> 2 .. Clusters] : n \in 0 .. MaxChain} :
     \A i, k \in DOMAIN s : s[i] = s[k] => i = k}

\* A file fills its chain to the last cluster, and fopen puts it at its start.
Init ==
  /\ \E chain \in Chains, mark \in Marks, size \in 0 .. MaxChain * ClusterSize :
       /\ (Len(chain) - 1) * ClusterSize < size /\ size <= Len(chain) * ClusterSize
       /\ file = [chain |-> chain, mark |-> mark, size |-> size]
  /\ pos = 0 /\ asked = <<>>
  /\ given = Outcome("ok", <<>>)
  /\ hung = FALSE

Next ==
  \/ \E size \in Sizes, nmemb \in Counts : Read(size, nmemb)
  \/ \E offset \in Sizes : SeekSet(offset) \/ SeekCur(offset) \/ SeekRefused(offset)

Spec == Init /\ [][Next]_vars

------------------------------------------------------------------------------
(* Properties.                                                               *)

\* Where the byte of the file at an offset lies: the data begin with cluster 2.
Position(offset) ==
  DataStart * SectorSize + (file.chain[offset \div ClusterSize + 1] - 2) * ClusterSize
    + (offset % ClusterSize)

Content == [k \in 1 .. file.size |-> Position(k - 1)]

\* A piece goes past the end of a cluster only into the one that follows it in
\* the file.
Untorn(offset, size) ==
  \A k \in 0 .. size - 1 :
    LET first == (offset + (k - (k % ClusterSize))) \div ClusterSize + 1
        here == (offset + k) \div ClusterSize + 1
    IN  {first, here} \subseteq DOMAIN file.chain =>
          file.chain[here] - file.chain[first] = here - first

\* Some element of the read is torn.
Torn(size, nmemb) == \E i \in 0 .. nmemb - 1 : ~Untorn(pos + i * size, size)

Reader == INSTANCE FileReader WITH content <- Content, pos <- pos, given <- given

\* A file is read as FileReader says, whatever its chain: the right bytes, in
\* order, and no failure before its end, unless the read begins within a cluster
\* and goes on into one that does not lie behind it on the disk, or the disk
\* hangs (fat16.c:403-481 and 698-754).
ImplementsReader ==
  Reader!Init /\
  [][\/ hung'
     \/ asked' = <<>> /\ Reader!Seek
     \/ /\ asked' # <<>>
        /\ LET n == asked'[1] * asked'[2]
           IN  \/ Reader!Read(n) \/ Reader!ReadPastEnd(n) \/ Reader!Fail(n)
               \/ Torn(asked'[1], asked'[2])]_(Reader!vars)

\* A read within the file that is not torn hangs only if it takes the last byte
\* of the disk (streamer.c:33-58).
HangsOnlyAtTheEnd ==
  [][hung' =>
       LET n == asked'[1] * asked'[2] IN
       \/ pos + n > file.size
       \/ Torn(asked'[1], asked'[2])
       \/ \E k \in pos .. pos + n - 1 : Position(k) = DiskSectors * SectorSize - 1]_vars

\* fat16.c:403, "Get the correct cluster to use based on the starting cluster and
\* the offset": a byte that is read comes from the cluster of its offset.
FromTheCorrectCluster ==
  [][asked' # <<>> /\ given'.status = "ok" =>
       \A k \in 1 .. file.size - pos :
         k \in DOMAIN given'.bytes => given'.bytes[k] = Position(pos + k - 1)]_vars

=============================================================================
