\* Sectors of two bytes, two to a cluster; a volume of three clusters, files of up
\* to all three.
CONSTANTS
  SectorSize = 2
  SectorsPerCluster = 2
  DataStart = 4
  Clusters = 4
  MaxChain = 3
  Sizes = {0, 1, 3, 4, 9}
  Counts = {1, 2}
  MaxPos = 12
SPECIFICATION Spec
PROPERTY FromTheCorrectCluster
CHECK_DEADLOCK FALSE
