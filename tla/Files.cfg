\* A volume of two levels; three descriptors; memory for the volume, for three
\* files and their paths.
CONSTANTS
  Total = 29
  MaxDescriptors = 3
  Root <- TestRoot
  Paths <- TestPaths
  Modes = {"r", "w", "x"}
SPECIFICATION Spec
INVARIANTS TypeOK MemoryAccounted OpensWhatIsNamed FindsWhatIsThere
PROPERTIES FailedOpenLeavesNothing
CHECK_DEADLOCK FALSE
