\* Two slots and memory for two loads.
CONSTANTS
  Blocks = {1, 2, 3, 4, 5, 6, 7, 8, 9, 10, 11, 12, 13}
  Null = 0
  MaxProcesses = 2
  MaxAllocs = 2
  MaxArguments = 2
  Choices <- HighestFirst
  LoadChoices <- LowestFirst
SPECIFICATION Spec
INVARIANT OnlyOurPointers
\* After a panic, or once control is lost, nothing runs.
CHECK_DEADLOCK FALSE
