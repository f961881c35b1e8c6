\* Three slots, so that the foreground has a choice when a process ends; memory for
\* three loads of five blocks, or two and what their processes ask for, so that the
\* table and the heap come to their limits; commands of one word, and of two, whose
\* second finds no place in the table.
CONSTANTS
  Blocks = {1, 2, 3, 4, 5, 6, 7, 8, 9, 10, 11, 12, 13, 14, 15}
  Null = 0
  MaxProcesses = 3
  MaxAllocs = 2
  MaxArguments = 2
  Choices <- HighestFirst
  LoadChoices <- LowestFirst
SPECIFICATION Spec
INVARIANTS SlotsHoldTheLiving TypeOK MemoryAccounted WritesOnlyItsOwn
PROPERTIES FocusIsKept FailedLoadLeavesNothing
\* After a panic, or once control is lost, nothing runs.
CHECK_DEADLOCK FALSE
