\* Four cells: two boot tasks, two more, and freed cells to be reused.
CONSTANTS
  Cells = {c1, c2, c3, c4}
  Null = Null
SPECIFICATION FairSpec
INVARIANTS TypeOK ListInOrder RunsLiveTasks TailIsThere
PROPERTIES TicksInOrder PanicsOnlyAtTheEnd ImplementsScheduler EveryTaskRuns
\* After a panic, or once control is lost, nothing runs.
CHECK_DEADLOCK FALSE
