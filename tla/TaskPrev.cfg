\* Four cells, as in Task.cfg.
CONSTANTS
  Cells = {c1, c2, c3, c4}
  Null = Null
SPECIFICATION Spec
INVARIANT PrevIsPrevious
CHECK_DEADLOCK FALSE
