\* Pages of two bytes, tables of four entries; two tasks; blocks of one and of
\* three bytes.
CONSTANTS
  ProgramAddress = 10
  PageSize = 2
  Entries = 4
  Pool <- HeapPages
  StackEnd = 6
  StackSize = 2
  Tasks = {t1, t2}
  Programs <- TestFiles
  Sizes = {1, 3}
SYMMETRY TaskSymmetry
SPECIFICATION Spec
INVARIANTS MapLoopAgrees WritesOnlyItsOwn MemoryInPlace BoundsAreMapped
