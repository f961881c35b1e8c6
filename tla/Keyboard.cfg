\* A ring of two keys and up to five keys typed: more than twice round.
CONSTANTS
  Processes = {p1, p2}
  W = 2
  Zero = Zero
  Idle = Idle
  Letters = {a}
  MaxTyped = 5
SPECIFICATION Spec
INVARIANTS TypeOK LosesOnlyWhenFull
PROPERTY ImplementsKeyQueue
