SPECIFICATION Spec
CONSTANTS
  Hooks = {h1, h2}
  Flushers = {f1}
  Testers = {}
  None = None
  Cap = 1
  CountN = 2
  PerHook = 1
  Damaged = {0}
  FirstName = 1
  LastName = 2
  MaxFaults = 1
SYMMETRY Symmetry
INVARIANTS
  NoLoss
  RepeatOnlyIfUnsettled
  FlushHonest
  NewestKept
PROPERTIES
  ErrorClearedByHolder
