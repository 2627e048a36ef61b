SPECIFICATION Spec
CONSTANTS
  Hooks = {h1, h2}
  Flushers = {}
  Testers = {}
  None = None
  Cap = 1
  CountN = 2
  PerHook = 2
  Damaged = {}
  FirstName = 1
  LastName = 4
  MaxFaults = 0
INVARIANTS
  CapWhenQuiet
