SPECIFICATION FairSpec
CONSTANTS
  Hooks = {h1, h2}
  Flushers = {}
  Testers = {}
  None = None
  Cap = 1
  CountN = 2
  PerHook = 1
  Damaged = {0}
  FirstName = 1
  LastName = 2
  MaxFaults = 1
PROPERTIES
  EventuallyLeaves
  CapRestored
