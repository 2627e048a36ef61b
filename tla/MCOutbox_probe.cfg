SPECIFICATION Spec
CONSTANTS
  Hooks = {h1}
  Flushers = {}
  Testers = {t1}
  None = None
  Cap = 1
  CountN = 2
  PerHook = 1
  Damaged = {}
  FirstName = 1
  LastName = 2
  MaxFaults = 0
INVARIANTS
  SelftestDelivered
