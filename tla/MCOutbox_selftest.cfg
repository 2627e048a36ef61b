SPECIFICATION Spec
CONSTANTS
  Hooks = {h1}
  Flushers = {}
  Testers = {t1}
  None = None
  Cap = 1
  CountN = 2
  PerHook = 2
  Damaged = {0}
  FirstName = 1
  LastName = 3
  MaxFaults = 1
INVARIANTS
  TypeOK
  SelftestLeft
  IInv
PROPERTIES
  ImplementsBuffer
