SPECIFICATION Spec
CONSTANTS
  Commands = {c1, c2}
  Requests <- MCRequests
  Events <- MCEvents
  Found <- MCFound
  Default <- MCDefault
  None = None
  Empty = Empty
  Torn = Torn
  MaxCommands = 2
  MaxFaults = 1
CHECK_DEADLOCK FALSE
SYMMETRY Permuted
INVARIANTS
  SettingsKept
  ConfigureHonest
  NoStranger
  MatchersAgree
