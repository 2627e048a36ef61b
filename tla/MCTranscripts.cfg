SPECIFICATION Spec
CONSTANTS
  Hooks = {h1, h2}
  None = None
  Transcripts = {parent, child}
  Parent = parent
  MaxLines = 2
  ChildLines = 1
  Agents = {"codex", "cursor"}
  OldOffsets = {3}
  MaxFaults = 1
  MaxRotations = 1
SYMMETRY Symmetry
INVARIANTS
  TypeOK
  CountedOnce
  NoneSkipped
  CursorCountsAll
  LegacyHonoured
PROPERTIES
  OffsetsAdvance
