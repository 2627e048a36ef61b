SPECIFICATION Spec
CONSTANTS
  Hooks = {h1}
  None = None
  Transcripts = {parent, child}
  Parent = parent
  MaxLines = 2
  ChildLines = 1
  Agents = {"codex"}
  OldOffsets = {0}
  MaxFaults = 0
  MaxRotations = 0
INVARIANTS
  CodexCountsAll
