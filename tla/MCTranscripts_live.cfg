SPECIFICATION FairSpec
CONSTANTS
  Hooks = {h1, h2}
  None = None
  Transcripts = {parent, child}
  Parent = parent
  MaxLines = 1
  ChildLines = 1
  Agents = {"cursor"}
  OldOffsets = {0}
  MaxFaults = 1
  MaxRotations = 0
PROPERTIES
  EventuallyCounted
