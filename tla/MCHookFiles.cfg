SPECIFICATION Spec
CONSTANTS
  None = None
  Procs = {c1, c2}
  Harnesses = {"claude", "codex", "cursor", "cline", "opencode"}
  Docs <- MCDocs
  Edits = {"u3"}
  Paths = {d1, d2}
  Releases = {r1, r2}
  MaxCommands <- MCMaxCommands
  MaxFaults = 1
  MaxEdits = 1
SYMMETRY Permuted
INVARIANTS
  TypeOK
  UserFileKept
  UserHandlersKept
  InstallHonest
  RemoveHonest
  Recognised
  MergeStable
CHECK_DEADLOCK FALSE
