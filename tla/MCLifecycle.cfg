SPECIFICATION FairSpec
CONSTANTS
  Platforms = {"posix", "windows"}
  claude = claude
  cline = cline
  Targets = {claude, cline}
  Selections <- MCSelections
  Profiles = {bash, zsh}
  Registry = Registry
  None = None
  LastRelease = 2
  MaxCommands = 2
  MaxFaults = 1
  MaxEdits = 1
  Attempts = 2
INVARIANTS
  TypeOK
  HooksCallable
  HooksReady
  InstallHonest
  UninstallClean
  PathKept
PROPERTIES
  StaleRemoved
CHECK_DEADLOCK FALSE
