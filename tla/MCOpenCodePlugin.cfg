SPECIFICATION Spec
CONSTANTS
  Code = code
  Nested = {n1, n2}
  Direct = {d}
  Prompts = {e}
  SettledCap = 1
  MaxActors = 3
  MaxStream = 3
  MaxLosses = 1
SYMMETRY Permuted
INVARIANTS
  TypeOK
  AtMostOnce
  AllReported
  SkillOnce
CHECK_DEADLOCK FALSE
