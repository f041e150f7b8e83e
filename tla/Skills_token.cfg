SPECIFICATION Spec
CONSTANTS
  NoSkill = NoSkill
  Kinds = {"extract", "sync", "transfer", "rollback", "refine", "delete"}
  Requests = {r1, r2, r3}
  Keys = {k1, k2}
  Skills = {s1}
SYMMETRY Symmetry
INVARIANTS
  TokenSingleUse
CHECK_DEADLOCK FALSE
