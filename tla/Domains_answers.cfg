SPECIFICATION Spec
CONSTANTS
  Requests = {r1, r2, r3}
  ours1 = ours1
  ours2 = ours2
  theirs = theirs
  us = us
  them = them
  home = home
  away = away
  near = near
  Keys = {ours1, ours2, theirs}
  OrgOf <- MCOrgOf
  NoOrg = nobody
  None = none
  Custom = {drone}
  BuiltIn = {home, away}
  Source = home
  Profiles = {home, away, near}
  Registered = {near}
  Asked = {away, drone}
  Prims <- MCPrims
  Defaults <- MCDefaults
  Sim <- MCSim
  Bcm <- MCBcm
  Thresholds = {70003}
  Extractions = {"standard"}
  Kinds = {"register", "score", "compat", "transfer", "refine"}
SYMMETRY Symmetry
INVARIANTS
  DomainInv
  ConflictsExplained
  AnswersAgree
  FlagsAgree
  RefinesKeep
CHECK_DEADLOCK FALSE
