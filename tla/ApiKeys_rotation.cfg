SPECIFICATION Spec
CONSTANTS
  Requests = {r1, r2, r3}
  Keys = {k1, k2, k3, k4}
  Seeded = {k1, k2}
  ReadOnly = {k4}
INVARIANTS
  FreshStaysValid
  KeysConserved
PROPERTIES
  RequestsEnd
CHECK_DEADLOCK FALSE
