SPECIFICATION Spec
CONSTANTS
  NULL = NULL
  Req = {r1, r2}
  Client = {ann}
  Op <- Kinds
  SessionTTL = 4
  Timeout = 1
  MaxTime = 5
  Faults = TRUE
SYMMETRY Interchangeable
CONSTRAINT Focus
INVARIANTS AccessRule IInv CookieKeepsUp
