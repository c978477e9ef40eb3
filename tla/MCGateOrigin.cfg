SPECIFICATION Spec
CONSTANTS
  NULL = NULL
  Req = {r1}
  Client = {ann}
  Op <- Kinds
  SessionTTL = 4
  Timeout = 1
  MaxTime = 1
  Faults = FALSE
INVARIANT OriginOnEveryChange
