SPECIFICATION Spec
CONSTANTS
  Req = {r1, r2}
  UserId = {u1, u2, u3}
  InviteId = {i1}
  ann = ann
  Ann = Ann
  bob = bob
  blank = blank
  Address = {ann, Ann, bob}
  Norm <- MCNorm
  Blank = blank
  NULL = NULL
  InviteTTL = 1
  MaxTime = 0
  PoolSize = 2
  Faults = FALSE
SYMMETRY Slots
INVARIANT
  RegisterRefusalIs422
