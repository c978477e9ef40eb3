SPECIFICATION Spec
CONSTANTS
  Req = {r1, r2}
  UserId = {u1, u2, u3}
  InviteId = {i1}
  ann = ann
  Ann = Ann
  bob = bob
  blank = blank
  Address <- AllAddresses
  Norm <- MCNorm
  Blank = blank
  NULL = NULL
  InviteTTL = 1
  MaxTime = 1
  PoolSize = 2
  Faults = TRUE
SYMMETRY Slots
INVARIANTS
  OneAdmin
  AdmissionByInvite
  EmailsDistinct
  RepliesTruthful
  IInv
PROPERTIES ImplementsAdmission SettledForGood
