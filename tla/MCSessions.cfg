SPECIFICATION Spec
CONSTANTS
  NULL = NULL
  Gone = Gone
  Req = {r1, r2}
  User = {u1}
  Password = {p1, p2}
  Short = {p2}
  SessionId = {s1, s2}
  SessionTTL = 4
  Timeout = 1
  MaxTime = 7
  Faults = TRUE
SYMMETRY Interchangeable
CONSTRAINT Focus
INVARIANTS LogoutEndsSession UseKeepsAlive ChangeEndsEarlierSessions IInv
PROPERTIES EndedForGood
