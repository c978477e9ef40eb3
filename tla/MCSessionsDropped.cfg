SPECIFICATION Spec
CONSTANTS
  NULL = NULL
  Gone = Gone
  Req = {r1, r2}
  User = {u1}
  Password = {p1, p2}
  Short = {}
  SessionId = {s1, s2}
  SessionTTL = 4
  Timeout = 1
  MaxTime = 0
  Faults = FALSE
SYMMETRY Interchangeable
PROPERTIES PasswordChangeDropsSessions
