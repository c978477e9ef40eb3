SPECIFICATION ProgressSpec
CONSTANTS
  NULL = NULL
  Proc = {p1, p2}
  Req = {r1, r2}
  MaxStarts = 2
  Faults = TRUE
  UserId = {u1, u2, u3}
  InviteId = {i1}
  Address = {ann, bob}
  Blank = blank
  InviteTTL = 1
  MaxTime = 0
  PoolSize = 2
CHECK_DEADLOCK FALSE
INVARIANTS IInv ServesWhenMigrated CreatedOnce RaceLeavesOne
PROPERTIES SignalEnds RequestsAnswered
