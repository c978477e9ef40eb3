SPECIFICATION Spec
CONSTANTS
  NULL = NULL
  Gone = Gone
  Req = {r1, r2}
  VesselId = {v1, v2}
  Form = {plain, odd}
  BadKind = {odd}
  Batch = {b1}
  MaxDay = 1
  MaxMoves = 3
  Faults = TRUE
SYMMETRY Interchangeable
INVARIANTS NothingDangles HeldIsRefused IInv
PROPERTIES OccupancyDated ImplementsShelf
