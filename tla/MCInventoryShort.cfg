SPECIFICATION Spec
CONSTANTS
  NULL = NULL
  Req = {r1, r2}
  Ingredient = {honey}
  Delta <- Corrections
  Qty <- Additions
  Exact = 8
  MaxLevel = 12
  Faults = FALSE
SYMMETRY Interchangeable
INVARIANTS ShortfallReported
