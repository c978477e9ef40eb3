SPECIFICATION Spec
CONSTANTS
  NULL = NULL
  Req = {r1, r2}
  Ingredient = {honey, water}
  Delta <- Corrections
  Qty <- Additions
  Exact = 8
  MaxLevel = 12
  Faults = TRUE
SYMMETRY Interchangeable
INVARIANTS DeductionAddsUp IInv
PROPERTIES ImplementsStock
