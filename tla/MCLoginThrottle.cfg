SPECIFICATION LoginSpec
CONSTANTS
  NULL = NULL
  Req = {r1, r2}
  Ip = {h1, h2}
  ann = ann
  Ann = Ann
  long = long
  bob = bob
  eve = eve
  Key = {h1, h2, ann, Ann, long, bob, eve}
  Address = {ann, Ann, long, bob, eve}
  Norm <- MCNorm
  Cut <- MCCut
  MaxHits = 2
  Window = 1
  MaxTime = 2
SYMMETRY Interchangeable
CONSTRAINT Focus
INVARIANTS BurstBound RefusalJustified LoginInv GuessBound AccountsPaidFor
