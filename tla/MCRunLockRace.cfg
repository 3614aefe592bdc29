SPECIFICATION LockSpec
CONSTANTS
  r1 = r1  r2 = r2
  Runs = {r1, r2}
  NoRun = NoRun
  Orphaned = Orphaned
  Lease = 3
  RenewEvery = 1
  MaxLag = 1
SYMMETRY RunSymmetry
INVARIANTS OneConcurrentHolder
