SPECIFICATION FairLockSpec
CONSTANTS
  r1 = r1  r2 = r2
  Runs = {r1, r2}
  NoRun = NoRun
  Orphaned = Orphaned
  Lease = 2
  RenewEvery = 1
  MaxLag = 1
INVARIANTS LockTypeOK CalmExclusion CalmHolderNamed CalmReleased
PROPERTIES AcquireReturns LostIsFinal ImplementsScopeLock
