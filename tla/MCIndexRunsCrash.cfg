SPECIFICATION FairSpec
CONSTANTS
  watch = watch  manual = manual  h1 = h1  boot = boot
  Callers = {watch, manual}
  Watch = watch
  Handlers = {h1}
  Boot = boot
  Free = Free
  Orphaned = Orphaned
  Null = Null
  MaxVersion = 2
  MaxCrashes = 1
  MaxFaults = 0
INVARIANTS InterruptionShows
PROPERTIES UsesScopeLock EventuallyFresh StaleRunningHeals
