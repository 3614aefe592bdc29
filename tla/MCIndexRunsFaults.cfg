SPECIFICATION FaultSpec
CONSTANTS
  watch = watch  manual = manual  h1 = h1  boot = boot
  Callers = {watch, manual}
  Watch = watch
  Handlers = {h1}
  Boot = boot
  Free = Free
  Orphaned = Orphaned
  Null = Null
  MaxVersion = 2
  MaxCrashes = 0
  MaxFaults = 1
INVARIANTS TypeOK EditScheduled  
