SPECIFICATION Spec
CONSTANTS
  PathCount = 2
  Contents = {c0, c1}
  Barren = {c0}
  None = None
  Batches = 2
  MayBeOld = FALSE
  MaxEdits = 0
  MaxFaults = 1
INVARIANTS
  EverythingSearchable
