SPECIFICATION Spec
CONSTANTS
  PathCount = 2
  Contents = {c0, c1}
  Barren = {c0}
  None = None
  Batches = 2
  MayBeOld = TRUE
  MaxEdits = 2
  MaxFaults = 2
INVARIANTS
  Truthful
  MirrorsDisk
  RebuildHeals
  RetryHeals
  TextSurvives
PROPERTIES
  ManifestAfterText
