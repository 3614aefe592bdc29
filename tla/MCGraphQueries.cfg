SPECIFICATION MCSpec
CONSTANTS
  Paths = {"a", "package", "workflow"}
  Docs <- MCDocs
  Records <- AllRecords
  Commands <- MCCommands
  MaxUpdates = 1
  MaxFaults = 1
INVARIANTS GraphHoldsFacts SymbolsAgree CutReported NothingDropped
PROPERTIES QueryEnds
