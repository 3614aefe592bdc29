SPECIFICATION Spec
CONSTANTS
  Paths = {"a", "package", "workflow"}
  Docs <- MCDocs
  Records <- AllRecords
  Commands <- MCCommands
  MaxUpdates = 0
  MaxFaults = 0
INVARIANTS TraceFindsRelations
