SPECIFICATION Spec
CONSTANTS
  Documents <- MCDocuments
  Settings <- MCSettings
  DefaultContext = 3
  PartitionMax = 5
  EmbedSize = 2
  UpsertSize = 3
INVARIANTS TextFound RowsFit ChunksStored
