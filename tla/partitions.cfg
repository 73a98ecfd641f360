SPECIFICATION FairSpec
CONSTANTS
  s1 = s1
  s2 = s2
  NULL = NULL
  Session = {s1}
  Name <- Names
  Fold <- Folded
  Root = {"a", "b"}
  Source <- Sources
  PredName = {"leaf", "deep"}
  SharedPredicate = {"deep"}
  Contents0 <- Initial
  Calls <- PartitionCalls
  Changes <- PartitionChanges
  Damage <- NoChanges
  Faults = TRUE
  MaxTx = 4
  MaxEdits = 1
INVARIANTS PartitionsMatchRows StoredConforms KeysAreUnique NoArbitraryOrder
PROPERTIES IngestIsPartitionWise EpochsCountReplacements CallsReturn
