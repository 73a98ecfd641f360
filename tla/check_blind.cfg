SPECIFICATION Spec
CONSTANTS
  s1 = s1
  s2 = s2
  NULL = NULL
  Session = {s1}
  Name <- Names
  Fold <- Folded
  Root = {"a", "b"}
  Source <- Sources
  PredName = {"leaf", "deep"}
  SharedPredicate = {"deep"}
  Contents0 <- Initial
  Calls <- LevelCalls
  Changes <- LevelChanges
  Damage <- NoChanges
  Faults = FALSE
  MaxTx = 2
  MaxEdits = 1
PROPERTIES CheckSeesWhatIngestRefuses
