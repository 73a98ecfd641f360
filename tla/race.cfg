SPECIFICATION Spec
CONSTANTS
  s1 = s1
  s2 = s2
  NULL = NULL
  Session = {s1, s2}
  Name <- Names
  Fold <- Folded
  Root = {"a", "b"}
  Source <- Sources
  PredName = {"leaf", "deep"}
  SharedPredicate = {"deep"}
  Contents0 <- Initial
  Calls <- RaceCalls
  Changes <- NoChanges
  Damage <- NoChanges
  Faults = TRUE
  MaxTx = 4
  MaxEdits = 0
INVARIANTS OneTreePerName OneRowPerSlot OneRowPerRoot PartitionsMatchRows
PROPERTIES AtomicCalls OnlyCommitsShow OneEffectPerCall
