SPECIFICATION Spec
CONSTANTS
  s1 = s1
  s2 = s2
  NULL = NULL
  Session = {s1, s2}
  Name <- Names
  Fold <- Folded
  Root = {"a", "b"}
  Source <- Sources
  PredName = {"leaf", "deep"}
  SharedPredicate = {"deep"}
  Contents0 <- Initial
  Calls <- TwiceCalls
  Changes <- NoChanges
  Damage <- NoChanges
  Faults = FALSE
  MaxTx = 3
  MaxEdits = 0
INVARIANTS OneRowPerRoot
