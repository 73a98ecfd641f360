SPECIFICATION Spec
CONSTANTS
  s1 = s1
  s2 = s2
  NULL = NULL
  Session = {s1}
  Name <- Names
  Fold <- Folded
  Root = {"a", "b"}
  Source <- Sources
  PredName = {"leaf", "deep"}
  SharedPredicate = {"deep"}
  Contents0 <- Initial
  Calls <- CatalogCalls
  Changes <- CatalogChanges
  Damage <- CatalogDamage
  Faults = TRUE
  MaxTx = 5
  MaxEdits = 1
INVARIANTS TypeOK NoOrphans NoSharedObjects CompiledAgrees SemanticFlag
PROPERTIES OthersUntouched CheckTellsTheTruth
