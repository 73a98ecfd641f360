SPECIFICATION FairSpec
CONSTANTS
  NULL = NULL
  NoParser = NULL
  Name <- Names
  Fold <- Folded
  Root = {"a", "b"}
  Source = {"main", "more"}
  PredName = {"leaf"}
  SharedPredicate = {}
  AllCalls <- Verbs
  Txs = {1}
  Embedded <- Files
  LoadFaults = TRUE
  Reader = {"r1"}
  Requests <- Asked
  Stamps <- Readers
  Contents0 <- Initial
  Edits <- UserEdits
  MaxVerbs = 2
  MaxEdits = 1
  MaxMatches = 1
INVARIANTS RegisteredMeansLoaded RefusedLoadChangesNothing LabelSaysWhoRead
PROPERTIES AnswersSeeOwnWrites PlansSeeOwnWrites PlansOutliveOtherChanges MatchesReturn
