SPECIFICATION Spec
CHECK_DEADLOCK FALSE
CONSTANTS
  NULL = NULL
  Seeds <- AllSeeds
  Looks <- AllLooks
  Nodes <- AllNodes
  Forward = FALSE
  MaxRows = 4
  MaxNodes = 2
INVARIANTS RelationsAreTheForest AnswersAreTheMeaning NothingIsDropped OrderIsNotRead
