SPECIFICATION Spec
CHECK_DEADLOCK FALSE
CONSTANTS
  NULL = NULL
  Seeds <- LoneSeed
  Looks <- AllLooks
  Nodes <- FewNodes
  Forward = TRUE
  MaxRows = 4
  MaxNodes = 2
INVARIANT NothingIsDropped
