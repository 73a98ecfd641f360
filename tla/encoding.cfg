SPECIFICATION Spec
CHECK_DEADLOCK FALSE
CONSTANTS
  NULL = NULL
  Shapes <- AllShapes
  SourceRows <- AllRows
  MaxRows <- RowBounds
INVARIANTS TypeOK EveryRowOnce SubtreesAreIntervals LevelsAreDepths P13IsExact OverridesConform WalkKeepsTheForest RefusesWhatItCannotReach
