CONSTANTS
  None = None
  Tasks <- MCTasks
  Instances <- MCInstances
  BadRequests <- MCBadRequests
  Below = {700, 900, 950}
  Above = {100, 600, 850, 20100}
  MaxInt = 9
  MaxPath = 10
  LongSources <- MCLongSources
  MaxRows = 20
SPECIFICATION Spec
INVARIANTS
  TypeOK
  EachDefectReported
  NoRowVanishes
  StatusAgreesWithSearch
  RefusedForAReason
  WalkIsComplete
  WalkRepeatsNothing
  ShownMatches
  LastPageIsLast
PROPERTIES
  WalkEnds
CHECK_DEADLOCK FALSE
