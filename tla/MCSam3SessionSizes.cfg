SPECIFICATION Spec
CONSTANTS
  big = big
  small = small
  NoModel = NoModel
  Models <- MCModels
  Kind <- MCKind
  MaxCalls = 7
INVARIANTS
  OnlyWholeGrids
CHECK_DEADLOCK FALSE
