SPECIFICATION Spec
CONSTANTS
  big = big
  small = small
  NoModel = NoModel
  Models <- MCModels
  Kind <- MCKind
  MaxCalls = 7
INVARIANTS
  TypeOK
  NothingLeaks
  FeaturesShowTheImage
  ReadsAreLive
  ActiveIsLoaded
CHECK_DEADLOCK FALSE
