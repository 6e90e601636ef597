SPECIFICATION Spec
CONSTANTS
  Configured <- AllFamilies
  TokenizerGiven = TRUE
  FileSize <- FixedSizes
  Multiple = 2
  MaxAlloc = 14400
  Resolutions <- OneResolution
  ImageExtents <- OneImage
INVARIANTS
  KeptGraphsAreReady
CHECK_DEADLOCK FALSE
