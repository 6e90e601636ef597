SPECIFICATION Spec
CONSTANTS
  Configured <- AllFamilies
  TokenizerGiven = FALSE
  FileSize <- FixedSizes
  Multiple = 2
  MaxAlloc = 14400
  Resolutions <- OneResolution
  ImageExtents <- OneImage
INVARIANTS
  SiglipIsWhole
CHECK_DEADLOCK FALSE
