SPECIFICATION Spec
CONSTANTS
  Configured <- MostFamilies
  TokenizerGiven = TRUE
  FileSize <- DynamicSizes
  Multiple = 2
  MaxAlloc = 14400
  Resolutions <- MCResolutions
  ImageExtents <- MCImageExtents
INVARIANTS
  TypeOK
  PeersNeverStack
  Sam3IsWhole
  OwnResolution
CHECK_DEADLOCK FALSE
