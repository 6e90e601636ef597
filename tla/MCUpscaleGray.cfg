SPECIFICATION Spec
CONSTANTS
  ImageExtents <- FewExtents
  Formats <- AnyFormat
  MaxTileSize = 6
  Overlap = 2
  Align = 2
  Scale = 2
INVARIANTS
  TilesHoldPixels
CHECK_DEADLOCK FALSE
