SPECIFICATION Spec
CONSTANTS
  ImageExtents <- MCImageExtents
  Formats <- Colour
  MaxTileSize = 6
  Overlap = 2
  Align = 2
  Scale = 2
INVARIANTS
  TypeOK
  BlendsToOne
  GraphFitsTile
  EveryTileShows
CHECK_DEADLOCK FALSE
