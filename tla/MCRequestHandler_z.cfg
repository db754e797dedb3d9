\* The z of the column that is searched is computed from Coord-X.
SPECIFICATION HandlerSpec
CONSTANTS
  RegionSize = 512
  ChunkSize = 16
  MaxY = 4
  NetherMaxY = 3
  Coords <- SomeCoords
  Blocks = {Stone}
  Air = Air
  NoName = NoName
  NotANumber = NotANumber
INVARIANT
  ColumnIsAtCoordZ
\* A request is answered once.
CHECK_DEADLOCK FALSE
