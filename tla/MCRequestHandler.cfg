\* The sizes of the code, columns of five blocks, the nether's one lower.
SPECIFICATION HandlerSpec
CONSTANTS
  RegionSize = 512
  ChunkSize = 16
  MaxY = 4
  NetherMaxY = 3
  Coords <- SomeCoords
  Blocks = {Stone}
  Air = Air
  NoName = NoName
  NotANumber = NotANumber
INVARIANTS
  AnsweredOnce
  AnswersSurface
  PlaceIsRight
  NothingLeftBehind
\* A request is answered once.
CHECK_DEADLOCK FALSE
