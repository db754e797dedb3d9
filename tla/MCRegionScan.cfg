\* Two anchor rows of two rows each; windows that overlap at both borders.
SPECIFICATION Spec
CONSTANTS
  Width = 4
  Step = 2
  Updates <- SmallUpdates
  Fragile <- OneAnchor
  MaxVersion = 2
  NoImage = NoImage
  Partial = Partial
  MaxFailures = 1
INVARIANTS
  TypeOK
  JournalMatchesImage
  NoChunkTwice
  ReachIsRendered
CHECK_DEADLOCK FALSE
