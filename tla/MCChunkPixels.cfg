\* Chunks of two sections, and every column of them.
SPECIFICATION Spec
CONSTANTS
  Missing = Missing
  SectionCount = 2
  Width = 3
  WordBits = 4
  MinBits = 1
  LightSize = 14
  Full = 255
  NetherMaxY = 4
  Documents <- AllDocuments
  MaxLength = 3
  ColorFiles <- SomeColorFiles
  Colors <- ColorsOf
  Overrides <- SomeOverrides
  TintedBlocks = {"water"}
INVARIANTS
  TypeOK
  BlockIsTheOneStored
  SectionsBelongTogether
  LayersAreSeen
  PixelsAreShaded
  TableIsTheSources
\* A chunk is drawn, or its constructor throws.
CHECK_DEADLOCK FALSE
