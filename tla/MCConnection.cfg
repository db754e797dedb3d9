\* A buffer of six bytes: lines that fill it, that are longer, and that are cut
\* anywhere.  One field more than allowed is possible.
SPECIFICATION ConnSpec
CONSTANTS
  Streams <- SomeStreams
  Signatures <- RequestLines
  BufSize = 6
  MaxFields = 1
  CR = CR
  LF = LF
  Colon = Colon
  Space = Space
  G = G
  A = A
  WriteSize = 2
  Sizes <- SomeSizes
  Required <- HasA
INVARIANTS
  NoReadPastBuffer
  ClientReadsTheAnswer
PROPERTIES
  ReadsLinesOfStream
  ConnectionEnds
\* The connection is closed.
CHECK_DEADLOCK FALSE
