\* Every document of at most six pieces.
SPECIFICATION XmlSpec
CONSTANTS
  Names = {"name"}
  Lengths <- SomeLengths
  MaxLength = 6
INVARIANTS
  StacksAgree
  BuildsAgree
  QueryFindsTheTag
  XmlIsTheDocument
PROPERTIES
  ImplementsTagStream
  EndsUnlessUnknownTag
\* A parser that has thrown is used no more.
CHECK_DEADLOCK FALSE
