\* Documents of at most seven named tags.
SPECIFICATION Spec
CONSTANTS
  Names = {"", "Level", "DataVersion", "Sections", "LastUpdate", "Biomes", "Y", "Palette", "BlockStates", "Name"}
  Scalars = {"byte", "int", "long", "string"}
  Arrays = {"ints", "longs"}
  Lengths = {2}
  Values <- SomeValues
  SectionCount = 1
  NoY = 255
  Null = Null
  Vocabulary <- SomeDocuments
  MaxTags = 7
INVARIANTS
  StructureFollowsTags
  FieldsAreTheDocuments
PROPERTIES
  RequestsEnd
\* A chunk is asked for nothing more when its fields are loaded or it has thrown.
CHECK_DEADLOCK FALSE
