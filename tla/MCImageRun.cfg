\* Four arguments, three region files, two threads; command lines of three phrases.
SPECIFICATION Spec
CONSTANTS
  Sources = {"Overworld", "Nether", "File"}
  Directories = {"Overworld", "Nether", "maps", "."}
  Contents <- SomeContents
  Kind <- SomeKinds
  LastUpdate <- SomeUpdates
  OutPaths = {"maps", "map.png"}
  Caches = {"cache"}
  Labels = {"label"}
  Garbage = {TRUE, FALSE}
  Dot = "."
  NoCache = NoCache
  NoLabel = NoLabel
  NoFile = NoFile
  Nothing = Nothing
  Capacity = 2
  MaxArguments = 4
  MaxJobs = 3
  OptString <- ImageLetters
  LongOptions <- ImageLongOptions
  Phrases <- SomePhrases
  Endings <- SomeEndings
  MaxPhrases = 3
  PhrasePasses = 3
  NoArgument = NoArgument
INVARIANTS
  ExitDrains
  LabelsAreOwn
  RegionsAreShown
  CommandLineIsRead
\* The process ends.
CHECK_DEADLOCK FALSE
