SPECIFICATION MCSpec
CONSTANTS
  s1 = s1
  s2 = s2
  Script <- MCScript
  Commands <- MCCommands
  Suffix = {"", "a", "b", "c"}
  Starts <- MCStarts
  Layouts <- MCLayouts
  MaxNumber = 3
  MaxSecond = 2
SYMMETRY Swap
INVARIANTS
  NumberIsItsOwn
  OneDirectoryPerCreation
  CurrentFeatureHasItsSpec
  EmptyTextIsExplained
  ContentIsTheStack
  PlaceTellsTheContent
PROPERTIES
  ScriptAloneKeepsTheText
CHECK_DEADLOCK FALSE
