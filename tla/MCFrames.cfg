SPECIFICATION Spec
CONSTANTS
  Byte <- MCByte
  Word <- MCWord
  Samples <- MCSamples
  Location <- MCLocation
  MaxCommanded = 2
  Plants <- MCPlants
  NONE = NONE
INVARIANTS
  TypeOK
  CommandsUnderstood
PROPERTIES
  ReadsTrue
  StatusShowsCommand
