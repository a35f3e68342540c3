\* Chains of runs over two files, as many as one likes.
SPECIFICATION FairSpec
CONSTANTS
  Size = 3
  Elite = 1
  f = f
  g = g
  NoFile = NoFile
  Files = {f, g}
  Scenarios <- MCScenarios
  Commands <- MCCommands
INVARIANTS
  TypeOK
  Owners
  
  PlaysAsConfigured
  GrowsFromLive
PROPERTIES
  RunsEnd
