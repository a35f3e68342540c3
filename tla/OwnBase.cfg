\* A scenario of lines that configures no base.
SPECIFICATION FairSpec
CONSTANTS
  Size = 3
  Elite = 1
  f = f
  g = g
  NoFile = NoFile
  Files = {f}
  Scenarios <- BaselessScenarios
  Commands <- BaselessCommands
INVARIANTS
  HasOwnBase
