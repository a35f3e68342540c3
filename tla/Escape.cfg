\* Escape between two ticks.
SPECIFICATION FairSpec
CONSTANTS
  Keys = {"escape"}
  Autosave = FALSE
  GameIterations = 2
  Wrap = 4
PROPERTIES
  EscapeQuits
\* A session ends.
CHECK_DEADLOCK FALSE
