\* A dump while the game goes on.
SPECIFICATION Spec
CONSTANTS
  Keys = {"dump"}
  Autosave = FALSE
  GameIterations = 2
  Wrap = 4
INVARIANTS
  DumpsLiveTeams
\* A session ends.
CHECK_DEADLOCK FALSE
