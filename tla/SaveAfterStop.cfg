\* Escape while a generation is being cleaned up.
SPECIFICATION Spec
CONSTANTS
  Keys = {"escape"}
  Autosave = FALSE
  GameIterations = 2
  Wrap = 4
INVARIANTS
  SavesLiveTeams
\* A session ends.
CHECK_DEADLOCK FALSE
