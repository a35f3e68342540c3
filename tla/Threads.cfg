\* Two games, every key, autosave: three threads and a detached one.
SPECIFICATION FairSpec
CONSTANTS
  Keys = {"escape", "pause", "dump"}
  Autosave = TRUE
  GameIterations = 3
  Wrap = 4
INVARIANTS
  TypeOK
  ShownIsAlive
  BrainsAreAlive
  PauseTakesHold
PROPERTIES
  FramesAreWhole
  StopEnds
\* A session ends.
CHECK_DEADLOCK FALSE
