\* Two generations, every kind of pool, teams of one, of an odd and of an even size.
SPECIFICATION Spec
CONSTANTS
  Layouts <- MCLayouts
  Sizes = {1, 3, 4}
  Bases = 1
  Loaded = TRUE
  Generations = 2
INVARIANTS
  TypeOK
  DestroyedOnce
  BrainsHaveShips
  AdoptsFromWinner
PROPERTIES
  FightersStay
\* The last battle ends it.
CHECK_DEADLOCK FALSE
