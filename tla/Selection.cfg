\* Two generations of a team of three.
SPECIFICATION Spec
CONSTANTS
  Size = 3
  Values <- MCValues
  Places = {0, 2, 3}
  Layouts <- MCLayouts
  Brains = 2
  Genes = 3
  Generations = 2
INVARIANTS
  TypeOK
  WheelStops
  StatsAreTrue
  PickedFairly
  ClosestIsMate
  GenesAreShared
