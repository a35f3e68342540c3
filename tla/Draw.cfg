\* Two battles of fresh teams bred as by default.
SPECIFICATION Spec
CONSTANTS
  Layouts <- OnlyDefault
  Sizes = {4}
  Bases = 1
  Loaded = FALSE
  Generations = 2
INVARIANT
  DrawsChangeNothing
\* The last battle ends it.
CHECK_DEADLOCK FALSE
