\* Armed ships on both sides, one with a helpless companion; all take two hits.
\* Shots of both sides cross, and a blast may reach more ships than it may hurt.
SPECIFICATION Spec
CONSTANTS
  a1 = a1
  b1 = b1
  b2 = b2
  fA = fA
  fB = fB
  Ship = {a1, b1, b2}
  Facility = {fA, fB}
  TeamOf <- MCTeamOf
  Dummy = {b2}
  MaxDamage = 2
  CrashesPerDamage = 1
  MaxFuel = 1
  StartFuel = 1
  JumpRate = 1
  MaxThrust = 0
  MaxAmmo = 1
  StartAmmo = 1
  MaxCooldown = 1
  MaxStun = 1
  BaseMaxDamage = 1
  BaseMaxRecharge = 0
  AmmoCost = 1
  MaxCollateral = 2
  Iterations = 4
  MaxShots = 1
INVARIANTS
  NoDoubleDestroy
  BodiesMatch
  KillsJustified
  HitsPerShot
PROPERTIES
  ContestSpec
\* A battle ends.
CHECK_DEADLOCK FALSE
