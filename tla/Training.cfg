\* An armed ship trains on a dummy: fuel, jumps, restocking, stuns, bases that
\* take two hits.
SPECIFICATION FairSpec
CONSTANTS
  a1 = a1
  b1 = b1
  b2 = b2
  fA = fA
  fB = fB
  Ship = {a1, b1}
  Facility = {fA, fB}
  TeamOf <- MCTeamOf
  Dummy = {b1}
  MaxDamage = 1
  CrashesPerDamage = 1
  MaxFuel = 2
  StartFuel = 1
  JumpRate = 1
  MaxThrust = 1
  MaxAmmo = 1
  StartAmmo = 1
  MaxCooldown = 1
  MaxStun = 1
  BaseMaxDamage = 2
  BaseMaxRecharge = 1
  AmmoCost = 1
  MaxCollateral = 1
  Iterations = 3
  MaxShots = 2
INVARIANTS
  TypeOK
  EmptyTanksKill
PROPERTIES
  DeadAreInert
  ShotsAreLegal
  BattleEnds
\* A battle ends.
CHECK_DEADLOCK FALSE
