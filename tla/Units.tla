------------------------------- MODULE Units -------------------------------
(***************************************************************************)
(* The units of a battle and what their own methods do to them: ships      *)
(* (ship.cpp) and bases (facility.cpp).  Every method is a function from   *)
(* the unit's state to its next state; Battle.tla calls them in the order  *)
(* the simulation does.                                                    *)
(*                                                                         *)
(* Positions, velocities and rotations are left out: which objects touch,  *)
(* are in range or leave the field is left open in Battle.tla.  Fuel is    *)
(* counted in whole units and thrust is the fuel the four engines ask for  *)
(* in one tick.  Counters that only feed the fitness script (friendlyFire_,*)
(* offensiveHits_, crash_, failedShots_, recharged_ of a ship) are left    *)
(* out; kills_ and defensiveHits_ are kept.  canShoot_ and canJump_ are    *)
(* TRUE: a ship that may not is one whose brain never asks.                *)
(***************************************************************************)
EXTENDS Naturals

CONSTANTS
  MaxDamage,        \* hits a ship takes before it dies
  CrashesPerDamage, \* hard crashes that make one hit
  MaxFuel, StartFuel, JumpRate,
  MaxThrust,        \* BOUND: fuel the engines can ask for in one tick
  MaxAmmo, StartAmmo,
  MaxCooldown, MaxStun,
  BaseMaxDamage,    \* hits a base takes before it is destroyed
  BaseMaxRecharge,  \* supplies of a base
  AmmoCost          \* supplies one projectile costs (10 in facility.cpp)

\* The layouts of population.cpp and of every scenario satisfy these; the
\* JSON scenario reader does not check them.
ASSUME LayoutAssumption ==
  /\ {MaxDamage, CrashesPerDamage, MaxCooldown, BaseMaxDamage} \subseteq Nat \ {0}
  /\ {MaxFuel, JumpRate, MaxThrust, MaxAmmo, MaxStun, BaseMaxRecharge, AmmoCost} \subseteq Nat
  /\ StartFuel \in 0..MaxFuel
  /\ StartAmmo \in 0..MaxAmmo

ShipState ==
  [dead: BOOLEAN, damage: 0..MaxDamage, crashDamage: 0..(CrashesPerDamage - 1),
   fuel: 0..MaxFuel, thrust: 0..MaxThrust, ammo: 0..MaxAmmo,
   coolDown: 0..MaxCooldown, stun: 0..MaxStun, willShoot: BOOLEAN,
   kills: Nat, defensiveHits: Nat]

\* A ship after resetScore() and resetGameState(); stun_ is not reset there,
\* it is 0 because every generation's ships are new objects.
FreshShip ==
  [dead |-> FALSE, damage |-> 0, crashDamage |-> 0,
   fuel |-> StartFuel, thrust |-> 0, ammo |-> StartAmmo,
   coolDown |-> 0, stun |-> 0, willShoot |-> FALSE,
   kills |-> 0, defensiveHits |-> 0]

Death(s) == [s EXCEPT !.damage = MaxDamage, !.dead = TRUE]

Damage(s) ==
  IF s.damage + 1 >= MaxDamage
  THEN Death(s)
  ELSE [s EXCEPT !.damage = s.damage + 1]

Crash(s) ==
  IF s.crashDamage + 1 >= CrashesPerDamage
  THEN Damage([s EXCEPT !.crashDamage = 0])
  ELSE [s EXCEPT !.crashDamage = s.crashDamage + 1]

\* Ship::kill(): also drops the list of projectiles (in Battle.tla).
Kill(s) == Death([s EXCEPT !.fuel = 0, !.defensiveHits = 0])

Stun(s) == [s EXCEPT !.stun = MaxStun]

\* What a brain can ask for in one tick: outputs_[0..3], [4] and [5].
Orders == [thrust: 0..MaxThrust, jump: BOOLEAN, shoot: BOOLEAN]

Jumps(s, o) == o.jump /\ s.fuel > JumpRate /\ s.stun = 0

Aims(s, o) ==
  o.shoot /\ s.coolDown = 0 /\ s.ammo > 0 /\ s.stun = 0 /\ ~Jumps(s, o)

\* BROKEN VARIANT of MoveShip: willShoot_ is not cleared while cooling down.
MoveShipKeepsAim(s, o) ==
  [s EXCEPT
    !.thrust    = IF s.stun > 0 THEN 0 ELSE o.thrust,
    !.fuel      = IF Jumps(s, o) THEN s.fuel - JumpRate ELSE s.fuel,
    !.willShoot = Aims(s, o) \/ s.willShoot,
    !.coolDown  = IF s.coolDown > 0 THEN s.coolDown - 1 ELSE 0,
    !.stun      = IF s.stun > 0 THEN s.stun - 1 ELSE 0]

\* Ship::move(): willShoot_ is assigned TRUE when the ship may and wants to
\* shoot, FALSE while it cools down, and keeps its value otherwise.
MoveShip(s, o) ==
  [s EXCEPT
    !.thrust    = IF s.stun > 0 THEN 0 ELSE o.thrust,
    !.fuel      = IF Jumps(s, o) THEN s.fuel - JumpRate ELSE s.fuel,
    !.willShoot = Aims(s, o) \/ (s.willShoot /\ s.coolDown = 0),
    !.coolDown  = IF s.coolDown > 0 THEN s.coolDown - 1 ELSE 0,
    !.stun      = IF s.stun > 0 THEN s.stun - 1 ELSE 0]

\* Ship::shoot() asserts both of these before it spends a projectile.
MayShoot(s) == s.coolDown = 0 /\ s.ammo > 0

Shoot(s) == [s EXCEPT !.ammo = s.ammo - 1, !.coolDown = MaxCooldown]

\* The engines' fuel in Physics::step(): a ship short of fuel burns the rest.
Burn(s) ==
  [s EXCEPT !.fuel = IF s.fuel < s.thrust THEN 0 ELSE s.fuel - s.thrust]

\* BROKEN VARIANT of Starve: the engines stop, but nobody dies.
StarveIdle(s, isDummy) == [s EXCEPT !.thrust = 0]

\* Physics::step() on a ship whose tank is empty; dummies survive it.
Starve(s, isDummy) ==
  IF isDummy THEN [s EXCEPT !.thrust = 0] ELSE Death([s EXCEPT !.thrust = 0])

-----------------------------------------------------------------------------

\* A base hands out supplies as long as it has any left when a ship asks, and
\* then fills the ship up completely: the last one may overdraw it.
RefillCost(s) == (MaxFuel - s.fuel) + (MaxAmmo - s.ammo) * AmmoCost

MaxRefill == MaxFuel + MaxAmmo * AmmoCost

BaseState ==
  [dead: BOOLEAN, damage: 0..BaseMaxDamage, recharged: 0..(BaseMaxRecharge + MaxRefill)]

FreshBase == [dead |-> FALSE, damage |-> 0, recharged |-> 0]

BaseDeath(f) == [f EXCEPT !.damage = BaseMaxDamage, !.dead = TRUE]

BaseDamage(f) ==
  IF f.damage + 1 >= BaseMaxDamage
  THEN BaseDeath(f)
  ELSE [f EXCEPT !.damage = f.damage + 1]

HasSupplies(f) == f.recharged < BaseMaxRecharge

\* BROKEN VARIANT of Refill: tops up instead of filling up.
RefillAdds(s) == [s EXCEPT !.fuel = s.fuel + MaxFuel, !.ammo = MaxAmmo]

Refill(s) == [s EXCEPT !.fuel = MaxFuel, !.ammo = MaxAmmo]

HandOut(f, s) == [f EXCEPT !.recharged = f.recharged + RefillCost(s)]
=============================================================================
