---------------------------- MODULE BattleProofs ----------------------------
(***************************************************************************)
(* Theorems about Battle, for every number of ships and bases, every       *)
(* layout and every length of a battle: what each method of a unit         *)
(* preserves, and the types of the tick.                                   *)
(***************************************************************************)
EXTENDS Battle, FiniteSetTheorems, TLAPS

-----------------------------------------------------------------------------
(***************************************************************************)
(* Units: what each method of a ship or base preserves, for every layout   *)
(* that satisfies LayoutAssumption.                                        *)
(***************************************************************************)
\* Nobody is about to shoot while the ship still cools down: willShoot_ of a
\* living ship is only ever left TRUE together with a cool down.
AimOK(x) == x.willShoot /\ ~x.dead => x.coolDown > 0

\* y is what something other than x's own move and a base makes of x: it
\* neither revives nor restocks nor arms a ship, nor stuns a dead one.
Marred(x, y) ==
  /\ y \in ShipState
  /\ x.dead => y.dead /\ y.stun = x.stun
  /\ y.fuel =< x.fuel
  /\ y.ammo = x.ammo
  /\ y.coolDown = x.coolDown
  /\ y.willShoot = x.willShoot

\* The same, and nobody credits x with a kill or a hit.
Struck(x, y) ==
  /\ Marred(x, y)
  /\ y.kills = x.kills
  /\ y.defensiveHits =< x.defensiveHits

\* The assumption, one constant at a time.
LEMMA LayoutFacts ==
  /\ MaxDamage \in Nat /\ MaxDamage > 0
  /\ CrashesPerDamage \in Nat /\ CrashesPerDamage > 0
  /\ MaxCooldown \in Nat /\ MaxCooldown > 0
  /\ BaseMaxDamage \in Nat /\ BaseMaxDamage > 0
  /\ MaxFuel \in Nat /\ JumpRate \in Nat /\ MaxThrust \in Nat
  /\ MaxAmmo \in Nat /\ MaxStun \in Nat /\ BaseMaxRecharge \in Nat /\ AmmoCost \in Nat
BY LayoutAssumption

\* A limit is in the range it limits.
LEMMA InRange ==
  /\ MaxDamage \in 0..MaxDamage /\ MaxFuel \in 0..MaxFuel /\ MaxAmmo \in 0..MaxAmmo
  /\ MaxCooldown \in 0..MaxCooldown
BY LayoutFacts

\* One field of a ship may be set to any value of its range.
LEMMA WithField ==
  ASSUME NEW x \in ShipState
  PROVE  /\ \A v \in BOOLEAN : [x EXCEPT !.dead = v] \in ShipState
         /\ \A v \in 0..MaxDamage : [x EXCEPT !.damage = v] \in ShipState
         /\ \A v \in 0..MaxFuel : [x EXCEPT !.fuel = v] \in ShipState
         /\ \A v \in 0..MaxThrust : [x EXCEPT !.thrust = v] \in ShipState
         /\ \A v \in 0..MaxAmmo : [x EXCEPT !.ammo = v] \in ShipState
         /\ \A v \in 0..MaxCooldown : [x EXCEPT !.coolDown = v] \in ShipState
         /\ \A v \in 0..MaxStun : [x EXCEPT !.stun = v] \in ShipState
         /\ \A v \in BOOLEAN : [x EXCEPT !.willShoot = v] \in ShipState
         /\ \A v \in Nat : [x EXCEPT !.defensiveHits = v] \in ShipState
         /\ \A v \in Nat : [x EXCEPT !.kills = v] \in ShipState
BY DEF ShipState

\* An untouched ship is not worse off; what mars twice mars.
LEMMA MarredOrder ==
  /\ \A x \in ShipState : Struck(x, x)
  /\ \A x, y, z \in ShipState : Marred(x, y) /\ Marred(y, z) => Marred(x, z)
BY LayoutFacts DEF Struck, Marred, ShipState

\* What mars a ship does not make it aim.
LEMMA MarredAim ==
  ASSUME NEW x \in ShipState, NEW y \in ShipState, AimOK(x), Marred(x, y)
  PROVE  AimOK(y)
BY DEF AimOK, Marred, ShipState

\* Death changes damage_ and dead_ only.
LEMMA DeathStrikes ==
  ASSUME NEW x \in ShipState
  PROVE  Struck(x, Death(x)) /\ Death(x).dead /\ Death(x).defensiveHits = x.defensiveHits
<1> DEFINE y == [x EXCEPT !.damage = MaxDamage]
<1>1. y \in ShipState
  BY WithField, InRange
<1>2. [y EXCEPT !.dead = TRUE] \in ShipState
  BY <1>1, WithField
<1>3. Death(x) = [y EXCEPT !.dead = TRUE]
  BY DEF Death
<1>4. Death(x) \in ShipState
  BY <1>2, <1>3
<1> QED BY <1>4 DEF Death, Struck, Marred, ShipState

\* A hit either counts or kills.
LEMMA DamageStrikes ==
  ASSUME NEW x \in ShipState
  PROVE  Struck(x, Damage(x)) /\ Damage(x).defensiveHits = x.defensiveHits
<1>1. CASE x.damage + 1 >= MaxDamage
  BY <1>1, DeathStrikes DEF Damage
<1>2. CASE ~(x.damage + 1 >= MaxDamage)
  BY <1>2, LayoutFacts DEF Damage, Struck, Marred, ShipState
<1> QED BY <1>1, <1>2

\* A crash counts towards a hit or is one.
LEMMA CrashStrikes ==
  ASSUME NEW x \in ShipState
  PROVE  Struck(x, Crash(x))
<1> DEFINE y == [x EXCEPT !.crashDamage = 0]
<1>1. CASE x.crashDamage + 1 >= CrashesPerDamage
  <2>1. y \in ShipState /\ Struck(x, y)
    BY LayoutFacts DEF ShipState, Struck, Marred
  <2>2. Struck(y, Damage(y))
    BY <2>1, DamageStrikes
  <2> QED BY <1>1, <2>1, <2>2 DEF Crash, Struck, Marred, ShipState
<1>2. CASE ~(x.crashDamage + 1 >= CrashesPerDamage)
  BY <1>2, LayoutFacts DEF Crash, Struck, Marred, ShipState
<1> QED BY <1>1, <1>2

\* The wall empties the tank and kills.
LEMMA KillStrikes ==
  ASSUME NEW x \in ShipState
  PROVE  Struck(x, Kill(x)) /\ Kill(x).dead
<1> DEFINE y == [x EXCEPT !.fuel = 0]
           z == [y EXCEPT !.defensiveHits = 0]
<1>1. y \in ShipState
  BY WithField, LayoutFacts
<1>2. z \in ShipState
  BY <1>1, WithField
<1>3. Kill(x) = Death(z)
  BY DEF Kill
<1>4. Struck(z, Death(z)) /\ Death(z).dead
  BY <1>2, DeathStrikes
<1>5. Struck(x, z)
  BY <1>2 DEF Struck, Marred, ShipState
<1> QED BY <1>3, <1>4, <1>5 DEF Struck, Marred, ShipState

\* A stun changes nothing else.
LEMMA StunStrikes ==
  ASSUME NEW x \in ShipState
  PROVE  /\ Stun(x) \in ShipState /\ Stun(x).dead = x.dead
         /\ ~x.dead => Struck(x, Stun(x))
BY LayoutFacts DEF Stun, Struck, Marred, ShipState

\* Burning fuel never makes a tank negative and kills nobody.
LEMMA BurnStrikes ==
  ASSUME NEW x \in ShipState
  PROVE  Struck(x, Burn(x)) /\ Burn(x).dead = x.dead /\ Burn(x).thrust = x.thrust
BY LayoutFacts DEF Burn, Struck, Marred, ShipState

\* An empty tank kills every ship that is no dummy.
LEMMA StarveStrikes ==
  ASSUME NEW x \in ShipState, NEW isDummy \in BOOLEAN
  PROVE  Struck(x, Starve(x, isDummy)) /\ (~isDummy => Starve(x, isDummy).dead)
         /\ (isDummy => Starve(x, isDummy).dead = x.dead)
<1> DEFINE y == [x EXCEPT !.thrust = 0]
<1>1. y \in ShipState
  BY WithField, LayoutFacts
<1>2. Struck(x, y) /\ y.dead = x.dead
  BY <1>1 DEF Struck, Marred, ShipState
<1>3. Struck(y, Death(y)) /\ Death(y).dead
  BY <1>1, DeathStrikes
<1>4. CASE isDummy
  BY <1>2, <1>4 DEF Starve
<1>5. CASE ~isDummy
  BY <1>2, <1>3, <1>5 DEF Starve, Struck, Marred, ShipState
<1> QED BY <1>4, <1>5

\* A refill fills the tank and the magazine, and touches nothing else.
LEMMA RefillOK ==
  ASSUME NEW x \in ShipState
  PROVE  /\ Refill(x) \in ShipState
         /\ Refill(x).dead = x.dead
         /\ Refill(x).willShoot = x.willShoot
         /\ Refill(x).coolDown = x.coolDown
         /\ Refill(x).kills = x.kills
         /\ Refill(x).defensiveHits = x.defensiveHits
<1> DEFINE y == [x EXCEPT !.fuel = MaxFuel]
<1>1. y \in ShipState
  BY WithField, LayoutFacts
<1> HIDE DEF y
<1>2. [y EXCEPT !.ammo = MaxAmmo] \in ShipState
  BY <1>1, WithField, InRange
<1>3. Refill(x) = [y EXCEPT !.ammo = MaxAmmo]
  BY DEF Refill, y
<1> QED BY <1>2, <1>3 DEF Refill, ShipState

\* A ship's own move keeps the tank within bounds; if it wants to shoot
\* afterwards then it may, unless it wanted to before.
LEMMA MoveOK ==
  ASSUME NEW x \in ShipState, NEW o \in Orders, AimOK(x), ~x.dead
  PROVE  /\ MoveShip(x, o) \in ShipState
         /\ MoveShip(x, o).dead = x.dead
         /\ MoveShip(x, o).fuel =< x.fuel
         /\ MoveShip(x, o).ammo = x.ammo
         /\ MoveShip(x, o).kills = x.kills
         /\ MoveShip(x, o).defensiveHits = x.defensiveHits
         /\ MoveShip(x, o).willShoot => MayShoot(MoveShip(x, o)) /\ MayShoot(x) /\ x.stun = 0
<1> DEFINE thrust == IF x.stun > 0 THEN 0 ELSE o.thrust
           fuel == IF Jumps(x, o) THEN x.fuel - JumpRate ELSE x.fuel
           aim == Aims(x, o) \/ (x.willShoot /\ x.coolDown = 0)
           coolDown == IF x.coolDown > 0 THEN x.coolDown - 1 ELSE 0
           stun == IF x.stun > 0 THEN x.stun - 1 ELSE 0
           y1 == [x EXCEPT !.thrust = thrust]
           y2 == [y1 EXCEPT !.fuel = fuel]
           y3 == [y2 EXCEPT !.willShoot = aim]
           y4 == [y3 EXCEPT !.coolDown = coolDown]
           y5 == [y4 EXCEPT !.stun = stun]
<1>1. /\ thrust \in 0..MaxThrust
      /\ fuel \in 0..MaxFuel /\ fuel =< x.fuel
      /\ aim \in BOOLEAN
      /\ coolDown \in 0..MaxCooldown
      /\ stun \in 0..MaxStun
  BY LayoutFacts DEF Orders, Jumps, Aims, ShipState
<1>2. aim => MayShoot(x) /\ x.stun = 0 /\ coolDown = 0
  BY DEF AimOK, Aims, MayShoot
<1> HIDE DEF thrust, fuel, aim, coolDown, stun
<1>3. y1 \in ShipState
  BY <1>1, WithField
<1>4. y2 \in ShipState
  BY <1>1, <1>3, WithField
<1>5. y3 \in ShipState
  BY <1>1, <1>4, WithField
<1>6. y4 \in ShipState
  BY <1>1, <1>5, WithField
<1>7. y5 \in ShipState
  BY <1>1, <1>6, WithField
<1>8. MoveShip(x, o) = y5
  BY DEF MoveShip, thrust, fuel, aim, coolDown, stun
<1>9. /\ y5.dead = x.dead /\ y5.fuel = fuel /\ y5.ammo = x.ammo /\ y5.kills = x.kills
      /\ y5.defensiveHits = x.defensiveHits
      /\ y5.willShoot = aim /\ y5.coolDown = coolDown
  BY DEF ShipState
<1>10. aim => MayShoot(y5)
  BY <1>2, <1>9 DEF MayShoot
<1> QED BY <1>1, <1>2, <1>7, <1>8, <1>9, <1>10

\* Shooting spends a projectile and starts the cool down.
LEMMA ShootOK ==
  ASSUME NEW x \in ShipState, MayShoot(x)
  PROVE  /\ Shoot(x) \in ShipState
         /\ Shoot(x).dead = x.dead
         /\ Shoot(x).fuel = x.fuel
         /\ Shoot(x).kills = x.kills
         /\ Shoot(x).defensiveHits = x.defensiveHits
         /\ AimOK(Shoot(x))
<1> DEFINE y == [x EXCEPT !.ammo = x.ammo - 1]
           z == [y EXCEPT !.coolDown = MaxCooldown]
<1>1. x.ammo - 1 \in 0..MaxAmmo
  BY LayoutFacts DEF MayShoot, ShipState
<1>2. y \in ShipState
  BY <1>1, WithField
<1> HIDE DEF y
<1>3. z \in ShipState
  BY <1>2, WithField, InRange
<1>4. Shoot(x) = z
  BY DEF Shoot, y
<1> USE DEF y
<1> QED BY <1>3, <1>4, LayoutFacts DEF AimOK, ShipState

LEMMA BaseDeathOK ==
  ASSUME NEW f \in BaseState
  PROVE  BaseDeath(f) \in BaseState /\ BaseDeath(f).dead
<1> DEFINE g == [f EXCEPT !.damage = BaseMaxDamage]
<1>1. g \in BaseState
  BY LayoutFacts DEF BaseState
<1>2. [g EXCEPT !.dead = TRUE] \in BaseState
  BY <1>1 DEF BaseState
<1>3. BaseDeath(f) = [g EXCEPT !.dead = TRUE]
  BY DEF BaseDeath
<1> QED BY <1>2, <1>3 DEF BaseDeath, BaseState

\* A hit on a base either counts or destroys it.
LEMMA BaseDamageOK ==
  ASSUME NEW f \in BaseState
  PROVE  BaseDamage(f) \in BaseState /\ (f.dead => BaseDamage(f).dead)
<1>1. CASE f.damage + 1 >= BaseMaxDamage
  BY <1>1, BaseDeathOK DEF BaseDamage
<1>2. CASE ~(f.damage + 1 >= BaseMaxDamage)
  BY <1>2, LayoutFacts DEF BaseDamage, BaseState
<1> QED BY <1>1, <1>2

\* A base is overdrawn by less than one complete refill.
LEMMA HandOutOK ==
  ASSUME NEW f \in BaseState, NEW x \in ShipState, HasSupplies(f)
  PROVE  HandOut(f, x) \in BaseState /\ HandOut(f, x).dead = f.dead
<1>1. \A a, b, c \in Nat : a =< b => a * c =< b * c
  OBVIOUS
<1>2. /\ MaxFuel - x.fuel \in Nat /\ MaxAmmo - x.ammo \in Nat
      /\ MaxFuel - x.fuel =< MaxFuel /\ MaxAmmo - x.ammo =< MaxAmmo
  BY LayoutFacts DEF ShipState
<1>3. (MaxAmmo - x.ammo) * AmmoCost =< MaxAmmo * AmmoCost
  BY <1>1, <1>2, LayoutFacts
<1>4. (MaxAmmo - x.ammo) * AmmoCost \in Nat /\ MaxAmmo * AmmoCost \in Nat
  BY <1>2, LayoutFacts
<1>5. RefillCost(x) \in Nat /\ RefillCost(x) =< MaxRefill /\ MaxRefill \in Nat
  BY <1>2, <1>3, <1>4, LayoutFacts DEF RefillCost, MaxRefill
<1>6. f.recharged + RefillCost(x) \in 0..(BaseMaxRecharge + MaxRefill)
  BY <1>5, LayoutFacts DEF HasSupplies, BaseState
<1> QED BY <1>6 DEF HandOut, BaseState

-----------------------------------------------------------------------------
(***************************************************************************)
(* Type correctness.  It is inductive together with what keeps Ship::shoot *)
(* from spending a projectile a ship does not have: willShoot_ of a living *)
(* ship is TRUE only while it cools down, and only the living move.        *)
(***************************************************************************)
AimsHold == \A s \in Ship : AimOK(ships[s])
DummiesHold == \A s \in Dummy : ~ships[s].willShoot
MoversLive == phase = "move" => \A s \in toMove : ~ships[s].dead
StepsLeft == phase # "over" => steps < Iterations

TypeInv == TypeOK /\ AimsHold /\ DummiesHold /\ MoversLive /\ StepsLeft

LEMMA FieldFacts ==
  /\ IsFiniteSet(Ship) /\ IsFiniteSet(Facility)
  /\ Ship \cap Facility = {} /\ (Ship \cup Facility) \cap Projectile = {}
  /\ Dummy \subseteq Ship
  /\ MaxCollateral \in Nat /\ Iterations \in Nat /\ Iterations > 0
BY FieldAssumption

LEMMA OwnerType ==
  \A p \in Projectile : Owner(p) \in Ship
BY DEF Projectile, Owner

LEMMA FreshShipType ==
  FreshShip \in ShipState
BY LayoutFacts, LayoutAssumption DEF FreshShip, ShipState

\* A blast or a direct hit mars the ships it hurts and its owner.
LEMMA ImpactMars ==
  ASSUME NEW fleet \in [Ship -> ShipState], NEW p \in Projectile, NEW hit \in SUBSET Ship
  PROVE  /\ Impact(fleet, p, hit) \in [Ship -> ShipState]
         /\ \A s \in Ship : Marred(fleet[s], Impact(fleet, p, hit)[s])
<1> DEFINE o == Owner(p)
           hurt == [s \in Ship |-> IF s \in hit THEN Damage(fleet[s]) ELSE fleet[s]]
           foes == {s \in hit : Enemies(s, Owner(p))}
           a == hurt[o].defensiveHits + Cardinality(foes)
           b == hurt[o].kills + Cardinality({s \in foes : hurt[s].dead})
           x == [hurt[o] EXCEPT !.defensiveHits = a]
           y == [x EXCEPT !.kills = b]
<1>1. o \in Ship
  BY OwnerType
<1>2. \A s \in Ship : hurt[s] \in ShipState /\ Marred(fleet[s], hurt[s])
  BY DamageStrikes, MarredOrder DEF Struck, Marred
<1>3. Cardinality(foes) \in Nat /\ Cardinality({s \in foes : hurt[s].dead}) \in Nat
  <2>1. IsFiniteSet(foes) /\ IsFiniteSet({s \in foes : hurt[s].dead})
    BY FieldFacts, FS_Subset
  <2> QED BY <2>1, FS_CardinalityType
<1>4. hurt[o] \in ShipState
  BY <1>1, <1>2
<1>5. hurt[o].defensiveHits \in Nat /\ hurt[o].kills \in Nat
  BY <1>4 DEF ShipState
<1>6. a \in Nat /\ b \in Nat
  BY <1>3, <1>5
<1> HIDE DEF a, b
<1>7. x \in ShipState
  BY <1>4, <1>6, WithField
<1>8. y \in ShipState
  BY <1>6, <1>7, WithField
<1>9. Marred(hurt[o], y)
  BY <1>4, <1>8 DEF Marred, ShipState
<1>10. Marred(fleet[o], y)
  BY <1>1, <1>2, <1>4, <1>8, <1>9, MarredOrder
<1>11. Impact(fleet, p, hit) = [hurt EXCEPT ![o] = y]
  BY DEF Impact, a, b
<1> HIDE DEF hurt, y, o
<1>12. hurt = [s \in Ship |-> hurt[s]]
  BY DEF hurt
<1> QED BY <1>1, <1>2, <1>8, <1>10, <1>11, <1>12

(***************************************************************************)
(* What a step does to the fleet: everything but a ship's own move and a   *)
(* refill only mars ships.                                                 *)
(***************************************************************************)
FleetMarred ==
  /\ ships' \in [Ship -> ShipState]
  /\ \A s \in Ship : Marred(ships[s], ships'[s])

LEMMA StillFleet ==
  ASSUME TypeInv, ships' = ships
  PROVE  FleetMarred
BY MarredOrder DEF TypeInv, TypeOK, FleetMarred, Struck

LEMMA DetonateMars ==
  ASSUME TypeInv, NEW p \in Projectile, Detonate(p)
  PROVE  FleetMarred
<1>1. PICK hit \in SUBSET Ship :
        ships' = Impact(StunAll(hit), p, hit) /\ \A s \in hit : ~ships[s].dead
  BY DEF Detonate, Collateral, Living
<1>2. ships \in [Ship -> ShipState]
  BY DEF TypeInv, TypeOK
<1>3. StunAll(hit) \in [Ship -> ShipState] /\ \A s \in Ship : Marred(ships[s], StunAll(hit)[s])
  <2>1. \A s \in hit : Marred(ships[s], Stun(ships[s]))
    BY <1>1, <1>2, StunStrikes DEF Struck
  <2>2. \A s \in Ship : Marred(ships[s], ships[s])
    BY <1>2, MarredOrder DEF Struck
  <2>3. \A s \in hit : Stun(ships[s]) \in ShipState
    BY <2>1 DEF Marred
  <2> QED BY <1>2, <2>1, <2>2, <2>3 DEF StunAll
<1>4. /\ ships' \in [Ship -> ShipState]
      /\ \A s \in Ship : Marred(StunAll(hit)[s], ships'[s])
  BY <1>1, <1>3, ImpactMars
<1> QED BY <1>2, <1>3, <1>4, MarredOrder DEF FleetMarred

LEMMA DriveMars ==
  ASSUME TypeInv, Drive
  PROVE  FleetMarred
<1>1. ships \in [Ship -> ShipState]
  BY DEF TypeInv, TypeOK
<1>2. ASSUME NEW s \in Ship
      PROVE  /\ Marred(ships[s], ships[s])
             /\ Marred(ships[s], Starve(ships[s], s \in Dummy))
             /\ Marred(ships[s], Burn(ships[s]))
  <2>1. ships[s] \in ShipState
    BY <1>1, <1>2
  <2>2. Struck(ships[s], ships[s]) /\ Struck(ships[s], Burn(ships[s]))
    BY <2>1, MarredOrder, BurnStrikes
  <2>3. /\ Struck(ships[s], Starve(ships[s], TRUE))
        /\ Struck(ships[s], Starve(ships[s], FALSE))
    BY <2>1, StarveStrikes
  <2>4. Struck(ships[s], Starve(ships[s], s \in Dummy))
    BY <2>3 DEF Starve
  <2> QED BY <2>2, <2>4 DEF Struck
<1>3. ships' = [s \in Ship |->
           IF s \notin world THEN ships[s]
           ELSE IF s \in {t \in Ship \cap world : ships[t].fuel = 0}
                THEN Starve(ships[s], s \in Dummy) ELSE Burn(ships[s])]
  BY DEF Drive
<1>4. \A s \in Ship : Marred(ships[s], ships'[s])
  BY <1>2, <1>3
<1> QED BY <1>3, <1>4 DEF FleetMarred, Marred

LEMMA ContactMars ==
  ASSUME TypeInv, Contact
  PROVE  FleetMarred
<1>1. ships \in [Ship -> ShipState]
  BY DEF TypeInv, TypeOK
<1>2. ASSUME NEW s \in Ship, WallHitsShip(s)
      PROVE  FleetMarred
  <2>1. \A t \in Ship : Marred(ships[t], ships[t]) /\ Marred(ships[t], Kill(ships[t]))
    BY <1>1, MarredOrder, KillStrikes DEF Struck
  <2>2. Kill(ships[s]) \in ShipState
    BY <2>1 DEF Marred
  <2> QED BY <1>1, <1>2, <2>1, <2>2 DEF WallHitsShip, FleetMarred
<1>3. ASSUME NEW p \in Projectile, NEW s \in Ship, ProjectileHitsShip(p, s)
      PROVE  FleetMarred
  BY <1>1, <1>3, ImpactMars DEF ProjectileHitsShip, FleetMarred
<1>4. ASSUME NEW p \in Projectile, NEW f \in Facility, ProjectileHitsBase(p, f)
      PROVE  FleetMarred
  <2> DEFINE o == Owner(p)
             k == IF bases[f].dead /\ Enemies(f, o) THEN ships[o].kills + 1 ELSE ships[o].kills
             x == [ships[o] EXCEPT !.kills = k]
  <2>1. o \in Ship /\ ships[o] \in ShipState
    BY <1>1, OwnerType
  <2>2. k \in Nat
    BY <2>1 DEF ShipState
  <2>3. ships' = [ships EXCEPT ![o] = x]
    BY <1>4 DEF ProjectileHitsBase
  <2> HIDE DEF k, o
  <2>4. x \in ShipState
    BY <2>1, <2>2, WithField
  <2>5. Marred(ships[o], x)
    BY <2>1, <2>4 DEF Marred, ShipState
  <2> HIDE DEF x
  <2> QED BY <1>1, <2>1, <2>3, <2>4, <2>5, MarredOrder DEF FleetMarred, Struck
<1>5. ASSUME NEW s \in Ship, NEW t \in Ship, ShipsCrash(s, t)
      PROVE  FleetMarred
  <2>1. s # t /\ ships' = [ships EXCEPT ![s] = Crash(ships[s]), ![t] = Crash(ships[t])]
    BY <1>5 DEF ShipsCrash
  <2>2. \A u \in Ship : Marred(ships[u], ships[u]) /\ Marred(ships[u], Crash(ships[u]))
    BY <1>1, MarredOrder, CrashStrikes DEF Struck
  <2>3. Crash(ships[s]) \in ShipState /\ Crash(ships[t]) \in ShipState
    BY <2>2 DEF Marred
  <2> QED BY <1>1, <2>1, <2>2, <2>3 DEF FleetMarred
<1>6. CASE ships' = ships
  BY <1>6, StillFleet
<1> QED BY <1>2, <1>3, <1>4, <1>5, <1>6
        DEF Contact, WallHitsBase, WallHitsProjectile, BasesCollide

LEMMA RechargeFills ==
  ASSUME TypeInv, NEW f \in Facility, NEW s \in Ship, Recharge(f, s)
  PROVE  /\ ships' = [ships EXCEPT ![s] = Refill(ships[s])]
         /\ ~ships[s].dead
         /\ Refill(ships[s]) \in ShipState
         /\ AimOK(Refill(ships[s]))
         /\ Refill(ships[s]).willShoot = ships[s].willShoot
BY RefillOK DEF TypeInv, TypeOK, AimsHold, AimOK, Recharge

\* A living ship's own turn; y is the ship after it.
Turn(s, y) ==
  /\ s \in toMove /\ ~ships[s].dead
  /\ ships' = [ships EXCEPT ![s] = y] /\ toMove' = toMove \ {s}
  /\ y \in ShipState /\ AimOK(y) /\ (s \in Dummy => ~y.willShoot)
  /\ y.fuel =< ships[s].fuel
  /\ y.ammo = ships[s].ammo \/ (MayShoot(ships[s]) /\ ships[s].stun = 0)

LEMMA MovedOK ==
  ASSUME TypeInv, NEW s \in Ship, ~ships[s].dead, NEW o \in Orders
  PROVE  /\ Moved(s, o) \in ShipState /\ ~Moved(s, o).dead
         /\ Moved(s, o).fuel =< ships[s].fuel
         /\ Moved(s, o).ammo = ships[s].ammo
         /\ s \in Dummy => ~Moved(s, o).willShoot
         /\ Moved(s, o).willShoot =>
              MayShoot(Moved(s, o)) /\ MayShoot(ships[s]) /\ ships[s].stun = 0
<1>1. ships[s] \in ShipState /\ AimOK(ships[s])
  BY DEF TypeInv, TypeOK, AimsHold
<1>2. CASE s \in Dummy
  BY <1>1, <1>2, LayoutFacts DEF Moved, TypeInv, DummiesHold, ShipState
<1>3. CASE s \notin Dummy
  BY <1>1, <1>3, MoveOK DEF Moved
<1> QED BY <1>2, <1>3

LEMMA TurnOK ==
  ASSUME TypeInv, NEW s \in Ship, LeaveField(s) \/ MoveOn(s) \/ MoveAndShoot(s)
  PROVE  \E y : Turn(s, y)
<1>1. s \in toMove /\ ~ships[s].dead
  BY DEF TypeInv, MoversLive, LeaveField, MoveOn, MoveAndShoot
<1>2. toMove' = toMove \ {s}
  BY DEF LeaveField, MoveOn, MoveAndShoot, MoveOff
<1>3. CASE LeaveField(s)
  <2>1. PICK o \in Orders : ships' = [ships EXCEPT ![s] = [Moved(s, o) EXCEPT !.dead = TRUE]]
    BY <1>3 DEF LeaveField, OrdersFor
  <2> DEFINE x == Moved(s, o)
             y == [x EXCEPT !.dead = TRUE]
  <2>2. x \in ShipState /\ x.fuel =< ships[s].fuel /\ x.ammo = ships[s].ammo
        /\ (s \in Dummy => ~x.willShoot)
    BY <1>1, MovedOK
  <2> HIDE DEF x
  <2>3. y \in ShipState
    BY <2>2, WithField
  <2>4. y.dead /\ y.fuel = x.fuel /\ y.ammo = x.ammo /\ y.willShoot = x.willShoot
    BY <2>2 DEF ShipState
  <2>5. ships' = [ships EXCEPT ![s] = y]
    BY <2>1 DEF x
  <2> HIDE DEF y
  <2>6. Turn(s, y)
    BY <1>1, <1>2, <2>2, <2>3, <2>4, <2>5 DEF Turn, AimOK
  <2> QED BY <2>6
<1>4. CASE MoveOn(s)
  <2>1. PICK o \in Orders : ~Moved(s, o).willShoot /\ ships' = [ships EXCEPT ![s] = Moved(s, o)]
    BY <1>4 DEF MoveOn, OrdersFor
  <2>2. Turn(s, Moved(s, o))
    BY <1>1, <1>2, <2>1, MovedOK DEF Turn, AimOK
  <2> QED BY <2>2
<1>5. CASE MoveAndShoot(s)
  <2>1. PICK o \in Orders :
          Moved(s, o).willShoot /\ ships' = [ships EXCEPT ![s] = Shoot(Moved(s, o))]
    BY <1>5 DEF MoveAndShoot, OrdersFor
  <2> DEFINE x == Moved(s, o)
             y == Shoot(x)
  <2>2. x \in ShipState /\ MayShoot(x) /\ x.fuel =< ships[s].fuel /\ s \notin Dummy
        /\ MayShoot(ships[s]) /\ ships[s].stun = 0
    BY <1>1, <2>1, MovedOK
  <2> HIDE DEF x
  <2>3. y \in ShipState /\ AimOK(y) /\ y.fuel = x.fuel
    BY <2>2, ShootOK
  <2>4. ships' = [ships EXCEPT ![s] = y]
    BY <2>1 DEF x
  <2> HIDE DEF y
  <2>5. Turn(s, y)
    BY <1>1, <1>2, <2>2, <2>3, <2>4 DEF Turn
  <2> QED BY <2>5
<1> QED BY <1>3, <1>4, <1>5

\* Every step mars the fleet, refills one living ship or is a ship's turn.
LEMMA FleetStep ==
  ASSUME TypeInv, [Next]_vars
  PROVE  \/ FleetMarred
         \/ \E f \in Facility, s \in Ship : Recharge(f, s)
         \/ phase = "move" /\ \E s \in Ship : \E y : Turn(s, y)
<1>1. CASE Contact
  BY <1>1, ContactMars
<1>2. CASE \E p \in Projectile : Detonate(p)
  BY <1>2, DetonateMars
<1>3. CASE Drive
  BY <1>3, DriveMars
<1>4. CASE \E s \in Ship : LeaveField(s) \/ MoveOn(s) \/ MoveAndShoot(s)
  BY <1>4, TurnOK DEF LeaveField, MoveOn, MoveAndShoot
<1>5. CASE Begin \/ EndTeamScan \/ EndScan \/ EndStep \/ UNCHANGED vars
  BY <1>5, StillFleet DEF Begin, EndTeamScan, EndScan, EndStep, vars
<1> QED BY <1>1, <1>2, <1>3, <1>4, <1>5 DEF Next, Progress

LEMMA FleetInvariant ==
  ASSUME TypeInv, [Next]_vars
  PROVE  ships' \in [Ship -> ShipState] /\ AimsHold' /\ DummiesHold'
<1>1. ships \in [Ship -> ShipState] /\ AimsHold /\ DummiesHold /\ Dummy \subseteq Ship
  BY FieldFacts DEF TypeInv, TypeOK
<1>2. CASE FleetMarred
  BY <1>1, <1>2, MarredAim DEF FleetMarred, AimsHold, DummiesHold, Marred
<1>3. CASE \E f \in Facility, s \in Ship : Recharge(f, s)
  <2>1. PICK f \in Facility, s \in Ship : Recharge(f, s)
    BY <1>3
  <2> QED BY <1>1, <2>1, RechargeFills DEF AimsHold, DummiesHold
<1>4. CASE \E s \in Ship : \E y : Turn(s, y)
  BY <1>1, <1>4 DEF Turn, AimsHold, DummiesHold
<1> QED BY <1>2, <1>3, <1>4, FleetStep

LEMMA BasesType ==
  ASSUME TypeInv, [Next]_vars
  PROVE  bases' \in [Facility -> BaseState]
<1>1. bases \in [Facility -> BaseState] /\ ships \in [Ship -> ShipState]
  BY DEF TypeInv, TypeOK
<1>2. ASSUME NEW f \in Facility, NEW s \in Ship, Recharge(f, s)
      PROVE  bases' \in [Facility -> BaseState]
  BY <1>1, <1>2, HandOutOK DEF Recharge
<1>3. ASSUME NEW f \in Facility, WallHitsBase(f)
      PROVE  bases' \in [Facility -> BaseState]
  BY <1>1, <1>3, BaseDeathOK DEF WallHitsBase
<1>4. ASSUME NEW p \in Projectile, NEW f \in Facility, ProjectileHitsBase(p, f)
      PROVE  bases' \in [Facility -> BaseState]
  BY <1>1, <1>4, BaseDamageOK DEF ProjectileHitsBase
<1>5. ASSUME NEW f \in Facility, NEW g \in Facility, BasesCollide(f, g)
      PROVE  bases' \in [Facility -> BaseState]
  BY <1>1, <1>5, BaseDamageOK DEF BasesCollide
<1>6. CASE bases' = bases
  BY <1>1, <1>6
<1> QED BY <1>2, <1>3, <1>4, <1>5, <1>6
        DEF Next, Progress, Contact, Begin, Detonate, EndTeamScan, EndScan, LeaveField,
            MoveOn, MoveAndShoot, MoveOff, Drive, EndStep, WallHitsShip,
            WallHitsProjectile, ProjectileHitsShip, ShipsCrash, vars

LEMMA ProjectilesType ==
  ASSUME TypeInv, [Next]_vars
  PROVE  projectiles' \in [Projectile -> ProjectileState]
<1>1. projectiles \in [Projectile -> ProjectileState]
  BY DEF TypeInv, TypeOK
<1>2. Fired \in ProjectileState
  BY DEF Fired, ProjectileState
<1>3. \A q \in ProjectileState :
        /\ [q EXCEPT !.blast = "spent"] \in ProjectileState
        /\ [q EXCEPT !.listed = FALSE] \in ProjectileState
        /\ Fizzled(q) \in ProjectileState
        /\ Exploded(q) \in ProjectileState
  <2>1. ASSUME NEW q \in ProjectileState
        PROVE  /\ \A b \in {"none", "pending", "spent"} : [q EXCEPT !.blast = b] \in ProjectileState
               /\ [q EXCEPT !.listed = FALSE] \in ProjectileState
               /\ Fizzled(q) \in ProjectileState
    BY DEF ProjectileState, Fizzled
  <2>2. \A q : Exploded(q) = [Fizzled(q) EXCEPT !.blast = "pending"]
    BY DEF Exploded, Fizzled
  <2> QED BY <2>1, <2>2
<1>4. ASSUME NEW p \in Projectile, Detonate(p)
      PROVE  projectiles' \in [Projectile -> ProjectileState]
  BY <1>1, <1>3, <1>4 DEF Detonate
<1>5. ASSUME NEW s \in Ship, MoveAndShoot(s)
      PROVE  projectiles' \in [Projectile -> ProjectileState]
  BY <1>1, <1>2, <1>5 DEF MoveAndShoot, Unspent
<1>6. CASE Drive
  BY <1>1, <1>3, <1>6 DEF Drive
<1>7. ASSUME NEW s \in Ship, WallHitsShip(s)
      PROVE  projectiles' \in [Projectile -> ProjectileState]
  BY <1>1, <1>3, <1>7 DEF WallHitsShip
<1>8. ASSUME NEW p \in Projectile, WallHitsProjectile(p)
      PROVE  projectiles' \in [Projectile -> ProjectileState]
  BY <1>1, <1>3, <1>8 DEF WallHitsProjectile
<1>9. ASSUME NEW p \in Projectile, NEW s \in Ship, ProjectileHitsShip(p, s)
      PROVE  projectiles' \in [Projectile -> ProjectileState]
  BY <1>1, <1>3, <1>9 DEF ProjectileHitsShip
<1>10. ASSUME NEW p \in Projectile, NEW f \in Facility, ProjectileHitsBase(p, f)
      PROVE  projectiles' \in [Projectile -> ProjectileState]
  BY <1>1, <1>3, <1>10 DEF ProjectileHitsBase
<1>11. CASE projectiles' = projectiles
  BY <1>1, <1>11
<1> QED BY <1>4, <1>5, <1>6, <1>7, <1>8, <1>9, <1>10, <1>11
        DEF Next, Progress, Contact, Begin, EndTeamScan, Recharge, EndScan, LeaveField,
            MoveOn, EndStep, WallHitsBase, BasesCollide, ShipsCrash, vars

LEMMA QueueType ==
  ASSUME deadBodies \in [Object -> Nat], NEW O, Queue(O)
  PROVE  deadBodies' \in [Object -> Nat]
BY DEF Queue

LEMMA RestType ==
  ASSUME TypeInv, [Next]_vars
  PROVE  /\ phase' \in Phase /\ toMove' \subseteq Ship /\ world' \subseteq Object
         /\ deadBodies' \in [Object -> Nat] /\ steps' \in 0..Iterations
         /\ StepsLeft'
<1> USE DEF Phase, StepsLeft
<1>1. /\ phase \in Phase /\ toMove \subseteq Ship /\ world \subseteq Object
      /\ deadBodies \in [Object -> Nat] /\ steps \in 0..Iterations /\ Iterations \in Nat
      /\ phase # "over" => steps < Iterations
  BY FieldFacts DEF TypeInv, TypeOK
<1>2. CASE Begin \/ EndTeamScan \/ UNCHANGED vars
  BY <1>1, <1>2 DEF Begin, EndTeamScan, vars
<1>3. CASE \E p \in Projectile : Detonate(p)
  BY <1>1, <1>3 DEF Detonate
<1>4. CASE \E f \in Facility, s \in Ship : Recharge(f, s)
  BY <1>1, <1>4 DEF Recharge
<1>5. CASE EndScan
  BY <1>1, <1>5 DEF EndScan, Living
<1>6. CASE \E s \in Ship : LeaveField(s) \/ MoveOn(s) \/ MoveAndShoot(s)
  BY <1>1, <1>6 DEF LeaveField, MoveOn, MoveAndShoot, MoveOff, Unspent, Object
<1>7. CASE Drive
  BY <1>1, <1>7 DEF Drive
<1>8. CASE Contact
  <2>1. \E O : Queue(O) \/ deadBodies' = deadBodies
    BY <1>8 DEF Contact, WallHitsShip, WallHitsBase, WallHitsProjectile,
                ProjectileHitsShip, ProjectileHitsBase, BasesCollide, ShipsCrash
  <2>2. UNCHANGED <<phase, toMove, world, steps>>
    BY <1>8 DEF Contact, WallHitsShip, WallHitsBase, WallHitsProjectile,
                ProjectileHitsShip, ProjectileHitsBase, BasesCollide, ShipsCrash
  <2> QED BY <1>1, <2>1, <2>2, QueueType
<1>9. CASE EndStep
  BY <1>1, <1>9 DEF EndStep
<1> QED BY <1>2, <1>3, <1>4, <1>5, <1>6, <1>7, <1>8, <1>9 DEF Next, Progress

LEMMA MoversStayAlive ==
  ASSUME TypeInv, [Next]_vars
  PROVE  MoversLive'
<1> USE DEF MoversLive
<1>1. ships \in [Ship -> ShipState] /\ toMove \subseteq Ship /\ MoversLive
  BY DEF TypeInv, TypeOK
<1>2. CASE EndScan
  BY <1>2 DEF EndScan, Living
<1>3. CASE \E s \in Ship : LeaveField(s) \/ MoveOn(s) \/ MoveAndShoot(s)
  <2>1. PICK s \in Ship : LeaveField(s) \/ MoveOn(s) \/ MoveAndShoot(s)
    BY <1>3
  <2>2. PICK y : Turn(s, y)
    BY <2>1, TurnOK
  <2>3. phase = "move" /\ phase' = phase
    BY <2>1 DEF LeaveField, MoveOn, MoveAndShoot, MoveOff
  <2> QED BY <1>1, <2>2, <2>3 DEF Turn
<1>4. CASE UNCHANGED vars
  BY <1>1, <1>4 DEF vars
<1>5. CASE Begin \/ EndTeamScan \/ Drive \/ EndStep \/ Contact
           \/ (\E p \in Projectile : Detonate(p))
           \/ (\E f \in Facility, s \in Ship : Recharge(f, s))
  <2>1. phase' # "move"
    BY <1>5 DEF Begin, EndTeamScan, Drive, EndStep, Detonate, Recharge, Contact,
                WallHitsShip, WallHitsBase, WallHitsProjectile, ProjectileHitsShip,
                ProjectileHitsBase, BasesCollide, ShipsCrash, Touchable
  <2> QED BY <2>1
<1> QED BY <1>2, <1>3, <1>4, <1>5 DEF Next, Progress

LEMMA InitType ==
  Init => TypeInv
<1> SUFFICES ASSUME Init PROVE TypeInv
  OBVIOUS
<1>1. FreshShip \in ShipState /\ ~FreshShip.willShoot
  BY FreshShipType DEF FreshShip
<1>2. FreshBase \in BaseState
  BY LayoutFacts DEF FreshBase, BaseState, MaxRefill
<1>3. Unfired \in ProjectileState
  BY DEF Unfired, ProjectileState
<1>4. ships \in [Ship -> ShipState] /\ AimsHold /\ DummiesHold
  BY <1>1, FieldFacts DEF Init, AimsHold, AimOK, DummiesHold
<1>5. bases \in [Facility -> BaseState] /\ projectiles \in [Projectile -> ProjectileState]
  BY <1>2, <1>3 DEF Init
<1>6. /\ phase \in Phase /\ toMove \subseteq Ship /\ world \subseteq Object
      /\ deadBodies \in [Object -> Nat] /\ steps \in 0..Iterations
      /\ MoversLive /\ StepsLeft
  BY FieldFacts DEF Init, Phase, Object, MoversLive, StepsLeft
<1> QED BY <1>4, <1>5, <1>6 DEF TypeInv, TypeOK

LEMMA NextType ==
  TypeInv /\ [Next]_vars => TypeInv'
BY FleetInvariant, BasesType, ProjectilesType, RestType, MoversStayAlive
   DEF TypeInv, TypeOK

\* What BattleField::step() leaves in a ship, a base, a projectile and its work
\* lists is typed, and strong enough for the next step.
THEOREM TypeInvariant == Spec => []TypeInv
BY InitType, NextType, PTL DEF Spec

\* In every reachable state every counter of a ship or base is within its
\* layout's limits, whatever the layout: no tank or magazine is overdrawn.
THEOREM TypeCorrect == Spec => []TypeOK
<1>1. TypeInv => TypeOK
  BY DEF TypeInv
<1> QED BY <1>1, TypeInvariant, PTL
=============================================================================
