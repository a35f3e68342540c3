------------------------- MODULE BattleSafetyProofs -------------------------
(***************************************************************************)
(* What a tick never does, for every number of ships and bases, every      *)
(* layout and every length of a battle: the dead do not act, shots are     *)
(* legal, no body is destroyed twice, nobody flies on an empty tank, and   *)
(* kills and hits are scored once.                                         *)
(***************************************************************************)
EXTENDS BattleProofs, SumProofs

-----------------------------------------------------------------------------
(***************************************************************************)
(* Action properties: each follows from the three kinds of step a ship     *)
(* can take.                                                               *)
(***************************************************************************)

\* Ships that have died take no part: no step revives one, fills its tank,
\* changes its magazine, or stuns it or lets it recover.
THEOREM DeadStayInert == Spec => DeadAreInert
<1> DEFINE Inert == \A s \in Ship : ships[s].dead =>
                      /\ ships'[s].dead
                      /\ ships'[s].ammo = ships[s].ammo
                      /\ ships'[s].fuel =< ships[s].fuel
                      /\ ships'[s].stun = ships[s].stun
<1>1. ASSUME TypeInv, [Next]_vars, NEW s \in Ship, ships[s].dead
      PROVE  /\ ships'[s].dead
             /\ ships'[s].ammo = ships[s].ammo
             /\ ships'[s].fuel =< ships[s].fuel
             /\ ships'[s].stun = ships[s].stun
  <2>1. ships \in [Ship -> ShipState] /\ ships[s].fuel \in Nat
    BY <1>1, LayoutFacts DEF TypeInv, TypeOK, ShipState
  <2>2. CASE FleetMarred
    BY <1>1, <2>2 DEF FleetMarred, Marred
  <2>3. CASE \E f \in Facility, t \in Ship : Recharge(f, t)
    BY <1>1, <2>1, <2>3, RechargeFills
  <2>4. CASE \E t \in Ship : \E y : Turn(t, y)
    BY <1>1, <2>1, <2>4 DEF Turn
  <2> QED BY <1>1, <2>2, <2>3, <2>4, FleetStep
<1>2. TypeInv /\ [Next]_vars => [Inert]_vars
  BY <1>1
<1>3. Spec => [][Inert]_vars
  BY <1>2, TypeInvariant, PTL DEF Spec
<1> QED BY <1>3 DEF DeadAreInert

\* The CHECKs of Ship::shoot() never fail: whenever a magazine shrinks, its
\* ship is alive, not stunned, has cooled down and had a projectile.
THEOREM ShootChecksHold == Spec => ShotsAreLegal
<1> DEFINE Legal == \A s \in Ship : ships'[s].ammo < ships[s].ammo =>
                      MayShoot(ships[s]) /\ ~ships[s].dead /\ ships[s].stun = 0
<1>1. ASSUME TypeInv, [Next]_vars, NEW s \in Ship, ships'[s].ammo < ships[s].ammo
      PROVE  MayShoot(ships[s]) /\ ~ships[s].dead /\ ships[s].stun = 0
  <2>1. /\ ships \in [Ship -> ShipState] /\ ships[s].ammo \in 0..MaxAmmo
        /\ MaxAmmo \in Nat /\ ~(ships[s].ammo < ships[s].ammo)
    BY <1>1, LayoutFacts DEF TypeInv, TypeOK, ShipState
  <2>2. CASE FleetMarred
    BY <1>1, <2>1, <2>2 DEF FleetMarred, Marred
  <2>3. CASE \E f \in Facility, t \in Ship : Recharge(f, t)
    <3>1. PICK f \in Facility, t \in Ship : Recharge(f, t)
      BY <2>3
    <3>2. ships' = [ships EXCEPT ![t] = Refill(ships[t])]
      BY <1>1, <3>1, RechargeFills
    <3>3. Refill(ships[s]).ammo = MaxAmmo
      BY <2>1 DEF Refill, ShipState
    <3> QED BY <1>1, <2>1, <3>2, <3>3
  <2>4. CASE \E t \in Ship : \E y : Turn(t, y)
    <3>1. PICK t \in Ship : \E y : Turn(t, y)
      BY <2>4
    <3>2. PICK y : Turn(t, y)
      BY <3>1
    <3> QED BY <1>1, <2>1, <3>2 DEF Turn
  <2> QED BY <1>1, <2>2, <2>3, <2>4, FleetStep
<1>2. TypeInv /\ [Next]_vars => [Legal]_vars
  BY <1>1
<1>3. Spec => [][Legal]_vars
  BY <1>2, TypeInvariant, PTL DEF Spec
<1> QED BY <1>3 DEF ShotsAreLegal

-----------------------------------------------------------------------------
(***************************************************************************)
(* Bodies.  Inside world_.Step() a body may be queued, outside none is: an *)
(* object is queued only as it dies, and callbacks skip the dead.          *)
(***************************************************************************)
QueuedOnce ==
  \A o \in Object :
    \/ deadBodies[o] = 0
    \/ deadBodies[o] = 1 /\ o \in world /\ Dead(o) /\ phase = "contact"

LivingHaveBodies == \A o \in Object : ~Dead(o) => o \in world

\* The same for exploded projectiles the other way round.
ExplodedAreQueued ==
  \A p \in Projectile \cap world : Dead(p) => phase = "contact" /\ deadBodies[p] = 1

BodyInv == QueuedOnce /\ LivingHaveBodies /\ ExplodedAreQueued

LEMMA UnitsStayDead ==
  ASSUME TypeInv, [Next]_vars
  PROVE  \A o \in Ship \cup Facility : Dead(o) => Dead(o)'
<1>1. \A s \in Ship : ships[s].dead => ships'[s].dead
  <2>1. ships \in [Ship -> ShipState]
    BY DEF TypeInv, TypeOK
  <2>2. CASE FleetMarred
    BY <2>2 DEF FleetMarred, Marred
  <2>3. CASE \E f \in Facility, t \in Ship : Recharge(f, t)
    BY <2>1, <2>3, RechargeFills
  <2>4. CASE \E t \in Ship : \E y : Turn(t, y)
    BY <2>1, <2>4 DEF Turn
  <2> QED BY <2>2, <2>3, <2>4, FleetStep
<1>2. \A f \in Facility : bases[f].dead => bases'[f].dead
  <2>1. bases \in [Facility -> BaseState] /\ ships \in [Ship -> ShipState]
    BY DEF TypeInv, TypeOK
  <2>2. ASSUME NEW f \in Facility, NEW s \in Ship, Recharge(f, s)
        PROVE  \A g \in Facility : bases[g].dead => bases'[g].dead
    BY <2>1, <2>2, HandOutOK DEF Recharge
  <2>3. ASSUME NEW f \in Facility, WallHitsBase(f)
        PROVE  \A g \in Facility : bases[g].dead => bases'[g].dead
    BY <2>1, <2>3, BaseDeathOK DEF WallHitsBase
  <2>4. ASSUME NEW p \in Projectile, NEW f \in Facility, ProjectileHitsBase(p, f)
        PROVE  \A g \in Facility : bases[g].dead => bases'[g].dead
    BY <2>1, <2>4, BaseDamageOK DEF ProjectileHitsBase
  <2>5. ASSUME NEW f \in Facility, NEW g \in Facility, BasesCollide(f, g)
        PROVE  \A h \in Facility : bases[h].dead => bases'[h].dead
    BY <2>1, <2>5, BaseDamageOK DEF BasesCollide
  <2>6. CASE bases' = bases
    BY <2>6
  <2> QED BY <2>2, <2>3, <2>4, <2>5, <2>6
          DEF Next, Progress, Contact, Begin, Detonate, EndTeamScan, EndScan, LeaveField,
              MoveOn, MoveAndShoot, MoveOff, Drive, EndStep, WallHitsShip,
              WallHitsProjectile, ProjectileHitsShip, ShipsCrash, vars
<1> QED BY <1>1, <1>2, FieldFacts DEF Dead

\* A projectile that is only seen, or has its blast spent, does not change.
LEMMA SameProjectile ==
  ASSUME NEW p \in Projectile, projectiles'[p].state = projectiles[p].state
  PROVE  Dead(p)' <=> Dead(p)
BY FieldFacts DEF Dead

\* A step outside world_.Step() that moves no body.
LEMMA BodiesAtRest ==
  ASSUME TypeInv, BodyInv, [Next]_vars,
         UNCHANGED <<world, deadBodies>>,
         \A p \in Projectile : projectiles'[p].state = projectiles[p].state,
         phase' = phase \/ (phase # "contact" /\ phase' # "contact")
  PROVE  BodyInv'
<1>1. \A o \in Object : Dead(o) => Dead(o)'
  BY UnitsStayDead, SameProjectile DEF Object
<1>2. \A p \in Projectile : Dead(p)' <=> Dead(p)
  BY SameProjectile
<1>3. QueuedOnce'
  BY <1>1 DEF BodyInv, QueuedOnce
<1>4. LivingHaveBodies'
  BY <1>1 DEF BodyInv, LivingHaveBodies
<1>5. ExplodedAreQueued'
  <2> SUFFICES ASSUME NEW p \in Projectile \cap world, Dead(p)
               PROVE  phase' = "contact" /\ deadBodies[p] = 1
    BY <1>2 DEF ExplodedAreQueued
  <2>1. phase = "contact" /\ deadBodies[p] = 1
    BY DEF BodyInv, ExplodedAreQueued
  <2> QED BY <2>1
<1> QED BY <1>3, <1>4, <1>5 DEF BodyInv

\* One callback, or the loop before world_.Step(): O is queued, and it is the
\* living bodies that die (for projectiles, exactly those).
LEMMA BodiesQueued ==
  ASSUME TypeInv, BodyInv, [Next]_vars, NEW O, Queue(O), world' = world, phase' = "contact",
         \A o \in O : o \in world /\ deadBodies[o] = 0 /\ Dead(o)',
         \A p \in Projectile \ O : projectiles'[p].state = projectiles[p].state,
         phase # "contact" => \A o \in Object : deadBodies[o] = 0
  PROVE  BodyInv'
<1>1. deadBodies \in [Object -> Nat] /\ world \subseteq Object
  BY DEF TypeInv, TypeOK
<1>2. \A o \in Object : Dead(o) => Dead(o)'
  <2>1. \A p \in Projectile \ O : Dead(p)' <=> Dead(p)
    BY SameProjectile
  <2> QED BY <2>1, UnitsStayDead DEF Object
<1>3. \A o \in Object : deadBodies'[o] = IF o \in O THEN deadBodies[o] + 1 ELSE deadBodies[o]
  BY DEF Queue
<1>4. QueuedOnce'
  <2> SUFFICES ASSUME NEW o \in Object
               PROVE  \/ deadBodies'[o] = 0
                      \/ deadBodies'[o] = 1 /\ o \in world' /\ Dead(o)' /\ phase' = "contact"
    BY DEF QueuedOnce
  <2>1. CASE o \in O
    BY <1>3, <2>1
  <2>2. CASE o \notin O
    BY <1>2, <1>3, <2>2 DEF BodyInv, QueuedOnce
  <2> QED BY <2>1, <2>2
<1>5. LivingHaveBodies'
  BY <1>2 DEF BodyInv, LivingHaveBodies
<1>6. ExplodedAreQueued'
  <2> SUFFICES ASSUME NEW p \in Projectile \cap world, Dead(p)'
               PROVE  deadBodies'[p] = 1
    BY DEF ExplodedAreQueued
  <2>1. p \in Object
    BY DEF Object
  <2>2. CASE p \in O
    BY <1>3, <2>1, <2>2
  <2>3. CASE p \notin O
    <3>1. Dead(p)
      BY <2>3, SameProjectile
    <3>2. deadBodies[p] = 1
      BY <3>1 DEF BodyInv, ExplodedAreQueued
    <3> QED BY <1>3, <2>1, <2>3, <3>2
  <2> QED BY <2>2, <2>3
<1> QED BY <1>4, <1>5, <1>6 DEF BodyInv

LEMMA StillProjectiles ==
  ASSUME projectiles' = projectiles
  PROVE  \A p \in Projectile : projectiles'[p].state = projectiles[p].state
OBVIOUS

\* What Projectile::death(), with or without a blast, does to a projectile.
LEMMA ExplodedIsDead ==
  ASSUME TypeInv, NEW O \in SUBSET Projectile,
         \A p \in O : projectiles'[p] = Exploded(projectiles[p])
                      \/ projectiles'[p] = Fizzled(projectiles[p])
  PROVE  \A p \in O : Dead(p)'
<1> SUFFICES ASSUME NEW p \in O PROVE Dead(p)'
  OBVIOUS
<1>1. projectiles[p] \in ProjectileState
  BY DEF TypeInv, TypeOK
<1>2. projectiles'[p].state = "exploded"
  BY <1>1 DEF Exploded, Fizzled, ProjectileState
<1> QED BY <1>2 DEF Dead

\* The steps that move no body, queue none and explode nothing.
Quiet ==
  \/ Begin \/ EndTeamScan \/ EndScan \/ UNCHANGED vars
  \/ \E p \in Projectile : Detonate(p)
  \/ \E f \in Facility, s \in Ship : Recharge(f, s)
  \/ \E s \in Ship : LeaveField(s) \/ MoveOn(s)
  \/ \E s, t \in Ship : ShipsCrash(s, t)

LEMMA QuietBody ==
  ASSUME TypeInv, BodyInv, [Next]_vars, Quiet
  PROVE  BodyInv'
<1>1. UNCHANGED <<world, deadBodies>>
  BY DEF Quiet, Begin, EndTeamScan, EndScan, vars, Detonate, Recharge, LeaveField, MoveOn,
         MoveOff, ShipsCrash
<1>2. phase' = phase \/ (phase # "contact" /\ phase' # "contact")
  BY DEF Quiet, Begin, EndTeamScan, EndScan, vars, Detonate, Recharge, LeaveField, MoveOn,
         MoveOff, ShipsCrash
<1>3. \A p \in Projectile : projectiles'[p].state = projectiles[p].state
  <2>1. projectiles \in [Projectile -> ProjectileState]
    BY DEF TypeInv, TypeOK
  <2>2. CASE \E p \in Projectile : Detonate(p)
    BY <2>1, <2>2 DEF Detonate, ProjectileState
  <2>3. CASE projectiles' = projectiles
    BY <2>3
  <2> QED BY <2>2, <2>3 DEF Quiet, Begin, EndTeamScan, EndScan, vars, Recharge, LeaveField,
                            MoveOn, ShipsCrash
<1> QED BY <1>1, <1>2, <1>3, BodiesAtRest

\* A shot: its projectile flies and has a body.
LEMMA ShotBody ==
  ASSUME TypeInv, BodyInv, [Next]_vars, NEW s \in Ship, MoveAndShoot(s)
  PROVE  BodyInv'
<1>1. PICK p \in Projectile :
        /\ projectiles' = [projectiles EXCEPT ![p] = Fired] /\ world' = world \cup {p}
        /\ projectiles[p].state = "unfired"
  BY DEF MoveAndShoot, Unspent
<1>2. /\ phase = "move" /\ phase' = "move" /\ deadBodies' = deadBodies
      /\ projectiles \in [Projectile -> ProjectileState]
      /\ p \in Object /\ p \notin Ship \cup Facility
  BY <1>1, FieldFacts DEF MoveAndShoot, MoveOff, TypeInv, TypeOK, Object
<1>3. \A q \in Projectile \ {p} : Dead(q)' <=> Dead(q)
  BY <1>1, <1>2, SameProjectile
<1>4. Dead(p) /\ ~Dead(p)'
  BY <1>1, <1>2, FieldFacts DEF Dead, Fired
<1>5. \A o \in Object \ {p} : Dead(o) => Dead(o)'
  BY <1>3, UnitsStayDead DEF Object
<1>6. \A o \in Object : deadBodies[o] = 0
  BY <1>2 DEF BodyInv, QueuedOnce
<1>7. QueuedOnce'
  BY <1>2, <1>6 DEF QueuedOnce
<1>8. LivingHaveBodies'
  BY <1>1, <1>5 DEF BodyInv, LivingHaveBodies
<1>9. ExplodedAreQueued'
  BY <1>1, <1>2, <1>3, <1>4 DEF BodyInv, ExplodedAreQueued
<1> QED BY <1>7, <1>8, <1>9 DEF BodyInv

\* The loop before world_.Step() queues what starves or has flown its range.
LEMMA DriveBody ==
  ASSUME TypeInv, BodyInv, [Next]_vars, Drive
  PROVE  BodyInv'
<1> DEFINE starving == {s \in Ship \cap world : ships[s].fuel = 0}
<1>1. PICK expired \in SUBSET (Projectile \cap world) :
        /\ projectiles' = [p \in Projectile |->
             IF p \in expired THEN Exploded(projectiles[p]) ELSE projectiles[p]]
        /\ Queue(expired \cup (starving \ Dummy))
  BY DEF Drive, Queue
<1>2. phase = "move" /\ phase' = "contact" /\ world' = world /\ world \subseteq Object
  BY DEF Drive, TypeInv, TypeOK
<1>3. \A o \in Object : deadBodies[o] = 0
  BY <1>2 DEF BodyInv, QueuedOnce
<1>4. \A p \in expired : Dead(p)'
  BY <1>1, ExplodedIsDead
<1>5. \A s \in starving \ Dummy : Dead(s)'
  <2> SUFFICES ASSUME NEW s \in starving \ Dummy PROVE ships'[s].dead
    BY DEF Dead
  <2>1. ships[s] \in ShipState
    BY DEF TypeInv, TypeOK
  <2>2. ships'[s] = Starve(ships[s], FALSE)
    BY DEF Drive, Starve
  <2> QED BY <2>1, <2>2, StarveStrikes
<1>6. \A p \in Projectile \ (expired \cup (starving \ Dummy)) :
        projectiles'[p].state = projectiles[p].state
  BY <1>1
<1> QED BY <1>1, <1>2, <1>3, <1>4, <1>5, <1>6, BodiesQueued

\* A callback queues the living bodies that die in it.
LEMMA ContactBody ==
  ASSUME TypeInv, BodyInv, [Next]_vars, Contact
  PROVE  BodyInv'
<1>1. /\ ships \in [Ship -> ShipState] /\ bases \in [Facility -> BaseState]
      /\ projectiles \in [Projectile -> ProjectileState]
  BY DEF TypeInv, TypeOK
<1>2. \A o \in world : Touchable(o) => deadBodies[o] = 0
  BY DEF Touchable, BodyInv, QueuedOnce, TypeInv, TypeOK
<1>3. ASSUME NEW s \in Ship, WallHitsShip(s)
      PROVE  BodyInv'
  <2>1. /\ Touchable(s) /\ s \in world /\ phase = "contact" /\ phase' = phase
        /\ world' = world /\ Queue({s})
    BY <1>3 DEF WallHitsShip, Touchable
  <2>2. Dead(s)'
    BY <1>1, <1>3, KillStrikes DEF WallHitsShip, Dead
  <2>3. \A p \in Projectile : projectiles'[p].state = projectiles[p].state
    BY <1>1, <1>3 DEF WallHitsShip, ProjectileState
  <2> QED BY <1>2, <2>1, <2>2, <2>3, BodiesQueued
<1>4. ASSUME NEW f \in Facility, WallHitsBase(f)
      PROVE  BodyInv'
  <2>1. /\ Touchable(f) /\ f \in world /\ phase = "contact" /\ phase' = phase
        /\ world' = world /\ Queue({f}) /\ projectiles' = projectiles
    BY <1>4 DEF WallHitsBase, Touchable
  <2>2. Dead(f)'
    BY <1>1, <1>4, BaseDeathOK DEF WallHitsBase, Dead
  <2> QED BY <1>2, <2>1, <2>2, StillProjectiles, BodiesQueued
<1>5. ASSUME NEW p \in Projectile, WallHitsProjectile(p)
      PROVE  BodyInv'
  <2>1. /\ Touchable(p) /\ p \in world /\ phase = "contact" /\ phase' = phase
        /\ world' = world /\ Queue({p})
        /\ projectiles' = [projectiles EXCEPT ![p] = Fizzled(projectiles[p])]
    BY <1>5 DEF WallHitsProjectile, Touchable
  <2>2. \A q \in {p} : Dead(q)'
    BY <1>1, <2>1, ExplodedIsDead
  <2>3. \A q \in Projectile \ {p} : projectiles'[q].state = projectiles[q].state
    BY <1>1, <2>1
  <2> QED BY <1>2, <2>1, <2>2, <2>3, BodiesQueued
<1>6. ASSUME NEW p \in Projectile, NEW s \in Ship, ProjectileHitsShip(p, s)
      PROVE  BodyInv'
  <2> DEFINE O == {p} \cup (IF ships'[s].dead THEN {s} ELSE {})
  <2>1. /\ Touchable(p) /\ p \in world /\ Touchable(s) /\ s \in world
        /\ phase = "contact" /\ phase' = phase /\ world' = world /\ Queue(O)
        /\ projectiles' = [projectiles EXCEPT ![p] = Exploded(projectiles[p])]
    BY <1>6 DEF ProjectileHitsShip, Touchable
  <2>2. \A q \in {p} : Dead(q)'
    BY <1>1, <2>1, ExplodedIsDead
  <2>3. \A o \in O : Dead(o)'
    BY <2>2 DEF Dead
  <2>4. \A q \in Projectile \ O : projectiles'[q].state = projectiles[q].state
    BY <1>1, <2>1
  <2>5. \A o \in O : o \in world /\ deadBodies[o] = 0
    BY <1>2, <2>1
  <2> HIDE DEF O
  <2> QED BY <2>1, <2>3, <2>4, <2>5, BodiesQueued
<1>7. ASSUME NEW p \in Projectile, NEW f \in Facility, ProjectileHitsBase(p, f)
      PROVE  BodyInv'
  <2> DEFINE O == {p} \cup (IF bases'[f].dead THEN {f} ELSE {})
  <2>1. /\ Touchable(p) /\ p \in world /\ Touchable(f) /\ f \in world
        /\ phase = "contact" /\ phase' = phase /\ world' = world /\ Queue(O)
        /\ projectiles' = [projectiles EXCEPT ![p] = Exploded(projectiles[p])]
    BY <1>7 DEF ProjectileHitsBase, Touchable
  <2>2. \A q \in {p} : Dead(q)'
    BY <1>1, <2>1, ExplodedIsDead
  <2>3. \A o \in O : Dead(o)'
    BY <2>2 DEF Dead
  <2>4. \A q \in Projectile \ O : projectiles'[q].state = projectiles[q].state
    BY <1>1, <2>1
  <2>5. \A o \in O : o \in world /\ deadBodies[o] = 0
    BY <1>2, <2>1
  <2> HIDE DEF O
  <2> QED BY <2>1, <2>3, <2>4, <2>5, BodiesQueued
<1>8. ASSUME NEW f \in Facility, NEW g \in Facility, BasesCollide(f, g)
      PROVE  BodyInv'
  <2> DEFINE O == {b \in {f, g} : bases'[b].dead}
  <2>1. /\ Touchable(f) /\ f \in world /\ Touchable(g) /\ g \in world
        /\ phase = "contact" /\ phase' = phase /\ world' = world /\ Queue(O)
        /\ projectiles' = projectiles
    BY <1>8 DEF BasesCollide, Touchable
  <2>2. \A o \in O : o \in world /\ deadBodies[o] = 0 /\ Dead(o)'
    BY <1>2, <2>1 DEF Dead
  <2> HIDE DEF O
  <2> QED BY <2>1, <2>2, StillProjectiles, BodiesQueued
<1>9. CASE \E s, t \in Ship : ShipsCrash(s, t)
  BY <1>9, QuietBody DEF Quiet
<1> QED BY <1>3, <1>4, <1>5, <1>6, <1>7, <1>8, <1>9 DEF Contact

\* The queue is worked off: what stays has not been queued.
LEMMA EndStepBody ==
  ASSUME TypeInv, BodyInv, [Next]_vars, EndStep
  PROVE  BodyInv'
<1>1. /\ phase = "contact" /\ world' = {o \in world : deadBodies[o] = 0}
      /\ deadBodies' = [o \in Object |-> 0] /\ projectiles' = projectiles
      /\ phase' # "contact"
  BY DEF EndStep
<1>2. \A o \in Object : Dead(o)' <=> Dead(o)
  BY DEF EndStep, Dead
<1>3. QueuedOnce'
  BY <1>1 DEF QueuedOnce
<1>4. LivingHaveBodies'
  BY <1>1, <1>2 DEF BodyInv, LivingHaveBodies, QueuedOnce
<1>5. ExplodedAreQueued'
  BY <1>1, <1>2 DEF BodyInv, ExplodedAreQueued, Object
<1> QED BY <1>3, <1>4, <1>5 DEF BodyInv

LEMMA InitBody ==
  Init => BodyInv
<1> SUFFICES ASSUME Init PROVE BodyInv
  OBVIOUS
<1>1. \A p \in Projectile : p \notin world /\ Dead(p)
  BY FieldFacts DEF Init, Dead, Unfired
<1>2. \A o \in Object : deadBodies[o] = 0
  BY DEF Init
<1>3. world = Ship \cup Facility
  BY DEF Init
<1> QED BY <1>1, <1>2, <1>3 DEF BodyInv, QueuedOnce, LivingHaveBodies, ExplodedAreQueued, Object

LEMMA NextBody ==
  TypeInv /\ BodyInv /\ [Next]_vars => BodyInv'
BY QuietBody, ShotBody, DriveBody, ContactBody, EndStepBody DEF Next, Progress, Quiet

\* Bodies are queued once, when they are dead and in the world; what lives has
\* one, and an exploded projectile loses it in the tick.
THEOREM BodyInvariant == Spec => []BodyInv
BY InitBody, NextBody, TypeInvariant, PTL DEF Spec

\* Box2D is never asked to destroy a body twice, or one that is not in its
\* world: however callbacks interleave, an object is queued as it dies, once.
THEOREM BodiesDestroyedOnce == Spec => []NoDoubleDestroy
<1>1. BodyInv => NoDoubleDestroy
  BY DEF BodyInv, QueuedOnce, NoDoubleDestroy
<1> QED BY <1>1, BodyInvariant, PTL

\* Whatever is alive has its body in the world, and no projectile that has
\* exploded keeps one beyond world_.Step().
THEOREM LivingAreSimulated == Spec => []BodiesMatch
<1>1. TypeInv /\ BodyInv => BodiesMatch
  BY DEF BodyInv, LivingHaveBodies, ExplodedAreQueued, BodiesMatch, Dead, TypeInv, TypeOK
<1> QED BY <1>1, BodyInvariant, TypeInvariant, PTL

-----------------------------------------------------------------------------
(***************************************************************************)
(* Empty tanks.                                                            *)
(***************************************************************************)

\* What hits a ship either kills it or leaves its tank and engines alone.
Steady(x, y) == y.dead \/ (y.fuel = x.fuel /\ y.thrust = x.thrust)

LEMMA HitsAreSteady ==
  ASSUME NEW x \in ShipState
  PROVE  Steady(x, Damage(x)) /\ Steady(x, Crash(x)) /\ Steady(x, Kill(x))
<1>1. ASSUME NEW y \in ShipState
      PROVE  Steady(y, Damage(y))
  <2>1. Death(y).dead
    BY <1>1, DeathStrikes
  <2> QED BY <1>1, <2>1 DEF Damage, Steady, ShipState
<1>2. Steady(x, Crash(x))
  <2> DEFINE y == [x EXCEPT !.crashDamage = 0]
  <2>1. y \in ShipState /\ y.fuel = x.fuel /\ y.thrust = x.thrust
    BY LayoutFacts DEF ShipState
  <2>2. Steady(y, Damage(y))
    BY <1>1, <2>1
  <2> QED BY <2>1, <2>2 DEF Crash, Steady, ShipState
<1>3. Steady(x, Kill(x))
  BY KillStrikes DEF Steady
<1> QED BY <1>1, <1>2, <1>3

LEMMA ContactSteady ==
  ASSUME TypeInv, Contact
  PROVE  \A u \in Ship : Steady(ships[u], ships'[u])
<1>1. ships \in [Ship -> ShipState]
  BY DEF TypeInv, TypeOK
<1>2. \A u \in Ship : /\ Steady(ships[u], ships[u]) /\ Steady(ships[u], Damage(ships[u]))
                      /\ Steady(ships[u], Crash(ships[u])) /\ Steady(ships[u], Kill(ships[u]))
  BY <1>1, HitsAreSteady DEF Steady
<1>3. ASSUME NEW s \in Ship, WallHitsShip(s)
      PROVE  \A u \in Ship : Steady(ships[u], ships'[u])
  BY <1>1, <1>2, <1>3 DEF WallHitsShip
<1>4. ASSUME NEW p \in Projectile, NEW s \in Ship, ProjectileHitsShip(p, s)
      PROVE  \A u \in Ship : Steady(ships[u], ships'[u])
  <2> DEFINE hurt == [t \in Ship |-> IF t \in {s} THEN Damage(ships[t]) ELSE ships[t]]
  <2>1. \A u \in Ship : Steady(ships[u], hurt[u])
    BY <1>2
  <2>2. \A u \in Ship : hurt[u] \in ShipState
    BY <1>1, DamageStrikes DEF Struck, Marred
  <2>3. \A u \in Ship : /\ ships'[u].dead = hurt[u].dead /\ ships'[u].fuel = hurt[u].fuel
                        /\ ships'[u].thrust = hurt[u].thrust
    <3>1. \E a, b : ships' = [hurt EXCEPT ![Owner(p)] =
                      [hurt[Owner(p)] EXCEPT !.defensiveHits = a, !.kills = b]]
      BY <1>4 DEF ProjectileHitsShip, Impact
    <3> HIDE DEF hurt
    <3>2. PICK a, b : ships' = [hurt EXCEPT ![Owner(p)] =
                        [hurt[Owner(p)] EXCEPT !.defensiveHits = a, !.kills = b]]
      BY <3>1
    <3>3. DOMAIN hurt = Ship
      BY DEF hurt
    <3> QED BY <2>2, <3>2, <3>3, OwnerType DEF ShipState
  <2> QED BY <2>1, <2>3 DEF Steady
<1>5. ASSUME NEW p \in Projectile, NEW f \in Facility, ProjectileHitsBase(p, f)
      PROVE  \A u \in Ship : Steady(ships[u], ships'[u])
  BY <1>1, <1>5, OwnerType DEF ProjectileHitsBase, Steady, ShipState
<1>6. ASSUME NEW s \in Ship, NEW t \in Ship, ShipsCrash(s, t)
      PROVE  \A u \in Ship : Steady(ships[u], ships'[u])
  BY <1>1, <1>2, <1>6 DEF ShipsCrash
<1>7. CASE ships' = ships
  BY <1>2, <1>7
<1> QED BY <1>3, <1>4, <1>5, <1>6, <1>7 DEF Contact, WallHitsBase, WallHitsProjectile, BasesCollide

LEMMA NextTanks ==
  ASSUME TypeInv, BodyInv, EmptyTanksKill, [Next]_vars
  PROVE  EmptyTanksKill'
<1> SUFFICES ASSUME phase' = "contact", NEW s \in Ship \ Dummy,
                    ~ships'[s].dead, ships'[s].fuel = 0
             PROVE  ships'[s].thrust > 0
  BY DEF EmptyTanksKill
<1>1. ships[s] \in ShipState /\ ~ships[s].dead
  <2>1. ships[s].dead => ships'[s].dead
    BY UnitsStayDead, FieldFacts DEF Dead
  <2> QED BY <2>1 DEF TypeInv, TypeOK
<1>2. s \in world
  BY <1>1, FieldFacts DEF BodyInv, LivingHaveBodies, Dead, Object
<1>3. CASE Drive
  <2>1. ships'[s] = IF ships[s].fuel = 0 THEN Starve(ships[s], FALSE) ELSE Burn(ships[s])
    BY <1>2, <1>3 DEF Drive, Starve
  <2>2. ships[s].fuel # 0
    BY <1>1, <2>1, StarveStrikes
  <2>3. ships[s].fuel \in Nat /\ ships[s].thrust \in Nat
    BY <1>1, LayoutFacts DEF ShipState
  <2>4. ships[s].thrust > 0
    BY <1>1, <2>1, <2>2, <2>3 DEF Burn, ShipState
  <2> QED BY <1>1, <2>1, <2>2, <2>4, BurnStrikes
<1>4. CASE Contact
  <2>1. phase = "contact"
    BY <1>4 DEF Contact, WallHitsShip, WallHitsBase, WallHitsProjectile, ProjectileHitsShip,
                ProjectileHitsBase, BasesCollide, ShipsCrash, Touchable
  <2>2. Steady(ships[s], ships'[s])
    BY <1>4, ContactSteady
  <2> QED BY <1>1, <2>1, <2>2 DEF Steady, EmptyTanksKill
<1>5. CASE UNCHANGED vars
  BY <1>5 DEF vars, EmptyTanksKill
<1>6. CASE \/ Begin \/ EndTeamScan \/ EndScan \/ EndStep
           \/ \E p \in Projectile : Detonate(p)
           \/ \E f \in Facility, t \in Ship : Recharge(f, t)
           \/ \E t \in Ship : LeaveField(t) \/ MoveOn(t) \/ MoveAndShoot(t)
  BY <1>6 DEF Begin, EndTeamScan, EndScan, EndStep, Detonate, Recharge, LeaveField, MoveOn,
              MoveAndShoot, MoveOff
<1> QED BY <1>3, <1>4, <1>5, <1>6 DEF Next, Progress

\* No ship but a dummy starts a tick's physics with an empty tank and lives:
\* a living ship without fuel has burned the last of it in this tick.
THEOREM NobodyFliesEmpty == Spec => []EmptyTanksKill
<1>1. Init => EmptyTanksKill
  BY DEF Init, EmptyTanksKill
<1> QED BY <1>1, NextTanks, TypeInvariant, BodyInvariant, PTL DEF Spec

-----------------------------------------------------------------------------
(***************************************************************************)
(* Scores: a step credits nobody, or one ship with a blast or direct hit.  *)
(***************************************************************************)
\* Nobody is credited with a kill or a hit; a ship that a wall kills loses hits.
ScoresKept ==
  \A s \in Ship : /\ ships'[s].kills = ships[s].kills
                  /\ ships'[s].defensiveHits =< ships[s].defensiveHits

\* Ship o is credited with the kill of the ships of credited, all of them
\* enemies that die in the step, and with hits on ships of hit.
Credited(o, credited, hit) ==
  /\ credited \subseteq {s \in Ship : ~ships[s].dead /\ ships'[s].dead /\ TeamOf[s] # TeamOf[o]}
  /\ \A s \in Ship \ {o} : /\ ships'[s].kills = ships[s].kills
                           /\ ships'[s].defensiveHits =< ships[s].defensiveHits
  /\ ships'[o].kills = ships[o].kills + Cardinality(credited)
  /\ ships'[o].defensiveHits =< ships[o].defensiveHits + Cardinality(hit)

\* Impact credits the owner with the enemies that were alive and die of it.
LEMMA ImpactCredits ==
  ASSUME TypeInv, NEW fleet \in [Ship -> ShipState],
         \A s \in Ship : Struck(ships[s], fleet[s]) /\ fleet[s].dead = ships[s].dead,
         NEW p \in Projectile, NEW hit \in SUBSET Living, ships' = Impact(fleet, p, hit)
  PROVE  \E credited : Credited(Owner(p), credited, hit)
<1> DEFINE o == Owner(p)
           hurt == [s \in Ship |-> IF s \in hit THEN Damage(fleet[s]) ELSE fleet[s]]
           foes == {t \in hit : Enemies(t, o)}
           credited == {s \in foes : hurt[s].dead}
<1>1. o \in Ship /\ hit \subseteq Ship
  BY OwnerType DEF Living
<1>2. \A s \in Ship : /\ hurt[s] \in ShipState /\ hurt[s].kills = ships[s].kills
                      /\ hurt[s].defensiveHits =< ships[s].defensiveHits
  BY DamageStrikes, MarredOrder DEF Struck, Marred
<1>3. ships' = [hurt EXCEPT ![o] = [hurt[o] EXCEPT
                 !.defensiveHits = hurt[o].defensiveHits + Cardinality(foes),
                 !.kills = hurt[o].kills + Cardinality(credited)]]
  BY DEF Impact
<1> HIDE DEF hurt, o
<1>4. DOMAIN hurt = Ship
  BY DEF hurt
<1>5. \A s \in Ship : ships'[s].dead = hurt[s].dead
  BY <1>1, <1>2, <1>3, <1>4 DEF ShipState
<1>6. \A s \in Ship \ {o} : /\ ships'[s].kills = ships[s].kills
                            /\ ships'[s].defensiveHits =< ships[s].defensiveHits
  BY <1>1, <1>2, <1>3, <1>4
<1>7. /\ ships'[o].kills = ships[o].kills + Cardinality(credited)
      /\ ships'[o].defensiveHits = hurt[o].defensiveHits + Cardinality(foes)
  BY <1>1, <1>2, <1>3, <1>4 DEF ShipState
<1>8. credited \subseteq {s \in Ship : /\ ~ships[s].dead /\ ships'[s].dead
                                       /\ TeamOf[s] # TeamOf[o]}
  BY <1>1, <1>5 DEF Living, Enemies
<1>9. ships'[o].defensiveHits =< ships[o].defensiveHits + Cardinality(hit)
  <2>1. IsFiniteSet(hit) /\ foes \subseteq hit
    BY <1>1, FieldFacts, FS_Subset
  <2> HIDE DEF foes
  <2>2. PICK m \in Nat : m = Cardinality(foes)
    BY <2>1, FS_Subset, FS_CardinalityType
  <2>3. PICK n \in Nat : n = Cardinality(hit)
    BY <2>1, FS_CardinalityType
  <2>4. m =< n
    BY <2>1, <2>2, <2>3, FS_Subset
  <2>5. hurt[o].defensiveHits \in Nat /\ ships[o].defensiveHits \in Nat
    BY <1>1, <1>2 DEF TypeInv, TypeOK, ShipState
  <2>6. hurt[o].defensiveHits =< ships[o].defensiveHits
    BY <1>1, <1>2
  <2> QED BY <1>7, <2>2, <2>3, <2>4, <2>5, <2>6
<1> HIDE DEF credited
<1>10. Credited(o, credited, hit)
  BY <1>6, <1>7, <1>8, <1>9 DEF Credited
<1> QED BY <1>10 DEF o

LEMMA DetonateCredits ==
  ASSUME TypeInv, NEW p \in Projectile, Detonate(p)
  PROVE  \E hit \in SUBSET Ship : \E credited :
           Cardinality(hit) =< MaxCollateral /\ Credited(Owner(p), credited, hit)
<1>1. PICK hit \in SUBSET Living :
        ships' = Impact(StunAll(hit), p, hit) /\ Cardinality(hit) =< MaxCollateral
  BY DEF Detonate, Collateral
<1>2. \A s \in Ship : ships[s] \in ShipState
  BY DEF TypeInv, TypeOK
<1>3. \A s \in Ship : Struck(ships[s], StunAll(hit)[s]) /\ StunAll(hit)[s].dead = ships[s].dead
  BY <1>1, <1>2, StunStrikes, MarredOrder DEF StunAll, Living
<1>4. StunAll(hit) \in [Ship -> ShipState]
  BY <1>3 DEF StunAll, Struck, Marred
<1>5. \E credited : Credited(Owner(p), credited, hit)
  BY <1>1, <1>3, <1>4, ImpactCredits
<1>6. hit \in SUBSET Ship
  BY DEF Living
<1> QED BY <1>1, <1>5, <1>6

LEMMA DirectHitCredits ==
  ASSUME TypeInv, NEW p \in Projectile, NEW s \in Ship, ProjectileHitsShip(p, s)
  PROVE  \E credited : Credited(Owner(p), credited, {s})
<1>1. ships' = Impact(ships, p, {s}) /\ ~Dead(s)
  BY DEF ProjectileHitsShip, Touchable
<1>2. {s} \in SUBSET Living
  BY <1>1 DEF Living, Dead
<1>3. ships \in [Ship -> ShipState]
  BY DEF TypeInv, TypeOK
<1>4. \A t \in Ship : Struck(ships[t], ships[t])
  BY <1>3, MarredOrder
<1> QED BY <1>1, <1>2, <1>3, <1>4, ImpactCredits

\* A callback other than a direct hit leaves the scores alone.
LEMMA ContactKeepsScores ==
  ASSUME TypeInv, Contact
  PROVE  ScoresKept \/ \E p \in Projectile, s \in Ship : ProjectileHitsShip(p, s)
<1>1. ships \in [Ship -> ShipState] /\ bases \in [Facility -> BaseState]
  BY DEF TypeInv, TypeOK
<1>2. \A u \in Ship : ships[u] \in ShipState /\ ships[u].defensiveHits =< ships[u].defensiveHits
  BY <1>1 DEF ShipState
<1>3. ASSUME NEW s \in Ship, WallHitsShip(s)
      PROVE  ScoresKept
  BY <1>1, <1>2, <1>3, KillStrikes DEF WallHitsShip, Struck, ScoresKept
<1>4. ASSUME NEW p \in Projectile, NEW f \in Facility, ProjectileHitsBase(p, f)
      PROVE  ScoresKept
  <2>1. ~bases[f].dead
    BY <1>4 DEF ProjectileHitsBase, Touchable, Dead
  <2>2. ships' = [ships EXCEPT ![Owner(p)] =
                    [ships[Owner(p)] EXCEPT !.kills = ships[Owner(p)].kills]]
    BY <1>4, <2>1 DEF ProjectileHitsBase
  <2>3. [ships[Owner(p)] EXCEPT !.kills = ships[Owner(p)].kills] = ships[Owner(p)]
    BY <1>2, OwnerType DEF ShipState
  <2>4. ships' = ships
    BY <1>1, <2>2, <2>3, OwnerType
  <2> QED BY <1>2, <2>4 DEF ScoresKept
<1>5. ASSUME NEW s \in Ship, NEW t \in Ship, ShipsCrash(s, t)
      PROVE  ScoresKept
  <2>1. \A u \in Ship : /\ Crash(ships[u]).kills = ships[u].kills
                        /\ Crash(ships[u]).defensiveHits =< ships[u].defensiveHits
    BY <1>1, CrashStrikes DEF Struck
  <2>2. \A u \in Ship : ships'[u] \in {ships[u], Crash(ships[u])}
    BY <1>1, <1>5 DEF ShipsCrash
  <2> QED BY <1>2, <2>1, <2>2 DEF ScoresKept
<1>6. ASSUME ships' = ships
      PROVE  ScoresKept
  BY <1>2, <1>6 DEF ScoresKept
<1> QED BY <1>3, <1>4, <1>5, <1>6 DEF Contact, WallHitsBase, WallHitsProjectile, BasesCollide

LEMMA MoveKeepsScores ==
  ASSUME TypeInv, NEW s \in Ship, LeaveField(s) \/ MoveOn(s) \/ MoveAndShoot(s)
  PROVE  ScoresKept
<1>1. ships \in [Ship -> ShipState] /\ ~ships[s].dead /\ ships[s] \in ShipState /\ AimOK(ships[s])
  BY DEF TypeInv, TypeOK, AimsHold, MoversLive, LeaveField, MoveOn, MoveAndShoot
<1>2. \A o \in Orders : /\ Moved(s, o) \in ShipState
                        /\ Moved(s, o).kills = ships[s].kills
                        /\ Moved(s, o).defensiveHits = ships[s].defensiveHits
  BY <1>1, MoveOK DEF Moved
<1>3. ASSUME NEW x \in ShipState
      PROVE  /\ Shoot(x).kills = x.kills /\ Shoot(x).defensiveHits = x.defensiveHits
             /\ [x EXCEPT !.dead = TRUE].kills = x.kills
             /\ [x EXCEPT !.dead = TRUE].defensiveHits = x.defensiveHits
  BY DEF Shoot, ShipState
<1>4. \E o \in Orders :
        \/ ships' = [ships EXCEPT ![s] = [Moved(s, o) EXCEPT !.dead = TRUE]]
        \/ ships' = [ships EXCEPT ![s] = Moved(s, o)]
        \/ ships' = [ships EXCEPT ![s] = Shoot(Moved(s, o))]
  BY DEF LeaveField, MoveOn, MoveAndShoot, OrdersFor
<1>5. PICK o \in Orders :
        \/ ships' = [ships EXCEPT ![s] = [Moved(s, o) EXCEPT !.dead = TRUE]]
        \/ ships' = [ships EXCEPT ![s] = Moved(s, o)]
        \/ ships' = [ships EXCEPT ![s] = Shoot(Moved(s, o))]
  BY <1>4
<1>6. /\ ships'[s].kills = ships[s].kills
      /\ ships'[s].defensiveHits = ships[s].defensiveHits
  <2> DEFINE x == Moved(s, o)
  <2>1. ships'[s] \in {[x EXCEPT !.dead = TRUE], x, Shoot(x)}
    BY <1>1, <1>5
  <2>2. x \in ShipState /\ x.kills = ships[s].kills /\ x.defensiveHits = ships[s].defensiveHits
    BY <1>2
  <2> HIDE DEF x
  <2> QED BY <1>3, <2>1, <2>2
<1>7. \A t \in Ship \ {s} : ships'[t] = ships[t]
  BY <1>1, <1>5
<1>8. \A t \in Ship : ships[t].defensiveHits =< ships[t].defensiveHits
  BY <1>1 DEF ShipState
<1> QED BY <1>6, <1>7, <1>8 DEF ScoresKept

LEMMA DriveKeepsScores ==
  ASSUME TypeInv, Drive
  PROVE  ScoresKept
<1> SUFFICES ASSUME NEW s \in Ship
             PROVE  /\ ships'[s].kills = ships[s].kills
                    /\ ships'[s].defensiveHits =< ships[s].defensiveHits
  BY DEF ScoresKept
<1>1. ships[s] \in ShipState
  BY DEF TypeInv, TypeOK
<1>2. ships'[s] \in {ships[s], Burn(ships[s]), Starve(ships[s], TRUE), Starve(ships[s], FALSE)}
  BY DEF Drive, Starve
<1>3. \A y \in {ships[s], Burn(ships[s]), Starve(ships[s], TRUE), Starve(ships[s], FALSE)} :
        Struck(ships[s], y)
  BY <1>1, BurnStrikes, StarveStrikes, MarredOrder
<1> QED BY <1>2, <1>3 DEF Struck

\* Every step keeps the scores, is a blast or is a direct hit.
LEMMA ScoreStep ==
  ASSUME TypeInv, [Next]_vars
  PROVE  \/ ScoresKept
         \/ \E p \in Projectile : Detonate(p)
         \/ \E p \in Projectile, s \in Ship : ProjectileHitsShip(p, s)
<1>1. ships \in [Ship -> ShipState]
  BY DEF TypeInv, TypeOK
<1>2. ASSUME ships' = ships
      PROVE  ScoresKept
  BY <1>1, <1>2 DEF ScoresKept, ShipState
<1>3. ASSUME NEW f \in Facility, NEW s \in Ship, Recharge(f, s)
      PROVE  ScoresKept
  <2>1. \A u \in Ship : ships'[u] \in {ships[u], Refill(ships[u])}
    BY <1>1, <1>3 DEF Recharge
  <2>2. \A u \in Ship : /\ ships[u].defensiveHits =< ships[u].defensiveHits
                        /\ Refill(ships[u]).kills = ships[u].kills
                        /\ Refill(ships[u]).defensiveHits = ships[u].defensiveHits
    BY <1>1, RefillOK DEF ShipState
  <2> QED BY <2>1, <2>2 DEF ScoresKept
<1> QED BY <1>2, <1>3, ContactKeepsScores, MoveKeepsScores, DriveKeepsScores
        DEF Next, Progress, Begin, EndTeamScan, EndScan, EndStep, vars

-----------------------------------------------------------------------------
(***************************************************************************)
(* Battle implements Contest: every step of a tick lets units fall and     *)
(* credits at most one ship with some of the enemies among them, ends the  *)
(* battle, or is invisible.                                                *)
(***************************************************************************)
LivingUnits == {o \in Ship \cup Facility : ~Dead(o)}

\* Scores kept: the units that die in the step perish.
LEMMA PerishStep ==
  ASSUME TypeInv, [Next]_vars, phase # "over", phase' # "over", ScoresKept
  PROVE  Outcome!Next
<1> DEFINE fallen == LivingUnits \ LivingUnits'
<1>1. LivingUnits' = LivingUnits \ fallen
  BY UnitsStayDead DEF LivingUnits
<1>2. [s \in Ship |-> ships[s].kills]' = [s \in Ship |-> ships[s].kills]
  BY DEF ScoresKept
<1>3. Outcome!Perish(fallen)
  BY <1>1, <1>2 DEF Outcome!Perish, LivingUnits
<1>4. fallen \in SUBSET LivingUnits
  OBVIOUS
<1> HIDE DEF fallen
<1> QED BY <1>3, <1>4 DEF Outcome!Next, LivingUnits

\* One ship's kills grow by enemy ships that die in the step.
LEMMA FallStep ==
  ASSUME TypeInv, [Next]_vars, phase # "over", phase' # "over",
         NEW killer \in Ship, NEW credited, NEW hit, Credited(killer, credited, hit)
  PROVE  Outcome!Next
<1> DEFINE fallen == LivingUnits \ LivingUnits'
           kills == [s \in Ship |-> ships[s].kills]
<1>1. LivingUnits' = LivingUnits \ fallen
  BY UnitsStayDead DEF LivingUnits
<1>2. kills' = [kills EXCEPT ![killer] = kills[killer] + Cardinality(credited)]
  BY DEF Credited
<1>0. Cardinality(credited) = Outcome!Cardinality(credited)
  BY DEF Cardinality, Outcome!Cardinality
<1>3. Outcome!Fall(fallen, killer, credited)
  BY <1>0, <1>1, <1>2 DEF Outcome!Fall, LivingUnits
<1>4. fallen \in SUBSET LivingUnits
  OBVIOUS
<1>5. credited \in SUBSET {s \in fallen \cap Ship : TeamOf[s] # TeamOf[killer]}
  BY FieldFacts DEF LivingUnits, Dead, Credited
<1> HIDE DEF fallen, kills
<1> QED BY <1>3, <1>4, <1>5 DEF Outcome!Next, LivingUnits

\* Ending changes no unit.
LEMMA EndingStep ==
  ASSUME phase # "over", UNCHANGED <<ships, bases, projectiles>>
  PROVE  [Outcome!Next]_(Outcome!contestVars)
<1>1. LivingUnits' = LivingUnits
  BY DEF LivingUnits, Dead
<1>2. CASE phase' = "over"
  BY <1>1, <1>2 DEF Outcome!Next, Outcome!End, LivingUnits
<1>3. CASE phase' # "over"
  BY <1>1, <1>3 DEF Outcome!contestVars, LivingUnits
<1> QED BY <1>2, <1>3

LEMMA StepFalls ==
  ASSUME TypeInv, [Next]_vars
  PROVE  [Outcome!Next]_(Outcome!contestVars)
<1>1. ASSUME NEW p \in Projectile, Detonate(p)
      PROVE  Outcome!Next
  <2>1. phase # "over" /\ phase' # "over"
    BY <1>1 DEF Detonate
  <2> QED BY <1>1, <2>1, DetonateCredits, OwnerType, FallStep
<1>2. ASSUME NEW p \in Projectile, NEW s \in Ship, ProjectileHitsShip(p, s)
      PROVE  Outcome!Next
  <2>1. phase # "over" /\ phase' # "over"
    BY <1>2 DEF ProjectileHitsShip, Touchable
  <2> QED BY <1>2, <2>1, DirectHitCredits, OwnerType, FallStep
<1>3. CASE Begin \/ EndTeamScan \/ EndScan \/ EndStep
  BY <1>3, EndingStep DEF Begin, EndTeamScan, EndScan, EndStep
<1>4. CASE UNCHANGED vars
  <2>1. UNCHANGED <<phase, ships, bases, projectiles>>
    BY <1>4 DEF vars
  <2>2. LivingUnits' = LivingUnits
    BY <2>1 DEF LivingUnits, Dead
  <2> QED BY <2>1, <2>2 DEF Outcome!contestVars, LivingUnits
<1>5. CASE \/ \E f \in Facility, s \in Ship : Recharge(f, s)
           \/ \E s \in Ship : LeaveField(s) \/ MoveOn(s) \/ MoveAndShoot(s)
           \/ Drive \/ Contact
  <2>1. phase # "over" /\ phase' # "over"
    BY <1>5 DEF Recharge, LeaveField, MoveOn, MoveAndShoot, MoveOff, Drive, Contact,
                WallHitsShip, WallHitsBase, WallHitsProjectile, ProjectileHitsShip,
                ProjectileHitsBase, BasesCollide, ShipsCrash, Touchable
  <2>2. CASE ScoresKept
    BY <2>1, <2>2, PerishStep
  <2> QED BY <2>2, <1>1, <1>2, ScoreStep
<1> QED BY <1>1, <1>2, <1>3, <1>4, <1>5 DEF Next, Progress

LEMMA InitFalls ==
  ASSUME Init
  PROVE  Outcome!Init
<1>1. \A s \in Ship : ~ships[s].dead /\ ships[s].kills = 0
  BY DEF Init, FreshShip
<1>2. \A f \in Facility : ~bases[f].dead
  BY DEF Init, FreshBase
<1>3. \A o \in Ship \cup Facility : ~Dead(o)
  BY <1>1, <1>2, FieldFacts DEF Dead
<1>4. phase # "over"
  BY DEF Init
<1> QED BY <1>1, <1>3, <1>4 DEF Outcome!Init

\* The detailed tick keeps the promise of Contest: in a battle units only
\* fall, and no enemy ship's fall is credited to two ships or twice.
THEOREM BattleIsContest == Spec => ContestSpec
<1>1. Init => Outcome!Init
  BY InitFalls
<1>2. TypeInv /\ [Next]_vars => [Outcome!Next]_(Outcome!contestVars)
  BY StepFalls
<1> QED BY <1>1, <1>2, TypeInvariant, PTL DEF Spec, ContestSpec, Outcome!Spec

-----------------------------------------------------------------------------
(***************************************************************************)
(* Scores.                                                                 *)
(***************************************************************************)
DeadOf(t) == {s \in ShipsOf(t) : ships[s].dead}

LEMMA DeadAreFinite ==
  ASSUME NEW t
  PROVE  IsFiniteSet(DeadOf(t)) /\ IsFiniteSet(DeadOf(t)') /\ IsFiniteSet(ShipsOf(t))
BY FieldFacts, FS_Subset DEF DeadOf, ShipsOf

\* The kills of a team grow by no more than the enemies that fall in the step.
LEMMA KillsStep ==
  ASSUME TypeInv, TypeInv', KillsJustified, [Next]_vars
  PROVE  KillsJustified'
<1> SUFFICES ASSUME NEW t \in Team
             PROVE  KillsOf(t)' =< Cardinality(DeadOf(1 - t)')
  BY DEF KillsJustified, DeadOf, ShipsOf
<1> DEFINE K == [s \in Ship |-> ships[s].kills]
           L == [s \in Ship |-> ships'[s].kills]
           enemy == 1 - t
<1>1. /\ ships \in [Ship -> ShipState] /\ ships' \in [Ship -> ShipState]
      /\ TeamOf \in [Ship \cup Facility -> Team]
  BY FieldAssumption DEF TypeInv, TypeOK
<1>2. \A s \in ShipsOf(t) : K[s] \in Int /\ L[s] \in Int
  BY <1>1 DEF ShipsOf, ShipState
<1>3. KillsOf(t) = SumFunctionOnSet(K, ShipsOf(t))
  BY DEF KillsOf
<1>4. KillsOf(t)' = SumFunctionOnSet(L, ShipsOf(t))
  BY DEF KillsOf, ShipsOf
<1>5. KillsOf(t) =< Cardinality(DeadOf(enemy))
  BY DEF KillsJustified, DeadOf
<1>6. KillsOf(t) \in Int
  BY <1>2, <1>3, DeadAreFinite, SumType
<1> HIDE DEF K, L
<1>7. DeadOf(enemy) \subseteq DeadOf(enemy)'
  BY UnitsStayDead, FieldFacts DEF DeadOf, ShipsOf, Dead
<1>8. PICK m \in Nat : m = Cardinality(DeadOf(enemy))
  BY DeadAreFinite, FS_CardinalityType
<1>9. PICK n \in Nat : n = Cardinality(DeadOf(enemy)')
  BY DeadAreFinite, FS_CardinalityType
<1>10. m =< n
  BY <1>7, <1>8, <1>9, DeadAreFinite, FS_Subset
<1>11. CASE \A s \in ShipsOf(t) : L[s] = K[s]
  <2>1. KillsOf(t)' = KillsOf(t)
    BY <1>3, <1>4, <1>11, DeadAreFinite, SumSame
  <2> QED BY <1>5, <1>6, <1>8, <1>9, <1>10, <2>1
<1>12. ASSUME NEW killer \in Ship, NEW credited, NEW hit, Credited(killer, credited, hit)
       PROVE  KillsOf(t)' =< Cardinality(DeadOf(enemy)')
  <2>1. CASE killer \notin ShipsOf(t)
    <3>1. \A s \in ShipsOf(t) : L[s] = K[s]
      BY <1>12, <2>1 DEF Credited, K, L, ShipsOf
    <3> QED BY <1>11, <3>1
  <2>2. CASE killer \in ShipsOf(t)
    <3>0. credited \subseteq Ship
      BY <1>12 DEF Credited
    <3>1. PICK c \in Nat : c = Cardinality(credited)
      BY <3>0, FieldFacts, FS_Subset, FS_CardinalityType
    <3>2. \A s \in ShipsOf(t) \ {killer} : K[s] = L[s]
      BY <1>12 DEF Credited, K, L, ShipsOf
    <3>3. L[killer] = K[killer] + c /\ K[killer] \in Int
      BY <1>2, <1>12, <2>2, <3>1 DEF Credited, K, L, ShipsOf
    <3>4. KillsOf(t)' = (KillsOf(t) - K[killer]) + L[killer]
      BY <1>2, <1>3, <1>4, <2>2, <3>2, DeadAreFinite, SumChange
    <3>5. credited \cap DeadOf(enemy) = {} /\ credited \cup DeadOf(enemy) \subseteq DeadOf(enemy)'
      BY <1>1, <1>7, <1>12, <2>2 DEF Credited, DeadOf, ShipsOf, Team
    <3>6. IsFiniteSet(credited) /\ IsFiniteSet(credited \cup DeadOf(enemy))
      BY <3>0, <3>5, FieldFacts, DeadAreFinite, FS_Subset
    <3>7. Cardinality(credited \cup DeadOf(enemy)) = c + m
      <4>1. Cardinality(credited \cup DeadOf(enemy))
              = Cardinality(credited) + Cardinality(DeadOf(enemy))
                - Cardinality(credited \cap DeadOf(enemy))
        BY <3>6, DeadAreFinite, FS_Union
      <4>2. Cardinality(credited \cap DeadOf(enemy)) = 0
        BY <3>5, FS_EmptySet
      <4> QED BY <1>8, <3>1, <4>1, <4>2
    <3>8. c + m =< n
      BY <1>9, <3>5, <3>7, DeadAreFinite, FS_Subset
    <3> QED BY <1>5, <1>6, <1>8, <1>9, <3>3, <3>4, <3>8
  <2> QED BY <2>1, <2>2
<1>13. CASE ScoresKept
  BY <1>11, <1>13 DEF ScoresKept, K, L, ShipsOf
<1>14. ASSUME NEW p \in Projectile, Detonate(p)
       PROVE  KillsOf(t)' =< Cardinality(DeadOf(enemy)')
  BY <1>12, <1>14, DetonateCredits, OwnerType
<1>15. ASSUME NEW p \in Projectile, NEW s \in Ship, ProjectileHitsShip(p, s)
       PROVE  KillsOf(t)' =< Cardinality(DeadOf(enemy)')
  BY <1>12, <1>15, DirectHitCredits, OwnerType
<1> QED BY <1>13, <1>14, <1>15, ScoreStep

LEMMA InitKills ==
  Init => KillsJustified
<1> SUFFICES ASSUME Init, NEW t \in Team
             PROVE  KillsOf(t) =< Cardinality(DeadOf(1 - t))
  BY DEF KillsJustified, DeadOf
<1>1. \A s \in ShipsOf(t) : [s_1 \in Ship |-> ships[s_1].kills][s] = 0
  BY DEF Init, FreshShip, ShipsOf
<1>2. KillsOf(t) = 0
  BY <1>1, DeadAreFinite, SumZero DEF KillsOf
<1> QED BY <1>2, DeadAreFinite, FS_CardinalityType

\* No victim counts twice: however direct hits, blasts, walls and crashes
\* interleave, a team's kills never exceed the ships the other team has lost.
THEOREM KillsAreJustified == Spec => []KillsJustified
<1>1. TypeInv /\ TypeInv' /\ KillsJustified /\ [Next]_vars => KillsJustified'
  BY KillsStep
<1> QED BY <1>1, InitKills, TypeInvariant, PTL DEF Spec

-----------------------------------------------------------------------------
(***************************************************************************)
(* Hits.  A projectile pays for its owner's hits twice: as it explodes on  *)
(* a ship, and as its blast is spent.                                      *)
(***************************************************************************)
BlastsExploded ==
  \A p \in Projectile : projectiles[p].blast # "none" => projectiles[p].state = "exploded"

HitsInv == BlastsExploded /\ HitsPerShot

LEMMA ProjectilesFinite ==
  /\ IsFiniteSet(Projectile)
  /\ \A S \in SUBSET Projectile : IsFiniteSet(S) /\ Cardinality(S) \in Nat
<1>1. IsFiniteSet(1..MaxShots)
  BY FieldAssumption, FS_Interval
<1>2. IsFiniteSet(Projectile)
  BY <1>1, FieldFacts, FS_Product DEF Projectile
<1> QED BY <1>2, FS_Subset, FS_CardinalityType

\* A blast does not come back.
BlastsLast ==
  \A p \in Projectile :
    /\ projectiles[p].blast # "none" => projectiles'[p].blast # "none"
    /\ projectiles[p].blast = "spent" => projectiles'[p].blast = "spent"

LEMMA BlastStep ==
  ASSUME TypeInv, BodyInv, BlastsExploded, [Next]_vars
  PROVE  BlastsExploded' /\ BlastsLast
<1> USE DEF BlastsExploded, BlastsLast
<1>1. projectiles \in [Projectile -> ProjectileState]
  BY DEF TypeInv, TypeOK
<1>2. ASSUME NEW p \in Projectile, Detonate(p)
      PROVE  BlastsExploded' /\ BlastsLast
  BY <1>1, <1>2 DEF Detonate, Ready, ProjectileState
<1>3. ASSUME NEW s \in Ship, MoveAndShoot(s)
      PROVE  BlastsExploded' /\ BlastsLast
  <2>1. PICK p \in Projectile :
          projectiles' = [projectiles EXCEPT ![p] = Fired] /\ projectiles[p].state = "unfired"
    BY <1>3 DEF MoveAndShoot, Unspent
  <2> QED BY <1>1, <2>1 DEF Fired
\* What flies has no blast yet.
<1>4. ASSUME NEW O \in SUBSET Projectile, \A p \in O : ~Dead(p),
             \A p \in O : \/ projectiles'[p] = Exploded(projectiles[p])
                          \/ projectiles'[p] = Fizzled(projectiles[p]),
             \A p \in Projectile \ O : projectiles'[p] = projectiles[p]
      PROVE  BlastsExploded' /\ BlastsLast
  <2>1. \A p \in O : projectiles[p].state = "flying" /\ projectiles[p].blast = "none"
    BY <1>4 DEF Dead
  <2>2. \A p \in O : projectiles'[p].state = "exploded"
    BY <1>1, <1>4 DEF Exploded, Fizzled, ProjectileState
  <2> QED BY <1>4, <2>1, <2>2
<1>5. CASE Drive
  <2>1. PICK expired \in SUBSET (Projectile \cap world) :
          projectiles' = [p \in Projectile |->
            IF p \in expired THEN Exploded(projectiles[p]) ELSE projectiles[p]]
    BY <1>5 DEF Drive
  <2>2. phase = "move"
    BY <1>5 DEF Drive
  <2>3. \A p \in expired : ~Dead(p)
    BY <2>2 DEF BodyInv, ExplodedAreQueued
  <2> QED BY <1>4, <2>1, <2>3
<1>6. ASSUME NEW s \in Ship, WallHitsShip(s)
      PROVE  BlastsExploded' /\ BlastsLast
  BY <1>1, <1>6 DEF WallHitsShip, ProjectileState
<1>7. ASSUME NEW p \in Projectile, WallHitsProjectile(p)
      PROVE  BlastsExploded' /\ BlastsLast
  <2>1. ~Dead(p) /\ projectiles' = [projectiles EXCEPT ![p] = Fizzled(projectiles[p])]
    BY <1>7 DEF WallHitsProjectile, Touchable
  <2>2. \A q \in Projectile \ {p} : projectiles'[q] = projectiles[q]
    BY <1>1, <2>1
  <2>3. \A q \in {p} : ~Dead(q) /\ projectiles'[q] = Fizzled(projectiles[q])
    BY <1>1, <2>1
  <2> QED BY <1>4, <2>2, <2>3
<1>8. ASSUME NEW p \in Projectile,
             \/ \E s \in Ship : ProjectileHitsShip(p, s)
             \/ \E f \in Facility : ProjectileHitsBase(p, f)
      PROVE  BlastsExploded' /\ BlastsLast
  <2>1. ~Dead(p) /\ projectiles' = [projectiles EXCEPT ![p] = Exploded(projectiles[p])]
    BY <1>8 DEF ProjectileHitsShip, ProjectileHitsBase, Touchable
  <2>2. \A q \in Projectile \ {p} : projectiles'[q] = projectiles[q]
    BY <1>1, <2>1
  <2>3. \A q \in {p} : ~Dead(q) /\ projectiles'[q] = Exploded(projectiles[q])
    BY <1>1, <2>1
  <2> QED BY <1>4, <2>2, <2>3
<1>9. CASE projectiles' = projectiles
  BY <1>9
<1> QED BY <1>2, <1>3, <1>5, <1>6, <1>7, <1>8, <1>9
        DEF Next, Progress, Contact, Begin, EndTeamScan, Recharge, EndScan, LeaveField,
            MoveOn, EndStep, WallHitsBase, BasesCollide, ShipsCrash, vars

\* What a ship may have on its account, before and after a step.
LEMMA AccountGrows ==
  ASSUME BlastsLast, NEW s \in Ship
  PROVE  /\ Blown(s) \subseteq Blown(s)' /\ Spent(s) \subseteq Spent(s)'
         /\ Blown(s)' \subseteq Projectile /\ Spent(s)' \subseteq Projectile
         /\ Cardinality(Blown(s)) \in Nat /\ Cardinality(Spent(s)) \in Nat
         /\ Cardinality(Blown(s)') \in Nat /\ Cardinality(Spent(s)') \in Nat
         /\ Cardinality(Blown(s)) =< Cardinality(Blown(s)')
         /\ Cardinality(Spent(s)) =< Cardinality(Spent(s)')
<1>1. Blown(s) \subseteq Blown(s)' /\ Spent(s) \subseteq Spent(s)'
  BY DEF BlastsLast, Blown, Spent
<1>2. Blown(s)' \subseteq Projectile /\ Spent(s)' \subseteq Projectile
  BY DEF Blown, Spent
<1> QED BY <1>1, <1>2, ProjectilesFinite, FS_Subset

LEMMA NewMember ==
  ASSUME NEW S, NEW T, IsFiniteSet(T), S \subseteq T, NEW x \in T, x \notin S
  PROVE  Cardinality(S) + 1 =< Cardinality(T)
<1>1. IsFiniteSet(T \ {x}) /\ Cardinality(T \ {x}) = Cardinality(T) - 1
  BY FS_RemoveElement
<1>2. Cardinality(S) =< Cardinality(T \ {x})
  BY <1>1, FS_Subset
<1>3. Cardinality(S) \in Nat /\ Cardinality(T) \in Nat
  BY FS_Subset, FS_CardinalityType
<1> QED BY <1>1, <1>2, <1>3

LEMMA HitsStep ==
  ASSUME TypeInv, TypeInv', BodyInv, HitsInv, [Next]_vars
  PROVE  HitsInv'
<1>1. BlastsExploded' /\ BlastsLast
  BY BlastStep DEF HitsInv
<1> SUFFICES ASSUME NEW s \in Ship
             PROVE  ships'[s].defensiveHits
                      =< Cardinality(Blown(s)') + MaxCollateral * Cardinality(Spent(s)')
  BY <1>1 DEF HitsInv, HitsPerShot
<1> DEFINE h == ships[s].defensiveHits
           g == ships'[s].defensiveHits
           M == MaxCollateral
<1>2. h \in Nat /\ g \in Nat /\ M \in Nat
  BY FieldFacts DEF TypeInv, TypeOK, ShipState
<1>3. PICK b \in Nat : b = Cardinality(Blown(s))
  BY <1>1, AccountGrows
<1>4. PICK c \in Nat : c = Cardinality(Spent(s))
  BY <1>1, AccountGrows
<1>5. PICK d \in Nat : d = Cardinality(Blown(s)')
  BY <1>1, AccountGrows
<1>6. PICK e \in Nat : e = Cardinality(Spent(s)')
  BY <1>1, AccountGrows
<1>7. b =< d /\ c =< e
  BY <1>1, <1>3, <1>4, <1>5, <1>6, AccountGrows
<1>8. h =< b + M * c
  BY <1>3, <1>4 DEF HitsInv, HitsPerShot
<1> HIDE DEF h, g, M
<1>9. M * c =< M * e /\ M * c \in Nat /\ M * e \in Nat
  BY <1>2, <1>7
<1>10. CASE g =< h
  BY <1>2, <1>7, <1>8, <1>9, <1>10, <1>5, <1>6 DEF g, M
<1>11. ASSUME NEW p \in Projectile, Detonate(p)
       PROVE  g =< d + M * e
  <2>1. PICK hit \in SUBSET Ship : \E credited :
          Cardinality(hit) =< MaxCollateral /\ Credited(Owner(p), credited, hit)
    BY <1>11, DetonateCredits
  <2>2. CASE Owner(p) # s
    BY <1>10, <1>5, <1>6, <2>1, <2>2 DEF Credited, g, h, M
  <2>3. CASE Owner(p) = s
    <3>1. p \in Spent(s)' /\ p \notin Spent(s)
      BY <1>11, <2>3 DEF Detonate, Ready, Spent, TypeInv, TypeOK, ProjectileState
    <3>2. IsFiniteSet(Spent(s)') /\ Spent(s) \subseteq Spent(s)'
      BY <1>1, AccountGrows, ProjectilesFinite
    <3>3. c + 1 =< e
      BY <1>4, <1>6, <3>1, <3>2, NewMember
    <3>4. PICK n \in Nat : n = Cardinality(hit)
      BY FieldFacts, FS_Subset, FS_CardinalityType
    <3>5. g =< h + n /\ n =< M
      BY <2>1, <2>3, <3>4 DEF Credited, g, h, M
    <3>6. M * (c + 1) =< M * e /\ M * (c + 1) = M * c + M
      BY <1>2, <3>3
    <3> QED BY <1>2, <1>7, <1>8, <1>9, <3>5, <3>6
  <2> QED BY <2>2, <2>3
<1>12. ASSUME NEW p \in Projectile, NEW t \in Ship, ProjectileHitsShip(p, t)
       PROVE  g =< d + M * e
  <2>1. PICK credited : Credited(Owner(p), credited, {t})
    BY <1>12, DirectHitCredits
  <2>2. CASE Owner(p) # s
    BY <1>10, <1>5, <1>6, <2>1, <2>2 DEF Credited, g, h, M
  <2>3. CASE Owner(p) = s
    <3>1. ~Dead(p) /\ projectiles' = [projectiles EXCEPT ![p] = Exploded(projectiles[p])]
      BY <1>12 DEF ProjectileHitsShip, Touchable
    <3>2. projectiles[p].blast = "none"
      BY <3>1 DEF Dead, HitsInv, BlastsExploded
    <3>3. projectiles'[p].blast = "pending"
      BY <3>1 DEF TypeInv, TypeOK, ProjectileState, Exploded
    <3>4. p \in Blown(s)' /\ p \notin Blown(s)
      BY <2>3, <3>2, <3>3 DEF Blown
    <3>5. IsFiniteSet(Blown(s)') /\ Blown(s) \subseteq Blown(s)'
      BY <1>1, AccountGrows, ProjectilesFinite
    <3>6. b + 1 =< d
      BY <1>3, <1>5, <3>4, <3>5, NewMember
    <3>7. g =< h + 1
      BY <2>1, <2>3, FS_Singleton DEF Credited, g, h
    <3> QED BY <1>2, <1>8, <1>9, <3>6, <3>7
  <2> QED BY <2>2, <2>3
<1>13. CASE ScoresKept
  BY <1>10, <1>13 DEF ScoresKept, g, h
<1> QED BY <1>5, <1>6, <1>11, <1>12, <1>13, ScoreStep DEF g, M

LEMMA InitHits ==
  Init => HitsInv
<1> SUFFICES ASSUME Init PROVE HitsInv
  OBVIOUS
<1>1. BlastsExploded
  BY DEF Init, Unfired, BlastsExploded
<1>2. ASSUME NEW s \in Ship
      PROVE  ships[s].defensiveHits =< Cardinality(Blown(s)) + MaxCollateral * Cardinality(Spent(s))
  <2>1. ships[s].defensiveHits = 0
    BY DEF Init, FreshShip
  <2>2. PICK b \in Nat : b = Cardinality(Blown(s))
    BY ProjectilesFinite DEF Blown
  <2>3. PICK c \in Nat : c = Cardinality(Spent(s))
    BY ProjectilesFinite DEF Spent
  <2>4. MaxCollateral * c \in Nat
    BY FieldFacts
  <2> QED BY <2>1, <2>2, <2>3, <2>4
<1> QED BY <1>1, <1>2 DEF HitsInv, HitsPerShot

\* The books on hits are kept by every step of a battle.
THEOREM HitsInvariant == Spec => []HitsInv
<1>1. TypeInv /\ TypeInv' /\ BodyInv /\ HitsInv /\ [Next]_vars => HitsInv'
  BY HitsStep
<1> QED BY <1>1, InitHits, TypeInvariant, BodyInvariant, PTL DEF Spec

\* Every hit is paid for by the explosion of a projectile or by a blast that has
\* gone off, and by none twice, whatever happens to their owner in between.
THEOREM HitsAreShots == Spec => []HitsPerShot
<1>1. HitsInv => HitsPerShot
  BY DEF HitsInv
<1> QED BY <1>1, HitsInvariant, PTL
=============================================================================
