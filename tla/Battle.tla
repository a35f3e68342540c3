------------------------------- MODULE Battle -------------------------------
(***************************************************************************)
(* One battle, from the placed teams to its end: the tick of               *)
(* BattleField::step() with the scanner's side effects, Ship::move(),      *)
(* Physics::step() and its contact callbacks, and the end test of          *)
(* Game::step().  The tick is single threaded; an action is one iteration  *)
(* of the loop the code is in, or one callback of Box2D.                   *)
(*                                                                         *)
(* Geometry is left open: which ships are in range of a blast or a base,   *)
(* which bodies touch during world_.Step() and in which order, which ship  *)
(* has left the field and which projectile has travelled its range.        *)
(***************************************************************************)
EXTENDS Units, FiniteSets, Functions

CONSTANTS
  Ship, Facility,
  TeamOf,        \* team (0 or 1) of each ship and facility
  Dummy,         \* ships whose layout is a dummy
  MaxCollateral, \* ships one blast can hurt
  Iterations,    \* ticks a battle lasts at most
  MaxShots       \* BOUND: projectiles one ship fires in a battle

Team == {0, 1}
Projectile == Ship \X (1..MaxShots)
Object == Ship \cup Facility \cup Projectile

Owner(p) == p[1]

ASSUME FieldAssumption ==
  /\ IsFiniteSet(Ship) /\ IsFiniteSet(Facility)
  /\ Ship \cap Facility = {} /\ (Ship \cup Facility) \cap Projectile = {}
  /\ TeamOf \in [Ship \cup Facility -> Team]
  /\ Dummy \subseteq Ship
  /\ MaxCollateral \in Nat /\ Iterations \in Nat \ {0} /\ MaxShots \in Nat

VARIABLES
  phase,       \* where the tick is
  ships, bases, projectiles,
  toMove,      \* ships BattleField::move() has still to visit
  world,       \* objects that have a body in the Box2D world
  deadBodies,  \* how often each object's body is queued for destruction
  steps        \* ticks completed (steps_ of Game)

vars == <<phase, ships, bases, projectiles, toMove, world, deadBodies, steps>>

Phase == {"begin", "scan", "recharge", "move", "contact", "over"}

ProjectileState ==
  [state: {"unfired", "flying", "exploded"},
   blast: {"none", "pending", "spent"},
   listed: BOOLEAN]                      \* in projectiles_ of its owner

Unfired == [state |-> "unfired", blast |-> "none", listed |-> FALSE]
Fired == [state |-> "flying", blast |-> "none", listed |-> TRUE]

\* Projectile::death(), and death() followed by blast().
Fizzled(p) == [p EXCEPT !.state = "exploded"]
Exploded(p) == [p EXCEPT !.state = "exploded", !.blast = "pending"]

TypeOK ==
  /\ phase \in Phase
  /\ ships \in [Ship -> ShipState]
  /\ bases \in [Facility -> BaseState]
  /\ projectiles \in [Projectile -> ProjectileState]
  /\ toMove \subseteq Ship
  /\ world \subseteq Object
  /\ deadBodies \in [Object -> Nat]
  /\ steps \in 0..Iterations

\* dead_ of an object; a projectile not fired yet does not exist.
Dead(o) ==
  \/ o \in Ship /\ ships[o].dead
  \/ o \in Facility /\ bases[o].dead
  \/ o \in Projectile /\ projectiles[o].state # "flying"

\* BROKEN VARIANT of Living: the dead_ test of the scanner is forgotten.
LivingStale == Ship

Living == {s \in Ship : ~ships[s].dead}
ShipsOf(t) == {s \in Ship : TeamOf[s] = t}
BasesOf(t) == {f \in Facility : TeamOf[f] = t}
Enemies(a, b) == TeamOf[a] # TeamOf[b]

\* Population::isDead(): no base left, or no ship left.
TeamIsDead(t) ==
  \/ \A f \in BasesOf(t) : bases[f].dead
  \/ \A s \in ShipsOf(t) : ships[s].dead

Init ==
  /\ phase = "begin"
  /\ ships = [s \in Ship |-> FreshShip]
  /\ bases = [f \in Facility |-> FreshBase]
  /\ projectiles = [p \in Projectile |-> Unfired]
  /\ toMove = {}
  /\ world = Ship \cup Facility
  /\ deadBodies = [o \in Object |-> 0]
  /\ steps = 0

-----------------------------------------------------------------------------
(***************************************************************************)
(* BattleField::step() up to the scan.                                     *)
(***************************************************************************)
Begin ==
  /\ phase = "begin"
  /\ phase' = IF \E t \in Team : TeamIsDead(t) THEN "over" ELSE "scan"
  /\ UNCHANGED <<ships, bases, projectiles, toMove, world, deadBodies, steps>>

(***************************************************************************)
(* HybridScanner::teamScan(): the blasts of team 0's projectiles, then of  *)
(* team 1's, those of one ship in the order of projectiles_.  The order of *)
(* the ships within a team is the one prepare() shuffled, left open.       *)
(***************************************************************************)
Ready(p) == projectiles[p].listed /\ projectiles[p].blast = "pending"

IsNext(p) ==
  \A q \in Projectile : Ready(q) =>
    /\ TeamOf[Owner(p)] =< TeamOf[Owner(q)]
    /\ Owner(p) = Owner(q) => p[2] =< q[2]

\* The ships a blast hurts: friends first, and no more than MaxCollateral.
Collateral(inRange, t) ==
  {hit \in SUBSET inRange :
     /\ Cardinality(hit) =< MaxCollateral
     /\ hit = inRange \/ Cardinality(hit) = MaxCollateral
     /\ hit \subseteq ShipsOf(t) \/ inRange \cap ShipsOf(t) \subseteq hit}

\* BROKEN VARIANT of Impact: friends killed count as kills.
ImpactAnyTeam(fleet, p, hit) ==
  LET hurt == [s \in Ship |-> IF s \in hit THEN Damage(fleet[s]) ELSE fleet[s]]
      foes == {s \in hit : Enemies(s, Owner(p))}
  IN  [hurt EXCEPT ![Owner(p)] =
        [hurt[Owner(p)] EXCEPT
          !.defensiveHits = hurt[Owner(p)].defensiveHits + Cardinality(foes),
          !.kills = hurt[Owner(p)].kills + Cardinality({s \in hit : hurt[s].dead})]]

\* Ship::impact(Projectile&) on every ship of hit, and what the projectile's
\* owner gains; fleet is the ships' state when it happens.
Impact(fleet, p, hit) ==
  LET hurt == [s \in Ship |-> IF s \in hit THEN Damage(fleet[s]) ELSE fleet[s]]
      foes == {s \in hit : Enemies(s, Owner(p))}
  IN  [hurt EXCEPT ![Owner(p)] =
        [hurt[Owner(p)] EXCEPT
          !.defensiveHits = hurt[Owner(p)].defensiveHits + Cardinality(foes),
          !.kills = hurt[Owner(p)].kills + Cardinality({s \in foes : hurt[s].dead})]]

StunAll(hit) == [s \in Ship |-> IF s \in hit THEN Stun(ships[s]) ELSE ships[s]]

\* BROKEN VARIANT of Detonate: the blast does not die.
DetonateAgain(p) ==
  /\ phase = "scan"
  /\ Ready(p) /\ IsNext(p)
  /\ \E inRange \in SUBSET Living :
       \E hit \in Collateral(inRange, TeamOf[Owner(p)]) :
         ships' = Impact(StunAll(hit), p, hit)
  /\ UNCHANGED <<phase, bases, projectiles, toMove, world, deadBodies, steps>>

Detonate(p) ==
  /\ phase = "scan"
  /\ Ready(p) /\ IsNext(p)
  /\ \E inRange \in SUBSET Living :
       \E hit \in Collateral(inRange, TeamOf[Owner(p)]) :
         ships' = Impact(StunAll(hit), p, hit)
  /\ projectiles' = [projectiles EXCEPT ![p] = [projectiles[p] EXCEPT !.blast = "spent"]]
  /\ UNCHANGED <<phase, bases, toMove, world, deadBodies, steps>>

EndTeamScan ==
  /\ phase = "scan"
  /\ \A p \in Projectile : ~Ready(p)
  /\ phase' = "recharge"
  /\ UNCHANGED <<ships, bases, projectiles, toMove, world, deadBodies, steps>>

\* BROKEN VARIANT of Recharge: ships that died since the tree was built.
RechargeStale(f, s) ==
  /\ phase = "recharge"
  /\ ~bases[f].dead /\ TeamOf[f] = TeamOf[s]
  /\ HasSupplies(bases[f])
  /\ ships' = [ships EXCEPT ![s] = Refill(ships[s])]
  /\ bases' = [bases EXCEPT ![f] = HandOut(bases[f], ships[s])]
  /\ UNCHANGED <<phase, projectiles, toMove, world, deadBodies, steps>>

\* The end of HybridScanner::scan().  Asking the same base twice in a tick
\* costs and gives nothing, so a ship may be visited any number of times.
Recharge(f, s) ==
  /\ phase = "recharge"
  /\ ~bases[f].dead /\ ~ships[s].dead /\ TeamOf[f] = TeamOf[s]
  /\ HasSupplies(bases[f])
  /\ ships' = [ships EXCEPT ![s] = Refill(ships[s])]
  /\ bases' = [bases EXCEPT ![f] = HandOut(bases[f], ships[s])]
  /\ UNCHANGED <<phase, projectiles, toMove, world, deadBodies, steps>>

EndScan ==
  /\ phase = "recharge"
  /\ phase' = "move"
  /\ toMove' = Living
  /\ UNCHANGED <<ships, bases, projectiles, world, deadBodies, steps>>

-----------------------------------------------------------------------------
(***************************************************************************)
(* BattleField::think() and move(): each living ship follows its brain's   *)
(* outputs, then dies if it is off the field, or else shoots.  Ships do    *)
(* not affect one another here, so one order stands for all of them.       *)
(***************************************************************************)
Moved(s, o) == IF s \in Dummy THEN ships[s] ELSE MoveShip(ships[s], o)

Unspent(s) == {p \in Projectile : Owner(p) = s /\ projectiles[p].state = "unfired"}

\* Orders the bound MaxShots allows.
OrdersFor(s) == {o \in Orders : Unspent(s) # {} \/ ~o.shoot}

MoveOff(s) ==
  /\ toMove' = toMove \ {s}
  /\ UNCHANGED <<phase, bases, deadBodies, steps>>

\* dead_ is set directly: neither death() nor a place in deadBodies_.
LeaveField(s) ==
  /\ phase = "move" /\ toMove # {} /\ s = CHOOSE t \in toMove : TRUE
  /\ \E o \in OrdersFor(s) :
       ships' = [ships EXCEPT ![s] = [Moved(s, o) EXCEPT !.dead = TRUE]]
  /\ MoveOff(s)
  /\ UNCHANGED <<projectiles, world>>

MoveOn(s) ==
  /\ phase = "move" /\ toMove # {} /\ s = CHOOSE t \in toMove : TRUE
  /\ \E o \in OrdersFor(s) :
       /\ ~Moved(s, o).willShoot
       /\ ships' = [ships EXCEPT ![s] = Moved(s, o)]
  /\ MoveOff(s)
  /\ UNCHANGED <<projectiles, world>>

MoveAndShoot(s) ==
  /\ phase = "move" /\ toMove # {} /\ s = CHOOSE t \in toMove : TRUE
  /\ \E o \in OrdersFor(s), p \in Unspent(s) :
       /\ Moved(s, o).willShoot
       /\ \A q \in Unspent(s) : p[2] =< q[2]
       /\ ships' = [ships EXCEPT ![s] = Shoot(Moved(s, o))]
       /\ projectiles' = [projectiles EXCEPT ![p] = Fired]
       /\ world' = world \cup {p}
  /\ MoveOff(s)

(***************************************************************************)
(* Physics::step() before world_.Step(): engines burn fuel, ships without  *)
(* fuel die, projectiles beyond their range explode.  Every body is        *)
(* visited, those of dead ships too.                                       *)
(***************************************************************************)
Drive ==
  LET starving == {s \in Ship \cap world : ships[s].fuel = 0}
  IN  /\ phase = "move" /\ toMove = {}
      /\ phase' = "contact"
      /\ ships' = [s \in Ship |->
           IF s \notin world THEN ships[s]
           ELSE IF s \in starving THEN Starve(ships[s], s \in Dummy) ELSE Burn(ships[s])]
      /\ \E expired \in SUBSET (Projectile \cap world) :
           /\ projectiles' = [p \in Projectile |->
                IF p \in expired THEN Exploded(projectiles[p]) ELSE projectiles[p]]
           /\ deadBodies' = [o \in Object |->
                IF o \in expired \/ o \in starving \ Dummy
                THEN deadBodies[o] + 1 ELSE deadBodies[o]]
      /\ UNCHANGED <<bases, toMove, world, steps>>

-----------------------------------------------------------------------------
(***************************************************************************)
(* Physics::BeginContact() and PostSolve(), called by Box2D in any order   *)
(* for bodies of the world.  The collision masks rule out ships with       *)
(* facilities and projectiles with projectiles.                            *)
(***************************************************************************)
\* BROKEN VARIANT of Touchable: callbacks do not look at dead_.
TouchableDead(o) == phase = "contact" /\ o \in world

Touchable(o) == phase = "contact" /\ o \in world /\ ~Dead(o)

Queue(O) ==
  deadBodies' = [o \in Object |-> IF o \in O THEN deadBodies[o] + 1 ELSE deadBodies[o]]

WallHitsShip(s) ==
  /\ Touchable(s)
  /\ ships' = [ships EXCEPT ![s] = Kill(ships[s])]
  /\ projectiles' = [p \in Projectile |->
       IF Owner(p) = s THEN [projectiles[p] EXCEPT !.listed = FALSE] ELSE projectiles[p]]
  /\ Queue({s})
  /\ UNCHANGED <<phase, bases, toMove, world, steps>>

WallHitsBase(f) ==
  /\ Touchable(f)
  /\ bases' = [bases EXCEPT ![f] = BaseDeath(bases[f])]
  /\ Queue({f})
  /\ UNCHANGED <<phase, ships, projectiles, toMove, world, steps>>

\* BROKEN VARIANT of WallHitsProjectile: the body is not queued.
WallHitsProjectileOnly(p) ==
  /\ Touchable(p)
  /\ projectiles' = [projectiles EXCEPT ![p] = Fizzled(projectiles[p])]
  /\ UNCHANGED <<phase, ships, bases, toMove, world, deadBodies, steps>>

WallHitsProjectile(p) ==
  /\ Touchable(p)
  /\ projectiles' = [projectiles EXCEPT ![p] = Fizzled(projectiles[p])]
  /\ Queue({p})
  /\ UNCHANGED <<phase, ships, bases, toMove, world, steps>>

\* A ship is not hit by its own projectile.
ProjectileHitsShip(p, s) ==
  /\ Touchable(p) /\ Touchable(s)
  /\ s # Owner(p)
  /\ ships' = Impact(ships, p, {s})
  /\ projectiles' = [projectiles EXCEPT ![p] = Exploded(projectiles[p])]
  /\ Queue({p} \cup (IF ships'[s].dead THEN {s} ELSE {}))
  /\ UNCHANGED <<phase, bases, toMove, world, steps>>

\* The kill is tested before the damage is done.
ProjectileHitsBase(p, f) ==
  /\ Touchable(p) /\ Touchable(f)
  /\ projectiles' = [projectiles EXCEPT ![p] = Exploded(projectiles[p])]
  /\ ships' = [ships EXCEPT ![Owner(p)] = [ships[Owner(p)] EXCEPT
       !.kills = IF bases[f].dead /\ Enemies(f, Owner(p))
                 THEN ships[Owner(p)].kills + 1 ELSE ships[Owner(p)].kills]]
  /\ bases' = [bases EXCEPT ![f] = BaseDamage(bases[f])]
  /\ Queue({p} \cup (IF bases'[f].dead THEN {f} ELSE {}))
  /\ UNCHANGED <<phase, toMove, world, steps>>

BasesCollide(f, g) ==
  /\ Touchable(f) /\ Touchable(g) /\ f # g
  /\ bases' = [bases EXCEPT ![f] = BaseDamage(bases[f]), ![g] = BaseDamage(bases[g])]
  /\ Queue({b \in {f, g} : bases'[b].dead})
  /\ UNCHANGED <<phase, ships, projectiles, toMove, world, steps>>

\* PostSolve() looks neither at dead_ nor at deadBodies_.
ShipsCrash(s, t) ==
  /\ phase = "contact" /\ {s, t} \subseteq world /\ s # t
  /\ ships' = [ships EXCEPT ![s] = Crash(ships[s]), ![t] = Crash(ships[t])]
  /\ UNCHANGED <<phase, bases, projectiles, toMove, world, deadBodies, steps>>

\* BROKEN VARIANT of EndStep: the tick is not counted.
EndStepUncounted ==
  /\ phase = "contact"
  /\ world' = {o \in world : deadBodies[o] = 0}
  /\ deadBodies' = [o \in Object |-> 0]
  /\ phase' = IF steps >= Iterations \/ \E t \in Team : TeamIsDead(t)
              THEN "over" ELSE "begin"
  /\ UNCHANGED <<ships, bases, projectiles, toMove, steps>>

(***************************************************************************)
(* The rest of Physics::step() (queued bodies are destroyed), and the end  *)
(* test of Game::step().                                                   *)
(***************************************************************************)
EndStep ==
  /\ phase = "contact"
  /\ world' = {o \in world : deadBodies[o] = 0}
  /\ deadBodies' = [o \in Object |-> 0]
  /\ steps' = steps + 1
  /\ phase' = IF steps' >= Iterations \/ \E t \in Team : TeamIsDead(t)
              THEN "over" ELSE "begin"
  /\ UNCHANGED <<ships, bases, projectiles, toMove>>

Contact ==
  \/ \E s \in Ship : WallHitsShip(s)
  \/ \E f \in Facility : WallHitsBase(f)
  \/ \E p \in Projectile : WallHitsProjectile(p)
  \/ \E p \in Projectile, s \in Ship : ProjectileHitsShip(p, s)
  \/ \E p \in Projectile, f \in Facility : ProjectileHitsBase(p, f)
  \/ \E f, g \in Facility : BasesCollide(f, g)
  \/ \E s, t \in Ship : ShipsCrash(s, t)

\* The steps of the code itself: without them the tick stands still.
Progress ==
  \/ Begin
  \/ \E p \in Projectile : Detonate(p)
  \/ EndTeamScan
  \/ EndScan
  \/ \E s \in Ship : LeaveField(s) \/ MoveOn(s) \/ MoveAndShoot(s)
  \/ Drive
  \/ EndStep

Next ==
  \/ Progress
  \/ \E f \in Facility, s \in Ship : Recharge(f, s)
  \/ Contact

Spec == Init /\ [][Next]_vars

\* The game thread keeps running and world_.Step() returns.
FairSpec == Spec /\ WF_vars(Progress)
-----------------------------------------------------------------------------
(***************************************************************************)
(* Properties.                                                             *)
(***************************************************************************)

\* No body is handed to world_.DestroyBody() twice, and only bodies of the
\* world are: several callbacks of one world_.Step() and the loop before it
\* all push to deadBodies_ of Physics.
NoDoubleDestroy ==
  \A o \in Object : deadBodies[o] > 0 => deadBodies[o] = 1 /\ o \in world

\* Everything alive takes part in the simulation, and outside world_.Step()
\* no exploded projectile has a body left: every place that calls
\* Projectile::death() also queues its body.
BodiesMatch ==
  /\ \A o \in Object : ~Dead(o) => o \in world
  /\ phase # "contact" => \A p \in Projectile \cap world : ~Dead(p)

\* The kills credited to a team never exceed the ships the other team lost,
\* although direct hits, blasts and crashes credit in different places.
KillsOf(t) == SumFunctionOnSet([s \in Ship |-> ships[s].kills], ShipsOf(t))

KillsJustified ==
  \A t \in Team : KillsOf(t) =< Cardinality({s \in ShipsOf(1 - t) : ships[s].dead})

\* Every hit a ship is credited with is paid for once: a projectile with a
\* blast brings one hit, as it explodes on a ship, and a blast that has gone
\* off MaxCollateral more.  No blast is counted in two ticks, and none before
\* it goes off, whatever happened to its owner in between.
\* (lua/fitness/amir.lua:97 asserts MaxCollateral hits for each projectile, which
\* the direct hit exceeds where the blast hurts as many ships as it may.)
Blown(s) == {p \in Projectile : Owner(p) = s /\ projectiles[p].blast # "none"}
Spent(s) == {p \in Projectile : Owner(p) = s /\ projectiles[p].blast = "spent"}

HitsPerShot ==
  \A s \in Ship :
    ships[s].defensiveHits =< Cardinality(Blown(s)) + MaxCollateral * Cardinality(Spent(s))

\* A dead ship stays dead and is out of the game although its body may stay in
\* the world and the trees of the tick may still hold it: it is not restocked,
\* it does not shoot, and neither a blast nor its own cool down touches stun_.
DeadAreInert ==
  [][\A s \in Ship : ships[s].dead =>
       /\ ships'[s].dead
       /\ ships'[s].ammo = ships[s].ammo
       /\ ships'[s].fuel =< ships[s].fuel
       /\ ships'[s].stun = ships[s].stun]_vars

\* A ship spends a projectile only if it is alive, not stunned, has cooled
\* down and has one: the CHECKs of Ship::shoot() hold although willShoot_
\* outlives the tick that set it.
ShotsAreLegal ==
  [][\A s \in Ship : ships'[s].ammo < ships[s].ammo =>
       MayShoot(ships[s]) /\ ~ships[s].dead /\ ships[s].stun = 0]_vars

\* README.md: a ship dies when it is out of fuel.  A living ship with an empty
\* tank burned its last fuel in this very tick; a base may still save it in
\* the next scan.
EmptyTanksKill ==
  phase = "contact" =>
    \A s \in Ship \ Dummy : ~ships[s].dead /\ ships[s].fuel = 0 => ships[s].thrust > 0

\* What BattleField promises (Contest.tla).
Outcome == INSTANCE Contest WITH
  living <- {o \in Ship \cup Facility : ~Dead(o)},
  kills <- [s \in Ship |-> ships[s].kills],
  over <- phase = "over"

ContestSpec == Outcome!Spec

\* Every battle ends: after Iterations ticks at the latest, and no tick hangs.
BattleEnds == <>(phase = "over")
=============================================================================
