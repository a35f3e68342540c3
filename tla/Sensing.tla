------------------------------- MODULE Sensing -------------------------------
(***************************************************************************)
(* What the brains of a battle are told: HybridScanner::prepare() builds   *)
(* the trees of a tick, teamScan() looks for ships and bases and makes of  *)
(* what it finds a scan of a fixed length, BrainSwarm::update() makes of   *)
(* the scan the inputs of the networks.                                    *)
(*                                                                         *)
(* Places are left open: which ship is the nearest, and the order in which *)
(* a tree is searched after its root.  So are the blasts that teamScan()   *)
(* works off between two ships (Battle.tla has them): ships may die there. *)
(* Cluster centres are left out, no scenario enables them, and so are the  *)
(* scans of projectiles, which never reach a brain.                        *)
(***************************************************************************)
EXTENDS Naturals, Sequences, FiniteSets

CONSTANTS
  Ship, Base,           \* numbered: a team and its bases are visited in this order
  TeamOf,               \* team (0 or 1) of each ship and base
  Dummy,                \* ships whose layout is a dummy
  NumFriends, NumEnemies, NumFriendFacilities, NumEnemyFacilities,
  Ticks                 \* BOUND: ticks of the battle

Team == {0, 1}
NoShip == 0

\* Every scenario has the layout of scenario.hpp: 10, 10, 3 and 3.
ASSUME ScannerAssumption ==
  /\ IsFiniteSet(Ship) /\ IsFiniteSet(Base) /\ Ship \cap Base = {}
  /\ Ship \cup Base \subseteq Nat \ {NoShip}
  /\ TeamOf \in [Ship \cup Base -> Team]
  /\ Dummy \subseteq Ship
  /\ NumFriends \in Nat \ {0} /\ NumEnemies \in Nat \ {0}
  /\ NumFriendFacilities \in Nat \ {0} /\ NumEnemyFacilities \in Nat \ {0}
  /\ Ticks \in Nat

VARIABLES
  phase,    \* where BattleField::step() is
  tick,
  dead,     \* ships and bases with dead_
  trees,    \* bspA_ and bspB_
  baseTrees,\* bspFA_ and bspFB_
  side,     \* the team that scans
  toLook,   \* ships of it that teamScan() has still to visit
  looking,  \* the one it is at, or NoShip
  part,     \* which part of its scan is being made
  objects,  \* objects_ of its scan
  found,    \* entries of the part before it is filled up, 0: not searched yet
  nearest,  \* HISTORY: what was nearest to it in the last search, or NoShip
  index, last, \* i and s of the loop that fills a part up
  scans,    \* what update() sees of each ship's scan
  inputs    \* inputs_ of each ship's brain

look == <<looking, part, objects, found, nearest, index, last>>
vars == <<phase, tick, dead, trees, baseTrees, side, toLook, look, scans, inputs>>

(***************************************************************************)
(* A scan has four parts.                                                  *)
(***************************************************************************)
Parts == 1..4
TypeIn == <<"friend", "enemy", "friendFacility", "enemyFacility">>
Size == <<NumFriends, NumEnemies, NumFriendFacilities, NumEnemyFacilities>>
Start == <<0, NumFriends, NumFriends + NumEnemies,
           NumFriends + NumEnemies + NumFriendFacilities>>
End(p) == Start[p] + Size[p]
NumObjects == NumFriends + NumEnemies + NumFriendFacilities + NumEnemyFacilities

Types == {"friend", "enemy", "friendFacility", "enemyFacility"}
Objects == [type : Types, of : Ship \cup Base \cup {NoShip}]

\* An object of a finished scan: its type, whether it has a direction, and the
\* tick it was seen in.
Seen == [type : Types, dir : BOOLEAN, tick : Nat]

\* Slots of the inputs: one for every object (two inputs) and one for the ship
\* itself (five inputs).  An input is unset after reset().
Slots == 1..(NumObjects + 1)
Unset == [type |-> "unset", tick |-> 0]
Inputs == [type : Types \cup {"unset", "own"}, tick : Nat]

ShipsOf(t) == {s \in Ship : TeamOf[s] = t}
BasesOf(t) == {f \in Base : TeamOf[f] = t}
Thinks(s) == s \notin dead /\ s \notin Dummy

Init ==
  /\ phase = "begin" /\ tick = 0 /\ dead = {}
  /\ trees = [t \in Team |-> {}] /\ baseTrees = [t \in Team |-> {}]
  /\ side = 0 /\ toLook = {}
  /\ looking = NoShip /\ part = 1 /\ objects = <<>> /\ found = 0 /\ nearest = NoShip
  /\ index = 0 /\ last = 0
  /\ scans = [s \in Ship |-> <<>>]
  /\ inputs = [s \in Ship |-> [k \in Slots |-> Unset]]

-----------------------------------------------------------------------------
\* BROKEN VARIANT of TeamIsDead: only the bases count.
TeamIsDeadByBases(t) == BasesOf(t) \subseteq dead

\* Population::isDead().
TeamIsDead(t) == BasesOf(t) \subseteq dead \/ ShipsOf(t) \subseteq dead

\* BattleField::step() up to the first teamScan(), with buildBsps().
Prepare ==
  /\ phase = "begin" /\ \A t \in Team : ~TeamIsDead(t)
  /\ tick < Ticks /\ tick' = tick + 1
  /\ trees' = [t \in Team |-> ShipsOf(t) \ dead]
  /\ baseTrees' = [t \in Team |-> BasesOf(t)]
  /\ phase' = "look" /\ side' = 0 /\ toLook' = ShipsOf(0)
  /\ UNCHANGED <<dead, look, scans, inputs>>

EndBattle ==
  /\ phase = "begin"
  /\ tick = Ticks \/ \E t \in Team : TeamIsDead(t)
  /\ phase' = "over"
  /\ UNCHANGED <<tick, dead, trees, baseTrees, side, toLook, look, scans, inputs>>

-----------------------------------------------------------------------------
(***************************************************************************)
(* teamScan() for one ship: each part is searched for, cut, and filled up. *)
(***************************************************************************)
\* Ships are visited in the order of their team.
IsNext(s) == s \in toLook /\ \A o \in toLook : s <= o

Visit(s) ==
  /\ phase = "look" /\ looking = NoShip /\ IsNext(s) /\ Thinks(s)
  /\ looking' = s /\ part' = 1 /\ objects' = <<>> /\ found' = 0
  /\ UNCHANGED <<phase, tick, dead, trees, baseTrees, side, toLook, nearest, index, last,
                 scans, inputs>>

\* Ships that the blasts of a visited ship kill.
BlastsKill == \E hit \in SUBSET ((trees[0] \cup trees[1]) \ dead) : dead' = dead \cup hit

\* Dead ships and dummies see nothing, but their blasts go off all the same.
Skip(s) ==
  /\ phase = "look" /\ looking = NoShip /\ IsNext(s) /\ ~Thinks(s)
  /\ toLook' = toLook \ {s} /\ BlastsKill
  /\ UNCHANGED <<phase, tick, trees, baseTrees, side, look, scans, inputs>>

Tree(p) ==
  CASE p = 1 -> trees[side] [] p = 2 -> trees[1 - side]
    [] p = 3 -> baseTrees[side] [] p = 4 -> baseTrees[1 - side]

\* BROKEN VARIANT of Candidates: the dead are not passed over.
CandidatesAll(p) == Tree(p) \ {looking}

\* What the searches for a part may return.
Candidates(p) == Tree(p) \ (dead \cup {looking})

\* What was inserted into the tree first is its root.
Root(p) == CHOOSE o \in Tree(p) : \A u \in Tree(p) : o <= u

\* find_nearest_if() returns end() if its predicate accepts nobody.  That of
\* findNearest() accepts every candidate, that of findNearestN() only the n-th.
\* Both evaluate CHECK(&from != *p.first) before they ask whether there is
\* anybody, and what *end() is, is undefined.  In the build it is what lies behind
\* the header of the tree, _M_count, read as a pointer: no ship's address, so
\* that the CHECK passes and both go on with what they have found, or nobody.
\* Nearest and FirstN are that outcome, and nothing is said of another.

\* findNearest() of the ship n that is nearest.  find_nearest_if() notes the
\* root as the best so far but not its distance: the root never wins against
\* another candidate and, alone, is taken for nobody.
Nearest(p, n) ==
  LET others == Candidates(p) \ {Root(p)}
  IN IF others = {} THEN {<<>>}
     ELSE IF n \in others THEN {<<n>>} ELSE {<<s>> : s \in others}

\* findNearestN(): the first that the tree comes to, the root before all, and
\* after the n-th any that are nearer.
FirstN(p, n) ==
  {l \in UNION {[1..k -> Candidates(p)] : k \in 0..Cardinality(Candidates(p))} :
     /\ \A i, j \in DOMAIN l : l[i] = l[j] => i = j
     /\ Len(l) >= n \/ Len(l) = Cardinality(Candidates(p))
     /\ l # <<>> /\ Root(p) \in Candidates(p) => l[1] = Root(p)}

\* BROKEN VARIANT of Search: only the nearest is looked for.
SearchNearest(p, n) == IF p \in {1, 2} THEN Nearest(p, n) ELSE FirstN(p, Size[p])

\* The searches for a part: ships by both searches, bases by the second.
Search(p, n) ==
  IF p \in {1, 2} THEN UNION {{l \o m : m \in FirstN(p, Size[p] - Len(l))} : l \in Nearest(p, n)}
  ELSE FirstN(p, Size[p])

\* BROKEN VARIANT of Cut: what the searches return beyond the n-th stays.
CutNot(l, n) == l

\* resize().
Cut(l, n) == SubSeq(l, 1, IF Len(l) < n THEN Len(l) ELSE n)

\* BROKEN VARIANT of Pad: nothing stands for enemies that are not there.
PadNot(p) == IF p = 2 THEN <<>> ELSE [k \in 1..Size[p] |-> NoShip]

\* What is entered where nothing was found.
Pad(p) == [k \in 1..(IF p = 2 THEN 1 ELSE Size[p]) |-> NoShip]

Entries(p, l) == [k \in DOMAIN l |-> [type |-> TypeIn[p], of |-> l[k]]]

\* BROKEN VARIANT of Restart: the loop starts with the first object of the scan.
RestartFromZero(p) == 1
\* Where the loop that fills a part up starts: i = startNum.
Restart(p) == Start[p] + 1

SearchPart ==
  /\ looking # NoShip /\ found = 0
  /\ \E n \in IF Candidates(part) = {} THEN {NoShip} ELSE Candidates(part) :
       /\ nearest' = n
       /\ \E l \in Search(part, n) :
            LET here == Entries(part, IF l = <<>> THEN Pad(part) ELSE Cut(l, Size[part]))
            IN /\ objects' = objects \o here /\ found' = Len(here)
               /\ index' = Restart(part) /\ last' = Start[part] + Len(here)
  /\ UNCHANGED <<phase, tick, dead, trees, baseTrees, side, toLook, looking, part, scans, inputs>>

\* One turn of the inner loop; another round of the outer one after the last.
Fill ==
  /\ looking # NoShip /\ found # 0 /\ Len(objects) < End(part)
  /\ objects' = Append(objects, objects[index])
  /\ IF index < last THEN index' = index + 1 /\ last' = last
     ELSE index' = Restart(part) /\ last' = Len(objects) + 1
  /\ UNCHANGED <<phase, tick, dead, trees, baseTrees, side, toLook, looking, part, found, nearest,
                 scans, inputs>>

NextPart ==
  /\ looking # NoShip /\ found # 0 /\ Len(objects) = End(part) /\ part < 4
  /\ part' = part + 1 /\ found' = 0
  /\ UNCHANGED <<phase, tick, dead, trees, baseTrees, side, toLook, looking, objects, nearest,
                 index, last, scans, inputs>>

\* BROKEN VARIANT of Calculated: what is not there is given no direction.
CalculatedNot(entry) == [type |-> entry.type, dir |-> entry.of # NoShip, tick |-> tick]

\* Scan::calculate(): every entry has a direction, the padding too.
Calculated(entry) == [type |-> entry.type, dir |-> TRUE, tick |-> tick]

EndVisit ==
  /\ looking # NoShip /\ found # 0 /\ Len(objects) = End(part) /\ part = 4
  /\ scans' = [scans EXCEPT ![looking] = [k \in DOMAIN objects |-> Calculated(objects[k])]]
  /\ toLook' = toLook \ {looking} /\ looking' = NoShip /\ BlastsKill
  /\ UNCHANGED <<phase, tick, trees, baseTrees, side, part, objects, found, nearest, index, last,
                 inputs>>

EndSide ==
  /\ phase = "look" /\ looking = NoShip /\ toLook = {}
  /\ IF side = 0 THEN side' = 1 /\ toLook' = ShipsOf(1) /\ phase' = phase
     ELSE side' = 0 /\ toLook' = {} /\ phase' = "think"
  /\ UNCHANGED <<tick, dead, trees, baseTrees, look, scans, inputs>>

-----------------------------------------------------------------------------
\* The order in which update() goes through the types of a scan, bases of one's
\* own before enemies.
Rank == [friend |-> 1, friendFacility |-> 2, enemy |-> 3, enemyFacility |-> 4]

\* The slot of the k-th entry of a scan.  Within a type the entries are sorted
\* by angle, which is left out: all that is known of an input is its type.
Slot(scan, k) ==
  1 + Cardinality({i \in DOMAIN scan : \/ Rank[scan[i].type] < Rank[scan[k].type]
                                       \/ Rank[scan[i].type] = Rank[scan[k].type] /\ i < k})

\* BrainSwarm::update(): what has no direction leaves its inputs as they were.
Fed(was, scan) ==
  [slot \in Slots |->
     LET here == {k \in DOMAIN scan : Slot(scan, k) = slot /\ scan[k].dir}
     IN IF slot = NumObjects + 1 THEN [type |-> "own", tick |-> tick]
        ELSE IF here = {} THEN was[slot]
        ELSE LET k == CHOOSE k \in here : TRUE IN [type |-> scan[k].type, tick |-> scan[k].tick]]

Think ==
  /\ phase = "think" /\ phase' = "act"
  /\ inputs' = [s \in Ship |-> IF Thinks(s) THEN Fed(inputs[s], scans[s]) ELSE inputs[s]]
  /\ UNCHANGED <<tick, dead, trees, baseTrees, side, toLook, look, scans>>

\* The rest of the tick, of which only the deaths matter here.
Act ==
  /\ phase = "act" /\ phase' = "begin"
  /\ \E hit \in SUBSET ((Ship \cup Base) \ dead) : dead' = dead \cup hit
  /\ UNCHANGED <<tick, trees, baseTrees, side, toLook, look, scans, inputs>>

\* The battle is over.
Rest == phase = "over" /\ UNCHANGED vars

Next ==
  \/ Prepare \/ EndBattle \/ (\E s \in Ship : Visit(s) \/ Skip(s))
  \/ SearchPart \/ Fill \/ NextPart \/ EndVisit \/ EndSide
  \/ Think \/ Act \/ Rest

Spec == Init /\ [][Next]_vars
FairSpec == Spec /\ WF_vars(Next)   \* one thread, which runs

-----------------------------------------------------------------------------
\* Types; a scan never has more entries than the parts so far allow, and the
\* loop that fills it copies entries that are there.
TypeOK ==
  /\ phase \in {"begin", "look", "think", "act", "over"}
  /\ tick \in 0..Ticks /\ dead \subseteq Ship \cup Base
  /\ trees \in [Team -> SUBSET Ship] /\ baseTrees \in [Team -> SUBSET Base]
  /\ side \in Team /\ toLook \subseteq ShipsOf(side) /\ looking \in toLook \cup {NoShip}
  /\ part \in Parts /\ objects \in Seq(Objects) /\ Len(objects) <= End(part)
  /\ found \in 0..Size[part] /\ nearest \in Ship \cup Base \cup {NoShip}
  /\ looking # NoShip /\ found # 0 => index \in 1..last /\ last \in 1..Len(objects)
  /\ scans \in [Ship -> Seq(Seen)] /\ \A s \in Ship : Len(scans[s]) \in {0, NumObjects}
  /\ inputs \in [Ship -> [Slots -> Inputs]]

\* The search for what is nearest to a projectile, find_nearest(), returns end()
\* only of an empty tree, since it finds the dead as well.
ProjectileEnds(t) == trees[t] = {}

\* While teamScan() searches, projectiles find a ship of either team, so that the
\* findNearest() of a projectile never dereferences end() (scanner_bsp.cpp:125),
\* and there is a living base of either team to find.
SomebodyToFind ==
  phase = "look" => \A t \in Team : ~ProjectileEnds(t) /\ ~(baseTrees[t] \subseteq dead)

\* Who lives, whatever the trees were built from.
Alive(p) ==
  {o \in (IF p \in {1, 2} THEN Ship ELSE Base) \ (dead \cup {looking}) :
     TeamOf[o] = IF p \in {1, 3} THEN side ELSE 1 - side}

\* An entry stands for something that lives and is not the ship itself; for
\* nothing only where nothing of its kind lives.  A part shows all that live or
\* as many different ones as it has entries.  Only a part for ships may show one
\* less, and only if the ship found first, by findNearest(), has another entry
\* from findNearestN(), which does not know of the first.  Of ships, with two
\* entries or more, the nearest is among those shown, although findNearest()
\* may pass over it; of bases, any may be left out.
SeesWhatLives ==
  looking # NoShip /\ found # 0 =>
    LET first == Start[part] + 1
        seen == {objects[k].of : k \in first .. Len(objects)}
        twice == \E k \in first + 1 .. Start[part] + found : objects[k].of = objects[first].of
    IN /\ seen \subseteq Alive(part) \/ (Alive(part) = {} /\ seen = {NoShip})
       /\ \/ Alive(part) \subseteq seen
          \/ Cardinality(seen) >= Size[part]
          \/ part \in {1, 2} /\ twice /\ Cardinality(seen) >= Size[part] - 1
       /\ part \in {1, 2} /\ Size[part] >= 2 => nearest \in seen

\* A part that found less than it has entries for repeats the entries it found
\* in turn, none of them before the others, and nothing of another part.  A ship
\* that has two of these entries is repeated as often as two ships.
EvenRepeats ==
  looking # NoShip /\ found # 0 =>
    \A k \in Start[part] + 1 .. Len(objects) :
      /\ objects[k].type = TypeIn[part]
      /\ k > Start[part] + found => objects[k] = objects[k - found]

\* What an input tells is the same for every ship and in every tick: weights
\* are bred for it, crossed with those of other ships and saved.
MeaningOf(slot) ==
  CASE slot <= NumFriends -> "friend"
    [] slot > NumFriends /\ slot <= NumFriends + NumFriendFacilities -> "friendFacility"
    [] slot > NumFriends + NumFriendFacilities /\ slot <= NumObjects - NumEnemyFacilities -> "enemy"
    [] slot > NumObjects - NumEnemyFacilities /\ slot <= NumObjects -> "enemyFacility"
    [] OTHER -> "own"
InputsKeepMeaning ==
  \A s \in Ship, slot \in Slots : inputs[s][slot].type \in {"unset", MeaningOf(slot)}

\* The network of a ship that lives and thinks runs on what this tick has shown,
\* never on an input of an earlier tick or on the value that reset() left there,
\* whoever died while the teams were scanning.
InputsAreFresh ==
  phase = "act" =>
    \A s \in Ship, slot \in Slots :
      Thinks(s) => inputs[s][slot].type # "unset" /\ inputs[s][slot].tick = tick

\* Whatever dies, the loops that fill the scans end and so does the battle.
BattleEnds == <>(phase = "over")
=============================================================================
