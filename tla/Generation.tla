----------------------------- MODULE Generation -----------------------------
(***************************************************************************)
(* From one battle to the next: Game::finish() scores the battle, breeds a *)
(* new generation from each team (GeneticPool::epoch()), lets the loser    *)
(* adopt some of the winner's children (Game::mate()) and destroys the     *)
(* brains of the old generation (Game::cleanup()).                         *)
(*                                                                         *)
(* A brain belongs to the ships that hold its pointer: nothing counts      *)
(* references, makeChild() and clone() allocate one and destroy() frees    *)
(* it.  Weights and fitness are left out: who is fit, and who mates, is a  *)
(* choice.  So is the order of a team, which prepare() shuffles and        *)
(* epoch() sorts: teams_ are sets, newTeams_ sequences.                    *)
(*                                                                         *)
(* A program that is stopped keeps its last teams_: that is Session.tla's  *)
(* matter.                                                                 *)
(***************************************************************************)
EXTENDS Integers, Sequences, FiniteSets

CONSTANTS
  Layouts,      \* the layouts a pool may have
  Sizes,        \* the sizes a team may have
  Bases,        \* bases of both teams
  Loaded,       \* TRUE when teams may come from a file, with its winner_
  Generations   \* BOUND: battles that are played

Team == {0, 1}
Other(t) == 1 - t
Nobody == 2

ASSUME GenerationAssumption ==
  /\ Layouts \subseteq [initialized : BOOLEAN, usePerfDesc : BOOLEAN,
                        numElite : Nat, numEliteCopies : Nat]
  /\ Sizes \subseteq Nat \ {0}
  /\ Bases \in Nat
  /\ Loaded \in BOOLEAN
  /\ Generations \in Nat

VARIABLES
  phase,     \* where finish() is
  pool,      \* pools_: the layout of each team's pool
  size,      \* how many ships each team has
  teams,     \* teams_: sets of ships
  newTeams,  \* newTeams_: sequences of ships
  winner,    \* winner_ of each team
  next,      \* brains allocated so far
  alive,     \* brains allocated and not destroyed
  broken,    \* a brain was destroyed that was destroyed already
  left,      \* battles left to play
  won        \* HISTORY: who won the last battle, or Nobody

fixed == <<pool, size>>
vars == <<phase, fixed, teams, newTeams, winner, next, alive, broken, left, won>>

\* line is HISTORY: the team whose ship it was bred or copied from.
Ships == [brain : Nat, team : Team, dummy : BOOLEAN, line : Team]

Kids(t) == {newTeams[t][i] : i \in DOMAIN newTeams[t]}

\* What a pool can breed without failing a check of epoch(): pairs are found by
\* their performance among more than two ships, copies do not outnumber the team.
CanBreed(p, n) ==
  /\ p.usePerfDesc => n # 2
  /\ p.numElite < n => p.numElite * p.numEliteCopies <= n

Init ==
  /\ phase = "fight"
  /\ pool \in [Team -> Layouts] /\ size \in [Team -> Sizes]
  /\ \A t \in Team : CanBreed(pool[t], size[t])
  /\ \E dummies \in SUBSET Team :
       teams = [t \in Team |->
                 {[brain |-> t * size[0] + i, team |-> t, dummy |-> t \in dummies,
                   line |-> t] : i \in 0..(size[t] - 1)}]
  /\ newTeams = [t \in Team |-> <<>>]
  /\ winner \in [Team -> IF Loaded THEN BOOLEAN ELSE {FALSE}]
  /\ next = size[0] + size[1]
  /\ alive = 0..(next - 1)
  /\ broken = FALSE
  /\ left = Generations
  /\ won = Nobody

-----------------------------------------------------------------------------
(***************************************************************************)
(* score(): the team that has kept more bases wins; a draw changes nothing.*)
(***************************************************************************)
\* BROKEN VARIANT of Winners: the loser is not reset.
WinnersKept(owned) ==
  IF owned[0] = owned[1] THEN winner
  ELSE [t \in Team |-> winner[t] \/ owned[t] > owned[Other(t)]]

Winners(owned) ==
  IF owned[0] = owned[1] THEN winner
  ELSE [t \in Team |-> owned[t] > owned[Other(t)]]

Score ==
  /\ phase = "fight" /\ left > 0
  /\ \E owned \in [Team -> 0..Bases] :
       /\ winner' = Winners(owned)
       /\ won' = IF owned[0] = owned[1] THEN Nobody
                 ELSE CHOOSE t \in Team : owned[t] > owned[Other(t)]
  /\ phase' = "epoch0"
  /\ UNCHANGED <<fixed, teams, newTeams, next, alive, broken, left>>

(***************************************************************************)
(* epoch(): one child for every ship, or the elite and then pairs of       *)
(* children until the team has its size again.                             *)
(***************************************************************************)
OneEach(t) == ~pool[t].initialized \/ size[t] = 1

\* BROKEN VARIANT of Elites: the elite may be odd.
ElitesOdd(t) ==
  IF winner[t] /\ ~pool[t].usePerfDesc /\ pool[t].numElite < size[t]
  THEN pool[t].numElite * pool[t].numEliteCopies ELSE 0

Elites(t) ==
  IF /\ winner[t] /\ ~pool[t].usePerfDesc /\ pool[t].numElite < size[t]
     /\ pool[t].numEliteCopies * (pool[t].numElite % 2) = 0
  THEN pool[t].numElite * pool[t].numEliteCopies ELSE 0

\* Whose child or copy each ship of the new generation is: of a different one
\* each; or the elite in copies, and mothers of two.
Parents(t) ==
  {p \in [1..size[t] -> teams[t]] :
     IF OneEach(t) THEN \A i, j \in 1..size[t] : p[i] = p[j] => i = j
     ELSE /\ \A i, j \in 1..Elites(t) :
               p[i] = p[j] <=> (i - 1) \div pool[t].numEliteCopies
                                 = (j - 1) \div pool[t].numEliteCopies
          /\ \A i \in Elites(t) + 1 .. size[t] - 1 :
               (i - Elites(t)) % 2 = 1 => p[i + 1] = p[i]}

\* crossover() makes two children also where there is room for one.
Surplus(t) == IF OneEach(t) THEN 0 ELSE (size[t] - Elites(t)) % 2

\* makeChild() and clone() keep the team and the layout.
Child(t, parent, brain) ==
  [brain |-> brain, team |-> parent.team, dummy |-> parent.dummy, line |-> t]

\* BROKEN VARIANT of Generate: both children of a pair always join the team.
GenerateAll(t, p) ==
  [i \in 1..(size[t] + Surplus(t)) |->
     Child(t, p[IF i > size[t] THEN size[t] ELSE i], next + i - 1)]

Generate(t, p) == [i \in 1..size[t] |-> Child(t, p[i], next + i - 1)]

Epoch(t, here, there) ==
  /\ phase = here
  /\ \E p \in Parents(t) : newTeams' = [newTeams EXCEPT ![t] = Generate(t, p)]
  /\ next' = next + size[t] + Surplus(t)
  /\ alive' = alive \cup (next .. next' - 1)
  /\ phase' = there
  /\ UNCHANGED <<fixed, teams, winner, broken, left, won>>

(***************************************************************************)
(* mate(): copies of the winner's first children replace the loser's last. *)
(***************************************************************************)
Brains(ships) == {s.brain : s \in ships}

\* destroy() of these ships' brains fails: one has been destroyed before.
Fails(ships) ==
  \E s \in ships : s.brain \notin alive \/ \E u \in ships \ {s} : u.brain = s.brain

BigEnough == \A t, u \in Team : Len(newTeams[t]) > pool[u].numElite

\* BROKEN VARIANT of Copied: the winner's dummies are copied as well.
CopiedAll(w) == 1..pool[w].numElite

\* The winner's children that are copied.
Copied(w) == {i \in 1..pool[w].numElite : ~newTeams[w][i].dummy}

\* Where the copy of the i-th goes, and which copy goes there.
Place(w, i) == Len(newTeams[Other(w)]) + 1 - i

\* BROKEN VARIANT of Copy: the copy shares its brain with the ship it is of.
CopyShared(w, i) == [newTeams[w][i] EXCEPT !.team = Other(w)]

Copy(w, i) == [Child(w, newTeams[w][i], next + i - 1) EXCEPT !.team = Other(w)]

Exchange(w) ==
  LET l == Other(w)
      places == {Place(w, i) : i \in Copied(w)}
      replaced == {newTeams[l][j] : j \in places} IN
  /\ newTeams' = [newTeams EXCEPT ![l] =
       [j \in DOMAIN newTeams[l] |->
          IF j \in places THEN Copy(w, Place(w, j)) ELSE newTeams[l][j]]]
  /\ alive' = (alive \ Brains(replaced)) \cup {next + i - 1 : i \in Copied(w)}
  /\ next' = next + pool[w].numElite
  /\ broken' = (broken \/ Fails(replaced))

Mate ==
  /\ phase = "mate"
  /\ IF BigEnough /\ winner[0] THEN Exchange(0)
     ELSE IF BigEnough /\ winner[1] THEN Exchange(1)
     ELSE UNCHANGED <<newTeams, alive, next, broken>>
  /\ phase' = "cleanup"
  /\ UNCHANGED <<fixed, teams, winner, left, won>>

(***************************************************************************)
(* cleanup(), and play() hands newTeams_ over to the next game.            *)
(***************************************************************************)
Cleanup ==
  /\ phase = "cleanup"
  /\ LET old == teams[0] \cup teams[1] IN
       /\ alive' = alive \ Brains(old)
       /\ broken' = (broken \/ Fails(old))
  /\ teams' = [t \in Team |-> Kids(t)]
  /\ newTeams' = [t \in Team |-> <<>>]
  /\ left' = left - 1
  /\ phase' = "fight"
  /\ UNCHANGED <<fixed, winner, next, won>>

Next ==
  \/ Score
  \/ Epoch(0, "epoch0", "epoch1")
  \/ Epoch(1, "epoch1", "mate")
  \/ Mate
  \/ Cleanup

Spec == Init /\ [][Next]_vars

-----------------------------------------------------------------------------
\* A team fights with as many ships as ever, all of them its own, and so does
\* the generation that epoch() and mate() make of it.
TypeOK ==
  /\ phase \in {"fight", "epoch0", "epoch1", "mate", "cleanup"}
  /\ pool \in [Team -> Layouts] /\ size \in [Team -> Sizes]
  /\ \A t \in Team :
       /\ teams[t] \subseteq {s \in Ships : s.team = t} /\ Cardinality(teams[t]) = size[t]
       /\ Kids(t) \subseteq {s \in Ships : s.team = t} /\ Len(newTeams[t]) \in {0, size[t]}
  /\ winner \in [Team -> BOOLEAN] /\ won \in Team \cup {Nobody}
  /\ next \in Nat /\ alive \subseteq 0..(next - 1)
  /\ broken \in BOOLEAN /\ left \in 0..Generations

\* No brain is destroyed twice, though mate() destroys some of a generation
\* and cleanup() of the next game the rest: CHECK(!destroyed_) of
\* BrainFann::destroy() holds.
DestroyedOnce == ~broken

\* Every ship has a brain that lives; and unless crossover() made a child too
\* many, for which a team of an odd size is needed, every brain that lives has
\* a ship: breeding does not leak.
BrainsHaveShips ==
  LET owned == Brains(teams[0] \cup teams[1] \cup Kids(0) \cup Kids(1)) IN
  /\ owned \subseteq alive
  /\ (\A t \in Team : OneEach(t) \/ size[t] % 2 = 0) => alive \subseteq owned

\* After a battle that was won no team adopts ships of the team that lost it,
\* whatever was won before: mate() trusts winner_, which score() maintains.
AdoptsFromWinner ==
  phase = "cleanup" /\ won # Nobody =>
    \A t \in Team : \A s \in Kids(t) : s.line # t => s.line = won

\* A team of ships that think never gets a dummy, which would breed on in it:
\* mate() passes over the winner's dummies, epoch() breeds from the team alone.
AllThink(ships) == \A s \in ships : ~s.dummy
FightersStay == [][\A t \in Team : AllThink(teams[t]) => AllThink(teams'[t])]_vars

\* "copy some from winner to loser" (src/game.cpp:81): ships change teams only
\* after a battle that somebody won.  Violated: after a draw winner_ is still
\* that of an earlier battle.
DrawsChangeNothing ==
  phase = "cleanup" /\ won = Nobody => \A t \in Team : \A s \in Kids(t) : s.line = t

=============================================================================
