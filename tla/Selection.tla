------------------------------ MODULE Selection ------------------------------
(***************************************************************************)
(* Who has children, and what they inherit: GeneticPool::epoch() of a pool *)
(* that breeds.  Generation.tla leaves both open.                          *)
(*                                                                         *)
(* Fitness is an integer instead of a double, so the roulette wheel has    *)
(* finitely many slices and its sums do not round; a performance           *)
(* descriptor is a place on a line instead of one in four dimensions.  A   *)
(* gene is known by the parent it comes from, which is what mutate() does  *)
(* not change.                                                             *)
(***************************************************************************)
EXTENDS Integers, Sequences, FiniteSets, Functions

CONSTANTS
  Size,         \* ships of the team
  Values,       \* fitness a ship may earn
  Places,       \* performance descriptors a ship may earn
  Layouts,      \* the layouts the pool may have
  Brains,       \* numBrains_ + 1 networks of a ship
  Genes,        \* weights of each
  Generations   \* BOUND: epochs

Unset == 9999999   \* what lowestSoFar starts with, more than any fitness

ASSUME SelectionAssumption ==
  /\ Size \in Nat \ {0, 1} /\ Values \subseteq -Unset..(Unset - 1) /\ Places \subseteq Nat
  /\ Layouts \subseteq [usePerfDesc : BOOLEAN, numElite : Nat, numEliteCopies : Nat,
                        crossoverIterations : Nat]
  /\ \A l \in Layouts : /\ l.usePerfDesc => Size > 2
                        /\ l.numElite < Size => l.numElite * l.numEliteCopies <= Size
  /\ Brains \in Nat \ {0} /\ Genes \in Nat \ {0}
  /\ Generations \in Nat

VARIABLES
  phase,
  layout,   \* layout_ of the pool
  team,     \* fitness_ and perfDesc_ of each ship, in the order of the population
  winner,
  stats,    \* stats_ of the population
  at,       \* ships that calculateStatistics() has visited
  highest,  \* highestSoFar of its loop
  lowest,   \* lowestSoFar
  elite,    \* which ship each copy at the head of the new population is of
  born,     \* ships of the new population
  mum, dad, \* 0 while not picked, Nobody when pickSpecimen() found nobody
  brain, lastCut, cross, \* the loops of crossover()
  points,   \* crossPoints of each network, {Nobody} where nothing is crossed
  ahead,    \* the points that are still to come
  babies,   \* where each gene of the two comes from
  left      \* epochs left

parents == <<mum, dad>>
crossing == <<brain, lastCut, cross, points, ahead, babies>>
tally == <<at, highest, lowest>>
vars == <<phase, layout, team, winner, stats, tally, elite, born, parents, crossing, left>>

Ships == 1..Size
Nobody == -1

Least(f, set) == CHOOSE v \in {f[i] : i \in set} : \A i \in set : v <= f[i]

Fitness == [i \in Ships |-> team[i].fitness]
Fresh == [b \in 1..Brains |-> [g \in 1..Genes |-> "random"]]
NoPoints == [b \in 1..Brains |-> {Nobody}]
NoStats == [total |-> 0, best |-> 0, worst |-> Unset, fittest |-> 0]

Init ==
  /\ phase = "fight" /\ winner = FALSE
  /\ team = [i \in Ships |-> [fitness |-> 0, place |-> 0]]
  /\ stats = NoStats
  /\ at = 0 /\ highest = 0 /\ lowest = Unset
  /\ elite = <<>> /\ born = 0 /\ mum = 0 /\ dad = 0
  /\ layout \in Layouts
  /\ brain = 0 /\ lastCut = 0 /\ cross = FALSE /\ points = NoPoints /\ ahead = {}
  /\ babies = <<Fresh, Fresh>> /\ left = Generations

-----------------------------------------------------------------------------
(***************************************************************************)
(* The old generation is judged, sorted and counted.                       *)
(***************************************************************************)
\* BROKEN VARIANT of Reset: the statistics of the last generation stay.
ResetNot == stats
Reset == NoStats

\* calculateFitness(), after stats_.reset().
Judge ==
  /\ phase = "fight" /\ left > 0 /\ left' = left - 1
  /\ \E fitness \in [Ships -> Values], place \in [Ships -> Places] :
       team' = [i \in Ships |-> [fitness |-> fitness[i], place |-> place[i]]]
  /\ winner' \in BOOLEAN
  /\ stats' = Reset
  /\ phase' = "sort"
  /\ UNCHANGED <<layout, tally, elite, born, parents, crossing>>

\* BROKEN VARIANT of Sorted: the team stays in the order it fought in.
SortedNot(t) == {t}

\* std::sort() by fitness, the least first; equals end up in any order.
Sorted(t) ==
  {[i \in Ships |-> t[p[i]]] :
     p \in {q \in [Ships -> Ships] :
              /\ \A i, j \in Ships : q[i] = q[j] => i = j
              /\ \A i, j \in Ships : i < j => t[q[i]].fitness <= t[q[j]].fitness}}

Sort ==
  /\ phase = "sort" /\ phase' = "count"
  /\ team' \in Sorted(team)
  /\ at' = 0 /\ highest' = 0 /\ lowest' = Unset
  /\ UNCHANGED <<layout, winner, stats, elite, born, parents, crossing, left>>

\* One turn of the loop of calculateStatistics().
Count ==
  /\ phase = "count" /\ at < Size /\ at' = at + 1
  /\ LET f == team[at'].fitness
         higher == highest = 0 \/ f > highest
         lower == f < lowest
     IN /\ highest' = IF higher THEN f ELSE highest
        /\ lowest' = IF lower THEN f ELSE lowest
        /\ stats' = [total |-> stats.total + f,
                     best |-> IF higher THEN f ELSE stats.best,
                     worst |-> IF lower THEN f ELSE stats.worst,
                     fittest |-> IF higher THEN at' ELSE stats.fittest]
  /\ UNCHANGED <<phase, layout, team, winner, elite, born, parents, crossing, left>>

\* The ship that the k-th copy of copyNBest() is of.
EliteOf(k) == Size - (layout.numElite - 1 - (k - 1) \div layout.numEliteCopies)

HasElite ==
  /\ winner /\ ~layout.usePerfDesc /\ layout.numElite < Size
  /\ layout.numEliteCopies * (layout.numElite % 2) = 0

CopyElite ==
  /\ phase = "count" /\ at = Size /\ phase' = "mum"
  /\ elite' = IF HasElite
              THEN [k \in 1..(layout.numElite * layout.numEliteCopies) |-> EliteOf(k)] ELSE <<>>
  /\ born' = Len(elite')
  /\ UNCHANGED <<layout, team, winner, stats, tally, parents, crossing, left>>

-----------------------------------------------------------------------------
(***************************************************************************)
(* pickSpecimen(), a roulette wheel.                                       *)
(***************************************************************************)
\* BROKEN VARIANT of Share: a ship's share is its fitness.
ShareOfAll(set, i) == team[i].fitness

\* How much of the wheel a ship of the set has.
Share(set, i) == team[i].fitness - Least(Fitness, set)

\* How much of it the ships of the set have up to i, in the order of the team.
Reach(set, i) == SumFunctionOnSet([j \in set |-> Share(set, j)], {j \in set : j <= i})

\* The ship that a slice belongs to: the first with which the shares add up to it.
Picked(set, slice) ==
  LET enough == {i \in set : Reach(set, i) >= slice}
  IN IF enough = {} THEN Nobody ELSE CHOOSE i \in enough : \A j \in enough : i <= j

\* fRand() between 0 and the size of the wheel.  The least fitness is computed on
\* the spot, but the total of the population is that of its statistics.
Slices(set, total) ==
  LET wheel == total - Least(Fitness, set) * Cardinality(set)
  IN 0..wheel \cup wheel..0

PickMum ==
  /\ phase = "mum" /\ born < Size
  /\ \E slice \in Slices(Ships, stats.total) : mum' = Picked(Ships, slice)
  /\ phase' = IF mum' = Nobody THEN "failed" ELSE "dad"
  /\ UNCHANGED <<layout, team, winner, stats, tally, elite, born, dad, crossing, left>>

Distance(i, j) ==
  IF team[i].place < team[j].place THEN team[j].place - team[i].place
  ELSE team[i].place - team[j].place

\* BROKEN VARIANT of Mates: any ship may be the closest, the mother too.
MatesOfSelf(i) == {j \in Ships : Distance(i, j) = 0}

\* findClosestMate(), which passes over the root of the tree, the first ship of
\* the team, and the ships in half again that distance, the mother among them.
\* Two ships at the same place count as a hundredth apart.
Mates(i) ==
  LET closest == Least([j \in Ships |-> Distance(i, j)], Ships \ {i, 1})
  IN {j \in Ships : 2 * Distance(i, j) <= 3 * closest}

PickDad ==
  /\ phase = "dad"
  /\ LET set == IF layout.usePerfDesc THEN Mates(mum) ELSE Ships
         total == IF layout.usePerfDesc THEN SumFunctionOnSet(Fitness, set) ELSE stats.total
     IN \E slice \in Slices(set, total) : dad' = Picked(set, slice)
  /\ phase' = IF dad' = Nobody THEN "failed" ELSE "cross"
  /\ brain' = 1 /\ babies' = <<Fresh, Fresh>> /\ points' = NoPoints
  /\ lastCut' = 0 /\ cross' = FALSE /\ ahead' = {}
  /\ UNCHANGED <<layout, team, winner, stats, tally, elite, born, mum, left>>

-----------------------------------------------------------------------------
(***************************************************************************)
(* crossover(), network by network.                                        *)
(***************************************************************************)
\* The second baby gets what the first does not.
Inherit(from, to, mums) ==
  LET Of(mine) == [babies[IF mine THEN 1 ELSE 2] EXCEPT ![brain] =
                     [g \in 1..Genes |-> IF g - 1 \in from..(to - 1)
                        THEN (IF mums = mine THEN "mum" ELSE "dad")
                        ELSE babies[IF mine THEN 1 ELSE 2][brain][g]]]
  IN babies' = <<Of(TRUE), Of(FALSE)>>

\* Without luck, or when mother and father are the same ship or fought from the
\* same spot, nothing is crossed.
Copy ==
  /\ phase = "cross" /\ brain <= Brains /\ brain' = brain + 1
  /\ Inherit(0, Genes, TRUE)
  /\ UNCHANGED <<phase, layout, team, winner, stats, tally, elite, born, parents,
                 lastCut, cross, points, ahead, left>>

\* BROKEN VARIANT of Uncrossed: the next network goes on where the last one ended.
UncrossedNot == cross
Uncrossed == FALSE

\* crossPoints: random places, some of them the same.
Draw ==
  /\ phase = "cross" /\ brain <= Brains /\ mum # dad
  /\ \E set \in SUBSET (0..(Genes - 1)) :
       /\ Cardinality(set) <= layout.crossoverIterations
       /\ set = {} => layout.crossoverIterations = 0
       /\ points' = [points EXCEPT ![brain] = set] /\ ahead' = set
  /\ lastCut' = 0 /\ cross' = Uncrossed
  /\ phase' = "cut"
  /\ UNCHANGED <<layout, team, winner, stats, tally, elite, born, parents, brain, babies, left>>

\* One turn of the loop over the points.
Cut ==
  /\ phase = "cut" /\ ahead # {}
  /\ LET cut == Least([c \in ahead |-> c], ahead)
     IN Inherit(lastCut, cut, cross) /\ lastCut' = cut /\ ahead' = ahead \ {cut}
  /\ cross' = ~cross
  /\ UNCHANGED <<phase, layout, team, winner, stats, tally, elite, born, parents, brain, points,
                 left>>

\* What is left after the last point.
Remainder ==
  /\ phase = "cut" /\ ahead = {} /\ phase' = "cross" /\ brain' = brain + 1
  /\ Inherit(lastCut, Genes, cross)
  /\ UNCHANGED <<layout, team, winner, stats, tally, elite, born, parents,
                 lastCut, cross, points, ahead, left>>

\* BROKEN VARIANT of Joined: the second baby joins without room.
JoinedBoth == born + 2
Joined == IF born + 1 < Size THEN born + 2 ELSE born + 1

\* mutate(), and the babies join the new population, the second if there is room.
Bear ==
  /\ phase = "cross" /\ brain > Brains
  /\ born' = Joined
  /\ mum' = 0 /\ dad' = 0 /\ babies' = <<Fresh, Fresh>> /\ brain' = 0 /\ points' = NoPoints
  /\ lastCut' = 0 /\ cross' = FALSE /\ ahead' = {}
  /\ phase' = "mum"
  /\ UNCHANGED <<layout, team, winner, stats, tally, elite, left>>

\* The new population, with the statistics of the old one, fights.
Finish ==
  /\ phase = "mum" /\ born >= Size /\ born' = 0 /\ elite' = <<>>
  /\ phase' = "fight"
  /\ UNCHANGED <<layout, team, winner, stats, tally, parents, crossing, left>>

\* The training is over.
Rest == phase = "fight" /\ left = 0 /\ UNCHANGED vars

Next ==
  \/ Judge \/ Sort \/ Count \/ CopyElite \/ PickMum \/ PickDad
  \/ Copy \/ Draw \/ Cut \/ Remainder \/ Bear \/ Finish
  \/ Rest

Spec == Init /\ [][Next]_vars

-----------------------------------------------------------------------------
\* Types; a new generation is never larger than the old one.
TypeOK ==
  /\ phase \in {"fight", "sort", "count", "mum", "dad", "cross", "cut", "failed"}
  /\ layout \in Layouts /\ winner \in BOOLEAN
  /\ team \in [Ships -> [fitness : Int, place : Nat]]
  /\ stats \in [total : Int, best : Int, worst : Int, fittest : 0..Size]
  /\ at \in 0..Size /\ highest \in Int /\ lowest \in Int
  /\ elite \in Seq(Ships) /\ Len(elite) <= born /\ born \in 0..Size
  /\ mum \in Ships \cup {0, Nobody} /\ dad \in Ships \cup {0, Nobody}
  /\ brain \in 0..(Brains + 1) /\ lastCut \in 0..(Genes - 1) /\ cross \in BOOLEAN
  /\ points \in [1..Brains -> SUBSET (-1..(Genes - 1))] /\ ahead \subseteq 0..(Genes - 1)
  /\ babies \in [1..2 -> [1..Brains -> [1..Genes -> {"mum", "dad", "random"}]]]
  /\ left \in 0..Generations

\* The wheel always stops at a ship: "CHECK(false)" of pickSpecimen() is not
\* reached, though the population's wheel is as large as its statistics say,
\* which were counted before, and fitness may be negative.
WheelStops == phase # "failed"

\* The statistics tell the best, the worst and the total of the generation.
\* highestSoFar starts with 0 and takes a 0 for no ship yet: that comes out
\* right only because the team is sorted.
StatsAreTrue ==
  phase \notin {"fight", "sort"} /\ at = Size =>
    /\ \A i \in Ships : stats.worst <= team[i].fitness /\ team[i].fitness <= stats.best
    /\ team[stats.fittest].fitness = stats.best
    /\ \E i \in Ships : stats.worst = team[i].fitness
    /\ stats.total = SumFunctionOnSet(Fitness, Ships)

\* A ship that did better than another is not picked with fewer slices, and with
\* at least one.
PickedFairly ==
  phase = "mum" /\ born < Size =>
    LET Slots(i) == {slice \in Slices(Ships, stats.total) : Picked(Ships, slice) = i}
    IN \A i, j \in Ships :
         team[i].fitness > team[j].fitness =>
           Slots(i) # {} /\ Cardinality(Slots(i)) >= Cardinality(Slots(j))

\* A mother that is to be paired by performance has the ship that is closest to
\* her among the mates, although the search for it may have passed over it.
ClosestIsMate ==
  phase = "dad" /\ layout.usePerfDesc =>
    \E j \in Ships \ {mum} :
      j \in Mates(mum) /\ \A i \in Ships \ {mum} : Distance(mum, j) <= Distance(mum, i)

\* Two babies share out the genes of their parents: none is lost, doubled or
\* left random.  Genes change sides exactly at the points, and every network
\* starts on the same side.
GenesAreShared ==
  phase = "cross" =>
    \A b \in 1..(brain - 1), g \in 1..Genes :
      /\ {babies[1][b][g], babies[2][b][g]} = {"mum", "dad"}
      /\ (babies[1][b][g] = "mum") <=> (Cardinality({p \in points[b] : p < g}) % 2 = 1)
=============================================================================
