--------------------------- MODULE SelectionProofs ---------------------------
(***************************************************************************)
(* Selection, for every size of the team, whatever fitness, descriptors    *)
(* and layout: types, true statistics, a fair wheel that always stops, the *)
(* closest mate, and genes that are shared out.                            *)
(***************************************************************************)
EXTENDS Selection, SumProofs

LEMMA SelectionFacts ==
  /\ Size \in Nat /\ Size > 1 /\ Brains \in Nat /\ Brains > 0 /\ Genes \in Nat /\ Genes > 0
  /\ Unset \in Nat /\ Unset > 0
  /\ Generations \in Nat /\ Values \subseteq -Unset..(Unset - 1) /\ Places \subseteq Nat
  /\ \A l \in Layouts : /\ l.numElite \in Nat /\ l.numEliteCopies \in Nat
                        /\ l.crossoverIterations \in Nat /\ l.usePerfDesc \in BOOLEAN
                        /\ l.usePerfDesc => Size > 2
                        /\ l.numElite < Size => l.numElite * l.numEliteCopies <= Size
<1>1. Unset \in Nat /\ Unset > 0
  BY SMT DEF Unset
<1> QED BY <1>1, SelectionAssumption

LEMMA SetsFinite ==
  /\ IsFiniteSet(Ships)
  /\ \A set \in SUBSET Ships : IsFiniteSet(set)
<1>1. IsFiniteSet(Ships)
  BY SelectionFacts, FS_Interval DEF Ships
<1> QED BY <1>1, FS_Subset

-----------------------------------------------------------------------------
(***************************************************************************)
(* Least elements.                                                         *)
(***************************************************************************)
LEMMA LeastMember ==
  ASSUME NEW S, IsFiniteSet(S), S # {}, NEW f, \A x \in S : f[x] \in Int
  PROVE  \E x \in S : \A y \in S : f[x] <= f[y]
<1> DEFINE bad == {T \in SUBSET S : T # {} /\ ~\E x \in T : \A y \in T : f[x] <= f[y]}
<1>1. SUFFICES ASSUME bad # {} PROVE FALSE
  OBVIOUS
<1>2. bad \subseteq SUBSET S
  OBVIOUS
<1> HIDE DEF bad
<1>3. PICK T \in bad : \A U \in SUBSET T : U # T => U \notin bad
  BY <1>1, <1>2, SmallestSubset
<1>4. T \in SUBSET S /\ T # {} /\ ~\E x \in T : \A y \in T : f[x] <= f[y]
  BY DEF bad
<1>5. PICK a \in T : TRUE
  BY <1>4
<1>6. f[a] \in Int
  BY <1>4
<1>7. CASE T \ {a} = {}
  BY <1>4, <1>5, <1>6, <1>7
<1>8. CASE T \ {a} # {}
  <2>1. T \ {a} \notin bad
    BY <1>3, <1>5
  <2>2. PICK m \in T \ {a} : \A y \in T \ {a} : f[m] <= f[y]
    BY <1>4, <1>8, <2>1 DEF bad
  <2>3. f[m] \in Int /\ \A y \in T : f[y] \in Int
    BY <1>4
  <2>4. CASE f[m] <= f[a]
    BY <1>4, <2>2, <2>4
  <2>5. CASE f[a] <= f[m]
    BY <1>4, <1>6, <2>2, <2>3, <2>5
  <2> QED BY <1>6, <2>3, <2>4, <2>5
<1> QED BY <1>7, <1>8

\* Least is the value of a member, and no member has less.
LEMMA LeastOf ==
  ASSUME NEW set, IsFiniteSet(set), set # {}, NEW f, \A x \in set : f[x] \in Int
  PROVE  /\ \E x \in set : Least(f, set) = f[x]
         /\ \A x \in set : Least(f, set) <= f[x]
<1>1. PICK x \in set : \A y \in set : f[x] <= f[y]
  BY LeastMember
<1>2. \E v \in {f[i] : i \in set} : \A i \in set : v <= f[i]
  BY <1>1
<1> QED BY <1>2 DEF Least

\* A set of ships has a first one.
LEMMA FirstOf ==
  ASSUME NEW set \in SUBSET Ships, set # {}
  PROVE  \E i \in set : \A j \in set : i <= j
<1>1. \A x \in set : [i \in set |-> i][x] \in Int
  BY SelectionFacts DEF Ships
<1>2. PICK i \in set : \A j \in set : [k \in set |-> k][i] <= [k \in set |-> k][j]
  BY <1>1, SetsFinite, LeastMember
<1> QED BY <1>2

\* Who a slice belongs to.
LEMMA PickedIs ==
  ASSUME NEW set \in SUBSET Ships, NEW slice
  PROVE  /\ Picked(set, slice) \in set \cup {Nobody}
         /\ Picked(set, slice) # Nobody =>
              /\ Picked(set, slice) \in set /\ Reach(set, Picked(set, slice)) >= slice
              /\ \A j \in set : Reach(set, j) >= slice => Picked(set, slice) <= j
         /\ (\E i \in set : Reach(set, i) >= slice) => Picked(set, slice) \in set
<1> DEFINE enough == {i \in set : Reach(set, i) >= slice}
<1>1. CASE enough = {}
  BY <1>1 DEF Picked
<1>2. CASE enough # {}
  <2>1. \E i \in enough : \A j \in enough : i <= j
    BY <1>2, FirstOf
  <2>2. /\ Picked(set, slice) \in enough
        /\ \A j \in enough : Picked(set, slice) <= j
    BY <1>2, <2>1 DEF Picked
  <2> QED BY <2>2
<1> QED BY <1>1, <1>2

-----------------------------------------------------------------------------
(***************************************************************************)
(* Types.                                                                  *)
(***************************************************************************)
FitOf(i) == team[i].fitness
Judged == phase \notin {"fight", "sort"}
Bearing == phase \in {"dad", "cross", "cut"}

StateInv ==
  /\ \A i \in Ships : FitOf(i) \in -Unset..(Unset - 1)
  /\ Bearing => born < Size /\ mum \in Ships
  /\ phase = "cross" => brain \in 1..(Brains + 1)
  /\ phase = "cut" => brain \in 1..Brains

TypeTeam ==
  /\ phase \in {"fight", "sort", "count", "mum", "dad", "cross", "cut", "failed"}
  /\ layout \in Layouts /\ winner \in BOOLEAN
  /\ team \in [Ships -> [fitness : Int, place : Nat]]
TypeCount ==
  /\ stats \in [total : Int, best : Int, worst : Int, fittest : 0..Size]
  /\ at \in 0..Size /\ highest \in Int /\ lowest \in Int
TypeBirth ==
  /\ elite \in Seq(Ships) /\ Len(elite) <= born /\ born \in 0..Size
  /\ mum \in Ships \cup {0, Nobody} /\ dad \in Ships \cup {0, Nobody}
  /\ left \in 0..Generations
TypePoints ==
  /\ brain \in 0..(Brains + 1) /\ lastCut \in 0..(Genes - 1) /\ cross \in BOOLEAN
  /\ points \in [1..Brains -> SUBSET (-1..(Genes - 1))] /\ ahead \subseteq 0..(Genes - 1)
Baby == [1..Brains -> [1..Genes -> {"mum", "dad", "random"}]]
TypeBabies == babies \in [1..2 -> Baby]

TypeInv == TypeTeam /\ TypeCount /\ TypeBirth /\ TypePoints /\ TypeBabies /\ StateInv

\* What Inherit does, gene by gene.
LEMMA InheritIs ==
  ASSUME babies \in [1..2 -> Baby], brain \in 1..Brains,
         NEW from, NEW to, NEW mums \in BOOLEAN, Inherit(from, to, mums)
  PROVE  /\ babies' \in [1..2 -> Baby]
         /\ \A b \in 1..Brains, g \in 1..Genes :
              IF b = brain /\ g - 1 \in from..(to - 1)
              THEN /\ babies'[1][b][g] = IF mums THEN "mum" ELSE "dad"
                   /\ babies'[2][b][g] = IF mums THEN "dad" ELSE "mum"
              ELSE babies'[1][b][g] = babies[1][b][g] /\ babies'[2][b][g] = babies[2][b][g]
<1> DEFINE row(m, mine) == [g \in 1..Genes |-> IF g - 1 \in from..(to - 1)
                              THEN (IF mums = mine THEN "mum" ELSE "dad")
                              ELSE babies[m][brain][g]]
           one == [babies[1] EXCEPT ![brain] = row(1, TRUE)]
           two == [babies[2] EXCEPT ![brain] = row(2, FALSE)]
<1>1. babies' = <<one, two>>
  BY DEF Inherit
<1>2. babies[1] \in Baby /\ babies[2] \in Baby
  OBVIOUS
<1>3. \A m \in {1, 2}, mine \in BOOLEAN :
        row(m, mine) \in [1..Genes -> {"mum", "dad", "random"}]
  <2> SUFFICES ASSUME NEW m \in {1, 2}, NEW mine \in BOOLEAN, NEW g \in 1..Genes
               PROVE  babies[m][brain][g] \in {"mum", "dad", "random"}
    OBVIOUS
  <2>1. babies[m] \in Baby
    BY <1>2
  <2>2. babies[m][brain] \in [1..Genes -> {"mum", "dad", "random"}]
    BY <2>1 DEF Baby
  <2> QED BY <2>2
<1>4. /\ one \in Baby /\ one[brain] = row(1, TRUE)
      /\ \A b \in 1..Brains \ {brain} : one[b] = babies[1][b]
  BY <1>2, <1>3 DEF Baby
<1>5. /\ two \in Baby /\ two[brain] = row(2, FALSE)
      /\ \A b \in 1..Brains \ {brain} : two[b] = babies[2][b]
  BY <1>2, <1>3 DEF Baby
<1>6. \A g \in 1..Genes :
        /\ row(1, TRUE)[g] = IF g - 1 \in from..(to - 1) THEN (IF mums THEN "mum" ELSE "dad")
                             ELSE babies[1][brain][g]
        /\ row(2, FALSE)[g] = IF g - 1 \in from..(to - 1) THEN (IF mums THEN "dad" ELSE "mum")
                              ELSE babies[2][brain][g]
  OBVIOUS
<1> HIDE DEF one, two, row
<1>7. babies'[1] = one /\ babies'[2] = two /\ babies' \in [1..2 -> Baby]
  BY <1>1, <1>4, <1>5
<1> SUFFICES ASSUME NEW b \in 1..Brains, NEW g \in 1..Genes
             PROVE  IF b = brain /\ g - 1 \in from..(to - 1)
                    THEN /\ babies'[1][b][g] = IF mums THEN "mum" ELSE "dad"
                         /\ babies'[2][b][g] = IF mums THEN "dad" ELSE "mum"
                    ELSE /\ babies'[1][b][g] = babies[1][b][g]
                         /\ babies'[2][b][g] = babies[2][b][g]
  BY <1>7
<1>8. CASE b = brain
  BY <1>4, <1>5, <1>6, <1>7, <1>8
<1>9. CASE b # brain
  <2>1. one[b] = babies[1][b] /\ two[b] = babies[2][b]
    BY <1>4, <1>5, <1>9
  <2> QED BY <1>7, <1>9, <2>1
<1> QED BY <1>8, <1>9

\* What the babies start with.
LEMMA NothingCrossed ==
  /\ <<Fresh, Fresh>> \in [1..2 -> Baby]
  /\ NoPoints \in [1..Brains -> SUBSET (-1..(Genes - 1))]
<1>1. Fresh \in Baby
  BY DEF Fresh, Baby
<1>2. {Nobody} \in SUBSET (-1..(Genes - 1))
  BY SelectionFacts DEF Nobody
<1> QED BY <1>1, <1>2 DEF NoPoints

LEMMA InitTypes ==
  Init => TypeInv
<1> SUFFICES ASSUME Init PROVE TypeInv
  OBVIOUS
<1> USE SelectionFacts
<1>1. TypeTeam
  <2>1. [fitness |-> 0, place |-> 0] \in [fitness : Int, place : Nat]
    OBVIOUS
  <2> QED BY <2>1 DEF TypeTeam, Init
<1>2. TypeCount
  BY DEF TypeCount, Init, NoStats
<1>3. TypeBirth
  BY DEF TypeBirth, Init
<1>4. TypePoints
  <2>1. brain = 0 /\ lastCut = 0 /\ cross = FALSE /\ points = NoPoints /\ ahead = {}
    BY DEF Init
  <2>2. 0 \in 0..(Brains + 1) /\ 0 \in 0..(Genes - 1)
    OBVIOUS
  <2> QED BY <2>1, <2>2, NothingCrossed DEF TypePoints
<1>5. TypeBabies
  BY NothingCrossed DEF TypeBabies, Init
<1>6. StateInv
  <2>1. \A i \in Ships : FitOf(i) = 0
    BY DEF Init, FitOf
  <2> QED BY <2>1 DEF Init, StateInv, Bearing
<1> QED BY <1>1, <1>2, <1>3, <1>4, <1>5, <1>6 DEF TypeInv

LEMMA JudgeTypes ==
  ASSUME TypeInv, Judge
  PROVE  TypeInv'
<1>1. PICK fitness \in [Ships -> Values], place \in [Ships -> Places] :
        team' = [i \in Ships |-> [fitness |-> fitness[i], place |-> place[i]]]
  BY DEF Judge
<1>2. \A i \in Ships : fitness[i] \in -Unset..(Unset - 1) /\ place[i] \in Nat
  BY SelectionFacts
<1>3. TypeTeam'
  <2>1. \A i \in Ships :
          [fitness |-> fitness[i], place |-> place[i]] \in [fitness : Int, place : Nat]
    BY <1>2, SelectionFacts
  <2> QED BY <1>1, <2>1 DEF TypeInv, TypeTeam, Judge
<1>4. TypeCount'
  BY SelectionFacts DEF TypeInv, TypeCount, Judge, Reset, NoStats, tally
<1>5. TypeBirth'
  BY SelectionFacts DEF TypeInv, TypeBirth, Judge, parents
<1>6. TypePoints' /\ TypeBabies'
  BY DEF TypeInv, TypePoints, TypeBabies, Judge, crossing
<1>7. StateInv'
  <2>1. \A i \in Ships : FitOf(i)' \in -Unset..(Unset - 1)
    BY <1>1, <1>2 DEF FitOf
  <2> QED BY <2>1 DEF Judge, StateInv, Bearing
<1> QED BY <1>3, <1>4, <1>5, <1>6, <1>7 DEF TypeInv

LEMMA SortTypes ==
  ASSUME TypeInv, Sort
  PROVE  TypeInv'
<1>1. PICK p \in [Ships -> Ships] : team' = [i \in Ships |-> team[p[i]]]
  BY DEF Sort, Sorted
<1>2. TypeTeam'
  BY <1>1 DEF TypeInv, TypeTeam, Sort
<1>3. TypeCount'
  BY SelectionFacts DEF TypeInv, TypeCount, Sort
<1>4. TypeBirth'
  BY DEF TypeInv, TypeBirth, Sort, parents
<1>5. TypePoints' /\ TypeBabies'
  BY DEF TypeInv, TypePoints, TypeBabies, Sort, crossing
<1>6. StateInv'
  <2>1. \A i \in Ships : FitOf(i)' \in -Unset..(Unset - 1)
    BY <1>1 DEF TypeInv, StateInv, FitOf
  <2> QED BY <2>1 DEF Sort, StateInv, Bearing
<1> QED BY <1>2, <1>3, <1>4, <1>5, <1>6 DEF TypeInv

LEMMA CountTypes ==
  ASSUME TypeInv, Count
  PROVE  TypeInv'
<1>1. at + 1 \in 1..Size /\ team[at + 1].fitness \in Int /\ at' = at + 1
  BY SelectionFacts DEF TypeInv, TypeTeam, TypeCount, Count, Ships
<1>2. TypeTeam'
  BY DEF TypeInv, TypeTeam, Count
<1>3. TypeCount'
  BY <1>1, SelectionFacts DEF TypeInv, TypeCount, Count
<1>4. TypeBirth'
  BY DEF TypeInv, TypeBirth, Count, parents
<1>5. TypePoints' /\ TypeBabies'
  BY DEF TypeInv, TypePoints, TypeBabies, Count, crossing
<1>6. StateInv'
  BY DEF TypeInv, StateInv, Bearing, FitOf, Count, crossing
<1> QED BY <1>2, <1>3, <1>4, <1>5, <1>6 DEF TypeInv

LEMMA EliteTypes ==
  ASSUME TypeInv, CopyElite
  PROVE  TypeInv'
<1>1. elite' \in Seq(Ships) /\ Len(elite') \in Nat /\ Len(elite') <= Size
  <2>1. CASE HasElite
    <3>1. PICK n \in Nat : n = layout.numElite
      BY SelectionFacts DEF TypeInv, TypeTeam
    <3>2. PICK c \in Nat : c = layout.numEliteCopies
      BY SelectionFacts DEF TypeInv, TypeTeam
    <3>3. n < Size /\ n * c <= Size
      BY <2>1, <3>1, <3>2, SelectionFacts DEF HasElite, TypeInv, TypeTeam
    <3>4. elite' = [k \in 1..(n * c) |-> EliteOf(k)]
      BY <2>1, <3>1, <3>2 DEF CopyElite
    <3>5. PICK m \in Nat : m = n * c
      OBVIOUS
    <3>6. ASSUME NEW k \in 1..m
          PROVE  EliteOf(k) \in Ships
      <4>1. c > 0
        BY <3>5, <3>6
      <4>2. PICK q \in Nat : q = (k - 1) \div c /\ c * q <= k - 1
        BY <3>6, <4>1
      <4>3. ~(q >= n)
        <5>1. q >= n => c * q >= n * c
          OBVIOUS
        <5> QED BY <3>5, <3>6, <4>2, <5>1
      <4>4. EliteOf(k) = Size - (n - 1 - q)
        BY <3>1, <3>2, <4>2 DEF EliteOf
      <4> QED BY <3>3, <4>3, <4>4, SelectionFacts DEF Ships
    <3>7. elite' \in [1..m -> Ships]
      BY <3>4, <3>5, <3>6
    <3>8. elite' \in Seq(Ships) /\ Len(elite') = m
      BY <3>7
    <3> QED BY <3>3, <3>5, <3>8
  <2>2. CASE ~HasElite
    <3>1. elite' = <<>>
      BY <2>2 DEF CopyElite
    <3> QED BY <3>1, SelectionFacts
  <2> QED BY <2>1, <2>2
<1>2. TypeTeam'
  BY DEF TypeInv, TypeTeam, CopyElite
<1>3. TypeCount'
  BY DEF TypeInv, TypeCount, CopyElite, tally
<1>4. TypeBirth'
  <2>1. born' = Len(elite') /\ born' \in 0..Size
    <3>1. born' = Len(elite')
      BY DEF CopyElite
    <3> QED BY <1>1, <3>1, SelectionFacts
  <2>2. left' = left /\ mum' = mum /\ dad' = dad
    BY DEF CopyElite, parents
  <2> QED BY <1>1, <2>1, <2>2 DEF TypeInv, TypeBirth
<1>5. TypePoints' /\ TypeBabies'
  BY DEF TypeInv, TypePoints, TypeBabies, CopyElite, crossing
<1>6. StateInv'
  BY DEF TypeInv, StateInv, Bearing, FitOf, CopyElite, crossing
<1> QED BY <1>2, <1>3, <1>4, <1>5, <1>6 DEF TypeInv

LEMMA MumTypes ==
  ASSUME TypeInv, PickMum
  PROVE  TypeInv'
<1>1. mum' \in Ships \cup {Nobody}
  BY PickedIs DEF PickMum
<1>2. Nobody \notin Ships
  BY DEF Nobody, Ships
<1>3. TypeTeam' /\ TypeCount'
  BY DEF TypeInv, TypeTeam, TypeCount, PickMum, tally
<1>4. TypeBirth'
  BY <1>1 DEF TypeInv, TypeBirth, PickMum
<1>5. TypePoints' /\ TypeBabies'
  BY DEF TypeInv, TypePoints, TypeBabies, PickMum, crossing
<1>6. StateInv'
  BY <1>1, <1>2 DEF TypeInv, StateInv, Bearing, FitOf, PickMum
<1> QED BY <1>3, <1>4, <1>5, <1>6 DEF TypeInv

LEMMA DadTypes ==
  ASSUME TypeInv, PickDad
  PROVE  TypeInv'
<1> DEFINE set == IF layout.usePerfDesc THEN Mates(mum) ELSE Ships
<1>1. set \subseteq Ships
  BY DEF Mates
<1>2. \E slice : dad' = Picked(set, slice)
  BY DEF PickDad
<1> HIDE DEF set
<1>3. dad' \in Ships \cup {Nobody}
  BY <1>1, <1>2, PickedIs
<1>4. /\ babies' = <<Fresh, Fresh>> /\ points' = NoPoints /\ brain' = 1 /\ lastCut' = 0
      /\ cross' = FALSE /\ ahead' = {} /\ phase = "dad" /\ phase' \in {"failed", "cross"}
      /\ UNCHANGED <<layout, team, winner, stats, tally, elite, born, mum, left>>
  BY DEF PickDad
<1>5. TypeTeam' /\ TypeCount'
  BY <1>4 DEF TypeInv, TypeTeam, TypeCount, tally
<1>6. TypeBirth'
  BY <1>3, <1>4 DEF TypeInv, TypeBirth
<1>7. TypePoints' /\ TypeBabies'
  <2>1. 1 \in 0..(Brains + 1) /\ 0 \in 0..(Genes - 1)
    BY SelectionFacts
  <2> QED BY <1>4, <2>1, NothingCrossed DEF TypePoints, TypeBabies
<1>8. StateInv'
  BY <1>4, SelectionFacts DEF TypeInv, StateInv, Bearing, FitOf
<1> QED BY <1>5, <1>6, <1>7, <1>8 DEF TypeInv

\* The next point is one of those ahead, and none of them is before it.
LEMMA CutIsAhead ==
  ASSUME TypeInv, ahead # {}
  PROVE  /\ Least([c \in ahead |-> c], ahead) \in ahead
         /\ \A c \in ahead : Least([d \in ahead |-> d], ahead) <= c
<1>1. ahead \subseteq 0..(Genes - 1)
  BY DEF TypeInv, TypePoints
<1>2. IsFiniteSet(ahead)
  <2>1. IsFiniteSet(0..(Genes - 1))
    BY SelectionFacts, FS_Interval
  <2> QED BY <1>1, <2>1, FS_Subset
<1>3. \A c \in ahead : [d \in ahead |-> d][c] \in Int
  BY <1>1
<1> QED BY <1>2, <1>3, LeastOf

LEMMA CrossTypes ==
  ASSUME TypeInv, Copy \/ Draw \/ Cut \/ Remainder
  PROVE  TypeInv'
<1>1. brain \in 0..(Brains + 1) /\ cross \in BOOLEAN /\ babies \in [1..2 -> Baby]
  BY DEF TypeInv, TypePoints, TypeBabies
<1>2. brain \in 1..Brains /\ Bearing /\ Bearing'
  <2>1. CASE Copy \/ Draw
    <3>1. phase = "cross" /\ brain <= Brains /\ phase' \in {"cross", "cut"}
      BY <2>1 DEF Copy, Draw
    <3>2. brain \in 1..(Brains + 1)
      BY <3>1 DEF TypeInv, StateInv
    <3> QED BY <3>1, <3>2, SelectionFacts DEF Bearing
  <2>2. CASE Cut \/ Remainder
    BY <2>2 DEF TypeInv, StateInv, Bearing, Cut, Remainder
  <2> QED BY <2>1, <2>2
<1>3. UNCHANGED <<layout, team, winner, stats, tally, elite, born, parents, left>>
  BY DEF Copy, Draw, Cut, Remainder
<1>4. TypeTeam' /\ TypeCount' /\ TypeBirth'
  BY <1>2, <1>3 DEF TypeInv, TypeTeam, TypeCount, TypeBirth, tally, parents, Bearing
<1>5. (\A i \in Ships : FitOf(i)' \in -Unset..(Unset - 1)) /\ born' < Size /\ mum' \in Ships
  BY <1>2, <1>3 DEF TypeInv, StateInv, FitOf, parents
<1>6. CASE Copy
  <2>1. TypePoints'
    BY <1>2, <1>6, SelectionFacts DEF TypeInv, TypePoints, Copy
  <2>2. TypeBabies'
    BY <1>1, <1>2, <1>6, InheritIs DEF Copy, TypeBabies
  <2>3. StateInv'
    BY <1>2, <1>5, <1>6, SelectionFacts DEF StateInv, Copy
  <2> QED BY <1>4, <2>1, <2>2, <2>3 DEF TypeInv
<1>7. CASE Draw
  <2>1. PICK set \in SUBSET (0..(Genes - 1)) :
          points' = [points EXCEPT ![brain] = set] /\ ahead' = set
    BY <1>7 DEF Draw
  <2>2. set \in SUBSET (-1..(Genes - 1))
    BY SelectionFacts
  <2>3. points' \in [1..Brains -> SUBSET (-1..(Genes - 1))]
    BY <1>2, <2>1, <2>2 DEF TypeInv, TypePoints
  <2>4. TypePoints'
    <3>1. brain' = brain /\ lastCut' = 0 /\ cross' = FALSE
      BY <1>7 DEF Draw, Uncrossed
    <3>2. 0 \in 0..(Genes - 1)
      BY SelectionFacts
    <3> QED BY <1>1, <2>1, <2>3, <3>1, <3>2 DEF TypePoints
  <2>5. TypeBabies'
    BY <1>1, <1>7 DEF Draw, TypeBabies
  <2>6. StateInv'
    BY <1>2, <1>5, <1>7 DEF StateInv, Draw
  <2> QED BY <1>4, <2>4, <2>5, <2>6 DEF TypeInv
<1>8. CASE Cut
  <2> DEFINE cut == Least([c \in ahead |-> c], ahead)
  <2>1. cut \in ahead
    BY <1>8, CutIsAhead DEF Cut
  <2>2. /\ Inherit(lastCut, cut, cross) /\ lastCut' = cut /\ ahead' = ahead \ {cut}
        /\ cross' = ~cross /\ phase' = "cut" /\ UNCHANGED <<brain, points>>
    BY <1>8 DEF Cut
  <2> HIDE DEF cut
  <2>3. TypePoints'
    BY <2>1, <2>2 DEF TypeInv, TypePoints
  <2>4. TypeBabies'
    BY <1>1, <1>2, <2>2, InheritIs DEF TypeBabies
  <2>5. StateInv'
    BY <1>2, <1>5, <2>2 DEF StateInv
  <2> QED BY <1>4, <2>3, <2>4, <2>5 DEF TypeInv
<1>9. CASE Remainder
  <2>1. TypePoints'
    BY <1>2, <1>9, SelectionFacts DEF TypeInv, TypePoints, Remainder
  <2>2. TypeBabies'
    BY <1>1, <1>2, <1>9, InheritIs DEF Remainder, TypeBabies
  <2>3. StateInv'
    BY <1>2, <1>5, <1>9, SelectionFacts DEF StateInv, Remainder
  <2> QED BY <1>4, <2>1, <2>2, <2>3 DEF TypeInv
<1> QED BY <1>6, <1>7, <1>8, <1>9

LEMMA BearTypes ==
  ASSUME TypeInv, Bear
  PROVE  TypeInv'
<1>1. TypeTeam' /\ TypeCount'
  BY DEF TypeInv, TypeTeam, TypeCount, Bear, tally
<1>2. born \in 0..Size /\ born < Size /\ Len(elite) <= born /\ elite \in Seq(Ships)
  BY DEF TypeInv, TypeBirth, StateInv, Bearing, Bear
<1>3. born' \in 0..Size /\ Len(elite) <= born'
  <2>1. Len(elite) \in Nat
    BY <1>2
  <2> QED BY <1>2, <2>1, SelectionFacts DEF Bear, Joined
<1>4. TypeBirth'
  BY <1>2, <1>3 DEF TypeInv, TypeBirth, Bear
<1>5. TypePoints' /\ TypeBabies'
  <2>1. /\ babies' = <<Fresh, Fresh>> /\ points' = NoPoints /\ brain' = 0 /\ lastCut' = 0
        /\ cross' = FALSE /\ ahead' = {}
    BY DEF Bear
  <2>2. 0 \in 0..(Brains + 1) /\ 0 \in 0..(Genes - 1)
    BY SelectionFacts
  <2> QED BY <2>1, <2>2, NothingCrossed DEF TypePoints, TypeBabies
<1>6. StateInv'
  BY DEF TypeInv, StateInv, Bearing, FitOf, Bear
<1> QED BY <1>1, <1>4, <1>5, <1>6 DEF TypeInv

LEMMA FinishTypes ==
  ASSUME TypeInv, Finish
  PROVE  TypeInv'
<1>1. TypeTeam' /\ TypeCount'
  BY DEF TypeInv, TypeTeam, TypeCount, Finish, tally
<1>2. TypeBirth'
  BY SelectionFacts DEF TypeInv, TypeBirth, Finish, parents
<1>3. TypePoints' /\ TypeBabies'
  BY DEF TypeInv, TypePoints, TypeBabies, Finish, crossing
<1>4. StateInv'
  BY DEF TypeInv, StateInv, Bearing, FitOf, Finish
<1> QED BY <1>1, <1>2, <1>3, <1>4 DEF TypeInv

LEMMA NextTypes ==
  TypeInv /\ [Next]_vars => TypeInv'
<1> SUFFICES ASSUME TypeInv, [Next]_vars PROVE TypeInv'
  OBVIOUS
<1>1. CASE UNCHANGED vars
  <2>1. TypeTeam' /\ TypeCount' /\ TypeBirth'
    BY <1>1 DEF TypeInv, TypeTeam, TypeCount, TypeBirth, vars, tally, parents
  <2>2. TypePoints' /\ TypeBabies'
    BY <1>1 DEF TypeInv, TypePoints, TypeBabies, vars, crossing
  <2>3. StateInv'
    BY <1>1 DEF TypeInv, StateInv, Bearing, FitOf, vars, parents, crossing
  <2> QED BY <2>1, <2>2, <2>3 DEF TypeInv
<1> QED BY <1>1, JudgeTypes, SortTypes, CountTypes, EliteTypes, MumTypes, DadTypes,
           CrossTypes, BearTypes, FinishTypes DEF Next, Rest

LEMMA SelectionTypes == Spec => []TypeInv
BY InitTypes, NextTypes, PTL DEF Spec

\* A new generation is never larger than the old one, its elite is of ships
\* of the old one, and no point of a crossover lies beyond the genes.
THEOREM GenerationsFit == Spec => []TypeOK
<1>1. TypeInv => TypeOK
  <2> SUFFICES ASSUME TypeInv PROVE TypeOK
    OBVIOUS
  <2>1. TypeTeam /\ TypeCount /\ TypeBirth /\ TypePoints /\ TypeBabies
    BY DEF TypeInv
  <2> QED BY <2>1 DEF TypeOK, TypeTeam, TypeCount, TypeBirth, TypePoints, TypeBabies, Baby
<1> QED BY <1>1, SelectionTypes, PTL

-----------------------------------------------------------------------------
(***************************************************************************)
(* The statistics.  While calculateStatistics() runs over a team that is   *)
(* sorted, the first ship has the least fitness so far and the last one    *)
(* the highest; a ship that takes the place of the fittest is as fit.      *)
(***************************************************************************)
TotalOf(n) == SumFunctionOnSet(Fitness, 1..n)

TeamSorted == Judged => \A i, j \in Ships : i < j => FitOf(i) <= FitOf(j)
CountedNone == Judged /\ at = 0 => stats = NoStats /\ highest = 0 /\ lowest = Unset
CountedSome ==
  Judged /\ at > 0 =>
    /\ lowest = FitOf(1) /\ highest = FitOf(at)
    /\ stats.worst = lowest /\ stats.best = highest
    /\ stats.fittest \in 1..at /\ FitOf(stats.fittest) = highest
    /\ stats.total = TotalOf(at)
CountedAll ==
  /\ phase = "sort" => stats = NoStats
  /\ phase \notin {"fight", "sort", "count"} => at = Size

CountInv == TeamSorted /\ CountedNone /\ CountedSome /\ CountedAll

\* One more ship in the total.
LEMMA TotalStep ==
  ASSUME TypeInv, NEW n \in Nat, n < Size
  PROVE  /\ TotalOf(n) \in Int /\ FitOf(n + 1) \in Int
         /\ TotalOf(n + 1) = FitOf(n + 1) + TotalOf(n)
         /\ TotalOf(0) = 0
<1>1. n + 1 \in Ships /\ \A i \in Ships : Fitness[i] \in Int /\ Fitness[i] = FitOf(i)
  BY SelectionFacts DEF TypeInv, StateInv, Fitness, FitOf, Ships
<1>2. 1..(n + 1) \subseteq Ships /\ n + 1 \in 1..(n + 1) /\ (1..(n + 1)) \ {n + 1} = 1..n
  BY SelectionFacts DEF Ships
<1>3. IsFiniteSet(1..(n + 1)) /\ IsFiniteSet(1..n)
  BY FS_Interval
<1>4. TotalOf(n + 1) = Fitness[n + 1] + TotalOf(n)
  BY <1>1, <1>2, <1>3, SumRemove DEF TotalOf
<1>5. TotalOf(n) \in Int
  BY <1>1, <1>2, <1>3, SumType DEF TotalOf
<1>6. 1..0 = {}
  OBVIOUS
<1> QED BY <1>1, <1>4, <1>5, <1>6, SumEmpty DEF TotalOf

LEMMA CountStep ==
  ASSUME TypeInv, TypeInv', CountInv, Count
  PROVE  CountInv'
<1> DEFINE f == FitOf(at + 1)
<1>1. at \in Nat /\ at < Size /\ at' = at + 1 /\ at + 1 \in Ships /\ 1 \in Ships /\ f \in Int
  BY SelectionFacts DEF TypeInv, TypeCount, Count, StateInv, Ships
<1>2. Judged /\ Judged' /\ phase = "count" /\ phase' = "count" /\ team' = team
  BY DEF Count, Judged
<1>3. \A i \in Ships : FitOf(i)' = FitOf(i) /\ FitOf(i) \in -Unset..(Unset - 1)
  BY <1>2 DEF FitOf, TypeInv, StateInv
<1>4. \A n \in Nat : TotalOf(n)' = TotalOf(n)
  BY <1>2 DEF TotalOf, Fitness
<1>5. TeamSorted' /\ \A i, j \in Ships : i < j => FitOf(i) <= FitOf(j)
  BY <1>2, <1>3 DEF CountInv, TeamSorted
<1>6. CountedNone' /\ CountedAll'
  BY <1>1, <1>2 DEF CountedNone, CountedAll
<1>7. /\ highest' = IF highest = 0 \/ f > highest THEN f ELSE highest
      /\ lowest' = IF f < lowest THEN f ELSE lowest
      /\ stats' = [total |-> stats.total + f,
                   best |-> IF highest = 0 \/ f > highest THEN f ELSE stats.best,
                   worst |-> IF f < lowest THEN f ELSE stats.worst,
                   fittest |-> IF highest = 0 \/ f > highest THEN at + 1 ELSE stats.fittest]
  BY <1>1 DEF Count, FitOf
<1>8. TotalOf(at) \in Int /\ TotalOf(at + 1) = f + TotalOf(at) /\ TotalOf(0) = 0
  BY <1>1, TotalStep
<1> HIDE DEF f
<1>9. CASE at = 0
  <2>1. stats = NoStats /\ highest = 0 /\ lowest = Unset
    BY <1>2, <1>9 DEF CountInv, CountedNone
  <2>2. at + 1 = 1 /\ f < Unset /\ f = FitOf(1)
    BY <1>1, <1>3, <1>9, SelectionFacts DEF f
  <2>3. /\ highest' = f /\ lowest' = f
        /\ stats' = [total |-> f, best |-> f, worst |-> f, fittest |-> 1]
    BY <1>1, <1>7, <2>1, <2>2 DEF NoStats
  <2> QED BY <1>1, <1>3, <1>4, <1>5, <1>6, <1>8, <1>9, <2>2, <2>3 DEF CountInv, CountedSome
<1>10. CASE at > 0
  <2>1. /\ lowest = FitOf(1) /\ highest = FitOf(at)
        /\ stats.worst = lowest /\ stats.best = highest
        /\ stats.fittest \in 1..at /\ FitOf(stats.fittest) = highest
        /\ stats.total = TotalOf(at)
    BY <1>2, <1>10 DEF CountInv, CountedSome
  <2>2. at \in Ships /\ 1 < at + 1 /\ at < at + 1
    BY <1>1, <1>10, SelectionFacts DEF Ships
  <2>3. FitOf(1) <= f /\ FitOf(at) <= f
    BY <1>1, <1>5, <2>2 DEF f
  <2>4. FitOf(1) \in Int /\ FitOf(at) \in Int
    BY <1>1, <1>3, <2>2, SelectionFacts
  <2>5. lowest' = FitOf(1) /\ highest' = f
    BY <1>1, <1>7, <2>1, <2>3, <2>4
  <2>6. stats'.worst = FitOf(1) /\ stats'.best = f /\ stats'.total = TotalOf(at + 1)
    BY <1>1, <1>7, <1>8, <2>1, <2>3, <2>4
  <2>7. stats'.fittest \in 1..(at + 1) /\ FitOf(stats'.fittest) = f
    <3>1. CASE highest = 0 \/ f > highest
      <4>1. stats'.fittest = at + 1
        BY <1>7, <3>1
      <4> QED BY <1>1, <4>1 DEF f
    <3>2. CASE ~(highest = 0 \/ f > highest)
      <4>1. stats'.fittest = stats.fittest
        BY <1>7, <3>2
      <4> QED BY <1>1, <2>1, <2>3, <2>4, <3>2, <4>1
    <3> QED BY <3>1, <3>2
  <2>8. stats'.fittest \in Ships
    BY <1>1, <2>7, SelectionFacts DEF Ships
  <2> QED BY <1>1, <1>3, <1>4, <1>5, <1>6, <2>5, <2>6, <2>7, <2>8 DEF CountInv, CountedSome, f
<1> QED BY <1>1, <1>9, <1>10

\* Nothing but the sort and the count touch what they are about.
LEMMA CountKept ==
  ASSUME CountInv, UNCHANGED <<team, stats, at, highest, lowest>>,
         Judged' => Judged, phase' # "sort",
         phase' \notin {"fight", "sort", "count"} => at = Size
  PROVE  CountInv'
<1>1. \A i : FitOf(i)' = FitOf(i) /\ TotalOf(i)' = TotalOf(i)
  BY DEF FitOf, TotalOf, Fitness
<1>2. TeamSorted'
  BY <1>1 DEF CountInv, TeamSorted
<1>3. CountedNone'
  BY DEF CountInv, CountedNone
<1>4. CountedSome'
  BY <1>1 DEF CountInv, CountedSome
<1>5. CountedAll'
  BY DEF CountedAll
<1> QED BY <1>2, <1>3, <1>4, <1>5 DEF CountInv

LEMMA SortStep ==
  ASSUME TypeInv, CountInv, Sort
  PROVE  CountInv'
<1>1. PICK p \in [Ships -> Ships] :
        /\ team' = [i \in Ships |-> team[p[i]]]
        /\ \A i, j \in Ships : i < j => team[p[i]].fitness <= team[p[j]].fitness
  BY DEF Sort, Sorted
<1>2. TeamSorted'
  BY <1>1 DEF TeamSorted, FitOf
<1>3. /\ phase = "sort" /\ phase' = "count" /\ stats' = stats
      /\ at' = 0 /\ highest' = 0 /\ lowest' = Unset
  BY DEF Sort
<1>4. CountedNone' /\ CountedSome' /\ CountedAll'
  BY <1>3 DEF CountInv, CountedNone, CountedSome, CountedAll, NoStats
<1> QED BY <1>2, <1>4 DEF CountInv

LEMMA CountInvStep ==
  TypeInv /\ TypeInv' /\ CountInv /\ [Next]_vars => CountInv'
<1> SUFFICES ASSUME TypeInv, TypeInv', CountInv, [Next]_vars PROVE CountInv'
  OBVIOUS
<1>1. CASE Judge
  BY <1>1 DEF Judge, Reset, CountInv, TeamSorted, CountedNone, CountedSome, CountedAll, Judged
<1>2. CASE CopyElite \/ PickMum \/ PickDad \/ Copy \/ Draw \/ Cut \/ Remainder \/ Bear \/ Finish
  <2>1. UNCHANGED <<team, stats, at, highest, lowest>>
    BY <1>2 DEF CopyElite, PickMum, PickDad, Copy, Draw, Cut, Remainder, Bear, Finish, tally
  <2>2. Judged /\ phase' # "sort"
    BY <1>2 DEF CopyElite, PickMum, PickDad, Copy, Draw, Cut, Remainder, Bear, Finish, Judged
  <2>3. at = Size
    BY <1>2 DEF CopyElite, PickMum, PickDad, Copy, Draw, Cut, Remainder, Bear, Finish,
                CountInv, CountedAll
  <2> QED BY <2>1, <2>2, <2>3, CountKept
<1>3. CASE UNCHANGED vars
  <2>1. UNCHANGED <<team, stats, at, highest, lowest, phase>>
    BY <1>3 DEF vars, tally
  <2>2. \A i : FitOf(i)' = FitOf(i) /\ TotalOf(i)' = TotalOf(i)
    BY <2>1 DEF FitOf, TotalOf, Fitness
  <2> QED BY <2>1, <2>2 DEF CountInv, TeamSorted, CountedNone, CountedSome, CountedAll,
                            Judged, NoStats
<1> QED BY <1>1, <1>2, <1>3, SortStep, CountStep DEF Next, Rest

LEMMA SelectionCounts == Spec => [](TypeInv /\ CountInv)
<1>1. Init => CountInv
  BY DEF Init, CountInv, TeamSorted, CountedNone, CountedSome, CountedAll, Judged
<1> QED BY <1>1, CountInvStep, SelectionTypes, PTL DEF Spec

\* Once every ship is counted.
LEMMA CountsTrue ==
  ASSUME TypeInv, CountInv, Judged, at = Size
  PROVE  /\ 1 \in Ships /\ Size \in Ships
         /\ \A i \in Ships : FitOf(1) <= FitOf(i) /\ FitOf(i) <= FitOf(Size)
         /\ stats.worst = FitOf(1) /\ stats.best = FitOf(Size)
         /\ stats.fittest \in Ships /\ FitOf(stats.fittest) = stats.best
         /\ stats.total = SumFunctionOnSet(Fitness, Ships)
<1>1. 1 \in Ships /\ Size \in Ships /\ at > 0
  BY SelectionFacts DEF Ships
<1>2. \A i, j \in Ships : i < j => FitOf(i) <= FitOf(j)
  BY DEF CountInv, TeamSorted
<1>3. \A i \in Ships : FitOf(i) \in Int
  BY SelectionFacts DEF TypeInv, StateInv
<1>4. ASSUME NEW i \in Ships
      PROVE  FitOf(1) <= FitOf(i) /\ FitOf(i) <= FitOf(Size)
  <2>1. (i = 1 \/ 1 < i) /\ (i = Size \/ i < Size)
    BY SelectionFacts DEF Ships
  <2> QED BY <1>1, <1>2, <1>3, <2>1
<1> QED BY <1>1, <1>4 DEF CountInv, CountedSome, TotalOf, Ships

\* The statistics tell the best, the worst and the total of the generation,
\* though calculateStatistics() takes a highest fitness of 0 for no ship yet.
THEOREM StatisticsHold == Spec => []StatsAreTrue
<1>1. TypeInv /\ CountInv => StatsAreTrue
  <2> SUFFICES ASSUME TypeInv, CountInv, Judged, at = Size
               PROVE  /\ \A i \in Ships : /\ stats.worst <= team[i].fitness
                                          /\ team[i].fitness <= stats.best
                      /\ team[stats.fittest].fitness = stats.best
                      /\ \E i \in Ships : stats.worst = team[i].fitness
                      /\ stats.total = SumFunctionOnSet(Fitness, Ships)
    BY DEF StatsAreTrue, Judged
  <2> QED BY CountsTrue DEF FitOf
<1> QED BY <1>1, SelectionCounts, PTL

-----------------------------------------------------------------------------
(***************************************************************************)
(* The roulette wheel.  Its size is that of all the shares, and the last   *)
(* ship of a set is reached only with all of them: no slice lies beyond.   *)
(***************************************************************************)
LEMMA FitnessIs ==
  ASSUME TypeInv
  PROVE  \A i \in Ships : Fitness[i] \in Int /\ Fitness[i] = FitOf(i) /\ FitOf(i) \in Int
BY SelectionFacts DEF TypeInv, StateInv, Fitness, FitOf

\* No share is negative.
LEMMA SharesAre ==
  ASSUME TypeInv, NEW set \in SUBSET Ships, set # {}
  PROVE  /\ Least(Fitness, set) \in Int
         /\ \A i \in set : Share(set, i) \in Nat /\ Share(set, i) = FitOf(i) - Least(Fitness, set)
         /\ \E i \in set : FitOf(i) = Least(Fitness, set)
<1>1. \A i \in set : Fitness[i] \in Int /\ Fitness[i] = FitOf(i)
  BY FitnessIs
<1>2. IsFiniteSet(set)
  BY SetsFinite
<1>3. /\ \E i \in set : Least(Fitness, set) = Fitness[i]
      /\ \A i \in set : Least(Fitness, set) <= Fitness[i]
  BY <1>1, <1>2, LeastOf
<1>4. PICK low \in Int : low = Least(Fitness, set)
  BY <1>1, <1>3
<1> QED BY <1>1, <1>3, <1>4 DEF Share, FitOf

\* How far the wheel turns for a ship.
LEMMA ReachIs ==
  ASSUME TypeInv, NEW set \in SUBSET Ships, set # {}
  PROVE  /\ \A i \in set : Reach(set, i) \in Nat
         /\ \A i, j \in set : i <= j => Reach(set, i) <= Reach(set, j)
<1> DEFINE share == [j \in set |-> Share(set, j)]
           upto(i) == {j \in set : j <= i}
<1>1. \A j \in set : share[j] \in Nat
  BY SharesAre
<1>2. \A i \in set : IsFiniteSet(upto(i)) /\ upto(i) \in SUBSET set
  BY SetsFinite
<1>3. \A i \in set : Reach(set, i) = SumFunctionOnSet(share, upto(i))
  BY DEF Reach
<1> HIDE DEF share
<1>4. ASSUME NEW i \in set
      PROVE  Reach(set, i) \in Nat
  <2>1. \A j \in upto(i) : share[j] \in Nat
    BY <1>1
  <2>2. IsFiniteSet(upto(i)) /\ upto(i) \in SUBSET upto(i)
    BY <1>2
  <2> QED BY <1>3, <2>1, <2>2, SumSubset
<1>5. ASSUME NEW i \in set, NEW j \in set, i <= j
      PROVE  Reach(set, i) <= Reach(set, j)
  <2>1. upto(i) \in SUBSET upto(j)
    <3>1. ASSUME NEW k \in set, k <= i
          PROVE  k <= j
      <4>1. i \in Int /\ j \in Int /\ k \in Int
        BY SelectionFacts DEF Ships
      <4> QED BY <1>5, <3>1, <4>1
    <3> QED BY <3>1
  <2>2. \A k \in upto(j) : share[k] \in Nat
    BY <1>1
  <2>3. SumFunctionOnSet(share, upto(i)) <= SumFunctionOnSet(share, upto(j))
    BY <1>2, <2>1, <2>2, SumSubset
  <2> QED BY <1>3, <2>3
<1> QED BY <1>4, <1>5

\* The slices are numbered from 0 to what the last ship reaches.
LEMMA WheelIs ==
  ASSUME TypeInv, NEW set \in SUBSET Ships, set # {}
  PROVE  \E last \in set :
           /\ \A i \in set : i <= last
           /\ Slices(set, SumFunctionOnSet(Fitness, set)) = 0..Reach(set, last)
<1> DEFINE share == [j \in set |-> Share(set, j)]
           low == Least(Fitness, set)
           total == SumFunctionOnSet(Fitness, set)
<1>1. IsFiniteSet(set) /\ low \in Int
  BY SetsFinite, SharesAre
<1>2. \A i \in set : Fitness[i] \in Int /\ Fitness[i] = FitOf(i)
  BY FitnessIs
<1>3. \A j \in set : share[j] = Fitness[j] - low
  BY <1>2, SharesAre
<1>4. PICK last \in set : \A i \in set : i <= last
  <2>1. \A x \in set : [i \in set |-> 0 - i][x] \in Int
    BY SelectionFacts DEF Ships
  <2>2. PICK x \in set : \A y \in set : [i \in set |-> 0 - i][x] <= [i \in set |-> 0 - i][y]
    BY <1>1, <2>1, LeastMember
  <2>3. \A y \in set : y <= x
    <3> SUFFICES ASSUME NEW y \in set PROVE y <= x
      OBVIOUS
    <3>1. 0 - x <= 0 - y
      BY <2>2
    <3> QED BY <3>1, SelectionFacts DEF Ships
  <2> QED BY <2>3
<1>5. Reach(set, last) = SumFunctionOnSet(share, set)
  <2>1. {j \in set : j <= last} = set
    BY <1>4
  <2> QED BY <2>1 DEF Reach
<1>6. Reach(set, last) \in Nat
  BY ReachIs
<1> HIDE DEF share, low, total
<1>7. SumFunctionOnSet(share, set) = total - low * Cardinality(set)
  BY <1>1, <1>2, <1>3, SumShift DEF total
<1>8. Slices(set, total) = 0..Reach(set, last) \cup Reach(set, last)..0
  BY <1>5, <1>7 DEF Slices, low
<1>9. Slices(set, total) = 0..Reach(set, last)
  BY <1>6, <1>8
<1> QED BY <1>4, <1>9 DEF total

LEMMA SomebodyPicked ==
  ASSUME TypeInv, NEW set \in SUBSET Ships, set # {},
         NEW slice \in Slices(set, SumFunctionOnSet(Fitness, set))
  PROVE  Picked(set, slice) \in Ships
<1>1. PICK last \in set : Slices(set, SumFunctionOnSet(Fitness, set)) = 0..Reach(set, last)
  BY WheelIs
<1>2. Reach(set, last) \in Nat
  BY ReachIs
<1>3. Reach(set, last) >= slice
  BY <1>1, <1>2
<1> QED BY <1>3, PickedIs

\* Distances are not negative, and a ship is at none from itself.
LEMMA DistanceIs ==
  ASSUME TypeInv
  PROVE  \A i, j \in Ships : Distance(i, j) \in Nat /\ Distance(i, i) = 0
<1>1. \A i \in Ships : team[i].place \in Nat
  BY DEF TypeInv, TypeTeam
<1> QED BY <1>1 DEF Distance

\* The distance findClosestMate() finds.
LEMMA ClosestIs ==
  ASSUME TypeInv, NEW i \in Ships, layout.usePerfDesc
  PROVE  LET closest == Least([j \in Ships |-> Distance(i, j)], Ships \ {i, 1})
         IN /\ \E j \in Ships \ {i, 1} : closest = Distance(i, j)
            /\ \A j \in Ships \ {i, 1} : closest <= Distance(i, j)
<1> DEFINE others == Ships \ {i, 1}
           away == [j \in Ships |-> Distance(i, j)]
<1>1. Size > 2
  BY SelectionFacts DEF TypeInv, TypeTeam
<1>2. others # {}
  <2>1. 2 \in Ships /\ 3 \in Ships
    BY <1>1, SelectionFacts DEF Ships
  <2> QED BY <2>1
<1>3. IsFiniteSet(others)
  BY SetsFinite
<1>4. \A j \in others : away[j] \in Int /\ away[j] = Distance(i, j)
  BY DistanceIs
<1>5. /\ \E j \in others : Least(away, others) = away[j]
      /\ \A j \in others : Least(away, others) <= away[j]
  BY <1>2, <1>3, <1>4, LeastOf
<1> QED BY <1>4, <1>5

LEMMA MotherIsMate ==
  ASSUME TypeInv, NEW i \in Ships, layout.usePerfDesc
  PROVE  i \in Mates(i)
<1> DEFINE closest == Least([j \in Ships |-> Distance(i, j)], Ships \ {i, 1})
<1>1. closest \in Nat
  BY ClosestIs, DistanceIs
<1>2. Mates(i) = {j \in Ships : 2 * Distance(i, j) <= 3 * closest}
  BY DEF Mates
<1>3. Distance(i, i) = 0
  BY DistanceIs
<1> HIDE DEF closest
<1> QED BY <1>1, <1>2, <1>3

LEMMA NoneFails ==
  ASSUME TypeInv, CountInv, WheelStops, [Next]_vars
  PROVE  WheelStops'
<1>1. CASE PickMum
  <2>1. Judged /\ phase = "mum" /\ at = Size
    BY <1>1 DEF PickMum, Judged, CountInv, CountedAll
  <2>2. stats.total = SumFunctionOnSet(Fitness, Ships) /\ Ships # {}
    BY <2>1, CountsTrue
  <2>3. PICK slice \in Slices(Ships, stats.total) : mum' = Picked(Ships, slice)
    BY <1>1 DEF PickMum
  <2>4. mum' \in Ships
    BY <2>2, <2>3, SomebodyPicked
  <2>5. mum' # Nobody
    BY <2>4 DEF Ships, Nobody
  <2> QED BY <1>1, <2>5 DEF PickMum, WheelStops
<1>2. CASE PickDad
  <2>1. Judged /\ phase = "dad" /\ at = Size /\ mum \in Ships
    BY <1>2 DEF PickDad, Judged, CountInv, CountedAll, TypeInv, StateInv, Bearing
  <2>2. stats.total = SumFunctionOnSet(Fitness, Ships)
    BY <2>1, CountsTrue
  <2> DEFINE set == IF layout.usePerfDesc THEN Mates(mum) ELSE Ships
  <2>3. PICK slice \in Slices(set, SumFunctionOnSet(Fitness, set)) : dad' = Picked(set, slice)
    BY <1>2, <2>2 DEF PickDad
  <2>4. set \in SUBSET Ships /\ set # {}
    <3>1. Mates(mum) \in SUBSET Ships
      BY DEF Mates
    <3>2. layout.usePerfDesc => mum \in Mates(mum)
      BY <2>1, MotherIsMate
    <3> QED BY <2>1, <3>1, <3>2
  <2> HIDE DEF set
  <2>5. dad' \in Ships
    BY <2>3, <2>4, SomebodyPicked
  <2>6. dad' # Nobody
    BY <2>5 DEF Ships, Nobody
  <2> QED BY <1>2, <2>6 DEF PickDad, WheelStops
<1>3. CASE Judge \/ Sort \/ Count \/ CopyElite \/ Copy \/ Draw \/ Cut \/ Remainder \/ Bear
           \/ Finish
  BY <1>3 DEF Judge, Sort, Count, CopyElite, Copy, Draw, Cut, Remainder, Bear, Finish, WheelStops
<1>4. CASE UNCHANGED vars
  BY <1>4 DEF vars, WheelStops
<1> QED BY <1>1, <1>2, <1>3, <1>4 DEF Next, Rest

\* pickSpecimen() always finds a ship, from the whole population and from the
\* mates of a mother alike, whatever fitness the ships earned.
THEOREM SomebodyIsPicked == Spec => []WheelStops
<1>1. Init => WheelStops
  BY DEF Init, WheelStops
<1> QED BY <1>1, NoneFails, SelectionCounts, PTL DEF Spec

-----------------------------------------------------------------------------
(***************************************************************************)
(* Whose slice it is.  The first ship of the team has no share, but slice  *)
(* 0 is hers; every other ship has as many slices as her share is large.   *)
(***************************************************************************)
Slots(k) == {slice \in Slices(Ships, stats.total) : Picked(Ships, slice) = k}

LEMMA ReachStep ==
  ASSUME TypeInv, NEW k \in Ships
  PROVE  Reach(Ships, k) = Share(Ships, k) + (IF k = 1 THEN 0 ELSE Reach(Ships, k - 1))
<1> DEFINE share == [j \in Ships |-> Share(Ships, j)]
           upto(i) == {j \in Ships : j <= i}
<1>1. \A j \in Ships : share[j] \in Int /\ share[j] = Share(Ships, j)
  BY SharesAre
<1>2. IsFiniteSet(upto(k)) /\ upto(k) \in SUBSET Ships /\ k \in upto(k)
  BY SetsFinite, SelectionFacts DEF Ships
<1>3. upto(k) \ {k} = IF k = 1 THEN {} ELSE upto(k - 1)
  BY SelectionFacts DEF Ships
<1>4. Reach(Ships, k) = SumFunctionOnSet(share, upto(k))
  BY DEF Reach
<1>5. k # 1 => Reach(Ships, k - 1) = SumFunctionOnSet(share, upto(k - 1))
  BY DEF Reach
<1> HIDE DEF share, upto
<1>6. SumFunctionOnSet(share, upto(k)) = share[k] + SumFunctionOnSet(share, upto(k) \ {k})
  BY <1>1, <1>2, SumRemove
<1>7. CASE k = 1
  BY <1>1, <1>3, <1>4, <1>6, <1>7, SumEmpty
<1>8. CASE k # 1
  BY <1>1, <1>3, <1>4, <1>5, <1>6, <1>8
<1> QED BY <1>7, <1>8

LEMMA SlotsAre ==
  ASSUME TypeInv, CountInv, Judged, at = Size, NEW k \in Ships
  PROVE  Slots(k) = IF k = 1 THEN {0} ELSE (Reach(Ships, k - 1) + 1)..Reach(Ships, k)
<1>1. /\ Slots(k) = {slice \in Slices(Ships, stats.total) : Picked(Ships, slice) = k}
      /\ stats.total = SumFunctionOnSet(Fitness, Ships)
      /\ Ships # {} /\ 1 \in Ships
  BY CountsTrue DEF Slots
<1>2. PICK last \in Ships : /\ \A i \in Ships : i <= last
                            /\ Slices(Ships, stats.total) = 0..Reach(Ships, last)
  BY <1>1, WheelIs
<1>3. /\ \A i \in Ships : Reach(Ships, i) \in Nat
      /\ \A i, j \in Ships : i <= j => Reach(Ships, i) <= Reach(Ships, j)
  BY <1>1, ReachIs
<1>4. \A i \in Ships : i \in Nat /\ i >= 1 /\ (i # 1 => i - 1 \in Ships)
  BY SelectionFacts DEF Ships
<1>5. Reach(Ships, 1) = 0
  <2>1. PICK i \in Ships : FitOf(i) = Least(Fitness, Ships)
    BY <1>1, SharesAre
  <2>2. FitOf(1) <= FitOf(i)
    BY CountsTrue
  <2>3. Share(Ships, 1) \in Nat /\ Share(Ships, 1) = FitOf(1) - Least(Fitness, Ships)
    BY <1>1, SharesAre
  <2>4. FitOf(1) \in Int /\ FitOf(i) \in Int
    BY <1>1, FitnessIs
  <2>5. Share(Ships, 1) = 0
    BY <2>1, <2>2, <2>3, <2>4
  <2> QED BY <1>1, <2>5, ReachStep
<1>6. ASSUME NEW slice \in 0..Reach(Ships, last)
      PROVE  /\ Picked(Ships, slice) \in Ships /\ Reach(Ships, Picked(Ships, slice)) >= slice
             /\ \A j \in Ships : Reach(Ships, j) >= slice => Picked(Ships, slice) <= j
  <2>1. Picked(Ships, slice) \in Ships
    BY <1>1, <1>2, <1>6, SomebodyPicked
  <2>2. Picked(Ships, slice) # Nobody
    BY <2>1 DEF Ships, Nobody
  <2> QED BY <2>1, <2>2, PickedIs
<1>7. CASE k = 1
  <2>1. ASSUME NEW slice \in 0..Reach(Ships, last)
        PROVE  Picked(Ships, slice) = 1 <=> slice = 0
    <3>1. CASE Picked(Ships, slice) = 1
      BY <1>5, <1>6, <3>1
    <3>2. CASE slice = 0
      BY <1>1, <1>4, <1>5, <1>6, <3>2
    <3> QED BY <3>1, <3>2
  <2>2. 0 \in 0..Reach(Ships, last)
    BY <1>3
  <2> QED BY <1>1, <1>2, <1>7, <2>1, <2>2
<1>8. CASE k # 1
  <2>1. PICK p \in Nat : p = Reach(Ships, k - 1)
    BY <1>3, <1>4, <1>8
  <2>2. PICK q \in Nat : q = Reach(Ships, k)
    BY <1>3
  <2>3. PICK w \in Nat : w = Reach(Ships, last) /\ q <= w
    BY <1>2, <1>3, <2>2
  <2>4. ASSUME NEW slice \in 0..w
        PROVE  Picked(Ships, slice) = k <=> slice \in (p + 1)..q
    <3>1. PICK i \in Ships : /\ i = Picked(Ships, slice) /\ Reach(Ships, i) >= slice
                             /\ \A j \in Ships : Reach(Ships, j) >= slice => i <= j
      BY <1>6, <2>3
    <3>2. CASE i = k
      <4>1. ~(Reach(Ships, k - 1) >= slice)
        BY <1>4, <1>8, <3>1, <3>2
      <4> QED BY <2>1, <2>2, <3>1, <3>2, <4>1
    <3>3. CASE i < k
      <4>1. i <= k - 1
        BY <1>4, <3>3
      <4>2. Reach(Ships, i) <= p
        BY <1>3, <1>4, <1>8, <2>1, <4>1
      <4>3. slice <= p
        BY <1>3, <3>1, <4>2
      <4>4. i # k /\ slice \notin (p + 1)..q
        BY <1>4, <3>3, <4>3
      <4> QED BY <3>1, <4>4
    <3>4. CASE i > k
      <4>1. ~(q >= slice)
        BY <1>4, <2>2, <3>1, <3>4
      <4> QED BY <1>4, <3>1, <3>4, <4>1
    <3>5. i \in Nat /\ k \in Nat
      BY <1>4
    <3> QED BY <3>2, <3>3, <3>4, <3>5
  <2>5. Slots(k) = {slice \in 0..w : slice \in (p + 1)..q}
    BY <1>1, <1>2, <2>3, <2>4
  <2>6. Slots(k) = (p + 1)..q
    BY <2>3, <2>5
  <2> QED BY <1>8, <2>1, <2>2, <2>6
<1> QED BY <1>7, <1>8

LEMMA SlotsCount ==
  ASSUME TypeInv, CountInv, Judged, at = Size, NEW k \in Ships
  PROVE  Cardinality(Slots(k)) = IF k = 1 THEN 1 ELSE Share(Ships, k)
<1>1. CASE k = 1
  BY <1>1, SlotsAre, FS_Singleton
<1>2. CASE k # 1
  <2>1. k - 1 \in Ships
    BY <1>2, SelectionFacts DEF Ships
  <2>2. PICK p \in Nat : p = Reach(Ships, k - 1)
    BY <2>1, ReachIs
  <2>3. PICK s \in Nat : s = Share(Ships, k)
    BY SharesAre
  <2>4. Slots(k) = (p + 1)..(p + s)
    BY <1>2, <2>2, <2>3, SlotsAre, ReachStep
  <2>5. Cardinality((p + 1)..(p + s)) = s
    BY FS_Interval
  <2> QED BY <1>2, <2>3, <2>4, <2>5
<1> QED BY <1>1, <1>2

\* A ship that did better than another is not picked with fewer slices, and with
\* at least one.
THEOREM WheelIsFair == Spec => []PickedFairly
<1>1. TypeInv /\ CountInv => PickedFairly
  <2> SUFFICES ASSUME TypeInv, CountInv, phase = "mum", NEW i \in Ships, NEW j \in Ships,
                      FitOf(i) > FitOf(j)
               PROVE  Slots(i) # {} /\ Cardinality(Slots(i)) >= Cardinality(Slots(j))
    BY DEF PickedFairly, Slots, FitOf
  <2>1. Judged /\ at = Size
    BY DEF Judged, CountInv, CountedAll
  <2>2. PICK low \in Int : /\ low = Least(Fitness, Ships)
                           /\ \A k \in Ships : Share(Ships, k) = FitOf(k) - low
    BY SharesAre
  <2>3. FitOf(i) \in Int /\ FitOf(j) \in Int /\ FitOf(1) <= FitOf(j)
    BY <2>1, FitnessIs, CountsTrue
  <2>4. i # 1
    BY <2>3
  <2>5. Share(Ships, i) > Share(Ships, j) /\ Share(Ships, i) \in Nat /\ Share(Ships, j) \in Nat
    <3>1. Share(Ships, i) \in Nat /\ Share(Ships, j) \in Nat
      BY SharesAre
    <3> QED BY <2>2, <2>3, <3>1
  <2>6. Cardinality(Slots(i)) = Share(Ships, i)
    BY <2>1, <2>4, SlotsCount
  <2>7. Cardinality(Slots(j)) = 1 \/ Cardinality(Slots(j)) = Share(Ships, j)
    BY <2>1, SlotsCount
  <2>8. Cardinality(Slots(i)) >= 1 /\ Cardinality(Slots(i)) >= Cardinality(Slots(j))
    BY <2>5, <2>6, <2>7
  <2>9. Slots(i) # {}
    BY <2>5, <2>6, <2>8, FS_EmptySet
  <2> QED BY <2>8, <2>9
<1> QED BY <1>1, SelectionCounts, PTL

-----------------------------------------------------------------------------
\* The ship that is closest to the mother is never further away than the
\* closest of those that findClosestMate() looks at, so it is a mate.
THEOREM ClosestMates == Spec => []ClosestIsMate
<1>1. TypeInv => ClosestIsMate
  <2> SUFFICES ASSUME TypeInv, phase = "dad", layout.usePerfDesc
               PROVE  \E j \in Ships \ {mum} :
                        /\ j \in Mates(mum)
                        /\ \A i \in Ships \ {mum} : Distance(mum, j) <= Distance(mum, i)
    BY DEF ClosestIsMate
  <2> DEFINE away == [j \in Ships |-> Distance(mum, j)]
             closest == Least(away, Ships \ {mum, 1})
  <2>1. mum \in Ships
    BY DEF TypeInv, StateInv, Bearing
  <2>2. \A j \in Ships : Distance(mum, j) \in Nat /\ away[j] = Distance(mum, j)
    BY <2>1, DistanceIs
  <2>3. PICK c \in Ships \ {mum, 1} : closest = Distance(mum, c)
    BY <2>1, ClosestIs
  <2>4. IsFiniteSet(Ships \ {mum}) /\ Ships \ {mum} # {}
    BY <2>3, SetsFinite
  <2>5. PICK j \in Ships \ {mum} : \A i \in Ships \ {mum} : away[j] <= away[i]
    <3>1. \A x \in Ships \ {mum} : away[x] \in Int
      BY <2>2
    <3> HIDE DEF away
    <3> QED BY <2>4, <3>1, LeastMember
  <2>6. Distance(mum, j) <= Distance(mum, c)
    BY <2>2, <2>3, <2>5
  <2>7. Mates(mum) = {i \in Ships : 2 * Distance(mum, i) <= 3 * closest}
    BY DEF Mates
  <2> HIDE DEF closest
  <2>8. 2 * Distance(mum, j) <= 3 * closest
    <3>1. PICK a \in Nat : a = Distance(mum, j)
      BY <2>2
    <3>2. PICK b \in Nat : b = Distance(mum, c)
      BY <2>2
    <3> QED BY <2>3, <2>6, <3>1, <3>2
  <2> QED BY <2>2, <2>5, <2>7, <2>8
<1> QED BY <1>1, SelectionTypes, PTL

-----------------------------------------------------------------------------
(***************************************************************************)
(* The genes.  Every gene before the last point is shared out by the       *)
(* number of points before it, and cross tells the parity of the points    *)
(* passed; so does the Nobody that stands for the points of a network that *)
(* is copied.                                                              *)
(***************************************************************************)
Before(b, g) == {p \in points[b] : p < g}

Shared(b, g) ==
  /\ {babies[1][b][g], babies[2][b][g]} = {"mum", "dad"}
  /\ (babies[1][b][g] = "mum") <=> (Cardinality(Before(b, g)) % 2 = 1)

Passed == points[brain] \ ahead

Networks ==
  phase \in {"cross", "cut"} =>
    /\ \A b \in 1..(brain - 1), g \in 1..Genes : Shared(b, g)
    /\ \A b \in (brain + 1)..Brains : points[b] = {Nobody}
Network == phase = "cross" /\ brain <= Brains => points[brain] = {Nobody}
Cutting ==
  phase = "cut" =>
    /\ points[brain] \subseteq 0..(Genes - 1) /\ ahead \subseteq points[brain]
    /\ \A p \in Passed : p <= lastCut
    /\ \A p \in ahead : lastCut <= p
    /\ cross <=> Cardinality(Passed) % 2 = 1
    /\ \A g \in 1..lastCut : Shared(brain, g)

CrossInv == Networks /\ Network /\ Cutting

\* Genes that are not touched stay as they are.
LEMMA SharedKept ==
  ASSUME NEW b, NEW g, Shared(b, g), points'[b] = points[b],
         babies'[1][b][g] = babies[1][b][g], babies'[2][b][g] = babies[2][b][g]
  PROVE  Shared(b, g)'
BY DEF Shared, Before

\* What Inherit hands out is shared, if it starts on the right side.
LEMMA InheritShares ==
  ASSUME TypeInv, NEW b \in 1..Brains, b = brain, NEW g \in 1..Genes, points' = points,
         NEW from, NEW to, NEW mums \in BOOLEAN, Inherit(from, to, mums),
         g - 1 \in from..(to - 1), mums <=> Cardinality(Before(b, g)) % 2 = 1
  PROVE  Shared(b, g)'
<1>1. babies \in [1..2 -> Baby]
  BY DEF TypeInv, TypeBabies
<1>2. /\ babies'[1][b][g] = IF mums THEN "mum" ELSE "dad"
      /\ babies'[2][b][g] = IF mums THEN "dad" ELSE "mum"
  BY <1>1, InheritIs
<1>3. Before(b, g)' = Before(b, g)
  BY DEF Before
<1> QED BY <1>2, <1>3 DEF Shared

\* The rest of the genes stays.
LEMMA InheritKeeps ==
  ASSUME TypeInv, NEW b \in 1..Brains, brain \in 1..Brains, NEW g \in 1..Genes, points' = points,
         NEW from, NEW to, NEW mums \in BOOLEAN, Inherit(from, to, mums),
         ~(b = brain /\ g - 1 \in from..(to - 1)), Shared(b, g)
  PROVE  Shared(b, g)'
<1>1. babies \in [1..2 -> Baby]
  BY DEF TypeInv, TypeBabies
<1>2. babies'[1][b][g] = babies[1][b][g] /\ babies'[2][b][g] = babies[2][b][g]
  BY <1>1, InheritIs
<1> QED BY <1>2, SharedKept

LEMMA CopyCrosses ==
  ASSUME TypeInv, CrossInv, Copy
  PROVE  CrossInv'
<1>1. brain \in 1..Brains /\ brain' = brain + 1 /\ phase = "cross" /\ phase' = "cross"
  <2>1. phase = "cross" /\ brain <= Brains /\ brain' = brain + 1 /\ phase' = "cross"
    BY DEF Copy
  <2>2. brain \in 1..(Brains + 1)
    BY <2>1 DEF TypeInv, StateInv
  <2> QED BY <2>1, <2>2, SelectionFacts
<1>2. points' = points /\ Inherit(0, Genes, TRUE)
  BY DEF Copy
<1>3. ASSUME NEW b \in 1..brain, NEW g \in 1..Genes
      PROVE  Shared(b, g)'
  <2>1. b \in 1..Brains /\ g - 1 \in 0..(Genes - 1)
    BY <1>1, SelectionFacts
  <2>2. CASE b = brain
    <3>1. points[b] = {Nobody}
      BY <1>1, <2>1, <2>2 DEF CrossInv, Network
    <3>2. Before(b, g) = {Nobody}
      BY <3>1 DEF Before, Nobody
    <3>3. Cardinality(Before(b, g)) % 2 = 1
      <4>1. Cardinality(Before(b, g)) = 1
        BY <3>2, FS_Singleton
      <4>2. 1 % 2 = 1
        OBVIOUS
      <4> QED BY <4>1, <4>2
    <3> QED BY <1>2, <2>1, <2>2, <3>3, InheritShares
  <2>3. CASE b # brain
    <3>1. b \in 1..(brain - 1)
      BY <1>1, <2>3
    <3>2. Shared(b, g)
      BY <1>1, <3>1 DEF CrossInv, Networks
    <3> QED BY <1>1, <1>2, <2>1, <2>3, <3>2, InheritKeeps
  <2> QED BY <2>2, <2>3
<1>4. \A b \in (brain + 1)..Brains : points'[b] = {Nobody}
  BY <1>1, <1>2 DEF CrossInv, Networks
<1>5. Networks'
  <2>1. brain' - 1 = brain /\ (brain' + 1)..Brains \subseteq (brain + 1)..Brains
    BY <1>1, SelectionFacts
  <2> QED BY <1>3, <1>4, <2>1 DEF Networks
<1>6. Network'
  BY <1>1, <1>4, SelectionFacts DEF Network
<1>7. Cutting'
  BY <1>1 DEF Cutting
<1> QED BY <1>5, <1>6, <1>7 DEF CrossInv

LEMMA DrawCrosses ==
  ASSUME TypeInv, CrossInv, Draw
  PROVE  CrossInv'
<1>1. PICK set \in SUBSET (0..(Genes - 1)) :
        points' = [points EXCEPT ![brain] = set] /\ ahead' = set
  BY DEF Draw
<1>2. phase = "cross" /\ phase' = "cut" /\ lastCut' = 0 /\ cross' = FALSE
      /\ UNCHANGED <<brain, babies>>
  BY DEF Draw, Uncrossed
<1>3. brain \in 1..Brains
  <2>1. brain <= Brains
    BY DEF Draw
  <2>2. brain \in 1..(Brains + 1)
    BY <1>2 DEF TypeInv, StateInv
  <2> QED BY <2>1, <2>2, SelectionFacts
<1>4. points'[brain] = set /\ \A b \in 1..Brains \ {brain} : points'[b] = points[b]
  BY <1>1, <1>3 DEF TypeInv, TypePoints
<1>5. Networks'
  <2>1. ASSUME NEW b \in 1..(brain - 1), NEW g \in 1..Genes
        PROVE  Shared(b, g)'
    <3>1. b \in 1..Brains \ {brain}
      BY <1>3, SelectionFacts
    <3>2. Shared(b, g)
      BY <1>2 DEF CrossInv, Networks
    <3> QED BY <1>2, <1>4, <3>1, <3>2, SharedKept
  <2>2. ASSUME NEW b \in (brain + 1)..Brains
        PROVE  points'[b] = {Nobody}
    <3>1. b \in 1..Brains \ {brain}
      BY <1>3, SelectionFacts
    <3>2. points[b] = {Nobody}
      BY <1>2 DEF CrossInv, Networks
    <3> QED BY <1>4, <3>1, <3>2
  <2> QED BY <1>2, <2>1, <2>2 DEF Networks
<1>6. Network'
  BY <1>2 DEF Network
<1>7. Cutting'
  <2>1. Passed' = {} /\ Cardinality({}) = 0
    BY <1>1, <1>2, <1>4, FS_EmptySet DEF Passed
  <2>2. points'[brain'] = set /\ ahead' = set /\ \A p \in set : 0 <= p
    BY <1>1, <1>2, <1>4, SelectionFacts
  <2>3. \A g \in 1..lastCut' : FALSE
    BY <1>2
  <2> QED BY <1>2, <2>1, <2>2, <2>3 DEF Cutting
<1> QED BY <1>5, <1>6, <1>7 DEF CrossInv

\* Between the last point and the next one, the points before a gene are those
\* that are passed.
LEMMA BeforeIsPassed ==
  ASSUME TypeInv, CrossInv, phase = "cut", NEW g \in 1..Genes, g > lastCut,
         \A p \in ahead : g <= p
  PROVE  Before(brain, g) = Passed
<1>1. points[brain] \subseteq 0..(Genes - 1) /\ \A p \in Passed : p <= lastCut
  BY DEF CrossInv, Cutting
<1>2. lastCut \in Nat /\ g \in Nat
  BY SelectionFacts DEF TypeInv, TypePoints
<1>3. ASSUME NEW p \in points[brain]
      PROVE  p < g <=> p \in Passed
  <2>1. p \in Nat
    BY <1>1, SelectionFacts
  <2>2. CASE p \in ahead
    BY <1>2, <2>1, <2>2 DEF Passed
  <2>3. CASE p \notin ahead
    <3>1. p \in Passed
      BY <2>3 DEF Passed
    <3> QED BY <1>1, <1>2, <2>1, <3>1
  <2> QED BY <2>2, <2>3
<1> QED BY <1>3 DEF Before, Passed

LEMMA CutCrosses ==
  ASSUME TypeInv, CrossInv, Cut
  PROVE  CrossInv'
<1> DEFINE cut == Least([c \in ahead |-> c], ahead)
<1>1. cut \in ahead /\ \A c \in ahead : cut <= c
  BY CutIsAhead DEF Cut
<1>2. /\ Inherit(lastCut, cut, cross) /\ lastCut' = cut /\ ahead' = ahead \ {cut}
      /\ cross' = ~cross /\ phase = "cut" /\ phase' = "cut" /\ UNCHANGED <<brain, points>>
  BY DEF Cut
<1> HIDE DEF cut
<1>3. brain \in 1..Brains /\ cross \in BOOLEAN /\ lastCut \in Nat
  BY <1>2, SelectionFacts DEF TypeInv, StateInv, TypePoints
<1>4. /\ points[brain] \subseteq 0..(Genes - 1) /\ ahead \subseteq points[brain]
      /\ \A p \in Passed : p <= lastCut
      /\ \A p \in ahead : lastCut <= p
      /\ cross <=> Cardinality(Passed) % 2 = 1
      /\ \A g \in 1..lastCut : Shared(brain, g)
  BY <1>2 DEF CrossInv, Cutting
<1>5. cut \in 0..(Genes - 1) /\ cut \in Nat /\ lastCut <= cut
  BY <1>1, <1>4, SelectionFacts
<1>6. Networks'
  <2>1. ASSUME NEW b \in 1..(brain - 1), NEW g \in 1..Genes
        PROVE  Shared(b, g)'
    <3>1. b \in 1..Brains /\ b # brain
      BY <1>3, SelectionFacts
    <3>2. Shared(b, g)
      BY <1>2 DEF CrossInv, Networks
    <3> QED BY <1>2, <1>3, <3>1, <3>2, InheritKeeps
  <2> QED BY <1>2, <2>1 DEF CrossInv, Networks
<1>7. Network'
  BY <1>2 DEF Network
<1>8. ASSUME NEW g \in 1..cut
      PROVE  Shared(brain, g)'
  <2>1. PICK b \in 1..Brains : b = brain
    BY <1>3
  <2>2. g \in 1..Genes /\ brain' = b
    BY <1>2, <1>5, <2>1, SelectionFacts
  <2>3. CASE g > lastCut
    <3>1. g - 1 \in lastCut..(cut - 1)
      BY <1>3, <1>5, <2>3
    <3>2. \A p \in ahead : g <= p
      <4>1. \A p \in ahead : p \in Nat /\ cut <= p
        BY <1>1, <1>4, SelectionFacts
      <4> QED BY <1>5, <4>1
    <3>3. Before(b, g) = Passed
      BY <1>2, <2>1, <2>2, <2>3, <3>2, BeforeIsPassed
    <3>4. Shared(b, g)'
      BY <1>2, <1>3, <1>4, <2>1, <2>2, <3>1, <3>3, InheritShares
    <3> QED BY <2>2, <3>4 DEF Shared, Before
  <2>4. CASE g <= lastCut
    <3>1. Shared(b, g) /\ g - 1 \notin lastCut..(cut - 1)
      BY <1>3, <1>4, <1>5, <2>1, <2>4
    <3>2. Shared(b, g)'
      BY <1>2, <1>3, <2>1, <2>2, <3>1, InheritKeeps
    <3> QED BY <2>2, <3>2 DEF Shared, Before
  <2> QED BY <1>3, <2>3, <2>4
<1>9. Cutting'
  <2>1. Passed' = Passed \cup {cut} /\ cut \notin Passed
    BY <1>1, <1>2, <1>4 DEF Passed
  <2>2. IsFiniteSet(Passed)
    <3>1. IsFiniteSet(0..(Genes - 1)) /\ Passed \subseteq 0..(Genes - 1)
      BY <1>4, SelectionFacts, FS_Interval DEF Passed
    <3> QED BY <3>1, FS_Subset
  <2>3. PICK n \in Nat : n = Cardinality(Passed) /\ Cardinality(Passed') = n + 1
    BY <2>1, <2>2, FS_CardinalityType, FS_AddElement
  <2>4. cross' <=> Cardinality(Passed') % 2 = 1
    <3>1. (n + 1) % 2 = 1 <=> ~(n % 2 = 1)
      OBVIOUS
    <3> QED BY <1>2, <1>3, <1>4, <2>3, <3>1
  <2>5. \A p \in Passed' : p <= lastCut'
    <3>1. \A p \in Passed : p \in Nat /\ p <= lastCut
      BY <1>4, SelectionFacts DEF Passed
    <3> QED BY <1>2, <1>3, <1>5, <2>1, <3>1
  <2>6. \A p \in ahead' : lastCut' <= p
    BY <1>1, <1>2
  <2>7. points'[brain'] \subseteq 0..(Genes - 1) /\ ahead' \subseteq points'[brain']
    BY <1>2, <1>4
  <2> QED BY <1>2, <1>8, <2>4, <2>5, <2>6, <2>7 DEF Cutting
<1> QED BY <1>6, <1>7, <1>9 DEF CrossInv

LEMMA RemainderCrosses ==
  ASSUME TypeInv, CrossInv, Remainder
  PROVE  CrossInv'
<1>1. /\ Inherit(lastCut, Genes, cross) /\ ahead = {} /\ brain' = brain + 1
      /\ phase = "cut" /\ phase' = "cross" /\ points' = points
  BY DEF Remainder
<1>2. brain \in 1..Brains /\ cross \in BOOLEAN /\ lastCut \in Nat
  BY <1>1, SelectionFacts DEF TypeInv, StateInv, TypePoints
<1>3. cross <=> Cardinality(Passed) % 2 = 1
  BY <1>1 DEF CrossInv, Cutting
<1>4. ASSUME NEW b \in 1..brain, NEW g \in 1..Genes
      PROVE  Shared(b, g)'
  <2>1. b \in 1..Brains /\ (b = brain \/ b \in 1..(brain - 1))
    BY <1>2, SelectionFacts
  <2>2. CASE b = brain /\ g > lastCut
    <3>1. g - 1 \in lastCut..(Genes - 1)
      BY <1>2, <2>2, SelectionFacts
    <3>2. Before(b, g) = Passed
      BY <1>1, <2>2, BeforeIsPassed
    <3> QED BY <1>1, <1>2, <1>3, <2>1, <2>2, <3>1, <3>2, InheritShares
  <2>3. CASE b = brain /\ ~(g > lastCut)
    <3>1. Shared(b, g) /\ g - 1 \notin lastCut..(Genes - 1)
      BY <1>1, <1>2, <2>3 DEF CrossInv, Cutting
    <3> QED BY <1>1, <1>2, <2>1, <3>1, InheritKeeps
  <2>4. CASE b # brain
    <3>1. Shared(b, g)
      BY <1>1, <2>1, <2>4 DEF CrossInv, Networks
    <3> QED BY <1>1, <1>2, <2>1, <2>4, <3>1, InheritKeeps
  <2> QED BY <2>2, <2>3, <2>4
<1>5. \A b \in (brain + 1)..Brains : points'[b] = {Nobody}
  BY <1>1 DEF CrossInv, Networks
<1>6. Networks'
  <2>1. brain' - 1 = brain /\ (brain' + 1)..Brains \subseteq (brain + 1)..Brains
    BY <1>1, <1>2, SelectionFacts
  <2> QED BY <1>4, <1>5, <2>1 DEF Networks
<1>7. Network'
  BY <1>1, <1>2, <1>5, SelectionFacts DEF Network
<1>8. Cutting'
  BY <1>1 DEF Cutting
<1> QED BY <1>6, <1>7, <1>8 DEF CrossInv

LEMMA CrossInvStep ==
  TypeInv /\ CrossInv /\ [Next]_vars => CrossInv'
<1> SUFFICES ASSUME TypeInv, CrossInv, [Next]_vars PROVE CrossInv'
  OBVIOUS
<1>1. CASE PickDad
  <2>1. points' = NoPoints /\ brain' = 1 /\ phase' \in {"failed", "cross"}
    BY <1>1 DEF PickDad
  <2>2. \A b \in 1..Brains : points'[b] = {Nobody}
    BY <2>1 DEF NoPoints
  <2>3. Networks'
    BY <2>1, <2>2, SelectionFacts DEF Networks
  <2>4. Network' /\ Cutting'
    BY <2>1, <2>2, SelectionFacts DEF Network, Cutting
  <2> QED BY <2>3, <2>4 DEF CrossInv
<1>2. CASE Judge \/ Sort \/ Count \/ CopyElite \/ PickMum \/ Bear \/ Finish
  <2>1. phase' \notin {"cross", "cut"}
    BY <1>2 DEF Judge, Sort, Count, CopyElite, PickMum, Bear, Finish
  <2> QED BY <2>1 DEF CrossInv, Networks, Network, Cutting
<1>3. CASE UNCHANGED vars
  <2>1. UNCHANGED <<phase, brain, lastCut, cross, points, ahead, babies>>
    BY <1>3 DEF vars, crossing
  <2>2. \A b, g : Shared(b, g)' <=> Shared(b, g)
    BY <2>1 DEF Shared, Before
  <2>3. Networks' /\ Network'
    BY <2>1, <2>2 DEF CrossInv, Networks, Network
  <2>4. Cutting'
    BY <2>1 DEF CrossInv, Cutting, Passed, Shared, Before
  <2> QED BY <2>3, <2>4 DEF CrossInv
<1> QED BY <1>1, <1>2, <1>3, CopyCrosses, DrawCrosses, CutCrosses, RemainderCrosses DEF Next, Rest

\* Two babies share out the genes of their parents: none is lost, doubled or left
\* random, genes change sides exactly at the points, and every network starts on
\* the same side, however many points there are and wherever they lie.
THEOREM GenesAreSharedOut == Spec => []GenesAreShared
<1>1. Init => CrossInv
  BY DEF Init, CrossInv, Networks, Network, Cutting
<1>2. CrossInv => GenesAreShared
  BY DEF CrossInv, Networks, Shared, Before, GenesAreShared
<1> QED BY <1>1, <1>2, CrossInvStep, SelectionTypes, PTL DEF Spec
=============================================================================
