-------------------------- MODULE GenerationProofs --------------------------
(***************************************************************************)
(* Theorems about Generation, for every choice of pools, sizes and bases,  *)
(* and for every number of battles.                                        *)
(***************************************************************************)
EXTENDS Generation, FiniteSetTheorems, TLAPS

Own(t) == {s \in Ships : s.team = t}

\* How many ships of its new generation a team has.
Grown(t) ==
  IF phase \in {"mate", "cleanup"} \/ (phase = "epoch1" /\ t = 0) THEN size[t] ELSE 0

Places(t) == 1..Grown(t)

GenType ==
  /\ phase \in {"fight", "epoch0", "epoch1", "mate", "cleanup"}
  /\ pool \in [Team -> Layouts] /\ size \in [Team -> Sizes]
  /\ teams \in [Team -> SUBSET Ships] /\ newTeams \in [Team -> Seq(Ships)]
  /\ \A t \in Team : teams[t] \subseteq Own(t) /\ newTeams[t] \in [Places(t) -> Own(t)]
  /\ winner \in [Team -> BOOLEAN] /\ won \in Team \cup {Nobody}
  /\ next \in Nat /\ alive \subseteq 0..(next - 1)
  /\ left \in 0..Generations /\ (phase # "fight" => left > 0)

CountInv == \A t \in Team : Cardinality(teams[t]) = size[t]

\* No brain has two ships, and each is alive.
OldOwners ==
  \A t, u \in Team : \A s \in teams[t] :
    s.brain \in alive /\ \A r \in teams[u] : r.brain = s.brain => r = s

NewOwners ==
  \A t, u \in Team : \A i \in Places(t) :
    /\ newTeams[t][i].brain \in alive
    /\ \A j \in Places(u) : newTeams[u][j].brain = newTeams[t][i].brain => t = u /\ i = j

OldAndNew ==
  \A t, u \in Team : \A s \in teams[t] : \A j \in Places(u) :
    newTeams[u][j].brain # s.brain

\* winner_ tells who won, after a battle that was won.
WinnerKnown == won # Nobody => winner[won] /\ ~winner[Other(won)]

LineInv ==
  \A t \in Team : \A i \in Places(t) :
    newTeams[t][i].line # t => phase = "cleanup" /\ winner[newTeams[t][i].line]

ThinkInv ==
  \A t \in Team : AllThink(teams[t]) => \A i \in Places(t) : ~newTeams[t][i].dummy

OwnerInv == OldOwners /\ NewOwners /\ OldAndNew /\ broken = FALSE

GenInv == GenType /\ CountInv /\ OwnerInv /\ WinnerKnown /\ LineInv /\ ThinkInv

-----------------------------------------------------------------------------
\* What is listed once each has as many elements as the list has places.
LEMMA Counting ==
  ASSUME NEW n \in Nat, NEW S, NEW f \in [1..n -> S],
         \A i, j \in 1..n : f[i] = f[j] => i = j,
         \A s \in S : \E i \in 1..n : f[i] = s
  PROVE  Cardinality(S) = n
<1>1. f \in Bijection(1..n, S)
  BY DEF Bijection, Injection, Surjection, IsInjective
<1> QED BY <1>1, FS_CountingElements DEF ExistsBijection

LEMMA EmptyTeam ==
  ASSUME NEW S PROVE <<>> \in [1..0 -> S]
OBVIOUS

LEMMA Listed ==
  ASSUME NEW n \in Nat, NEW S, NEW T, S \subseteq T, NEW f \in [1..n -> S]
  PROVE  f \in Seq(T) /\ Len(f) = n /\ DOMAIN f = 1..n
<1>1. f \in [1..n -> T]
  OBVIOUS
<1> QED BY <1>1

LEMMA Sized ==
  ASSUME size \in [Team -> Sizes] PROVE \A t \in Team : size[t] \in Nat \ {0}
BY GenerationAssumption

LEMMA InitInv == Init => GenInv
<1> SUFFICES ASSUME Init PROVE GenInv
  OBVIOUS
<1>1. \A t \in Team : size[t] \in Nat \ {0}
  BY Sized DEF Init
<1>2. \A t \in Team : Grown(t) = 0
  BY DEF Init, Grown
<1>3. PICK d \in SUBSET Team :
        teams = [t \in Team |->
                   {[brain |-> t * size[0] + i, team |-> t, dummy |-> t \in d,
                     line |-> t] : i \in 0..(size[t] - 1)}]
  BY DEF Init
<1>n. 0 \in Team /\ 1 \in Team /\ \A t \in Team : t = 0 \/ t = 1
  BY DEF Team
<1>4. \A t \in Team : \A i \in 0..(size[t] - 1) : t * size[0] + i \in 0..(next - 1)
  <2> SUFFICES ASSUME NEW t \in Team, NEW i \in 0..(size[t] - 1)
               PROVE  t * size[0] + i \in 0..(next - 1)
    OBVIOUS
  <2>1. CASE t = 0
    BY <2>1, <1>1, <1>n DEF Init
  <2>2. CASE t = 1
    BY <2>2, <1>1, <1>n DEF Init
  <2> QED BY <2>1, <2>2, <1>n
<1>5. \A t \in Team : teams[t] \subseteq Own(t)
  <2> SUFFICES ASSUME NEW t \in Team, NEW i \in 0..(size[t] - 1)
               PROVE  [brain |-> t * size[0] + i, team |-> t, dummy |-> t \in d,
                       line |-> t] \in Own(t)
    BY <1>3
  <2>1. t * size[0] + i \in Nat
    BY <1>4, <1>1, <1>n DEF Init
  <2>2. (t \in d) \in BOOLEAN
    OBVIOUS
  <2> QED BY <2>1, <2>2 DEF Own, Ships
<1>6. GenType
  <2>1. \A t \in Team : newTeams[t] \in [Places(t) -> Own(t)] /\ newTeams[t] = <<>>
    BY <1>2, EmptyTeam DEF Init, Places
  <2>2. newTeams \in [Team -> Seq(Ships)]
    BY DEF Init
  <2>3. teams \in [Team -> SUBSET Ships]
    BY <1>5, <1>3 DEF Own
  <2>4. next \in Nat /\ alive \subseteq 0..(next - 1)
    BY <1>1, <1>n DEF Init
  <2>5. winner \in [Team -> BOOLEAN]
    BY DEF Init
  <2> QED BY <1>5, <2>1, <2>2, <2>3, <2>4, <2>5, GenerationAssumption DEF GenType, Init
<1>7. CountInv
  <2> SUFFICES ASSUME NEW t \in Team PROVE Cardinality(teams[t]) = size[t]
    BY DEF CountInv
  <2> DEFINE f == [i \in 1..size[t] |-> [brain |-> t * size[0] + (i - 1), team |-> t,
                                        dummy |-> t \in d, line |-> t]]
  <2>0. \A i \in 1..size[t] : i - 1 \in 0..(size[t] - 1)
    BY <1>1
  <2>1. f \in [1..size[t] -> teams[t]]
    BY <1>3, <2>0
  <2>2. ASSUME NEW i \in 1..size[t], NEW j \in 1..size[t], f[i] = f[j] PROVE i = j
    <3>1. t * size[0] + (i - 1) = t * size[0] + (j - 1)
      BY <2>2
    <3>2. t * size[0] \in Nat
      BY <1>1, <1>n
    <3> QED BY <3>1, <3>2, <1>1
  <2>3. ASSUME NEW s \in teams[t] PROVE \E i \in 1..size[t] : f[i] = s
    <3>1. PICK i \in 0..(size[t] - 1) :
            s = [brain |-> t * size[0] + i, team |-> t, dummy |-> t \in d, line |-> t]
      BY <1>3
    <3>2. i + 1 \in 1..size[t] /\ (i + 1) - 1 = i
      BY <1>1
    <3>3. f[i + 1] = [brain |-> t * size[0] + ((i + 1) - 1), team |-> t,
                      dummy |-> t \in d, line |-> t]
      BY <3>2
    <3> QED BY <3>1, <3>2, <3>3
  <2> HIDE DEF f
  <2> QED BY <2>1, <2>2, <2>3, <1>1, Counting
<1>8. OldOwners
  <2> SUFFICES ASSUME NEW t \in Team, NEW u \in Team, NEW s \in teams[t]
               PROVE  s.brain \in alive /\ \A r \in teams[u] : r.brain = s.brain => r = s
    BY DEF OldOwners
  <2>1. PICK i \in 0..(size[t] - 1) :
          s = [brain |-> t * size[0] + i, team |-> t, dummy |-> t \in d, line |-> t]
    BY <1>3
  <2>2. s.brain = t * size[0] + i /\ s.brain \in alive
    BY <2>1, <1>4 DEF Init
  <2>3. ASSUME NEW r \in teams[u], r.brain = s.brain PROVE r = s
    <3>1. PICK j \in 0..(size[u] - 1) :
            r = [brain |-> u * size[0] + j, team |-> u, dummy |-> u \in d, line |-> u]
      BY <1>3
    <3>2. u * size[0] + j = t * size[0] + i
      BY <3>1, <2>2, <2>3
    <3>3. u = t /\ j = i
      <4>1. CASE u = 0 /\ t = 0
        BY <4>1, <3>2, <1>1, <1>n
      <4>2. CASE u = 0 /\ t = 1
        BY <4>2, <3>2, <1>1, <1>n
      <4>3. CASE u = 1 /\ t = 0
        BY <4>3, <3>2, <1>1, <1>n
      <4>4. CASE u = 1 /\ t = 1
        BY <4>4, <3>2, <1>1, <1>n
      <4> QED BY <4>1, <4>2, <4>3, <4>4, <1>n
    <3> QED BY <3>1, <3>3, <2>1
  <2> QED BY <2>2, <2>3
<1>9. NewOwners /\ OldAndNew /\ LineInv /\ ThinkInv
  BY <1>2 DEF NewOwners, OldAndNew, LineInv, ThinkInv, Places
<1>10. broken = FALSE /\ WinnerKnown
  BY DEF Init, WinnerKnown
<1> QED BY <1>6, <1>7, <1>8, <1>9, <1>10 DEF GenInv, OwnerInv

LEMMA ScoreInv ==
  ASSUME GenInv, Score PROVE GenInv'
<1> USE DEF GenInv
<1>1. PICK owned \in [Team -> 0..Bases] :
        /\ winner' = Winners(owned)
        /\ won' = IF owned[0] = owned[1] THEN Nobody
                  ELSE CHOOSE t \in Team : owned[t] > owned[Other(t)]
  BY DEF Score
<1>n. 0 \in Team /\ 1 \in Team /\ \A t \in Team : t = 0 \/ t = 1
  BY DEF Team
<1>2. /\ phase = "fight" /\ phase' = "epoch0"
      /\ UNCHANGED <<pool, size, teams, newTeams, next, alive, broken, left>>
  BY DEF Score, fixed
<1>3. \A t \in Team : Grown(t) = 0 /\ Grown(t)' = 0
  BY <1>2 DEF Grown
<1>4. owned[0] \in Int /\ owned[1] \in Int
  BY <1>n, GenerationAssumption
<1>5. /\ winner' \in [Team -> BOOLEAN] /\ won' \in Team \cup {Nobody}
      /\ WinnerKnown'
  <2>1. CASE owned[0] = owned[1]
    BY <2>1, <1>1 DEF Winners, WinnerKnown, GenType
  <2>2. CASE owned[0] # owned[1]
    <3>1. winner' = [t \in Team |-> owned[t] > owned[Other(t)]]
      BY <2>2, <1>1 DEF Winners
    <3>2. (winner'[0] <=> owned[0] > owned[1]) /\ (winner'[1] <=> owned[1] > owned[0])
      <4>1. Other(0) = 1 /\ Other(1) = 0
        BY DEF Other
      <4> QED BY <3>1, <4>1, <1>n, Zenon
    <3>3. \E t \in Team : owned[t] > owned[Other(t)]
      BY <2>2, <1>4, <1>n DEF Other
    <3>4. won' \in Team /\ owned[won'] > owned[Other(won')]
      BY <3>3, <2>2, <1>1
    <3>5. winner'[won'] /\ ~winner'[Other(won')]
      <4>1. CASE won' = 0
        <5>1. Other(won') = 1
          BY <4>1 DEF Other
        <5>2. owned[0] > owned[1] /\ ~(owned[1] > owned[0])
          BY <4>1, <5>1, <3>4, <1>4
        <5> QED BY <4>1, <5>1, <5>2, <3>2
      <4>2. CASE won' = 1
        <5>1. Other(won') = 0
          BY <4>2 DEF Other
        <5>2. owned[1] > owned[0] /\ ~(owned[0] > owned[1])
          BY <4>2, <5>1, <3>4, <1>4
        <5> QED BY <4>2, <5>1, <5>2, <3>2
      <4> QED BY <4>1, <4>2, <3>4, <1>n
    <3> QED BY <3>1, <3>4, <3>5 DEF WinnerKnown
  <2> QED BY <2>1, <2>2
<1>6. GenType'
  <2>1. \A t \in Team : newTeams'[t] \in [1..0 -> Own(t)]
    BY <1>2, <1>3 DEF GenType, Places
  <2>2. left' \in 0..Generations /\ left' > 0
    BY <1>2 DEF GenType, Score
  <2> QED BY <1>2, <1>3, <1>5, <2>1, <2>2 DEF GenType, Places, Own
<1>7. CountInv'
  BY <1>2 DEF CountInv
<1>8. OldOwners'
  BY <1>2 DEF OldOwners, OwnerInv
<1>9. NewOwners' /\ OldAndNew' /\ LineInv' /\ ThinkInv'
  BY <1>3 DEF NewOwners, OldAndNew, LineInv, ThinkInv, Places
<1> QED BY <1>2, <1>5, <1>6, <1>7, <1>8, <1>9 DEF OwnerInv

\* What epoch() makes of one team, and that it leaves the other alone.
LEMMA Bred ==
  ASSUME GenInv, NEW t \in Team, NEW p \in Parents(t), Grown(t) = 0,
         newTeams' = [newTeams EXCEPT ![t] = Generate(t, p)],
         next' = next + size[t] + Surplus(t),
         alive' = alive \cup (next .. next' - 1)
  PROVE  /\ newTeams'[t] \in [1..size[t] -> Own(t)] /\ newTeams'[t] \in Seq(Ships)
         /\ newTeams' \in [Team -> Seq(Ships)]
         /\ \A i \in 1..size[t] :
              /\ newTeams'[t][i].brain = next + i - 1 /\ newTeams'[t][i].line = t
              /\ \E s \in teams[t] : newTeams'[t][i].dummy = s.dummy
         /\ \A i \in 1..size[t] : next + i - 1 \in alive' /\ next + i - 1 \notin alive
         /\ \A u \in Team : u # t => newTeams'[u] = newTeams[u]
         /\ next' \in Nat /\ alive' \subseteq 0..(next' - 1) /\ alive \subseteq alive'
<1> USE DEF GenInv
<1>1. /\ size[t] \in Nat \ {0} /\ next \in Nat /\ pool[t] \in Layouts
      /\ alive \subseteq 0..(next - 1)
  BY Sized DEF GenType
<1>2. pool[t].numElite \in Nat /\ pool[t].numEliteCopies \in Nat
  BY <1>1, GenerationAssumption
<1>3. Elites(t) \in Nat
  <2>1. pool[t].numElite * pool[t].numEliteCopies \in Nat
    BY <1>2
  <2> QED BY <2>1 DEF Elites
<1>4. Surplus(t) \in Nat
  BY <1>1, <1>3 DEF Surplus
<1>5. p \in [1..size[t] -> teams[t]]
  BY DEF Parents
<1>6. newTeams'[t] = Generate(t, p) /\ \A u \in Team : u # t => newTeams'[u] = newTeams[u]
  BY DEF GenType
<1>7. \A i \in 1..size[t] : p[i] \in Own(t) /\ next + i - 1 \in Nat
  <2>1. teams[t] \subseteq Own(t)
    BY DEF GenType
  <2>2. \A i \in 1..size[t] : next + i - 1 \in Nat
    BY <1>1
  <2> QED BY <2>1, <2>2, <1>5
<1>8. \A i \in 1..size[t] :
        /\ Child(t, p[i], next + i - 1) \in Own(t)
        /\ Child(t, p[i], next + i - 1).brain = next + i - 1
        /\ Child(t, p[i], next + i - 1).line = t
        /\ Child(t, p[i], next + i - 1).dummy = p[i].dummy
  BY <1>7 DEF Child, Own, Ships
<1>9. newTeams'[t] \in [1..size[t] -> Own(t)]
  BY <1>6, <1>8 DEF Generate
<1>10. newTeams'[t] \in Seq(Ships)
  BY <1>9, <1>1, Listed DEF Own
<1>11. \A i \in 1..size[t] : newTeams'[t][i] = Child(t, p[i], next + i - 1)
  BY <1>6 DEF Generate
<1>12. next' \in Nat /\ next' >= next + size[t]
  BY <1>1, <1>4
<1>13. \A i \in 1..size[t] : next + i - 1 \in alive' /\ next + i - 1 \notin alive
  BY <1>1, <1>12
<1>14. alive' \subseteq 0..(next' - 1) /\ alive \subseteq alive'
  <2>1. \A b \in 0..(next - 1) : b \in 0..(next' - 1)
    BY <1>1, <1>12
  <2>2. \A b \in next..(next' - 1) : b \in 0..(next' - 1)
    BY <1>1, <1>12
  <2> QED BY <1>1, <2>1, <2>2
<1>15. newTeams' \in [Team -> Seq(Ships)]
  BY <1>6, <1>10 DEF GenType
<1>16. \A i \in 1..size[t] : \E s \in teams[t] : newTeams'[t][i].dummy = s.dummy
  BY <1>5, <1>8, <1>11
<1> QED BY <1>6, <1>8, <1>9, <1>10, <1>11, <1>12, <1>13, <1>14, <1>15, <1>16

LEMMA EpochInv ==
  ASSUME GenInv, NEW t \in Team, NEW here, NEW there, Epoch(t, here, there),
         \/ t = 0 /\ here = "epoch0" /\ there = "epoch1"
         \/ t = 1 /\ here = "epoch1" /\ there = "mate"
  PROVE  GenInv'
<1>n. 0 \in Team /\ 1 \in Team /\ \A u \in Team : u = 0 \/ u = 1
  BY DEF Team
<1>1. /\ phase = here /\ phase' = there
      /\ UNCHANGED <<pool, size, teams, winner, broken, left, won>>
      /\ next' = next + size[t] + Surplus(t)
      /\ alive' = alive \cup (next .. next' - 1)
  BY DEF Epoch, fixed
<1>2. Grown(t) = 0 /\ Grown(t)' = size[t]
  BY <1>1, <1>n DEF Grown
<1>3. \A u \in Team : u # t => Grown(u)' = Grown(u)
  BY <1>1, <1>n DEF Grown
<1>4. PICK p \in Parents(t) : newTeams' = [newTeams EXCEPT ![t] = Generate(t, p)]
  BY DEF Epoch
<1>5. /\ newTeams'[t] \in [1..size[t] -> Own(t)]
      /\ newTeams' \in [Team -> Seq(Ships)]
      /\ \A i \in 1..size[t] :
           /\ newTeams'[t][i].brain = next + i - 1 /\ newTeams'[t][i].line = t
           /\ \E s \in teams[t] : newTeams'[t][i].dummy = s.dummy
      /\ \A i \in 1..size[t] : next + i - 1 \in alive' /\ next + i - 1 \notin alive
      /\ \A u \in Team : u # t => newTeams'[u] = newTeams[u]
      /\ next' \in Nat /\ alive' \subseteq 0..(next' - 1) /\ alive \subseteq alive'
  BY <1>1, <1>2, <1>4, Bred
<1>6. \A u \in Team : u # t => Places(u)' = Places(u)
  BY <1>3 DEF Places
<1>7. Places(t)' = 1..size[t]
  BY <1>2 DEF Places
<1>8. size[t] \in Nat \ {0} /\ next \in Nat
  BY Sized DEF GenInv, GenType
<1>9. GenType'
  <2>1. \A u \in Team : Own(u)' = Own(u)
    BY DEF Own
  <2>2. \A u \in Team : newTeams'[u] \in [Places(u)' -> Own(u)]
    BY <1>5, <1>6, <1>7 DEF GenInv, GenType
  <2>3. \A u \in Team : teams'[u] \subseteq Own(u)
    BY <1>1 DEF GenInv, GenType
  <2>4. left' \in 0..Generations /\ (phase' # "fight" => left' > 0)
    BY <1>1 DEF GenInv, GenType
  <2>5. phase' \in {"fight", "epoch0", "epoch1", "mate", "cleanup"}
    BY <1>1
  <2>6. /\ pool' \in [Team -> Layouts] /\ size' \in [Team -> Sizes]
        /\ teams' \in [Team -> SUBSET Ships]
        /\ winner' \in [Team -> BOOLEAN] /\ won' \in Team \cup {Nobody}
    BY <1>1 DEF GenInv, GenType
  <2> QED BY <1>5, <2>1, <2>2, <2>3, <2>4, <2>5, <2>6 DEF GenType
<1>10. CountInv'
  BY <1>1 DEF CountInv, GenInv
<1>11. OldOwners'
  <2>1. OldOwners
    BY DEF GenInv, OwnerInv
  <2> QED BY <1>1, <1>5, <2>1 DEF OldOwners
<1>12. \A u \in Team : u # t => \A i \in Places(u) : newTeams[u][i].brain \in alive
  BY DEF GenInv, OwnerInv, NewOwners
<1>13. NewOwners'
  <2> SUFFICES ASSUME NEW u \in Team, NEW v \in Team, NEW i \in Places(u)'
               PROVE  /\ newTeams'[u][i].brain \in alive'
                      /\ \A j \in Places(v)' : newTeams'[v][j].brain = newTeams'[u][i].brain
                                               => u = v /\ i = j
    BY DEF NewOwners
  <2>1. newTeams'[u][i].brain \in alive'
    <3>1. CASE u = t
      BY <3>1, <1>5, <1>7
    <3>2. CASE u # t
      BY <3>2, <1>5, <1>6, <1>12
    <3> QED BY <3>1, <3>2
  <2>2. ASSUME NEW j \in Places(v)', newTeams'[v][j].brain = newTeams'[u][i].brain
        PROVE  u = v /\ i = j
    <3>1. CASE u = t /\ v = t
      <4>1. i \in 1..size[t] /\ j \in 1..size[t]
        BY <3>1, <1>7
      <4>2. next + j - 1 = next + i - 1
        BY <3>1, <4>1, <1>5, <2>2
      <4> QED BY <3>1, <4>1, <4>2, <1>8
    <3>2. CASE u = t /\ v # t
      BY <3>2, <1>5, <1>6, <1>7, <1>12, <2>2
    <3>3. CASE u # t /\ v = t
      BY <3>3, <1>5, <1>6, <1>7, <1>12, <2>2
    <3>4. CASE u # t /\ v # t
      <4>1. NewOwners
        BY DEF GenInv, OwnerInv
      <4> QED BY <3>4, <4>1, <1>5, <1>6, <2>2 DEF NewOwners
    <3> QED BY <3>1, <3>2, <3>3, <3>4
  <2> QED BY <2>1, <2>2
<1>14. OldAndNew'
  <2> SUFFICES ASSUME NEW u \in Team, NEW v \in Team, NEW s \in teams[u], NEW j \in Places(v)'
               PROVE  newTeams'[v][j].brain # s.brain
    BY <1>1 DEF OldAndNew
  <2>1. s.brain \in alive
    BY DEF GenInv, OwnerInv, OldOwners
  <2>2. CASE v = t
    BY <2>1, <2>2, <1>5, <1>7
  <2>3. CASE v # t
    <3>1. newTeams'[v] = newTeams[v] /\ j \in Places(v)
      BY <2>3, <1>5, <1>6
    <3>2. newTeams[v][j].brain # s.brain
      BY <3>1 DEF GenInv, OwnerInv, OldAndNew
    <3> QED BY <3>1, <3>2
  <2> QED BY <2>2, <2>3
<1>15. WinnerKnown'
  BY <1>1 DEF WinnerKnown, GenInv
<1>16. LineInv'
  <2> SUFFICES ASSUME NEW u \in Team, NEW i \in Places(u)' PROVE newTeams'[u][i].line = u
    BY DEF LineInv
  <2>1. CASE u = t
    BY <2>1, <1>5, <1>7
  <2>2. CASE u # t
    BY <2>2, <1>1, <1>5, <1>6 DEF GenInv, LineInv
  <2> QED BY <2>1, <2>2
<1>17. ThinkInv'
  <2> SUFFICES ASSUME NEW u \in Team, AllThink(teams[u]), NEW i \in Places(u)'
               PROVE  ~newTeams'[u][i].dummy
    BY <1>1 DEF ThinkInv, AllThink
  <2>1. CASE u = t
    <3>1. PICK s \in teams[t] : newTeams'[t][i].dummy = s.dummy
      BY <2>1, <1>5, <1>7
    <3>2. ~s.dummy
      BY <2>1 DEF AllThink
    <3> QED BY <2>1, <3>1, <3>2
  <2>2. CASE u # t
    BY <2>2, <1>5, <1>6 DEF GenInv, ThinkInv
  <2> QED BY <2>1, <2>2
<1>18. broken' = FALSE
  BY <1>1 DEF GenInv, OwnerInv
<1> QED BY <1>9, <1>10, <1>11, <1>13, <1>14, <1>15, <1>16, <1>17, <1>18 DEF GenInv, OwnerInv

LEMMA CleanupInv ==
  ASSUME GenInv, Cleanup PROVE GenInv'
<1> DEFINE old == teams[0] \cup teams[1]
<1>n. 0 \in Team /\ 1 \in Team /\ \A u \in Team : u = 0 \/ u = 1
  BY DEF Team
<1>1. /\ phase = "cleanup" /\ phase' = "fight"
      /\ UNCHANGED <<pool, size, winner, next, won>>
      /\ alive' = alive \ Brains(old)
      /\ broken' = (broken \/ Fails(old))
      /\ teams' = [t \in Team |-> Kids(t)]
      /\ newTeams' = [t \in Team |-> <<>>]
      /\ left' = left - 1
  BY DEF Cleanup, fixed
<1>2. \A t \in Team : Places(t) = 1..size[t] /\ Grown(t)' = 0 /\ size[t] \in Nat \ {0}
  BY <1>1, Sized DEF Grown, Places, GenInv, GenType
<1>3. \A t \in Team :
        /\ newTeams[t] \in [1..size[t] -> Own(t)]
        /\ Kids(t) = {newTeams[t][i] : i \in 1..size[t]}
  BY <1>2 DEF GenInv, GenType, Kids
<1>4. \A s \in old : s.brain \in alive /\ \A r \in old : r.brain = s.brain => r = s
  BY <1>n DEF GenInv, OwnerInv, OldOwners
<1>5. broken' = FALSE
  <2>1. ~Fails(old)
    BY <1>4 DEF Fails
  <2> QED BY <1>1, <2>1 DEF GenInv, OwnerInv
<1>6. \A t \in Team : \A i \in 1..size[t] : newTeams[t][i].brain \in alive'
  <2> SUFFICES ASSUME NEW t \in Team, NEW i \in 1..size[t]
               PROVE  newTeams[t][i].brain \in alive \ Brains(old)
    BY <1>1
  <2>1. newTeams[t][i].brain \in alive
    BY <1>2 DEF GenInv, OwnerInv, NewOwners
  <2>2. \A s \in old : newTeams[t][i].brain # s.brain
    BY <1>2, <1>n DEF GenInv, OwnerInv, OldAndNew
  <2> QED BY <2>1, <2>2 DEF Brains
<1>7. \A t, u \in Team : \A i \in 1..size[t] : \A j \in 1..size[u] :
        newTeams[u][j].brain = newTeams[t][i].brain => t = u /\ i = j
  BY <1>2 DEF GenInv, OwnerInv, NewOwners
<1>8. GenType'
  <2>1. \A t \in Team : Own(t)' = Own(t) /\ Places(t)' = 1..0
    BY <1>2 DEF Own, Places
  <2>2. \A t \in Team : newTeams'[t] = <<>> /\ teams'[t] = Kids(t)
    BY <1>1
  <2>3. \A t \in Team : newTeams'[t] \in [Places(t)' -> Own(t)']
    BY <2>1, <2>2, EmptyTeam
  <2>4. \A t \in Team : teams'[t] \subseteq Own(t)'
    <3>1. \A t \in Team : \A i \in 1..size[t] : newTeams[t][i] \in Own(t)
      BY <1>3
    <3>2. \A t \in Team : Kids(t) \subseteq Own(t)
      BY <3>1, <1>3
    <3> QED BY <2>1, <2>2, <3>2
  <2>5. newTeams' \in [Team -> Seq(Ships)] /\ teams' \in [Team -> SUBSET Ships]
    BY <1>1, <2>1, <2>2, <2>4 DEF Own
  <2>6. left' \in 0..Generations
    BY <1>1, GenerationAssumption DEF GenInv, GenType
  <2>7. /\ pool' \in [Team -> Layouts] /\ size' \in [Team -> Sizes]
        /\ winner' \in [Team -> BOOLEAN] /\ won' \in Team \cup {Nobody}
        /\ next' \in Nat /\ alive' \subseteq 0..(next' - 1)
    BY <1>1 DEF GenInv, GenType
  <2> QED BY <1>1, <2>3, <2>4, <2>5, <2>6, <2>7 DEF GenType
<1>9. CountInv'
  <2> SUFFICES ASSUME NEW t \in Team PROVE Cardinality(Kids(t)) = size[t]
    BY <1>1 DEF CountInv
  <2>1. newTeams[t] \in [1..size[t] -> Kids(t)]
    BY <1>3
  <2>2. \A i, j \in 1..size[t] : newTeams[t][i] = newTeams[t][j] => i = j
    BY <1>7
  <2>3. \A s \in Kids(t) : \E i \in 1..size[t] : newTeams[t][i] = s
    BY <1>3
  <2>4. size[t] \in Nat
    BY <1>2
  <2> QED BY <2>1, <2>2, <2>3, <2>4, Counting
<1>10. OldOwners'
  <2> SUFFICES ASSUME NEW t \in Team, NEW u \in Team, NEW s \in Kids(t)
               PROVE  s.brain \in alive' /\ \A r \in Kids(u) : r.brain = s.brain => r = s
    BY <1>1 DEF OldOwners
  <2>1. PICK i \in 1..size[t] : s = newTeams[t][i]
    BY <1>3
  <2>2. ASSUME NEW r \in Kids(u), r.brain = s.brain PROVE r = s
    <3>1. PICK j \in 1..size[u] : r = newTeams[u][j]
      BY <1>3
    <3> QED BY <2>1, <2>2, <3>1, <1>7
  <2> QED BY <2>1, <2>2, <1>6
<1>11. NewOwners' /\ OldAndNew' /\ LineInv' /\ ThinkInv'
  BY <1>2 DEF NewOwners, OldAndNew, LineInv, ThinkInv, Places
<1>12. WinnerKnown'
  BY <1>1 DEF WinnerKnown, GenInv
<1> QED BY <1>5, <1>8, <1>9, <1>10, <1>11, <1>12 DEF GenInv, OwnerInv

\* What mate() makes of the loser's new generation, and that it leaves the
\* winner's alone.
LEMMA Exchanged ==
  ASSUME GenInv, phase = "mate", NEW w \in Team, BigEnough, Exchange(w)
  PROVE  LET l == Other(w) IN
         /\ l \in Team /\ l # w
         /\ \A u \in Team : u = l \/ u = w
         /\ newTeams'[w] = newTeams[w] /\ newTeams' \in [Team -> Seq(Ships)]
         /\ newTeams'[l] \in [1..size[l] -> Own(l)]
         /\ next' \in Nat /\ alive' \subseteq 0..(next' - 1)
         /\ broken' = FALSE
         /\ \E places \in SUBSET (1..size[l]) : \E copy \in [places -> 1..pool[w].numElite] :
              /\ \A j, k \in places : copy[j] = copy[k] => j = k
              /\ \A j \in places :
                   /\ newTeams'[l][j].brain = next + copy[j] - 1
                   /\ next + copy[j] - 1 \in alive' /\ next + copy[j] - 1 \notin alive
                   /\ newTeams'[l][j].line = w /\ ~newTeams'[l][j].dummy
              /\ \A j \in 1..size[l] \ places : newTeams'[l][j] = newTeams[l][j]
              /\ alive \ {newTeams[l][j].brain : j \in places} \subseteq alive'
<1> DEFINE l == Other(w)
           places == {Place(w, i) : i \in Copied(w)}
           replaced == {newTeams[l][j] : j \in places}
           copy == [j \in places |-> Place(w, j)]
           n == pool[w].numElite
<1>1. l \in Team /\ l # w /\ \A u \in Team : u = l \/ u = w
  BY DEF Team, Other
<1>2. /\ newTeams' = [newTeams EXCEPT ![l] =
           [j \in DOMAIN newTeams[l] |->
              IF j \in places THEN Copy(w, Place(w, j)) ELSE newTeams[l][j]]]
      /\ alive' = (alive \ Brains(replaced)) \cup {next + i - 1 : i \in Copied(w)}
      /\ next' = next + n
      /\ broken' = (broken \/ Fails(replaced))
  BY DEF Exchange
<1>3. \A t \in Team : /\ Places(t) = 1..size[t] /\ size[t] \in Nat \ {0}
                      /\ newTeams[t] \in [1..size[t] -> Own(t)]
                      /\ DOMAIN newTeams[t] = 1..size[t] /\ Len(newTeams[t]) = size[t]
  <2> SUFFICES ASSUME NEW t \in Team
               PROVE  /\ Places(t) = 1..size[t] /\ size[t] \in Nat \ {0}
                      /\ newTeams[t] \in [1..size[t] -> Own(t)]
                      /\ DOMAIN newTeams[t] = 1..size[t] /\ Len(newTeams[t]) = size[t]
    OBVIOUS
  <2>1. Places(t) = 1..size[t] /\ size[t] \in Nat \ {0}
    BY Sized DEF Grown, Places, GenInv, GenType
  <2>2. newTeams[t] \in [1..size[t] -> Own(t)]
    BY <2>1 DEF GenInv, GenType
  <2> QED BY <2>1, <2>2, Listed
<1>4. n \in Nat /\ n < size[w] /\ n < size[l]
  <2>1. n \in Nat
    BY GenerationAssumption DEF GenInv, GenType
  <2> QED BY <1>1, <1>3, <2>1 DEF BigEnough
<1>5. next \in Nat /\ alive \subseteq 0..(next - 1)
  BY DEF GenInv, GenType
<1>6. Copied(w) \subseteq 1..n /\ \A i \in Copied(w) : ~newTeams[w][i].dummy
  BY DEF Copied
<1>7. \A i \in 1..n : /\ Place(w, i) = size[l] + 1 - i /\ Place(w, i) \in 1..size[l]
                      /\ Place(w, Place(w, i)) = i
  BY <1>1, <1>3, <1>4 DEF Place
<1>8. \A j \in places : Place(w, j) \in Copied(w) /\ j \in 1..size[l]
                       /\ Place(w, j) = size[l] + 1 - j
  <2> SUFFICES ASSUME NEW j \in places
               PROVE  Place(w, j) \in Copied(w) /\ j \in 1..size[l]
                      /\ Place(w, j) = size[l] + 1 - j
    OBVIOUS
  <2>1. PICK i \in Copied(w) : j = Place(w, i)
    OBVIOUS
  <2> QED BY <2>1, <1>1, <1>3, <1>6, <1>7 DEF Place
<1>9. \A i \in Copied(w) : Copy(w, i) = [brain |-> next + i - 1, team |-> l,
                                        dummy |-> newTeams[w][i].dummy, line |-> w]
  BY DEF Copy, Child
<1>10. \A i \in Copied(w) : /\ Copy(w, i) \in Own(l) /\ Copy(w, i).brain = next + i - 1
                            /\ Copy(w, i).line = w /\ ~Copy(w, i).dummy
  <2> SUFFICES ASSUME NEW i \in Copied(w)
               PROVE  /\ Copy(w, i) \in Own(l) /\ Copy(w, i).brain = next + i - 1
                      /\ Copy(w, i).line = w /\ ~Copy(w, i).dummy
    OBVIOUS
  <2>0. i \in 1..n /\ size[w] \in Nat
    BY <1>3, <1>6
  <2>1. i \in 1..n /\ i \in 1..size[w] /\ next + i - 1 \in Nat
    BY <2>0, <1>4, <1>5
  <2>2. newTeams[w][i] \in Ships
    BY <2>1, <1>3 DEF Own
  <2>3. newTeams[w][i].dummy \in BOOLEAN
    BY <2>2 DEF Ships
  <2>4. Copy(w, i) \in Own(l)
    BY <2>1, <2>3, <1>1, <1>9 DEF Own, Ships
  <2>5. Copy(w, i).dummy = newTeams[w][i].dummy
    BY <1>9
  <2> QED BY <2>4, <2>5, <1>6, <1>9
<1>11. newTeams'[w] = newTeams[w] /\ \A j \in 1..size[l] :
         newTeams'[l][j] = IF j \in places THEN Copy(w, Place(w, j)) ELSE newTeams[l][j]
  BY <1>1, <1>2, <1>3 DEF GenInv, GenType
<1>12. newTeams'[l] \in [1..size[l] -> Own(l)]
  <2>1. newTeams'[l] = [j \in 1..size[l] |->
          IF j \in places THEN Copy(w, Place(w, j)) ELSE newTeams[l][j]]
    BY <1>1, <1>2, <1>3 DEF GenInv, GenType
  <2>2. \A j \in 1..size[l] : (IF j \in places THEN Copy(w, Place(w, j)) ELSE newTeams[l][j])
                               \in Own(l)
    BY <1>1, <1>3, <1>8, <1>10
  <2> QED BY <2>1, <2>2
<1>13. newTeams' \in [Team -> Seq(Ships)]
  <2>1. newTeams'[l] \in Seq(Ships)
    BY <1>1, <1>3, <1>12, Listed DEF Own
  <2> QED BY <1>1, <1>2, <2>1 DEF GenInv, GenType
<1>14. next' \in Nat /\ alive' \subseteq 0..(next' - 1)
  <2>1. next' \in Nat
    BY <1>2, <1>4, <1>5
  <2>2. \A i \in Copied(w) : next + i - 1 \in 0..(next' - 1)
    BY <1>2, <1>4, <1>5, <1>6
  <2>3. \A b \in alive : b \in 0..(next' - 1)
    BY <1>2, <1>4, <1>5
  <2> QED BY <1>2, <2>1, <2>2, <2>3
<1>15. broken' = FALSE
  <2>1. NewOwners /\ broken = FALSE
    BY DEF GenInv, OwnerInv
  <2>2. \A s \in replaced : s.brain \in alive /\ \A r \in replaced : r.brain = s.brain => r = s
    <3> SUFFICES ASSUME NEW s \in replaced
                 PROVE  s.brain \in alive /\ \A r \in replaced : r.brain = s.brain => r = s
      OBVIOUS
    <3>1. PICK j \in places : s = newTeams[l][j]
      OBVIOUS
    <3>2. j \in Places(l)
      BY <1>1, <1>3, <1>8
    <3>3. ASSUME NEW r \in replaced, r.brain = s.brain PROVE r = s
      <4>1. PICK k \in places : r = newTeams[l][k]
        OBVIOUS
      <4>2. k \in Places(l)
        BY <1>1, <1>3, <1>8
      <4> QED BY <2>1, <1>1, <3>1, <3>2, <3>3, <4>1, <4>2 DEF NewOwners
    <3> QED BY <2>1, <1>1, <3>1, <3>2, <3>3 DEF NewOwners
  <2>3. ~Fails(replaced)
    BY <2>2 DEF Fails
  <2> QED BY <1>2, <2>1, <2>3
<1>16. places \in SUBSET (1..size[l]) /\ copy \in [places -> 1..n]
  BY <1>6, <1>8
<1>17. \A j \in places : copy[j] \in Copied(w) /\ copy[j] = size[l] + 1 - j
  BY <1>8
<1>18. \A j, k \in places : copy[j] = copy[k] => j = k
  <2> SUFFICES ASSUME NEW j \in places, NEW k \in places, copy[j] = copy[k] PROVE j = k
    OBVIOUS
  <2>1. size[l] + 1 - j = size[l] + 1 - k
    BY <1>17
  <2>2. j \in 1..size[l] /\ k \in 1..size[l] /\ size[l] \in Nat
    BY <1>1, <1>3, <1>8
  <2> HIDE DEF places, copy
  <2> QED BY <2>1, <2>2
<1>19. \A j \in places :
         /\ newTeams'[l][j].brain = next + copy[j] - 1
         /\ next + copy[j] - 1 \in alive' /\ next + copy[j] - 1 \notin alive
         /\ newTeams'[l][j].line = w /\ ~newTeams'[l][j].dummy
  <2> SUFFICES ASSUME NEW j \in places
               PROVE  /\ newTeams'[l][j].brain = next + copy[j] - 1
                      /\ next + copy[j] - 1 \in alive' /\ next + copy[j] - 1 \notin alive
                      /\ newTeams'[l][j].line = w /\ ~newTeams'[l][j].dummy
    OBVIOUS
  <2>1. copy[j] \in Copied(w) /\ copy[j] \in 1..n /\ copy[j] = Place(w, j)
    BY <1>6, <1>17
  <2>2. newTeams'[l][j] = Copy(w, copy[j])
    BY <2>1, <1>8, <1>11
  <2>3. next + copy[j] - 1 \in alive'
    BY <2>1, <1>2
  <2>4. next + copy[j] - 1 \notin alive
    BY <2>1, <1>4, <1>5
  <2> QED BY <2>1, <2>2, <2>3, <2>4, <1>10
<1>20. \A j \in 1..size[l] \ places : newTeams'[l][j] = newTeams[l][j]
  BY <1>11
<1>21. alive \ {newTeams[l][j].brain : j \in places} \subseteq alive'
  BY <1>2 DEF Brains
<1> HIDE DEF places, copy, replaced
<1>22. \E P \in SUBSET (1..size[l]) : \E c \in [P -> 1..n] :
         /\ \A j, k \in P : c[j] = c[k] => j = k
         /\ \A j \in P :
              /\ newTeams'[l][j].brain = next + c[j] - 1
              /\ next + c[j] - 1 \in alive' /\ next + c[j] - 1 \notin alive
              /\ newTeams'[l][j].line = w /\ ~newTeams'[l][j].dummy
         /\ \A j \in 1..size[l] \ P : newTeams'[l][j] = newTeams[l][j]
         /\ alive \ {newTeams[l][j].brain : j \in P} \subseteq alive'
  BY <1>16, <1>18, <1>19, <1>20, <1>21
<1> QED BY <1>1, <1>11, <1>12, <1>13, <1>14, <1>15, <1>22

LEMMA ExchangeInv ==
  ASSUME GenInv, phase = "mate", phase' = "cleanup", NEW w \in Team, BigEnough, winner[w],
         Exchange(w), UNCHANGED <<pool, size, teams, winner, left, won>>
  PROVE  GenInv'
<1> DEFINE l == Other(w)
<1>1. /\ l \in Team /\ l # w
      /\ \A u \in Team : u = l \/ u = w
      /\ newTeams'[w] = newTeams[w] /\ newTeams' \in [Team -> Seq(Ships)]
      /\ newTeams'[l] \in [1..size[l] -> Own(l)]
      /\ next' \in Nat /\ alive' \subseteq 0..(next' - 1)
      /\ broken' = FALSE
  BY Exchanged
<1>2. PICK places \in SUBSET (1..size[l]) : \E copy \in [places -> 1..pool[w].numElite] :
        /\ \A j, k \in places : copy[j] = copy[k] => j = k
        /\ \A j \in places :
             /\ newTeams'[l][j].brain = next + copy[j] - 1
             /\ next + copy[j] - 1 \in alive' /\ next + copy[j] - 1 \notin alive
             /\ newTeams'[l][j].line = w /\ ~newTeams'[l][j].dummy
        /\ \A j \in 1..size[l] \ places : newTeams'[l][j] = newTeams[l][j]
        /\ alive \ {newTeams[l][j].brain : j \in places} \subseteq alive'
  BY Exchanged
<1>3. PICK copy \in [places -> 1..pool[w].numElite] :
        /\ \A j, k \in places : copy[j] = copy[k] => j = k
        /\ \A j \in places :
             /\ newTeams'[l][j].brain = next + copy[j] - 1
             /\ next + copy[j] - 1 \in alive' /\ next + copy[j] - 1 \notin alive
             /\ newTeams'[l][j].line = w /\ ~newTeams'[l][j].dummy
        /\ \A j \in 1..size[l] \ places : newTeams'[l][j] = newTeams[l][j]
        /\ alive \ {newTeams[l][j].brain : j \in places} \subseteq alive'
  BY <1>2
<1> HIDE DEF l
<1>4. \A t \in Team : Places(t) = 1..size[t] /\ Places(t)' = 1..size[t]
  BY DEF Places, Grown
<1>5. next \in Nat /\ \A j \in places : copy[j] \in Nat
  BY DEF GenInv, GenType
<1>6. \A j, k \in places : next + copy[j] - 1 = next + copy[k] - 1 => j = k
  <2> SUFFICES ASSUME NEW j \in places, NEW k \in places,
                      next + copy[j] - 1 = next + copy[k] - 1
               PROVE  copy[j] = copy[k]
    BY <1>3
  <2>1. copy[j] \in Nat /\ copy[k] \in Nat
    BY <1>5
  <2> QED BY <2>1, <1>5
<1>7. NewOwners /\ OldOwners /\ OldAndNew /\ LineInv /\ ThinkInv
  BY DEF GenInv, OwnerInv
<1>u. \A t, u \in Team : \A i \in 1..size[t] : \A j \in 1..size[u] :
        newTeams[u][j].brain = newTeams[t][i].brain => t = u /\ i = j
  <2> SUFFICES ASSUME NEW t \in Team, NEW u \in Team, NEW i \in 1..size[t],
                      NEW j \in 1..size[u], newTeams[u][j].brain = newTeams[t][i].brain
               PROVE  t = u /\ i = j
    OBVIOUS
  <2>1. i \in Places(t) /\ j \in Places(u)
    BY <1>4
  <2> QED BY <2>1, <1>7 DEF NewOwners
<1>o. \A t, u \in Team : \A s \in teams[t] : \A j \in 1..size[u] :
        newTeams[u][j].brain # s.brain
  BY <1>4, <1>7 DEF OldAndNew
<1>l. \A t \in Team : \A i \in 1..size[t] : newTeams[t][i].line = t
  BY <1>4, <1>7 DEF LineInv
\* A place of the new generation keeps its ship, or has a copy with a new brain.
<1>8. \A u \in Team : \A i \in 1..size[u] :
        \/ u = l /\ i \in places
        \/ /\ ~(u = l /\ i \in places) /\ newTeams'[u][i] = newTeams[u][i]
           /\ newTeams[u][i].brain \in alive /\ newTeams[u][i].brain \in alive'
  <2> SUFFICES ASSUME NEW u \in Team, NEW i \in 1..size[u], ~(u = l /\ i \in places)
               PROVE  /\ newTeams'[u][i] = newTeams[u][i]
                      /\ newTeams[u][i].brain \in alive /\ newTeams[u][i].brain \in alive'
    OBVIOUS
  <2>1. newTeams'[u][i] = newTeams[u][i]
    <3>1. CASE u = l
      BY <3>1, <1>3
    <3>2. CASE u = w
      BY <3>2, <1>1
    <3> QED BY <3>1, <3>2, <1>1
  <2>2. newTeams[u][i].brain \in alive
    BY <1>4, <1>7 DEF NewOwners
  <2>3. \A j \in places : newTeams[u][i].brain # newTeams[l][j].brain
    BY <1>1, <1>u
  <2> QED BY <2>1, <2>2, <2>3, <1>3
<1>9. GenType'
  <2>1. \A u \in Team : Own(u)' = Own(u)
    BY DEF Own
  <2>2. newTeams[w] \in [1..size[w] -> Own(w)]
    BY <1>4 DEF GenInv, GenType
  <2>3. \A u \in Team : newTeams'[u] \in [Places(u)' -> Own(u)]
    BY <2>2, <1>1, <1>4
  <2>4. \A u \in Team : teams'[u] \subseteq Own(u)
    BY DEF GenInv, GenType
  <2>5. left' \in 0..Generations /\ (phase' # "fight" => left' > 0)
    BY DEF GenInv, GenType
  <2>6. /\ pool' \in [Team -> Layouts] /\ size' \in [Team -> Sizes]
        /\ teams' \in [Team -> SUBSET Ships]
        /\ winner' \in [Team -> BOOLEAN] /\ won' \in Team \cup {Nobody}
    BY DEF GenInv, GenType
  <2> QED BY <1>1, <2>1, <2>3, <2>4, <2>5, <2>6 DEF GenType
<1>10. CountInv' /\ WinnerKnown'
  BY DEF CountInv, WinnerKnown, GenInv
<1>11. OldOwners'
  <2> SUFFICES ASSUME NEW t \in Team, NEW s \in teams[t] PROVE s.brain \in alive'
    BY <1>7 DEF OldOwners
  <2>1. s.brain \in alive
    BY <1>7 DEF OldOwners
  <2>2. \A j \in places : newTeams[l][j].brain # s.brain
    BY <1>1, <1>4, <1>7 DEF OldAndNew
  <2> QED BY <2>1, <2>2, <1>3
<1>12. NewOwners'
  <2> SUFFICES ASSUME NEW u \in Team, NEW v \in Team, NEW i \in Places(u)'
               PROVE  /\ newTeams'[u][i].brain \in alive'
                      /\ \A j \in Places(v)' : newTeams'[v][j].brain = newTeams'[u][i].brain
                                               => u = v /\ i = j
    BY DEF NewOwners
  <2>0. i \in 1..size[u]
    BY <1>4
  <2>1. newTeams'[u][i].brain \in alive'
    BY <2>0, <1>3, <1>8
  <2>2. ASSUME NEW j \in Places(v)', newTeams'[v][j].brain = newTeams'[u][i].brain
        PROVE  u = v /\ i = j
    <3>0. j \in 1..size[v]
      BY <1>4
    <3>1. CASE (u = l /\ i \in places) /\ (v = l /\ j \in places)
      BY <3>1, <2>2, <1>3, <1>6
    <3>2. CASE (u = l /\ i \in places) /\ ~(v = l /\ j \in places)
      BY <3>2, <2>0, <2>2, <3>0, <1>3, <1>8
    <3>3. CASE ~(u = l /\ i \in places) /\ (v = l /\ j \in places)
      BY <3>3, <2>0, <2>2, <3>0, <1>3, <1>8
    <3>4. CASE ~(u = l /\ i \in places) /\ ~(v = l /\ j \in places)
      <4>1. newTeams[v][j].brain = newTeams[u][i].brain
        BY <3>4, <2>0, <2>2, <3>0, <1>8
      <4> QED BY <4>1, <2>0, <3>0, <1>u
    <3> QED BY <3>1, <3>2, <3>3, <3>4
  <2> QED BY <2>1, <2>2
<1>13. OldAndNew'
  <2> SUFFICES ASSUME NEW t \in Team, NEW u \in Team, NEW s \in teams[t], NEW j \in 1..size[u]
               PROVE  newTeams'[u][j].brain # s.brain
    BY <1>4 DEF OldAndNew
  <2>1. s.brain \in alive
    BY <1>7 DEF OldOwners
  <2>2. CASE u = l /\ j \in places
    BY <2>1, <2>2, <1>3
  <2>3. CASE ~(u = l /\ j \in places)
    BY <2>3, <1>8, <1>o
  <2> QED BY <2>2, <2>3
<1>14. LineInv'
  <2> SUFFICES ASSUME NEW u \in Team, NEW i \in 1..size[u], newTeams'[u][i].line # u
               PROVE  winner[newTeams'[u][i].line]
    BY <1>4 DEF LineInv
  <2>1. CASE u = l /\ i \in places
    BY <2>1, <1>3
  <2>2. CASE ~(u = l /\ i \in places)
    BY <2>2, <1>8, <1>l
  <2> QED BY <2>1, <2>2
<1>15. ThinkInv'
  <2> SUFFICES ASSUME NEW u \in Team, AllThink(teams[u]), NEW i \in 1..size[u]
               PROVE  ~newTeams'[u][i].dummy
    BY <1>4 DEF ThinkInv, AllThink
  <2>1. CASE u = l /\ i \in places
    BY <2>1, <1>3
  <2>2. CASE ~(u = l /\ i \in places)
    BY <2>2, <1>4, <1>7, <1>8 DEF ThinkInv
  <2> QED BY <2>1, <2>2
<1> QED BY <1>1, <1>9, <1>10, <1>11, <1>12, <1>13, <1>14, <1>15 DEF GenInv, OwnerInv

LEMMA MateInv ==
  ASSUME GenInv, Mate PROVE GenInv'
<1>1. /\ phase = "mate" /\ phase' = "cleanup"
      /\ UNCHANGED <<pool, size, teams, winner, left, won>>
  BY DEF Mate, fixed
<1>n. 0 \in Team /\ 1 \in Team
  BY DEF Team
<1>2. CASE BigEnough /\ winner[0]
  BY <1>1, <1>2, <1>n, ExchangeInv DEF Mate
<1>3. CASE ~(BigEnough /\ winner[0]) /\ BigEnough /\ winner[1]
  BY <1>1, <1>3, <1>n, ExchangeInv DEF Mate
<1>4. CASE ~(BigEnough /\ winner[0]) /\ ~(BigEnough /\ winner[1])
  <2>1. UNCHANGED <<newTeams, alive, next, broken>>
    BY <1>4 DEF Mate
  <2>2. \A t \in Team : Grown(t)' = Grown(t)
    BY <1>1 DEF Grown
  <2>3. \A t \in Team : Places(t)' = Places(t) /\ Own(t)' = Own(t)
    BY <2>2 DEF Places, Own
  <2>4. GenType'
    <3>1. \A t \in Team : teams'[t] \subseteq Own(t)' /\ newTeams'[t] \in [Places(t)' -> Own(t)']
      BY <1>1, <2>1, <2>3 DEF GenInv, GenType
    <3> QED BY <1>1, <2>1, <3>1 DEF GenInv, GenType
  <2>5. CountInv' /\ WinnerKnown'
    BY <1>1 DEF GenInv, CountInv, WinnerKnown
  <2>6. OwnerInv'
    BY <1>1, <2>1, <2>3 DEF GenInv, OwnerInv, OldOwners, NewOwners, OldAndNew
  <2>7. LineInv' /\ ThinkInv'
    BY <1>1, <2>1, <2>3 DEF GenInv, LineInv, ThinkInv, AllThink
  <2> QED BY <2>4, <2>5, <2>6, <2>7 DEF GenInv
<1> QED BY <1>2, <1>3, <1>4

LEMMA StutterInv ==
  ASSUME GenInv, UNCHANGED vars PROVE GenInv'
<1>1. UNCHANGED <<phase, pool, size, teams, newTeams, winner, next, alive, broken, left, won>>
  BY DEF vars, fixed
<1>2. \A t \in Team : Places(t)' = Places(t) /\ Own(t)' = Own(t)
  BY <1>1 DEF Places, Own, Grown
<1>3. GenType'
  <2>1. \A t \in Team : teams'[t] \subseteq Own(t)' /\ newTeams'[t] \in [Places(t)' -> Own(t)']
    BY <1>1, <1>2 DEF GenInv, GenType
  <2> QED BY <1>1, <2>1 DEF GenInv, GenType
<1>4. CountInv' /\ WinnerKnown'
  BY <1>1 DEF GenInv, CountInv, WinnerKnown
<1>5. OwnerInv'
  BY <1>1, <1>2 DEF GenInv, OwnerInv, OldOwners, NewOwners, OldAndNew
<1>6. LineInv' /\ ThinkInv'
  BY <1>1, <1>2 DEF GenInv, LineInv, ThinkInv, AllThink
<1> QED BY <1>3, <1>4, <1>5, <1>6 DEF GenInv

LEMMA StepInv ==
  ASSUME GenInv, [Next]_vars PROVE GenInv'
<1>n. 0 \in Team /\ 1 \in Team
  BY DEF Team
<1>1. CASE Score
  BY <1>1, ScoreInv
<1>2. CASE Epoch(0, "epoch0", "epoch1")
  BY <1>2, <1>n, EpochInv
<1>3. CASE Epoch(1, "epoch1", "mate")
  BY <1>3, <1>n, EpochInv
<1>4. CASE Mate
  BY <1>4, MateInv
<1>5. CASE Cleanup
  BY <1>5, CleanupInv
<1>6. CASE UNCHANGED vars
  BY <1>6, StutterInv
<1> QED BY <1>1, <1>2, <1>3, <1>4, <1>5, <1>6 DEF Next

LEMMA InvHolds == Spec => []GenInv
BY InitInv, StepInv, PTL DEF Spec

-----------------------------------------------------------------------------
\* Every team fights with as many ships as it began with, all its own.
THEOREM TeamsKeepSize == Spec => []TypeOK
<1>1. GenInv => TypeOK
  <2> SUFFICES ASSUME GenInv PROVE TypeOK
    OBVIOUS
  <2>1. \A t \in Team : Grown(t) \in {0, size[t]} /\ Grown(t) \in Nat
    BY Sized DEF Grown, GenInv, GenType
  <2>2. \A t \in Team : newTeams[t] \in [1..Grown(t) -> Own(t)]
    BY DEF GenInv, GenType, Places
  <2>3. \A t \in Team : Len(newTeams[t]) = Grown(t) /\ DOMAIN newTeams[t] = 1..Grown(t)
    <3> SUFFICES ASSUME NEW t \in Team
                 PROVE  Len(newTeams[t]) = Grown(t) /\ DOMAIN newTeams[t] = 1..Grown(t)
      OBVIOUS
    <3> QED BY <2>1, <2>2, Listed
  <2>4. \A t \in Team : Kids(t) \subseteq Own(t)
    <3>1. \A t \in Team : \A i \in DOMAIN newTeams[t] : newTeams[t][i] \in Own(t)
      BY <2>2, <2>3
    <3> QED BY <3>1 DEF Kids
  <2>5. \A t \in Team : teams[t] \subseteq Own(t) /\ Cardinality(teams[t]) = size[t]
    BY DEF GenInv, GenType, CountInv
  <2>6. broken \in BOOLEAN
    BY DEF GenInv, OwnerInv
  <2> QED BY <2>1, <2>3, <2>4, <2>5, <2>6 DEF TypeOK, Own, GenInv, GenType
<1> QED BY <1>1, InvHolds, PTL

\* CHECK(!destroyed_) of BrainFann::destroy() holds, whatever is bred.
THEOREM BrainsDestroyedOnce == Spec => []DestroyedOnce
<1>1. GenInv => DestroyedOnce
  BY DEF GenInv, OwnerInv, DestroyedOnce
<1> QED BY <1>1, InvHolds, PTL

\* Ships change over to the team that lost, from the team that won.
THEOREM WinnersTeach == Spec => []AdoptsFromWinner
<1>1. GenInv => AdoptsFromWinner
  <2> SUFFICES ASSUME GenInv, phase = "cleanup", won # Nobody,
                      NEW t \in Team, NEW s \in Kids(t), s.line # t
               PROVE  s.line = won
    BY DEF AdoptsFromWinner
  <2>1. size[t] \in Nat /\ Places(t) = 1..size[t]
    BY Sized DEF GenInv, GenType, Places, Grown
  <2>2. newTeams[t] \in [1..size[t] -> Own(t)]
    BY <2>1 DEF GenInv, GenType
  <2>3. PICK i \in 1..size[t] : s = newTeams[t][i]
    BY <2>2 DEF Kids
  <2>4. winner[s.line] /\ s.line \in Team
    BY <2>1, <2>2, <2>3 DEF GenInv, LineInv, Own, Ships
  <2>5. won \in Team /\ ~winner[Other(won)]
    BY DEF GenInv, GenType, WinnerKnown
  <2>6. s.line = won \/ s.line = Other(won)
    BY <2>4, <2>5 DEF Team, Other
  <2> QED BY <2>4, <2>5, <2>6
<1> QED BY <1>1, InvHolds, PTL

\* Nobody breeds dummies into a team of ships that think.
THEOREM ThinkersStay == Spec => FightersStay
<1> DEFINE Stay == \A t \in Team : AllThink(teams[t]) => AllThink(teams'[t])
<1>1. GenInv /\ [Next]_vars => [Stay]_vars
  <2> SUFFICES ASSUME GenInv, Next, NEW t \in Team, AllThink(teams[t])
               PROVE  AllThink(teams'[t])
    OBVIOUS
  <2>1. CASE Cleanup
    <3>1. teams'[t] = Kids(t) /\ phase = "cleanup"
      BY <2>1 DEF Cleanup
    <3>2. Places(t) = DOMAIN newTeams[t]
      BY <3>1 DEF GenInv, GenType
    <3>3. \A s \in Kids(t) : ~s.dummy
      BY <3>2 DEF GenInv, ThinkInv, Kids
    <3> QED BY <3>1, <3>3 DEF AllThink
  <2>2. CASE ~Cleanup
    <3>1. teams' = teams
      BY <2>2 DEF Next, Score, Epoch, Mate
    <3> QED BY <3>1
  <2> QED BY <2>1, <2>2
<1> HIDE DEF Stay
<1>2. Spec => [][Stay]_vars
  BY <1>1, InvHolds, PTL DEF Spec
<1> QED BY <1>2 DEF Stay, FightersStay

-----------------------------------------------------------------------------
(***************************************************************************)
(* No brain is left over.  A child too many is born only where pairs of    *)
(* children fill what the elite leaves of a team of an odd size: the elite *)
(* is even, whatever the layout.                                           *)
(***************************************************************************)
EvenPairs == \A t \in Team : OneEach(t) \/ size[t] % 2 = 0

HasShip(b) ==
  \/ \E t \in Team : \E s \in teams[t] : s.brain = b
  \/ \E t \in Team : \E i \in Places(t) : newTeams[t][i].brain = b

NoLeak == EvenPairs => \A b \in alive : HasShip(b)

LEMMA NoSurplus ==
  ASSUME GenInv, NEW t \in Team, OneEach(t) \/ size[t] % 2 = 0
  PROVE  Surplus(t) = 0
<1>1. CASE OneEach(t)
  BY <1>1 DEF Surplus
<1>2. CASE ~OneEach(t)
  <2>0. pool[t].numElite \in Nat /\ pool[t].numEliteCopies \in Nat
    BY GenerationAssumption DEF GenInv, GenType
  <2>1. PICK n \in Nat, c \in Nat : n = pool[t].numElite /\ c = pool[t].numEliteCopies
    BY <2>0
  <2>2. PICK s \in Nat : s = size[t] /\ s % 2 = 0
    BY <1>2, Sized DEF GenInv, GenType
  <2>3. PICK e \in Nat : e = Elites(t) /\ e % 2 = 0
    <3>1. CASE Elites(t) = 0
      BY <3>1
    <3>2. CASE Elites(t) # 0
      <4>1. Elites(t) = n * c /\ c * (n % 2) = 0
        BY <2>1, <3>2 DEF Elites
      <4>2. n % 2 = 0
        <5>1. c # 0
          BY <3>2, <4>1
        <5>2. n % 2 \in {0, 1}
          OBVIOUS
        <5> QED BY <4>1, <5>1, <5>2
      <4>3. PICK k \in Nat : n = 2 * k
        BY <4>2
      <4>4. PICK m \in Nat : m = k * c
        OBVIOUS
      <4>5. n * c = 2 * m
        BY <4>3, <4>4
      <4> QED BY <4>1, <4>5
    <3> QED BY <3>1, <3>2
  <2> QED BY <1>2, <2>2, <2>3 DEF Surplus
<1> QED BY <1>1, <1>2

LEMMA InitLeak == Init => NoLeak
<1> SUFFICES ASSUME Init, NEW b \in 0..(next - 1)
                PROVE  \E t \in Team : \E s \in teams[t] : s.brain = b
  BY DEF Init, NoLeak, HasShip
<1>n. 0 \in Team /\ 1 \in Team
  BY DEF Team
<1>1. size[0] \in Nat /\ size[1] \in Nat /\ next = size[0] + size[1]
  BY <1>n, Sized DEF Init
<1>2. PICK d \in SUBSET Team :
        teams = [t \in Team |->
                   {[brain |-> t * size[0] + i, team |-> t, dummy |-> t \in d,
                     line |-> t] : i \in 0..(size[t] - 1)}]
  BY DEF Init
<1>3. \A t \in Team : \A i \in 0..(size[t] - 1) : \E s \in teams[t] : s.brain = t * size[0] + i
  <2> SUFFICES ASSUME NEW t \in Team, NEW i \in 0..(size[t] - 1)
               PROVE  \E s \in teams[t] : s.brain = t * size[0] + i
    OBVIOUS
  <2>1. [brain |-> t * size[0] + i, team |-> t, dummy |-> t \in d, line |-> t] \in teams[t]
    BY <1>2
  <2> QED BY <2>1
<1>4. CASE b < size[0]
  <2>1. b \in 0..(size[0] - 1) /\ 0 * size[0] + b = b
    BY <1>1, <1>4
  <2> QED BY <1>n, <1>3, <2>1
<1>5. CASE ~(b < size[0])
  <2>1. b - size[0] \in 0..(size[1] - 1) /\ 1 * size[0] + (b - size[0]) = b
    BY <1>1, <1>5
  <2> QED BY <1>n, <1>3, <2>1
<1> QED BY <1>4, <1>5

LEMMA EpochLeak ==
  ASSUME GenInv, NoLeak, NEW t \in Team, NEW here, NEW there, Epoch(t, here, there),
         \/ t = 0 /\ here = "epoch0" /\ there = "epoch1"
         \/ t = 1 /\ here = "epoch1" /\ there = "mate"
  PROVE  NoLeak'
<1>n. \A u \in Team : u = 0 \/ u = 1
  BY DEF Team
<1>1. /\ phase = here /\ phase' = there /\ UNCHANGED <<pool, size, teams>>
      /\ next' = next + size[t] + Surplus(t)
      /\ alive' = alive \cup (next .. next' - 1)
  BY DEF Epoch, fixed
<1>2. Grown(t) = 0 /\ Grown(t)' = size[t] /\ \A u \in Team : u # t => Grown(u)' = Grown(u)
  BY <1>1, <1>n DEF Grown
<1>3. PICK p \in Parents(t) : newTeams' = [newTeams EXCEPT ![t] = Generate(t, p)]
  BY DEF Epoch
<1>4. /\ \A i \in 1..size[t] : newTeams'[t][i].brain = next + i - 1
      /\ \A u \in Team : u # t => newTeams'[u] = newTeams[u]
  <2>1. \A i \in 1..size[t] :
          /\ newTeams'[t][i].brain = next + i - 1 /\ newTeams'[t][i].line = t
          /\ \E s \in teams[t] : newTeams'[t][i].dummy = s.dummy
    BY <1>1, <1>2, <1>3, Bred
  <2>2. \A u \in Team : u # t => newTeams'[u] = newTeams[u]
    BY <1>3 DEF GenInv, GenType
  <2> QED BY <2>1, <2>2
<1>5. size[t] \in Nat /\ next \in Nat
  BY Sized DEF GenInv, GenType
<1> SUFFICES ASSUME EvenPairs', NEW b \in alive' PROVE HasShip(b)'
  BY DEF NoLeak
<1>6. EvenPairs
  BY <1>1 DEF EvenPairs, OneEach
<1>7. CASE b \in alive
  <2>1. HasShip(b)
    BY <1>6, <1>7 DEF NoLeak
  <2>2. CASE \E u \in Team : \E s \in teams[u] : s.brain = b
    BY <1>1, <2>2 DEF HasShip
  <2>3. CASE \E u \in Team : \E i \in Places(u) : newTeams[u][i].brain = b
    <3>1. PICK u \in Team : \E i \in Places(u) : newTeams[u][i].brain = b
      BY <2>3
    <3>2. u # t
      BY <1>2, <3>1 DEF Places
    <3>3. Places(u)' = Places(u) /\ newTeams'[u] = newTeams[u]
      BY <1>2, <1>4, <3>2 DEF Places
    <3> QED BY <3>1, <3>3 DEF HasShip
  <2> QED BY <2>1, <2>2, <2>3 DEF HasShip
<1>8. CASE b \notin alive
  <2>1. b \in next .. next' - 1 /\ next' = next + size[t]
    <3>1. Surplus(t) = 0
      BY <1>6, NoSurplus DEF EvenPairs
    <3> QED BY <1>1, <1>5, <1>8, <3>1
  <2>2. b - next + 1 \in 1..size[t] /\ next + (b - next + 1) - 1 = b
    BY <1>5, <2>1
  <2>3. newTeams'[t][b - next + 1].brain = b
    BY <1>4, <2>2
  <2>4. Places(t)' = 1..size[t]
    BY <1>2 DEF Places
  <2> QED BY <2>2, <2>3, <2>4 DEF HasShip
<1> QED BY <1>7, <1>8

LEMMA ExchangeLeak ==
  ASSUME GenInv, NoLeak, phase = "mate", phase' = "cleanup", NEW w \in Team, BigEnough,
         Exchange(w), UNCHANGED <<pool, size, teams>>
  PROVE  NoLeak'
<1> DEFINE l == Other(w)
           n == pool[w].numElite
           places == {Place(w, i) : i \in Copied(w)}
<1>1. l \in Team /\ l # w /\ \A u \in Team : u = l \/ u = w
  BY DEF Team, Other
<1>2. \A t \in Team : /\ DOMAIN newTeams[t] = 1..size[t] /\ Len(newTeams[t]) = size[t]
                      /\ size[t] \in Nat
  <2> SUFFICES ASSUME NEW t \in Team
               PROVE  /\ DOMAIN newTeams[t] = 1..size[t] /\ Len(newTeams[t]) = size[t]
                      /\ size[t] \in Nat
    OBVIOUS
  <2>1. Places(t) = 1..size[t] /\ size[t] \in Nat
    BY Sized DEF Grown, Places, GenInv, GenType
  <2>2. newTeams[t] \in [1..size[t] -> Own(t)]
    BY <2>1 DEF GenInv, GenType
  <2> QED BY <2>1, <2>2, Listed
<1>3. \A t \in Team : Places(t) = 1..size[t] /\ Places(t)' = 1..size[t]
  BY DEF Places, Grown
<1>4. ASSUME NEW i \in Copied(w)
      PROVE  /\ Place(w, i) \in 1..size[l] /\ Place(w, i) \in places
             /\ newTeams'[l][Place(w, i)].brain = next + i - 1
  <2>1. n \in Nat /\ n < size[l]
    BY <1>1, <1>2, GenerationAssumption DEF BigEnough, GenInv, GenType
  <2>2. i \in 1..n
    BY DEF Copied
  <2>3. Place(w, i) \in 1..size[l] /\ Place(w, Place(w, i)) = i
    BY <1>1, <1>2, <2>1, <2>2 DEF Place
  <2>4. newTeams'[l][Place(w, i)] = Copy(w, Place(w, Place(w, i)))
    BY <1>1, <1>2, <2>3 DEF Exchange, GenInv, GenType
  <2> QED BY <2>3, <2>4 DEF Copy, Child
<1>5. /\ newTeams'[w] = newTeams[w]
      /\ \A j \in 1..size[l] \ places : newTeams'[l][j] = newTeams[l][j]
  BY <1>1, <1>2 DEF Exchange, GenInv, GenType
<1>6. \A b \in alive' : \/ b \in alive /\ \A j \in places : newTeams[l][j].brain # b
                        \/ \E i \in Copied(w) : b = next + i - 1
  BY DEF Exchange, Brains
<1> HIDE DEF l, n, places
<1> SUFFICES ASSUME EvenPairs', NEW b \in alive' PROVE HasShip(b)'
  BY DEF NoLeak
<1>7. EvenPairs
  BY DEF EvenPairs, OneEach
<1>8. CASE \E i \in Copied(w) : b = next + i - 1
  BY <1>1, <1>3, <1>8, <1>4 DEF HasShip
<1>9. CASE b \in alive /\ \A j \in places : newTeams[l][j].brain # b
  <2>1. HasShip(b)
    BY <1>7, <1>9 DEF NoLeak
  <2>2. CASE \E u \in Team : \E s \in teams[u] : s.brain = b
    BY <2>2 DEF HasShip
  <2>3. CASE \E u \in Team : \E i \in Places(u) : newTeams[u][i].brain = b
    <3>0. PICK u \in Team : \E i \in 1..size[u] : newTeams[u][i].brain = b
      BY <1>3, <2>3
    <3>1. PICK i \in 1..size[u] : newTeams[u][i].brain = b
      BY <3>0
    <3>2. newTeams'[u][i] = newTeams[u][i]
      <4>1. CASE u = w
        BY <1>5, <4>1
      <4>2. CASE u = l
        BY <1>9, <1>5, <3>1, <4>2
      <4> QED BY <1>1, <4>1, <4>2
    <3>3. newTeams'[u][i].brain = b /\ i \in Places(u)'
      BY <1>3, <3>1, <3>2
    <3> QED BY <3>3 DEF HasShip
  <2> QED BY <2>1, <2>2, <2>3 DEF HasShip
<1> QED BY <1>6, <1>8, <1>9

LEMMA CleanupLeak ==
  ASSUME GenInv, NoLeak, Cleanup
  PROVE  NoLeak'
<1>1. /\ phase = "cleanup" /\ UNCHANGED <<pool, size>>
      /\ alive' = alive \ Brains(teams[0] \cup teams[1])
      /\ teams' = [t \in Team |-> Kids(t)]
  BY DEF Cleanup, fixed
<1>2. \A t \in Team : Places(t) = 1..size[t] /\ size[t] \in Nat
  BY <1>1, Sized DEF Places, Grown, GenInv, GenType
<1>3. \A t \in Team : \A i \in Places(t) : newTeams[t][i] \in Kids(t)
  BY <1>2 DEF GenInv, GenType, Kids
<1> SUFFICES ASSUME EvenPairs', NEW b \in alive' PROVE HasShip(b)'
  BY DEF NoLeak
<1>4. EvenPairs
  BY <1>1 DEF EvenPairs, OneEach
<1>5. HasShip(b)
  BY <1>1, <1>4 DEF NoLeak
<1>6. ~\E t \in Team : \E s \in teams[t] : s.brain = b
  BY <1>1 DEF Brains, Team
<1>7. PICK t \in Team : \E i \in Places(t) : newTeams[t][i].brain = b
  BY <1>5, <1>6 DEF HasShip
<1>8. PICK i \in Places(t) : newTeams[t][i].brain = b
  BY <1>7
<1>9. newTeams[t][i] \in teams'[t]
  BY <1>1, <1>3
<1> QED BY <1>8, <1>9 DEF HasShip

LEMMA StepLeak == GenInv /\ NoLeak /\ [Next]_vars => NoLeak'
<1> SUFFICES ASSUME GenInv, NoLeak, [Next]_vars PROVE NoLeak'
  OBVIOUS
<1>n. 0 \in Team /\ 1 \in Team
  BY DEF Team
<1>1. ASSUME UNCHANGED <<pool, size, teams, newTeams, alive>>,
             \A t \in Team : Places(t)' = Places(t)
      PROVE  NoLeak'
  BY <1>1 DEF NoLeak, EvenPairs, OneEach, HasShip
<1>2. CASE Score
  <2>1. UNCHANGED <<pool, size, teams, newTeams, alive>> /\ phase = "fight" /\ phase' = "epoch0"
    BY <1>2 DEF Score, fixed
  <2> QED BY <1>1, <2>1 DEF Places, Grown
<1>3. CASE Epoch(0, "epoch0", "epoch1")
  BY <1>3, <1>n, EpochLeak
<1>4. CASE Epoch(1, "epoch1", "mate")
  BY <1>4, <1>n, EpochLeak
<1>5. CASE Mate
  <2>1. UNCHANGED <<pool, size, teams>> /\ phase = "mate" /\ phase' = "cleanup"
    BY <1>5 DEF Mate, fixed
  <2>2. \/ BigEnough /\ \E w \in Team : Exchange(w)
        \/ UNCHANGED <<newTeams, alive>>
    BY <1>5, <1>n DEF Mate
  <2>3. CASE UNCHANGED <<newTeams, alive>>
    BY <1>1, <2>1, <2>3 DEF Places, Grown
  <2> QED BY <2>1, <2>2, <2>3, ExchangeLeak
<1>6. CASE Cleanup
  BY <1>6, CleanupLeak
<1>7. CASE UNCHANGED vars
  BY <1>1, <1>7 DEF vars, fixed, Places, Grown
<1> QED BY <1>2, <1>3, <1>4, <1>5, <1>6, <1>7 DEF Next

\* Every ship has a brain that lives; and every brain that lives has a ship, but
\* for the children too many of odd teams: breeding, adopting and cleaning up
\* together leak none.
THEOREM NoBrainIsLeaked == Spec => []BrainsHaveShips
<1>1. GenInv /\ NoLeak => BrainsHaveShips
  <2> SUFFICES ASSUME GenInv, NoLeak PROVE BrainsHaveShips
    OBVIOUS
  <2> DEFINE owned == Brains(teams[0] \cup teams[1] \cup Kids(0) \cup Kids(1))
  <2>n. 0 \in Team /\ 1 \in Team /\ \A t \in Team : t = 0 \/ t = 1
    BY DEF Team
  <2>1. \A t \in Team : Kids(t) = {newTeams[t][i] : i \in Places(t)}
    BY DEF GenInv, GenType, Kids
  <2>2. \A b : b \in owned <=> HasShip(b)
    BY <2>n, <2>1 DEF Brains, HasShip
  <2> HIDE DEF owned
  <2>3. \A b : HasShip(b) => b \in alive
    BY DEF HasShip, GenInv, OwnerInv, OldOwners, NewOwners
  <2>4. owned \subseteq alive
    BY <2>2, <2>3
  <2>5. EvenPairs => alive \subseteq owned
    BY <2>2 DEF NoLeak
  <2> QED BY <2>4, <2>5 DEF BrainsHaveShips, EvenPairs, owned
<1> QED BY <1>1, InitLeak, StepLeak, InvHolds, PTL DEF Spec
=============================================================================
