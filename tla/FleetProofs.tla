----------------------------- MODULE FleetProofs -----------------------------
(***************************************************************************)
(* Theorems about Fleet, for every size of a team, every scenario, every   *)
(* file and every chain of runs: each ship has a living brain of its own,  *)
(* no brain is lost but by the scenarios that clear a team, and games are  *)
(* played by the teams their scenario wants.                               *)
(***************************************************************************)
EXTENDS Fleet, Integers, SequenceTheorems, TLAPS

\* The range-for of scale_population() stays in a team that has grown.
LoopInv ==
  /\ Scaling => first <= Len(teams[at])
  /\ pos > 0 => /\ Scaling /\ pos <= last /\ last <= Len(teams[at])
                /\ first < Len(teams[at])

\* Teams that have not been made have no ships.
ColdInv ==
  /\ stage = "off" => at = 0 /\ alive = {} /\ teams = [t \in Team |-> <<>>]
  /\ stage \in {"load", "scaleLoaded"} /\ at = 0 => teams[1] = <<>>
  /\ stage = "load" => teams[at] = <<>>

FleetInv == TypeOK /\ LoopInv /\ ColdInv /\ Owners /\ NothingLost

-----------------------------------------------------------------------------
LEMMA Listed ==
  ASSUME NEW n \in Nat, NEW S, NEW s \in [1..n -> S]
  PROVE  s \in Seq(S) /\ Len(s) = n /\ DOMAIN s = 1..n
BY SeqDef

LEMMA CommandFacts ==
  ASSUME TypeOK
  PROVE  /\ command.load \in [Team -> Files \cup {NoFile}]
         /\ command.save \in [Team -> Files \cup {NoFile}]
         /\ command.games \in Nat
         /\ command.scenario.times \in Nat \ {0}
         /\ command.scenario.size \in [Team -> Nat \ {0}]
         /\ command.scenario.bases \in [Team -> Nat]
         /\ command.scenario.kind \in Kinds
         /\ NoFile \notin Files /\ Size \in Nat \ {0} /\ Elite \in Nat
<1>1. command \in [load : [Team -> Files \cup {NoFile}], save : [Team -> Files \cup {NoFile}],
                   scenario : Scenarios, games : Nat]
  BY FleetAssumption DEF FleetAssumption, TypeOK
<1>2. command.scenario \in
        [kind : Kinds, bases : [Team -> Nat], dummies : SUBSET Team,
         keeps : SUBSET Team, times : Nat \ {0}, size : [Team -> Nat \ {0}]]
  BY <1>1, FleetAssumption DEF FleetAssumption
<1> QED BY <1>1, <1>2, FleetAssumption DEF FleetAssumption

\* A ship by its team and its place in it.
LEMMA ShipFacts ==
  ASSUME TypeOK
  PROVE  \A t \in Team : /\ teams[t] \in Seq(Ships) /\ Len(teams[t]) \in Nat
                         /\ DOMAIN teams[t] = 1..Len(teams[t])
                         /\ \A i \in 1..Len(teams[t]) :
                              /\ teams[t][i].brain \in Nat /\ teams[t][i].team \in Team
                              /\ teams[t][i].dummy \in BOOLEAN
<1> SUFFICES ASSUME NEW t \in Team
             PROVE  /\ teams[t] \in Seq(Ships) /\ Len(teams[t]) \in Nat
                    /\ DOMAIN teams[t] = 1..Len(teams[t])
                    /\ \A i \in 1..Len(teams[t]) :
                         /\ teams[t][i].brain \in Nat /\ teams[t][i].team \in Team
                         /\ teams[t][i].dummy \in BOOLEAN
  OBVIOUS
<1>1. teams[t] \in Seq(Ships)
  BY DEF TypeOK
<1>2. Len(teams[t]) \in Nat /\ DOMAIN teams[t] = 1..Len(teams[t])
  BY <1>1, LenProperties
<1>3. \A i \in 1..Len(teams[t]) : teams[t][i] \in Ships
  BY <1>1, ElementOfSeq
<1> QED BY <1>1, <1>2, <1>3 DEF Ships

\* Owners, place by place.
Housed ==
  /\ \A t \in Team : \A i \in 1..Len(teams[t]) : teams[t][i].brain \in alive
  /\ \A t, u \in Team : \A i \in 1..Len(teams[t]), j \in 1..Len(teams[u]) :
       teams[t][i].brain = teams[u][j].brain => t = u /\ i = j

LEMMA OwnersAreHoused == TypeOK => (Owners <=> Housed)
<1> SUFFICES ASSUME TypeOK PROVE Owners <=> Housed
  OBVIOUS
<1>1. \A t \in Team : DOMAIN teams[t] = 1..Len(teams[t])
  BY ShipFacts
<1>2. 0 \in Team /\ 1 \in Team /\ \A t \in Team : t = 0 \/ t = 1
  BY DEF Team
<1>3. \A b : b \in Owned <=> \E t \in Team : \E i \in 1..Len(teams[t]) : b = teams[t][i].brain
  BY <1>1, <1>2 DEF Owned, Brains
<1>4. ASSUME Owned \subseteq alive, NEW t \in Team, NEW i \in 1..Len(teams[t])
      PROVE  teams[t][i].brain \in alive
  BY <1>3, <1>4
<1>5. ASSUME \A t \in Team : \A i \in 1..Len(teams[t]) : teams[t][i].brain \in alive
      PROVE  Owned \subseteq alive
  <2>1. ASSUME NEW b \in Owned PROVE b \in alive
    BY <1>3, <1>5
  <2> QED BY <2>1
<1>6. Owned \subseteq alive
      <=> \A t \in Team : \A i \in 1..Len(teams[t]) : teams[t][i].brain \in alive
  BY <1>4, <1>5
<1>7. \A t, u \in Team :
        (\A i \in DOMAIN teams[t], j \in DOMAIN teams[u] :
           teams[t][i].brain = teams[u][j].brain => t = u /\ i = j)
        <=> (\A i \in 1..Len(teams[t]), j \in 1..Len(teams[u]) :
               teams[t][i].brain = teams[u][j].brain => t = u /\ i = j)
  <2>1. SUFFICES ASSUME NEW t \in Team, NEW u \in Team
                 PROVE  (\A i \in DOMAIN teams[t], j \in DOMAIN teams[u] :
                           teams[t][i].brain = teams[u][j].brain => t = u /\ i = j)
                        <=> (\A i \in 1..Len(teams[t]), j \in 1..Len(teams[u]) :
                               teams[t][i].brain = teams[u][j].brain => t = u /\ i = j)
    OBVIOUS
  <2>2. DOMAIN teams[t] = 1..Len(teams[t]) /\ DOMAIN teams[u] = 1..Len(teams[u])
    BY <1>1
  <2> QED BY <2>2
<1> QED BY <1>6, <1>7 DEF Owners, Housed

\* A step leaves a ship its brain, in its place, or gives it a new one.
LEMMA OwnersKept ==
  ASSUME TypeOK, TypeOK', Owners,
         \A t \in Team : \A i \in 1..Len(teams'[t]) :
           \/ teams'[t][i].brain > next
           \/ i \in 1..Len(teams[t]) /\ teams'[t][i].brain = teams[t][i].brain,
         \A t, u \in Team : \A i \in 1..Len(teams'[t]), j \in 1..Len(teams'[u]) :
           teams'[t][i].brain > next /\ teams'[t][i].brain = teams'[u][j].brain => t = u /\ i = j,
         \A t \in Team : \A i \in 1..Len(teams'[t]) : teams'[t][i].brain \in alive'
  PROVE  Owners'
<1>1. \A t, u \in Team : \A i \in 1..Len(teams[t]), j \in 1..Len(teams[u]) :
        teams[t][i].brain = teams[u][j].brain => t = u /\ i = j
  BY OwnersAreHoused DEF Housed
<1>2. \A t, u \in Team : \A i \in 1..Len(teams'[t]), j \in 1..Len(teams'[u]) :
        teams'[t][i].brain = teams'[u][j].brain => t = u /\ i = j
  <2>1. SUFFICES ASSUME NEW t \in Team, NEW u \in Team,
                        NEW i \in 1..Len(teams'[t]), NEW j \in 1..Len(teams'[u]),
                        teams'[t][i].brain = teams'[u][j].brain
                 PROVE  t = u /\ i = j
    OBVIOUS
  <2>2. CASE teams'[t][i].brain > next
    BY <2>1, <2>2
  <2>3. CASE ~(teams'[t][i].brain > next)
    <3>1. /\ i \in 1..Len(teams[t]) /\ teams'[t][i].brain = teams[t][i].brain
          /\ j \in 1..Len(teams[u]) /\ teams'[u][j].brain = teams[u][j].brain
      BY <2>1, <2>3
    <3> QED BY <3>1, <2>1, <1>1
  <2> QED BY <2>2, <2>3
<1>3. (TypeOK => (Owners <=> Housed))'
  BY OwnersAreHoused, PTL
<1>4. Housed'
  BY <1>2 DEF Housed
<1> QED BY <1>3, <1>4

\* NothingLost, place by place.
Held == \A b \in alive : \E t \in Team : \E i \in 1..Len(teams[t]) : b = teams[t][i].brain

LEMMA OwnedAreHeld == TypeOK => (alive \subseteq Owned <=> Held)
<1> SUFFICES ASSUME TypeOK PROVE alive \subseteq Owned <=> Held
  OBVIOUS
<1>1. \A t \in Team : DOMAIN teams[t] = 1..Len(teams[t])
  BY ShipFacts
<1>2. 0 \in Team /\ 1 \in Team /\ \A t \in Team : t = 0 \/ t = 1
  BY DEF Team
<1>3. \A b : b \in Owned <=> \E t \in Team : \E i \in 1..Len(teams[t]) : b = teams[t][i].brain
  BY <1>1, <1>2 DEF Owned, Brains
<1> QED BY <1>3 DEF Held

LEMMA ReadyFacts ==
  /\ Ready \in {"scaleJson", "configure"}
  /\ "load" \in Stages /\ "scaleJson" \in Stages /\ "configure" \in Stages
BY DEF Ready, Stages

\* After team 0 comes team 1.
LEMMA OnwardFacts ==
  ASSUME NEW here \in Stages, NEW there \in Stages, Onward(here, there),
         at \in Team, teams' \in [Team -> Seq(Ships)]
  PROVE  /\ stage' \in Stages /\ at' \in Team /\ at' = 1 - at /\ first' \in Nat
         /\ stage' = IF at = 0 THEN here ELSE there
         /\ stage' = "scaleJson" => first' = Len(teams'[at'])
<1>1. /\ stage' = IF at = 0 THEN here ELSE there
      /\ at' = 1 - at
      /\ first' = IF stage' = "scaleJson" THEN Len(teams'[at']) ELSE 0
  BY DEF Onward
<1>2. at' \in Team
  BY <1>1 DEF Team
<1>3. Len(teams'[at']) \in Nat
  BY <1>2, LenProperties
<1> QED BY <1>1, <1>2, <1>3

-----------------------------------------------------------------------------
(***************************************************************************)
(* The steps that make a team.                                             *)
(***************************************************************************)
\* A step that changes one team, and only adds to the brains.
LEMMA TeamTyped ==
  ASSUME TypeOK, NEW n \in Nat, NEW team \in [1..n -> Ships],
         teams' = [teams EXCEPT ![at] = team]
  PROVE  /\ teams' \in [Team -> Seq(Ships)]
         /\ teams'[at] = team /\ Len(teams'[at]) = n /\ at \in Team
         /\ \A t \in Team \ {at} : teams'[t] = teams[t]
<1>1. team \in Seq(Ships) /\ Len(team) = n
  BY Listed
<1> QED BY <1>1 DEF TypeOK

\* What make_population() and read_population() have in common: n ships with
\* new brains, where there was no team yet.
LEMMA TeamMade ==
  ASSUME FleetInv, stage = "load", TypeOK', NEW n \in Nat, Len(teams'[at]) = n,
         \A i \in 1..n : teams'[at][i].brain = next + i,
         \A t \in Team \ {at} : teams'[t] = teams[t],
         next' = next + n, alive' = alive \cup (next + 1 .. next + n)
  PROVE  Owners' /\ Held'
<1>1. /\ TypeOK /\ Owners /\ Held /\ at \in Team /\ teams[at] = <<>> /\ Len(teams[at]) = 0
  BY EmptySeq, OwnedAreHeld DEF FleetInv, NothingLost, TypeOK, ColdInv
<1>2. next \in Nat /\ alive \subseteq 1..next
  BY <1>1 DEF TypeOK
<1>3. \A t \in Team : Len(teams[t]) \in Nat
  BY <1>1, ShipFacts
<1>4. Housed
  BY <1>1, OwnersAreHoused
<1>5. \A t \in Team \ {at} : \A i \in 1..Len(teams'[t]) :
        i \in 1..Len(teams[t]) /\ teams'[t][i].brain = teams[t][i].brain
        /\ teams[t][i].brain \in alive /\ ~(teams[t][i].brain > next)
  <2>1. SUFFICES ASSUME NEW t \in Team \ {at}, NEW i \in 1..Len(teams'[t])
                 PROVE  i \in 1..Len(teams[t]) /\ teams'[t][i].brain = teams[t][i].brain
                        /\ teams[t][i].brain \in alive /\ ~(teams[t][i].brain > next)
    OBVIOUS
  <2>2. i \in 1..Len(teams[t]) /\ teams'[t][i].brain = teams[t][i].brain
    OBVIOUS
  <2>3. teams[t][i].brain \in alive
    BY <2>2, <1>4 DEF Housed
  <2>4. teams[t][i].brain \in 1..next
    BY <2>3, <1>2
  <2>5. \A b \in 1..next : ~(b > next)
    BY <1>2
  <2> QED BY <2>2, <2>3, <2>4, <2>5
<1>6. \A t \in Team : \A i \in 1..Len(teams'[t]) :
        \/ teams'[t][i].brain > next
        \/ i \in 1..Len(teams[t]) /\ teams'[t][i].brain = teams[t][i].brain
  BY <1>2, <1>5
<1>7. \A t, u \in Team : \A i \in 1..Len(teams'[t]), j \in 1..Len(teams'[u]) :
        teams'[t][i].brain > next /\ teams'[t][i].brain = teams'[u][j].brain => t = u /\ i = j
  <2>1. SUFFICES ASSUME NEW t \in Team, NEW u \in Team, NEW i \in 1..Len(teams'[t]),
                        NEW j \in 1..Len(teams'[u]),
                        teams'[t][i].brain > next, teams'[t][i].brain = teams'[u][j].brain
                 PROVE  t = u /\ i = j
    OBVIOUS
  <2>2. t = at /\ u = at
    BY <2>1, <1>5
  <2>3. next + i = next + j
    BY <2>1, <2>2
  <2> QED BY <2>2, <2>3, <1>2
<1>8. \A t \in Team : \A i \in 1..Len(teams'[t]) : teams'[t][i].brain \in alive'
  <2>1. \A i \in 1..n : next + i \in alive'
    BY <1>2
  <2> QED BY <2>1, <1>5
<1>9. Owners'
  BY <1>1, <1>6, <1>7, <1>8, OwnersKept
<1>10. Held'
  <2>1. SUFFICES ASSUME NEW b \in alive'
                 PROVE  \E t \in Team : \E i \in 1..Len(teams'[t]) : b = teams'[t][i].brain
    BY DEF Held
  <2>2. CASE b \in alive
    <3>1. PICK t \in Team : \E i \in 1..Len(teams[t]) : b = teams[t][i].brain
      BY <2>2, <1>1 DEF Held
    <3>2. t # at
      BY <3>1, <1>1
    <3> QED BY <3>1, <3>2
  <2>3. CASE b \notin alive
    <3>1. b - next \in 1..n /\ b = next + (b - next)
      BY <2>1, <2>3, <1>2
    <3> QED BY <3>1, <1>1
  <2> QED BY <2>2, <2>3
<1> QED BY <1>9, <1>10

LEMMA HeldIsNotLost ==
  ASSUME TypeOK', Held'
  PROVE  NothingLost'
<1>1. (TypeOK => (alive \subseteq Owned <=> Held))'
  BY OwnedAreHeld, PTL
<1> QED BY <1>1 DEF NothingLost

LEMMA MakeStep ==
  ASSUME FleetInv, Make
  PROVE  FleetInv'
<1> DEFINE team == [i \in 1..Size |-> [brain |-> next + i, team |-> at, dummy |-> FALSE]]
<1>1. /\ stage = "load" /\ teams' = [teams EXCEPT ![at] = team]
      /\ capacity' = [capacity EXCEPT ![at] = Size] /\ next' = next + Size
      /\ alive' = alive \cup (next + 1 .. next + Size)
      /\ Onward("load", Ready)
      /\ UNCHANGED <<command, bases, pos, last, stale, left, files>>
  BY DEF Make
<1>2. /\ TypeOK /\ at \in Team /\ next \in Nat /\ Size \in Nat \ {0} /\ alive \subseteq 1..next
      /\ pos = 0
  <2>1. TypeOK /\ at \in Team /\ next \in Nat /\ alive \subseteq 1..next /\ pos \in Nat
    BY DEF FleetInv, TypeOK
  <2>2. ~(pos > 0)
    BY <1>1 DEF FleetInv, LoopInv, Scaling
  <2> QED BY <2>1, <2>2, CommandFacts
<1>3. team \in [1..Size -> Ships]
  BY <1>2 DEF Ships
<1>4. \A i \in 1..Size : team[i].brain = next + i
  OBVIOUS
<1> HIDE DEF team
<1>5. /\ teams' \in [Team -> Seq(Ships)] /\ teams'[at] = team /\ Len(teams'[at]) = Size
      /\ \A t \in Team \ {at} : teams'[t] = teams[t]
  BY <1>1, <1>2, <1>3, TeamTyped
<1>6. /\ stage' \in Stages /\ at' \in Team /\ at' = 1 - at /\ first' \in Nat
      /\ stage' = IF at = 0 THEN "load" ELSE Ready
      /\ stage' = "scaleJson" => first' = Len(teams'[at'])
  BY <1>1, <1>2, <1>5, OnwardFacts, ReadyFacts
<1>7. TypeOK'
  <2>1. capacity' \in [Team -> Nat] /\ next' \in Nat /\ alive' \subseteq 1..next'
    BY <1>1, <1>2 DEF TypeOK
  <2> QED BY <2>1, <1>1, <1>2, <1>5, <1>6 DEF TypeOK
<1>8. Owners' /\ Held'
  BY <1>1, <1>2, <1>4, <1>5, <1>7, TeamMade
<1>9. LoopInv'
  <2>1. Len(teams'[at']) \in Nat /\ pos' = 0
    BY <1>1, <1>2, <1>5, <1>6, LenProperties
  <2> QED BY <2>1, <1>6, ReadyFacts DEF LoopInv, Scaling
<1>10. ColdInv'
  <2>1. CASE at = 0
    <3>1. stage' = "load" /\ at' = 1 /\ teams'[1] = teams[1] /\ teams[1] = <<>>
      BY <2>1, <1>1, <1>5, <1>6 DEF FleetInv, ColdInv, Team
    <3> QED BY <3>1 DEF ColdInv
  <2>2. CASE at # 0
    BY <2>2, <1>6, ReadyFacts DEF ColdInv
  <2> QED BY <2>1, <2>2
<1> QED BY <1>7, <1>8, <1>9, <1>10, HeldIsNotLost DEF FleetInv

LEMMA ReadStep ==
  ASSUME FleetInv, Read
  PROVE  FleetInv'
<1> DEFINE saved == files[command.load[at]].ships
           n == Len(saved)
           team == [i \in DOMAIN saved |-> Recruit(saved[i], at, next + i)]
<1>1. /\ stage = "load" /\ command.load[at] # NoFile
      /\ teams' = [teams EXCEPT ![at] = team]
      /\ capacity' = [capacity EXCEPT ![at] = n] /\ next' = next + n /\ first' = n
      /\ alive' = alive \cup (next + 1 .. next + n)
      /\ stage' = "scaleLoaded"
      /\ UNCHANGED <<at, command, bases, pos, last, stale, left, files>>
  BY DEF Read
<1>2. /\ TypeOK /\ at \in Team /\ next \in Nat /\ alive \subseteq 1..next /\ pos = 0
  <2>1. TypeOK /\ at \in Team /\ next \in Nat /\ alive \subseteq 1..next /\ pos \in Nat
    BY DEF FleetInv, TypeOK
  <2>2. ~(pos > 0)
    BY <1>1 DEF FleetInv, LoopInv, Scaling
  <2> QED BY <2>1, <2>2
<1>3. saved \in Seq([team : Team, dummy : BOOLEAN])
  <2>1. command.load[at] \in Files
    BY <1>1, <1>2, CommandFacts
  <2> QED BY <2>1, <1>2 DEF TypeOK, Contents
<1> HIDE DEF saved
<1>4. n \in Nat /\ DOMAIN saved = 1..n /\ \A i \in 1..n : saved[i].dummy \in BOOLEAN
  <2>1. n \in Nat /\ DOMAIN saved = 1..n
    BY <1>3, LenProperties
  <2>2. \A i \in 1..n : saved[i] \in [team : Team, dummy : BOOLEAN]
    BY <1>3, ElementOfSeq
  <2> QED BY <2>1, <2>2
<1> HIDE DEF n
<1>5. team = [i \in 1..n |-> [brain |-> next + i, team |-> at, dummy |-> saved[i].dummy]]
  BY <1>4 DEF Recruit
<1> HIDE DEF team
<1>6. team \in [1..n -> Ships] /\ \A i \in 1..n : team[i].brain = next + i
  BY <1>2, <1>4, <1>5 DEF Ships
<1>7. /\ teams' \in [Team -> Seq(Ships)] /\ teams'[at] = team /\ Len(teams'[at]) = n
      /\ \A t \in Team \ {at} : teams'[t] = teams[t]
  BY <1>1, <1>2, <1>4, <1>6, TeamTyped
<1>8. TypeOK'
  <2>1. capacity' \in [Team -> Nat]
    BY <1>1, <1>2, <1>4 DEF TypeOK
  <2>2. next' \in Nat /\ alive' \subseteq 1..next' /\ first' \in Nat
    BY <1>1, <1>2, <1>4
  <2> QED BY <2>1, <2>2, <1>1, <1>2, <1>7 DEF TypeOK, Stages
<1>9. Owners' /\ Held'
  BY <1>1, <1>2, <1>4, <1>6, <1>7, <1>8, TeamMade
<1>10. LoopInv'
  BY <1>1, <1>2, <1>4, <1>7 DEF LoopInv, Scaling
<1>11. ColdInv'
  <2>1. at' = 0 => teams'[1] = <<>>
    BY <1>1, <1>2, <1>7 DEF FleetInv, ColdInv, Team
  <2> QED BY <2>1, <1>1 DEF ColdInv
<1> QED BY <1>8, <1>9, <1>10, <1>11, HeldIsNotLost DEF FleetInv

\* The process ends: what it had is gone, what is on the disk stays.
LEMMA OffStep ==
  ASSUME TypeOK, Off, files' \in [Files -> Contents]
  PROVE  FleetInv'
<1>1. /\ stage' = "off" /\ at' = 0 /\ teams' = [t \in Team |-> <<>>]
      /\ bases' = [t \in Team |-> 0] /\ capacity' = [t \in Team |-> 0]
      /\ first' = 0 /\ pos' = 0 /\ last' = 0 /\ stale' = FALSE /\ next' = 0 /\ alive' = {}
      /\ left' = 0 /\ command' = command
  BY DEF Off
<1>2. TypeOK'
  <2>1. teams' \in [Team -> Seq(Ships)]
    BY <1>1, EmptySeq
  <2>2. {first', pos', last', next', left'} \subseteq Nat /\ alive' \subseteq 1..next'
    BY <1>1
  <2>3. bases' \in [Team -> Nat] /\ capacity' \in [Team -> Nat]
    BY <1>1
  <2> QED BY <1>1, <2>1, <2>2, <2>3 DEF TypeOK, Stages, Team
<1>3. LoopInv' /\ ColdInv'
  BY <1>1 DEF LoopInv, ColdInv, Scaling
<1>4. Owners' /\ NothingLost'
  <2>1. \A t \in Team : DOMAIN teams'[t] = {}
    BY <1>1
  <2> QED BY <1>1, <2>1 DEF Owners, NothingLost, Owned, Brains, Team
<1> QED BY <1>2, <1>3, <1>4 DEF FleetInv

LEMMA FleetInit == Init => FleetInv
<1> SUFFICES ASSUME Init PROVE FleetInv
  OBVIOUS
<1>1. /\ stage = "off" /\ at = 0 /\ command \in Commands /\ teams = [t \in Team |-> <<>>]
      /\ bases = [t \in Team |-> 0] /\ capacity = [t \in Team |-> 0]
      /\ first = 0 /\ pos = 0 /\ last = 0 /\ stale = FALSE /\ next = 0 /\ alive = {} /\ left = 0
      /\ files = [f \in Files |-> Unreadable]
  BY DEF Init
<1>2. TypeOK
  <2>1. teams \in [Team -> Seq(Ships)]
    BY <1>1, EmptySeq
  <2>2. Unreadable \in Contents
    BY EmptySeq DEF Unreadable, Contents
  <2>3. {first, pos, last, next, left} \subseteq Nat /\ alive \subseteq 1..next
    BY <1>1
  <2>4. bases \in [Team -> Nat] /\ capacity \in [Team -> Nat] /\ files \in [Files -> Contents]
    BY <1>1, <2>2
  <2> QED BY <1>1, <2>1, <2>3, <2>4 DEF TypeOK, Stages, Team
<1>3. LoopInv /\ ColdInv
  BY <1>1 DEF LoopInv, ColdInv, Scaling
<1>4. Owners /\ NothingLost
  <2>1. \A t \in Team : DOMAIN teams[t] = {}
    BY <1>1
  <2> QED BY <1>1, <2>1 DEF Owners, NothingLost, Owned, Brains, Team
<1> QED BY <1>2, <1>3, <1>4 DEF FleetInv

-----------------------------------------------------------------------------
(***************************************************************************)
(* The steps of scale_population().                                        *)
(***************************************************************************)
LEMMA ScalingFacts ==
  ASSUME FleetInv, Scaling
  PROVE  /\ TypeOK /\ at \in Team /\ next \in Nat /\ alive \subseteq 1..next
         /\ Housed /\ Held /\ Target \in Nat \ {0} /\ Len(teams[at]) \in Nat
         /\ first <= Len(teams[at]) /\ {first, pos, last} \subseteq Nat
<1>1. TypeOK /\ at \in Team /\ next \in Nat /\ alive \subseteq 1..next /\ {first, pos, last} \subseteq Nat
  BY DEF FleetInv, TypeOK
<1>2. Housed /\ Held
  BY <1>1, OwnersAreHoused, OwnedAreHeld DEF FleetInv, NothingLost, Scaling
<1>3. Target \in Nat \ {0}
  BY <1>1, CommandFacts DEF Target
<1>4. Len(teams[at]) \in Nat
  BY <1>1, ShipFacts
<1> QED BY <1>1, <1>2, <1>3, <1>4 DEF FleetInv, LoopInv

\* The other team is next, or the next stage.
LEMMA FinishedFacts ==
  ASSUME FleetInv, Scaling, Finished, pos' = 0, teams' \in [Team -> Seq(Ships)],
         \A t \in Team \ {at} : teams'[t] = teams[t]
  PROVE  stage' \in Stages /\ at' \in Team /\ first' \in Nat /\ LoopInv' /\ ColdInv'
<1>1. /\ at \in Team /\ stage \in {"scaleLoaded", "scaleJson"}
  BY ScalingFacts DEF Scaling
<1>2. CASE stage = "scaleLoaded"
  <2>1. Onward("load", Ready)
    BY <1>2 DEF Finished
  <2>2. /\ stage' \in Stages /\ at' \in Team /\ at' = 1 - at /\ first' \in Nat
        /\ stage' = IF at = 0 THEN "load" ELSE Ready
        /\ stage' = "scaleJson" => first' = Len(teams'[at'])
    BY <2>1, <1>1, OnwardFacts, ReadyFacts
  <2>3. LoopInv'
    <3>1. Len(teams'[at']) \in Nat
      BY <2>2, LenProperties
    <3> QED BY <2>2, <3>1, ReadyFacts DEF LoopInv, Scaling
  <2>4. ColdInv'
    <3>1. CASE at = 0
      <4>1. stage' = "load" /\ at' = 1 /\ teams'[1] = teams[1] /\ teams[1] = <<>>
        BY <3>1, <1>2, <2>2 DEF FleetInv, ColdInv, Team
      <4> QED BY <4>1 DEF ColdInv
    <3>2. CASE at # 0
      BY <3>2, <2>2, ReadyFacts DEF ColdInv
    <3> QED BY <3>1, <3>2
  <2> QED BY <2>2, <2>3, <2>4
<1>3. CASE stage = "scaleJson"
  <2>1. Onward("scaleJson", "configure")
    BY <1>3 DEF Finished
  <2>2. /\ stage' \in Stages /\ at' \in Team /\ first' \in Nat
        /\ stage' \in {"scaleJson", "configure"}
        /\ stage' = "scaleJson" => first' = Len(teams'[at'])
    BY <2>1, <1>1, OnwardFacts, ReadyFacts
  <2>3. LoopInv'
    <3>1. Len(teams'[at']) \in Nat
      BY <2>2, LenProperties
    <3> QED BY <2>2, <3>1 DEF LoopInv, Scaling
  <2>4. ColdInv'
    BY <2>2 DEF ColdInv
  <2> QED BY <2>2, <2>3, <2>4
<1> QED BY <1>1, <1>2, <1>3

LEMMA ScaledStep ==
  ASSUME FleetInv, Scaled
  PROVE  FleetInv'
<1>1. /\ Scaling /\ pos = 0 /\ Finished
      /\ UNCHANGED <<command, teams, bases, capacity, pos, last, stale, next, alive, left, files>>
  BY DEF Scaled
<1>2. TypeOK /\ Held
  BY <1>1, ScalingFacts
<1>3. stage' \in Stages /\ at' \in Team /\ first' \in Nat /\ LoopInv' /\ ColdInv'
  <2>1. teams' \in [Team -> Seq(Ships)] /\ \A t \in Team \ {at} : teams'[t] = teams[t]
    BY <1>1, <1>2 DEF TypeOK
  <2> QED BY <1>1, <2>1, FinishedFacts
<1>4. TypeOK'
  BY <1>1, <1>2, <1>3 DEF TypeOK
<1>5. Owners' /\ Held'
  BY <1>1, <1>2 DEF FleetInv, Owners, Owned, Brains, Held
<1> QED BY <1>3, <1>4, <1>5, HeldIsNotLost DEF FleetInv

\* What is kept of a team that is too large.
LEMMA KeptFacts ==
  ASSUME FleetInv, Scaling, TooMany, NEW kept, kept = SubSeq(teams[at], 1, Target)
  PROVE  /\ Target < Len(teams[at]) /\ pos = 0
         /\ kept \in Seq(Ships) /\ Len(kept) = Target
         /\ \A i \in 1..Target : i \in 1..Len(teams[at]) /\ kept[i] = teams[at][i]
<1>1. TypeOK /\ at \in Team /\ Target \in Nat \ {0} /\ Len(teams[at]) \in Nat
  BY ScalingFacts
<1>2. Target < Len(teams[at]) /\ pos = 0
  <2>1. Len(teams[at]) = first /\ first > Target
    BY DEF TooMany
  <2>2. pos \in Nat /\ (pos > 0 => first < Len(teams[at]))
    BY ScalingFacts DEF FleetInv, LoopInv
  <2> QED BY <2>1, <2>2, <1>1
<1>3. \A i \in 1..Target : i \in 1..Len(teams[at])
  BY <1>1, <1>2
<1>4. \A i \in 1..Target : teams[at][i] \in Ships
  <2>1. teams[at] \in Seq(Ships)
    BY <1>1, ShipFacts
  <2> QED BY <2>1, <1>3, ElementOfSeq
<1>5. 1 \in Int /\ Target \in Int /\ 1 <= Target /\ Target - 1 + 1 = Target
  BY <1>1
<1>6. /\ kept \in Seq(Ships) /\ Len(kept) = IF 1 <= Target THEN Target - 1 + 1 ELSE 0
      /\ \A i \in 1..(Target - 1 + 1) : kept[i] = teams[at][1 + i - 1]
  BY <1>4, <1>5, SubSeqProperties
<1>7. \A i \in 1..Target : 1 + i - 1 = i
  BY <1>1
<1> QED BY <1>2, <1>3, <1>5, <1>6, <1>7

\* The ships that are kept have other brains than those that are dropped.
LEMMA CutStep ==
  ASSUME FleetInv, Cut
  PROVE  FleetInv'
<1> DEFINE kept == SubSeq(teams[at], 1, Target)
           gone == {teams[at][i].brain : i \in Dropped}
<1>1. /\ Scaling /\ TooMany /\ Finished
      /\ alive' = alive \ gone
      /\ teams' = [teams EXCEPT ![at] = kept]
      /\ UNCHANGED <<command, bases, capacity, pos, last, stale, next, left, files>>
  BY DEF Cut
<1>2. /\ TypeOK /\ at \in Team /\ next \in Nat /\ alive \subseteq 1..next
      /\ Housed /\ Held /\ Target \in Nat \ {0} /\ Len(teams[at]) \in Nat
  BY <1>1, ScalingFacts
<1>3. /\ Target < Len(teams[at]) /\ pos = 0
      /\ kept \in Seq(Ships) /\ Len(kept) = Target
      /\ \A i \in 1..Target : i \in 1..Len(teams[at]) /\ kept[i] = teams[at][i]
  BY <1>1, KeptFacts
<1>4. /\ kept \in Seq(Ships) /\ Len(kept) = Target
      /\ \A i \in 1..Target : kept[i] = teams[at][i]
  BY <1>3
<1> HIDE DEF kept
<1>5. \A b : b \in gone <=> \E i \in Target + 1 .. Len(teams[at]) : b = teams[at][i].brain
  BY DEF Dropped
<1> HIDE DEF gone
<1>6. /\ teams' \in [Team -> Seq(Ships)] /\ teams'[at] = kept
      /\ \A t \in Team \ {at} : teams'[t] = teams[t]
  BY <1>1, <1>2, <1>4 DEF TypeOK
<1>7. stage' \in Stages /\ at' \in Team /\ first' \in Nat /\ LoopInv' /\ ColdInv'
  BY <1>1, <1>3, <1>6, FinishedFacts
<1>8. TypeOK'
  <2>1. alive' \subseteq 1..next'
    BY <1>1, <1>2
  <2> QED BY <2>1, <1>1, <1>2, <1>6, <1>7 DEF TypeOK
<1>9. \A t \in Team : \A i \in 1..Len(teams'[t]) :
        i \in 1..Len(teams[t]) /\ teams'[t][i].brain = teams[t][i].brain
  <2>1. SUFFICES ASSUME NEW t \in Team, NEW i \in 1..Len(teams'[t])
                 PROVE  i \in 1..Len(teams[t]) /\ teams'[t][i].brain = teams[t][i].brain
    OBVIOUS
  <2>2. CASE t = at
    <3>1. i \in 1..Target /\ teams'[t] = kept
      BY <2>2, <1>4, <1>6
    <3> QED BY <3>1, <2>2, <1>3
  <2>3. CASE t # at
    BY <2>3, <1>6
  <2> QED BY <2>2, <2>3
<1>10. \A t \in Team : \A i \in 1..Len(teams'[t]) : teams'[t][i].brain \in alive'
  <2>1. SUFFICES ASSUME NEW t \in Team, NEW i \in 1..Len(teams'[t]),
                        teams'[t][i].brain \in gone
                 PROVE  FALSE
    BY <1>1, <1>2, <1>9 DEF Housed
  <2>2. PICK j \in Target + 1 .. Len(teams[at]) : teams'[t][i].brain = teams[at][j].brain
    BY <2>1, <1>5
  <2>3. j \in 1..Len(teams[at]) /\ j > Target
    BY <1>2
  <2>4. t = at /\ i = j
    BY <2>2, <2>3, <1>2, <1>9 DEF Housed
  <2>5. i \in 1..Target
    BY <2>4, <1>4, <1>6
  <2> QED BY <2>3, <2>4, <2>5, <1>2
<1>11. Owners'
  <2>1. Housed'
    BY <1>2, <1>9, <1>10 DEF Housed
  <2>2. (TypeOK => (Owners <=> Housed))'
    BY OwnersAreHoused, PTL
  <2> QED BY <2>1, <2>2, <1>8
<1>12. Held'
  <2>1. SUFFICES ASSUME NEW b \in alive'
                 PROVE  \E t \in Team : \E i \in 1..Len(teams'[t]) : b = teams'[t][i].brain
    BY DEF Held
  <2>2. b \in alive /\ b \notin gone
    BY <1>1
  <2>3. PICK t \in Team : \E i \in 1..Len(teams[t]) : b = teams[t][i].brain
    BY <2>2, <1>2 DEF Held
  <2>4. PICK i \in 1..Len(teams[t]) : b = teams[t][i].brain
    BY <2>3
  <2>5. CASE t = at
    <3>1. ~(i \in Target + 1 .. Len(teams[at]))
      BY <2>2, <2>4, <2>5, <1>5
    <3>2. i \in 1..Target
      BY <3>1, <2>4, <2>5, <1>2
    <3> QED BY <3>2, <2>4, <2>5, <1>4, <1>6
  <2>6. CASE t # at
    BY <2>4, <2>6, <1>6
  <2> QED BY <2>5, <2>6
<1> QED BY <1>7, <1>8, <1>11, <1>12, HeldIsNotLost DEF FleetInv

\* A ship is cloned at the end of the team.
LEMMA PushStep ==
  ASSUME FleetInv, Push
  PROVE  FleetInv'
<1> DEFINE size == Len(teams[at])
           clone == Clone(teams[at][Here], next + 1)
           leaves == Full(size + 1) \/ Here = End
<1>1. /\ Scaling
      /\ pos > 0 \/ size \in 1..(Target - 1)
      /\ teams' = [teams EXCEPT ![at] = Append(teams[at], clone)]
      /\ next' = next + 1 /\ alive' = alive \cup {next + 1}
      /\ UNCHANGED <<stage, at, command, bases, first, left, files>>
  BY DEF Push
<1>2. /\ capacity' = [capacity EXCEPT ![at] = IF size = capacity[at] THEN 2 * size ELSE capacity[at]]
      /\ pos' = IF leaves THEN 0 ELSE Here + 1
      /\ last' = IF leaves THEN 0 ELSE End
      /\ stale' = (~leaves /\ (stale \/ size = capacity[at]))
  BY DEF Push
<1>3. /\ TypeOK /\ at \in Team /\ next \in Nat /\ alive \subseteq 1..next /\ Housed /\ Held
      /\ size \in Nat /\ first <= size /\ {first, pos, last} \subseteq Nat
      /\ teams[at] \in Seq(Ships)
  <2>1. TypeOK => teams[at] \in Seq(Ships)
    BY <1>1, ScalingFacts, ShipFacts
  <2> QED BY <2>1, <1>1, ScalingFacts
<1>4. /\ Here \in 1..size /\ End \in Nat /\ Here <= End /\ End <= size
      /\ pos' > 0 => first < size + 1
  <2>1. CASE pos > 0
    <3>1. Here = pos /\ End = last
      BY <2>1, <1>3 DEF Here, End
    <3>2. pos <= last /\ last <= size
      BY <2>1 DEF FleetInv, LoopInv
    <3> QED BY <3>1, <3>2, <2>1, <1>3
  <2>2. CASE ~(pos > 0)
    <3>1. pos = 0 /\ size \in 1..(Target - 1)
      BY <2>2, <1>1, <1>3
    <3>2. Here = 1 /\ End = size
      BY <3>1 DEF Here, End
    <3> QED BY <3>1, <3>2, <1>3
  <2> QED BY <2>1, <2>2
<1>5. clone \in Ships /\ clone.brain = next + 1
  <2>1. teams[at][Here].team \in Team /\ teams[at][Here].dummy \in BOOLEAN
    BY <1>3, <1>4, ShipFacts
  <2> QED BY <2>1, <1>3 DEF Clone, Ships
<1> HIDE DEF clone
<1>6. /\ teams' \in [Team -> Seq(Ships)] /\ Len(teams'[at]) = size + 1
      /\ \A i \in 1..size : teams'[at][i] = teams[at][i]
      /\ teams'[at][size + 1].brain = next + 1
      /\ \A t \in Team \ {at} : teams'[t] = teams[t]
  <2>1. /\ Append(teams[at], clone) \in Seq(Ships) /\ Len(Append(teams[at], clone)) = size + 1
        /\ \A i \in 1..size : Append(teams[at], clone)[i] = teams[at][i]
        /\ Append(teams[at], clone)[size + 1] = clone
    BY <1>3, <1>5, AppendProperties
  <2>2. /\ teams'[at] = Append(teams[at], clone) /\ teams' \in [Team -> Seq(Ships)]
        /\ \A t \in Team \ {at} : teams'[t] = teams[t]
    BY <2>1, <1>1, <1>3 DEF TypeOK
  <2> QED BY <2>1, <2>2, <1>5
<1>7. TypeOK'
  <2>1. capacity' \in [Team -> Nat]
    BY <1>2, <1>3 DEF TypeOK
  <2>2. next' \in Nat /\ alive' \subseteq 1..next'
    BY <1>1, <1>3
  <2>3. pos' \in Nat /\ last' \in Nat /\ stale' \in BOOLEAN
    BY <1>2, <1>3, <1>4
  <2>4. {first', pos', last', next', left'} \subseteq Nat
    BY <2>2, <2>3, <1>1, <1>3 DEF TypeOK
  <2> QED BY <2>1, <2>2, <2>3, <2>4, <1>1, <1>3, <1>6 DEF TypeOK
<1>8. LoopInv' /\ ColdInv'
  <2>1. Scaling' /\ first' = first /\ at' = at /\ Len(teams'[at']) = size + 1
    BY <1>1, <1>6 DEF Scaling
  <2>2. pos' > 0 => pos' <= last' /\ last' <= size + 1
    BY <1>2, <1>3, <1>4
  <2>3. LoopInv'
    BY <2>1, <2>2, <1>3, <1>4 DEF LoopInv
  <2>4. stage' # "off" /\ stage' # "load" /\ (stage' = "scaleLoaded" /\ at' = 0 => teams'[1] = <<>>)
    BY <1>1, <1>6 DEF Scaling, FleetInv, ColdInv, Team
  <2> QED BY <2>3, <2>4 DEF ColdInv
<1>9. \A t \in Team : \A i \in 1..Len(teams'[t]) :
        \/ t = at /\ i = size + 1 /\ teams'[t][i].brain = next + 1
        \/ /\ i \in 1..Len(teams[t]) /\ teams'[t][i].brain = teams[t][i].brain
           /\ teams[t][i].brain \in alive /\ ~(teams[t][i].brain > next)
  <2>1. SUFFICES ASSUME NEW t \in Team, NEW i \in 1..Len(teams'[t]), ~(t = at /\ i = size + 1)
                 PROVE  /\ i \in 1..Len(teams[t]) /\ teams'[t][i].brain = teams[t][i].brain
                        /\ teams[t][i].brain \in alive /\ ~(teams[t][i].brain > next)
    BY <1>6
  <2>2. i \in 1..Len(teams[t]) /\ teams'[t][i].brain = teams[t][i].brain
    <3>1. CASE t = at
      <4>1. i \in 1..size
        BY <3>1, <2>1, <1>3, <1>6
      <4> QED BY <4>1, <3>1, <1>6
    <3>2. CASE t # at
      BY <3>2, <1>6
    <3> QED BY <3>1, <3>2
  <2>3. teams[t][i].brain \in alive
    BY <2>2, <1>3 DEF Housed
  <2>4. teams[t][i].brain \in 1..next
    BY <2>3, <1>3
  <2>5. \A b \in 1..next : ~(b > next)
    BY <1>3
  <2> QED BY <2>2, <2>3, <2>4, <2>5
<1>10. Owners'
  <2>1. \A t \in Team : \A i \in 1..Len(teams'[t]) :
          \/ teams'[t][i].brain > next
          \/ i \in 1..Len(teams[t]) /\ teams'[t][i].brain = teams[t][i].brain
    <3>1. next + 1 > next
      BY <1>3
    <3> QED BY <3>1, <1>9
  <2>2. \A t, u \in Team : \A i \in 1..Len(teams'[t]), j \in 1..Len(teams'[u]) :
          teams'[t][i].brain > next /\ teams'[t][i].brain = teams'[u][j].brain => t = u /\ i = j
    <3>1. SUFFICES ASSUME NEW t \in Team, NEW u \in Team, NEW i \in 1..Len(teams'[t]),
                          NEW j \in 1..Len(teams'[u]),
                          teams'[t][i].brain > next, teams'[t][i].brain = teams'[u][j].brain
                   PROVE  t = u /\ i = j
      OBVIOUS
    <3>2. t = at /\ i = size + 1
      BY <3>1, <1>9
    <3>3. u = at /\ j = size + 1
      BY <3>1, <1>9
    <3> QED BY <3>2, <3>3
  <2>3. \A t \in Team : \A i \in 1..Len(teams'[t]) : teams'[t][i].brain \in alive'
    BY <1>1, <1>9
  <2>4. Owners
    BY DEF FleetInv
  <2> QED BY <2>1, <2>2, <2>3, <2>4, <1>3, <1>7, OwnersKept
<1>11. Held'
  <2>1. SUFFICES ASSUME NEW b \in alive'
                 PROVE  \E t \in Team : \E i \in 1..Len(teams'[t]) : b = teams'[t][i].brain
    BY DEF Held
  <2>2. CASE b = next + 1
    <3>1. size + 1 \in 1..Len(teams'[at])
      BY <1>3, <1>6
    <3> QED BY <3>1, <2>2, <1>3, <1>6
  <2>3. CASE b # next + 1
    <3>1. b \in alive
      BY <2>1, <2>3, <1>1
    <3>2. PICK t \in Team : \E i \in 1..Len(teams[t]) : b = teams[t][i].brain
      BY <3>1, <1>3 DEF Held
    <3>3. PICK i \in 1..Len(teams[t]) : b = teams[t][i].brain
      BY <3>2
    <3>4. i \in 1..Len(teams'[t]) /\ teams'[t][i] = teams[t][i]
      <4>1. CASE t = at
        <5>1. i \in 1..size /\ i \in 1..size + 1
          BY <3>3, <4>1, <1>3
        <5> QED BY <5>1, <4>1, <1>6
      <4>2. CASE t # at
        BY <3>3, <4>2, <1>6
      <4> QED BY <4>1, <4>2
    <3> QED BY <3>3, <3>4
  <2> QED BY <2>2, <2>3
<1> QED BY <1>7, <1>8, <1>10, <1>11, HeldIsNotLost DEF FleetInv

-----------------------------------------------------------------------------
(***************************************************************************)
(* The steps of a scenario and of its games.                               *)
(***************************************************************************)
\* The places after the n-th, `more` for each ship, are those of n ships.
LEMMA Places ==
  ASSUME NEW n \in Nat, NEW more \in Nat, NEW i \in n + 1 .. n + n * more
  PROVE  (i - n - 1) \div more + 1 \in 1..n
<1> DEFINE a == i - n - 1
           q == a \div more
<1>1. n * more \in Nat
  OBVIOUS
<1>2. a \in Nat /\ a < n * more
  BY <1>1
<1>3. more > 0
  BY <1>2
<1> HIDE DEF a
<1>4. q \in Nat /\ q * more <= a
  BY <1>2, <1>3
<1> HIDE DEF q
<1>5. q < n
  <2>1. SUFFICES ASSUME q >= n PROVE FALSE
    BY <1>4
  <2>2. q * more >= n * more
    BY <2>1, <1>4
  <2> QED BY <2>2, <1>1, <1>2, <1>4
<1>6. q + 1 \in 1..n
  BY <1>4, <1>5
<1> QED BY <1>6 DEF q, a

LEMMA EquippedFacts ==
  ASSUME TypeOK, NEW t \in Team
  PROVE  /\ Equipped(teams[t], t) \in Seq(Ships)
         /\ Len(Equipped(teams[t], t)) = Len(teams[t])
         /\ \A i \in 1..Len(teams[t]) :
              /\ Equipped(teams[t], t)[i].brain = teams[t][i].brain
              /\ Equipped(teams[t], t)[i].team = teams[t][i].team
              /\ Equipped(teams[t], t)[i].dummy = IsDummy(t)
<1> DEFINE n == Len(teams[t])
           team == Equipped(teams[t], t)
<1>1. /\ n \in Nat /\ DOMAIN teams[t] = 1..n /\ teams[t] \in Seq(Ships)
  BY ShipFacts
<1>2. \A i \in 1..n : teams[t][i] \in Ships
  BY <1>1, ElementOfSeq
<1>3. IsDummy(t) \in BOOLEAN
  BY DEF IsDummy
<1>4. team = [i \in 1..n |-> [teams[t][i] EXCEPT !.dummy = IsDummy(t)]]
  BY <1>1 DEF Equipped
<1> HIDE DEF n, team
<1>5. /\ team \in [1..n -> Ships]
      /\ \A i \in 1..n : /\ team[i].brain = teams[t][i].brain
                         /\ team[i].team = teams[t][i].team /\ team[i].dummy = IsDummy(t)
  <2>1. \A i \in 1..n : [teams[t][i] EXCEPT !.dummy = IsDummy(t)] \in Ships
    BY <1>2, <1>3 DEF Ships
  <2>2. \A i \in 1..n : /\ team[i] \in Ships /\ team[i].brain = teams[t][i].brain
                         /\ team[i].team = teams[t][i].team /\ team[i].dummy = IsDummy(t)
    BY <2>1, <1>2, <1>4 DEF Ships
  <2> QED BY <2>1, <2>2, <1>4
<1>6. team \in Seq(Ships) /\ Len(team) = n
  BY <1>1, <1>5, Listed
<1> QED BY <1>5, <1>6 DEF n, team

\* The ships of a team, and then `more` times as many with brains of their own.
Longer(team, ships, brains, more) ==
  LET n == Len(ships) IN
  /\ team \in Seq(Ships) /\ Len(team) = n + n * more
  /\ \A i \in 1..n : team[i] = ships[i]
  /\ \A i \in n + 1 .. n + n * more :
       /\ team[i].brain = brains + (i - n)
       /\ \E j \in 1..n : team[i].team = ships[j].team /\ team[i].dummy = ships[j].dummy

LEMMA MultipliedFacts ==
  ASSUME TypeOK, NEW ships \in Seq(Ships), NEW brains \in Nat,
         NEW more \in Nat, more = command.scenario.times - 1
  PROVE  Longer(Multiplied(ships, brains), ships, brains, more)
<1> DEFINE n == Len(ships)
           team == Multiplied(ships, brains)
           size == n + n * more
<1>1. n \in Nat /\ \A i \in 1..n : ships[i] \in Ships
  BY LenProperties, ElementOfSeq
<1>2. more \in Nat
  OBVIOUS
<1>3. n * more \in Nat /\ n * (more + 1) = size
  BY <1>1, <1>2
<1>4. team = [i \in 1..size |->
                IF i <= n THEN ships[i] ELSE Clone(ships[((i - n - 1) \div more) + 1], brains + i - n)]
  BY <1>3 DEF Multiplied
<1> HIDE DEF n, team
<1>5. \A i \in n + 1 .. n + n * more :
        /\ team[i] \in Ships /\ team[i].brain = brains + (i - n)
        /\ \E j \in 1..n : team[i].team = ships[j].team /\ team[i].dummy = ships[j].dummy
  <2>1. SUFFICES ASSUME NEW i \in n + 1 .. n + n * more
                 PROVE  /\ team[i] \in Ships /\ team[i].brain = brains + (i - n)
                        /\ \E j \in 1..n : /\ team[i].team = ships[j].team
                                           /\ team[i].dummy = ships[j].dummy
    OBVIOUS
  <2>2. ((i - n - 1) \div more) + 1 \in 1..n
    BY <1>1, <1>2, Places
  <2>3. PICK j \in 1..n : j = ((i - n - 1) \div more) + 1
    BY <2>2
  <2>4. i \in 1..size /\ ~(i <= n)
    BY <1>1, <1>3
  <2>5. team[i] = Clone(ships[j], brains + i - n)
    BY <2>3, <2>4, <1>4
  <2>6. brains + i - n = brains + (i - n) /\ brains + (i - n) \in Nat
    BY <2>1, <1>1, <1>3
  <2>7. ships[j] \in Ships /\ brains + i - n \in Nat
    BY <2>3, <2>6, <1>1
  <2>8. team[i] \in Ships /\ team[i].brain = brains + i - n
    BY <2>5, <2>7 DEF Clone, Ships
  <2>9. team[i].team = ships[j].team /\ team[i].dummy = ships[j].dummy
    BY <2>5 DEF Clone
  <2>10. \E k \in 1..n : team[i].team = ships[k].team /\ team[i].dummy = ships[k].dummy
    BY <2>3, <2>9
  <2> QED BY <2>6, <2>8, <2>10
<1>6. \A i \in 1..n : team[i] = ships[i] /\ team[i] \in Ships
  <2>1. \A i \in 1..n : i \in 1..size /\ i <= n
    BY <1>1, <1>3
  <2> QED BY <2>1, <1>1, <1>4
<1>7. team \in [1..size -> Ships]
  <2>1. \A i \in 1..size : i \in 1..n \/ i \in n + 1 .. n + n * more
    BY <1>1, <1>3
  <2>2. \A i \in 1..size : team[i] \in Ships
    BY <2>1, <1>5, <1>6
  <2>3. DOMAIN team = 1..size /\ team = [i \in 1..size |-> team[i]]
    BY <1>4
  <2> QED BY <2>2, <2>3
<1>8. size \in Nat
  BY <1>1, <1>3
<1> HIDE DEF size
<1>9. team \in Seq(Ships) /\ Len(team) = size
  BY <1>7, <1>8, Listed
<1>10. /\ team \in Seq(Ships) /\ Len(team) = n + n * more
       /\ \A i \in 1..n : team[i] = ships[i]
  BY <1>6, <1>9 DEF size
<1> QED BY <1>5, <1>10 DEF n, team, Longer

\* A scenario leaves the teams as long as they were or makes them longer, by
\* ships that get the next brains, those of team 0 first.
LEMMA TeamsGrown ==
  ASSUME FleetInv, TypeOK', stage = "configure",
         NEW more \in [Team -> Nat], next' = next + more[0] + more[1],
         alive' = alive \cup (next + 1 .. next'),
         \A t \in Team : Len(teams'[t]) = Len(teams[t]) + more[t],
         \A t \in Team : \A i \in 1..Len(teams[t]) : teams'[t][i].brain = teams[t][i].brain,
         \A t \in Team : \A i \in Len(teams[t]) + 1 .. Len(teams[t]) + more[t] :
           teams'[t][i].brain = (IF t = 0 THEN next ELSE next + more[0]) + (i - Len(teams[t]))
  PROVE  Owners' /\ Held'
<1>1. /\ TypeOK /\ Owners /\ Housed /\ Held /\ next \in Nat /\ alive \subseteq 1..next
      /\ \A t \in Team : Len(teams[t]) \in Nat
  BY OwnersAreHoused, OwnedAreHeld, ShipFacts DEF FleetInv, NothingLost, TypeOK
<1>2. /\ 0 \in Team /\ 1 \in Team /\ more[0] \in Nat /\ more[1] \in Nat
      /\ \A t \in Team : t = 0 \/ t = 1
  BY DEF Team
<1>3. \A t \in Team : \A i \in 1..Len(teams[t]) :
        teams[t][i].brain \in alive /\ ~(teams[t][i].brain > next)
  <2>1. \A b \in 1..next : ~(b > next)
    BY <1>1
  <2> QED BY <2>1, <1>1 DEF Housed
<1>4. \A t \in Team : \A i \in 1..Len(teams'[t]) :
        i \in 1..Len(teams[t]) \/ i \in Len(teams[t]) + 1 .. Len(teams[t]) + more[t]
  <2>1. SUFFICES ASSUME NEW t \in Team, NEW i \in 1..Len(teams'[t])
                 PROVE  i \in 1..Len(teams[t]) \/ i \in Len(teams[t]) + 1 .. Len(teams[t]) + more[t]
    OBVIOUS
  <2>2. Len(teams'[t]) = Len(teams[t]) + more[t] /\ Len(teams[t]) \in Nat /\ more[t] \in Nat
    BY <1>1
  <2> QED BY <2>2
<1>5. \A t \in Team : \A i \in Len(teams[t]) + 1 .. Len(teams[t]) + more[t] :
        /\ teams'[t][i].brain \in next + 1 .. next'
        /\ teams'[t][i].brain > next
        /\ t = 0 => /\ teams'[t][i].brain <= next + more[0]
                    /\ i = teams'[t][i].brain - next + Len(teams[t])
        /\ t = 1 => /\ teams'[t][i].brain > next + more[0]
                    /\ i = teams'[t][i].brain - next - more[0] + Len(teams[t])
  <2>1. SUFFICES ASSUME NEW t \in Team, NEW i \in Len(teams[t]) + 1 .. Len(teams[t]) + more[t],
                        NEW b, b = teams'[t][i].brain
                 PROVE  /\ b \in next + 1 .. next' /\ b > next
                        /\ t = 0 => b <= next + more[0] /\ i = b - next + Len(teams[t])
                        /\ t = 1 => b > next + more[0] /\ i = b - next - more[0] + Len(teams[t])
    OBVIOUS
  <2>2. b = (IF t = 0 THEN next ELSE next + more[0]) + (i - Len(teams[t]))
    BY <2>1
  <2>3. PICK n \in Nat : n = Len(teams[t])
    BY <1>1
  <2>4. PICK m \in Nat : m = more[0]
    BY <1>2
  <2>5. PICK k \in Nat : k = more[1]
    BY <1>2
  <2>6. next' = next + m + k
    BY <2>4, <2>5
  <2>7. CASE t = 0
    <3>1. b = next + (i - n) /\ i \in n + 1 .. n + m
      BY <2>2, <2>3, <2>4, <2>7
    <3>2. b \in next + 1 .. next' /\ b > next /\ b <= next + m /\ i = b - next + n
      BY <3>1, <2>6, <1>1
    <3> QED BY <3>2, <2>3, <2>4, <2>7
  <2>8. CASE t = 1
    <3>1. b = next + m + (i - n) /\ i \in n + 1 .. n + k
      BY <2>2, <2>3, <2>4, <2>5, <2>8
    <3>2. b \in next + 1 .. next' /\ b > next /\ b > next + m /\ i = b - next - m + n
      BY <3>1, <2>6, <1>1
    <3> QED BY <3>2, <2>3, <2>4, <2>8
  <2> QED BY <2>7, <2>8, <1>2
<1>6. Owners'
  <2>1. \A t \in Team : \A i \in 1..Len(teams'[t]) :
          \/ teams'[t][i].brain > next
          \/ i \in 1..Len(teams[t]) /\ teams'[t][i].brain = teams[t][i].brain
    BY <1>4, <1>5
  <2>2. \A t, u \in Team : \A i \in 1..Len(teams'[t]), j \in 1..Len(teams'[u]) :
          teams'[t][i].brain > next /\ teams'[t][i].brain = teams'[u][j].brain => t = u /\ i = j
    <3>1. SUFFICES ASSUME NEW t \in Team, NEW u \in Team,
                          NEW i \in 1..Len(teams'[t]), NEW j \in 1..Len(teams'[u]),
                          teams'[t][i].brain > next, teams'[t][i].brain = teams'[u][j].brain
                   PROVE  t = u /\ i = j
      OBVIOUS
    <3>2. /\ i \in Len(teams[t]) + 1 .. Len(teams[t]) + more[t]
          /\ j \in Len(teams[u]) + 1 .. Len(teams[u]) + more[u]
      <4>1. ~(i \in 1..Len(teams[t]))
        BY <3>1, <1>3
      <4>2. ~(j \in 1..Len(teams[u]))
        BY <3>1, <1>3
      <4>3. \/ i \in 1..Len(teams[t])
            \/ i \in Len(teams[t]) + 1 .. Len(teams[t]) + more[t]
        BY <1>4
      <4>4. \/ j \in 1..Len(teams[u])
            \/ j \in Len(teams[u]) + 1 .. Len(teams[u]) + more[u]
        BY <1>4
      <4> QED BY <4>1, <4>2, <4>3, <4>4
    <3>3. PICK b \in next + 1 .. next' : b = teams'[t][i].brain /\ b = teams'[u][j].brain
      BY <3>1, <3>2, <1>5
    <3>4. t = u
      <4>1. b \in Int /\ next + more[0] \in Int
        BY <1>1, <1>2
      <4>2. (t = 0 => b <= next + more[0]) /\ (t = 1 => b > next + more[0])
        BY <3>2, <3>3, <1>5
      <4>3. (u = 0 => b <= next + more[0]) /\ (u = 1 => b > next + more[0])
        BY <3>2, <3>3, <1>5
      <4>4. ~(b <= next + more[0] /\ b > next + more[0])
        BY <4>1
      <4> QED BY <4>2, <4>3, <4>4, <1>2
    <3>5. i = j
      <4>1. /\ t = 0 => i = b - next + Len(teams[t])
            /\ t = 1 => i = b - next - more[0] + Len(teams[t])
        <5>1. /\ t = 0 => i = teams'[t][i].brain - next + Len(teams[t])
              /\ t = 1 => i = teams'[t][i].brain - next - more[0] + Len(teams[t])
          BY <3>2, <1>5
        <5> QED BY <5>1, <3>3
      <4>2. /\ u = 0 => j = b - next + Len(teams[u])
            /\ u = 1 => j = b - next - more[0] + Len(teams[u])
        <5>1. /\ u = 0 => j = teams'[u][j].brain - next + Len(teams[u])
              /\ u = 1 => j = teams'[u][j].brain - next - more[0] + Len(teams[u])
          BY <3>2, <1>5
        <5> QED BY <5>1, <3>3
      <4>3. (t = 0 /\ u = 0) \/ (t = 1 /\ u = 1)
        BY <3>4, <1>2
      <4>4. CASE t = 0 /\ u = 0
        BY <4>1, <4>2, <4>4
      <4>5. CASE t = 1 /\ u = 1
        BY <4>1, <4>2, <4>5
      <4> QED BY <4>3, <4>4, <4>5
    <3> QED BY <3>4, <3>5
  <2>3. \A t \in Team : \A i \in 1..Len(teams'[t]) : teams'[t][i].brain \in alive'
    <3>1. \A t \in Team : \A i \in 1..Len(teams[t]) : teams'[t][i].brain \in alive'
      BY <1>3
    <3>2. \A t \in Team : \A i \in Len(teams[t]) + 1 .. Len(teams[t]) + more[t] :
            teams'[t][i].brain \in alive'
      BY <1>5
    <3> QED BY <3>1, <3>2, <1>4
  <2> QED BY <2>1, <2>2, <2>3, <1>1, OwnersKept
<1>7. Held'
  <2>1. SUFFICES ASSUME NEW b \in alive'
                 PROVE  \E t \in Team : \E i \in 1..Len(teams'[t]) : b = teams'[t][i].brain
    BY DEF Held
  <2>2. CASE b \in alive
    <3>1. PICK t \in Team : \E i \in 1..Len(teams[t]) : b = teams[t][i].brain
      BY <2>2, <1>1 DEF Held
    <3>2. PICK i \in 1..Len(teams[t]) : b = teams[t][i].brain
      BY <3>1
    <3>3. i \in 1..Len(teams'[t])
      <4>1. Len(teams'[t]) = Len(teams[t]) + more[t] /\ Len(teams[t]) \in Nat /\ more[t] \in Nat
        BY <1>1
      <4> QED BY <4>1
    <3> QED BY <3>2, <3>3
  <2>3. CASE b \notin alive
    <3>1. b \in next + 1 .. next + more[0] + more[1]
      BY <2>1, <2>3
    <3>2. PICK m \in Nat : m = more[0]
      BY <1>2
    <3>3. PICK k \in Nat : k = more[1]
      BY <1>2
    <3>4. CASE b <= next + m
      <4>1. PICK n \in Nat : n = Len(teams[0])
        BY <1>1, <1>2
      <4>2. PICK i \in n + 1 .. n + m : i = b - next + n
        <5>1. b - next + n \in n + 1 .. n + m
          BY <3>1, <3>2, <3>3, <3>4, <1>1
        <5> QED BY <5>1
      <4>3. teams'[0][i].brain = next + (i - n) /\ Len(teams'[0]) = n + m
        BY <4>1, <4>2, <3>2, <1>2
      <4>4. next + (i - n) = b /\ i \in 1..n + m
        BY <4>2, <3>1, <1>1
      <4> QED BY <4>3, <4>4, <1>2
    <3>5. CASE ~(b <= next + m)
      <4>1. PICK n \in Nat : n = Len(teams[1])
        BY <1>1, <1>2
      <4>2. PICK i \in n + 1 .. n + k : i = b - (next + m) + n
        <5>1. b \in Int /\ b > next + m /\ b <= next + m + k
          BY <3>1, <3>2, <3>3, <3>5, <1>1
        <5>2. b - (next + m) + n \in n + 1 .. n + k
          BY <5>1, <1>1
        <5> QED BY <5>2
      <4>3. teams'[1][i].brain = next + m + (i - n) /\ Len(teams'[1]) = n + k
        <5>1. 1 # 0 /\ i \in Len(teams[1]) + 1 .. Len(teams[1]) + more[1]
          BY <4>1, <4>2, <3>3
        <5>2. teams'[1][i].brain = (next + more[0]) + (i - Len(teams[1]))
          BY <5>1, <1>2
        <5> QED BY <5>2, <4>1, <3>2, <3>3, <1>2
      <4>4. next + m + (i - n) = b /\ i \in 1..n + k
        BY <4>2, <3>1, <1>1
      <4> QED BY <4>3, <4>4, <1>2
    <3> QED BY <3>4, <3>5
  <2> QED BY <2>2, <2>3
<1> QED BY <1>6, <1>7

LEMMA ConfigureStep ==
  ASSUME FleetInv, Configure
  PROVE  FleetInv'
<1> DEFINE times == command.scenario.times - 1
           n == Len(teams[0]) * times
           m == Len(teams[1]) * times
<1>1. /\ stage = "configure" /\ bases' = command.scenario.bases
      /\ teams' = [t \in Team |-> Multiplied(Equipped(teams[t], t), next + t * n)]
      /\ next' = next + n + m
      /\ alive' = alive \cup (next + 1 .. next + n + m)
      /\ stage' = "play" /\ left' = command.games
      /\ UNCHANGED <<at, command, capacity, first, pos, last, stale, files>>
  BY DEF Configure, loop
<1>2. /\ TypeOK /\ next \in Nat /\ alive \subseteq 1..next
      /\ \A t \in Team : Len(teams[t]) \in Nat
  <2>1. TypeOK
    BY DEF FleetInv
  <2> QED BY <2>1, ShipFacts DEF TypeOK
<1>3. 0 \in Team /\ 1 \in Team /\ (\A t \in Team : t = 0 \/ t = 1) /\ times \in Nat
  <2>1. times \in Nat
    BY <1>2, CommandFacts
  <2> QED BY <2>1 DEF Team
<1>4. n \in Nat /\ m \in Nat
  <2>1. \A a \in Nat, b \in Nat : a * b \in Nat
    OBVIOUS
  <2> QED BY <2>1, <1>2, <1>3
<1> DEFINE more == [t \in Team |-> IF t = 0 THEN n ELSE m]
<1>5. \A t \in Team : Len(teams[t]) * times = more[t]
  BY <1>3
<1> HIDE DEF n, m, times
<1>6. /\ more \in [Team -> Nat] /\ more[0] = n /\ more[1] = m
  BY <1>3, <1>4
<1> HIDE DEF more
<1>7. \A t \in Team : next + t * n \in Nat /\ next + t * n = IF t = 0 THEN next ELSE next + n
  <2>1. next + 0 * n = next /\ next + 1 * n = next + n
    BY <1>2, <1>4
  <2> QED BY <2>1, <1>2, <1>3, <1>4
<1>8. \A t \in Team :
        /\ teams'[t] \in Seq(Ships) /\ Len(teams'[t]) = Len(teams[t]) + more[t]
        /\ \A i \in 1..Len(teams[t]) : teams'[t][i].brain = teams[t][i].brain
        /\ \A i \in Len(teams[t]) + 1 .. Len(teams[t]) + more[t] :
             teams'[t][i].brain = (IF t = 0 THEN next ELSE next + n) + (i - Len(teams[t]))
  <2>1. SUFFICES ASSUME NEW t \in Team
                 PROVE  /\ teams'[t] \in Seq(Ships) /\ Len(teams'[t]) = Len(teams[t]) + more[t]
                        /\ \A i \in 1..Len(teams[t]) : teams'[t][i].brain = teams[t][i].brain
                        /\ \A i \in Len(teams[t]) + 1 .. Len(teams[t]) + more[t] :
                             teams'[t][i].brain = next + t * n + (i - Len(teams[t]))
    BY <1>7
  <2>2. PICK ships \in Seq(Ships) : ships = Equipped(teams[t], t)
    BY <1>2, EquippedFacts
  <2>3. /\ Len(ships) = Len(teams[t])
        /\ \A i \in 1..Len(teams[t]) : ships[i].brain = teams[t][i].brain
    BY <2>2, <1>2, EquippedFacts
  <2>4. PICK brains \in Nat : brains = next + t * n
    BY <1>7
  <2>5. teams'[t] = Multiplied(ships, brains)
    BY <2>2, <2>4, <1>1
  <2>6. PICK l \in Nat : l = Len(ships)
    BY <2>3, <1>2
  <2>7. PICK k \in Nat : k = times
    BY <1>3
  <2>8. k = command.scenario.times - 1
    BY <2>7 DEF times
  <2>9. /\ Multiplied(ships, brains) \in Seq(Ships)
        /\ Len(Multiplied(ships, brains)) = l + l * k
        /\ \A i \in 1..l : Multiplied(ships, brains)[i] = ships[i]
        /\ \A i \in l + 1 .. l + l * k : Multiplied(ships, brains)[i].brain = brains + (i - l)
    <3>1. Longer(Multiplied(ships, brains), ships, brains, k)
      BY <2>8, <1>2, MultipliedFacts
    <3> QED BY <3>1, <2>6 DEF Longer
  <2>10. l * k = more[t]
    BY <2>3, <2>6, <2>7, <1>5
  <2> QED BY <2>3, <2>4, <2>5, <2>6, <2>9, <2>10
<1>9. TypeOK'
  <2>1. teams' \in [Team -> Seq(Ships)]
    BY <1>1, <1>8
  <2>2. next' \in Nat /\ alive' \subseteq 1..next'
    BY <1>1, <1>2, <1>4
  <2>3. left' \in Nat /\ bases' \in [Team -> Nat]
    BY <1>1, <1>2, CommandFacts
  <2>4. {first', pos', last', next', left'} \subseteq Nat
    BY <2>2, <2>3, <1>1, <1>2 DEF TypeOK
  <2> QED BY <2>1, <2>2, <2>3, <2>4, <1>1, <1>2 DEF TypeOK, Stages
<1>10. Owners' /\ Held'
  <2>1. next' = next + more[0] + more[1] /\ alive' = alive \cup (next + 1 .. next')
    BY <1>1, <1>6
  <2> QED BY <2>1, <1>1, <1>6, <1>8, <1>9, TeamsGrown
<1>11. LoopInv' /\ ColdInv'
  BY <1>1 DEF FleetInv, LoopInv, ColdInv, Scaling
<1> QED BY <1>9, <1>10, <1>11, HeldIsNotLost DEF FleetInv

\* Nobody owns the brains of the team that is cleared; they stay in memory.
LEMMA AimStep ==
  ASSUME FleetInv, Aim
  PROVE  FleetInv'
<1> DEFINE ships == Equipped(teams[0], 0)
           target == [brain |-> next + 1, team |-> 1, dummy |-> TRUE]
<1>1. /\ stage = "configure" /\ command.scenario.kind = "aim"
      /\ bases' = command.scenario.bases
      /\ teams' = [t \in Team |-> IF t = 0 THEN ships ELSE <<target>>]
      /\ next' = next + 1 /\ alive' = alive \cup {next + 1}
      /\ stage' = "play" /\ left' = command.games
      /\ UNCHANGED <<at, command, capacity, first, pos, last, stale, files>>
  BY DEF Aim, loop
<1>2. TypeOK /\ Owners /\ next \in Nat /\ alive \subseteq 1..next
  BY DEF FleetInv, TypeOK
<1>3. 0 \in Team /\ 1 \in Team /\ \A t \in Team : t = 0 \/ t = 1
  BY DEF Team
<1>4. /\ ships \in Seq(Ships) /\ Len(ships) = Len(teams[0])
      /\ \A i \in 1..Len(teams[0]) : ships[i].brain = teams[0][i].brain
  BY <1>2, <1>3, EquippedFacts
<1>5. target \in Ships /\ target.brain = next + 1
  BY <1>2, <1>3 DEF Ships
<1> HIDE DEF ships, target
<1>6. <<target>> \in Seq(Ships) /\ Len(<<target>>) = 1 /\ <<target>>[1] = target
  BY <1>5
<1>7. /\ teams' \in [Team -> Seq(Ships)]
      /\ Len(teams'[0]) = Len(teams[0]) /\ Len(teams'[1]) = 1
      /\ \A i \in 1..Len(teams[0]) : teams'[0][i].brain = teams[0][i].brain
      /\ \A i \in 1..Len(teams'[1]) : i = 1 /\ teams'[1][i].brain = next + 1
  <2>1. teams'[0] = ships /\ teams'[1] = <<target>>
    BY <1>1, <1>3
  <2>2. \A i \in 1..1 : i = 1
    OBVIOUS
  <2>3. teams' \in [Team -> Seq(Ships)]
    BY <1>1, <1>4, <1>6
  <2> QED BY <2>1, <2>2, <2>3, <1>4, <1>5, <1>6
<1>8. TypeOK'
  <2>1. next' \in Nat /\ alive' \subseteq 1..next'
    BY <1>1, <1>2
  <2>2. left' \in Nat /\ bases' \in [Team -> Nat]
    BY <1>1, <1>2, CommandFacts
  <2>3. {first', pos', last', next', left'} \subseteq Nat
    BY <2>1, <2>2, <1>1, <1>2 DEF TypeOK
  <2> QED BY <2>1, <2>2, <2>3, <1>1, <1>2, <1>7 DEF TypeOK, Stages
<1>9. \A i \in 1..Len(teams[0]) : teams[0][i].brain \in alive /\ ~(teams[0][i].brain > next)
  <2>1. Housed
    BY <1>2, OwnersAreHoused
  <2>2. \A b \in 1..next : ~(b > next)
    BY <1>2
  <2> QED BY <2>1, <2>2, <1>2, <1>3 DEF Housed
<1>10. Owners'
  <2>1. \A t \in Team : \A i \in 1..Len(teams'[t]) :
          \/ t = 1 /\ i = 1 /\ teams'[t][i].brain = next + 1
          \/ /\ t = 0 /\ i \in 1..Len(teams[t]) /\ teams'[t][i].brain = teams[t][i].brain
             /\ teams'[t][i].brain \in alive /\ ~(teams'[t][i].brain > next)
    <3>1. \A i \in 1..Len(teams'[0]) :
            /\ i \in 1..Len(teams[0]) /\ teams'[0][i].brain = teams[0][i].brain
            /\ teams'[0][i].brain \in alive /\ ~(teams'[0][i].brain > next)
      BY <1>7, <1>9
    <3>2. \A i \in 1..Len(teams'[1]) : i = 1 /\ teams'[1][i].brain = next + 1
      BY <1>7
    <3> QED BY <3>1, <3>2, <1>3
  <2>2. next + 1 > next
    BY <1>2
  <2>3. \A t \in Team : \A i \in 1..Len(teams'[t]) :
          \/ teams'[t][i].brain > next
          \/ i \in 1..Len(teams[t]) /\ teams'[t][i].brain = teams[t][i].brain
    BY <2>1, <2>2
  <2>4. \A t, u \in Team : \A i \in 1..Len(teams'[t]), j \in 1..Len(teams'[u]) :
          teams'[t][i].brain > next /\ teams'[t][i].brain = teams'[u][j].brain => t = u /\ i = j
    BY <2>1
  <2>5. \A t \in Team : \A i \in 1..Len(teams'[t]) : teams'[t][i].brain \in alive'
    BY <2>1, <1>1
  <2> QED BY <2>3, <2>4, <2>5, <1>2, <1>8, OwnersKept
<1>11. LoopInv' /\ ColdInv' /\ NothingLost'
  BY <1>1 DEF FleetInv, LoopInv, ColdInv, NothingLost, Scaling
<1> QED BY <1>8, <1>10, <1>11 DEF FleetInv

\* Children and copies: a team keeps its size, and its dummies come from dummies.
LEMMA PlayedTeams ==
  ASSUME TypeOK, Play
  PROVE  /\ teams' = [t \in Team |-> teams'[t]]
         /\ \A t \in Team :
              /\ teams'[t] \in Seq(Ships) /\ Len(teams'[t]) = Len(teams[t])
              /\ \A i \in 1..Len(teams[t]) :
                   /\ teams'[t][i].brain = next + t * Len(teams[0]) + i
                   /\ teams'[t][i].team = t
                   /\ teams'[t][i].dummy => \E j \in 1..Len(teams[t]) : teams[t][j].dummy
<1>1. PICK a \in Litters(0), b \in Litters(1), won \in {{}, {0}, {1}} :
        LET kids == [t \in Team |-> IF t = 0 THEN a ELSE b]
            taken == [t \in Team |-> IF 1 - t \in won THEN Adopted(kids[1 - t], t) ELSE {}]
        IN teams' = [t \in Team |->
             Offspring(t, kids[t], taken[t], next + t * Len(teams[0]))]
  BY DEF Play
<1> DEFINE litter == [t \in Team |-> IF t = 0 THEN a ELSE b]
           gone == [t \in Team |-> IF 1 - t \in won THEN Adopted(litter[1 - t], t) ELSE {}]
<1>2. teams' = [t \in Team |-> Offspring(t, litter[t], gone[t], next + t * Len(teams[0]))]
  BY <1>1
<1>3. \A t \in Team : litter[t] \in Litters(t)
  BY <1>1 DEF Team
<1> HIDE DEF litter, gone
<1>4. teams' = [t \in Team |-> teams'[t]]
  BY <1>2
<1>5. ASSUME NEW t \in Team
      PROVE  /\ teams'[t] \in Seq(Ships) /\ Len(teams'[t]) = Len(teams[t])
             /\ \A i \in 1..Len(teams[t]) :
                  /\ teams'[t][i].brain = next + t * Len(teams[0]) + i
                  /\ teams'[t][i].team = t
                  /\ teams'[t][i].dummy => \E j \in 1..Len(teams[t]) : teams[t][j].dummy
  <2>1. PICK l \in Nat : /\ l = Len(teams[t]) /\ DOMAIN teams[t] = 1..l
                         /\ \A i \in 1..l : teams[t][i].dummy \in BOOLEAN
    BY ShipFacts
  <2>2. PICK brains \in Nat : brains = next + t * Len(teams[0])
    <3>1. next \in Nat /\ (t = 0 \/ t = 1) /\ Len(teams[0]) \in Nat
      BY ShipFacts DEF TypeOK, Team
    <3> QED BY <3>1
  <2>3. PICK kids : kids = litter[t]
    OBVIOUS
  <2>4. PICK taken : taken = gone[t]
    OBVIOUS
  <2>5. teams'[t] = [i \in 1..l |-> [brain |-> brains + i, team |-> t,
                                     dummy |-> kids[i] /\ i \notin taken]]
    BY <1>2, <2>1, <2>2, <2>3, <2>4 DEF Offspring
  <2>6. \A i \in 1..l : kids[i] \in BOOLEAN /\ \E j \in 1..l : kids[i] = teams[t][j].dummy
    <3>1. kids \in [1..l -> {teams[t][j].dummy : j \in 1..l}]
      BY <1>3, <2>1, <2>3 DEF Litters
    <3>2. \A i \in 1..l : \E j \in 1..l : kids[i] = teams[t][j].dummy
      BY <3>1
    <3> QED BY <3>2, <2>1
  <2>7. \A i \in 1..l : (kids[i] /\ i \notin taken) \in BOOLEAN
    OBVIOUS
  <2>8. teams'[t] \in [1..l -> Ships]
    BY <2>5, <2>7, <2>2 DEF Ships
  <2>9. teams'[t] \in Seq(Ships) /\ Len(teams'[t]) = l
    BY <2>8, Listed
  <2>10. \A i \in 1..l : /\ teams'[t][i].brain = brains + i /\ teams'[t][i].team = t
                         /\ teams'[t][i].dummy = (kids[i] /\ i \notin taken)
    BY <2>5
  <2>11. \A i \in 1..l : teams'[t][i].dummy => \E j \in 1..l : teams[t][j].dummy
    BY <2>6, <2>10
  <2> QED BY <2>1, <2>2, <2>9, <2>10, <2>11
<1> QED BY <1>4, <1>5

\* A generation: all brains are new, and all old ones are destroyed.
LEMMA PlayStep ==
  ASSUME FleetInv, Play
  PROVE  FleetInv'
<1>1. /\ stage = "play" /\ left > 0 /\ left' = left - 1
      /\ next' = next + Len(teams[0]) + Len(teams[1])
      /\ alive' = (alive \ (Brains(teams[0]) \cup Brains(teams[1]))) \cup (next + 1 .. next')
      /\ UNCHANGED <<stage, at, command, bases, capacity, first, pos, last, stale, files>>
  BY DEF Play, loop
<1>4. /\ TypeOK /\ next \in Nat /\ alive \subseteq 1..next /\ left \in Nat
      /\ 0 \in Team /\ 1 \in Team /\ (\A t \in Team : t = 0 \/ t = 1)
  BY DEF FleetInv, TypeOK, Team
<1>5. PICK k \in Nat : k = Len(teams[0])
  BY <1>4, ShipFacts
<1>6. PICK m \in Nat : m = Len(teams[1])
  BY <1>4, ShipFacts
<1>7. \A t \in Team :
        /\ teams'[t] \in Seq(Ships) /\ Len(teams'[t]) = Len(teams[t])
        /\ \A i \in 1..Len(teams[t]) : teams'[t][i].brain = IF t = 0 THEN next + i ELSE next + k + i
  <2>1. SUFFICES ASSUME NEW t \in Team
                 PROVE  /\ teams'[t] \in Seq(Ships) /\ Len(teams'[t]) = Len(teams[t])
                        /\ \A i \in 1..Len(teams[t]) :
                             teams'[t][i].brain = IF t = 0 THEN next + i ELSE next + k + i
    OBVIOUS
  <2>2. next + t * k = IF t = 0 THEN next ELSE next + k
    BY <1>4, <1>5
  <2>3. \A i \in 1..Len(teams[t]) : teams'[t][i].brain = next + t * k + i
    BY <1>4, <1>5, PlayedTeams
  <2> QED BY <2>2, <2>3, <1>4, PlayedTeams
<1>8. next' = next + k + m /\ next' \in Nat
  <2>1. next' = next + Len(teams[0]) + Len(teams[1])
    BY <1>1
  <2>2. next' = next + k + m
    BY <2>1, <1>5, <1>6
  <2> QED BY <2>2, <1>4
<1>9. TypeOK'
  <2>1. teams' \in [Team -> Seq(Ships)]
    BY <1>4, PlayedTeams
  <2>2. alive' \subseteq 1..next'
    <3>1. 1..next \subseteq 1..next' /\ next + 1 .. next' \subseteq 1..next'
      BY <1>4, <1>8
    <3> QED BY <3>1, <1>1, <1>4
  <2>3. left' \in Nat
    BY <1>1, <1>4
  <2>4. {first', pos', last', next', left'} \subseteq Nat
    BY <2>3, <1>1, <1>4, <1>8 DEF TypeOK
  <2> QED BY <2>1, <2>2, <2>3, <2>4, <1>1, <1>4, <1>8 DEF TypeOK
<1>10. Owners'
  <2>1. \A t \in Team : \A i \in 1..Len(teams'[t]) :
          /\ i \in Nat
          /\ t = 0 => teams'[t][i].brain = next + i /\ i <= k
          /\ t = 1 => teams'[t][i].brain = next + k + i /\ i > 0 /\ i <= m
          /\ teams'[t][i].brain > next /\ teams'[t][i].brain \in next + 1 .. next'
    <3>1. \A i \in 1..k : next + i > next /\ next + i \in next + 1 .. next' /\ i <= k /\ i \in Nat
      BY <1>4, <1>8
    <3>2. \A i \in 1..m : /\ next + k + i > next /\ next + k + i \in next + 1 .. next'
                          /\ i > 0 /\ i <= m /\ i \in Nat
      BY <1>4, <1>8
    <3>3. \A i \in 1..Len(teams'[0]) : i \in 1..k /\ teams'[0][i].brain = next + i
      BY <1>4, <1>5, <1>7
    <3>4. \A i \in 1..Len(teams'[1]) : i \in 1..m /\ teams'[1][i].brain = next + k + i
      BY <1>4, <1>6, <1>7
    <3> QED BY <3>1, <3>2, <3>3, <3>4, <1>4
  <2>2. \A t, u \in Team : \A i \in 1..Len(teams'[t]), j \in 1..Len(teams'[u]) :
          teams'[t][i].brain > next /\ teams'[t][i].brain = teams'[u][j].brain => t = u /\ i = j
    <3>1. SUFFICES ASSUME NEW t \in Team, NEW u \in Team,
                          NEW i \in 1..Len(teams'[t]), NEW j \in 1..Len(teams'[u]),
                          teams'[t][i].brain = teams'[u][j].brain
                   PROVE  t = u /\ i = j
      OBVIOUS
    <3>2. /\ i \in Nat /\ j \in Nat
          /\ t = 0 => teams'[t][i].brain = next + i /\ i <= k
          /\ t = 1 => teams'[t][i].brain = next + k + i /\ i > 0
          /\ u = 0 => teams'[u][j].brain = next + j /\ j <= k
          /\ u = 1 => teams'[u][j].brain = next + k + j /\ j > 0
      BY <2>1
    <3>3. t = u
      <4>1. \A a, b \in Nat : a <= k /\ b > 0 => next + a # next + k + b
        BY <1>4
      <4> QED BY <4>1, <3>1, <3>2, <1>4
    <3>4. i = j
      <4>1. \A a, b \in Nat : next + a = next + b \/ next + k + a = next + k + b => a = b
        BY <1>4
      <4> QED BY <4>1, <3>1, <3>2, <3>3, <1>4
    <3> QED BY <3>3, <3>4
  <2>3. \A t \in Team : \A i \in 1..Len(teams'[t]) :
          \/ teams'[t][i].brain > next
          \/ i \in 1..Len(teams[t]) /\ teams'[t][i].brain = teams[t][i].brain
    BY <2>1
  <2>4. \A t \in Team : \A i \in 1..Len(teams'[t]) : teams'[t][i].brain \in alive'
    BY <2>1, <1>1
  <2>5. Owners
    BY DEF FleetInv
  <2> QED BY <2>2, <2>3, <2>4, <2>5, <1>4, <1>9, OwnersKept
<1>11. NothingLost'
  <2>1. CASE alive \subseteq Owned
    <3>1. \A b \in alive' : b \in next + 1 .. next + k + m
      BY <2>1, <1>1, <1>8 DEF Owned
    <3>2. Held'
      <4>1. SUFFICES ASSUME NEW b \in next + 1 .. next + k + m
                     PROVE  \E t \in Team : \E i \in 1..Len(teams'[t]) : b = teams'[t][i].brain
        BY <3>1 DEF Held
      <4>2. CASE b <= next + k
        <5>1. b - next \in 1..k /\ b = next + (b - next)
          BY <4>2, <1>4
        <5> QED BY <5>1, <1>4, <1>5, <1>7
      <4>3. CASE ~(b <= next + k)
        <5>1. PICK i \in 1..m : b = next + k + i
          <6>1. b - next - k \in 1..m /\ b = next + k + (b - next - k)
            BY <4>3, <1>4
          <6> QED BY <6>1
        <5>2. i \in 1..Len(teams'[1]) /\ teams'[1][i].brain = next + k + i
          BY <1>4, <1>6, <1>7
        <5> QED BY <5>1, <5>2, <1>4
      <4> QED BY <4>2, <4>3
    <3> QED BY <3>2, <1>9, HeldIsNotLost
  <2>2. CASE ~(alive \subseteq Owned)
    BY <2>2, <1>1 DEF FleetInv, NothingLost
  <2> QED BY <2>1, <2>2
<1>12. LoopInv' /\ ColdInv'
  BY <1>1 DEF FleetInv, LoopInv, ColdInv, Scaling
<1> QED BY <1>9, <1>10, <1>11, <1>12 DEF FleetInv

\* Steps that leave the teams as they are: the game is over, a file is written.
LEMMA QuietStep ==
  ASSUME FleetInv, stage \in {"play", "open", "write"}, stage' \in {"open", "write"},
         at' \in Team, left' \in Nat, files' \in [Files -> Contents],
         UNCHANGED <<command, teams, bases, capacity, loop, next, alive>>
  PROVE  FleetInv'
<1>1. UNCHANGED <<command, teams, bases, capacity, first, pos, last, stale, next, alive>>
  BY DEF loop
<1>2. TypeOK'
  <2>1. {first', pos', last', next', left'} \subseteq Nat
    BY <1>1 DEF FleetInv, TypeOK
  <2> QED BY <2>1, <1>1 DEF FleetInv, TypeOK, Stages
<1>3. LoopInv' /\ ColdInv'
  BY <1>1 DEF FleetInv, LoopInv, ColdInv, Scaling
<1>4. Owners' /\ NothingLost'
  <2>1. Owned' = Owned
    BY <1>1 DEF Owned, Brains
  <2> QED BY <2>1, <1>1 DEF FleetInv, Owners, NothingLost
<1> QED BY <1>2, <1>3, <1>4 DEF FleetInv

LEMMA WrittenFacts ==
  ASSUME TypeOK, NEW t \in Team
  PROVE  Written(teams[t]) \in Contents /\ Unreadable \in Contents
<1>1. PICK n \in Nat : n = Len(teams[t])
  BY ShipFacts
<1>2. /\ DOMAIN teams[t] = 1..n
      /\ \A i \in 1..n : teams[t][i].team \in Team /\ teams[t][i].dummy \in BOOLEAN
  BY <1>1, ShipFacts
<1> DEFINE ships == [i \in 1..n |-> [team |-> teams[t][i].team, dummy |-> teams[t][i].dummy]]
<1>3. ships \in [1..n -> [team : Team, dummy : BOOLEAN]]
  BY <1>2
<1> HIDE DEF ships
<1>4. ships \in Seq([team : Team, dummy : BOOLEAN])
  BY <1>3, Listed
<1>5. Written(teams[t]) = [whole |-> TRUE, ships |-> ships]
  BY <1>2 DEF Written, ships
<1>6. Unreadable \in Contents
  BY EmptySeq DEF Unreadable, Contents
<1> QED BY <1>4, <1>5, <1>6 DEF Contents

LEMMA StartStep ==
  ASSUME FleetInv, Start
  PROVE  FleetInv'
<1>1. /\ stage = "off" /\ stage' = "load" /\ command' \in Commands
      /\ UNCHANGED <<at, teams, bases, capacity, first, pos, last, stale, next, alive, left, files>>
  BY DEF Start, loop
<1>2. at = 0 /\ alive = {} /\ teams = [t \in Team |-> <<>>]
  BY <1>1 DEF FleetInv, ColdInv
<1>3. TypeOK'
  BY <1>1 DEF FleetInv, TypeOK, Stages
<1>4. LoopInv'
  BY <1>1 DEF FleetInv, LoopInv, Scaling
<1>5. ColdInv'
  BY <1>1, <1>2 DEF ColdInv, Team
<1>6. Owners' /\ NothingLost'
  <2>1. Owned' = Owned
    BY <1>1 DEF Owned, Brains
  <2> QED BY <2>1, <1>1, <1>2 DEF FleetInv, Owners, NothingLost
<1> QED BY <1>3, <1>4, <1>5, <1>6 DEF FleetInv

LEMMA FleetNext == FleetInv /\ [Next]_vars => FleetInv'
<1> SUFFICES ASSUME FleetInv, [Next]_vars PROVE FleetInv'
  OBVIOUS
<1>1. TypeOK /\ at \in Team /\ left \in Nat /\ files \in [Files -> Contents]
  BY DEF FleetInv, TypeOK
<1>2. CASE Off /\ UNCHANGED files
  BY <1>2, <1>1, OffStep
<1>3. CASE Open
  <2>1. /\ stage = "open" /\ files' = [files EXCEPT ![command.save[at]] = Unreadable]
        /\ stage' = "write"
        /\ UNCHANGED <<at, command, teams, bases, capacity, loop, next, alive, left>>
    BY <1>3 DEF Open
  <2>2. files' \in [Files -> Contents]
    BY <2>1, <1>1, WrittenFacts
  <2> QED BY <2>1, <2>2, <1>1, QuietStep
<1>4. CASE Write
  <2>1. stage = "write" /\ files' = [files EXCEPT ![command.save[at]] = Written(teams[at])]
    BY <1>4 DEF Write
  <2>2. files' \in [Files -> Contents]
    BY <2>1, <1>1, WrittenFacts
  <2>3. CASE at = 0
    <3>1. /\ stage' = "open" /\ at' = 1
          /\ UNCHANGED <<command, teams, bases, capacity, loop, next, alive, left>>
      BY <1>4, <2>3 DEF Write
    <3> QED BY <2>1, <2>2, <3>1, <1>1, QuietStep DEF Team
  <2>4. CASE at # 0
    <3>1. Off
      BY <1>4, <2>4 DEF Write
    <3> QED BY <2>2, <3>1, <1>1, OffStep
  <2> QED BY <2>3, <2>4
<1>5. CASE SkipSave
  <2>1. stage = "open" /\ UNCHANGED files
    BY <1>5 DEF SkipSave
  <2>2. CASE at = 0
    <3>1. /\ at' = 1
          /\ UNCHANGED <<stage, command, teams, bases, capacity, loop, next, alive, left>>
      BY <1>5, <2>2 DEF SkipSave
    <3> QED BY <2>1, <3>1, <1>1, QuietStep DEF Team
  <2>3. CASE at # 0
    BY <1>5, <2>1, <2>3, <1>2 DEF SkipSave
  <2> QED BY <2>2, <2>3
<1>6. CASE EndPlay
  <2>1. /\ stage = "play" /\ stage' = "open" /\ left' = 0
        /\ UNCHANGED <<at, command, teams, bases, capacity, loop, next, alive, files>>
    BY <1>6 DEF EndPlay
  <2> QED BY <2>1, <1>1, QuietStep
<1>7. CASE UNCHANGED vars
  <2>1. TypeOK' /\ LoopInv' /\ ColdInv'
    BY <1>7 DEF vars, loop, FleetInv, TypeOK, LoopInv, ColdInv, Scaling, Target
  <2>2. Owned' = Owned
    BY <1>7 DEF vars, Owned, Brains
  <2>3. Owners' /\ NothingLost'
    BY <1>7, <2>2 DEF vars, FleetInv, Owners, NothingLost
  <2> QED BY <2>1, <2>3 DEF FleetInv
<1>8. CASE Killed \/ ReadFails \/ PushFails \/ PlayFails
  <2>1. Off /\ UNCHANGED files
    BY <1>8 DEF Killed, ReadFails, PushFails, PlayFails
  <2> QED BY <2>1, <1>2
<1> QED BY <1>3, <1>4, <1>5, <1>6, <1>7, <1>8, StartStep, MakeStep, ReadStep, CutStep, PushStep,
           ScaledStep, ConfigureStep, AimStep, PlayStep DEF Next, Progress

-----------------------------------------------------------------------------
LEMMA FleetInvariant == Spec => []FleetInv
<1>1. Init => FleetInv
  BY FleetInit
<1>2. FleetInv /\ [Next]_vars => FleetInv'
  BY FleetNext
<1> QED BY <1>1, <1>2, PTL DEF Spec

\* Teams that are read, cut, grown, multiplied and bred stay lists of ships of
\* the two teams, and files are whole or unreadable.
THEOREM FleetsAreTyped == Spec => []TypeOK
<1>1. FleetInv => TypeOK
  BY DEF FleetInv
<1> QED BY <1>1, FleetInvariant, PTL

\* Every ship has a living brain of its own, whatever the files, the sizes and
\* the scenarios of the runs: clones, children and ships of files get new ones.
THEOREM ShipsOwnTheirBrains == Spec => []Owners
<1>1. FleetInv => Owners
  BY DEF FleetInv
<1> QED BY <1>1, FleetInvariant, PTL

\* scale_population() destroys the brains of all ships it drops and of no other,
\* and no step but the clearing of a team forgets one.
THEOREM BrainsAreNotLost == Spec => []NothingLost
<1>1. FleetInv => NothingLost
  BY DEF FleetInv
<1> QED BY <1>1, FleetInvariant, PTL

-----------------------------------------------------------------------------
(***************************************************************************)
(* A game is played by teams as its scenario wants them.                   *)
(***************************************************************************)
\* The size that a team has when the scenario configures it.
Sized(t) == IF command.scenario.kind = "json" THEN command.scenario.size[t] ELSE Size

\* scale_population() grows a team to its size and not beyond; a vector that
\* has moved is cloned from only by a team that is still too small.
GrowthInv ==
  /\ Scaling /\ first < Len(teams[at]) => Len(teams[at]) <= Target
  /\ pos > 0 => Len(teams[at]) < Target
  /\ stale => Scaling /\ pos > 0 /\ Target > first + 1 /\ (first = 1 => Target > 3)

\* What has been scaled has its size, and no more games are left than were wanted.
SizeInv ==
  /\ stage \in {"load", "scaleLoaded"} /\ at = 1 => Len(teams[0]) = Size
  /\ stage = "scaleJson" =>
       command.scenario.kind = "json" /\ (at = 1 => Len(teams[0]) = command.scenario.size[0])
  /\ stage = "configure" => \A t \in Team : Len(teams[t]) = Sized(t)
  /\ stage = "play" => left <= command.games

\* Ships are in the team they say they are of.
Homes == \A t \in Team : \A i \in 1..Len(teams[t]) : teams[t][i].team = t

\* A team of dummies or of ships that think, as the scenario wants it.
OneKind(team, t) ==
  /\ \A i, j \in 1..Len(team) : team[i].dummy = team[j].dummy
  /\ t \in command.scenario.dummies => \A i \in 1..Len(team) : team[i].dummy

PlanInv == GrowthInv /\ SizeInv /\ Homes /\ PlaysAsConfigured

LEMMA ScenarioFacts ==
  ASSUME TypeOK
  PROVE  /\ command.scenario.kind = "json" => command.scenario.times = 1
         /\ command.scenario.kind = "aim" => 1 \in command.scenario.dummies
         /\ command.scenario.kind \in {"lines", "aim", "json"}
<1>1. command.scenario \in Scenarios
  BY FleetAssumption DEF FleetAssumption, TypeOK
<1>2. command.scenario.kind \in Kinds
  BY CommandFacts
<1> QED BY <1>1, <1>2, FleetAssumption DEF FleetAssumption, Kinds

\* A team has its size, read or made: the other is next, or the next stage.
LEMMA LoadedPlan ==
  ASSUME FleetInv, PlanInv, stage \in {"load", "scaleLoaded"}, Onward("load", Ready),
         command' = command, pos' = 0, stale' = FALSE, teams' \in [Team -> Seq(Ships)],
         Len(teams'[at]) = Size, \A t \in Team \ {at} : teams'[t] = teams[t], Homes'
  PROVE  PlanInv'
<1>1. /\ TypeOK /\ at \in Team /\ Team = {0, 1}
      /\ stage \in {"load", "scaleLoaded"} /\ at = 1 => Len(teams[0]) = Size
  BY DEF FleetInv, TypeOK, PlanInv, SizeInv, Team
<1>2. /\ stage' \in Stages /\ at' \in Team /\ at' = 1 - at /\ first' \in Nat
      /\ stage' = IF at = 0 THEN "load" ELSE Ready
      /\ stage' = "scaleJson" => first' = Len(teams'[at'])
  BY <1>1, OnwardFacts, ReadyFacts
<1>3. Len(teams'[at']) \in Nat
  BY <1>2, LenProperties
<1>4. /\ Ready \in {"scaleJson", "configure"}
      /\ Ready = "scaleJson" <=> command.scenario.kind = "json"
  BY DEF Ready
<1>5. stage' \in {"load", "scaleJson", "configure"}
  BY <1>2, <1>4
<1>6. GrowthInv'
  BY <1>2, <1>3, <1>5 DEF GrowthInv, Scaling
<1>7. SizeInv'
  <2>1. CASE at = 0
    <3>1. stage' = "load" /\ Len(teams'[0]) = Size
      BY <2>1, <1>2
    <3> QED BY <3>1 DEF SizeInv
  <2>2. CASE at = 1
    <3>1. stage' = Ready /\ at' = 0
      BY <2>2, <1>2
    <3>2. Len(teams'[1]) = Size /\ Len(teams'[0]) = Size
      BY <2>2, <1>1
    <3>3. stage' = "configure" => \A t \in Team : Len(teams'[t]) = Sized(t)'
      BY <3>1, <3>2, <1>1, <1>4 DEF Sized
    <3> QED BY <3>1, <3>3, <1>4 DEF SizeInv
  <2> QED BY <2>1, <2>2, <1>1
<1>8. PlaysAsConfigured'
  BY <1>5 DEF PlaysAsConfigured
<1> QED BY <1>6, <1>7, <1>8 DEF PlanInv

\* The same after scaling for a JSON scenario.
LEMMA JsonPlan ==
  ASSUME FleetInv, PlanInv, stage = "scaleJson", Onward("scaleJson", "configure"),
         command' = command, pos' = 0, stale' = FALSE, teams' \in [Team -> Seq(Ships)],
         Len(teams'[at]) = command.scenario.size[at],
         \A t \in Team \ {at} : teams'[t] = teams[t], Homes'
  PROVE  PlanInv'
<1>1. /\ TypeOK /\ at \in Team /\ Team = {0, 1} /\ command.scenario.kind = "json"
      /\ at = 1 => Len(teams[0]) = command.scenario.size[0]
  BY DEF FleetInv, TypeOK, PlanInv, SizeInv, Team
<1>2. /\ at' \in Team /\ at' = 1 - at /\ first' \in Nat
      /\ stage' = IF at = 0 THEN "scaleJson" ELSE "configure"
      /\ stage' = "scaleJson" => first' = Len(teams'[at'])
  BY <1>1, OnwardFacts, ReadyFacts
<1>3. Len(teams'[at']) \in Nat
  BY <1>2, LenProperties
<1>4. stage' \in {"scaleJson", "configure"}
  BY <1>2
<1>5. GrowthInv'
  BY <1>2, <1>3, <1>4 DEF GrowthInv, Scaling
<1>6. SizeInv'
  <2>1. CASE at = 0
    <3>1. stage' = "scaleJson" /\ Len(teams'[0]) = command.scenario.size[0]
      BY <2>1, <1>2
    <3> QED BY <3>1, <1>1 DEF SizeInv
  <2>2. CASE at = 1
    <3>1. stage' = "configure"
      BY <2>2, <1>2
    <3>2. Len(teams'[1]) = command.scenario.size[1] /\ Len(teams'[0]) = command.scenario.size[0]
      BY <2>2, <1>1
    <3>3. \A t \in Team : Len(teams'[t]) = Sized(t)'
      BY <3>2, <1>1 DEF Sized
    <3> QED BY <3>1, <3>3 DEF SizeInv
  <2> QED BY <2>1, <2>2, <1>1
<1>7. PlaysAsConfigured'
  BY <1>4 DEF PlaysAsConfigured
<1> QED BY <1>5, <1>6, <1>7 DEF PlanInv

LEMMA FinishedPlan ==
  ASSUME FleetInv, PlanInv, Scaling, Finished,
         command' = command, pos' = 0, stale' = FALSE, teams' \in [Team -> Seq(Ships)],
         Len(teams'[at]) = Target, \A t \in Team \ {at} : teams'[t] = teams[t], Homes'
  PROVE  PlanInv'
<1>1. CASE stage = "scaleLoaded"
  <2>1. Onward("load", Ready) /\ Target = Size
    BY <1>1 DEF Finished, Target
  <2> QED BY <2>1, <1>1, LoadedPlan
<1>2. CASE stage = "scaleJson"
  <2>1. Onward("scaleJson", "configure") /\ Target = command.scenario.size[at]
    BY <1>2 DEF Finished, Target
  <2> QED BY <2>1, <1>2, JsonPlan
<1> QED BY <1>1, <1>2 DEF Scaling

\* A team is made, of ships that belong to it.
LEMMA TeamHomes ==
  ASSUME TypeOK, Homes, NEW team \in Seq(Ships), teams' = [teams EXCEPT ![at] = team],
         \A i \in 1..Len(team) : team[i].team = at
  PROVE  /\ teams' \in [Team -> Seq(Ships)] /\ teams'[at] = team
         /\ \A t \in Team \ {at} : teams'[t] = teams[t]
         /\ Homes'
<1>1. teams \in [Team -> Seq(Ships)] /\ at \in Team
  BY DEF TypeOK
<1>2. /\ teams' \in [Team -> Seq(Ships)] /\ teams'[at] = team
      /\ \A t \in Team \ {at} : teams'[t] = teams[t]
  BY <1>1
<1>3. \A t \in Team : \A i \in 1..Len(teams'[t]) : teams'[t][i].team = t
  BY <1>2 DEF Homes
<1> QED BY <1>2, <1>3 DEF Homes

\* Outside scaling its loop is at rest.
LEMMA LoopRests ==
  ASSUME FleetInv, PlanInv, ~Scaling
  PROVE  pos = 0 /\ stale = FALSE
<1>1. pos \in Nat /\ stale \in BOOLEAN
  BY DEF FleetInv, TypeOK
<1>2. ~(pos > 0) /\ ~stale
  BY DEF FleetInv, LoopInv, PlanInv, GrowthInv
<1> QED BY <1>1, <1>2

LEMMA MakePlan ==
  ASSUME FleetInv, PlanInv, Make
  PROVE  PlanInv'
<1> DEFINE team == [i \in 1..Size |-> [brain |-> next + i, team |-> at, dummy |-> FALSE]]
<1>1. /\ stage = "load" /\ teams' = [teams EXCEPT ![at] = team] /\ Onward("load", Ready)
      /\ UNCHANGED <<command, pos, stale>>
  BY DEF Make
<1>2. /\ TypeOK /\ Homes /\ at \in Team /\ next \in Nat /\ Size \in Nat
  BY CommandFacts DEF FleetInv, TypeOK, PlanInv
<1>3. team \in [1..Size -> Ships]
  BY <1>2 DEF Ships
<1>4. \A i \in 1..Size : team[i].team = at
  OBVIOUS
<1> HIDE DEF team
<1>5. team \in Seq(Ships) /\ Len(team) = Size
  BY <1>2, <1>3, Listed
<1>6. /\ teams' \in [Team -> Seq(Ships)] /\ teams'[at] = team
      /\ \A t \in Team \ {at} : teams'[t] = teams[t]
      /\ Homes'
  BY <1>1, <1>2, <1>4, <1>5, TeamHomes
<1>7. pos' = 0 /\ stale' = FALSE
  BY <1>1, LoopRests DEF Scaling
<1> QED BY <1>1, <1>5, <1>6, <1>7, LoadedPlan

LEMMA ReadPlan ==
  ASSUME FleetInv, PlanInv, Read
  PROVE  PlanInv'
<1> DEFINE saved == files[command.load[at]].ships
           n == Len(saved)
           team == [i \in DOMAIN saved |-> Recruit(saved[i], at, next + i)]
<1>1. /\ stage = "load" /\ command.load[at] # NoFile
      /\ teams' = [teams EXCEPT ![at] = team] /\ first' = n
      /\ stage' = "scaleLoaded"
      /\ UNCHANGED <<at, command, pos, stale>>
  BY DEF Read
<1>2. /\ TypeOK /\ Homes /\ at \in Team /\ next \in Nat
  BY DEF FleetInv, TypeOK, PlanInv
<1>3. saved \in Seq([team : Team, dummy : BOOLEAN])
  <2>1. command.load[at] \in Files
    BY <1>1, <1>2, CommandFacts
  <2> QED BY <2>1, <1>2 DEF TypeOK, Contents
<1> HIDE DEF saved
<1>4. n \in Nat /\ DOMAIN saved = 1..n /\ \A i \in 1..n : saved[i].dummy \in BOOLEAN
  <2>1. n \in Nat /\ DOMAIN saved = 1..n
    BY <1>3, LenProperties
  <2>2. \A i \in 1..n : saved[i] \in [team : Team, dummy : BOOLEAN]
    BY <1>3, ElementOfSeq
  <2> QED BY <2>1, <2>2
<1> HIDE DEF n
<1>5. team = [i \in 1..n |-> [brain |-> next + i, team |-> at, dummy |-> saved[i].dummy]]
  BY <1>4 DEF Recruit
<1> HIDE DEF team
<1>6. team \in [1..n -> Ships] /\ \A i \in 1..n : team[i].team = at
  BY <1>2, <1>4, <1>5 DEF Ships
<1>7. team \in Seq(Ships) /\ Len(team) = n
  BY <1>4, <1>6, Listed
<1>8. /\ teams' \in [Team -> Seq(Ships)] /\ teams'[at] = team
      /\ \A t \in Team \ {at} : teams'[t] = teams[t]
      /\ Homes'
  BY <1>1, <1>2, <1>6, <1>7, TeamHomes
<1>9. pos' = 0 /\ stale' = FALSE
  BY <1>1, LoopRests DEF Scaling
<1>10. GrowthInv'
  <2>1. first' = Len(teams'[at']) /\ first' \in Nat
    BY <1>1, <1>4, <1>7, <1>8
  <2> QED BY <2>1, <1>9 DEF GrowthInv
<1>11. SizeInv'
  <2>1. at = 1 => teams'[0] = teams[0]
    BY <1>8 DEF Team
  <2> QED BY <2>1, <1>1 DEF PlanInv, SizeInv
<1>12. PlaysAsConfigured'
  BY <1>1 DEF PlaysAsConfigured
<1> QED BY <1>8, <1>10, <1>11, <1>12 DEF PlanInv

LEMMA CutPlan ==
  ASSUME FleetInv, PlanInv, Cut
  PROVE  PlanInv'
<1> DEFINE kept == SubSeq(teams[at], 1, Target)
<1>1. /\ Scaling /\ TooMany /\ Finished
      /\ teams' = [teams EXCEPT ![at] = kept]
      /\ UNCHANGED <<command, pos, stale>>
  BY DEF Cut
<1>2. /\ TypeOK /\ Homes /\ at \in Team /\ Target \in Nat \ {0} /\ Len(teams[at]) \in Nat
  BY <1>1, ScalingFacts DEF PlanInv
<1>3. /\ pos = 0 /\ kept \in Seq(Ships) /\ Len(kept) = Target
      /\ \A i \in 1..Target : i \in 1..Len(teams[at]) /\ kept[i] = teams[at][i]
  BY <1>1, KeptFacts
<1>4. stale = FALSE
  BY <1>3 DEF FleetInv, TypeOK, PlanInv, GrowthInv
<1> HIDE DEF kept
<1>5. \A i \in 1..Len(kept) : kept[i].team = at
  BY <1>2, <1>3 DEF Homes
<1>6. /\ teams' \in [Team -> Seq(Ships)] /\ teams'[at] = kept
      /\ \A t \in Team \ {at} : teams'[t] = teams[t]
      /\ Homes'
  BY <1>1, <1>2, <1>3, <1>5, TeamHomes
<1> QED BY <1>1, <1>3, <1>4, <1>6, FinishedPlan

LEMMA ScaledPlan ==
  ASSUME FleetInv, PlanInv, Scaled
  PROVE  PlanInv'
<1>1. /\ Scaling /\ pos = 0 /\ Len(teams[at]) >= Target /\ ~TooMany /\ Finished
      /\ UNCHANGED <<command, teams, pos, stale>>
  BY DEF Scaled
<1>2. /\ TypeOK /\ at \in Team /\ Target \in Nat /\ Len(teams[at]) \in Nat /\ first \in Nat
      /\ first <= Len(teams[at]) /\ stale \in BOOLEAN
  BY <1>1, ScalingFacts DEF TypeOK
<1>3. Len(teams[at]) = Target
  <2>1. CASE first < Len(teams[at])
    BY <2>1, <1>1, <1>2 DEF PlanInv, GrowthInv
  <2>2. CASE first = Len(teams[at])
    BY <2>2, <1>1, <1>2 DEF TooMany
  <2> QED BY <2>1, <2>2, <1>2
<1>4. stale = FALSE
  BY <1>1, <1>2 DEF PlanInv, GrowthInv
<1>5. teams' \in [Team -> Seq(Ships)] /\ Homes'
  BY <1>1, <1>2 DEF TypeOK, PlanInv, Homes
<1> QED BY <1>1, <1>3, <1>4, <1>5, FinishedPlan

\* A clone is of the team of its original, and the loop goes on only while the
\* team is too small.
LEMMA PushPlan ==
  ASSUME FleetInv, PlanInv, Push
  PROVE  PlanInv'
<1> DEFINE size == Len(teams[at])
           clone == Clone(teams[at][Here], next + 1)
           leaves == Full(size + 1) \/ Here = End
<1>1. /\ Scaling
      /\ pos > 0 \/ size \in 1..(Target - 1)
      /\ teams' = [teams EXCEPT ![at] = Append(teams[at], clone)]
      /\ UNCHANGED <<stage, at, command, first>>
  BY DEF Push
<1>2. /\ pos' = IF leaves THEN 0 ELSE Here + 1
      /\ stale' = (~leaves /\ (stale \/ size = capacity[at]))
  BY DEF Push
<1>3. /\ TypeOK /\ Homes /\ at \in Team /\ next \in Nat /\ Target \in Nat /\ size \in Nat
      /\ first <= size /\ {first, pos, last} \subseteq Nat /\ teams[at] \in Seq(Ships)
  <2>1. TypeOK => teams[at] \in Seq(Ships)
    BY <1>1, ScalingFacts, ShipFacts
  <2> QED BY <2>1, <1>1, ScalingFacts DEF PlanInv
<1>4. /\ Here \in 1..size /\ size + 1 <= Target
      /\ ~leaves => size >= 2 /\ size + 1 < Target
  <2>1. CASE pos > 0
    <3>1. Here = pos
      BY <2>1, <1>3 DEF Here
    <3>2. pos <= last /\ last <= size /\ first < size
      BY <2>1 DEF FleetInv, LoopInv
    <3>3. size < Target
      BY <2>1 DEF PlanInv, GrowthInv
    <3>4. ~leaves => size + 1 # Target /\ pos # last
      BY <2>1, <3>1, <1>3 DEF Full, End
    <3>5. ~leaves => size + 1 < Target
      BY <3>3, <3>4, <1>3
    <3>6. ~leaves => size >= 2
      BY <3>2, <3>4, <2>1, <1>3
    <3> QED BY <3>1, <3>2, <3>3, <3>5, <3>6, <2>1, <1>3
  <2>2. CASE ~(pos > 0)
    <3>1. pos = 0 /\ size \in 1..(Target - 1)
      BY <2>2, <1>1, <1>3
    <3>2. Here = 1 /\ End = size
      BY <3>1 DEF Here, End
    <3>3. ~leaves => size + 1 # Target /\ 1 # size
      BY <3>2 DEF Full
    <3>4. size = 1 \/ size >= 2
      <4>1. \A k \in 1..(Target - 1) : k = 1 \/ k >= 2
        BY <1>3
      <4> QED BY <4>1, <3>1
    <3>5. ~leaves => size + 1 < Target
      BY <3>1, <3>3, <1>3
    <3> QED BY <3>1, <3>2, <3>3, <3>4, <3>5, <1>3
  <2> QED BY <2>1, <2>2
<1>5. clone \in Ships /\ clone.team = at
  <2>1. teams[at][Here].team = at /\ teams[at][Here].dummy \in BOOLEAN
    BY <1>3, <1>4, ShipFacts DEF Homes
  <2> QED BY <2>1, <1>3 DEF Clone, Ships
<1> HIDE DEF clone
<1> DEFINE team == Append(teams[at], clone)
<1>6. /\ team \in Seq(Ships) /\ Len(team) = size + 1
      /\ \A i \in 1..size : team[i] = teams[at][i]
      /\ team[size + 1] = clone
  BY <1>3, <1>5, AppendProperties
<1> HIDE DEF team
<1>7. \A i \in 1..Len(team) : team[i].team = at
  <2>1. \A i \in 1..size + 1 : i \in 1..size \/ i = size + 1
    BY <1>3
  <2>2. \A i \in 1..size : team[i].team = at
    BY <1>3, <1>6 DEF Homes
  <2> QED BY <2>1, <2>2, <1>5, <1>6
<1>8. teams' = [teams EXCEPT ![at] = team]
  BY <1>1 DEF team
<1>9. /\ teams'[at] = team /\ \A t \in Team \ {at} : teams'[t] = teams[t]
      /\ Homes'
  BY <1>3, <1>6, <1>7, <1>8, TeamHomes
<1>10. Target' = Target /\ Scaling' /\ Len(teams'[at']) = size + 1
  BY <1>1, <1>6, <1>9 DEF Target, Scaling
<1>11. GrowthInv'
  <2>1. pos' > 0 => ~leaves
    BY <1>2
  <2>2. stale' => ~leaves /\ pos' = Here + 1
    BY <1>2
  <2>3. pos' > 0 => Len(teams'[at']) < Target'
    BY <2>1, <1>4, <1>10
  <2>4. stale' => pos' > 0 /\ Target > first + 1 /\ (first = 1 => Target > 3)
    BY <2>2, <1>3, <1>4
  <2> QED BY <2>3, <2>4, <1>1, <1>4, <1>10 DEF GrowthInv
<1>12. SizeInv'
  <2>1. at = 1 => teams'[0] = teams[0]
    BY <1>9 DEF Team
  <2> QED BY <2>1, <1>1 DEF PlanInv, SizeInv, Scaling
<1>13. PlaysAsConfigured'
  BY <1>1 DEF PlaysAsConfigured, Scaling
<1> QED BY <1>9, <1>11, <1>12, <1>13 DEF PlanInv

\* What a scenario makes of a team that is of the size it has been scaled to.
LEMMA MultipliedPlan ==
  ASSUME TypeOK, SizeInv, Homes, stage = "configure", command.scenario.kind # "aim",
         NEW t \in Team, NEW brains \in Nat, NEW team,
         team = Multiplied(Equipped(teams[t], t), brains)
  PROVE  /\ Len(team) = Expected(t)
         /\ \A i \in 1..Len(team) : /\ team[i].team = t
                                    /\ team[i].dummy =>
                                         t \in command.scenario.dummies \cup command.scenario.keeps
         /\ OneKind(team, t)
<1> DEFINE ships == Equipped(teams[t], t)
           k == Len(ships)
           more == command.scenario.times - 1
<1>1. /\ ships \in Seq(Ships) /\ k = Len(teams[t]) /\ k \in Nat
      /\ \A i \in 1..k : ships[i].team = t /\ ships[i].dummy = IsDummy(t)
  BY EquippedFacts, ShipFacts DEF Homes
<1>2. more \in Nat /\ command.scenario.times = more + 1 /\ Size \in Nat
  BY CommandFacts
<1> HIDE DEF ships
<1>3. team = Multiplied(ships, brains)
  BY DEF ships
<1>4. Longer(team, ships, brains, more)
  BY <1>1, <1>2, <1>3, MultipliedFacts
<1> HIDE DEF more
<1>5. /\ Len(team) = k + k * more
      /\ \A i \in 1..k : team[i] = ships[i]
      /\ \A i \in k + 1 .. k + k * more :
           \E j \in 1..k : team[i].team = ships[j].team /\ team[i].dummy = ships[j].dummy
  BY <1>4 DEF Longer
<1> HIDE DEF k
<1>6. k = Sized(t)
  BY <1>1 DEF SizeInv
<1>7. Len(team) = Expected(t)
  <2>1. CASE command.scenario.kind = "json"
    <3>1. more = 0 /\ k = command.scenario.size[t]
      BY <2>1, <1>2, <1>6, ScenarioFacts DEF Sized
    <3>2. k + k * 0 = k
      BY <1>1
    <3> QED BY <2>1, <3>1, <3>2, <1>5 DEF Expected
  <2>2. CASE command.scenario.kind = "lines"
    <3>1. k = Size
      BY <2>2, <1>6 DEF Sized
    <3>2. Size + Size * more = Size * (more + 1)
      BY <1>2
    <3> QED BY <2>2, <3>1, <3>2, <1>2, <1>5 DEF Expected
  <2> QED BY <2>1, <2>2, ScenarioFacts
<1>8. \A i \in 1..Len(team) : team[i].team = t /\ team[i].dummy = IsDummy(t)
  <2>1. SUFFICES ASSUME NEW i \in 1..Len(team)
                 PROVE  team[i].team = t /\ team[i].dummy = IsDummy(t)
    OBVIOUS
  <2>2. k * more \in Nat
    BY <1>1, <1>2
  <2>3. i \in 1..k \/ i \in k + 1 .. k + k * more
    BY <2>2, <1>1, <1>5
  <2>4. \E j \in 1..k : team[i].team = ships[j].team /\ team[i].dummy = ships[j].dummy
    BY <2>3, <1>5
  <2> QED BY <2>4, <1>1
<1>9. IsDummy(t) => t \in command.scenario.dummies \cup command.scenario.keeps
  BY DEF IsDummy
<1>10. t \in command.scenario.dummies => IsDummy(t)
  BY DEF IsDummy
<1>11. OneKind(team, t)
  BY <1>8, <1>10 DEF OneKind
<1> QED BY <1>7, <1>8, <1>9, <1>11

\* Outside its scaling and configuring a team only has to be as it should.
LEMMA PlayedPlan ==
  ASSUME FleetInv, PlanInv, ~Scaling, TypeOK', stage' = "play", pos' = pos, stale' = stale,
         command' = command, left' <= command.games,
         left' = command.games => \A t \in Team : OneKind(teams'[t], t),
         \A t \in Team :
           /\ Len(teams'[t]) = Expected(t)
           /\ \A i \in 1..Len(teams'[t]) :
                /\ teams'[t][i].team = t
                /\ teams'[t][i].dummy =>
                     t \in command.scenario.dummies \cup command.scenario.keeps
  PROVE  PlanInv'
<1>1. pos' = 0 /\ stale' = FALSE
  BY LoopRests
<1>2. GrowthInv' /\ SizeInv'
  BY <1>1 DEF GrowthInv, SizeInv, Scaling
<1>3. Homes'
  BY DEF Homes
<1>4. \A t \in Team : DOMAIN teams'[t] = 1..Len(teams'[t])
  <2>1. \A t \in Team : teams'[t] \in Seq(Ships)
    BY DEF TypeOK
  <2> QED BY <2>1, LenProperties
<1>5. \A t \in Team : Expected(t)' = Expected(t)
  BY DEF Expected
<1>6. PlaysAsConfigured'
  <2>1. left' = command.games => \A t \in Team :
          /\ \A i, j \in DOMAIN teams'[t] : teams'[t][i].dummy = teams'[t][j].dummy
          /\ t \in command.scenario.dummies => \A i \in DOMAIN teams'[t] : teams'[t][i].dummy
    BY <1>4 DEF OneKind
  <2>2. \A t \in Team :
          /\ Len(teams'[t]) = Expected(t)'
          /\ \A i \in DOMAIN teams'[t] :
               /\ teams'[t][i].team = t
               /\ teams'[t][i].dummy =>
                    t \in command.scenario.dummies \cup command.scenario.keeps
    BY <1>4, <1>5
  <2> QED BY <2>1, <2>2 DEF PlaysAsConfigured
<1> QED BY <1>2, <1>3, <1>6 DEF PlanInv

LEMMA ConfigurePlan ==
  ASSUME FleetInv, PlanInv, Configure
  PROVE  PlanInv'
<1> DEFINE n == Len(teams[0]) * (command.scenario.times - 1)
<1>1. /\ stage = "configure" /\ command.scenario.kind # "aim" /\ stage' = "play"
      /\ teams' = [t \in Team |-> Multiplied(Equipped(teams[t], t), next + t * n)]
      /\ left' = command.games /\ UNCHANGED <<command, pos, stale>>
  BY DEF Configure, loop
<1>2. /\ TypeOK /\ SizeInv /\ Homes /\ TypeOK' /\ next \in Nat
  BY ConfigureStep DEF FleetInv, PlanInv, TypeOK
<1>3. n \in Nat
  <2>1. \A a \in Nat, b \in Nat : a * b \in Nat
    OBVIOUS
  <2>2. Len(teams[0]) \in Nat /\ command.scenario.times - 1 \in Nat
    BY <1>2, ShipFacts, CommandFacts DEF Team
  <2> QED BY <2>1, <2>2
<1> HIDE DEF n
<1>4. \A t \in Team : next + t * n \in Nat
  BY <1>2, <1>3 DEF Team
<1>5. \A t \in Team : teams'[t] = Multiplied(Equipped(teams[t], t), next + t * n)
  BY <1>1
<1>6. \A t \in Team :
        /\ Len(teams'[t]) = Expected(t)
        /\ \A i \in 1..Len(teams'[t]) :
             /\ teams'[t][i].team = t
             /\ teams'[t][i].dummy =>
                  t \in command.scenario.dummies \cup command.scenario.keeps
  BY <1>1, <1>2, <1>4, <1>5, MultipliedPlan
<1>7. \A t \in Team : OneKind(teams'[t], t)
  BY <1>1, <1>2, <1>4, <1>5, MultipliedPlan
<1>8. left' <= command.games
  BY <1>1, <1>2, CommandFacts
<1>9. ~Scaling
  BY <1>1 DEF Scaling
<1> QED BY <1>1, <1>2, <1>6, <1>7, <1>8, <1>9, PlayedPlan

LEMMA AimPlan ==
  ASSUME FleetInv, PlanInv, Aim
  PROVE  PlanInv'
<1> DEFINE ships == Equipped(teams[0], 0)
           target == [brain |-> next + 1, team |-> 1, dummy |-> TRUE]
<1>1. /\ stage = "configure" /\ command.scenario.kind = "aim" /\ stage' = "play"
      /\ teams' = [t \in Team |-> IF t = 0 THEN ships ELSE <<target>>]
      /\ left' = command.games /\ UNCHANGED <<command, pos, stale>>
  BY DEF Aim, loop
<1>2. TypeOK /\ SizeInv /\ Homes /\ TypeOK' /\ Team = {0, 1}
  BY AimStep DEF FleetInv, PlanInv, Team
<1>3. /\ Len(ships) = Len(teams[0])
      /\ \A i \in 1..Len(ships) : ships[i].team = 0 /\ ships[i].dummy = IsDummy(0)
  BY <1>2, EquippedFacts DEF Homes
<1>4. Len(ships) = Expected(0)
  BY <1>1, <1>2, <1>3 DEF SizeInv, Sized, Expected
<1>5. /\ IsDummy(0) => 0 \in command.scenario.dummies \cup command.scenario.keeps
      /\ 0 \in command.scenario.dummies => IsDummy(0)
  BY DEF IsDummy
<1>6. /\ Len(<<target>>) = 1 /\ Expected(1) = 1 /\ 1 \in command.scenario.dummies
      /\ <<target>>[1].team = 1 /\ <<target>>[1].dummy
  BY <1>1, <1>2, ScenarioFacts DEF Expected
<1> HIDE DEF ships, target
<1>7. teams'[0] = ships /\ teams'[1] = <<target>>
  BY <1>1, <1>2
<1>8. \A i \in 1..Len(<<target>>) : i = 1
  BY <1>6
<1>9. \A t \in Team :
        /\ Len(teams'[t]) = Expected(t)
        /\ \A i \in 1..Len(teams'[t]) :
             /\ teams'[t][i].team = t
             /\ teams'[t][i].dummy =>
                  t \in command.scenario.dummies \cup command.scenario.keeps
  <2>1. SUFFICES ASSUME NEW t \in Team
                 PROVE  /\ Len(teams'[t]) = Expected(t)
                        /\ \A i \in 1..Len(teams'[t]) :
                             /\ teams'[t][i].team = t
                             /\ teams'[t][i].dummy =>
                                  t \in command.scenario.dummies \cup command.scenario.keeps
    OBVIOUS
  <2>2. CASE t = 0
    BY <2>2, <1>3, <1>4, <1>5, <1>7
  <2>3. CASE t = 1
    BY <2>3, <1>6, <1>7, <1>8
  <2> QED BY <2>2, <2>3, <1>2
<1>10. \A t \in Team : OneKind(teams'[t], t)
  <2>1. OneKind(teams'[0], 0)
    BY <1>3, <1>5, <1>7 DEF OneKind
  <2>2. OneKind(teams'[1], 1)
    BY <1>6, <1>7, <1>8 DEF OneKind
  <2> QED BY <2>1, <2>2, <1>2
<1>11. left' <= command.games
  BY <1>1, <1>2, CommandFacts
<1>12. ~Scaling
  BY <1>1 DEF Scaling
<1> QED BY <1>1, <1>2, <1>9, <1>10, <1>11, <1>12, PlayedPlan

\* Children take the places of their elders, and a team without dummies gets none.
\* The first game is over.
LEMMA PlayPlan ==
  ASSUME FleetInv, PlanInv, Play
  PROVE  PlanInv'
<1>1. /\ stage = "play" /\ left > 0 /\ left' = left - 1
      /\ UNCHANGED <<stage, command, pos, stale>>
  BY DEF Play, loop
<1>2. /\ TypeOK /\ TypeOK' /\ PlaysAsConfigured /\ left \in Nat /\ command.games \in Nat
      /\ left <= command.games
  <2>1. TypeOK /\ TypeOK' /\ PlaysAsConfigured /\ left <= command.games
    BY <1>1, PlayStep DEF FleetInv, PlanInv, SizeInv
  <2> QED BY <2>1, CommandFacts DEF TypeOK
<1>3. left' <= command.games /\ left' # command.games
  BY <1>1, <1>2
<1>4. \A t \in Team :
        /\ Len(teams'[t]) = Expected(t)
        /\ \A i \in 1..Len(teams'[t]) :
             /\ teams'[t][i].team = t
             /\ teams'[t][i].dummy =>
                  t \in command.scenario.dummies \cup command.scenario.keeps
  <2>1. SUFFICES ASSUME NEW t \in Team
                 PROVE  /\ Len(teams'[t]) = Expected(t)
                        /\ \A i \in 1..Len(teams'[t]) :
                             /\ teams'[t][i].team = t
                             /\ teams'[t][i].dummy =>
                                  t \in command.scenario.dummies \cup command.scenario.keeps
    OBVIOUS
  <2>2. /\ Len(teams[t]) = Expected(t)
        /\ \A i \in 1..Len(teams[t]) : teams[t][i].dummy =>
             t \in command.scenario.dummies \cup command.scenario.keeps
    BY <1>1, <1>2, ShipFacts DEF PlaysAsConfigured
  <2>3. /\ Len(teams'[t]) = Len(teams[t])
        /\ \A i \in 1..Len(teams[t]) :
             /\ teams'[t][i].team = t
             /\ teams'[t][i].dummy => \E j \in 1..Len(teams[t]) : teams[t][j].dummy
    BY <1>2, PlayedTeams
  <2> QED BY <2>2, <2>3
<1>5. ~Scaling
  BY <1>1 DEF Scaling
<1>6. stage' = "play" /\ pos' = pos /\ stale' = stale /\ command' = command
  BY <1>1
<1> QED BY <1>2, <1>3, <1>4, <1>5, <1>6, PlayedPlan

-----------------------------------------------------------------------------
\* Off: no teams, and the loop at rest.
LEMMA OffPlan ==
  ASSUME Off
  PROVE  PlanInv'
<1>1. stage' = "off" /\ teams' = [t \in Team |-> <<>>] /\ pos' = 0 /\ stale' = FALSE
  BY DEF Off
<1>2. GrowthInv' /\ SizeInv' /\ PlaysAsConfigured'
  BY <1>1 DEF GrowthInv, SizeInv, PlaysAsConfigured, Scaling
<1>3. Homes'
  <2>1. \A t \in Team : teams'[t] = <<>> /\ Len(teams'[t]) = 0
    BY <1>1
  <2> QED BY <2>1 DEF Homes
<1> QED BY <1>2, <1>3 DEF PlanInv

LEMMA PlanInit == Init => PlanInv
<1> SUFFICES ASSUME Init PROVE PlanInv
  OBVIOUS
<1>1. stage = "off" /\ teams = [t \in Team |-> <<>>] /\ pos = 0 /\ stale = FALSE
  BY DEF Init
<1>2. GrowthInv /\ SizeInv /\ PlaysAsConfigured
  BY <1>1 DEF GrowthInv, SizeInv, PlaysAsConfigured, Scaling
<1>3. Homes
  <2>1. \A t \in Team : teams[t] = <<>> /\ Len(teams[t]) = 0
    BY <1>1
  <2> QED BY <2>1 DEF Homes
<1> QED BY <1>2, <1>3 DEF PlanInv

\* After the games, and before the first team, nothing is asked of the teams.
LEMMA QuietPlan ==
  ASSUME FleetInv, PlanInv, ~Scaling, pos' = pos, stale' = stale, teams' = teams,
         stage' \in {"open", "write"} \/ (stage' = "load" /\ at' = 0)
  PROVE  PlanInv'
<1>1. pos' = 0 /\ stale' = FALSE
  BY LoopRests
<1> QED BY <1>1 DEF PlanInv, GrowthInv, SizeInv, Homes, PlaysAsConfigured, Scaling

LEMMA PlanNext == FleetInv /\ PlanInv /\ [Next]_vars => PlanInv'
<1> SUFFICES ASSUME FleetInv, PlanInv, [Next]_vars PROVE PlanInv'
  OBVIOUS
<1>1. CASE Off
  BY <1>1, OffPlan
<1>2. CASE Start
  <2>1. stage = "off" /\ stage' = "load" /\ UNCHANGED <<at, teams, pos, stale>>
    BY <1>2 DEF Start, loop
  <2>2. at' = 0 /\ ~Scaling
    BY <2>1 DEF FleetInv, ColdInv, Scaling
  <2> QED BY <2>1, <2>2, QuietPlan
<1>3. CASE EndPlay \/ Open
  <2>1. /\ stage \in {"play", "open"} /\ stage' \in {"open", "write"}
        /\ UNCHANGED <<teams, pos, stale>>
    BY <1>3 DEF EndPlay, Open, loop
  <2>2. ~Scaling
    BY <2>1 DEF Scaling
  <2> QED BY <2>1, <2>2, QuietPlan
<1>4. CASE Write \/ SkipSave
  <2>1. stage \in {"open", "write"}
    BY <1>4 DEF Write, SkipSave
  <2>2. ~Scaling
    BY <2>1 DEF Scaling
  <2>3. CASE at = 0
    <3>1. stage' = "open" /\ UNCHANGED <<teams, pos, stale>>
      BY <1>4, <2>3 DEF Write, SkipSave, loop
    <3> QED BY <3>1, <2>2, QuietPlan
  <2>4. CASE at # 0
    BY <1>4, <2>4, <1>1 DEF Write, SkipSave
  <2> QED BY <2>3, <2>4
<1>5. CASE Killed \/ ReadFails \/ PushFails \/ PlayFails
  BY <1>5, <1>1 DEF Killed, ReadFails, PushFails, PlayFails
<1>6. CASE UNCHANGED vars
  <2>1. UNCHANGED <<stage, at, command, teams, first, pos, stale, left>>
    BY <1>6 DEF vars, loop
  <2>2. GrowthInv' /\ SizeInv' /\ Homes'
    BY <2>1 DEF PlanInv, GrowthInv, SizeInv, Homes, Scaling, Target, Sized
  <2>3. PlaysAsConfigured'
    <3>1. \A t \in Team : Expected(t)' = Expected(t)
      BY <2>1 DEF Expected
    <3>2. SUFFICES ASSUME stage = "play", NEW t \in Team
                   PROVE  /\ Len(teams[t]) = Expected(t)
                          /\ \A i \in DOMAIN teams[t] :
                               /\ teams[t][i].team = t
                               /\ teams[t][i].dummy =>
                                    t \in command.scenario.dummies \cup command.scenario.keeps
                          /\ left = command.games =>
                               /\ \A i, j \in DOMAIN teams[t] :
                                    teams[t][i].dummy = teams[t][j].dummy
                               /\ t \in command.scenario.dummies =>
                                    \A i \in DOMAIN teams[t] : teams[t][i].dummy
      BY <2>1, <3>1 DEF PlaysAsConfigured
    <3> QED BY <3>2 DEF PlanInv, PlaysAsConfigured
  <2> QED BY <2>2, <2>3 DEF PlanInv
<1> QED BY <1>2, <1>3, <1>4, <1>5, <1>6, MakePlan, ReadPlan, CutPlan, PushPlan, ScaledPlan,
           ConfigurePlan, AimPlan, PlayPlan DEF Next, Progress

LEMMA PlanInvariant == Spec => []PlanInv
<1>1. Init => PlanInv
  BY PlanInit
<1>2. FleetInv /\ PlanInv /\ [Next]_vars => PlanInv'
  BY PlanNext
<1> QED BY <1>1, <1>2, FleetInvariant, PTL DEF Spec

\* Whatever lessons its files come from, a game is played by teams of the size
\* and the numbers of its scenario: reading sets the team and scaling the size.
\* Configuring makes all ships of a team dummies or none, so the first game is
\* played by teams of one kind, helpless where the scenario wants them so; the
\* later ones have dummies in no other team than the scenario wants or leaves
\* them, but thinking ships may have come among them.
THEOREM TeamsAreAsConfigured == Spec => []PlaysAsConfigured
<1>1. PlanInv => PlaysAsConfigured
  BY DEF PlanInv
<1> QED BY <1>1, PlanInvariant, PTL

\* scale_population() clones from the vector that it has moved away only in a
\* team that it grows by two or more, and from one ship to more than three.
THEOREM StaleGrowthIsLong == Spec => []GrowsFromLive
<1>1. PlanInv => GrowsFromLive
  BY DEF PlanInv, GrowthInv, GrowsFromLive
<1> QED BY <1>1, PlanInvariant, PTL
=============================================================================
