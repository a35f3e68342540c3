-------------------------------- MODULE Fleet --------------------------------
(***************************************************************************)
(* The teams of a program, before and between its battles, and what is     *)
(* left of them when it has ended: sdl1/neurocid.cpp reads or makes the    *)
(* teams and scales them, a scenario configures them, games are played and *)
(* the teams are written to files, from which the next run of the program  *)
(* reads them (examples/*.sh chain such runs).  A run may be killed.       *)
(*                                                                         *)
(* A game is one step here: Generation.tla says what it does to the teams, *)
(* Session.tla what a stop in the middle of it does.  Of a layout only     *)
(* isDummy_ is kept.  capacity follows the vector of libstdc++, which      *)
(* doubles when it is full and moves its elements.                         *)
(***************************************************************************)
EXTENDS Naturals, Sequences

CONSTANTS
  Size,        \* size_ of every PopulationLayout (40)
  Elite,       \* numElite_ of the pools (4): ships a loser adopts at most
  Files, NoFile,
  Scenarios,   \* what the program can be started with
  Commands     \* [load, save, scenario, games]: the runs a script may start

Team == {0, 1}

Kinds == {"lines", "aim", "json"}

ASSUME FleetAssumption ==
  /\ Size \in Nat \ {0} /\ Elite \in Nat
  /\ NoFile \notin Files
  /\ Scenarios \subseteq
       [kind : Kinds, bases : [Team -> Nat], dummies : SUBSET Team,
        keeps : SUBSET Team, times : Nat \ {0}, size : [Team -> Nat \ {0}]]
  /\ Commands \subseteq
       [load : [Team -> Files \cup {NoFile}], save : [Team -> Files \cup {NoFile}],
        scenario : Scenarios, games : Nat]
  /\ \A s \in Scenarios : /\ s.kind = "json" => s.times = 1
                          /\ s.kind = "aim" => 1 \in s.dummies

VARIABLES
  stage,     \* where main() is, "off" between two runs
  at,        \* the team it is at
  command,   \* what it was started with
  teams,     \* sequences of ships
  bases,     \* size of facilities_ of each team
  capacity,  \* of the vector of each team
  first,     \* size of the team before scale_population() grew it
  pos, last, \* the range-for of scale_population(): at pos, 0 when outside
  stale,     \* the vector has moved since that loop began
  next,      \* brains allocated so far
  alive,     \* brains allocated and not destroyed
  left,      \* games to play
  files      \* what is on the disk

loop == <<first, pos, last, stale>>
vars == <<stage, at, command, teams, bases, capacity, loop, next, alive, left, files>>

Stages == {"off", "load", "scaleLoaded", "configure", "scaleJson", "play", "open", "write"}

Ships == [brain : Nat, team : Team, dummy : BOOLEAN]

\* A file that does not exist, or was truncated and not written.
Unreadable == [whole |-> FALSE, ships |-> <<>>]

Contents == [whole : BOOLEAN, ships : Seq([team : Team, dummy : BOOLEAN])]

\* A process before main(): nothing of the last one is left.
Off ==
  /\ stage' = "off" /\ at' = 0
  /\ teams' = [t \in Team |-> <<>>] /\ bases' = [t \in Team |-> 0]
  /\ capacity' = [t \in Team |-> 0]
  /\ first' = 0 /\ pos' = 0 /\ last' = 0 /\ stale' = FALSE
  /\ next' = 0 /\ alive' = {} /\ left' = 0
  /\ UNCHANGED command

Init ==
  /\ stage = "off" /\ at = 0 /\ command \in Commands
  /\ teams = [t \in Team |-> <<>>] /\ bases = [t \in Team |-> 0]
  /\ capacity = [t \in Team |-> 0]
  /\ first = 0 /\ pos = 0 /\ last = 0 /\ stale = FALSE
  /\ next = 0 /\ alive = {} /\ left = 0
  /\ files = [f \in Files |-> Unreadable]

Start ==
  /\ stage = "off"
  /\ stage' = "load"
  /\ command' \in Commands
  /\ UNCHANGED <<at, teams, bases, capacity, loop, next, alive, left, files>>

-----------------------------------------------------------------------------
(***************************************************************************)
(* make_population() and read_population().                                *)
(***************************************************************************)
Brains(ships) == {ships[i].brain : i \in DOMAIN ships}

\* The stage after both teams are there.
Ready == IF command.scenario.kind = "json" THEN "scaleJson" ELSE "configure"

\* After team 0 comes team 1, and then what is named.
Onward(here, there) ==
  /\ stage' = IF at = 0 THEN here ELSE there
  /\ at' = 1 - at
  /\ first' = IF stage' = "scaleJson" THEN Len(teams'[at']) ELSE 0

Make ==
  /\ stage = "load" /\ command.load[at] = NoFile
  /\ teams' = [teams EXCEPT ![at] =
       [i \in 1..Size |-> [brain |-> next + i, team |-> at, dummy |-> FALSE]]]
  /\ capacity' = [capacity EXCEPT ![at] = Size]
  /\ next' = next + Size
  /\ alive' = alive \cup (next + 1 .. next + Size)
  /\ Onward("load", Ready)
  /\ UNCHANGED <<command, bases, pos, last, stale, left, files>>

\* BROKEN VARIANT of Recruit: ships keep the team they were saved in.
RecruitAsSaved(ship, t, brain) == [brain |-> brain, team |-> ship.team, dummy |-> ship.dummy]

\* A ship of a file joins team t, with a brain of its own.
Recruit(ship, t, brain) == [brain |-> brain, team |-> t, dummy |-> ship.dummy]

\* BROKEN VARIANT of Read: a file that cannot be read is an empty team.
ReadAnything ==
  /\ stage = "load" /\ command.load[at] # NoFile
  /\ LET saved == files[command.load[at]].ships IN
       /\ teams' = [teams EXCEPT ![at] =
            [i \in DOMAIN saved |-> Recruit(saved[i], at, next + i)]]
       /\ capacity' = [capacity EXCEPT ![at] = Len(saved)]
       /\ first' = Len(saved)
       /\ next' = next + Len(saved)
       /\ alive' = alive \cup (next + 1 .. next + Len(saved))
  /\ stage' = "scaleLoaded"
  /\ UNCHANGED <<at, command, bases, pos, last, stale, left, files>>

Read ==
  /\ stage = "load" /\ command.load[at] # NoFile
  /\ files[command.load[at]].whole
  /\ LET saved == files[command.load[at]].ships IN
       /\ teams' = [teams EXCEPT ![at] =
            [i \in DOMAIN saved |-> Recruit(saved[i], at, next + i)]]
       /\ capacity' = [capacity EXCEPT ![at] = Len(saved)]
       /\ first' = Len(saved)
       /\ next' = next + Len(saved)
       /\ alive' = alive \cup (next + 1 .. next + Len(saved))
  /\ stage' = "scaleLoaded"
  /\ UNCHANGED <<at, command, bases, pos, last, stale, left, files>>

\* The archive throws, and nobody catches it.
ReadFails ==
  /\ stage = "load" /\ command.load[at] # NoFile
  /\ ~files[command.load[at]].whole
  /\ Off /\ UNCHANGED files

-----------------------------------------------------------------------------
(***************************************************************************)
(* scale_population(), called with size_ after reading a team and with the *)
(* size of its own team by a JSON scenario.                                *)
(***************************************************************************)
Scaling == stage \in {"scaleLoaded", "scaleJson"}

Target == IF stage = "scaleLoaded" THEN Size ELSE command.scenario.size[at]

\* BROKEN VARIANTS of Dropped: the first ships, all but one.
DroppedFirst == 1 .. Len(teams[at]) - Target
DroppedButOne == Target + 2 .. Len(teams[at])

\* The ships whose brains are destroyed before the vector is cut.
Dropped == Target + 1 .. Len(teams[at])

Finished ==
  IF stage = "scaleLoaded" THEN Onward("load", Ready) ELSE Onward("scaleJson", "configure")

TooMany == Len(teams[at]) = first /\ first > Target

Cut ==
  /\ Scaling /\ TooMany
  /\ alive' = alive \ {teams[at][i].brain : i \in Dropped}
  /\ teams' = [teams EXCEPT ![at] = SubSeq(teams[at], 1, Target)]
  /\ Finished
  /\ UNCHANGED <<command, bases, capacity, pos, last, stale, next, left, files>>

Clone(ship, brain) == [brain |-> brain, team |-> ship.team, dummy |-> ship.dummy]

\* The ship of the range-for, which begins anew when it has come to its end.
Here == IF pos = 0 THEN 1 ELSE pos
End == IF pos = 0 THEN Len(teams[at]) ELSE last

\* BROKEN VARIANT of Full: the size is only tested between two loops.
FullNever(size) == FALSE

\* The loop is left as soon as the team has its size.
Full(size) == size = Target

\* push_back(s.clone()).  In an empty team the loop has no s and the while
\* around it turns for ever: nothing happens.
Push ==
  /\ Scaling
  /\ pos > 0 \/ Len(teams[at]) \in 1..(Target - 1)
  /\ teams' = [teams EXCEPT ![at] = Append(teams[at], Clone(teams[at][Here], next + 1))]
  /\ next' = next + 1
  /\ alive' = alive \cup {next + 1}
  /\ LET size == Len(teams[at])
         moves == size = capacity[at]
         leaves == Full(size + 1) \/ Here = End IN
       /\ capacity' = [capacity EXCEPT ![at] = IF moves THEN 2 * size ELSE capacity[at]]
       /\ pos' = IF leaves THEN 0 ELSE Here + 1
       /\ last' = IF leaves THEN 0 ELSE End
       /\ stale' = (~leaves /\ (stale \/ moves))
  /\ UNCHANGED <<stage, at, command, bases, first, left, files>>

\* Cloning a ship in memory that was freed may also end the program.
PushFails ==
  /\ Scaling /\ stale
  /\ Off /\ UNCHANGED files

Scaled ==
  /\ Scaling /\ pos = 0 /\ Len(teams[at]) >= Target /\ ~TooMany
  /\ UNCHANGED <<command, teams, bases, capacity, pos, last, stale, next, alive, left, files>>
  /\ Finished

-----------------------------------------------------------------------------
(***************************************************************************)
(* configureTeams() of the scenarios.                                      *)
(***************************************************************************)
Lines ==
  [kind |-> "lines", bases |-> [t \in Team |-> 1], dummies |-> {}, keeps |-> {},
   times |-> 1, size |-> [t \in Team |-> 1]]

Against(dummies) == [Lines EXCEPT !.dummies = dummies]
NoBases(scenario) == [scenario EXCEPT !.bases = [t \in Team |-> 0]]

\* The scenarios that have a name.  keeps: teams that take the layout of their
\* first ship as it is.
Registered ==
  [SymmetricLines |-> Lines,
   SymmetricLinesFar |-> Lines,
   SymmetricLinesFarLong |-> Lines,
   SymmetricLinesNoMoveShort |-> Against({1}),
   SymmetricLinesAttackerMove |-> Against({1}),
   SymmetricLinesAttackerMoveLong |-> Against({1}),
   SymmetricLinesAttackerMoveFar |-> Against({1}),
   SymmetricLinesHuge |-> [Lines EXCEPT !.times = 3],
   SymmetricLinesNoMove |-> NoBases([Against({1}) EXCEPT !.keeps = {0}]),
   CrossHuge |-> NoBases([Lines EXCEPT !.keeps = Team, !.times = 5]),
   AimOnOne |-> NoBases([Against({1}) EXCEPT !.kind = "aim"]),
   AimOnOneNoMove |-> NoBases([Against({1}) EXCEPT !.kind = "aim"])]

\* BROKEN VARIANTS of IsDummy: a scenario never wakes dummies, or makes none.
IsDummyStill(t) == t \in command.scenario.dummies \/ teams[t][1].dummy
IsDummyNever(t) == t \in command.scenario.keeps /\ teams[t][1].dummy

IsDummy(t) ==
  \/ t \in command.scenario.dummies
  \/ t \in command.scenario.keeps /\ teams[t][1].dummy

Equipped(ships, t) == [i \in DOMAIN ships |-> [ships[i] EXCEPT !.dummy = IsDummy(t)]]

\* Each ship and then, ship after ship, its times - 1 clones.
Multiplied(ships, brains) ==
  LET n == Len(ships)
      more == command.scenario.times - 1 IN
  [i \in 1..(n * (more + 1)) |->
     IF i <= n THEN ships[i] ELSE Clone(ships[((i - n - 1) \div more) + 1], brains + i - n)]

Configure ==
  /\ stage = "configure" /\ command.scenario.kind # "aim"
  /\ bases' = command.scenario.bases
  /\ LET n == Len(teams[0]) * (command.scenario.times - 1)
         m == Len(teams[1]) * (command.scenario.times - 1) IN
       /\ teams' = [t \in Team |-> Multiplied(Equipped(teams[t], t), next + t * n)]
       /\ next' = next + n + m
       /\ alive' = alive \cup (next + 1 .. next + n + m)
  /\ stage' = "play" /\ left' = command.games
  /\ UNCHANGED <<at, command, capacity, loop, files>>

\* Team 1 is cleared, its brains are not, and gets a copy of a ship of team 0.
Aim ==
  /\ stage = "configure" /\ command.scenario.kind = "aim"
  /\ bases' = command.scenario.bases
  /\ teams' = [t \in Team |->
       IF t = 0 THEN Equipped(teams[0], 0)
       ELSE <<[brain |-> next + 1, team |-> 1, dummy |-> TRUE]>>]
  /\ next' = next + 1
  /\ alive' = alive \cup {next + 1}
  /\ stage' = "play" /\ left' = command.games
  /\ UNCHANGED <<at, command, capacity, loop, files>>

-----------------------------------------------------------------------------
(***************************************************************************)
(* play_game(), a generation a step.  epoch() reads the first base of each *)
(* team, and that of a team without bases is a null pointer.               *)
(***************************************************************************)
\* What epoch() may make of a team, of which isDummy_ is kept: each child has the
\* layout of a ship of the team, whichever the wheel stops at.
Litters(t) == [1..Len(teams[t]) -> {teams[t][i].dummy : i \in DOMAIN teams[t]}]

\* The places of team t, from the last on, where mate() puts copies of the first
\* children of the other team, dummies excepted.
Adopted(kids, t) ==
  IF \A u \in Team : Len(teams[u]) > Elite
  THEN {Len(teams[t]) + 1 - i : i \in {k \in 1..Elite : ~kids[k]}} ELSE {}

\* The next generation of a team: children, and copies in the places taken.
Offspring(t, kids, taken, brains) ==
  [i \in 1..Len(teams[t]) |->
     [brain |-> brains + i, team |-> t, dummy |-> kids[i] /\ i \notin taken]]

\* BROKEN VARIANT of Play: the games are counted after they are played.
PlayFirst ==
  /\ stage = "play" /\ \A t \in Team : bases[t] > 0
  /\ left' = left - 1
  /\ UNCHANGED <<stage, at, command, teams, bases, capacity, loop, next, alive, files>>

Play ==
  /\ stage = "play" /\ left > 0 /\ \A t \in Team : bases[t] > 0
  /\ \E a \in Litters(0), b \in Litters(1), won \in {{}, {0}, {1}} :
       LET kids == [t \in Team |-> IF t = 0 THEN a ELSE b]
           taken == [t \in Team |-> IF 1 - t \in won THEN Adopted(kids[1 - t], t) ELSE {}]
       IN teams' = [t \in Team |->
            Offspring(t, kids[t], taken[t], next + t * Len(teams[0]))]
  /\ next' = next + Len(teams[0]) + Len(teams[1])
  /\ alive' = (alive \ (Brains(teams[0]) \cup Brains(teams[1]))) \cup (next + 1 .. next')
  /\ left' = left - 1
  /\ UNCHANGED <<stage, at, command, bases, capacity, loop, files>>

PlayFails ==
  /\ stage = "play" /\ left > 0 /\ \E t \in Team : bases[t] = 0
  /\ Off /\ UNCHANGED files

\* The last game, or a stop between two games.
EndPlay ==
  /\ stage = "play"
  /\ stage' = "open" /\ left' = 0
  /\ UNCHANGED <<at, command, teams, bases, capacity, loop, next, alive, files>>

-----------------------------------------------------------------------------
(***************************************************************************)
(* Saving: the ofstream truncates the file, write_population() fills it.   *)
(***************************************************************************)
Written(ships) ==
  [whole |-> TRUE,
   ships |-> [i \in DOMAIN ships |-> [team |-> ships[i].team, dummy |-> ships[i].dummy]]]

Open ==
  /\ stage = "open" /\ command.save[at] # NoFile
  /\ files' = [files EXCEPT ![command.save[at]] = Unreadable]
  /\ stage' = "write"
  /\ UNCHANGED <<at, command, teams, bases, capacity, loop, next, alive, left>>

Write ==
  /\ stage = "write"
  /\ files' = [files EXCEPT ![command.save[at]] = Written(teams[at])]
  /\ IF at = 0
     THEN /\ stage' = "open" /\ at' = 1
          /\ UNCHANGED <<command, teams, bases, capacity, loop, next, alive, left>>
     ELSE Off

SkipSave ==
  /\ stage = "open" /\ command.save[at] = NoFile
  /\ IF at = 0
     THEN /\ at' = 1
          /\ UNCHANGED <<stage, command, teams, bases, capacity, loop, next, alive, left>>
     ELSE Off
  /\ UNCHANGED files

\* The process may be killed at any time; the disk stays as it is.
Killed ==
  /\ stage # "off"
  /\ Off /\ UNCHANGED files

Progress ==
  \/ Make \/ Read \/ ReadFails
  \/ Cut \/ Push \/ PushFails \/ Scaled
  \/ Configure \/ Aim
  \/ Play \/ PlayFails \/ EndPlay
  \/ Open \/ Write \/ SkipSave

Next == Start \/ Progress \/ Killed

Spec == Init /\ [][Next]_vars

\* A program that runs is scheduled.  Nobody is obliged to start one.
FairSpec == Spec /\ WF_vars(Progress)

-----------------------------------------------------------------------------
TypeOK ==
  /\ stage \in Stages /\ at \in Team
  /\ command \in Commands
  /\ teams \in [Team -> Seq(Ships)]
  /\ bases \in [Team -> Nat] /\ capacity \in [Team -> Nat]
  /\ {first, pos, last, next, left} \subseteq Nat /\ stale \in BOOLEAN
  /\ alive \subseteq 1..next
  /\ files \in [Files -> Contents]

Owned == Brains(teams[0]) \cup Brains(teams[1])

\* Through reading, cutting, growing, multiplying and playing, every ship has a
\* living brain of its own, also when both teams are read from one file.
Owners ==
  /\ Owned \subseteq alive
  /\ \A t, u \in Team : \A i \in DOMAIN teams[t], j \in DOMAIN teams[u] :
       teams[t][i].brain = teams[u][j].brain => t = u /\ i = j

\* Only the scenarios that clear a team without destroying its brains lose any.
NothingLost ==
  alive \subseteq Owned \/ (command.scenario.kind = "aim" /\ stage \in {"play", "open", "write"})

\* The size a scenario is meant for: the assertions of JsonPlacer.
Expected(t) ==
  CASE command.scenario.kind = "json" -> command.scenario.size[t]
    [] command.scenario.kind = "aim" -> IF t = 0 THEN Size ELSE 1
    [] command.scenario.kind = "lines" -> Size * command.scenario.times

\* Whatever lessons the files come from (smaller and bigger teams, those of the
\* other side, dummies), every game is played by teams of the size and the
\* numbers of its scenario, and there are dummies only where the scenario wants
\* or leaves them.  The first game is played by teams of one kind: a team the
\* scenario wants helpless is all dummies.  Later ones need not be: mate() puts
\* copies of thinking ships among the dummies (game.cpp:88).
PlaysAsConfigured ==
  stage = "play" => \A t \in Team :
    /\ Len(teams[t]) = Expected(t)
    /\ \A i \in DOMAIN teams[t] :
         /\ teams[t][i].team = t
         /\ teams[t][i].dummy =>
              t \in command.scenario.dummies \cup command.scenario.keeps
    /\ left = command.games =>
         /\ \A i, j \in DOMAIN teams[t] : teams[t][i].dummy = teams[t][j].dummy
         /\ t \in command.scenario.dummies => \A i \in DOMAIN teams[t] : teams[t][i].dummy

\* Where scale_population() clones from the vector that it has moved away: a
\* team of at least two that grows by at least two, or one that grows from one
\* to more than three.
GrowsFromLive ==
  stale => Target > first + 1 /\ (first = 1 => Target > 3)

\* A run that is not killed ends, one way or other: scale_population() never
\* meets an empty team, which it would try to grow for ever.
RunsEnd == stage # "off" ~> stage = "off"

\* README.md:58 "They have to visit their own base to restock both": in every
\* game scenario each team has one.
HasOwnBase == stage = "play" => \A t \in Team : bases[t] > 0
=============================================================================
