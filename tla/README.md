# Neurocid: a formal model

Neurocid breeds neural networks that steer two fleets of space ships. Every
generation is one *battle*: the ships scan, think, move and shoot tick by tick
in a Box2D world until a team is dead or the time is up; then the ships are
scored, the next generation is bred and the next battle begins. A *session* is
a sequence of battles that four threads share. Scripts chain runs of the program:
each loads the teams the last one saved.

This directory holds TLA+ modules of the battle, of what the brains are told in
it, of breeding, of the generations that follow each other, of the session, and
of the teams from one run of the program to the next, TLC
configurations that check them on small instances, and theorems that TLAPS
proves for every instance. Paths below are relative to the repository; the
program's sources are in `src/`, its SDL 1 front end in `sdl1/`.

## 1. Inventory

### Components, their state and their operations

| Component | State | Operations | Modelled in |
|---|---|---|---|
| Ship (`src/ship.*`) | `dead_`, `damage_`, `crashDamage_`, `fuel_`, thrusts, `ammo_`, `cool_down`, `stun_`, `willShoot_`, scores, `projectiles_` | `damage`, `death`, `kill`, `crash`, `impact`, `stun`, `move`, `shoot`, `resetGameState`, `resetScore` | `Units`, `Battle` |
| Facility, a team's base (`src/facility.*`) | `dead_`, `damage_`, `recharged_` | `damage`, `death`, `recharge` | `Units`, `Battle` |
| Projectile and blast (`src/projectile.hpp`, `src/blast.hpp`) | flying or exploded, its blast | `death`, `blast` | `Battle` |
| Scanner (`src/scanner_*`) | kd-trees built once a tick, each ship's scan | `prepare`, `teamScan` (which also works off the blasts), `scan` (which also recharges) | blasts and recharging in `Battle`, the rest in `Sensing` |
| Physics (`src/physics.*`) | the Box2D world, `deadBodies_` | `create`, `update`, `step`, the callbacks `BeginContact` and `PostSolve` | `Battle`; Box2D external |
| BattleField (`src/battlefield.*`) | the teams and the physics | `step` = `scan`, `think`, `move` | `Battle`, and as seen by threads `Session` |
| Game (`src/game.*`) | `teams_`, `newTeams_`, `field_`, `steps_` | `play` = `start`, `step`\*, `finish` (`score`, `mate`, `cleanup`) | `Session`; `score`, `mate`, `cleanup` in `Generation`; end test in `Battle` |
| GameState (`src/gamestate.*`) | `run_`, `paused_`, `currentGame_` | `pause`, `resume`, `stop`, `pauseBarrier`, `dumpTeams`, `enableAutosave` | `Session` |
| Frontend (`src/frontend.*`), SDL 1 program (`sdl1/neurocid.cpp`, `sdl1/eventloop.*`) | the threads | `play_game`, `render`, `quit`, the hotkeys | `Session` |
| Renderer (`src/renderer.*`) | `field_`, `updateMutex_` | `update`, `render`, `lock`, `unlock` | `Session` |
| TimeTracker (`src/time_tracker.*`) | timings | `execute`, `measure`: both skip their function once the program is stopped | `Session` |
| Population (`src/population.*`) | the ships and bases of a team | `make_population`, `read_population`, `scale_population`, `write_population`, `isDead` | `Fleet`; `isDead` in `Battle` and `Sensing` |
| Genetics (`src/genetic.*`) | pools | `calculateStatistics`, `pickSpecimen`, `findPerfDescMates`, `crossover`, `copyNBest`, `epoch` | who is picked and what is inherited in `Selection`; who owns which brain in `Generation` |
| Brain (`src/brain*`) | networks, inputs | `run`, `update`, `destroy` | alive or destroyed, in `Session`; who owns which, in `Generation` and `Fleet`; the inputs, in `Sensing` |
| Scenarios (`sdl1/*_scenario*`) | sizes, bases, dummies and clones of the teams | `configureTeams` | `Fleet` |
| Placers, Lua scripts | places, fitness | – | a choice wherever they matter |
| Canvas, GUI, video and sound encoders, CUDA k-means, SDL 2 front end, vendored libraries | – | – | not modelled (section 7) |

### How they interact

* The tick is single threaded. `BattleField::step()` calls the scanner, which
  calls `stun()`, `impact()` and `recharge()` on ships while its trees are those
  of the beginning of the tick; then the brains; then `Ship::move()` and
  `shoot()`; then the physics, from which Box2D calls back in an order of its
  own. Physics and ships share `dead_`; only `deadBodies_` removes a body.
* The *game thread* plays the battles. The *main thread* renders, the *event
  thread* handles keys, the detached *autosave thread* dumps teams. They share
  `run_`, `paused_` and `currentGame_` without protection and the renderer's
  `field_` under `updateMutex_`.

### What is hard

* Four ways for a ship to die, of which not all remove its body, and callbacks
  in any order: nothing may be destroyed, hit or credited twice.
* State that outlives its tick: `willShoot_`, pending blasts, the kd-trees.
* Unsigned counters decremented under conditions tested elsewhere.
* `run_` is tested again and again by `execute()` and `measure()`: a stop may
  fall between any two tests, and then only part of a sequence happens.
* A pause does not wait for the game to pause, and a dump reads what the game
  thread goes on to destroy.
* Ships die between the scans of two ships, between scan and thought, and after
  the trees were built that the scans are taken from. Scans have a fixed length,
  however many are left to be seen.
* `scale_population()` appends to the vector it iterates over, and destroys
  brains by index before it cuts the vector they belong to.
* The roulette wheel is as large as statistics counted earlier say, the slices
  are those of the ships themselves, and fitness may be negative.
* Files are truncated before they are written, and a run may save to the file it
  was loaded from.

### What makes each component correct

* *Ship, facility*: counters stay in range; the `CHECK`s of `shoot()` hold.
* *Battle*: bodies are destroyed once; what lives is simulated; what is dead
  takes no part; kills are credited to somebody's victims once; it ends.
* *Session*: a frame shows a field that exists and stands still; no battle is
  fought with destroyed brains; a pause takes hold; a stop ends the program.
* *Scanner, brain*: a scan shows those who live, all of them or as many as it has
  room for, one ship less where the ship that was found first takes two entries,
  and repeats its entries evenly; every input of a network means the same for all
  ships and in all ticks and is never older than the tick.
* *Genetics*: the wheel stops at a ship, the better are picked no more rarely,
  two children share out the genes of their parents. A generation has the size
  of the one before it, every brain has exactly one owner, and ships go from the
  winner to the loser.
* *Population, scenarios*: whatever team a file holds, a game is played by teams
  of the size its scenario wants, with dummies only where it wants or leaves them,
  the first game by a team that is all dummies where it wants dummies; and each ship
  has its own brain.

## 2. Plan

Done:

1. `Units`, `Battle`, `Contest`, `MCBattle`: the battle.
2. `BattleProofs`, `BattleSafetyProofs`.
3. `Session`, `SessionProofs`: the threads.
4. `Generation`, `MCGeneration`, `GenerationProofs`: breeding and the ownership
   of brains.
5. `Fleet`, `MCFleet`, `FleetProofs`: teams from one run to the next.
6. `Sensing`, `MCSensing`, `SensingProofs`: scans and inputs.
7. `Selection`, `MCSelection`, `SumProofs`, `SelectionProofs`: selection and
   crossover.
8. Proofs of what was only model-checked: `KillsJustified`, `HitsPerShot`,
   `BrainsHaveShips`, `SeesWhatLives`. Every safety property of a run that passes
   is now a theorem.

Next:

9. `Generation` as a refinement of an abstract succession of teams, and its place
   in `Session`, where `teams` and `mated` stand for it.

## 3. Modules

### Units

Ships and bases as records, their methods as functions from record to record:
`Damage`, `Death`, `Kill`, `Crash`, `Stun`, `MoveShip`, `Shoot`, `Burn`,
`Starve`, `Refill`, ... named after the methods. Positions and forces are left
out. Fuel is counted in whole units; `thrust` is the fuel the engines ask for
in a tick. Counters that only feed the fitness script are left out except
`kills_` and `defensiveHits_`. `LayoutAssumption` says what the layouts of
`src/population.cpp` and all scenarios satisfy.

### Battle

`phase` is where the tick is. One action is one iteration of the loop the code
is in, or one callback:

| Phase | Actions | Code |
|---|---|---|
| `begin` | `Begin` | `BattleField::step()`, the test for dead teams |
| `scan` | `Detonate`, `EndTeamScan` | `HybridScanner::teamScan()`: blasts stun and hurt |
| `recharge` | `Recharge`, `EndScan` | the end of `HybridScanner::scan()` |
| `move` | `LeaveField`, `MoveOn`, `MoveAndShoot` | `think()`, `BattleField::move()` for one ship |
| `move` | `Drive` | `Physics::step()` before `world_.Step()`, and what it does to every body |
| `contact` | `WallHits...`, `ProjectileHits...`, `BasesCollide`, `ShipsCrash` | the contact callbacks |
| `contact` | `EndStep` | `DestroyBody` of the queue, `++steps_`, the end test |

`world` is the set of objects with a body, `deadBodies` counts how often each is
in `deadBodies_`. Geometry is a choice: which ships are in range, which bodies
touch and in which order, who leaves the field, which projectile has travelled
its range. Box2D is assumed to report contacts only of bodies it holds.

`MoveOn` and its siblings visit ships in one fixed order: moving a ship touches
that ship alone, so any order gives the same states at `Drive`. A stop in the
middle of a tick is `Session`'s matter; `Battle` describes a running program.

### Contest

What a battle promises to those who only see who lives, who has which kills and
whether it is over: units only ever fall, nothing happens after the end, and a
ship is credited with no more kills than enemy ships fall in the same event.
`Battle` implements it under the mapping at the end of `Battle.tla`.

### Session

`game` is the position of the game thread in `play_game()`, `Game::play()`,
`start()`, `step()`, `finish()`; every test of `isRunning()` is a step of its
own (`AtTest`). `cont` is the loop variable of `Game::play()`, which no
initialiser sets: `Fight` chooses any value. `main` and `dumper` are the
positions of the other threads. `teams` tells whether the brains of the
program's teams are alive, destroyed, or the population is empty; `late` counts
the ticks begun since the last pause. What happens in a tick is left open.

`dumpMutex` is left out: only the autosave thread locks it, so nobody waits for
it. Drawing options, speed keys and sleeping leave the modelled state alone.

### Generation

From the end of a battle to the next one, as the game thread runs it: `Score`,
`Epoch` of either team, `Mate`, `Cleanup` (which also hands `newTeams_` over, as
`play()` and `play_game()` do). A brain is a number, `alive` those that are
allocated and not destroyed; `broken` is set where `CHECK(!destroyed_)` of
`BrainFann::destroy()` would fail. Nothing counts references in the code, so
nothing does in the model: a ship has the number of its brain and may be wrong.

`teams` are sets because `prepare()` shuffles and `epoch()` sorts them;
`newTeams` are sequences because `mate()` counts from both ends. Fitness is left
out: `Parents` is the set of all ways in which the new ships may be children or
copies of the old ones, and keeps that babies come in pairs, that the elite are
copied first and that a pool that is not initialised makes a child of each.
`dummy` is the part of the layout that children inherit and `mate()` asks for.
`won` and `line` are history: who won the last battle, whose children a ship is of.

A stop makes `play()` return the old teams and skip what is left; that is
`Session`'s `Return`, and no generation follows it.

### Fleet

The teams before and between battles. `stage` and `at` are where `main()` is and
the team it is at; `Onward` is the order team 0, team 1, next stage.

| Stage | Actions | Code |
|---|---|---|
| `off` | `Start` | a script starts the program with some files and scenario |
| `load` | `Make`, `Read`, `ReadFails` | `make_population()`, `read_population()` |
| `scaleLoaded`, `scaleJson` | `Cut`, `Push`, `PushFails`, `Scaled` | `scale_population()`, one `push_back` a step |
| `configure` | `Configure`, `Aim` | `configureTeams()` of the scenarios, `multiplyTeams()` |
| `play` | `Play`, `PlayFails`, `EndPlay` | `play_game()`, one game a step |
| `open`, `write` | `Open`, `Write`, `SkipSave` | the `ofstream` that truncates, `write_population()` |
| any | `Killed` | the process dies; the files stay as they are |

A ship is its brain, its team and whether its layout is a dummy. `pos` and
`last` are the range-for of `scale_population()`, `capacity` the one of the
vector, and `stale` says that the vector has moved under the loop, so that it
clones from freed memory: `Push` takes the outcome in which the memory still
holds the ships, `PushFails` the one in which the program dies. `Registered`
lists all scenarios the program knows, JSON scenarios have sizes of their own.
A game renews every brain. A child has the layout of any ship of its team
(`Litters`), and the last ships of a team that lost may be copies of the first
children of the winner that are no dummies (`Adopted`): `mate()` has no regard for
what the loser is, so that from the second game on thinking ships stand in a team
whose scenario made dummies of it (`src/game.cpp:88-96`). `Generation` and `Session`
say what happens within a game, odd teams and stops included. The while loop of `scale_population()` turns for ever in an
empty team: neither `Push` nor `Scaled` is enabled then, and `RunsEnd` would fail.

### Sensing

A tick as the brains see it. `Prepare` builds the trees and `Visit`, `SearchPart`,
`Fill`, `NextPart` and `EndVisit` make the scan of one ship: four parts, each
searched for, cut to its size and filled up by repeating what was found, an entry
a step (`index` and `last` are `i` and `s` of that loop). `Skip` passes over ships
that are dead or dummies. Their blasts, and those of the ships that were visited,
kill others (`BlastsKill`) while the trees stay. `Think` is
`BrainSwarm::update()`, which writes the inputs of what has a direction; `Act`
is the rest of the tick.

Places are open: any ship may be the nearest, and the tree may be searched in
any order after its root. The root is special: `find_nearest_if()` of kdtree++
takes it for a candidate without its distance, so that it is never returned as
the nearest of several, and alone it is taken for nobody (`Nearest`). The search
for the first n starts with it, which is why `SeesWhatLives` holds all the same.
`nearest` is a history variable.

Where nobody is found the code has undefined behaviour, and the model takes one
outcome of it. `find_nearest_if()` returns `end()` if its predicate accepts no
candidate, and both `findNearest()` (`src/scanner_bsp.cpp:91`) and
`findNearestN()` (`:116`) dereference what it returned, in a `CHECK`, before
they look at it. The predicate of `findNearestN()` accepts only the last of the
ships it is to find, so that this happens in every search for the one base of a
team, which has three entries. `end()` is the address of the header of the tree;
read as a node, what it holds is the count of the nodes behind the header. Read
as a pointer that is the address of no ship, the `CHECK` passes, and what was
entered up to there stays. That is what `Nearest` and `FirstN` do. A build that
does anything else is not covered by the properties of `Sensing`; the case is no
rare one. The `findNearest()` of projectiles (`:121-126`) is another function:
it finds dead ships too and needs only a tree that is not empty
(`ProjectileEnds`, `SomebodyToFind`).

### Selection

`GeneticPool::epoch()` of one team: `Judge` gives ships any fitness and place,
`Sort`, `Count` (one ship a step, with `highestSoFar` and `lowestSoFar`),
`CopyElite`, then for each pair `PickMum`, `PickDad`, a `Copy` or `Draw`, `Cut`\*,
`Remainder` for each network, and `Bear`. Fitness is an integer, the number drawn
from the wheel too, a performance descriptor is a place on a line, and a gene is
known by the parent it comes from. `findPerfDescMates()` searches in steps until
it has two ships, but within one and a half times the distance of the closest
there always are two, the mother and the closest, so `Mates` is one set.

### MCBattle, MCGeneration, MCFleet, MCSensing, MCSelection

The units, scenarios, commands, teams and layouts of the instances.

### Broken variants

Definitions headed `BROKEN VARIANT` are no part of the specifications. Each is
a plausible mistake in the definition it is named after; a run fails when the
variant takes its place, which shows that the property depends on it.

## 4. Runs

Deadlock is checked in `Lessons`, `OwnBase`, `Sensing` and `Selection`; battles,
sessions and successions of generations end.

| Run | Instance | What it shows |
|---|---|---|
| `Squad` | one ship against an armed one and a dummy, two hits each, a projectile each, blasts that hurt two, four ticks | `NoDoubleDestroy`, `BodiesMatch`, `KillsJustified`, `HitsPerShot`, and that `Battle` implements `Contest` |
| `Training` | an armed ship and a dummy, fuel, jumps, supplies, bases of two hits, two projectiles, three ticks, fair | `TypeOK`, `EmptyTanksKill`, `DeadAreInert`, `ShotsAreLegal`, `BattleEnds` |
| `Sensing` | five ships of which two think, three bases, scans of 2, 3, 2 and 1 entries, two ticks, fair | `TypeOK`, `SomebodyToFind`, `SeesWhatLives`, `EvenRepeats`, `InputsKeepMeaning`, `InputsAreFresh`, `BattleEnds` |
| `Selection` | two generations of three ships, fitness -1, 0 or 2, pools by performance, with an elite, without crossover | `TypeOK`, `WheelStops`, `StatsAreTrue`, `PickedFairly`, `ClosestIsMate`, `GenesAreShared` |
| `Breeding` | two generations, teams of 1, 3 and 4 ships, dummies or not, pools with the default layout (two elite ships instead of four), with an even and an odd elite, and not initialised; teams may be loaded | `TypeOK`, `DestroyedOnce`, `BrainsHaveShips`, `AdoptsFromWinner`, `FightersStay` |
| `Lessons` | any chain of runs over two files, seven scenarios, teams of three, fair | `TypeOK`, `Owners`, `NothingLost`, `PlaysAsConfigured`, `GrowsFromLive`, `RunsEnd` |
| `Threads` | two games, all keys, autosave, fair | `TypeOK`, `ShownIsAlive`, `BrainsAreAlive`, `PauseTakesHold`, `FramesAreWhole`, `StopEnds` |

Bounds. Three ticks are what a projectile needs to be fired, to explode and to
have its blast worked off; a fourth lets a second blast meet the victims of the
first. Two hits tell `damage()` from `death()`, two ships in a team tell a blast
cut off at `maxColateral_` from a whole one. Two games are needed for teams to
be handed from one to the next; `Wrap` is 4 instead of 2^64 because only the
step from 0 matters. Two generations are needed for a shared brain to be
destroyed a second time and for a `winner_` to grow stale; four ships hold an
elite, a pair and the two that are replaced, three leave half a pair over, one is
bred differently. `MaxShots` bounds the projectiles of a ship: orders to shoot
beyond it are not given. `MaxThrust` bounds the fuel of a tick.

In `Sensing` two ticks are needed for an input to be older than its tick. Of the
teams one has a ship too many and one a ship too few for the entries there are,
and any may die, so that every number from none to all is met. In `Selection`
0 is among the values because `highestSoFar` takes it for nothing, a negative one
because shares are counted from the worst, and a tie arises among three ships of
three values; two networks tell whether `crossover()` starts afresh, three genes
hold a point in the middle and one at 0, and a second generation may meet
statistics of the first. In `Lessons` a team of 3 grows to 4 and to 5, where the
vector moves under the loop, and shrinks to 1 and 2, one of 1 grows back to 3, 4
and 9 ships are cut to 3, and files are read by either team, by both, or while
they are the ones that will be written; chains have no bound, because a run
forgets all but its files. No, one or two games are played: the second is the first
that thinking ships among the dummies may take part in.

Fairness. A battle is fair when its own steps go on (`Progress`): the thread is
scheduled and `world_.Step()` returns, after finitely many callbacks. A session
is fair when each thread is scheduled. Nobody is obliged to press a key, and
mutexes need not be fair. A run of the program goes on once it is started
(`Progress` of `Fleet`, `Next` of `Sensing`: single threads); nobody is obliged
to start or to kill one.

These runs each check something the repository says of the program, and fail:

| Run | Says | What happens |
|---|---|---|
| `Escape` | `Hotkeys.txt:3`: escape quits | between two ticks, `cont` stays TRUE and `execute()` skips the step that would clear it: the game thread spins for ever and the join never returns |
| `SaveAfterStop` | `sdl1/neurocid.cpp:63`: saves the population after the run | a stop after `cleanup()` has destroyed the old brains makes `play()` return the old teams, which are saved |
| `DumpRace` | `Hotkeys.txt:10`: dumps the teams | `pause()` does not wait; the game thread finishes, destroys the teams and leaves `play_game()`'s lambda while the dump uses them |
| `Draw` | `src/game.cpp:81`: copies some from winner to loser | after a draw `winner_` is still that of an earlier battle, and its children replace the other team's |
| `OwnBase` | `README.md:58`: in every game scenario ships have to visit their own base | four scenarios make no base: `isDead()` holds before the first tick, and `epoch()` then reads `facilities_.front()` of an empty vector |

`StopEnds` is the other half of `Escape`: the spinning loop is the only place
where a stop gets stuck.

Some smaller disagreements were met while modelling and are part of the model:
nobody is ever credited with a base, because `src/physics.cpp:68` asks whether it
is dead before it is damaged (the code commented out in
`src/scanner_hybrid.cpp:223-232` did it the other way round); a projectile scores
its direct hit and then a whole blast, among whose victims may be the ship it hit,
eleven hits in all, where `lua/fitness/amir.lua:86,97` asserts ten and a script that
fails ends the program (`src/lua.cpp:406`), so that `HitsPerShot` bounds hits by what
the code scores and not by what the script asserts; searches that find nobody
dereference `end()`, which `kdtree++/kdtree.hpp:301` calls undefined behaviour
(section 3); an entry of a scan that stands for
nothing is given a direction all the same (`Calculated`);
a ship that leaves the field, dies in a blast or in a crash keeps its body
until its tank is empty (`LeaveField`, `Detonate`, `ShipsCrash` queue nothing);
a projectile that hits the wall explodes without a blast (`WallHitsProjectile`);
a ship killed at the wall takes its pending blasts with it (`WallHitsShip`); a session
asked for n games plays n - 1 (`NextGame`); a dump resumes a game that
the user had paused (`Dumped`). `README.md` says that `play.sh` multiplies the
teams by five where `SymmetricLinesHuge` does by three; a JSON scenario of more
than one ship above the size of a loaded team grows it from freed memory
(`GrowsFromLive`); `find_nearest_if()` passes over the root (`Nearest`).

## 5. Proofs

All theorems hold for every number of ships, bases, projectiles and ticks, every
layout that satisfies `LayoutAssumption` and `FieldAssumption`, every set of keys,
every number of games, all pools, sizes of teams and numbers of generations, all
sizes of scans, and every set of scenarios (that satisfy `FleetAssumption`), files
and commands.

* `SumProofs`: what a sum over a finite set of integers is: it takes one element
  after the other, in any order (`SumRemove`), follows a change of one of them
  (`SumChange`), grows with the set (`SumSubset`), and is shifted with all of them
  (`SumShift`). The library's induction over finite sets has the property
  as a parameter, which the provers cannot fill in; its well-founded order of
  subsets has none. `SmallestSubset` takes from it a smallest subset that violates
  a claim, and each lemma shows that there would be a smaller one. `LeastMember` of
  `SelectionProofs` goes the same way.
* `BattleProofs`. `Marred(s, t)` says that `t` is `s` made worse, which is all
  that blasts, hits, crashes, stuns and engines do; it is reflexive and transitive
  (`MarredOrder`), so that an event that strikes several ships several times needs
  no case of its own. `TypeCorrect`: `Spec => []TypeOK`. `TypeOK` is not inductive:
  `shoot()` decrements `ammo_` because `willShoot_` says so, and `willShoot_`
  may be older than the tick. `AimsHold` closes the gap: a living ship with
  `willShoot_` is cooling down, so `MoveShip` either clears the flag or has just
  tested the magazine. `DummiesHold`, `MoversLive` and `StepsLeft` complete it.
* `BattleSafetyProofs`, from that invariant: `DeadStayInert`, `ShootChecksHold`.
  `BodyInvariant` says that an object is queued at most once and only when it is
  dead and in the world, that the living have bodies, and that between ticks no
  exploded projectile has one; it needs the guard on `dead_` of every callback.
  `BodiesDestroyedOnce`, `LivingAreSimulated` and `NobodyFliesEmpty` follow.
  `BattleIsContest`: `Spec => ContestSpec`. Every step is `Perish`, `Fall` or `End`
  of `Contest`, or leaves the mapped state alone; the interesting case is `Impact`,
  whose credited kills are enemies that were alive before and are dead after it.
  `KillsAreJustified` adds that up over a battle: a step that credits kills changes
  one summand, by as many as the dead of the other team have grown (`KillsStep`).
  `HitsAreShots` keeps books: a projectile pays for one hit as it explodes on a ship
  and for `MaxCollateral` as its blast goes off, and neither happens to it again
  (`BlastsLast`), which needs `BodyInv` for the contacts. The bound is one hit for
  each projectile above what a fitness script asserts (section 4). `DeadStayInert` says that a dead ship stays dead, is given neither
  fuel nor ammunition, spends no projectile, and that its `stun_` is left alone.
* `SessionProofs`: `SessionInv` ties the position of the game thread to the life
  of its field, of the teams' brains and of the mutex. `BrainInv` is the part
  that had to be found: teams may be destroyed after a stop, but a game begins
  only while the program runs, and then `mated` makes `Return` replace them.
  `SessionIsTyped`, `FramesShowLiveFields`, `GamesHaveBrains`, `PausesHold` and
  `FramesStayWhole` follow.
* `GenerationProofs`: `GenInv`. Its heart is `OwnerInv`: no two ships of the old
  and the new generation share a brain, and all their brains are alive. Breeding
  keeps it because new brains have numbers nobody has; `mate()` because the places
  it overwrites are distinct (`Exchanged`); `cleanup()` because old and new brains
  differ (`OldAndNew`). `BrainsDestroyedOnce` follows, `TeamsKeepSize` with a count
  of distinct ships (`Counting`), `WinnersTeach` from what `winner_` tells after a
  battle that was won (`WinnerKnown`), `ThinkersStay` from `ThinkInv`. The proofs
  do not need `CanBreed`: where it fails, `epoch()` stops in a check.
  `NoBrainIsLeaked` needs `NoLeak`: every living brain has a ship in the old or the
  new generation, as long as no team of an odd size is filled up with pairs. An
  elite is even, so that pairs fill the rest of an even team exactly (`NoSurplus`);
  `mate()` destroys the brains of the ships it overwrites, and `cleanup()` those of
  the old ships, whose numbers no new ship has.
* `SensingProofs`: `SensInv`. `FillInv` carries `EvenRepeats` through the loop
  that fills a part up: `index` is a multiple of `found` behind the end of the scan,
  and entries at such a distance are equal, so that what is copied next is again
  `found` places behind. `ScanInv` says that whoever lives and thinks has a scan of
  this tick once its team was visited. `NetworksRunOnFreshInputs` and
  `InputsMeanTheSame` count: as a scan has as many entries of each type as the
  part has, `Slot` maps its entries one to one to the inputs (`EntryHasSlot`,
  `SlotHasEntry`). `ProjectilesFindSomebody` needs that bases do not die in a
  scan; it speaks of the trees that projectiles search and says nothing of the
  searches of ships, which meet `end()`. `ScansShowWhatLives` needs `TreeInv`, that the trees hold who lives and only
  ships of their team while the teams scan, so that the candidates of a search are
  those who live (`CandidatesLive`). `FirstNCovers` and `CutKeeps` count what the
  searches return and what is left of it after the cut: as many different ones as
  there is room for, or all, or in a part for ships one less, where the ship that
  `Nearest` entered has a second entry (`SearchCovers`). The root is the case that
  matters: `Nearest` passes over it, and `FirstN` begins with it.
* `FleetProofs`: `FleetInv`. `LoopInv` keeps the range-for of `scale_population()`
  within the team and says that a team in the middle of growing is longer than it
  was, so that it cannot be cut; `ColdInv` says that teams which were not made have
  no ships. Each step leaves a ship its brain, in its place, or gives it a number
  nobody had (`OwnersKept`); clones get theirs one after the other, team by team
  (`Longer`, `TeamsGrown`), and the ships that are kept have other brains than those
  whose brains `Cut` destroys. `ShipsOwnTheirBrains` and `BrainsAreNotLost` follow.
  `PlanInv` adds what a team is on its way to: `SizeInv` says which teams have been
  scaled at each stage, `Homes` that ships are in the team they name, and
  `GrowthInv` that a growing team stays below its size while its loop goes on, has
  two ships at least and has grown before its vector can be stale. From it follow
  `TeamsAreAsConfigured` and `StaleGrowthIsLong`. That a team is of one kind
  (`OneKind`) is what a scenario makes of it and holds in the first game; for later
  ones only that a team without dummies gets none (`PlayedTeams`).
* `SelectionProofs`. `TypeInv` gives `GenerationsFit`: no generation is bred beyond
  its size, because what the elite leaves is filled by one or two. `CountInv` follows
  `calculateStatistics()` ship by ship; since the team is sorted, the best is
  counted first and 0 as a mark for no ship yet does no harm (`StatisticsHold`). The
  wheel is as large as the shares of all ships together (`SumShift`), so that some
  ship reaches every slice (`SomebodyIsPicked`), and the slices of a ship are an
  interval as long as its share (`SlotsAre`), except that the first ship, which has
  none, gets slice 0 (`WheelIsFair`). `ClosestMates` has a closest ship because
  teams are finite (`LeastMember`). `CrossInv` says how far a network is
  crossed: which points are passed, that `cross` is their parity, and that all genes
  so far are shared out; `GenesAreSharedOut` follows.

Only model-checked: the liveness properties `BattleEnds`, `StopEnds` and `RunsEnd`,
which are out of the prover's reach.

## 6. Assumptions

* Box2D reports contacts only of bodies it holds and calls nothing else back.
* Pools and sizes satisfy `CanBreed`: with performance descriptors a team of two
  ends in `CHECK(old_pop.size() > 2)`, and more copies of the elite than ships in
  `CHECK(new_pop.size() == old_pop.size())`. The pools the program makes satisfy
  the second; a scenario with two ships in a team would not satisfy the first.
* Layouts satisfy `LayoutAssumption`; the JSON reader does not check them.
* Scans have room for a friend, an enemy and a base of each side, as the layout of
  `src/scenario.hpp` has (`ScannerAssumption`).
* JSON scenarios do not multiply their teams and the aiming ones have a dummy in
  team 1 (`FleetAssumption`), as all do.
* Sums of fitness do not round. In the code they are doubles, and a slice within a
  rounding error of the whole wheel would end in the `CHECK(false)` of
  `pickSpecimen()` that `WheelStops` excludes.
* A vector doubles its capacity when it is full, as libstdc++'s does.
* Two ships never have the same place (`Ship::operator!=` compares places).
* Reads and writes of `run_`, `paused_` and `currentGame_` are single steps; in
  the code they are plain variables, written and read by several threads.

## 7. Not modelled

* Floating point: places, forces, networks, fitness. Where they decide something
  the model leaves the decision open.
* Cluster centres in scans, which no scenario enables, and the scans of
  projectiles, which only feed the fitness scripts. The branch that fills up bases
  is modelled but what it repeats is padding: there always is a base while
  `teamScan()` runs.
* The Lua host: places and fitness are any. `src/lua.cpp:413` reads the performance
  descriptor from globals of the script, which keep the values of another ship if
  the script does not set them.
* What a layout holds beyond `isDummy_`. Files keep the layouts they were saved
  with, and scenarios do not reset every field (`maxDamage_` and the radius of ships
  that were saved as defenders, `maxAmmo_` of `SymmetricLinesHuge`).
* What `mutate()` adds to a weight, and the statistics nobody acts on
  (`stats_.reset()` zeroes `battleFieldIterations_` before it is divided by).
* Canvas, GUI, encoders, option parsing, statistics: no state anyone acts on.
* `iter_game()` and the SDL 2 program: other front ends of the same games.
* `quit()` after the joins: destruction of the singletons, which races only with
  the detached autosave thread.
* CUDA k-means and the vendored libraries: third-party code.
