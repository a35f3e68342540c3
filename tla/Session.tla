------------------------------- MODULE Session -------------------------------
(***************************************************************************)
(* A session: the four threads of the program around the battles.          *)
(*   game      play_game() and Game::play(): one battle after another,     *)
(*             then the teams are saved (sdl1/neurocid.cpp);               *)
(*   main      Renderer::render() in a loop, then joins the others;        *)
(*   events    EventLoop::process(): escape, p and d;                      *)
(*   autosave  the detached thread of GameState::enableAutosave().         *)
(* They share run_, paused_ and currentGame_ of GameState, which nothing   *)
(* protects, and field_ of the renderer under updateMutex_.                *)
(*                                                                         *)
(* What happens inside a battle is Battle.tla's matter: here a tick either *)
(* ends the battle or does not.  Speed keys, drawing options and score()   *)
(* leave the modelled state alone.                                         *)
(***************************************************************************)
EXTENDS Naturals

CONSTANTS
  Keys,           \* BOUND: the keys the user may press
  Autosave,       \* TRUE when the program runs with --autosave
  GameIterations, \* --iterations
  Wrap            \* BOUND: gameIter is a size_t, 2^64 values in the code

ASSUME SessionAssumption ==
  /\ Keys \subseteq {"escape", "pause", "dump"}
  /\ Autosave \in BOOLEAN
  /\ Wrap \in Nat \ {0}
  /\ GameIterations \in 0..(Wrap - 1)

Dumper == {"events", "autosave"}

VARIABLES
  run, paused, currentGame,  \* GameState: run_, paused_, currentGame_ # NULL
  shown,       \* Renderer::field_ # NULL
  lock,        \* who holds updateMutex_
  game,        \* where the game thread is
  cont,        \* whether play() goes on; not initialised there
  fieldAlive,  \* field_ of the game exists
  mated,       \* newTeams_ has been filled
  teams,       \* the brains of teams_
  gameIter,    \* games left to play
  main,        \* where the main thread is
  dumper,      \* where each thread that can dump teams is
  seen,        \* what getCurrentGame() returned to it: a game or NULL
  saved,       \* the brains that were written at the end
  late         \* HISTORY: ticks begun since the game was last paused

stateVars == <<run, paused, currentGame, shown, lock>>
gameVars == <<game, cont, fieldAlive, mated, teams, gameIter>>
threadVars == <<main, dumper, seen>>
history == <<saved, late>>
vars == <<stateVars, gameVars, threadVars, history>>

GamePc ==
  {"next", "execute", "play", "prepare", "fight", "loop", "barrier", "measure", "tick",
   "move", "lock", "moving", "update", "test", "finish", "mate", "mating", "cleanup",
   "delete", "return", "leave", "stop", "save", "done"}

Brains == {"alive", "destroyed", "none"}

TypeOK ==
  /\ {run, paused, currentGame, shown, cont, fieldAlive, mated} \subseteq BOOLEAN
  /\ lock \in {"free", "game", "main"}
  /\ game \in GamePc
  /\ {teams, saved} \subseteq Brains
  /\ gameIter \in 0..(Wrap - 1)
  /\ main \in {"check", "render", "draw", "join", "quit"}
  /\ dumper \in [Dumper -> {"idle", "poll", "sleep", "write", "done"}]
  /\ seen \in [Dumper -> BOOLEAN]
  /\ late \in 0..2

Init ==
  /\ run = TRUE /\ paused = FALSE /\ currentGame = FALSE
  /\ shown = FALSE /\ lock = "free"
  /\ game = "next" /\ cont = FALSE /\ fieldAlive = FALSE
  /\ mated = FALSE /\ teams = "alive" /\ gameIter = GameIterations
  /\ main = "check"
  /\ dumper = [d \in Dumper |-> "idle"] /\ seen = [d \in Dumper |-> FALSE]
  /\ saved = "none" /\ late = 0

-----------------------------------------------------------------------------
(***************************************************************************)
(* The game thread.  Every TimeTracker::execute() and measure() asks       *)
(* isRunning() once more and skips its function when the program stops.    *)
(***************************************************************************)
At(here, there) == game = here /\ game' = there

\* A test of isRunning(): to this place if it runs, to that if it does not.
AtTest(here, this, that) == At(here, IF run THEN this ELSE that)

\* BROKEN VARIANT of NextGame: the counter is tested before it is decremented.
NextGamePost ==
  /\ game = "next"
  /\ gameIter' = IF run THEN gameIter - 1 ELSE gameIter
  /\ game' = IF run /\ gameIter > 0 THEN "execute" ELSE "stop"
  /\ UNCHANGED <<stateVars, cont, fieldAlive, mated, teams, threadVars, history>>

NextGame ==
  /\ game = "next"
  /\ gameIter' = IF run THEN (gameIter + Wrap - 1) % Wrap ELSE gameIter
  /\ game' = IF run /\ gameIter' > 0 THEN "execute" ELSE "stop"
  /\ UNCHANGED <<stateVars, cont, fieldAlive, mated, teams, threadVars, history>>

Execute ==
  /\ AtTest("execute", "play", "next")
  /\ currentGame' = run
  /\ UNCHANGED <<run, paused, shown, lock, cont, fieldAlive, mated, teams, gameIter,
                 threadVars, history>>

Play ==
  /\ AtTest("play", "prepare", "return")
  /\ UNCHANGED <<stateVars, cont, fieldAlive, mated, teams, gameIter, threadVars, history>>

\* start(): resets the teams' brains, places the teams, makes the field.
Start ==
  /\ At("prepare", "fight")
  /\ fieldAlive' = TRUE
  /\ UNCHANGED <<stateVars, cont, mated, teams, gameIter, threadVars, history>>

Fight ==
  /\ AtTest("fight", "loop", "finish")
  /\ cont' \in BOOLEAN
  /\ UNCHANGED <<stateVars, fieldAlive, mated, teams, gameIter, threadVars, history>>

\* The head of the do-while loop; a skipped step() leaves cont as it is.
Loop ==
  /\ AtTest("loop", "barrier", IF cont THEN "loop" ELSE "finish")
  /\ UNCHANGED <<stateVars, cont, fieldAlive, mated, teams, gameIter, threadVars, history>>

\* BROKEN VARIANTS of Barrier: nobody waits; a stop releases nobody.
BarrierOpen ==
  /\ At("barrier", "measure")
  /\ UNCHANGED <<stateVars, cont, fieldAlive, mated, teams, gameIter, threadVars, history>>

BarrierDeaf ==
  /\ At("barrier", "measure")
  /\ ~paused
  /\ UNCHANGED <<stateVars, cont, fieldAlive, mated, teams, gameIter, threadVars, history>>

Barrier ==
  /\ At("barrier", "measure")
  /\ run => ~paused
  /\ UNCHANGED <<stateVars, cont, fieldAlive, mated, teams, gameIter, threadVars, history>>

Measure ==
  /\ AtTest("measure", "tick", "finish")
  /\ late' = IF run /\ paused /\ late < 2 THEN late + 1 ELSE late
  /\ cont' = (run /\ cont)
  /\ UNCHANGED <<stateVars, fieldAlive, mated, teams, gameIter, threadVars,
                 saved>>

\* BattleField::step(): a team is dead already, or scan and think.
Tick ==
  /\ game = "tick"
  /\ \/ game' = "move" /\ cont' = cont
     \/ game' = "finish" /\ cont' = FALSE
  /\ UNCHANGED <<stateVars, fieldAlive, mated, teams, gameIter, threadVars, history>>

Move ==
  /\ AtTest("move", "lock", "update")
  /\ UNCHANGED <<stateVars, cont, fieldAlive, mated, teams, gameIter, threadVars, history>>

\* BROKEN VARIANT of Lock: the renderer is not locked out.
LockNot ==
  /\ At("lock", "moving")
  /\ lock' = "game"
  /\ UNCHANGED <<run, paused, currentGame, shown, cont, fieldAlive, mated, teams,
                 gameIter, threadVars, history>>

\* BattleField::move() keeps the renderer out while bodies move.
Lock ==
  /\ At("lock", "moving")
  /\ lock = "free" /\ lock' = "game"
  /\ UNCHANGED <<run, paused, currentGame, shown, cont, fieldAlive, mated, teams,
                 gameIter, threadVars, history>>

Moved ==
  /\ At("moving", "update")
  /\ lock' = "free"
  /\ UNCHANGED <<run, paused, currentGame, shown, cont, fieldAlive, mated, teams,
                 gameIter, threadVars, history>>

\* Renderer::update(), which locks and unlocks.
Update ==
  /\ At("update", "test")
  /\ lock = "free" /\ shown' = TRUE
  /\ UNCHANGED <<run, paused, currentGame, lock, cont, fieldAlive, mated, teams, gameIter,
                 threadVars, history>>

\* The end test of Game::step(): iterations, isRunning() or a dead team.
EndTest ==
  /\ game = "test"
  /\ \E more \in BOOLEAN :
       /\ cont' = (run /\ more)
       /\ game' = IF run /\ more THEN "loop" ELSE "finish"
  /\ UNCHANGED <<stateVars, fieldAlive, mated, teams, gameIter, threadVars, history>>

\* BROKEN VARIANT of Finish: the renderer keeps the field.
FinishShown ==
  /\ At("finish", "mate")
  /\ lock = "free"
  /\ UNCHANGED <<stateVars, cont, fieldAlive, mated, teams, gameIter, threadVars, history>>

Finish ==
  /\ At("finish", "mate")
  /\ lock = "free" /\ shown' = FALSE
  /\ UNCHANGED <<run, paused, currentGame, lock, cont, fieldAlive, mated, teams, gameIter,
                 threadVars, history>>

Mate ==
  /\ AtTest("mate", "mating", "cleanup")
  /\ UNCHANGED <<stateVars, cont, fieldAlive, mated, teams, gameIter, threadVars, history>>

Mated ==
  /\ At("mating", "cleanup")
  /\ mated' = TRUE
  /\ UNCHANGED <<stateVars, cont, fieldAlive, teams, gameIter, threadVars, history>>

\* cleanup() destroys the brains of teams_.
Cleanup ==
  /\ At("cleanup", "delete")
  /\ teams' = IF run THEN "destroyed" ELSE teams
  /\ UNCHANGED <<stateVars, cont, fieldAlive, mated, gameIter, threadVars, history>>

Delete ==
  /\ At("delete", "return")
  /\ fieldAlive' = FALSE
  /\ UNCHANGED <<stateVars, cont, mated, teams, gameIter, threadVars, history>>

\* BROKEN VARIANT of Return: the old teams go on.
ReturnOld ==
  /\ At("return", "leave")
  /\ mated' = FALSE
  /\ UNCHANGED <<stateVars, cont, fieldAlive, teams, gameIter, threadVars, history>>

\* play() returns newTeams_, or teams_ when the program stops.
Return ==
  /\ At("return", "leave")
  /\ teams' = IF ~run THEN teams ELSE IF mated THEN "alive" ELSE "none"
  /\ mated' = FALSE
  /\ UNCHANGED <<stateVars, cont, fieldAlive, gameIter, threadVars, history>>

\* setCurrentGame(NULL), and the Game object goes out of scope.
Leave ==
  /\ At("leave", "next")
  /\ currentGame' = FALSE
  /\ UNCHANGED <<run, paused, shown, lock, cont, fieldAlive, mated, teams, gameIter,
                 threadVars, history>>

Stop ==
  /\ At("stop", "save")
  /\ run' = FALSE
  /\ UNCHANGED <<paused, currentGame, shown, lock, cont, fieldAlive, mated, teams,
                 gameIter, threadVars, history>>

Save ==
  /\ At("save", "done")
  /\ saved' = teams
  /\ UNCHANGED <<stateVars, cont, fieldAlive, mated, teams, gameIter, threadVars,
                 late>>

GameThread ==
  \/ NextGame \/ Execute \/ Play \/ Start \/ Fight \/ Loop \/ Barrier \/ Measure \/ Tick
  \/ Move \/ Lock \/ Moved \/ Update \/ EndTest \/ Finish \/ Mate \/ Mated \/ Cleanup
  \/ Delete \/ Return \/ Leave \/ Stop \/ Save

-----------------------------------------------------------------------------
(***************************************************************************)
(* The main thread: frames are drawn under updateMutex_.                   *)
(***************************************************************************)
CheckMain ==
  /\ main = "check"
  /\ main' = IF run THEN "render" ELSE "join"
  /\ UNCHANGED <<stateVars, gameVars, dumper, seen, history>>

Render ==
  /\ main = "render" /\ lock = "free"
  /\ main' = "draw" /\ lock' = "main"
  /\ UNCHANGED <<run, paused, currentGame, shown, gameVars, dumper, seen, history>>

Drawn ==
  /\ main = "draw"
  /\ main' = "check" /\ lock' = "free"
  /\ UNCHANGED <<run, paused, currentGame, shown, gameVars, dumper, seen, history>>

Quit ==
  /\ main = "join" /\ dumper["events"] = "done" /\ game = "done"
  /\ main' = "quit"
  /\ UNCHANGED <<stateVars, gameVars, dumper, seen, history>>

MainThread == CheckMain \/ Render \/ Drawn \/ Quit

-----------------------------------------------------------------------------
(***************************************************************************)
(* The event loop's keys, and dumps: those of the key and those of the     *)
(* autosave thread do the same.  Only the latter lock dumpMutex, so that   *)
(* nobody ever waits for it and it is left out.                            *)
(***************************************************************************)
At2(d, here, there) == dumper[d] = here /\ dumper' = [dumper EXCEPT ![d] = there]

\* pause().
Pause ==
  /\ paused' = TRUE
  /\ late' = IF paused THEN late ELSE 0

CheckEvents ==
  /\ At2("events", "idle", IF run THEN "poll" ELSE "done")
  /\ UNCHANGED <<stateVars, gameVars, main, seen, history>>

NoKey ==
  /\ At2("events", "poll", "idle")
  /\ UNCHANGED <<stateVars, gameVars, main, seen, history>>

EscapeKey ==
  /\ "escape" \in Keys
  /\ At2("events", "poll", "idle")
  /\ run' = FALSE
  /\ UNCHANGED <<paused, currentGame, shown, lock, gameVars, main, seen, history>>

PauseKey ==
  /\ "pause" \in Keys
  /\ At2("events", "poll", "idle")
  /\ IF paused THEN paused' = FALSE /\ late' = late ELSE Pause
  /\ UNCHANGED <<run, currentGame, shown, lock, gameVars, main, seen, saved>>

DumpKey ==
  /\ "dump" \in Keys
  /\ At2("events", "poll", "sleep")
  /\ Pause
  /\ UNCHANGED <<run, currentGame, shown, lock, gameVars, main, seen, saved>>

\* The autosave interval has passed.
AutosaveWakes ==
  /\ Autosave /\ main # "quit"
  /\ At2("autosave", "idle", "sleep")
  /\ Pause
  /\ UNCHANGED <<run, currentGame, shown, lock, gameVars, main, seen, saved>>

\* A second later: getCurrentGame(), and its teams are written if there is one.
LookUp(d) ==
  /\ main # "quit"
  /\ At2(d, "sleep", "write")
  /\ seen' = [seen EXCEPT ![d] = currentGame]
  /\ UNCHANGED <<stateVars, gameVars, main, history>>

\* The files are closed and resume() is called.
Dumped(d) ==
  /\ main # "quit"
  /\ At2(d, "write", "idle")
  /\ seen' = [seen EXCEPT ![d] = FALSE]
  /\ paused' = FALSE
  /\ UNCHANGED <<run, currentGame, shown, lock, gameVars, main, history>>

EventThread ==
  \/ CheckEvents \/ NoKey \/ EscapeKey \/ PauseKey \/ DumpKey
  \/ LookUp("events") \/ Dumped("events")

AutosaveThread == AutosaveWakes \/ LookUp("autosave") \/ Dumped("autosave")

Next == GameThread \/ MainThread \/ EventThread \/ AutosaveThread

Spec == Init /\ [][Next]_vars

\* The scheduler runs every thread; nobody has to press a key.
FairSpec ==
  /\ Spec
  /\ WF_vars(GameThread) /\ WF_vars(MainThread) /\ WF_vars(EventThread)
  /\ WF_vars(LookUp("autosave") \/ Dumped("autosave"))

-----------------------------------------------------------------------------
(***************************************************************************)
(* Properties.                                                             *)
(***************************************************************************)

\* Whatever a frame may show exists: the renderer has no field once the game
\* deletes it, and none whose ships have lost their brains.
ShownIsAlive == shown => fieldAlive /\ teams = "alive"

\* While a frame is drawn no body moves, and the field it shows is neither
\* exchanged nor deleted.
FramesAreWhole ==
  [][main = "draw" => /\ game # "moving" /\ game' # "moving"
                      /\ shown' = shown /\ (shown => fieldAlive')]_vars

\* The game thread never works with destroyed or missing brains, although a
\* stopped game hands its destroyed teams back.
UsesBrains ==
  {"prepare", "fight", "loop", "barrier", "measure", "tick", "move", "lock", "moving",
   "update", "test", "finish", "mate", "mating"}

BrainsAreAlive == game \in UsesBrains => teams = "alive" /\ currentGame

\* A pause takes hold: at most the tick that has passed the barrier already
\* begins after it.
PauseTakesHold == late =< 1

\* The loop of play() runs round without a step: see EscapeQuits.
Spinning == game = "loop" /\ ~run /\ cont

\* A stop ends the program from wherever its threads are, paused, drawing,
\* mating or dumping, with the one exception of Spinning.
StopEnds == ~run ~> (main = "quit" \/ Spinning)

-----------------------------------------------------------------------------
(***************************************************************************)
(* What the documentation says and the code does not do.                   *)
(***************************************************************************)

\* Hotkeys.txt, "escape: quit lesson".
EscapeQuits == ~run ~> main = "quit"

\* The help of --saveA and --saveB: the population is saved after the run.
SavesLiveTeams == saved # "destroyed"

\* Hotkeys.txt, "d: dump teams into a timestamped file": what is dumped are the
\* teams of a game that is there.
DumpsLiveTeams ==
  \A d \in Dumper : dumper[d] = "write" /\ seen[d] => currentGame /\ teams = "alive"

=============================================================================
