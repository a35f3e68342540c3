--------------------------- MODULE SessionProofs ---------------------------
(***************************************************************************)
(* Theorems about Session, for every choice of keys, with and without      *)
(* autosave, and for every number of games.                                *)
(***************************************************************************)
EXTENDS Session, TLAPS

\* From start() to delete field_ there is a field.
HasField ==
  (UsesBrains \ {"prepare"}) \cup {"cleanup", "delete"}

\* Where the renderer may have the field.
MayShow == HasField \ {"fight", "mate", "mating", "cleanup", "delete"}

FieldInv ==
  /\ fieldAlive <=> game \in HasField
  /\ shown => game \in MayShow

\* Teams lose their brains in cleanup() and get new ones in play(); both only
\* while the program runs, and a program that has stopped starts no game.
BrainInv ==
  /\ game \in UsesBrains => teams = "alive" /\ currentGame
  /\ run /\ game \in {"next", "execute", "play"} => teams = "alive"
  /\ run /\ game \in {"cleanup", "delete", "return"} => mated
  /\ run /\ game = "leave" => teams = "alive"
  /\ game \in {"play", "cleanup", "delete", "return", "leave"} => currentGame
  /\ game = "cleanup" => teams = "alive"

LockInv ==
  /\ lock = "game" <=> game = "moving"
  /\ lock = "main" <=> main = "draw"

\* The tick that follows a pause was let through before it.
PauseInv ==
  /\ late =< 1
  /\ run /\ paused /\ game = "measure" => late = 0

SessionInv == TypeOK /\ FieldInv /\ BrainInv /\ LockInv /\ PauseInv

LEMMA SessionInit ==
  Init => SessionInv
<1> SUFFICES ASSUME Init PROVE SessionInv
  OBVIOUS
<1>1. TypeOK
  <2>1. {run, paused, currentGame, shown, cont, fieldAlive, mated} \subseteq BOOLEAN
    BY DEF Init
  <2>2. /\ dumper \in [Dumper -> {"idle", "poll", "sleep", "write", "done"}]
        /\ seen \in [Dumper -> BOOLEAN]
    BY DEF Init
  <2>3. gameIter \in 0..(Wrap - 1) /\ late \in 0..2
    BY SessionAssumption DEF Init
  <2> QED BY <2>1, <2>2, <2>3 DEF Init, TypeOK, GamePc, Brains
<1>2. FieldInv /\ LockInv /\ PauseInv
  BY DEF Init, FieldInv, LockInv, PauseInv, HasField, MayShow, UsesBrains
<1>3. BrainInv
  BY DEF Init, BrainInv, UsesBrains
<1> QED BY <1>1, <1>2, <1>3 DEF SessionInv

LEMMA GameStep ==
  ASSUME SessionInv, GameThread
  PROVE  SessionInv'
<1> USE SessionAssumption
    DEF SessionInv, TypeOK, FieldInv, BrainInv, LockInv, PauseInv, HasField, MayShow,
        UsesBrains, GamePc, Brains, stateVars, threadVars, history, At, AtTest
<1>1. CASE NextGame
  <2>1. (gameIter + Wrap - 1) % Wrap \in 0..(Wrap - 1)
    OBVIOUS
  <2> QED BY <1>1, <2>1 DEF NextGame
<1>2. CASE Execute
  BY <1>2 DEF Execute
<1>3. CASE Play
  BY <1>3 DEF Play
<1>4. CASE Start
  BY <1>4 DEF Start
<1>5. CASE Fight
  BY <1>5 DEF Fight
<1>6. CASE Loop
  BY <1>6 DEF Loop
<1>7. CASE Barrier
  BY <1>7 DEF Barrier
<1>8. CASE Measure
  BY <1>8 DEF Measure
<1>9. CASE Tick
  BY <1>9 DEF Tick
<1>10. CASE Move
  BY <1>10 DEF Move
<1>11. CASE Lock
  BY <1>11 DEF Lock
<1>12. CASE Moved
  BY <1>12 DEF Moved
<1>13. CASE Update
  BY <1>13 DEF Update
<1>14. CASE EndTest
  BY <1>14 DEF EndTest
<1>15. CASE Finish
  BY <1>15 DEF Finish
<1>16. CASE Mate
  BY <1>16 DEF Mate
<1>17. CASE Mated
  BY <1>17 DEF Mated
<1>18. CASE Cleanup
  BY <1>18 DEF Cleanup
<1>19. CASE Delete
  BY <1>19 DEF Delete
<1>20. CASE Return
  BY <1>20 DEF Return
<1>21. CASE Leave
  <2> USE <1>21 DEF Leave
  <2>1. TypeOK'
    OBVIOUS
  <2>2. FieldInv' /\ LockInv'
    OBVIOUS
  <2>3. BrainInv' /\ PauseInv'
    OBVIOUS
  <2> QED BY <2>1, <2>2, <2>3
<1>22. CASE Stop
  BY <1>22 DEF Stop
<1>23. CASE Save
  BY <1>23 DEF Save
<1> QED BY <1>1, <1>2, <1>3, <1>4, <1>5, <1>6, <1>7, <1>8, <1>9, <1>10, <1>11, <1>12,
           <1>13, <1>14, <1>15, <1>16, <1>17, <1>18, <1>19, <1>20, <1>21, <1>22, <1>23
        DEF GameThread

LEMMA MainStep ==
  ASSUME SessionInv, MainThread
  PROVE  SessionInv'
<1> USE DEF SessionInv, TypeOK, FieldInv, BrainInv, LockInv, PauseInv, stateVars, gameVars,
            history
<1>1. CASE CheckMain
  BY <1>1 DEF CheckMain
<1>2. CASE Render
  BY <1>2 DEF Render
<1>3. CASE Drawn
  BY <1>3 DEF Drawn
<1>4. CASE Quit
  BY <1>4 DEF Quit
<1> QED BY <1>1, <1>2, <1>3, <1>4 DEF MainThread

LEMMA KeyStep ==
  ASSUME SessionInv, EventThread \/ AutosaveThread
  PROVE  SessionInv'
<1> USE DEF SessionInv, TypeOK, FieldInv, BrainInv, LockInv, PauseInv, stateVars, gameVars,
            history, At2, Pause, Dumper
<1>1. CASE CheckEvents
  BY <1>1 DEF CheckEvents
<1>2. CASE NoKey
  BY <1>2 DEF NoKey
<1>3. CASE EscapeKey
  BY <1>3 DEF EscapeKey
<1>4. CASE PauseKey
  <2>1. /\ game' = game /\ run' = run /\ currentGame' = currentGame /\ shown' = shown
        /\ lock' = lock /\ main' = main /\ seen' = seen /\ teams' = teams
        /\ UNCHANGED <<cont, fieldAlive, mated, gameIter, saved>>
    BY <1>4 DEF PauseKey
  <2>2. dumper' \in [Dumper -> {"idle", "poll", "sleep", "write", "done"}]
    BY <1>4 DEF PauseKey
  <2>3. paused' \in BOOLEAN
    BY <1>4 DEF PauseKey
  <2>4. late' \in 0..2 /\ PauseInv'
    BY <1>4 DEF PauseKey
  <2> QED BY <2>1, <2>2, <2>3, <2>4
<1>5. CASE DumpKey
  BY <1>5 DEF DumpKey
<1>6. CASE AutosaveWakes
  BY <1>6 DEF AutosaveWakes
<1>7. ASSUME NEW d \in Dumper, LookUp(d)
      PROVE  SessionInv'
  BY <1>7 DEF LookUp
<1>8. ASSUME NEW d \in Dumper, Dumped(d)
      PROVE  SessionInv'
  BY <1>8 DEF Dumped
<1> QED BY <1>1, <1>2, <1>3, <1>4, <1>5, <1>6, <1>7, <1>8 DEF EventThread, AutosaveThread

LEMMA SessionNext ==
  SessionInv /\ [Next]_vars => SessionInv'
<1> SUFFICES ASSUME SessionInv, [Next]_vars PROVE SessionInv'
  OBVIOUS
<1>1. CASE UNCHANGED vars
  BY <1>1 DEF vars, stateVars, gameVars, threadVars, history, SessionInv, TypeOK, FieldInv,
              BrainInv, LockInv, PauseInv
<1> QED BY <1>1, GameStep, MainStep, KeyStep DEF Next

\* Where the game thread is tells which fields, brains and locks there are,
\* whatever the other threads and the user do.
THEOREM SessionInvariant == Spec => []SessionInv
BY SessionInit, SessionNext, PTL DEF Spec

\* The counter of games, an unsigned number that wraps below zero, stays one, and
\* no thread is ever anywhere but at a place of its program.
THEOREM SessionIsTyped == Spec => []TypeOK
<1>1. SessionInv => TypeOK
  BY DEF SessionInv
<1> QED BY <1>1, SessionInvariant, PTL

\* Whatever the threads do, the field a frame shows exists and its ships have
\* their brains.
THEOREM FramesShowLiveFields == Spec => []ShownIsAlive
<1>1. SessionInv => ShownIsAlive
  BY DEF SessionInv, FieldInv, BrainInv, ShownIsAlive, MayShow, HasField, UsesBrains
<1> QED BY <1>1, SessionInvariant, PTL

\* No game is played with the brains of a team that was cleaned up, although a
\* stop may hand such teams back.
THEOREM GamesHaveBrains == Spec => []BrainsAreAlive
<1>1. SessionInv => BrainsAreAlive
  BY DEF SessionInv, BrainInv, BrainsAreAlive
<1> QED BY <1>1, SessionInvariant, PTL

\* However often the game is paused and resumed, one tick at most begins
\* between a pause and the next resume.
THEOREM PausesHold == Spec => []PauseTakesHold
<1>1. SessionInv => PauseTakesHold
  BY DEF SessionInv, PauseInv, PauseTakesHold
<1> QED BY <1>1, SessionInvariant, PTL

\* The game thread waits for updateMutex_ before it moves a body or exchanges
\* the renderer's field, and deletes only a field that is not shown.
LEMMA FrameStep ==
  ASSUME SessionInv, SessionInv', Next, main = "draw"
  PROVE  /\ game # "moving" /\ game' # "moving"
         /\ shown' = shown /\ (shown => fieldAlive')
<1>1. lock = "main" /\ game # "moving" /\ (shown => fieldAlive)
  BY DEF SessionInv, LockInv, FieldInv, MayShow
<1>2. CASE GameThread
  <2>1. shown' = shown /\ lock' = "main"
    BY <1>1, <1>2
       DEF GameThread, NextGame, Execute, Play, Start, Fight, Loop, Barrier, Measure, Tick,
           Move, Lock, Moved, Update, EndTest, Finish, Mate, Mated, Cleanup, Delete, Return,
           Leave, Stop, Save, At, AtTest, stateVars
  <2> QED BY <1>1, <2>1 DEF SessionInv, LockInv, FieldInv, MayShow
<1>3. CASE MainThread
  BY <1>1, <1>3 DEF MainThread, CheckMain, Render, Drawn, Quit, stateVars, gameVars
<1>4. CASE EventThread \/ AutosaveThread
  <2>1. shown' = shown /\ game' = game /\ fieldAlive' = fieldAlive
    BY <1>4 DEF EventThread, AutosaveThread, CheckEvents, NoKey, EscapeKey, PauseKey, DumpKey,
                AutosaveWakes, LookUp, Dumped, stateVars, gameVars
  <2> QED BY <1>1, <2>1
<1> QED BY <1>2, <1>3, <1>4 DEF Next

\* No frame is torn: while one is drawn nothing moves and its field stays.
THEOREM FramesStayWhole == Spec => FramesAreWhole
<1> DEFINE Whole ==
      main = "draw" => /\ game # "moving" /\ game' # "moving"
                       /\ shown' = shown /\ (shown => fieldAlive')
<1>1. SessionInv /\ SessionInv' /\ [Next]_vars => [Whole]_vars
  BY FrameStep
<1>2. FramesAreWhole <=> [][Whole]_vars
  BY DEF FramesAreWhole
<1> HIDE DEF Whole
<1> QED BY <1>1, <1>2, SessionInvariant, PTL DEF Spec
=============================================================================
