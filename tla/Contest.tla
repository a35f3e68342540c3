------------------------------ MODULE Contest ------------------------------
(***************************************************************************)
(* What a battle promises, whatever happens in it: units only ever fall,   *)
(* nothing happens once it is over, and a ship's kills grow by no more     *)
(* than the enemy ships that fall in the same event, so that no victim is  *)
(* credited twice.  Battle.tla implements it.                              *)
(***************************************************************************)
EXTENDS Naturals, FiniteSets

CONSTANTS Ship, Facility, TeamOf

VARIABLES living, kills, over

contestVars == <<living, kills, over>>

Init ==
  /\ living = Ship \cup Facility
  /\ kills = [s \in Ship |-> 0]
  /\ over = FALSE

\* Units fall, and one ship is credited with some of the enemy ships among them.
Fall(fallen, killer, credited) ==
  /\ ~over
  /\ living' = living \ fallen
  /\ kills' = [kills EXCEPT ![killer] = kills[killer] + Cardinality(credited)]
  /\ over' = over

\* Units fall and nobody is credited.
Perish(fallen) ==
  /\ ~over
  /\ living' = living \ fallen
  /\ UNCHANGED <<kills, over>>

End ==
  /\ ~over
  /\ over' = TRUE
  /\ UNCHANGED <<living, kills>>

Next ==
  \/ \E fallen \in SUBSET living : Perish(fallen)
  \/ \E fallen \in SUBSET living, killer \in Ship :
       \E credited \in SUBSET {s \in fallen \cap Ship : TeamOf[s] # TeamOf[killer]} :
         Fall(fallen, killer, credited)
  \/ End

Spec == Init /\ [][Next]_contestVars
=============================================================================
