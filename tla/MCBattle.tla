------------------------------ MODULE MCBattle ------------------------------
(***************************************************************************)
(* Small instances of Battle for TLC.                                      *)
(***************************************************************************)
EXTENDS Battle

CONSTANTS a1, b1, b2, fA, fB

\* One side of each unit, and who is whose.
MCTeamOf == [o \in Ship \cup Facility |-> IF o \in {a1, fA} THEN 0 ELSE 1]

=============================================================================
