------------------------------ MODULE MCSensing ------------------------------
(***************************************************************************)
(* A small instance of Sensing for TLC: one team with a ship that thinks   *)
(* and two dummies, one with a ship that thinks and a dummy, as growing    *)
(* teams of dummies have them.                                             *)
(***************************************************************************)
EXTENDS Sensing

MCTeamOf == [o \in 1..8 |-> IF o \in {4, 5, 8} THEN 1 ELSE 0]
=============================================================================
