----------------------------- MODULE MCSelection -----------------------------
(***************************************************************************)
(* A small instance of Selection for TLC.                                  *)
(***************************************************************************)
EXTENDS Selection

MCValues == {-1, 0, 2}

\* Pairs by performance; an elite of two and a pair; pairs whose genes are not cut.
MCLayouts ==
  {[usePerfDesc |-> TRUE, numElite |-> 0, numEliteCopies |-> 0, crossoverIterations |-> 2],
   [usePerfDesc |-> FALSE, numElite |-> 2, numEliteCopies |-> 1, crossoverIterations |-> 2],
   [usePerfDesc |-> FALSE, numElite |-> 1, numEliteCopies |-> 0, crossoverIterations |-> 0]}
=============================================================================
