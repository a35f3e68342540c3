---------------------------- MODULE MCGeneration ----------------------------
(***************************************************************************)
(* Small instances of Generation for TLC.                                  *)
(***************************************************************************)
EXTENDS Generation

Layout(perf, elite) ==
  [initialized |-> TRUE, usePerfDesc |-> perf, numElite |-> elite, numEliteCopies |-> 1]

\* The default layout with two elite ships instead of four.
DefaultLayout == Layout(TRUE, 2)

\* It, real elites, elites that are refused, and the pool of AimOnOne.
MCLayouts ==
  {DefaultLayout, Layout(FALSE, 2), Layout(FALSE, 1),
   [Layout(FALSE, 0) EXCEPT !.initialized = FALSE, !.numEliteCopies = 0]}

OnlyDefault == {DefaultLayout}

=============================================================================
