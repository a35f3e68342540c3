------------------------------- MODULE MCFleet -------------------------------
(***************************************************************************)
(* Small instances of Fleet for TLC.                                       *)
(***************************************************************************)
EXTENDS Fleet, TLC

CONSTANTS f, g

Json(sizeA, sizeB) ==
  [Lines EXCEPT !.kind = "json", !.size = (0 :> sizeA) @@ (1 :> sizeB)]

MCScenarios ==
  {Registered.SymmetricLines, Registered.SymmetricLinesAttackerMove,
   Registered.SymmetricLinesNoMove, Registered.SymmetricLinesHuge, Registered.AimOnOne,
   Json(1, 4), Json(5, 2)}

Both(a, b) == (0 :> a) @@ (1 :> b)

\* As the scripts do: nothing, one team or both from the file of the last run,
\* and team A into a file; besides, team B into one.
MCCommands ==
  [load : {Both(NoFile, NoFile), Both(f, NoFile), Both(f, f), Both(g, f)},
   save : {Both(f, NoFile), Both(g, NoFile), Both(g, f)},
   scenario : MCScenarios, games : 0..2]

BaselessScenarios == {Registered.SymmetricLinesNoMove}
BaselessCommands ==
  [load : {Both(NoFile, NoFile)}, save : {Both(f, NoFile)},
   scenario : BaselessScenarios, games : {1}]
=============================================================================
