-------------------------- MODULE MCProjectUpdate --------------------------
(***************************************************************************)
(* Two runs, releases 1 and 2 over the installed version 0; release 2      *)
(* needs the engine it ships, which may be broken.                         *)
(***************************************************************************)
EXTENDS ProjectUpdate

CONSTANTS r1, r2, r3

ThreeRuns == {r1, r2, r3}
TwoRuns == {r1, r2}
Min == [v \in Releases |-> v]
Ship == [v \in Releases |-> 2]
=============================================================================
