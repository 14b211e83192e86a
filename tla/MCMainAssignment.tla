------------------------- MODULE MCMainAssignment -------------------------
(***************************************************************************)
(* Small instances of MainAssignment for TLC: two assignments and three    *)
(* nodes, so that an operation's old and new node and the standby may all  *)
(* differ.                                                                 *)
(***************************************************************************)
EXTENDS MainAssignment

CONSTANTS a1, a2, n1, n2, n3

TwoOps == {a1, a2}
OneOp == {a1}
ThreeNodes == {n1, n2, n3}
TwoNodes == {n1, n2}
=============================================================================
