-------------------------- MODULE MCProtocolSwitch -------------------------
(* ProtocolSwitch with two modes of different client flow.                 *)
EXTENDS ProtocolSwitch, TLC

CONSTANTS o1, o2, tcp, xhttp

\* order of the operation ids among the spool files
MCRank == o1 :> 1 @@ o2 :> 2
MCRankOne == o1 :> 1
MCModes == {tcp, xhttp}
MCVision == {tcp}
=============================================================================
