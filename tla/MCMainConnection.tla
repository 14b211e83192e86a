-------------------------- MODULE MCMainConnection --------------------------
(* The main connection with its standby and two candidates.                *)
EXTENDS MainConnection, TLC

CONSTANTS n1, n2, tun0, tun30
=============================================================================
