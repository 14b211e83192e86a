----------------------------- MODULE MCExitSlot -----------------------------
(* One slot with its standby and two candidates.                           *)
EXTENDS ExitSlot, TLC

CONSTANTS n1, n2, tun1, tun30
=============================================================================
