--------------------------- MODULE MCGatewayUpdate --------------------------
(***************************************************************************)
(* Two runs over three builds, the second of which never gets healthy.     *)
(***************************************************************************)
EXTENDS GatewayUpdate

MCBuilds == {1, 2, 3}
MCGood == {1, 3}
============================================================================
