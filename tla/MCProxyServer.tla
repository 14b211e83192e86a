---------------------------- MODULE MCProxyServer ----------------------------
(***************************************************************************)
(* Two connections, the main listener and one slot that share two places,  *)
(* one of them reserved for each, and one process started by a switch.     *)
(***************************************************************************)
EXTENDS ProxyServer

CONSTANTS c1, c2

TwoClients == {c1, c2}
OneClient == {c2}
=============================================================================
