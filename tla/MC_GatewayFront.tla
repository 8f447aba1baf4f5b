-------------------------- MODULE MC_GatewayFront --------------------------
(***************************************************************************)
(* A small instance of GatewayFront: one client, limits of one, windows of *)
(* different lengths, and TTLs below, at and above the maximum.            *)
(***************************************************************************)
EXTENDS GatewayFront

CONSTANTS c1, l1, l2

MCClients     == {c1}
MCLinks       == {l1, l2}
MCConfigTTLs  == {-1, 0, 2}
MCRequestTTLs == {-1, 0, 1, 3}
=============================================================================
