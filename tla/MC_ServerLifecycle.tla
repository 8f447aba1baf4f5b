------------------------- MODULE MC_ServerLifecycle -------------------------
(***************************************************************************)
(* ServerLifecycle with two requests in flight at most in each server, for *)
(* every choice of the servers that are enabled.                           *)
(***************************************************************************)
EXTENDS ServerLifecycle

MCMaxConns == 2
=============================================================================
