--------------------------- MODULE MC_RateLimiter ---------------------------
(***************************************************************************)
(* A small instance of RateLimiter.  Six ticks of the clock hold two full  *)
(* windows, a burst that straddles their border and a visitor that goes    *)
(* quiet and comes back.                                                   *)
(***************************************************************************)
EXTENDS RateLimiter, TLC

CONSTANTS c1, c2

MCClients == {c1, c2}
Symmetry  == Permutations(MCClients)
=============================================================================
