-------------------------- MODULE MC_TunnelCleanup --------------------------
(***************************************************************************)
(* Small instances of TunnelCleanup.  For safety: one handler, which       *)
(* serves requests and operators in turn, and two tunnels in one pass.     *)
(* For liveness: two handlers, one tunnel and every operation.             *)
(***************************************************************************)
EXTENDS TunnelCleanup, TLC

CONSTANTS cl, h1, h2, i1, i2, n1, n2

OneHandler  == {cl, h1}
TwoHandlers == {cl, h1, h2}
OneName     == {n1}
TwoNames    == {n1, n2}
OneId       == {i1}
TwoIds      == {i1, i2}

\* The handler and the cleaner differ; names and IDs are alike.
MCSymmetry == Permutations(TwoNames) \cup Permutations(TwoIds)
=============================================================================
