-------------------------- MODULE MC_TunnelManager --------------------------
(***************************************************************************)
(* A small instance of TunnelManager: two goroutines, one name that is     *)
(* freed and taken again, and a channel that fills up.                     *)
(***************************************************************************)
EXTENDS TunnelManager, TLC

CONSTANTS p1, p2, i1, i2, n1

MCProcs == {p1, p2}
MCNames == {n1}
MCIds   == {i1, i2}
=============================================================================
