---------------------------- MODULE MC_Shortener ----------------------------
(***************************************************************************)
(* A small instance of Shortener: two links, two savers alive at once, and *)
(* enough clicks for a count to change while a save reads it.              *)
(***************************************************************************)
EXTENDS Shortener, TLC

CONSTANTS i1, i2, g1, g2

MCIds    == {i1, i2}
MCSavers == {g1, g2}
=============================================================================
