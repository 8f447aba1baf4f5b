------------------------- MODULE MC_WebSocketProxy -------------------------
(***************************************************************************)
(* A small instance of WebSocketProxy: three messages in each direction    *)
(* through buffers of one, so that a Write has to wait with another        *)
(* message behind it.                                                      *)
(***************************************************************************)
EXTENDS WebSocketProxy

MCMaxMessages == 3
MCCapacity    == 1
=============================================================================
