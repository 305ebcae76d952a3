--------------------------- MODULE MCTileReduction ---------------------------
(***************************************************************************)
(* TileReduction with two tiles of four work-items.                        *)
(***************************************************************************)
EXTENDS TileReduction

MCGarbage == -1
==============================================================================
