------------------------------- MODULE MCTile -------------------------------
(* Tile for TLC: a picture with too many colours for any bit, one that     *)
(* keeps four, and one that keeps all eight.                               *)
EXTENDS Tile, TLC

CONSTANTS busy, plain, flat

MCFits == (busy :> 0) @@ (plain :> 4) @@ (flat :> 8)
=============================================================================
