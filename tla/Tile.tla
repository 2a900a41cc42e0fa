-------------------------------- MODULE Tile --------------------------------
(***************************************************************************)
(* How sharp a tile of the screen is sent: tile_write and                  *)
(* tycho_set_quality of src/src/tycho-server.c, for one tile.  Its colours *)
(* are first cut down to a few bits, quality.min if that leaves no more    *)
(* than COLOR_MAX colours; while the screen does not change, one bit more  *)
(* is kept now and then, up to quality.max.                                *)
(*                                                                         *)
(* What matters of a picture is Fits: the most bits that leave few enough  *)
(* colours.  More bits never give fewer colours, no bits give one.         *)
(* Two pictures have different hashes here.                                *)
(***************************************************************************)
EXTENDS Integers, FiniteSetsExt

CONSTANTS
    Contents,  \* pictures the tile may show
    None,      \* the hash 0 of a new tile, which no picture has
    Fits,      \* the most bits a picture can keep
    ColorBits, \* 8, the bits of a colour
    StepSize   \* 256, how many values depth_step has

ASSUME TileAssumption ==
    /\ None \notin Contents
    /\ ColorBits \in Nat \ {0}
    /\ Fits \in [Contents -> 0 .. ColorBits]
    /\ StepSize \in Nat /\ StepSize > ColorBits + 2

DepthBound == ColorBits + 1  \* bound: a tile is not refined further

VARIABLES
    screen,    \* what the tile's part of the screen shows
    hash, depth, step, stop,  \* the tile
    quality,   \* global.quality
    fresh      \* the tile was built under this very quality

tile == <<hash, depth, step, stop>>
tileVars == <<screen, tile, quality, fresh>>

\* What tycho_set_quality makes of its arguments.
Cut(min, max) == LET top == Min({max, ColorBits}) IN [min |-> Min({min, top}), max |-> top]
Asked == 0 .. ColorBits + 1
Quality == {Cut(min, max) : min, max \in Asked}

TileTypeOK ==
    /\ screen \in Contents /\ hash \in Contents \cup {None}
    /\ depth \in 0 .. DepthBound /\ step \in 0 .. StepSize - 1
    /\ stop \in BOOLEAN /\ fresh \in BOOLEAN
    /\ quality \in [min : 0 .. ColorBits, max : 0 .. ColorBits] /\ quality.min <= quality.max

NewTile == hash = None /\ depth = 0 /\ step = 0 /\ stop = FALSE

TileInit ==
    /\ screen \in Contents
    /\ NewTile
    /\ quality \in Quality
    /\ fresh = FALSE

----------------------------------------------------------------------------
(***************************************************************************)
(* build_cmap: can d bits be kept?  The mask is 0xFF >> (8 - depth), which *)
(* has no meaning past 8: the shift may give any mask.                     *)
(***************************************************************************)
Kept(d) == IF d <= ColorBits THEN {d <= Fits[screen]} ELSE BOOLEAN

\* Mutant: the difference is one less, and wraps at the lower bound.
BadEarly == depth <= quality.min \/ step < depth - quality.min - 1
\* depth_step < depth - quality.min + 1, an unsigned difference that wraps
\* when the lower bound is two above the depth or more.
Early == depth + 1 < quality.min \/ step < depth + 1 - quality.min

Done(d) == d = quality.max

\* tile_write, the screen having changed: from quality.min down.
Build ==
    /\ hash # screen
    /\ hash' = screen
    /\ depth' = Min({quality.min, Fits[screen]})
    /\ stop' = (depth' < quality.min \/ Done(depth'))
    /\ step' = 0
    /\ fresh' = TRUE
    /\ UNCHANGED <<screen, quality>>

\* tile_write, nothing having changed, and it is not time for more bits.
Wait ==
    /\ hash = screen /\ ~stop /\ Early
    /\ step' = (step + 1) % StepSize
    /\ UNCHANGED <<screen, hash, depth, stop, quality, fresh>>

\* tile_write, nothing having changed: one bit more, if it can be kept.
Refine ==
    /\ hash = screen /\ ~stop /\ ~Early /\ depth < DepthBound
    /\ \E kept \in Kept(depth + 1) :
        IF kept
        THEN depth' = depth + 1 /\ step' = 0 /\ stop' = Done(depth + 1)
        ELSE stop' = TRUE /\ UNCHANGED <<depth, step>>
    /\ UNCHANGED <<screen, hash, quality, fresh>>

\* tycho_set_image comes to this tile; one whose refinement has stopped and
\* that still shows the screen is left alone.
Grab == Build \/ Wait \/ Refine

\* The desktop changes.
Draw(c) ==
    /\ c # screen
    /\ screen' = c
    /\ UNCHANGED <<tile, quality, fresh>>

\* tycho_tiles_resize: a tile the screen grows to is a new one.
Resize ==
    /\ hash' = None /\ depth' = 0 /\ step' = 0 /\ stop' = FALSE
    /\ fresh' = FALSE
    /\ UNCHANGED <<screen, quality>>

\* tycho_set_quality, whose arguments come from the master as bytes.
SetQuality(min, max) ==
    /\ quality' = Cut(min, max)
    /\ fresh' = (fresh /\ quality' = quality)
    /\ UNCHANGED <<screen, tile>>

TileNext ==
    \/ Grab
    \/ \E c \in Contents : Draw(c)
    \/ Resize
    \/ \E min, max \in Asked : SetQuality(min, max)

TileSpec == TileInit /\ [][TileNext]_tileVars

----------------------------------------------------------------------------
Best(c) == Min({Fits[c], quality.max})

(***************************************************************************)
(* A tile built under the present quality never has more bits than it      *)
(* allows, although refinement only compares them for equality.            *)
(***************************************************************************)
WithinQuality == fresh => depth <= quality.max

(***************************************************************************)
(* Refinement stops for good only where it should: at the best depth the   *)
(* picture and the quality allow.  This holds whether the picture stopped  *)
(* it on the way up or on the way down from quality.min.                   *)
(***************************************************************************)
StopsAtBest == fresh /\ stop => depth = Best(hash)

(***************************************************************************)
(* Unless the picture keeps changing, it becomes as sharp as it can be, if *)
(* the quality is not changed under way; and so again after every change.  *)
(***************************************************************************)
Sharp == hash = screen /\ depth = Best(screen)
BecomesSharp == []<>(Sharp \/ ~fresh) \/ []<><<\E c \in Contents : Draw(c)>>_tileVars

(***************************************************************************)
(* tycho_set_quality cuts its bounds to the 8 bits a colour has, and the   *)
(* mask of build_cmap is made for these.  The code goes past them.         *)
(***************************************************************************)
MaskDefined == depth <= ColorBits

=============================================================================
