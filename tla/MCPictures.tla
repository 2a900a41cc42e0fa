------------------------------ MODULE MCPictures ------------------------------
(* The way of a picture, in three parts that do not interact: the sizes of *)
(* the screen, of the pictures and of the window; how sharp a tile is; and *)
(* the coder.  A behaviour is one of them, with the others at rest.        *)
EXTENDS Coder, Tile, TLC

CONSTANTS
    busy, plain, flat,
    Modes, Low, High, Wished, MaxOther, MaxWindow  \* of Screen

VARIABLES
    part,                                          \* which of them runs
    extent, known, drawn, wanted, last, shot, bit, count, up, down,
    window, events, size, canvas, reading, shown, others, windows, calm

sizes == <<extent, known, drawn, wanted, last, shot, bit, count, up, down,
           window, events, size, canvas, reading, shown, others, windows, calm>>

S == INSTANCE Screen WITH screen <- extent, image <- canvas

ASSUME PicturesAssumption == S!ScreenAssumption

MCFits == (busy :> 0) @@ (plain :> 4) @@ (flat :> 8)
MCModes == << <<2, 2>>, <<1, 1>> >>
MCWished == {<<3, 2>>}
MCLow == <<1, 1>>
MCHigh == <<2, 3>>

(* Where nothing is to be done.                                            *)
SharpTile ==
    /\ screen = flat /\ hash = flat /\ depth = 8 /\ step = 0 /\ stop = TRUE
    /\ quality = Cut(8, 8) /\ fresh = FALSE

NoPicture ==
    /\ extent = <<1, 1>> /\ known = extent /\ shot = extent
    /\ wanted = S!NoSize /\ last = S!NoSize
    /\ drawn = FALSE /\ bit = FALSE /\ count = 0
    /\ up = <<>> /\ down = <<>> /\ events = <<>>
    /\ window = S!NoSize /\ size = S!NoSize /\ canvas = S!NoSize
    /\ reading = FALSE /\ shown = S!NoSize
    /\ others = 0 /\ windows = 0 /\ calm = FALSE

MCInit ==
    /\ part \in {"coder", "tile", "screen"}
    /\ Init
    /\ IF part = "tile" THEN TileInit ELSE SharpTile
    /\ IF part = "screen" THEN S!Init ELSE NoPicture

CoderNext == part = "coder" /\ Next /\ UNCHANGED <<tileVars, sizes>>
SharpNext == part = "tile" /\ TileNext /\ UNCHANGED <<vars, sizes>>
ScreenNext == part = "screen" /\ S!Next /\ UNCHANGED <<vars, tileVars>>

MCNext == (CoderNext \/ SharpNext \/ ScreenNext) /\ UNCHANGED part

(* Both sides go on as they have room or bytes, and while there is a       *)
(* client the main loop grabs the screen for ever; nothing of parts at rest.*)
MCFairness ==
    /\ WF_vars(part = "coder" /\ Encode) /\ WF_vars(part = "coder" /\ Decode)
    /\ WF_tileVars(part = "tile" /\ Grab)
    /\ WF_sizes(part = "screen" /\ S!XrandrEvent) /\ WF_sizes(part = "screen" /\ S!Grab)
    /\ WF_sizes(part = "screen" /\ S!SendImage) /\ WF_sizes(part = "screen" /\ S!Receive)
    /\ WF_sizes(part = "screen" /\ S!ConfigureNotify) /\ WF_sizes(part = "screen" /\ S!Reads)

MCSpec == MCInit /\ [][MCNext]_<<part, vars, tileVars, sizes>> /\ MCFairness

(* The properties of the instance, under their names there.                *)
ShowsScreen == S!ShowsScreen
Granted == S!Granted
=============================================================================
