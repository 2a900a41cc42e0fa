------------------------------ MODULE MCDesktop ------------------------------
(* What two desktops share besides the picture, in four parts that do not  *)
(* interact: the cursor, the pointer, the keyboard and the clipboard.  A   *)
(* behaviour is one of them, with the others at rest.                      *)
EXTENDS Cursor, Integers, TLC

CONSTANTS
    Width, Margin, M, Mark, PointerRoom,            \* of PointerSync
    Text, NoText, Us, MaxCopy, MaxTurn, SelectionRoom,  \* of Clipboard
    Key, Lock, Queued                               \* of Keyboard

VARIABLES
    part,                                           \* which of them runs
    xpos, gpos, drives, cpos, csx, pending, asks, down, up, sx, px, at, warp,
    moves, warped, apart,
    owner, news, asked, property, set, get, passing, master, toTell, driver,
    link, turns, copies, calm,
    held, focus, typed, grab, on, action, keys, lost, types, pressed, eaten

pointer == <<xpos, gpos, drives, cpos, csx, pending, asks, down, up, sx, px, at, warp,
             moves, warped, apart>>
clipboard == <<owner, news, asked, property, set, get, passing, master, toTell, driver,
               link, turns, copies, calm>>
keyboard == <<held, focus, typed, grab, on, action, keys, lost, types, pressed, eaten>>

P == INSTANCE PointerSync WITH
    Room <- PointerRoom, master <- drives, sending <- asks, events <- moves
C == INSTANCE Clipboard WITH
    None <- NoText, Room <- SelectionRoom, events <- news, sending <- passing, wire <- link
K == INSTANCE Keyboard WITH
    events <- typed, up <- keys, master <- types

ASSUME DesktopAssumption == P!PointerAssumption /\ C!ClipboardAssumption

(* Texts are interchangeable.                                              *)
Alike == Permutations(Text)

Unmoved ==
    /\ xpos = 0 /\ at = 0 /\ gpos = -1 /\ drives = FALSE
    /\ cpos = 0 /\ csx = 0 /\ pending = FALSE /\ asks = FALSE
    /\ down = <<>> /\ up = <<>> /\ moves = <<>>
    /\ sx = 0 /\ px = 0 /\ warp = 0 /\ warped = FALSE /\ apart = TRUE

MCInit ==
    /\ part \in {"cursor", "pointer", "clipboard", "keyboard"}
    /\ Init /\ (part # "cursor" => cursor = Blank)
    /\ IF part = "pointer" THEN P!Init ELSE Unmoved
    /\ C!Init /\ K!Init

CursorNext == part = "cursor" /\ Next /\ UNCHANGED <<pointer, clipboard, keyboard>>
PointerNext == part = "pointer" /\ P!Next /\ UNCHANGED <<vars, clipboard, keyboard>>
ClipboardNext == part = "clipboard" /\ C!Next /\ UNCHANGED <<vars, pointer, keyboard>>
KeyboardNext == part = "keyboard" /\ K!Next /\ UNCHANGED <<vars, pointer, clipboard>>

MCNext == (CursorNext \/ PointerNext \/ ClipboardNext \/ KeyboardNext) /\ UNCHANGED part

MCSpec == MCInit /\ [][MCNext]_<<part, vars, pointer, clipboard, keyboard>>

(* The properties of the instances, under their names there.               *)
BlockedHasAnswer == part = "pointer" => P!BlockedHasAnswer
Meets == part = "pointer" => P!Meets
NoEcho == part = "clipboard" => C!NoEcho
LastCopyArrives == part = "clipboard" => C!LastCopyArrives
NothingStuck == part = "keyboard" => K!NothingStuck
=============================================================================
