-------------------------------- MODULE Screen --------------------------------
(* The size of the server's screen, of the pictures taken of it and of the *)
(* client's window (xrandr.c, server.c, client.c): the client asks for the *)
(* size of its window, the server takes the largest mode that fits, and    *)
(* pictures of an old and of a new size are under way at a time.  Other    *)
(* programs change the screen too, and vbridge learns of any change from   *)
(* an event.  Sizes are pairs <<w, h>>.                                    *)
EXTENDS Integers, SequencesExt

CONSTANTS
    Modes,      \* the modes of the connected outputs, in order
    Low, High,  \* the range the X server allows
    Wished,     \* sizes a window is given
    MaxOther,   \* bound on the changes by other programs
    MaxWindow   \* bound on the changes of the window

Size == (Nat \ {0}) \X (Nat \ {0})

ScreenAssumption == Modes \in Seq(Size) /\ Wished \subseteq Size

NoSize == <<0, 0>>
Sizes == Range(Modes) \cup Wished

VARIABLES
    screen,  \* the size of the X server's screen
    known,   \* DisplayWidth and DisplayHeight, which Xlib keeps
    drawn,   \* something on the screen changed since it was last grabbed
    wanted,  \* global.resize
    last,    \* global.last of xrandr.c
    shot,    \* the picture of tycho.c: its size
    bit,     \* command_image is in to_send
    count,   \* image_count
    up,      \* what the client sent: sizes asked for, acknowledgements
    down,    \* the sizes of the pictures sent
    window,  \* global.window of the client
    events,  \* its ConfigureNotify events
    size,    \* core->size: that of the picture it reads
    image,   \* core->image: what it draws into
    reading, \* it reads a picture
    shown,   \* the size of the picture it read last (history)
    others, windows, \* changes so far
    calm     \* no other program changed the screen since last was set (history)

server == <<screen, known, drawn, wanted, last, shot, bit, count, others, calm>>
client == <<window, events, size, image, reading, shown, windows>>
vars == <<server, up, down, client>>

Init ==
    /\ screen \in Range(Modes) /\ known = screen
    /\ drawn = TRUE
    /\ wanted = NoSize /\ last = NoSize /\ shot = NoSize
    /\ bit = FALSE /\ count = 0
    /\ up = <<>> /\ down = <<>>
    /\ window = NoSize /\ events = <<>>
    /\ size = NoSize /\ image = NoSize /\ reading = FALSE /\ shown = NoSize
    /\ others = 0 /\ windows = 0
    /\ calm = FALSE

-----------------------------------------------------------------------------
(* xrandr.c.                                                               *)

Clamp(x, low, high) == IF x < low THEN low ELSE IF x > high THEN high ELSE x
Clamped(s) == <<Clamp(s[1], Low[1], High[1]), Clamp(s[2], Low[2], High[2])>>
Area(s) == s[1] * s[2]
FitsIn(m, s) == m[1] <= s[1] /\ m[2] <= s[2]

(* The modes in the order of the outputs; the size itself if none fits.    *)
LastFit(s) ==
    LET best[i \in 0 .. Len(Modes)] ==
            IF i = 0 THEN NoSize
            ELSE IF FitsIn(Modes[i], s) THEN Modes[i] ELSE best[i - 1]
    IN  best[Len(Modes)]
LargestFit(s) ==
    LET best[i \in 0 .. Len(Modes)] ==
            IF i = 0 THEN NoSize
            ELSE IF FitsIn(Modes[i], s) /\ Area(Modes[i]) > Area(best[i - 1]) THEN Modes[i]
            ELSE best[i - 1]
    IN  best[Len(Modes)]
ModeFor(s) == LET m == LargestFit(s) IN IF m = NoSize THEN s ELSE m

Asked == wanted # NoSize /\ Clamped(wanted) # last

(* xrandr_resize; the X server does as asked or refuses.                   *)
XrandrResize ==
    LET s == Clamped(wanted) IN
    /\ last' = s
    /\ \/ /\ screen' = IF ModeFor(s) # known THEN ModeFor(s) ELSE screen
          /\ calm' = (known = screen)
       \/ ModeFor(s) # known /\ screen' = screen /\ calm' = FALSE
    /\ UNCHANGED <<known, drawn, wanted, shot, bit, count, others>>

(* display_event, xrandr_event: Xlib learns the size.                      *)
XrandrEvent ==
    /\ known # screen /\ known' = screen
    /\ UNCHANGED <<screen, drawn, wanted, last, shot, bit, count, others, calm, up, down, client>>

OtherResize(s) ==
    /\ others < MaxOther /\ others' = others + 1
    /\ s # screen /\ screen' = s
    /\ calm' = FALSE
    /\ UNCHANGED <<known, drawn, wanted, last, shot, bit, count, up, down, client>>

Draw ==
    /\ ~drawn /\ drawn' = TRUE
    /\ UNCHANGED <<screen, known, wanted, last, shot, bit, count, others, calm, up, down, client>>

-----------------------------------------------------------------------------
(* The server.                                                             *)

(* tycho_set_image: has a tile changed?  A new size alone may change none, *)
(* and a part of the screen is all that is seen of one that has grown.     *)
News ==
    IF drawn /\ known = screen THEN {TRUE}
    ELSE IF drawn \/ known # shot THEN BOOLEAN ELSE {FALSE}

(* grab_image, every CONFIG_GRAB_TIMEOUT.  A picture larger than the       *)
(* screen is an error.                                                     *)
Grab ==
    /\ \/ Asked /\ XrandrResize
       \/ /\ ~Asked /\ ~FitsIn(known, screen)
          /\ UNCHANGED server
       \/ /\ ~Asked /\ FitsIn(known, screen)
          /\ shot' = known
          /\ \E news \in News : bit' = (bit \/ news)
          /\ drawn' = (drawn /\ known # screen)
          /\ UNCHANGED <<screen, known, wanted, last, count, others, calm>>
    /\ UNCHANGED <<up, down, client>>

(* command_image: two pictures at most on their way.                       *)
SendImage ==
    /\ bit /\ count < 2
    /\ bit' = FALSE /\ count' = count + 1
    /\ down' = Append(down, shot)
    /\ UNCHANGED <<screen, known, drawn, wanted, last, shot, others, calm, up, client>>

(* command_resize counts of the master only; command_image acknowledges.   *)
Receive ==
    /\ up # <<>> /\ up' = Tail(up)
    /\ \/ /\ Head(up) = <<>> /\ count' = count - 1
          /\ UNCHANGED wanted
       \/ /\ Head(up) # <<>>
          /\ wanted' \in {wanted, Head(up)}
          /\ UNCHANGED count
    /\ UNCHANGED <<screen, known, drawn, last, shot, bit, others, calm, down, client>>

-----------------------------------------------------------------------------
(* The client.                                                             *)

Configure(s) ==
    /\ window' = s /\ events' = Append(events, s)

(* The user or the window manager gives the window another size.           *)
WindowResize(s) ==
    /\ shown # NoSize /\ windows < MaxWindow /\ windows' = windows + 1
    /\ Configure(s)
    /\ UNCHANGED <<server, up, down, size, image, reading, shown>>

(* ConfigureNotify: asks for the size of the window if it is not the one   *)
(* of the picture; XK_r of the locked keyboard asks in any case.           *)
ConfigureNotify ==
    /\ events # <<>> /\ events' = Tail(events)
    /\ up' = IF Head(events) # image THEN Append(up, Head(events)) ELSE up
    /\ UNCHANGED <<server, down, window, size, image, reading, shown, windows>>

AskAgain ==
    /\ window # NoSize /\ events = <<>> /\ up = <<>>
    /\ windows < MaxWindow /\ windows' = windows + 1
    /\ up' = Append(up, window)
    /\ UNCHANGED <<server, down, window, events, size, image, reading, shown>>

(* core_recv_all: the header of a picture; its pixels wait for an image of *)
(* that size.                                                              *)
ReadHeader ==
    /\ ~reading /\ down # <<>>
    /\ reading' = TRUE /\ size' = Head(down) /\ down' = Tail(down)
    /\ UNCHANGED <<server, up, window, events, image, shown, windows>>

ReadPixels ==
    /\ reading /\ size = image
    /\ reading' = FALSE /\ shown' = size
    /\ up' = Append(up, <<>>)
    /\ UNCHANGED <<server, down, window, events, size, image, windows>>

(* image_resize; the first image gives the window its size, if the window  *)
(* manager lets it.                                                        *)
KeepsImage(s) == IF image = NoSize THEN s ELSE image
NewImage(s) == s

ImageResize ==
    /\ size # image /\ image' = NewImage(size)
    /\ IF image = NoSize THEN \E s \in Wished \cup {size} : Configure(s)
       ELSE UNCHANGED <<window, events>>
    /\ UNCHANGED <<server, up, down, size, reading, shown, windows>>

Next ==
    \/ XrandrEvent \/ Draw \/ Grab \/ SendImage \/ Receive
    \/ \E s \in Sizes : OtherResize(s)
    \/ \E s \in Wished : WindowResize(s)
    \/ ConfigureNotify \/ AskAgain \/ ReadHeader \/ ReadPixels \/ ImageResize

Spec == Init /\ [][Next]_vars

(* Both main loops come round.                                             *)
Reads == ReadHeader \/ ReadPixels \/ ImageResize

Fairness ==
    /\ WF_vars(XrandrEvent) /\ WF_vars(Grab) /\ WF_vars(SendImage) /\ WF_vars(Receive)
    /\ WF_vars(ConfigureNotify) /\ WF_vars(Reads)

FairSpec == Spec /\ Fairness

-----------------------------------------------------------------------------
(* As long as something goes on on the screen, the client ends up with a   *)
(* picture of the screen's size, whoever changed it last and whatever was  *)
(* under way; without that a change may pass unnoticed.                    *)
ShowsScreen == []<><<Draw>>_vars => <>[](shown = screen)

(* When the last size the server took has been acted on and nobody else    *)
(* touched the screen, the mode is the largest that fits the size, or the  *)
(* size itself: no request taken is forgotten for a later or an equal one. *)
Granted ==
    calm /\ ~Asked /\ wanted # NoSize =>
        LET s == Clamped(wanted)
            fitting == {m \in Range(Modes) : FitsIn(m, s)}
        IN  IF fitting = {} THEN screen = s
            ELSE screen \in fitting /\ \A m \in fitting : Area(m) <= Area(screen)
=============================================================================
