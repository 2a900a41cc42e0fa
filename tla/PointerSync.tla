---------------------------- MODULE PointerSync ----------------------------
(***************************************************************************)
(* The pointer of a client and the one of the server's screen.  The client *)
(* reports where its pointer is; as long as nobody else moved the server's *)
(* pointer a report moves it by the difference, otherwise to the position. *)
(* When a program on the server moves the pointer, the server asks the     *)
(* client to follow (pointer_sync); the client moves its own pointer and   *)
(* answers with the way it went.  Both sides move at the same time.        *)
(*                                                                         *)
(* One coordinate stands for both.  Server: src/src/server.c.  Client:     *)
(* src/src/core-client.c, src/src/client.c and src/src/pointer.c, and its  *)
(* X server, whose event queue is part of the model.                       *)
(***************************************************************************)
EXTENDS Integers, Sequences, FiniteSetsExt

CONSTANTS
    Width,    \* positions 0 .. Width - 1 of the screen and of the window
    Margin,   \* how far the client's screen goes on right of the window
    M,        \* 2^16: positions travel modulo M
    Mark,     \* the ClientMessage _POINTER_WARP_ in the event queue
    Room      \* bound on what is under way in each direction and queued

PointerAssumption ==
    /\ {Width, Room} \subseteq Nat \ {0} /\ Margin \in Nat
    /\ Mark \notin Int
    /\ M \in Nat /\ M % 2 = 0 /\ M > 4 * (Width + Margin)

VARIABLES
    xpos,      \* the pointer of the server's X server
    gpos,      \* global.pointer: where the last master wanted it
    master,    \* global.master.client is this client
    cpos,      \* c->pointer.x
    csx,       \* c->pointer.sx
    pending,   \* the bit of command_pointer_sync in to_send
    sending,   \* c->send.command is command_pointer_sync
    down, up,  \* what was sent and is not received yet
    sx,        \* core->pointer.sx
    px,        \* core->pointer.px
    at,        \* the pointer of the client's X server
    warp,      \* the way pointer_warp has still to move it
    events,    \* the client's event queue: positions and marks
    warped,    \* global.warp of pointer.c
    apart      \* history: the two sides crossed; see Meets

asked == <<pending, sending, down>>
screen == <<at, events>>
client == <<sx, px, warp, warped>>
vars == <<xpos, gpos, master, cpos, csx, asked, up, client, screen, apart>>

Place == 0 .. Width - 1
Around == 0 .. Width - 1 + Margin
Clamp(x) == IF x < 0 THEN 0 ELSE IF x >= Width THEN Width - 1 ELSE x
ClampAround(x) ==
    IF x < 0 THEN 0
    ELSE IF x >= Width + Margin THEN Width - 1 + Margin ELSE x

(* (int16_t)x *)
Signed(x) == LET u == x % M IN IF u < M \div 2 THEN u ELSE u - M

Init ==
    /\ xpos \in Place /\ gpos = -1
    /\ master = FALSE
    /\ cpos = 0 /\ csx = 0 /\ pending = FALSE /\ sending = FALSE
    /\ down = <<>> /\ up = <<>>
    /\ sx = 0 /\ px = 0 /\ warp = 0 /\ warped = FALSE
    /\ at \in Place /\ events = <<>>
    /\ apart = TRUE

(* A request to follow is on its way, or the answer to one.                *)
UnderWay ==
    \/ csx # 0 \/ pending \/ sending \/ down # <<>> \/ sx # 0
    \/ \E i \in DOMAIN up : up[i].kind = "sync"

-----------------------------------------------------------------------------
(* The server.                                                             *)

(* A program moves the pointer.                                            *)
Jump(x) ==
    /\ x # xpos
    /\ xpos' = x
    /\ apart' = (apart \/ UnderWay \/ gpos # cpos)
    /\ UNCHANGED <<gpos, master, cpos, csx, asked, up, client, screen>>

(* Another client drives: with its keyboard only, or with its pointer.     *)
OtherTypes ==
    /\ master
    /\ master' = FALSE
    /\ UNCHANGED <<xpos, gpos, cpos, csx, asked, up, client, screen, apart>>

OtherMoves(x) ==
    /\ master' = FALSE
    /\ xpos' = x /\ gpos' = x
    /\ apart' = TRUE
    /\ UNCHANGED <<cpos, csx, asked, up, client, screen>>

(* This client becomes the master by a key or a button.                    *)
Types ==
    /\ ~master
    /\ master' = TRUE
    /\ UNCHANGED <<xpos, gpos, cpos, csx, asked, up, client, screen, apart>>

Relative == gpos = Signed(cpos)

(* command_pointer.  Only another master can make client_master refuse.    *)
RecvPointer ==
    /\ up # <<>> /\ Head(up).kind = "pointer"
    /\ up' = Tail(up)
    /\ LET new == Head(up).x
           to == IF Relative THEN xpos + Signed(new - Signed(cpos)) ELSE Signed(new)
       IN  /\ cpos' = new
           /\ \/ /\ master' = TRUE
                 /\ gpos' = new
                 /\ xpos' = Clamp(to)
                 /\ csx' = IF Relative THEN csx ELSE 0
                 /\ apart' = IF Relative
                             THEN apart \/ (UnderWay /\ Clamp(to) # to)
                             ELSE UnderWay
              \/ /\ ~master
                 /\ apart' = TRUE
                 /\ UNCHANGED <<master, gpos, xpos, csx>>
    /\ UNCHANGED <<asked, client, screen>>

(* command_pointer_sync: global.pointer stays what it was.                 *)
BadRecvAnswer ==
    /\ up # <<>> /\ Head(up).kind = "sync"
    /\ up' = Tail(up)
    /\ csx' = 0
    /\ UNCHANGED <<xpos, gpos, cpos, master, asked, client, screen, apart>>

RecvAnswer ==
    /\ up # <<>> /\ Head(up).kind = "sync"
    /\ up' = Tail(up)
    /\ cpos' = cpos + Signed(Head(up).x)
    /\ csx' = 0
    /\ UNCHANGED <<xpos, gpos, master, asked, client, screen, apart>>

(* grab, as far as the master is concerned; it compares with where the     *)
(* pointer is at that moment.                                              *)
Grab ==
    /\ master /\ csx = 0 /\ gpos = cpos /\ xpos # cpos
    /\ csx' = xpos - cpos
    /\ pending' = TRUE
    /\ UNCHANGED <<xpos, gpos, master, cpos, sending, down, up, client, screen, apart>>

Begin ==
    /\ pending /\ ~sending
    /\ pending' = FALSE /\ sending' = TRUE
    /\ UNCHANGED <<xpos, gpos, master, cpos, csx, down, up, client, screen, apart>>

(* What csx is by now.                                                     *)
Write ==
    /\ sending /\ Len(down) < Room
    /\ sending' = FALSE
    /\ down' = Append(down, csx % M)
    /\ UNCHANGED <<xpos, gpos, master, cpos, csx, pending, up, client, screen, apart>>

-----------------------------------------------------------------------------
(* The client and its X server.                                            *)

(* A motion is reported in the window, and outside with a button held.     *)
Reports(x, report) == x \in Place => report

UserMove(x, report) ==
    /\ x # at /\ Len(events) < Room
    /\ Reports(x, report)
    /\ at' = x
    /\ events' = IF report THEN Append(events, x) ELSE events
    /\ UNCHANGED <<xpos, gpos, master, cpos, csx, asked, up, client, apart>>

(* A second request waits until the first is answered, and with it all     *)
(* other messages.  pointer_warp sends itself the mark first.              *)
BadRecvSync ==
    /\ down # <<>> /\ warp = 0
    /\ sx' = Signed(Head(down)) /\ warp' = sx'
    /\ down' = Tail(down)
    /\ events' = IF sx' = 0 THEN events ELSE Append(events, Mark)
    /\ UNCHANGED <<xpos, gpos, master, cpos, csx, pending, sending, up, px, warped, at, apart>>

RecvSync ==
    /\ down # <<>> /\ sx = 0
    /\ sx' = Signed(Head(down)) /\ warp' = sx'
    /\ down' = Tail(down)
    /\ events' = IF sx' = 0 THEN events ELSE Append(events, Mark)
    /\ UNCHANGED <<xpos, gpos, master, cpos, csx, pending, sending, up, px, warped, at, apart>>

(* The last motion the client was, or will be, told of.                    *)
LastReport ==
    LET motions == {i \in DOMAIN events : events[i] # Mark}
    IN  IF motions = {} THEN px ELSE events[Max(motions)]

(* XWarpPointer: at the edge of the client's screen it moves less.         *)
Warp(report) ==
    /\ warp # 0
    /\ Reports(ClampAround(at + warp), report)
    /\ at' = ClampAround(at + warp)
    /\ events' = IF report /\ at' # at THEN Append(events, at') ELSE events
    /\ apart' = (apart \/ ~report \/ at # LastReport \/ at' # at + warp)
    /\ warp' = 0
    /\ UNCHANGED <<xpos, gpos, master, cpos, csx, asked, up, sx, px, warped>>

(* display_event.                                                          *)
HandleMark ==
    /\ warp = 0 /\ events # <<>> /\ Head(events) = Mark
    /\ events' = Tail(events)
    /\ warped' = TRUE
    /\ UNCHANGED <<xpos, gpos, master, cpos, csx, asked, up, sx, px, warp, at, apart>>

(* core_send_pointer: px is the position either way.                       *)
HandleMotion ==
    /\ warp = 0 /\ events # <<>> /\ Head(events) # Mark
    /\ Len(up) < Room
    /\ events' = Tail(events)
    /\ LET x == Head(events) IN
       /\ px' = x
       /\ IF warped
          THEN /\ up' = Append(up, [kind |-> "sync", x |-> (x - px) % M])
               /\ sx' = 0
          ELSE /\ up' = Append(up, [kind |-> "pointer", x |-> x % M])
               /\ UNCHANGED sx
    /\ warped' = FALSE
    /\ UNCHANGED <<xpos, gpos, master, cpos, csx, asked, warp, at, apart>>

Next ==
    \/ \E x \in Place : Jump(x) \/ OtherMoves(x)
    \/ OtherTypes \/ Types
    \/ RecvPointer \/ RecvAnswer \/ Grab \/ Begin \/ Write
    \/ \E x \in Around, report \in BOOLEAN : UserMove(x, report)
    \/ RecvSync \/ HandleMark \/ HandleMotion
    \/ \E report \in BOOLEAN : Warp(report)

Spec == Init /\ [][Next]_vars

-----------------------------------------------------------------------------
(* Properties.                                                             *)

(* A client that reads nothing more until it has answered has exactly one  *)
(* mark to answer for, and the other way round: the next motion answers.   *)
Marks == {i \in DOMAIN events : events[i] = Mark}
BlockedHasAnswer ==
    IF sx = 0 THEN ~warped /\ Marks = {}
    ELSE IF warped THEN Marks = {} ELSE \E i \in DOMAIN events : Marks = {i}

Settled ==
    /\ master /\ ~UnderWay /\ up = <<>> /\ events = <<>>
    /\ ~(gpos = cpos /\ xpos # cpos)

(* What the server takes for the client's position.                        *)
Arrive(x, m) == IF m.kind = "pointer" THEN m.x ELSE x + Signed(m.x)
Arrived ==
    LET place[i \in 0 .. Len(up)] ==
            IF i = 0 THEN cpos ELSE Arrive(place[i - 1], up[i])
    IN  place[Len(up)]

(* The server knows where the client's pointer was reported last, once     *)
(* what is on its way is counted in; and when all is said, and a grab has  *)
(* nothing to ask, both pointers are at the same position, unless they     *)
(* crossed on the way: a pointer moved again before the other had          *)
(* followed, or an edge was met.                                           *)
Meets ==
    /\ Arrived % M = px % M
    /\ Settled /\ ~apart => xpos = px
=============================================================================
