------------------------------- MODULE Stream -------------------------------
(***************************************************************************)
(* What one authenticated client and the server say to each other: the     *)
(* send switch of src/src/server.c with its pending bits and its image     *)
(* credit, the commands that answer it, and the client's side of them in   *)
(* src/src/core-client.c and src/src/client.c.                             *)
(*                                                                         *)
(* The server visits a client again and again: it reads commands while it  *)
(* can, then writes messages while there is room.  Here every command read *)
(* and every stage of a message is an action, in any order that the order  *)
(* of the bytes allows.                                                    *)
(*                                                                         *)
(* Three kinds of messages are kept, which show the three ways the switch  *)
(* works: access (a value read when it is written), control (a buffer of   *)
(* its own, which holds back further commands) and image (bytes that leave *)
(* while the screen changes, held back by the client's acknowledgements).  *)
(***************************************************************************)
EXTENDS Naturals, Sequences, FiniteSets

CONSTANTS
    Room,        \* how many messages fit on their way to the client
    MaxScreen,   \* bound on the changes of the screen
    MaxQuery,    \* bound on the control commands of a user
    MaxGrant     \* bound on the accesses given by others

ASSUME StreamAssumption ==
    /\ Room \in Nat \ {0}
    /\ MaxScreen \in Nat
    /\ MaxQuery \in Nat
    /\ MaxGrant \in Nat

VARIABLES
    open,        \* the server still has this client
    stopping,    \* recv.command is command_stop
    access,      \* c->access is not 0
    toSend,      \* c->to_send
    mask,        \* c->send.mask
    sending,     \* c->send.command: a message or a stage of one
    imageCount,  \* c->image_count
    reply,       \* c->control.send holds an answer
    screen,      \* the version of the screen in global.tiles
    frame,       \* the version copied to c->tycho.tiles by the last image
    base,        \* the version in c->tycho.tiles_old, which the image under
                 \* way is encoded against
    down,        \* messages written and not yet received, oldest first
    up,          \* commands sent and not yet read by the server
    display,     \* the client shows the screen; otherwise it was started
                 \* to give one control command
    running,     \* the client's program runs
    told,        \* core.access is not 0
    heard,       \* the bit of access in recv.mask of the client
    shown,       \* the version of the screen the client shows
    queries,     \* control commands the user gave that have an answer
    answers,     \* answers the client printed
    requests,    \* command_access accepted by the server so far
    grants       \* accesses given by others so far

serverVars == <<open, stopping, access, toSend, mask, sending, imageCount,
                reply, screen, frame, base>>
clientVars == <<display, running, told, heard, shown, queries, answers>>
counters   == <<requests, grants>>
vars == <<serverVars, clientVars, down, up, counters>>

(* The position of a message in command_t, hence of its bit.               *)
Bit == [control |-> 5, access |-> 12, image |-> 17]
Message == DOMAIN Bit
Idle == "next"
Stage == {Idle, "image_data", "image_sent"} \cup Message

(* CTZ of a set of bits.                                                   *)
Lowest(S) == CHOOSE m \in S : \A n \in S : Bit[m] <= Bit[n]

Command == {"access", "image", "query", "order", "stop"}
AccessMessage == [m : {"access"}, access : BOOLEAN]
ControlMessage == [m : {"control"}]
ImageMessage == [m : {"image"}, base : 0 .. MaxScreen, frame : 0 .. MaxScreen]
Sent == AccessMessage \cup ControlMessage \cup ImageMessage

TypeOK ==
    /\ {open, stopping, access, reply, display, running, told, heard} \subseteq BOOLEAN
    /\ toSend \subseteq Message
    /\ mask \subseteq Message
    /\ sending \in Stage
    /\ imageCount \in Nat
    /\ {screen, frame, base, shown} \subseteq 0 .. MaxScreen
    /\ down \in Seq(Sent) /\ Len(down) <= Room
    /\ up \in Seq(Command)
    /\ {queries, answers, requests, grants} \subseteq Nat

(* An authentication has just given the client its access (client_auth),   *)
(* and the switch has passed command_start.                                *)
Init ==
    /\ open = TRUE /\ stopping = FALSE /\ access = TRUE
    /\ toSend = {"access"} /\ mask = {"access", "control"}
    /\ sending = Idle /\ imageCount = 0 /\ reply = FALSE
    /\ screen = 0 /\ frame = 0 /\ base = 0
    /\ down = <<>> /\ up = <<>>
    /\ display \in BOOLEAN /\ running = TRUE /\ told = FALSE /\ heard = FALSE /\ shown = 0
    /\ queries = 0 /\ answers = 0 /\ requests = 0 /\ grants = 0

-----------------------------------------------------------------------------
(* Around the client: the screen, and its access.                          *)

(* grab: the tiles changed.                                                *)
BadGrab ==
    /\ open /\ screen < MaxScreen
    /\ screen' = screen + 1
    /\ toSend' = IF sending \in {"image_data", "image_sent"}
                 THEN toSend ELSE toSend \cup {"image"}
    /\ UNCHANGED <<open, stopping, access, mask, sending, imageCount, reply,
                   frame, base, clientVars, down, up, counters>>

Grab ==
    /\ open
    /\ screen < MaxScreen
    /\ screen' = screen + 1
    /\ toSend' = toSend \cup {"image"}
    /\ UNCHANGED <<open, stopping, access, mask, sending, imageCount, reply,
                   frame, base, clientVars, down, up, counters>>

(* client_access from an administrator or a login elsewhere, the           *)
(* inactivity timeout; an access may also be confirmed without a change.   *)
ChangeAccess(a) ==
    /\ open
    /\ a => grants < MaxGrant
    /\ access' = a
    /\ toSend' = toSend \cup {"access"}
    /\ grants' = IF a THEN grants + 1 ELSE grants
    /\ UNCHANGED <<open, stopping, mask, sending, imageCount, reply, screen,
                   frame, base, clientVars, down, up, requests>>

-----------------------------------------------------------------------------
(* The server reads a command.                                             *)

Reads(command) ==
    /\ open
    /\ ~stopping
    /\ up # <<>>
    /\ Head(up) = command
    /\ up' = Tail(up)
    /\ UNCHANGED <<open, access, sending, screen, frame, base, clientVars,
                   down, grants>>

BadReadAccess ==
    /\ Reads("access")
    /\ mask' = mask \cup {"image"}
    /\ toSend' = toSend \cup {"image"}
    /\ imageCount' = 0
    /\ requests' = requests + 1
    /\ UNCHANGED <<stopping, reply>>

ReadAccess ==
    /\ Reads("access")
    /\ IF access
       THEN /\ mask' = mask \cup {"image"}
            /\ toSend' = toSend \cup {"image"}
            /\ requests' = requests + 1
       ELSE UNCHANGED <<mask, toSend, requests>>
    /\ UNCHANGED <<stopping, imageCount, reply>>

(* The acknowledgement of an image.                                        *)
BadReadImage ==
    /\ Reads("image")
    /\ imageCount' = IF imageCount > 0 THEN imageCount - 1 ELSE 0
    /\ mask' = IF access /\ imageCount = 0 THEN mask \cup {"image"} ELSE mask
    /\ UNCHANGED <<stopping, toSend, reply, requests>>

ReadImage ==
    /\ Reads("image")
    /\ imageCount' = IF imageCount > 0 THEN imageCount - 1 ELSE 0
    /\ mask' = IF access THEN mask \cup {"image"} ELSE mask
    /\ UNCHANGED <<stopping, toSend, reply, requests>>

(* A control command waits while the previous answer is not all written,   *)
(* and everything behind it waits too.                                     *)
BadReadControl ==
    \E command \in {"query", "order"} :
        /\ Reads(command)
        /\ ~reply
        /\ reply' = (command = "query")
        /\ toSend' = toSend
        /\ UNCHANGED <<stopping, mask, imageCount, requests>>

ReadControl ==
    \E command \in {"query", "order"} :
        /\ Reads(command)
        /\ ~reply
        /\ reply' = (command = "query")
        /\ toSend' = IF reply' THEN toSend \cup {"control"} ELSE toSend
        /\ UNCHANGED <<stopping, mask, imageCount, requests>>

(* buffer_format drops what follows, and would again on later visits.      *)
BadReadStop ==
    /\ open
    /\ ~stopping
    /\ up # <<>>
    /\ Head(up) = "stop"
    /\ up' = <<>>
    /\ UNCHANGED <<open, stopping, access, toSend, mask, sending, imageCount,
                   reply, screen, frame, base, clientVars, down, counters>>

ReadStop ==
    /\ open
    /\ ~stopping
    /\ up # <<>>
    /\ Head(up) = "stop"
    /\ stopping' = TRUE
    /\ up' = <<>>
    /\ UNCHANGED <<open, access, toSend, mask, sending, imageCount, reply,
                   screen, frame, base, clientVars, down, counters>>

-----------------------------------------------------------------------------
(* The server writes a message.                                            *)

HasRoom == Len(down) < Room

Writes(message) ==
    /\ HasRoom
    /\ down' = Append(down, message)
    /\ UNCHANGED <<open, stopping, access, screen, base, clientVars, up,
                   counters>>

(* The lowest pending bit is cleared and its byte written.                 *)
Begin ==
    /\ open
    /\ sending = Idle
    /\ HasRoom
    /\ toSend \cap mask # {}
    /\ sending' = Lowest(toSend \cap mask)
    /\ toSend' = toSend \ {sending'}
    /\ UNCHANGED <<open, stopping, access, mask, imageCount, reply, screen,
                   frame, base, clientVars, down, up, counters>>

WriteAccess ==
    /\ open
    /\ sending = "access"
    /\ Writes([m |-> "access", access |-> access])
    /\ sending' = Idle
    /\ UNCHANGED <<toSend, mask, imageCount, reply, frame>>

(* The last piece of the answer is written: token_send frees the buffer.   *)
WriteControl ==
    /\ open
    /\ sending = "control"
    /\ Writes([m |-> "control"])
    /\ reply' = FALSE
    /\ sending' = Idle
    /\ UNCHANGED <<toSend, mask, imageCount, frame>>

(* The size of the image is written, the tiles sent last time become the    *)
(* old ones and those of the screen are copied (tycho_setup_server).       *)
BadStartImage ==
    /\ open
    /\ sending = "image"
    /\ HasRoom
    /\ frame' = screen
    /\ imageCount' = imageCount + 1
    /\ sending' = "image_data"
    /\ UNCHANGED <<open, stopping, access, toSend, mask, reply, screen, base,
                   clientVars, down, up, counters>>

StartImage ==
    /\ open
    /\ sending = "image"
    /\ HasRoom
    /\ base' = frame
    /\ frame' = screen
    /\ imageCount' = imageCount + 1
    /\ sending' = "image_data"
    /\ UNCHANGED <<open, stopping, access, toSend, mask, reply, screen,
                   clientVars, down, up, counters>>

(* The last bytes of the tiles enter the output buffer.                    *)
WriteImage ==
    /\ open
    /\ sending = "image_data"
    /\ Writes([m |-> "image", base |-> base, frame |-> frame])
    /\ sending' = "image_sent"
    /\ UNCHANGED <<toSend, mask, imageCount, reply, frame>>

(* The output buffer is empty.  The client may have the image already, and *)
(* its acknowledgement may even have been read.                            *)
FinishImage ==
    /\ open
    /\ sending = "image_sent"
    /\ mask' = IF imageCount >= 2 THEN mask \ {"image"} ELSE mask
    /\ sending' = Idle
    /\ UNCHANGED <<open, stopping, access, toSend, imageCount, reply, screen,
                   frame, base, clientVars, down, up, counters>>

(* After a stop, once nothing is pending and the output buffer is empty.   *)
BadStop ==
    /\ open
    /\ stopping
    /\ sending = Idle
    /\ open' = FALSE
    /\ UNCHANGED <<stopping, access, toSend, mask, sending, imageCount, reply,
                   screen, frame, base, clientVars, down, up, counters>>

Stop ==
    /\ open
    /\ stopping
    /\ sending = Idle
    /\ toSend \cap mask = {}
    /\ open' = FALSE
    /\ UNCHANGED <<stopping, access, toSend, mask, sending, imageCount, reply,
                   screen, frame, base, clientVars, down, up, counters>>

(* netio_read answers 0: the client's program is gone.                     *)
PeerGone ==
    /\ open
    /\ ~running
    /\ open' = FALSE
    /\ UNCHANGED <<stopping, access, toSend, mask, sending, imageCount, reply,
                   screen, frame, base, clientVars, down, up, counters>>

-----------------------------------------------------------------------------
(* The client.                                                             *)

Receives(m) ==
    /\ running
    /\ down # <<>>
    /\ Head(down).m = m
    /\ down' = Tail(down)
    /\ UNCHANGED <<serverVars, counters>>

RecvAccess ==
    /\ Receives("access")
    /\ told' = Head(down).access
    /\ heard' = TRUE
    /\ UNCHANGED <<display, running, shown, queries, answers, up>>

(* Once everything there is has been received, the last access counts:     *)
(* without one the program ends; with one it asks for the screen, or gives *)
(* its command and stops.                                                  *)
Says == IF display THEN <<"access">> ELSE <<"query", "stop">>

Hear ==
    /\ running
    /\ heard
    /\ heard' = FALSE
    /\ running' = told
    /\ up' = IF told THEN up \o Says ELSE up
    /\ queries' = IF told /\ ~display THEN queries + 1 ELSE queries
    /\ UNCHANGED <<serverVars, counters, down, display, told, shown, answers>>

RecvControl ==
    /\ Receives("control")
    /\ answers' = answers + 1
    /\ UNCHANGED <<display, running, told, heard, shown, queries, up>>

RecvImage ==
    /\ Receives("image")
    /\ shown' = Head(down).frame
    /\ up' = Append(up, "image")
    /\ UNCHANGED <<display, running, told, heard, queries, answers>>

(* A control command of the user, with or without an answer.               *)
GiveQuery ==
    /\ running
    /\ display
    /\ told
    /\ ~heard
    /\ queries < MaxQuery
    /\ up' = Append(up, "query")
    /\ queries' = queries + 1
    /\ UNCHANGED <<serverVars, counters, down, display, running, told, heard,
                   shown, answers>>

GiveOrder ==
    /\ running
    /\ display
    /\ told
    /\ ~heard
    /\ MaxQuery > 0
    /\ \A i \in DOMAIN up : up[i] # "order"
    /\ up' = Append(up, "order")
    /\ UNCHANGED <<serverVars, counters, down, clientVars>>

(* The server closed and everything it had written is received.            *)
RecvEnd ==
    /\ running
    /\ ~heard
    /\ ~open
    /\ down = <<>>
    /\ running' = FALSE
    /\ UNCHANGED <<serverVars, counters, down, up, display, told, heard, shown,
                   queries, answers>>

Next ==
    \/ Grab \/ \E a \in BOOLEAN : ChangeAccess(a)
    \/ ReadAccess \/ ReadImage \/ ReadControl \/ ReadStop
    \/ Begin \/ WriteAccess \/ WriteControl
    \/ StartImage \/ WriteImage \/ FinishImage
    \/ Stop \/ PeerGone
    \/ RecvAccess \/ RecvControl \/ RecvImage \/ Hear \/ RecvEnd
    \/ GiveQuery \/ GiveOrder

Read  == ReadAccess \/ ReadImage \/ ReadControl \/ ReadStop
Write == Begin \/ WriteAccess \/ WriteControl \/ StartImage \/ WriteImage
             \/ FinishImage \/ Stop
Receive == RecvAccess \/ RecvControl \/ RecvImage \/ RecvEnd

(* The server's loop returns to the client, and the client's to its        *)
(* connection and then to what it has received, whatever the users do.     *)
Fairness ==
    /\ WF_vars(Read) /\ WF_vars(Write) /\ WF_vars(PeerGone)
    /\ WF_vars(Receive) /\ WF_vars(Hear)

Spec == Init /\ [][Next]_vars
FairSpec == Spec /\ Fairness

-----------------------------------------------------------------------------
(* Properties.                                                             *)

(* A change of the screen that no image has picked up yet is still pending:*)
(* the bit is cleared before the tiles are copied (server.c:1273, 1411),   *)
(* whatever changes in between or while the image leaves.                  *)
DamagePending == screen # frame => "image" \in toSend \/ sending = "image"

(* How many elements of a sequence are in a set.                           *)
Count(s, S) == Cardinality({i \in 1 .. Len(s) : s[i] \in S})

(* image_count is exactly the number of images begun and whose             *)
(* acknowledgement was not read: none is counted twice or forgotten, so    *)
(* the test against zero in server.c:1079 never matters.                   *)
ImagesAccounted ==
    open /\ ~stopping =>
        imageCount = Count(down, ImageMessage) + Count(up, {"image"})
                         + (IF sending = "image_data" THEN 1 ELSE 0)

(* At most two images wait for an acknowledgement, and one more for every  *)
(* repeated request for access: each request opens the credit again        *)
(* (server.c:1050) whatever is in flight.                                  *)
ImageBound == imageCount <= requests + 1

(* The client shows version v once it has received the first n messages.   *)
ShowsAfter(n, v) ==
    \/ /\ v = shown
       /\ \A i \in 1 .. n : down[i] \notin ImageMessage
    \/ \E i \in 1 .. n :
          /\ down[i] \in ImageMessage
          /\ down[i].frame = v
          /\ \A j \in i + 1 .. n : down[j] \notin ImageMessage

(* The tiles of an image say what changed since the tiles sent before it   *)
(* (tycho-server.c:211): every image finds the client with exactly the     *)
(* picture it was encoded against, whatever is in flight.                  *)
DeltaApplies ==
    /\ \A i \in 1 .. Len(down) :
          down[i] \in ImageMessage => ShowsAfter(i - 1, down[i].base)
    /\ ShowsAfter(Len(down), IF sending = "image_data" THEN base ELSE frame)

(* A connection that ends after a stop (client.c:743) has given all its    *)
(* answers: the stop is acted on when nothing else is pending.             *)
AnsweredBeforeEnd ==
    ~open /\ stopping /\ running =>
        answers + Count(down, ControlMessage) >= 1

(* The client does not stay on an old picture while it has its access:     *)
(* flow control, control answers and a full connection never lock up.      *)
CatchesUp == requests > 0 ~> shown = screen \/ ~access \/ ~open

(* A control command is answered, even when answers push back on commands. *)
Answered == \A q \in 1 .. MaxQuery : queries >= q ~> answers >= q \/ ~open

(* A client started for one command comes to its end.                      *)
CommandEnds == running /\ ~display ~> ~running
=============================================================================
