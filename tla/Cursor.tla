------------------------------- MODULE Cursor -------------------------------
(***************************************************************************)
(* The pictures of the mouse cursor.  The server names a picture by its    *)
(* hash and sends the pixels only when it believes the client does not     *)
(* have them; both sides keep the last pictures in a list and nothing in   *)
(* the messages says whether pixels follow: the two lists must agree on    *)
(* every message, however far apart the two sides are.                     *)
(*                                                                         *)
(* Server: grab_cursor and the cases command_cursor, command_cursor_data   *)
(* of src/src/server.c.  Client: src/src/core-client.c.                    *)
(***************************************************************************)
EXTENDS Naturals, Sequences

CONSTANTS
    Hash,     \* the hashes of the pictures that are not blank
    Blank,    \* 0, the hash of a picture without any pixel set
    Size,     \* how many pictures both sides keep: 256 in the code
    Room      \* how many messages fit on their way to the client

ASSUME CursorAssumption ==
    /\ Blank \notin Hash
    /\ Size \in Nat \ {0}
    /\ Room \in Nat \ {0}

None == "none"      \* no pixels
Unseen == "unseen"  \* a transparent picture made by the client itself
ASSUME PixelsAssumption == {None, Unseen} \cap (Hash \cup {Blank}) = {}

VARIABLES
    cursor,     \* global.grab.cursor.hash
    toSend,     \* the bit of command_cursor in to_send
    sending,    \* c->send.command
    pixels,     \* c->cursor.send: the picture under way, by its hash
    known,      \* c->cursor.hash
    wire,       \* what was written and not yet received, oldest first
    expecting,  \* recv.command of the client is command_cursor_data
    cache,      \* core->cursor.cache
    serial,     \* core->cursor.serial, counted from 1
    received,   \* the bit of command_cursor in recv.mask of the client
    shown       \* the picture the client shows

serverVars == <<cursor, toSend, sending, pixels, known>>
clientVars == <<expecting, cache, serial, received, shown>>
vars == <<serverVars, wire, clientVars>>

Index == 1 .. Size
Entry == [hash : Hash \cup {Blank}, data : Hash \cup {None}]
Header == [kind : {"header"}, hash : Hash \cup {Blank}]
Data == [kind : {"data"}, data : Hash]

TypeOK ==
    /\ cursor \in Hash \cup {Blank}
    /\ {toSend, expecting, received} \subseteq BOOLEAN
    /\ sending \in {"next", "cursor", "cursor_data"}
    /\ pixels \in IF sending = "cursor_data" THEN Hash ELSE {None}
    /\ known \in [Index -> Hash \cup {Blank}]
    /\ wire \in Seq(Header \cup Data) /\ Len(wire) <= Room
    /\ cache \in [Index -> Entry]
    /\ serial \in 1 .. Size + 1
    /\ shown \in Hash \cup {None, Unseen}

Init ==
    /\ cursor \in Hash \cup {Blank} /\ toSend = FALSE
    /\ sending = "next" /\ pixels = None
    /\ known = [i \in Index |-> Blank]
    /\ wire = <<>> /\ expecting = FALSE
    /\ cache = [i \in Index |-> [hash |-> Blank, data |-> None]]
    /\ serial = 1 /\ received = FALSE /\ shown = None

(* The last one is forgotten, the others move by one, x becomes the first. *)
PushFirst(list, x) ==
    [i \in Index |-> IF i = 1 THEN x ELSE list[i - 1]]

-----------------------------------------------------------------------------
(* The server.                                                             *)

(* grab_cursor: the cursor has another picture.                            *)
Grab(h) ==
    /\ h # cursor
    /\ cursor' = h
    /\ toSend' = TRUE
    /\ UNCHANGED <<sending, pixels, known, wire, clientVars>>

(* A request for access asks for the cursor even if it did not change.     *)
Ask ==
    /\ toSend' = TRUE
    /\ UNCHANGED <<cursor, sending, pixels, known, wire, clientVars>>

HasRoom == Len(wire) < Room

Begin ==
    /\ sending = "next"
    /\ HasRoom
    /\ toSend
    /\ sending' = "cursor"
    /\ toSend' = FALSE
    /\ UNCHANGED <<cursor, pixels, known, wire, clientVars>>

(* Does the client have no picture of this hash?  The blank one never      *)
(* travels.                                                                *)
IsNew(h) == h # Blank /\ \A i \in Index : known[i] # h

SendCursor ==
    /\ sending = "cursor"
    /\ HasRoom
    /\ wire' = Append(wire, [kind |-> "header", hash |-> cursor])
    /\ IF IsNew(cursor)
       THEN /\ known' = PushFirst(known, cursor)
            /\ pixels' = cursor
            /\ sending' = "cursor_data"
       ELSE /\ sending' = "next"
            /\ UNCHANGED <<known, pixels>>
    /\ UNCHANGED <<cursor, toSend, clientVars>>

(* The last pixels enter the output buffer; those of the picture that was  *)
(* copied with the header, whatever the cursor is by now.                  *)
BadSendData ==
    /\ sending = "cursor_data"
    /\ HasRoom
    /\ cursor # Blank
    /\ wire' = Append(wire, [kind |-> "data", data |-> cursor])
    /\ pixels' = None
    /\ sending' = "next"
    /\ UNCHANGED <<cursor, toSend, known, clientVars>>

SendData ==
    /\ sending = "cursor_data"
    /\ HasRoom
    /\ wire' = Append(wire, [kind |-> "data", data |-> pixels])
    /\ pixels' = None
    /\ sending' = "next"
    /\ UNCHANGED <<cursor, toSend, known, clientVars>>

-----------------------------------------------------------------------------
(* The client.                                                             *)

(* The search through the list: i is the first place of h, or one more     *)
(* than the size of the list.  An entry not used yet has the hash of the   *)
(* blank picture.                                                          *)
Finds(h, i) ==
    /\ i <= Size => cache[i].hash = h
    /\ \A j \in 1 .. i - 1 : cache[j].hash # h

RecvsCursor ==
    /\ wire # <<>>
    /\ ~expecting
    /\ Head(wire).kind = "header"
    /\ wire' = Tail(wire)
    /\ UNCHANGED <<serverVars, shown>>

RecvNew ==
    /\ RecvsCursor
    /\ Head(wire).hash # Blank
    /\ Finds(Head(wire).hash, Size + 1)
    /\ serial' = 1
    /\ cache' = PushFirst(cache, [hash |-> Head(wire).hash, data |-> None])
    /\ expecting' = TRUE
    /\ UNCHANGED received

RecvKnown ==
    /\ RecvsCursor
    /\ \E i \in 1 .. Size + 1 :
          /\ Finds(Head(wire).hash, i)
          /\ i <= Size \/ Head(wire).hash = Blank
          /\ serial' = i
    /\ received' = TRUE
    /\ UNCHANGED <<cache, expecting>>

(* The last pixels of a new picture; the bit that is set is the one of     *)
(* command_cursor_data.                                                    *)
RecvData ==
    /\ wire # <<>>
    /\ expecting
    /\ Head(wire).kind = "data"
    /\ wire' = Tail(wire)
    /\ cache' = [cache EXCEPT ![1].data = Head(wire).data]
    /\ expecting' = FALSE
    /\ UNCHANGED <<serverVars, serial, received, shown>>

(* core_recv_cursor and cursor_update, once per visit of the connection    *)
(* and before recv.mask is reset.                                          *)
Show ==
    /\ received
    /\ received' = FALSE
    /\ shown' = IF serial > Size THEN Unseen
                ELSE IF cache[serial].data # None THEN cache[serial].data
                ELSE shown
    /\ UNCHANGED <<serverVars, wire, expecting, cache, serial>>

Next ==
    \/ \E h \in Hash \cup {Blank} : Grab(h)
    \/ Ask \/ Begin \/ SendCursor \/ SendData
    \/ RecvNew \/ RecvKnown \/ RecvData \/ Show

Spec == Init /\ [][Next]_vars

-----------------------------------------------------------------------------
(* Properties.                                                             *)

(* What the client takes for pixels are pixels, and what it takes for a    *)
(* command is one.                                                         *)
InStep == wire # <<>> => (expecting <=> Head(wire).kind = "data")

(* The pixels kept under a hash are those of the picture with this hash.   *)
RightPixels ==
    \A i \in Index : cache[i].data # None => cache[i].data = cache[i].hash

(* Once all messages are received both sides have the same list.           *)
SameList ==
    wire = <<>> /\ sending # "cursor_data" =>
        \A i \in Index : cache[i].hash = known[i]

(* When nothing is under way any more the client shows the cursor of the   *)
(* server, unless that one is blank or came as a new picture: the client   *)
(* shows a picture when it is named again (core-client.c:469).             *)
ShownWhenKnown ==
    wire = <<>> /\ sending = "next" /\ ~toSend /\ ~received =>
        shown = cursor \/ cursor = Blank \/ serial = 1
=============================================================================
