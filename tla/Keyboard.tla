------------------------------ MODULE Keyboard -------------------------------
(* The keyboard of a client, from the keys a user holds to those pressed   *)
(* at the server (client.c).  One key locks: with another it gives an      *)
(* order to the client, alone it grabs the keyboard or lets it go.  The    *)
(* window hears of keys only while it has the focus or the grab, and a     *)
(* change of focus makes the server release everything.                    *)
EXTENDS Integers, SequencesExt

CONSTANTS
    Key,     \* the keys other than the one that locks
    Lock,    \* global.lock.key
    Queued   \* bound on the events and on the messages under way

VARIABLES
    held,    \* what the user holds down
    focus,   \* the window has the focus
    events,  \* the event queue of the client
    grab,    \* global.grab, and the grab of the X server
    on, action, \* global.lock
    up,      \* what the client sent
    lost,    \* the server's word that the client is not the master is on its way
    master,  \* the server has the client for its master
    pressed, \* keys the server pressed for it
    eaten    \* keys released under the lock since the server was last reset (history)

keyboard == <<held, focus>>
client == <<grab, on, action>>
server == <<master, pressed>>
vars == <<keyboard, events, client, up, lost, server, eaten>>

Init ==
    /\ held = {} /\ focus = TRUE
    /\ events = <<>> /\ up = <<>>
    /\ grab = FALSE /\ on = FALSE /\ action = FALSE
    /\ lost = FALSE /\ master = FALSE /\ pressed = {}
    /\ eaten = {}

-----------------------------------------------------------------------------
(* The user and the X server.                                              *)

Event(e) == events' = IF focus \/ grab THEN Append(events, e) ELSE events

Press(k) ==
    /\ k \notin held /\ held' = held \cup {k}
    /\ Event([kind |-> "press", key |-> k])
    /\ UNCHANGED <<focus, client, up, lost, server, eaten>>

Release(k) ==
    /\ k \in held /\ held' = held \ {k}
    /\ Event([kind |-> "release", key |-> k])
    /\ UNCHANGED <<focus, client, up, lost, server, eaten>>

FocusEvent == [kind |-> "focus"]

FocusChange ==
    /\ focus' = ~focus
    /\ events' = Append(events, FocusEvent)
    /\ UNCHANGED <<held, client, up, lost, server, eaten>>

(* key_grab and what the X server makes of it: a window without the focus  *)
(* hears that it gains or loses it, one that has it may.                   *)
KeyGrab(new, rest) ==
    /\ grab' = new
    /\ \E tells \in IF new = grab THEN {FALSE} ELSE IF focus THEN BOOLEAN ELSE {TRUE} :
         events' = IF tells THEN Append(rest, FocusEvent) ELSE rest

-----------------------------------------------------------------------------
(* display_event of the client.                                            *)

Sends(m) == up' = Append(up, m)

KeyPress(k) ==
    /\ events' = Tail(events)
    /\ IF k = Lock THEN on' = TRUE /\ UNCHANGED <<action, up>>
       ELSE IF on THEN action' = TRUE /\ UNCHANGED <<on, up>>
       ELSE Sends([kind |-> "press", key |-> k]) /\ UNCHANGED <<on, action>>
    /\ eaten' = IF k = Lock \/ on THEN eaten ELSE eaten \ {k}
    /\ UNCHANGED grab

KeyRelease(k) ==
    \/ /\ k = Lock /\ on' = FALSE /\ action' = FALSE
       /\ KeyGrab(IF action THEN grab ELSE ~grab, Tail(events))
       /\ UNCHANGED <<up, eaten>>
    \/ /\ k # Lock /\ on /\ eaten' = eaten \cup {k}
       /\ events' = Tail(events)
       /\ UNCHANGED <<client, up>>
    \/ /\ k # Lock /\ ~on /\ Sends([kind |-> "release", key |-> k])
       /\ events' = Tail(events)
       /\ UNCHANGED <<client, eaten>>

FocusNothing == events' = Tail(events) /\ eaten' = {} /\ UNCHANGED <<client, up>>
Focus ==
    /\ events' = Tail(events) /\ Sends([kind |-> "reset"])
    /\ eaten' = {}
    /\ UNCHANGED client

DisplayEvent ==
    /\ events # <<>>
    /\ LET e == Head(events)
       IN  \/ e.kind = "press" /\ KeyPress(e.key)
           \/ e.kind = "release" /\ KeyRelease(e.key)
           \/ e.kind = "focus" /\ Focus
    /\ UNCHANGED <<keyboard, lost, server>>

(* command_master: the grab ends with the mastership.                      *)
Demoted ==
    /\ lost /\ lost' = FALSE
    /\ KeyGrab(FALSE, events)
    /\ UNCHANGED <<keyboard, on, action, up, server, eaten>>

-----------------------------------------------------------------------------
(* The server.                                                             *)

(* command_key, refused while another master drives.                       *)
CommandKey ==
    /\ up # <<>> /\ up' = Tail(up)
    /\ LET m == Head(up)
       IN  \/ ~master /\ UNCHANGED server
           \/ /\ master' = TRUE
              /\ pressed' = IF m.kind = "press" THEN pressed \cup {m.key}
                            ELSE IF m.kind = "release" THEN pressed \ {m.key} ELSE {}
    /\ UNCHANGED <<keyboard, events, client, lost, eaten>>

(* Another client becomes the master when nothing is pressed, or an        *)
(* administrator ends the mastership and everything is released.           *)
Overtaken ==
    /\ master /\ master' = FALSE /\ lost' = TRUE
    /\ pressed' = {}
    /\ UNCHANGED <<keyboard, events, client, up, eaten>>

Next ==
    \/ /\ Len(events) < Queued
       /\ \/ \E k \in Key \cup {Lock} : Press(k) \/ Release(k)
          \/ FocusChange
    \/ Len(up) < Queued /\ DisplayEvent
    \/ Demoted \/ CommandKey \/ Overtaken

Spec == Init /\ [][Next]_vars

-----------------------------------------------------------------------------
(* Once everything the user did has reached the server, no key is pressed  *)
(* there that the user does not hold, the focus and the grab having gone   *)
(* where they will; but for those that were released while the lock was    *)
(* on, whose release is taken for the end of an order.                     *)
NothingStuck ==
    events = <<>> /\ up = <<>> => pressed \subseteq held \cup eaten
=============================================================================
