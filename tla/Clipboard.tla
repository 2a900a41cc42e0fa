------------------------------ MODULE Clipboard ------------------------------
(* The selections of the two desktops (clipboard.c) and the way a text     *)
(* copied on one becomes what the other pastes.  Each program learns of a  *)
(* copy from its X server, asks the owner for the text and gets it by an   *)
(* event later; it passes on one text at a time, and only while its client *)
(* is the master.                                                          *)
EXTENDS Integers, SequencesExt

CONSTANTS
    Text,     \* what programs copy
    None,     \* no text, no owner
    Us,       \* the owner that is vbridge's own window
    MaxCopy,  \* bound on the copies of the programs
    MaxTurn,  \* bound on the changes of the mastership
    Room      \* messages a connection holds in one direction

ClipboardAssumption ==
    /\ Text \cap ({None, Us} \cup {<<told>> : told \in BOOLEAN}) = {} /\ None # Us
    /\ {MaxCopy, MaxTurn, Room} \subseteq Nat

Desktop == {"server", "client"}
Selection == {"primary", "clipboard"}
Far(d) == IF d = "server" THEN "client" ELSE "server"

VARIABLES
    owner,    \* of each selection: None, Us or the text a program offers
    events,   \* the event queue of vbridge on each desktop
    asked,    \* conversions a program has still to answer
    property, \* the answers, one for each selection
    set, get, \* global.set and global.get
    sending,  \* the server's master->clipboard.send
    master,   \* the server has the client for its master
    toTell,   \* the bit of command_master in to_send
    driver,   \* core->master of the client
    wire,     \* messages on their way to a desktop
    turns,    \* changes of the mastership
    copies,   \* where which text was copied (history)
    calm      \* nothing else went on around the last copy (history)

desk == <<owner, events, asked, property>>
mastery == <<master, toTell, driver, turns>>
vars == <<desk, set, get, sending, mastery, wire, copies, calm>>

Owned(s, who) == [kind |-> "owner", sel |-> s, who |-> who]
Answer(s, target, ok) == [kind |-> "answer", sel |-> s, target |-> target, ok |-> ok]

Init ==
    /\ owner = [d \in Desktop |-> [s \in Selection |-> None]]
    /\ events = [d \in Desktop |-> <<>>]
    /\ asked = [d \in Desktop |-> {}]
    /\ property = [d \in Desktop |-> [s \in Selection |-> None]]
    /\ set = [d \in Desktop |-> None]
    /\ get = [d \in Desktop |-> None]
    /\ sending = None
    /\ master = TRUE /\ toTell = FALSE /\ driver = TRUE /\ turns = 0
    /\ wire = [d \in Desktop |-> <<>>]
    /\ copies = <<>> /\ calm = FALSE

(* What was got and not passed on does no harm if the other side has it.   *)
Still ==
    /\ sending = None /\ ~toTell /\ master /\ driver
    /\ \A d \in Desktop : /\ events[d] = <<>> /\ asked[d] = {} /\ wire[d] = <<>>
                          /\ get[d] \in {None, set[Far(d)]}

-----------------------------------------------------------------------------
(* The other programs of a desktop.                                        *)

(* A program offers a text: marked with the mouse, copied, or both.        *)
Copy(d, t, S) ==
    /\ Len(copies) < MaxCopy
    /\ owner' = [owner EXCEPT ![d] = [s \in Selection |-> IF s \in S THEN t ELSE @[s]]]
    /\ \E order \in SetToSeqs(S) :
         events' = [events EXCEPT ![d] = @ \o [i \in DOMAIN order |-> Owned(order[i], t)]]
    /\ copies' = Append(copies, [at |-> d, text |-> t])
    /\ calm' = Still
    /\ UNCHANGED <<asked, property, set, get, sending, mastery, wire>>

(* It ends: nobody owns what it offered, its answers never come.           *)
Exit(d, t) ==
    /\ \E s \in Selection : owner[d][s] = t
    /\ owner' = [owner EXCEPT ![d] = [s \in Selection |-> IF @[s] = t THEN None ELSE @[s]]]
    /\ asked' = [asked EXCEPT ![d] = {a \in @ : a.text # t}]
    /\ calm' = FALSE
    /\ UNCHANGED <<events, property, set, get, sending, mastery, wire, copies>>

(* It answers a conversion, UTF8_STRING perhaps with a refusal.            *)
Reply(d, a) ==
    /\ a \in asked[d]
    /\ asked' = [asked EXCEPT ![d] = @ \ {a}]
    /\ \E ok \in {TRUE} \cup {a.target # "utf8"} :
         /\ events' = [events EXCEPT ![d] = Append(@, Answer(a.sel, a.target, ok))]
         /\ property' = IF ok THEN [property EXCEPT ![d][a.sel] = a.text] ELSE property
    /\ UNCHANGED <<owner, set, get, sending, mastery, wire, copies, calm>>

(* What it pastes.  A request to vbridge, SelectionRequest, is answered     *)
(* with the text it offers and changes nothing here: none is queued.       *)
Pasted(d, s) == IF owner[d][s] = Us THEN set[d] ELSE owner[d][s]

-----------------------------------------------------------------------------
(* clipboard.c.                                                            *)

(* XConvertSelection goes to whoever owns the selection now.  vbridge does *)
(* not answer itself, so a text that was just set is not got again.        *)
AnswersAll(s, target, d) == <<Answer(s, target, TRUE)>>
AnswersSelf(s, target, d) == <<>>

Convert(d, s, target) ==
    LET o == owner[d][s]
    IN  /\ asked' = [asked EXCEPT ![d] = @ \cup
              (IF o \in Text THEN {[sel |-> s, target |-> target, text |-> o]} ELSE {})]
        /\ events' = [events EXCEPT ![d] = Tail(@) \o
              (IF o = None THEN <<Answer(s, target, FALSE)>>
               ELSE IF o = Us THEN AnswersSelf(s, target, d) ELSE <<>>)]
        /\ property' = IF o = Us /\ AnswersSelf(s, target, d) # <<>>
                       THEN [property EXCEPT ![d][s] = set[d]] ELSE property

Handled(d) == events' = [events EXCEPT ![d] = Tail(@)] /\ UNCHANGED <<asked, property>>

(* clipboard_event; got is what global.get has then.                       *)
ClipboardEvent(d, got) ==
    LET e == Head(events[d])
        asks == e.kind = "owner" /\ e.who \notin {None, Us}
        again == e.kind = "answer" /\ ~e.ok /\ e.target = "utf8"
    IN  \/ asks /\ Convert(d, e.sel, "utf8") /\ got = get[d]
        \/ again /\ Convert(d, e.sel, "string") /\ got = get[d]
        \/ /\ ~asks /\ ~again /\ Handled(d)
           /\ got = IF e.kind = "answer" /\ e.ok THEN property[d][e.sel] ELSE get[d]

(* clipboard_set: a text that was set before is not offered again.         *)
OwnsOne(d) == {"primary"}
Owns(d) == Selection

ClipboardSet(d, t) ==
    /\ set' = [set EXCEPT ![d] = t]
    /\ IF t = set[d] THEN UNCHANGED <<owner, events>>
       ELSE /\ owner' = [owner EXCEPT ![d] =
                           [s \in Selection |-> IF s \in Owns(d) THEN Us ELSE @[s]]]
            /\ events' = [events EXCEPT ![d] = @ \o <<Owned("primary", Us), Owned("clipboard", Us)>>]

-----------------------------------------------------------------------------
(* display_event of the server: the text stays while the one before is     *)
(* being sent, until the next event of a selection.                        *)
ServerEvent ==
    /\ events["server"] # <<>>
    /\ \E got \in Text \cup {None} :
         /\ ClipboardEvent("server", got)
         /\ LET goes == master /\ sending = None /\ got # None
            IN  /\ sending' = IF goes THEN got ELSE sending
                /\ get' = [get EXCEPT !["server"] = IF goes THEN None ELSE got]
    /\ UNCHANGED <<owner, set, mastery, wire, copies, calm>>

(* display_event of the client; its output grows as needed.                *)
ClientEvent ==
    /\ events["client"] # <<>> /\ Len(wire["server"]) < Room
    /\ \E got \in Text \cup {None} :
         /\ ClipboardEvent("client", got)
         /\ get' = [get EXCEPT !["client"] = IF driver THEN None ELSE got]
         /\ wire' = IF driver /\ got # None THEN [wire EXCEPT !["server"] = Append(@, got)]
                    ELSE wire
    /\ UNCHANGED <<owner, set, sending, mastery, copies, calm>>

(* command_clipboard at the server, from its master or another client.     *)
ServerReceive ==
    /\ wire["server"] # <<>>
    /\ wire' = [wire EXCEPT !["server"] = Tail(@)]
    /\ IF master THEN ClipboardSet("server", Head(wire["server"]))
       ELSE UNCHANGED <<set, owner, events>>
    /\ UNCHANGED <<asked, property, get, sending, mastery, copies, calm>>

(* The send loop: command_master comes before command_clipboard.           *)
ServerSend ==
    /\ Len(wire["client"]) < Room
    /\ \/ /\ toTell /\ toTell' = FALSE
          /\ wire' = [wire EXCEPT !["client"] = Append(@, <<master>>)]
          /\ UNCHANGED sending
       \/ /\ ~toTell /\ sending # None /\ sending' = None
          /\ wire' = [wire EXCEPT !["client"] = Append(@, sending)]
          /\ UNCHANGED toTell
    /\ UNCHANGED <<desk, set, get, master, driver, turns, copies, calm>>

(* The client: master or not, it takes the text.                           *)
ClientReceive ==
    /\ wire["client"] # <<>>
    /\ wire' = [wire EXCEPT !["client"] = Tail(@)]
    /\ LET m == Head(wire["client"])
       IN  IF m \in Text THEN ClipboardSet("client", m) /\ UNCHANGED driver
           ELSE driver' = m[1] /\ UNCHANGED <<set, owner, events>>
    /\ UNCHANGED <<asked, property, get, sending, master, toTell, turns, copies, calm>>

(* client_master, client_master_stop: another client drives, or this one.  *)
Turn ==
    /\ turns < MaxTurn /\ turns' = turns + 1
    /\ master' = ~master /\ toTell' = TRUE
    /\ calm' = FALSE
    /\ UNCHANGED <<desk, set, get, sending, driver, wire, copies>>

Next ==
    \/ \E d \in Desktop :
         \/ \E t \in Text : \/ \E S \in (SUBSET Selection) \ {{}} : Copy(d, t, S)
                            \/ Exit(d, t)
         \/ \E a \in asked[d] : Reply(d, a)
    \/ ServerEvent \/ ClientEvent \/ ServerReceive \/ ServerSend \/ ClientReceive \/ Turn

Spec == Init /\ [][Next]_vars

-----------------------------------------------------------------------------
(* A text a desktop passes on was copied there by a program: what vbridge  *)
(* offers for the other side never goes back to it, though it hears of its *)
(* own ownership as of any other and its question may be overtaken by it.  *)
CopiedAt(d, t) == \E i \in DOMAIN copies : copies[i] = [at |-> d, text |-> t]

NoEcho ==
    /\ \A d \in Desktop : get[d] # None => CopiedAt(d, get[d])
    /\ sending # None => CopiedAt("server", sending)
    /\ \A i \in DOMAIN wire["server"] : CopiedAt("client", wire["server"][i])

(* After a copy made while nothing else went on, in one selection or both, *)
(* the other desktop pastes that text from both its selections; if the     *)
(* text was copied before, it has the text but may not offer it.           *)
LastCopyArrives ==
    calm /\ Still =>
        LET c == Last(copies)
            once == \A i \in 1 .. Len(copies) - 1 : copies[i].text # c.text
        IN  /\ set[Far(c.at)] = c.text
            /\ once => \A s \in Selection : Pasted(Far(c.at), s) = c.text
=============================================================================
