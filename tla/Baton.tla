------------------------------- MODULE Baton -------------------------------
(***************************************************************************)
(* What the server promises about the keyboard and the mouse: they are a   *)
(* baton that at most one client holds.  A client takes the baton, from    *)
(* nobody or from the one that holds it, only while no key and no button   *)
(* is held down; giving it up lifts everything.                            *)
(***************************************************************************)
CONSTANTS
    Client,
    NoClient    \* not a member of Client

VARIABLES
    holder,     \* the client that drives the keyboard and the mouse
    held        \* something is held down on its behalf

TypeOK ==
    /\ holder \in Client \cup {NoClient}
    /\ held \in BOOLEAN

Init == holder = NoClient /\ held = FALSE

(* The taker's first input may already press something.                    *)
Take(c) ==
    /\ holder # c
    /\ ~held
    /\ holder' = c
    /\ held' \in BOOLEAN

Use ==
    /\ holder # NoClient
    /\ held' \in BOOLEAN
    /\ UNCHANGED holder

GiveUp ==
    /\ holder' = NoClient
    /\ held' = FALSE

Next == (\E c \in Client : Take(c)) \/ Use \/ GiveUp

Spec == Init /\ [][Next]_<<holder, held>>
=============================================================================
