------------------------------- MODULE UserLoop -------------------------------
(* The loop of client_control_user over the list of clients, with its      *)
(* calls of client_access one by one (server.c), and what Server says it   *)
(* comes to in one step.                                                   *)
EXTENDS Integers, SequencesExt

CONSTANTS
    Client,  \* the clients
    Name     \* the names they may have

VARIABLES
    order,   \* global.clients
    name,    \* c->name
    access   \* c->access

vars == <<order, name, access>>

Level == 0 .. 2

Sessions == INSTANCE Server WITH
    clients <- ToSet(order),
    newer <- [c \in Client |->
        {order[i] : i \in {j \in DOMAIN order : \E k \in DOMAIN order : j < k /\ order[k] = c}}],
    NoClient <- "nobody", NoName <- "no name", EmptyName <- "",
    Owner <- CHOOSE n \in Name : TRUE,
    GssLevel <- {}, ActivityTimeout <- FALSE,
    Key <- {}, KeyCode <- {}, NoCode <- 0, Resolve <- <<>>, Button <- {},
    keys <- <<>>, button <- {}, xkeys <- {}, xbuttons <- {},
    phase <- "open", level <- 2, mask <- {}, toSend <- {}, told <- 0,
    toldMaster <- FALSE, acl <- 0, master <- "nobody", masterFresh <- FALSE,
    armed <- FALSE, running <- TRUE

Init ==
    /\ order \in SetToSeqs(Client)
    /\ name \in [Client -> Name]
    /\ access \in [Client -> Level]

(* One call of client_access: st.bits are the clients that will be told,   *)
(* st.stopped those client_master_stop is called for.                      *)
ClientAccess(st, l, a) ==
    LET others == {d \in ToSet(order) \ {l} : name[d] = name[l]}
    IN  IF st.access[l] = a
        THEN [st EXCEPT !.bits = @ \cup {l}]
        ELSE [access  |-> [d \in Client |-> IF d = l THEN a
                                            ELSE IF d \in others THEN 0
                                            ELSE st.access[d]],
              bits    |-> st.bits \cup {l} \cup others,
              stopped |-> st.stopped \cup (IF a # 2 THEN {l} ELSE {})]

Loop(n, a) ==
    LET st[i \in 0 .. Len(order)] ==
            IF i = 0 THEN [access |-> access, bits |-> {}, stopped |-> {}]
            ELSE IF name[order[i]] = n THEN ClientAccess(st[i - 1], order[i], a)
            ELSE st[i - 1]
    IN  st[Len(order)]

ControlUser(n, a) ==
    /\ access' = Loop(n, a).access
    /\ UNCHANGED <<order, name>>

ClientClose(c) ==
    /\ \E i \in DOMAIN order : order[i] = c /\ order' = RemoveAt(order, i)
    /\ access' = [access EXCEPT ![c] = 0]
    /\ UNCHANGED name

Next ==
    \/ \E n \in Name, a \in Level : ControlUser(n, a)
    \/ \E c \in Client : ClientClose(c)

Spec == Init /\ [][Next]_vars

-----------------------------------------------------------------------------
(* The closed form Server uses for `user <name> <access>` is what the loop *)
(* does: the namesakes a call takes the access from are met again by the   *)
(* loop, or were met before, so the order of the list decides who ends     *)
(* with the access, who is told and whose mastership ends.                 *)
UserLoopAgrees ==
    \A n \in Name, a \in Level :
        Loop(n, a) = [access  |-> Sessions!UserAccess(n, a),
                      bits    |-> Sessions!Named(n),
                      stopped |-> Sessions!UserStopped(n, a)]
=============================================================================
