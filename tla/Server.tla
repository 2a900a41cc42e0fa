------------------------------- MODULE Server -------------------------------
(***************************************************************************)
(* The sessions of the server and who drives its keyboard and mouse:       *)
(* src/src/server.c, with auth and access levels, the administrator's      *)
(* commands, the master client, and what each client is told about them.   *)
(*                                                                         *)
(* The program is one thread.  Each action is what it does for one         *)
(* command of one client, from reading the command to going back to        *)
(* command_next, or for one timer or one message it sends.  The order in   *)
(* which clients come to speak is free.  The screen, the clipboard and     *)
(* the bytes on the wire are not in this module.                           *)
(***************************************************************************)
EXTENDS Input

CONSTANTS
    Client,          \* the connections the server can hold at once
    NoClient,
    Name,            \* user names
    NoName,          \* a NULL name: no authentication has given one
    EmptyName,       \* the empty string a failed PAM login leaves
    Owner,           \* user_name(): the user the server runs as
    GssLevel,        \* the levels auth_gss_get_level gives to a name
    ActivityTimeout  \* whether the server was given an inactivity timeout

ASSUME ServerAssumption ==
    /\ NoClient \notin Client
    /\ Owner \in Name
    /\ NoName \notin Name
    /\ EmptyName \notin Name
    /\ NoName # EmptyName
    /\ GssLevel \subseteq 0 .. 2
    /\ ActivityTimeout \in BOOLEAN

VARIABLES
    clients,     \* the clients in the list global.clients
    newer,       \* newer[c]: the clients before c in that list
    phase,       \* "open", "closing" (c->close) or "stopping" (after a stop)
    name,        \* c->name
    level,       \* c->level: 0 unknown, 1 guest, 2 owner
    access,      \* c->access: 0 none, 1 view, 2 drive
    mask,        \* the commands in c->recv.mask; none before the handshake
    toSend,      \* the bits access and master of c->to_send
    told,        \* level and access as last written to c
    toldMaster,  \* the master flag as last written to c
    acl,         \* global.acl as a function, 0 when there is no entry
    master,      \* global.master.client
    masterFresh, \* there is a master and global.master.time is less than
                 \* CONFIG_MASTER_TIMEOUT old (it is not read without one)
    armed,       \* global.activity.time is set and will be looked at
    running

clientVars == <<phase, name, level, access, mask, toSend, told, toldMaster>>
masterVars == <<master, masterFresh>>
listVars   == <<clients, newer>>
vars == <<inputVars, listVars, clientVars, masterVars, acl, armed, running>>

Level == 0 .. 2
Nothing == <<>>      \* told[c] before the first command_access to c

(* Variants named Bad... are slips the properties must notice.             *)

BadAuthCommand == {"auth_ssl", "auth_pam", "auth_gss", "access"}

AuthCommand == {"auth_ssl", "auth_pam", "auth_gss"}
BaseCommand == {"access", "control"}
FullCommand == BaseCommand \cup
    {"pointer", "pointer_sync", "button", "key", "image", "quality",
     "resize", "clipboard"}
Command == AuthCommand \cup FullCommand

TypeOK ==
    /\ InputTypeOK
    /\ clients \subseteq Client
    /\ newer \in [Client -> SUBSET Client]
    /\ phase \in [Client -> {"open", "closing", "stopping"}]
    /\ name \in [Client -> Name \cup {NoName, EmptyName}]
    /\ level \in [Client -> Level]
    /\ access \in [Client -> Level]
    /\ mask \in [Client -> SUBSET Command]
    /\ toSend \in [Client -> SUBSET {"access", "master"}]
    /\ told \in [Client -> {Nothing} \cup (Level \X Level)]
    /\ toldMaster \in [Client -> BOOLEAN]
    /\ acl \in [Name -> Level]
    /\ master \in Client \cup {NoClient}
    /\ masterFresh \in BOOLEAN
    /\ armed \in BOOLEAN
    /\ running \in BOOLEAN

Init ==
    /\ InputInit
    /\ clients = {}
    /\ newer = [c \in Client |-> {}]
    /\ phase = [c \in Client |-> "open"]
    /\ name = [c \in Client |-> NoName]
    /\ level = [c \in Client |-> 0]
    /\ access = [c \in Client |-> 0]
    /\ mask = [c \in Client |-> {}]
    /\ toSend = [c \in Client |-> {}]
    /\ told = [c \in Client |-> Nothing]
    /\ toldMaster = [c \in Client |-> FALSE]
    /\ acl = [n \in Name |-> 0]
    /\ master = NoClient
    /\ masterFresh = FALSE
    /\ armed = FALSE
    /\ running = TRUE

-----------------------------------------------------------------------------
(* Connections.  A client record is allocated zeroed and freed at the end, *)
(* so the state of a client outside the list is that of Init.              *)

(* client_accept puts the new client first.                                *)
Accept(c) ==
    /\ running
    /\ c \notin clients
    /\ clients' = clients \cup {c}
    /\ newer' = [d \in Client |->
                    IF d \in clients THEN newer[d] \cup {c} ELSE {}]
    /\ UNCHANGED <<inputVars, clientVars, masterVars, acl, armed, running>>

(* netio_start succeeds; close is looked at only afterwards.               *)
Start(c) ==
    /\ running
    /\ c \in clients
    /\ mask[c] = {}
    /\ mask' = [mask EXCEPT ![c] = AuthCommand]
    /\ UNCHANGED <<inputVars, listVars, phase, name, level, access, toSend,
                   told, toldMaster, masterVars, acl, armed, running>>

BadMasterStopHeld(cs) ==
    IF master \in cs
    THEN master' = NoClient /\ masterFresh' = FALSE /\ UNCHANGED inputVars
    ELSE UNCHANGED <<inputVars, masterVars>>

(* What client_master_stop does to the keyboard, the mouse and master when *)
(* the clients in cs are stopped.  The bit in to_send is set by the caller.*)
MasterStop(cs) ==
    IF master \in cs
    THEN InputRelease /\ master' = NoClient /\ masterFresh' = FALSE
    ELSE UNCHANGED <<inputVars, masterVars>>

(* client_close: the connection is over, whatever the reason: the peer is  *)
(* gone, a read, a write or the handshake failed, a message was malformed, *)
(* a command was not in recv.mask, or the stop was carried out.            *)
ClientClose(c) ==
    /\ running
    /\ c \in clients
    /\ clients' = clients \ {c}
    /\ newer' = [d \in Client |-> IF d = c THEN {} ELSE newer[d] \ {c}]
    /\ phase' = [phase EXCEPT ![c] = "open"]
    /\ name' = [name EXCEPT ![c] = NoName]
    /\ level' = [level EXCEPT ![c] = 0]
    /\ access' = [access EXCEPT ![c] = 0]
    /\ mask' = [mask EXCEPT ![c] = {}]
    /\ toSend' = [toSend EXCEPT ![c] = {}]
    /\ told' = [told EXCEPT ![c] = Nothing]
    /\ toldMaster' = [toldMaster EXCEPT ![c] = FALSE]
    /\ MasterStop({c})
    /\ UNCHANGED <<acl, armed, running>>

(* The command a client is about to give is in its mask and it is neither  *)
(* stopping nor about to be (command_next looks at close first).           *)
Receives(c, command) ==
    /\ running
    /\ c \in clients
    /\ phase[c] = "open"
    /\ command \in mask[c]

BadHonourClose(c) ==
    /\ running /\ c \in clients /\ mask[c] # {} /\ phase[c] = "closing"
    /\ master # c
    /\ phase' = [phase EXCEPT ![c] = "stopping"]
    /\ UNCHANGED <<inputVars, listVars, name, level, access, mask, toSend,
                   told, toldMaster, masterVars, acl, armed, running>>

(* command_next replaces the next command of a client with the close flag  *)
(* by a stop.  Before the handshake is over it does not run.               *)
HonourClose(c) ==
    /\ running
    /\ c \in clients
    /\ mask[c] # {}
    /\ phase[c] = "closing"
    /\ phase' = [phase EXCEPT ![c] = "stopping"]
    /\ UNCHANGED <<inputVars, listVars, name, level, access, mask, toSend,
                   told, toldMaster, masterVars, acl, armed, running>>

(* The client sends a stop, accepted whatever the mask.                    *)
PeerStop(c) ==
    /\ running
    /\ c \in clients
    /\ mask[c] # {}
    /\ phase[c] = "open"
    /\ phase' = [phase EXCEPT ![c] = "stopping"]
    /\ UNCHANGED <<inputVars, listVars, name, level, access, mask, toSend,
                   told, toldMaster, masterVars, acl, armed, running>>

(* The send side has nothing left for a stopping client: netio_stop, then  *)
(* client_end.                                                             *)
Finish(c) ==
    /\ phase[c] = "stopping"
    /\ toSend[c] = {}
    /\ ClientClose(c)

-----------------------------------------------------------------------------
(* Access.                                                                 *)

BadNamesakes(c, names) ==
    {d \in clients \ {c} : names[d] = name[c] /\ name[c] # NoName}

(* The other clients in the list with the name of c: str_cmp finds a NULL  *)
(* name different from every name.                                         *)
Namesakes(c, names) ==
    {d \in clients \ {c} : names[d] = names[c] /\ names[c] # NoName}

BadAccessNews(c, others) == {c}

(* Whom client_access tells: the client, and those it took an access from. *)
AccessNews(c, others) == others \cup {c}

(* client_access for a client c that is given access a, names being the    *)
(* names after the step.                                                   *)
ClientAccess(c, a, names) ==
    LET changed == access[c] # a
        others  == IF changed THEN Namesakes(c, names) ELSE {}
        stopped == IF changed /\ a # 2 THEN {c} ELSE {}
    IN  /\ access' = [d \in Client |-> IF d = c THEN a
                                       ELSE IF d \in others THEN 0
                                       ELSE access[d]]
        /\ toSend' = [d \in Client |->
                        toSend[d]
                        \cup (IF d \in AccessNews(c, others)
                              THEN {"access"} ELSE {})
                        \cup (IF d \in stopped /\ d = master
                              THEN {"master"} ELSE {})]
        /\ armed' = (armed \/ (changed /\ ActivityTimeout))
        /\ MasterStop(stopped)

(* client_auth: n and l are the name and the level the authentication      *)
(* left in c, m is recv.mask for a client that is not let in.              *)
ClientAuth(c, n, l, m) ==
    LET newLevel == IF n \in Name THEN l ELSE 0
        newName  == [name EXCEPT ![c] = n]
    IN  /\ name' = newName
        /\ level' = [level EXCEPT ![c] = newLevel]
        /\ mask' = [mask EXCEPT ![c] = IF newLevel # 0 THEN BaseCommand ELSE m]
        /\ ClientAccess(c, IF newLevel = 1 THEN acl[n] ELSE newLevel, newName)
        /\ UNCHANGED <<listVars, phase, told, toldMaster, acl, running>>

(* command_auth_ssl: may be tried once.  The certificate is the owner's or *)
(* it is refused.                                                          *)
AuthSsl(c) ==
    /\ Receives(c, "auth_ssl")
    /\ \/ ClientAuth(c, Owner, 2, mask[c] \ {"auth_ssl"})
       \/ ClientAuth(c, name[c], level[c], mask[c] \ {"auth_ssl"})

(* command_auth_pam: success gives the name PAM knows the user by; failure *)
(* leaves an empty name; without a user name in the message PAM is not     *)
(* called and the name c had, if any, stands.                              *)
PamLevel(n) == IF n = Owner THEN 2 ELSE 1

AuthPam(c) ==
    /\ Receives(c, "auth_pam")
    /\ \/ \E n \in Name : ClientAuth(c, n, PamLevel(n), mask[c])
       \/ ClientAuth(c, EmptyName, 1, mask[c])
       \/ ClientAuth(c, name[c],
                     IF name[c] = NoName THEN level[c] ELSE PamLevel(name[c]),
                     mask[c])

(* command_auth_gss: the last token of an exchange gives a name and a      *)
(* level, or an error leaves both alone.  A token that asks for another    *)
(* one changes nothing here.                                               *)
AuthGss(c) ==
    /\ Receives(c, "auth_gss")
    /\ \/ \E n \in Name, l \in GssLevel : ClientAuth(c, n, l, mask[c])
       \/ ClientAuth(c, EmptyName, 0, mask[c])
       \/ ClientAuth(c, name[c], level[c], mask[c])

(* The inactivity timeout of the main loop takes every access away.  It    *)
(* does not stop the master.                                               *)
Inactivity ==
    /\ running
    /\ armed
    /\ armed' = FALSE
    /\ access' = [c \in Client |-> IF c \in clients THEN 0 ELSE access[c]]
    /\ toSend' = [c \in Client |-> IF c \in clients /\ access[c] # 0
                                   THEN toSend[c] \cup {"access"}
                                   ELSE toSend[c]]
    /\ UNCHANGED <<inputVars, listVars, phase, name, level, mask, told,
                   toldMaster, masterVars, acl, running>>

-----------------------------------------------------------------------------
(* The master.                                                             *)

(* The conditions under which client_master answers 1.  Another client's   *)
(* mastership can be taken over when it has not been used for a while and  *)
(* nothing is held down.                                                   *)
MayDrive(c) ==
    /\ access[c] = 2
    /\ \/ master \in {c, NoClient}
       \/ ~masterFresh /\ ~NeedRelease

BadBecomeMaster(c) ==
    /\ master' = c
    /\ masterFresh' = TRUE
    /\ toSend' = [toSend EXCEPT ![c] = IF master # c THEN @ \cup {"master"}
                                                   ELSE @]

(* What it does then: both clients will be told of a change.               *)
BecomeMaster(c) ==
    /\ master' = c
    /\ masterFresh' = TRUE
    /\ toSend' = [d \in Client |-> IF master # c /\ d \in {c, master}
                                   THEN toSend[d] \cup {"master"}
                                   ELSE toSend[d]]

(* command_access: the client asks for what its access allows.             *)
AccessRequest(c) ==
    /\ Receives(c, "access")
    /\ access[c] # 0
    /\ mask' = [mask EXCEPT ![c] = FullCommand]
    /\ IF MayDrive(c) THEN BecomeMaster(c) ELSE UNCHANGED <<masterVars, toSend>>
    /\ UNCHANGED <<inputVars, listVars, phase, name, level, access, told,
                   toldMaster, acl, armed, running>>

(* The part common to the commands that move, click and type; refused,     *)
(* they change nothing.                                                    *)
Drive(c, command) ==
    /\ Receives(c, command)
    /\ MayDrive(c)
    /\ BecomeMaster(c)
    /\ armed' = ActivityTimeout
    /\ UNCHANGED <<listVars, phase, name, level, access, mask, told,
                   toldMaster, acl, running>>

Pointer(c) == Drive(c, "pointer") /\ UNCHANGED inputVars

PushButton(c) == Drive(c, "button") /\ \E b \in Button : InputButton(b)

TypeKey(c) == Drive(c, "key") /\ \E k \in Key : InputKey(k)

(* command_key with key 0.                                                 *)
Reset(c) == Drive(c, "key") /\ InputRelease

(* command_quality and command_resize, taken from the master only.  The    *)
(* settings themselves are not in this module.                             *)
Setting(c, command) ==
    /\ Receives(c, command)
    /\ master = c
    /\ armed' = ActivityTimeout
    /\ UNCHANGED <<inputVars, listVars, clientVars, masterVars, acl, running>>

Quality(c) == Setting(c, "quality")
Resize(c)  == Setting(c, "resize")

(* CONFIG_MASTER_TIMEOUT passes without a command of the master, or the    *)
(* clock is set back.                                                      *)
MasterIdle ==
    /\ running
    /\ masterFresh
    /\ masterFresh' = FALSE
    /\ UNCHANGED <<inputVars, listVars, clientVars, master, acl, armed, running>>

-----------------------------------------------------------------------------
(* command_control, from clients of level 2 only.  The words that only     *)
(* answer (list, log, version, stat, key) change nothing here.             *)

Administers(c) == Receives(c, "control") /\ level[c] = 2

(* acl <name> <level>                                                      *)
ControlAcl(c) ==
    /\ Administers(c)
    /\ \E n \in Name, l \in Level : acl' = [acl EXCEPT ![n] = l]
    /\ UNCHANGED <<inputVars, listVars, clientVars, masterVars, armed, running>>

(* user <name> <access>: the loop of client_control_user calls             *)
(* client_access for each client of that name in list order, and each call *)
(* that changes an access takes it from the other clients of the name.  So *)
(* if any of them has another access, the last of them in the list ends    *)
(* with it, all others with none.                                          *)
Named(n) == {d \in clients : name[d] = n}

Differing(n, a) == {d \in Named(n) : access[d] # a}

BadUserAccess(n, a) ==
    [d \in Client |-> IF d \in Named(n) THEN a ELSE access[d]]

UserAccess(n, a) ==
    [d \in Client |->
        IF d \in Named(n) /\ Differing(n, a) # {}
        THEN IF Named(n) \ {d} \subseteq newer[d] THEN a ELSE 0
        ELSE access[d]]

BadUserStopped(n, a) ==
    IF a = 2 THEN {}
    ELSE {d \in Differing(n, a) : newer[d] \cap Differing(n, a) = {}}

(* The clients for which the loop reaches client_master_stop.  For access  *)
(* 1 the calls that change something are all those from the first client   *)
(* that differs; for access 0 that one zeroes the others, so it is alone.  *)
UserStopped(n, a) ==
    CASE a = 0 -> {d \in Differing(n, a) : newer[d] \cap Differing(n, a) = {}}
      [] a = 1 -> {d \in Named(n) :
                      ({d} \cup newer[d]) \cap Differing(n, a) # {}}
      [] a = 2 -> {}

ControlUser(c) ==
    /\ Administers(c)
    /\ \E n \in Name, a \in Level :
        /\ access' = UserAccess(n, a)
        /\ toSend' = [d \in Client |->
                        toSend[d]
                        \cup (IF d \in Named(n) THEN {"access"} ELSE {})
                        \cup (IF d \in UserStopped(n, a) /\ d = master
                              THEN {"master"} ELSE {})]
        /\ armed' = (armed \/ (Differing(n, a) # {} /\ ActivityTimeout))
        /\ MasterStop(UserStopped(n, a))
    /\ UNCHANGED <<listVars, phase, name, level, mask, told, toldMaster,
                   acl, running>>

(* close [<name>]: sets the close flag of all other clients, or of those   *)
(* of that name.                                                           *)
ControlClose(c) ==
    /\ Administers(c)
    /\ \E ds \in {clients} \cup {Named(n) : n \in Name} :
        phase' = [d \in Client |-> IF d \in ds \ {c} /\ phase[d] = "open"
                                   THEN "closing" ELSE phase[d]]
    /\ UNCHANGED <<inputVars, listVars, name, level, access, mask, toSend,
                   told, toldMaster, masterVars, acl, armed, running>>

-----------------------------------------------------------------------------
(* What clients are told.  A bit of to_send is cleared when the message is *)
(* begun; what is written is what holds then.  command_next takes the      *)
(* lowest bit first: access before master.                                 *)

SendAccess(c) ==
    /\ running
    /\ "access" \in toSend[c]
    /\ toSend' = [toSend EXCEPT ![c] = @ \ {"access"}]
    /\ told' = [told EXCEPT ![c] = <<level[c], access[c]>>]
    /\ UNCHANGED <<inputVars, listVars, phase, name, level, access, mask,
                   toldMaster, masterVars, acl, armed, running>>

BadSendMaster(c) ==
    /\ running
    /\ "master" \in toSend[c]
    /\ toSend' = [toSend EXCEPT ![c] = @ \ {"master"}]
    /\ toldMaster' = [toldMaster EXCEPT ![c] = (master = c)]
    /\ UNCHANGED <<inputVars, listVars, phase, name, level, access, mask,
                   told, masterVars, acl, armed, running>>

SendMaster(c) ==
    /\ running
    /\ toSend[c] = {"master"}
    /\ toSend' = [toSend EXCEPT ![c] = {}]
    /\ toldMaster' = [toldMaster EXCEPT ![c] = (master = c)]
    /\ UNCHANGED <<inputVars, listVars, phase, name, level, access, mask,
                   told, masterVars, acl, armed, running>>

(* client.c: a client told that it is known but has no access says "access *)
(* denied" and exits; the server then closes it.                           *)
ClientQuits(c) ==
    /\ told[c] \in {<<l, 0>> : l \in Level \ {0}}
    /\ ClientClose(c)

(* main_exit, at any time: every client is closed, then input_exit.        *)
Exit ==
    /\ running
    /\ running' = FALSE
    /\ InputRelease
    /\ clients' = {}
    /\ newer' = [c \in Client |-> {}]
    /\ phase' = [c \in Client |-> "open"]
    /\ name' = [c \in Client |-> NoName]
    /\ level' = [c \in Client |-> 0]
    /\ access' = [c \in Client |-> 0]
    /\ mask' = [c \in Client |-> {}]
    /\ toSend' = [c \in Client |-> {}]
    /\ told' = [c \in Client |-> Nothing]
    /\ toldMaster' = [c \in Client |-> FALSE]
    /\ master' = NoClient
    /\ masterFresh' = FALSE
    /\ UNCHANGED <<acl, armed>>

Next ==
    \/ \E c \in Client :
        \/ Accept(c) \/ Start(c) \/ ClientClose(c)
        \/ HonourClose(c) \/ PeerStop(c) \/ Finish(c)
        \/ AuthSsl(c) \/ AuthPam(c) \/ AuthGss(c)
        \/ AccessRequest(c)
        \/ Pointer(c) \/ PushButton(c) \/ TypeKey(c) \/ Reset(c)
        \/ Quality(c) \/ Resize(c)
        \/ ControlAcl(c) \/ ControlUser(c) \/ ControlClose(c)
        \/ SendAccess(c) \/ SendMaster(c)
        \/ ClientQuits(c)
    \/ Inactivity
    \/ MasterIdle
    \/ Exit

Spec == Init /\ [][Next]_vars

(* The main loop comes back to every client and writes all it has to say   *)
(* as long as there is room, which a client that reads makes again and     *)
(* again; a client that was refused does exit.                             *)
Fairness ==
    \A c \in Client :
        /\ WF_vars(HonourClose(c))
        /\ WF_vars(SendAccess(c))
        /\ SF_vars(SendMaster(c))
        /\ SF_vars(Finish(c))
        /\ WF_vars(ClientQuits(c))

FairSpec == Spec /\ Fairness

-----------------------------------------------------------------------------
(* Properties.                                                             *)

(* global.master.client is a pointer into the list: whatever closes a      *)
(* client, it never points to a freed one.                                 *)
MasterConnected == master # NoClient => master \in clients

(* Nobody's key or button is held down: when no client is the master,      *)
(* every path that ended the last mastership has released its keys.        *)
HeldHasMaster == NeedRelease => master # NoClient

(* A client that may only view is never the master: lowering an access     *)
(* from 2 to 1, for one client or for a whole name, stops it.              *)
MasterNeverViewOnly == master # NoClient => access[master] # 1

(* Only a client that passed an authentication, and was let in by asking   *)
(* for access after it, drives: recv.mask keeps all others out, also those *)
(* an administrator gave an access to by a name they failed to prove.      *)
MasterAuthenticated ==
    master # NoClient => level[master] # 0 /\ mask[master] = FullCommand

(* No change of access or mastership is lost on a client: what it was told *)
(* last is still true, or another message is on its way.  Both are         *)
(* rewritten by takeovers and administrators while the last word on them   *)
(* is still being sent.                                                    *)
AccessInSync ==
    \A c \in clients :
        \/ "access" \in toSend[c]
        \/ told[c] = <<level[c], access[c]>>
        \/ told[c] = Nothing /\ level[c] = 0 /\ access[c] = 0

MasterInSync ==
    \A c \in clients :
        "master" \in toSend[c] \/ toldMaster[c] = (master = c)

ToldInSync == AccessInSync /\ MasterInSync

(* One user, one session: at most one client of a name has an access, as   *)
(* client_access is written to achieve.  It needs authentications that     *)
(* give a name only with a level: see the README for how a name without    *)
(* one defeats it.                                                         *)
OneAccessPerName ==
    0 \notin GssLevel => \A c, d \in clients :
        c # d /\ name[c] = name[d] /\ access[c] # 0 => access[d] = 0

(* A new master finds every key and low button up in the X server itself,  *)
(* not only in the server's tables: nothing the former one held stays      *)
(* pressed under the next one's hands (on a stable keyboard map).          *)
HandoverClean ==
    [][StableMap /\ master # NoClient /\ master' # master =>
         IF master' = NoClient
         THEN xkeys' = {} /\ xbuttons' \cap LowButton = {}
         ELSE xkeys = {} /\ xbuttons \cap LowButton = {}]_vars

(* A client hears that it is the master only after it has heard the access *)
(* that it has at that time.                                               *)
AccessToldFirst ==
    [][\A c \in Client :
         toldMaster'[c] /\ ~toldMaster[c] => told[c] = <<level[c], access[c]>>]_vars

(* A master whose access was taken away by a namesake or by the inactivity *)
(* timeout is not stopped by the server and blocks every other client as   *)
(* long as it holds a key; it goes when its client hears of the refusal.   *)
StaleMasterLeaves ==
    \A c \in Client :
        (master = c /\ access[c] = 0) ~> (master # c \/ access[c] # 0)

(* A close flag ends the client once it has finished the handshake.        *)
ClosedLeaves ==
    \A c \in Client :
        (phase[c] = "closing" /\ mask[c] # {}) ~> (c \notin clients)

(* The keyboard and the mouse are a baton: the server implements Baton.    *)
B == INSTANCE Baton WITH holder <- master, held <- NeedRelease

BatonSpec == B!Spec
=============================================================================
