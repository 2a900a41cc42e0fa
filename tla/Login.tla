-------------------------------- MODULE Login --------------------------------
(* Getting in: the methods a client tries one after the other (client.c),  *)
(* and what the server makes of them (server.c, auth-pam.c, user.c), with   *)
(* the delay PAM asks for after a failure, which is one for all clients,    *)
(* and the user ids the server takes on around every call of PAM.           *)
EXTENDS Integers, Sequences

CONSTANTS
    Client,     \* the clients
    User, Owner,\* the accounts, and the one that runs the server
    Acl,        \* [User -> 0 .. 2], the access list
    Delay,      \* what PAM asks for after a failure, in steps of the clock
    MaxTry      \* bound on the passwords typed by one user

NoOne == "no one"       \* a client without a name
Blank == ""             \* the name a failed call of PAM leaves

ASSUME LoginAssumption ==
    /\ Owner \in User /\ {NoOne, Blank} \cap User = {}
    /\ Acl \in [User -> 0 .. 2] /\ {Delay, MaxTry} \subseteq Nat

VARIABLES
    ticket,  \* clients with Kerberos credentials
    known,   \* clients whose certificate the server holds when they connect
    doing,   \* what a client does: new, trust, prompt, waiting, in or gone
    stage,   \* the static state of send_auth_all
    tries,   \* passwords typed
    up,      \* commands on their way to the server
    down,    \* levels and accesses on their way to a client
    name, level, access, mask, toTell,   \* of the server's client_t
    handle,  \* auth_pam.handle, which the next attempt overwrites
    vouched, \* the name PAM or the certificate proved (history)
    wait,    \* time left of the delay
    ids      \* the user ids of the server's process

clientVars == <<doing, stage, tries>>
serverVars == <<name, level, access, mask, toTell, handle, vouched, wait, ids>>
vars == <<ticket, known, clientVars, up, down, serverVars>>

Init ==
    /\ ticket \in SUBSET Client /\ known \in SUBSET Client
    /\ doing = [c \in Client |-> "new"]
    /\ stage = [c \in Client |-> 0]
    /\ tries = [c \in Client |-> 0]
    /\ up = [c \in Client |-> <<>>]
    /\ down = [c \in Client |-> <<>>]
    /\ name = [c \in Client |-> NoOne]
    /\ level = [c \in Client |-> 0]
    /\ access = [c \in Client |-> 0]
    /\ mask = [c \in Client |-> {"ssl", "pam"}]
    /\ toTell = [c \in Client |-> FALSE]
    /\ handle = [c \in Client |-> FALSE]
    /\ vouched = [c \in Client |-> NoOne]
    /\ wait = 0
    /\ ids = [real |-> "own", eff |-> "own", saved |-> "service", restore |-> "own"]

-----------------------------------------------------------------------------
(* user.c.  The capability to take any user id is raised around the change *)
(* and lowered before the way back, which must do with the ids at hand.    *)

ForgetLock(i, u) == [i EXCEPT !.real = u, !.restore = i.eff]
UserChange(i, u) == [i EXCEPT !.real = u, !.restore = i.real]

UserRestore(i) ==
    IF i.restore \in {i.real, i.eff, i.saved} THEN [i EXCEPT !.real = i.restore] ELSE i

(* pam_authenticate and pam_acct_mgmt as the user, pam_setcred as the      *)
(* effective user.                                                         *)
AsUser(i, u) == UserRestore(UserChange(i, u))
AsSelf(i) == UserRestore(UserChange(i, i.eff))

(* user_lock, from the start of the server on.                             *)
UserLock ==
    /\ \A c \in Client : doing[c] = "new"
    /\ ids' = [ids EXCEPT !.real = ids.saved]
    /\ UNCHANGED <<ticket, known, clientVars, up, down, name, level, access,
                   mask, toTell, handle, vouched, wait>>

-----------------------------------------------------------------------------
(* The client.                                                             *)

(* send_auth_all.  The first token of GSS is built, but core_send_data     *)
(* sends nothing for a client without access.                              *)
SendAuthAll(c) ==
    /\ \/ /\ stage[c] = 0 /\ c \in ticket
          /\ stage' = [stage EXCEPT ![c] = 1]
          /\ doing' = [doing EXCEPT ![c] = "waiting"]
       \/ /\ stage[c] = 1 \/ (stage[c] = 0 /\ c \notin ticket)
          /\ stage' = [stage EXCEPT ![c] = 2]
          /\ doing' = [doing EXCEPT ![c] = "trust"]
       \/ /\ stage[c] = 2
          /\ stage' = [stage EXCEPT ![c] = 3]
          /\ doing' = [doing EXCEPT ![c] = "prompt"]
       \/ /\ stage[c] = 3   \* without use_stdin the user is asked again
          /\ \E d \in {"prompt", "gone"} : doing' = [doing EXCEPT ![c] = d]
          /\ UNCHANGED stage
    /\ UNCHANGED <<ticket, known, tries, up, serverVars>>

(* command_start has been received: the TLS handshake is done.             *)
Begin(c) == doing[c] = "new" /\ SendAuthAll(c) /\ UNCHANGED down

(* send_auth_ssl, once the user has taken the server's certificate.        *)
SendAuthSsl(c) ==
    /\ doing[c] = "trust"
    /\ up' = [up EXCEPT ![c] = Append(@, [cmd |-> "ssl"])]
    /\ doing' = [doing EXCEPT ![c] = "waiting"]
    /\ UNCHANGED <<ticket, known, stage, tries, down, serverVars>>

(* send_auth and core_send_auth: a name and a password, right or wrong.    *)
SendAuth(c, u, right) ==
    /\ doing[c] = "prompt" /\ tries[c] < MaxTry
    /\ tries' = [tries EXCEPT ![c] = @ + 1]
    /\ up' = [up EXCEPT ![c] = Append(@, [cmd |-> "pam", user |-> u, right |-> right])]
    /\ doing' = [doing EXCEPT ![c] = "waiting"]
    /\ UNCHANGED <<ticket, known, stage, down, serverVars>>

(* The user cancels at a question of the terminal, or ends the client.     *)
Cancel(c) ==
    /\ doing[c] \notin {"new", "gone"}
    /\ doing' = [doing EXCEPT ![c] = "gone"]
    /\ UNCHANGED <<ticket, known, stage, tries, up, down, serverVars>>

(* command_access: a client that is not authenticated tries what is left,  *)
(* one that is refused ends.                                               *)
ReceiveAccess(c) ==
    /\ doing[c] \in {"waiting", "in"} /\ down[c] # <<>>
    /\ down' = [down EXCEPT ![c] = Tail(@)]
    /\ LET m == Head(down[c])
       IN  \/ m.level = 0 /\ SendAuthAll(c)
           \/ /\ m.level # 0
              /\ doing' = [doing EXCEPT ![c] = IF m.access = 0 THEN "gone" ELSE "in"]
              /\ UNCHANGED <<ticket, known, stage, tries, up, serverVars>>

-----------------------------------------------------------------------------
(* The server.                                                             *)

(* client_access: the client is told in any case, and an access that       *)
(* changes takes those of the namesakes.                                   *)
TellsChange(changes) == changes
Tells(changes) == TRUE

ClientAccess(c, n, a) ==
    LET takes == a # access[c]
        namesakes == IF takes THEN {o \in Client \ {c} : name[o] = n /\ n # NoOne} ELSE {}
    IN  /\ access' = [o \in Client |-> IF o = c THEN a
                                       ELSE IF o \in namesakes THEN 0 ELSE access[o]]
        /\ toTell' = [o \in Client |-> toTell[o] \/ (o = c /\ Tells(takes)) \/ o \in namesakes]

(* acl_get: a name that is not in the list has no access.                  *)
AclGet(n) == IF n \in User THEN Acl[n] ELSE 0

(* client_auth: without a name there is no level.                          *)
TrustLevel(n, l) == l
LevelOf(n, l) == IF n \in {NoOne, Blank} THEN 0 ELSE l

ClientAuth(c, n, l, m) ==
    LET new == LevelOf(n, l)
    IN  /\ name' = [name EXCEPT ![c] = n]
        /\ level' = [level EXCEPT ![c] = new]
        /\ mask' = [mask EXCEPT ![c] = IF new # 0 THEN {"access", "control"} ELSE m]
        /\ ClientAccess(c, n, IF new = 1 THEN AclGet(n) ELSE new)

Receives(c, cmd) ==
    /\ up[c] # <<>> /\ Head(up[c]).cmd = cmd /\ cmd \in mask[c]
    /\ up' = [up EXCEPT ![c] = Tail(@)]
    /\ UNCHANGED <<ticket, known, clientVars, down>>

AuthSsl(c) ==
    /\ Receives(c, "ssl")
    /\ \/ /\ c \in known
          /\ ClientAuth(c, Owner, 2, mask[c] \ {"ssl"})
          /\ vouched' = [vouched EXCEPT ![c] = Owner]
       \/ /\ c \notin known
          /\ ClientAuth(c, name[c], level[c], mask[c] \ {"ssl"})
          /\ UNCHANGED vouched
    /\ UNCHANGED <<handle, wait, ids>>

(* auth_pam_create, not before the delay is over.  PAM may refuse to start, *)
(* the password or the account, and asks for a delay of its own at the end *)
(* of pam_authenticate.  The password is given to PAM or wiped.  A failed  *)
(* call leaves a blank name, so the level is set, and the handle kept.     *)
Ready == wait = 0

AuthPam(c) ==
    /\ Receives(c, "pam") /\ Ready
    /\ LET m == Head(up[c])
           ends(n, d, i) ==
             /\ ClientAuth(c, n, IF n = Owner THEN 2 ELSE 1, mask[c])
             /\ wait' = d /\ ids' = i
             /\ vouched' = [vouched EXCEPT ![c] = IF n \in User THEN n ELSE @]
       IN  \/ ends(Blank, wait, ids) /\ handle' = [handle EXCEPT ![c] = FALSE]
           \/ /\ handle' = [handle EXCEPT ![c] = TRUE]
              /\ \/ ~m.right /\ ends(Blank, Delay, AsUser(ids, m.user))
                 \/ /\ m.right
                    /\ LET twice == AsUser(AsUser(ids, m.user), m.user)
                       IN  \/ \E d \in {0, Delay} : ends(Blank, d, twice)
                           \/ ends(m.user, 0, AsSelf(twice))

(* The send loop writes level and access as they are then.                 *)
Tell(c) ==
    /\ toTell[c] /\ doing[c] # "gone"
    /\ toTell' = [toTell EXCEPT ![c] = FALSE]
    /\ down' = [down EXCEPT ![c] = Append(@, [level |-> level[c], access |-> access[c]])]
    /\ UNCHANGED <<ticket, known, clientVars, up, name, level, access, mask,
                   handle, vouched, wait, ids>>

(* client_close, when the connection is found ended; auth_pam_delete ends  *)
(* the handle as the effective user.                                       *)
ClientClose(c) ==
    /\ doing[c] = "gone" /\ name[c] # "closed"
    /\ name' = [name EXCEPT ![c] = "closed"]
    /\ level' = [level EXCEPT ![c] = 0]
    /\ access' = [access EXCEPT ![c] = 0]
    /\ mask' = [mask EXCEPT ![c] = {}]
    /\ toTell' = [toTell EXCEPT ![c] = FALSE]
    /\ handle' = [handle EXCEPT ![c] = FALSE]
    /\ vouched' = [vouched EXCEPT ![c] = NoOne]
    /\ ids' = IF handle[c] THEN AsSelf(ids) ELSE ids
    /\ up' = [up EXCEPT ![c] = <<>>]
    /\ down' = [down EXCEPT ![c] = <<>>]
    /\ UNCHANGED <<ticket, known, clientVars, wait>>

Tick ==
    /\ wait > 0 /\ wait' = wait - 1
    /\ UNCHANGED <<ticket, known, clientVars, up, down, name, level, access, mask,
                   toTell, handle, vouched, ids>>

Next ==
    \/ UserLock \/ Tick
    \/ \E c \in Client :
         \/ Begin(c) \/ SendAuthSsl(c) \/ Cancel(c) \/ ReceiveAccess(c)
         \/ \E u \in User, right \in BOOLEAN : SendAuth(c, u, right)
         \/ AuthSsl(c) \/ AuthPam(c) \/ Tell(c) \/ ClientClose(c)

Spec == Init /\ [][Next]_vars

(* Both main loops come round, the clock goes on.  Users answer or not.    *)
Fairness ==
    /\ WF_vars(Tick)
    /\ \A c \in Client : /\ WF_vars(Begin(c)) /\ WF_vars(ReceiveAccess(c))
                         /\ WF_vars(AuthSsl(c) \/ AuthPam(c)) /\ WF_vars(Tell(c))

FairSpec == Spec /\ Fairness

-----------------------------------------------------------------------------
(* Whoever has a level was vouched for in this connection under the very   *)
(* name the access list is asked for, and only the owner has the level of  *)
(* an administrator: a blank name, a level left from an attempt before or  *)
(* a method that failed gives nothing.                                     *)
OnlyVerified ==
    \A c \in Client : level[c] > 0 =>
        /\ name[c] = vouched[c]
        /\ level[c] = 2 <=> vouched[c] = Owner

(* Around all calls of PAM, of any client and whatever they answer, the    *)
(* real user id comes back to what it was: a server that was locked stays  *)
(* locked.                                                                 *)
LockKept == [][ids'.real = ids.real \/ UserLock]_vars

(* A client is not left waiting for ever: what it sent is answered, or it  *)
(* asks its user for the next thing, however many others fail and make the *)
(* delay begin again.                                                      *)
Waits(c) == doing[c] \in {"new", "waiting"}
NotLeftWaiting == \A c \in Client : c \notin ticket => []<>~Waits(c)

(* The same of every client, with Kerberos credentials or without: each is *)
(* let in or asked for a login and a password.                             *)
LoginAsked == \A c \in Client : Waits(c) ~> ~Waits(c)
=============================================================================
