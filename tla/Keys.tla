-------------------------------- MODULE Keys ---------------------------------
(* The certificates of both programs: made from a private key that is kept *)
(* in a file, compared with those of a store at the TLS handshake, and     *)
(* kept in the files accept of the server and connect of the client        *)
(* (openssl.c, auth-ssl.c, storage.c, the key commands of server.c).  A    *)
(* program may end at any moment, also while it writes a file.             *)
EXTENDS Integers, FiniteSets, SequencesExt

CONSTANTS
    Proc,      \* runs of the client that may be up at a time, on one host
    Server,
    MaxStart,  \* bound on the starts of programs
    MaxCommand \* bound on the key commands

NoCert == <<"none", 0>>
NoFile == [there |-> FALSE, lines |-> <<>>]
Program == Proc \cup {Server}

KeysAssumption == Server \notin Proc /\ {MaxStart, MaxCommand} \subseteq Nat

VARIABLES
    starts,   \* programs started, the time that goes into a certificate
    commands, \* key commands given
    file,     \* lines of accept, connect and each host's private file
    phase,    \* of each program: off, on or, a client, connected
    cert,     \* its own certificate
    store,    \* the certificates it trusts
    saving,   \* the file it writes and the lines it has still to write
    peer,     \* of a client: the certificate the server showed
    known,    \* of a client: what the server's openssl_verify answers
    trusts,   \* of a client: what its own openssl_verify answers
    goal,     \* what the last save of a file was to write (history)
    torn,     \* files whose last save was cut off (history)
    accepted, \* the server's store at the handshake of each client (history)
    pasted    \* when the README's paste was made, 0 if not (history)

vars == <<starts, commands, file, phase, cert, store, saving, peer, known, trusts,
          goal, torn, accepted, pasted>>

File == {"accept", "connect", "key of the server", "key of the client"}
StoreFile(x) == IF x = Server THEN "accept" ELSE "connect"
KeyFile(x) == IF x = Server THEN "key of the server" ELSE "key of the client"
Lines(f) == ToSet(file[f].lines)
Idle == [to |-> "", left |-> <<>>]

Init ==
    /\ starts = 0 /\ commands = 0 /\ pasted = 0
    /\ file = [f \in File |-> NoFile]
    /\ phase = [x \in Program |-> "off"]
    /\ cert = [x \in Program |-> NoCert]
    /\ store = [x \in Program |-> {}]
    /\ saving = [x \in Program |-> Idle]
    /\ peer = [p \in Proc |-> NoCert]
    /\ known = [p \in Proc |-> FALSE]
    /\ trusts = [p \in Proc |-> FALSE]
    /\ goal = [f \in File |-> {}]
    /\ torn = {}
    /\ accepted = [p \in Proc |-> {}]

-----------------------------------------------------------------------------
(* storage_save: the file is emptied and written line by line.  Two        *)
(* programs that write a file at a time are left out.                      *)

KeptOnOpen(f) == [there |-> TRUE, lines |-> file[f].lines]
Opened(f) == [there |-> TRUE, lines |-> <<>>]

Free(f) == \A x \in Program : saving[x].to # f

StorageSave(x, f, lines) ==
    /\ Free(f)
    /\ file' = [file EXCEPT ![f] = Opened(f)]
    /\ goal' = [goal EXCEPT ![f] = lines]
    /\ torn' = torn \ {f}
    /\ \E s \in SetToSeqs(lines) :
         saving' = [saving EXCEPT ![x] = IF s = <<>> THEN Idle ELSE [to |-> f, left |-> s]]

SaveLine(x) ==
    /\ saving[x] # Idle
    /\ LET s == saving[x]
       IN  /\ file' = [file EXCEPT ![s.to].lines = Append(@, Head(s.left))]
           /\ saving' = [saving EXCEPT ![x] = IF Len(s.left) = 1 THEN Idle
                                              ELSE [s EXCEPT !.left = Tail(@)]]
    /\ UNCHANGED <<starts, commands, phase, cert, store, peer, known, trusts, goal,
                   torn, accepted, pasted>>

Runs(x) == phase[x] # "off" /\ saving[x] = Idle

-----------------------------------------------------------------------------
(* The start of a program: auth_ssl_load and auth_ssl_setup_rsa.  The      *)
(* certificate is new each time, its dates being those of the start; only  *)
(* a private file that is missing, not one that is empty, is made anew.    *)

NewCert(x) == <<KeyFile(x), starts'>>

AuthSslSetupRsa(x) ==
    \/ /\ ~file[KeyFile(x)].there
       /\ cert' = [cert EXCEPT ![x] = NewCert(x)]
       /\ StorageSave(x, KeyFile(x), {"key"})
    \/ /\ file[KeyFile(x)].there
       /\ cert' = [cert EXCEPT ![x] = IF Lines(KeyFile(x)) = {} THEN NoCert ELSE NewCert(x)]
       /\ UNCHANGED <<file, goal, torn, saving>>

Start(x) ==
    /\ phase[x] = "off" /\ starts < MaxStart
    /\ starts' = starts + 1
    /\ phase' = [phase EXCEPT ![x] = "on"]
    /\ store' = [store EXCEPT ![x] = Lines(StoreFile(x))]
    /\ AuthSslSetupRsa(x)
    /\ UNCHANGED <<commands, peer, known, trusts, accepted, pasted>>

(* A program ends, in the middle of a save or not; its connections with it.*)
Stop(x) ==
    /\ phase[x] # "off"
    /\ phase' = [y \in Program |->
                   IF y = x \/ (x = Server /\ phase[y] = "connected") THEN "off" ELSE phase[y]]
    /\ LET ended == {y \in Program : phase'[y] = "off"}
       IN  /\ torn' = torn \cup {saving[y].to : y \in {z \in ended : saving[z] # Idle}}
           /\ saving' = [y \in Program |-> IF y \in ended THEN Idle ELSE saving[y]]
    /\ UNCHANGED <<starts, commands, file, cert, store, peer, known, trusts, goal,
                   accepted, pasted>>

-----------------------------------------------------------------------------
(* What OpenSSL asks verify_cb of a certificate that is its own issuer:    *)
(* once if the store has it, else first with an error that is waived and   *)
(* then again without.                                                     *)
Asked(c, trusted) == IF c \in trusted THEN <<TRUE>> ELSE <<FALSE, TRUE>>

LastAnswer(s) == s[Len(s)]
VerifyCb(s) == s[1]

OpensslVerify(c, trusted) == c # NoCert /\ VerifyCb(Asked(c, trusted))

(* netio_start on both sides: without a certificate the server fails.      *)
Handshake(p) ==
    /\ phase[p] = "on" /\ Runs(p) /\ Runs(Server)
    /\ phase' = [phase EXCEPT ![p] = IF cert[Server] = NoCert THEN "off" ELSE "connected"]
    /\ peer' = [peer EXCEPT ![p] = cert[Server]]
    /\ known' = [known EXCEPT ![p] = OpensslVerify(cert[p], store[Server])]
    /\ trusts' = [trusts EXCEPT ![p] = OpensslVerify(cert[Server], store[p])]
    /\ accepted' = [accepted EXCEPT ![p] = store[Server]]
    /\ UNCHANGED <<starts, commands, file, cert, store, saving, goal, torn, pasted>>

(* send_auth_ssl, when the user says yes twice.                            *)
Trust(p) ==
    /\ phase[p] = "connected" /\ Runs(p) /\ ~trusts[p] /\ peer[p] \notin store[p]
    /\ store' = [store EXCEPT ![p] = @ \cup {peer[p]}]
    /\ StorageSave(p, "connect", store'[p])
    /\ UNCHANGED <<starts, commands, phase, cert, peer, known, trusts, accepted, pasted>>

-----------------------------------------------------------------------------
(* The key commands, from a client the server lets administer it.          *)

Keep(s) ==
    /\ store' = [store EXCEPT ![Server] = s]
    /\ UNCHANGED <<file, saving, goal, torn>>

Commands(p) ==
    LET own == store[Server]
    IN  \/ Keep(own \cup (IF known[p] \/ cert[p] = NoCert THEN {} ELSE {cert[p]}))  \* add
        \/ \E x \in Program : cert[x] # NoCert /\ Keep(own \cup {cert[x]})          \* add KEY
        \/ \E c \in own : Keep(own \ {c})                                           \* delete
        \/ Keep({})                                                                 \* reset
        \/ Keep(Lines("accept"))                                                    \* load
        \/ StorageSave(Server, "accept", own) /\ UNCHANGED store                    \* save

ClientControlKey(p) ==
    /\ phase[p] = "connected" /\ Runs(Server)
    /\ commands < MaxCommand /\ commands' = commands + 1
    /\ Commands(p)
    /\ UNCHANGED <<starts, phase, cert, peer, known, trusts, accepted, pasted>>

(* The way of the README: what the client has in connect goes to accept.   *)
Paste ==
    /\ pasted = 0 /\ starts > 0 /\ Lines("connect") # {}
    /\ Free("accept") /\ Free("connect")
    /\ pasted' = starts
    /\ file' = [file EXCEPT !["accept"] = file["connect"]]
    /\ goal' = [goal EXCEPT !["accept"] = Lines("connect")]
    /\ torn' = torn \ {"accept"}
    /\ UNCHANGED <<starts, commands, phase, cert, store, saving, peer, known, trusts, accepted>>

Next ==
    \/ \E x \in Program : Start(x) \/ Stop(x) \/ SaveLine(x)
    \/ \E p \in Proc : Handshake(p) \/ Trust(p) \/ ClientControlKey(p)
    \/ Paste

Spec == Init /\ [][Next]_vars

-----------------------------------------------------------------------------
(* A client that got in by its key showed a certificate the server's store *)
(* held at the handshake: that the callback waives the error of a          *)
(* certificate signed by itself lets nobody in.                            *)
KnownWasAccepted ==
    \A p \in Proc : phase[p] = "connected" /\ known[p] => cert[p] \in accepted[p]

(* A file holds what the last save was to write and nothing older, all of  *)
(* it unless the program ended in between.                                 *)
FileWhole ==
    \A f \in File :
        /\ Lines(f) \subseteq goal[f]
        /\ f \notin torn /\ Free(f) => Lines(f) = goal[f]

(* After the paste and the start of both programs anew the client is       *)
(* authenticated without login and password, if the keys that were pasted  *)
(* are still in the store.                                                 *)
ReadmeKey ==
    \A p \in Proc :
        /\ phase[p] = "connected" /\ pasted > 0
        /\ cert[p][2] > pasted /\ peer[p][2] > pasted
        /\ goal["accept"] \subseteq accepted[p]
        => known[p]
=============================================================================
