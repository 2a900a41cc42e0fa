---------------------------- MODULE EntryProofs ----------------------------
(* Who is let in, and what is kept of it in files, for any clients, users, *)
(* access lists, passwords and delays, and any programs, certificates and  *)
(* ends of programs in the middle of a save.                               *)
EXTENDS MCEntry, FiniteSetTheorems, SequenceTheorems, WellFoundedInduction, TLAPS

-----------------------------------------------------------------------------
(* The logins.                                                             *)

(* What a client sends, as far as the level depends on it.                 *)
AuthCommand == [cmd : {"ssl"}] \cup [cmd : {"pam"}, user : User, right : BOOLEAN]

LoginType ==
    /\ up \in [Client -> Seq(AuthCommand)]
    /\ level \in [Client -> 0 .. 2]
    /\ name \in [Client -> User \cup {NoOne, Blank, "closed"}]
    /\ vouched \in [Client -> User \cup {NoOne}]

LoginInv == LoginType /\ OnlyVerified

(* An authentication is about one client, and a level needs a name.        *)
LEMMA ClientAuthFacts ==
    ASSUME LoginType, NEW c \in Client, NEW n \in User \cup {NoOne, Blank, "closed"},
           NEW l \in 0 .. 2, NEW m, ClientAuth(c, n, l, m)
    PROVE  /\ name' = [name EXCEPT ![c] = n]
           /\ level' = [level EXCEPT ![c] = LevelOf(n, l)]
           /\ LevelOf(n, l) \in 0 .. 2
           /\ name'[c] = n /\ level'[c] = LevelOf(n, l)
           /\ \A d \in Client \ {c} : name'[d] = name[d] /\ level'[d] = level[d]
           /\ name' \in [Client -> User \cup {NoOne, Blank, "closed"}]
           /\ level' \in [Client -> 0 .. 2]
  BY DEF ClientAuth, LevelOf, LoginType

LEMMA LoginInit == Init => LoginInv
  BY LoginAssumption DEF Init, LoginInv, LoginType, OnlyVerified

LEMMA LoginStep == LoginInv /\ [Next]_vars => LoginInv'
<1>. SUFFICES ASSUME LoginInv, [Next]_vars PROVE LoginInv'
  OBVIOUS
<1>. USE LoginAssumption
<1>1. ASSUME UNCHANGED <<level, name, vouched>>, up' \in [Client -> Seq(AuthCommand)]
      PROVE  LoginInv'
  BY <1>1 DEF LoginInv, LoginType, OnlyVerified
<1>2. up \in [Client -> Seq(AuthCommand)]
  BY DEF LoginInv, LoginType
<1>3. CASE UserLock \/ Tick \/ UNCHANGED vars
  BY <1>1, <1>2, <1>3 DEF UserLock, Tick, vars, clientVars, serverVars
<1>4. ASSUME NEW c \in Client,
             Begin(c) \/ SendAuthSsl(c) \/ Cancel(c) \/ ReceiveAccess(c)
             \/ (\E u \in User, right \in BOOLEAN : SendAuth(c, u, right)) \/ Tell(c)
      PROVE  LoginInv'
  <2>1. up' \in [Client -> Seq(AuthCommand)]
    <3>1. CASE SendAuthSsl(c)
      <4>1. [cmd |-> "ssl"] \in AuthCommand
        BY DEF AuthCommand
      <4>. QED  BY <1>2, <3>1, <4>1 DEF SendAuthSsl
    <3>2. ASSUME NEW u \in User, NEW right \in BOOLEAN, SendAuth(c, u, right)
          PROVE  up' \in [Client -> Seq(AuthCommand)]
      <4>1. [cmd |-> "pam", user |-> u, right |-> right] \in AuthCommand
        BY DEF AuthCommand
      <4>. QED  BY <1>2, <3>2, <4>1 DEF SendAuth
    <3>3. CASE Begin(c) \/ Cancel(c) \/ ReceiveAccess(c) \/ Tell(c)
      BY <1>2, <3>3 DEF Begin, Cancel, ReceiveAccess, SendAuthAll, Tell
    <3>. QED  BY <1>4, <3>1, <3>2, <3>3
  <2>2. UNCHANGED <<level, name, vouched>>
    BY <1>4 DEF Begin, Cancel, ReceiveAccess, SendAuthAll, SendAuthSsl, SendAuth, Tell,
                serverVars
  <2>. QED  BY <1>1, <2>1, <2>2
<1>5. ASSUME NEW c \in Client, ClientClose(c) PROVE LoginInv'
  <2>1. /\ up' = [up EXCEPT ![c] = <<>>]
        /\ level' = [level EXCEPT ![c] = 0]
        /\ name' = [name EXCEPT ![c] = "closed"]
        /\ vouched' = [vouched EXCEPT ![c] = NoOne]
    BY <1>5 DEF ClientClose
  <2>. QED  BY <2>1 DEF LoginInv, LoginType, OnlyVerified
<1>6. ASSUME NEW c \in Client, AuthSsl(c) PROVE LoginInv'
  <2>1. up' \in [Client -> Seq(AuthCommand)]
    BY <1>2, <1>6 DEF AuthSsl, Receives
  <2>2. CASE c \in known
    <3>1. /\ ClientAuth(c, Owner, 2, mask[c] \ {"ssl"})
          /\ vouched' = [vouched EXCEPT ![c] = Owner]
      BY <1>6, <2>2 DEF AuthSsl
    <3>2. LevelOf(Owner, 2) = 2
      BY DEF LevelOf
    <3>. QED  BY <2>1, <3>1, <3>2, ClientAuthFacts DEF LoginInv, LoginType, OnlyVerified
  <2>3. CASE c \notin known
    <3>1. ClientAuth(c, name[c], level[c], mask[c] \ {"ssl"}) /\ UNCHANGED vouched
      BY <1>6, <2>3 DEF AuthSsl
    <3>2. LevelOf(name[c], level[c]) > 0 => LevelOf(name[c], level[c]) = level[c]
      BY DEF LevelOf
    <3>3. name[c] \in User \cup {NoOne, Blank, "closed"} /\ level[c] \in 0 .. 2
      BY DEF LoginInv, LoginType
    <3>4. /\ name' \in [Client -> User \cup {NoOne, Blank, "closed"}]
          /\ level' \in [Client -> 0 .. 2]
          /\ \A d \in Client : name'[d] = name[d] /\ (level'[d] > 0 => level'[d] = level[d])
      BY <3>1, <3>2, <3>3, ClientAuthFacts DEF LoginInv
    <3>. QED  BY <2>1, <3>1, <3>4 DEF LoginInv, LoginType, OnlyVerified
  <2>. QED  BY <2>2, <2>3
<1>7. ASSUME NEW c \in Client, AuthPam(c) PROVE LoginInv'
  <2>1. up' \in [Client -> Seq(AuthCommand)] /\ Head(up[c]).user \in User
    <3>1. up[c] \in Seq(AuthCommand) /\ up[c] # <<>> /\ Head(up[c]).cmd = "pam"
          /\ up' = [up EXCEPT ![c] = Tail(@)]
      BY <1>2, <1>7 DEF AuthPam, Receives
    <3>2. Head(up[c]) \in AuthCommand /\ Tail(up[c]) \in Seq(AuthCommand)
      BY <3>1
    <3>. QED  BY <1>2, <3>1, <3>2 DEF AuthCommand
  <2>2. ASSUME NEW n \in {Blank, Head(up[c]).user},
               ClientAuth(c, n, IF n = Owner THEN 2 ELSE 1, mask[c]),
               vouched' = [vouched EXCEPT ![c] = IF n \in User THEN n ELSE @]
        PROVE  LoginInv'
    <3>1. PICK l \in 0 .. 2 : l = IF n = Owner THEN 2 ELSE 1
      OBVIOUS
    <3>2. n \in User \cup {NoOne, Blank, "closed"} /\ ClientAuth(c, n, l, mask[c])
      BY <2>1, <2>2, <3>1
    <3>3. LevelOf(n, l) > 0 => LevelOf(n, l) = l /\ n \in User
      BY <2>1 DEF LevelOf
    <3>. QED
      BY <2>1, <2>2, <3>1, <3>2, <3>3, ClientAuthFacts DEF LoginInv, LoginType, OnlyVerified
  <2>. QED  BY <1>7, <2>2 DEF AuthPam
<1>. QED
  BY <1>3, <1>4, <1>5, <1>6, <1>7 DEF Next

(* Whoever has a level was vouched for in this connection, under the name  *)
(* the access list is asked for, and only the owner administers.           *)
THEOREM OnlyVerifiedCorrect == Spec => []OnlyVerified
<1>1. LoginInv => OnlyVerified
  BY DEF LoginInv
<1>. QED  BY <1>1, LoginInit, LoginStep, PTL DEF Spec

-----------------------------------------------------------------------------
(* The real user id is one the process can come back to without the        *)
(* capability.                                                             *)

Uid == User \cup {"own", "service"}
Ids == [real : Uid, eff : Uid, saved : Uid, restore : Uid]

IdsInv == ids \in Ids /\ ids.real \in {ids.eff, ids.saved}

Same(i) == i \in Ids /\ i.real = ids.real /\ i.eff = ids.eff /\ i.saved = ids.saved

(* What is done as a user or as the effective user ends as it began.       *)
LEMMA BackAgain ==
    ASSUME IdsInv, NEW i, Same(i), NEW u \in Uid
    PROVE  Same(UserRestore(UserChange(i, u)))
<1>1. PICK j \in Ids : j = UserChange(i, u)
  BY DEF UserChange, Same, Ids
<1>2. j.real = u /\ j.eff = i.eff /\ j.saved = i.saved /\ j.restore = i.real
  BY <1>1 DEF UserChange, Same, Ids
<1>3. UserRestore(j) = [j EXCEPT !.real = j.restore]
  BY <1>2 DEF UserRestore, IdsInv, Same
<1>4. Same([j EXCEPT !.real = j.restore])
  BY <1>1, <1>2 DEF Same, Ids
<1>. QED  BY <1>1, <1>3, <1>4

LEMMA IdsInit == Init => IdsInv
  BY DEF Init, IdsInv, Ids, Uid

(* Every step but the one that locks the server leaves the three ids.      *)
LEMMA IdsStep ==
    ASSUME LoginInv, IdsInv, [Next]_vars
    PROVE  IdsInv' /\ (ids'.real = ids.real \/ UserLock)
<1>1. ASSUME Same(ids') PROVE IdsInv' /\ ids'.real = ids.real
  BY <1>1 DEF IdsInv, Same
<1>2. ASSUME NEW i, Same(i), NEW u \in User PROVE Same(AsUser(i, u)) /\ Same(AsSelf(i))
  <2>1. u \in Uid /\ i.eff \in Uid
    BY <1>2 DEF Uid, Same, Ids
  <2>. QED  BY <1>2, <2>1, BackAgain DEF AsUser, AsSelf
<1>3. Same(ids)
  BY DEF IdsInv, Same
<1>4. CASE UserLock
  BY <1>4 DEF UserLock, IdsInv, Ids
<1>5. ASSUME NEW c \in Client, AuthPam(c) PROVE Same(ids')
  <2>1. PICK u \in User : u = Head(up[c]).user
    <3>1. up[c] \in Seq(AuthCommand) /\ up[c] # <<>> /\ Head(up[c]).cmd = "pam"
      BY <1>5 DEF AuthPam, Receives, LoginInv, LoginType
    <3>2. Head(up[c]) \in AuthCommand
      BY <3>1
    <3>. QED  BY <3>1, <3>2 DEF AuthCommand
  <2>2. \/ ids' = ids \/ ids' = AsUser(ids, u)
        \/ ids' = AsUser(AsUser(ids, u), u) \/ ids' = AsSelf(AsUser(AsUser(ids, u), u))
    BY <1>5, <2>1 DEF AuthPam
  <2>. QED  BY <1>2, <1>3, <2>2
<1>6. ASSUME NEW c \in Client, ClientClose(c) PROVE Same(ids')
  <2>1. ids' = IF handle[c] THEN AsSelf(ids) ELSE ids
    BY <1>6 DEF ClientClose
  <2>2. Owner \in User
    BY LoginAssumption
  <2>. QED  BY <1>2, <1>3, <2>1, <2>2
<1>7. CASE Tick \/ UNCHANGED vars \/ \E c \in Client :
           \/ Begin(c) \/ SendAuthSsl(c) \/ Cancel(c) \/ ReceiveAccess(c)
           \/ \E u \in User, right \in BOOLEAN : SendAuth(c, u, right)
           \/ AuthSsl(c) \/ Tell(c)
  <2>1. UNCHANGED ids
    BY <1>7 DEF Tick, Begin, SendAuthSsl, Cancel, ReceiveAccess, SendAuthAll, SendAuth,
                AuthSsl, Tell, vars, serverVars
  <2>. QED  BY <1>1, <1>3, <2>1 DEF Same
<1>. QED  BY <1>1, <1>4, <1>5, <1>6, <1>7 DEF Next

(* Whatever PAM answers and whichever client ends, a server that was       *)
(* locked stays locked.                                                    *)
THEOREM LockKeptCorrect == Spec => LockKept
<1>1. ASSUME LoginInv, IdsInv, [Next]_vars
      PROVE  IdsInv' /\ [ids'.real = ids.real \/ UserLock]_vars
  BY <1>1, IdsStep DEF vars, serverVars
<1>. QED  BY <1>1, IdsInit, LoginInit, LoginStep, PTL DEF Spec, LockKept

-----------------------------------------------------------------------------
(* The certificates and their files.                                       *)

Cert == {"none", "key of the server", "key of the client"} \X Nat
Line == {"key"} \cup Cert

FileRecord == [there : BOOLEAN, lines : Seq(Line)]
SaveRecord == [to : K!File \cup {""}, left : Seq(Line)]

FilesType ==
    /\ file \in [K!File -> FileRecord]
    /\ saving \in [K!Program -> SaveRecord]
    /\ goal \in [K!File -> SUBSET Line]
    /\ torn \subseteq K!File

CertsType ==
    /\ starts \in Nat
    /\ phase \in [K!Program -> {"off", "on", "connected"}]
    /\ cert \in [K!Program -> Cert]
    /\ store \in [K!Program -> SUBSET Line]
    /\ peer \in [Proc -> Cert]
    /\ knows \in [Proc -> BOOLEAN]
    /\ accepted \in [Proc -> SUBSET Line]

(* What is in each file, the file each program writes and what it has left.*)
Content == [f \in K!File |-> K!Lines(f)]
Target == [x \in K!Program |-> saving[x].to]
Rest == [x \in K!Program |-> K!ToSet(saving[x].left)]

(* A program that is off writes no file, one that writes has a line left.  *)
WritersUp ==
    \A x \in K!Program :
        /\ phase[x] = "off" => Target[x] = ""
        /\ Target[x] = "" <=> Rest[x] = {}

OneWriter ==
    \A x, y \in K!Program : Target[x] # "" /\ Target[y] = Target[x] => x = y

(* What is in the file and what is left are what was to be saved.          *)
Remaining ==
    \A x \in K!Program :
        Target[x] # "" => Content[Target[x]] \cup Rest[x] = goal[Target[x]]

(* FileWhole, in these terms.                                              *)
Whole ==
    \A f \in K!File :
        /\ Content[f] \subseteq goal[f]
        /\ f \notin torn /\ (\A x \in K!Program : Target[x] # f) => Content[f] = goal[f]

SavesInv == WritersUp /\ OneWriter /\ Remaining /\ Whole

StoresFinite == \A x \in K!Program : IsFiniteSet(store[x])

FilesInv == FilesType /\ SavesInv
CertsInv == CertsType /\ StoresFinite /\ K!KnownWasAccepted
KeysInv == FilesInv /\ CertsInv

(* The lines of a set in some order are all of them.                       *)
LEMMA InSomeOrder ==
    ASSUME NEW S, IsFiniteSet(S), NEW s \in K!SetToSeqs(S)
    PROVE  /\ \A W : S \subseteq W => s \in Seq(W)
           /\ K!ToSet(s) = S
           /\ s = <<>> <=> S = {}
<1>1. PICK n \in Nat : n = Cardinality(S)
  BY FS_CardinalityType
<1>2. s \in [1 .. n -> S] /\ \A i, j \in 1 .. n : i # j => s[i] # s[j]
  <2>1. K!Cardinality(S) = Cardinality(S)
    BY Zenon DEF K!Cardinality, Cardinality
  <2>. QED  BY <1>1, <2>1 DEF K!SetToSeqs
<1>3. IsFiniteSet(1 .. n) /\ Cardinality(1 .. n) = n
  BY FS_Interval
<1>4. s \in Injection(1 .. n, S)
  BY <1>2 DEF Injection, IsInjective
<1>5. s \in Surjection(1 .. n, S)
  BY <1>1, <1>3, <1>4, FS_Injection
<1>6. ASSUME NEW W, S \subseteq W PROVE s \in Seq(W)
  <2>1. s \in [1 .. n -> W]
    BY <1>2, <1>6
  <2>. QED  BY <2>1
<1>9. K!ToSet(s) = S
  BY <1>2, <1>5 DEF Surjection, K!ToSet
<1>7. s = <<>> <=> n = 0
  BY <1>2
<1>8. n = 0 <=> S = {}
  BY <1>1, FS_EmptySet
<1>. QED  BY <1>6, <1>7, <1>8, <1>9

(* The set of the elements of a sequence grows and shrinks with it.        *)
LEMMA Elements ==
    ASSUME NEW S, NEW s \in Seq(S)
    PROVE  /\ IsFiniteSet(K!ToSet(s)) /\ K!ToSet(s) \subseteq S
           /\ \A x \in S : K!ToSet(Append(s, x)) = K!ToSet(s) \cup {x}
           /\ s # <<>> => K!ToSet(s) = {Head(s)} \cup K!ToSet(Tail(s))
<1>1. Len(s) \in Nat /\ DOMAIN s = 1 .. Len(s) /\ \A i \in 1 .. Len(s) : s[i] \in S
  OBVIOUS
<1>2. IsFiniteSet(K!ToSet(s)) /\ K!ToSet(s) \subseteq S
  <2>1. IsFiniteSet(1 .. Len(s))
    BY <1>1, FS_Interval
  <2>2. s \in Surjection(1 .. Len(s), K!ToSet(s))
    BY <1>1 DEF Surjection, K!ToSet
  <2>. QED  BY <1>1, <2>1, <2>2, FS_Surjection DEF K!ToSet
<1>3. ASSUME NEW x \in S PROVE K!ToSet(Append(s, x)) = K!ToSet(s) \cup {x}
  <2>1. /\ DOMAIN Append(s, x) = 1 .. Len(s) + 1
        /\ \A i \in 1 .. Len(s) : Append(s, x)[i] = s[i]
        /\ Append(s, x)[Len(s) + 1] = x
    BY <1>1
  <2>. QED  BY <1>1, <2>1 DEF K!ToSet
<1>4. ASSUME s # <<>> PROVE K!ToSet(s) = {Head(s)} \cup K!ToSet(Tail(s))
  <2>1. /\ Head(s) = s[1] /\ Len(s) >= 1
        /\ DOMAIN Tail(s) = 1 .. Len(s) - 1
        /\ \A i \in 1 .. Len(s) - 1 : Tail(s)[i] = s[i + 1]
    BY <1>1, <1>4
  <2>2. K!ToSet(Tail(s)) = {s[i + 1] : i \in 1 .. Len(s) - 1}
    BY <2>1 DEF K!ToSet
  <2>3. K!ToSet(s) = {s[i] : i \in 1 .. Len(s)}
    BY <1>1 DEF K!ToSet
  <2>4. ASSUME NEW i \in 1 .. Len(s) PROVE s[i] \in {Head(s)} \cup K!ToSet(Tail(s))
    <3>1. i = 1 \/ (i - 1 \in 1 .. Len(s) - 1 /\ (i - 1) + 1 = i)
      BY <1>1
    <3>. QED  BY <2>1, <2>2, <3>1
  <2>5. ASSUME NEW i \in 1 .. Len(s) - 1 PROVE s[i + 1] \in K!ToSet(s)
    <3>1. i + 1 \in 1 .. Len(s)
      BY <1>1
    <3>. QED  BY <2>3, <3>1
  <2>6. s[1] \in K!ToSet(s)
    BY <1>1, <2>1, <2>3
  <2>. QED  BY <2>1, <2>2, <2>3, <2>4, <2>5, <2>6
<1>. QED  BY <1>2, <1>3, <1>4

LEMMA FileNames == "" \notin K!File /\ {"accept", "connect"} \subseteq K!File
  BY DEF K!File

LEMMA NoElement ==
    ASSUME NEW S, NEW s \in Seq(S)
    PROVE  s = <<>> <=> K!ToSet(s) = {}
<1>1. s # <<>> => 1 \in DOMAIN s
  OBVIOUS
<1>2. s = <<>> => DOMAIN s = {}
  OBVIOUS
<1>. QED  BY <1>1, <1>2 DEF K!ToSet

LEMMA EmptySave ==
    /\ <<>> \in Seq(Line) /\ K!ToSet(<<>>) = {}
    /\ K!Idle \in SaveRecord /\ K!Idle.to = "" /\ K!Idle.left = <<>>
<1>1. <<>> \in Seq(Line)
  OBVIOUS
<1>2. K!ToSet(<<>>) = {}
  BY <1>1, NoElement
<1>3. K!Idle.to = ""
  BY DEF K!Idle
<1>4. K!Idle.left = <<>>
  BY Zenon DEF K!Idle
<1>5. K!Idle \in SaveRecord
  BY <1>1 DEF K!Idle, SaveRecord
<1>. QED  BY <1>1, <1>2, <1>3, <1>4, <1>5

LEMMA Contents ==
    ASSUME FilesType
    PROVE  /\ Content \in [K!File -> SUBSET Line]
           /\ Target \in [K!Program -> K!File \cup {""}]
           /\ Rest \in [K!Program -> SUBSET Line]
<1>1. ASSUME NEW f \in K!File PROVE K!Lines(f) \in SUBSET Line
  <2>1. file[f].lines \in Seq(Line)
    BY DEF FilesType, FileRecord
  <2>. QED  BY <2>1, Elements DEF K!Lines
<1>2. ASSUME NEW x \in K!Program
      PROVE  saving[x].to \in K!File \cup {""} /\ K!ToSet(saving[x].left) \in SUBSET Line
  <2>1. saving[x].to \in K!File \cup {""} /\ saving[x].left \in Seq(Line)
    BY DEF FilesType, SaveRecord
  <2>. QED  BY <2>1, Elements
<1>. QED  BY <1>1, <1>2 DEF Content, Target, Rest

LEMMA WholeIsFileWhole ==
    ASSUME FilesType, Whole
    PROVE  K!FileWhole
<1>. QED  BY DEF K!FileWhole, K!Free, Whole, Content, Target

(* The same of K!Idle, which is what a program that writes nothing has.    *)
LEMMA IdleIsEmpty ==
    ASSUME FilesInv, NEW x \in K!Program
    PROVE  saving[x] = K!Idle <=> Target[x] = ""
<1>1. saving[x] \in SaveRecord
  BY DEF FilesInv, FilesType
<1>2. Target[x] = saving[x].to /\ Rest[x] = K!ToSet(saving[x].left)
  BY DEF Target, Rest
<1>3. ASSUME Target[x] = "" PROVE saving[x] = K!Idle
  <2>1. K!ToSet(saving[x].left) = {} /\ saving[x].left \in Seq(Line)
    BY <1>1, <1>2, <1>3 DEF FilesInv, SavesInv, WritersUp, SaveRecord
  <2>2. saving[x].left = <<>>
    BY <2>1, NoElement
  <2>. QED  BY <1>1, <1>2, <1>3, <2>2 DEF SaveRecord, K!Idle
<1>4. K!Idle.to = ""
  BY DEF K!Idle
<1>. QED  BY <1>2, <1>3, <1>4

(* A program that writes nothing begins to save some lines.                *)
LEMMA SaveStep ==
    ASSUME FilesInv, NEW x \in K!Program, NEW f \in K!File,
           NEW lines \in SUBSET Line, IsFiniteSet(lines),
           Target[x] = "", K!StorageSave(x, f, lines),
           \A y \in K!Program : phase'[y] = "off" => y # x /\ phase[y] = "off"
    PROVE  FilesInv'
<1>1. PICK s \in K!SetToSeqs(lines) :
           saving' = [saving EXCEPT ![x] = IF s = <<>> THEN K!Idle ELSE [to |-> f, left |-> s]]
  BY DEF K!StorageSave
<1>2. s \in Seq(Line) /\ K!ToSet(s) = lines /\ (s = <<>> <=> lines = {})
  BY InSomeOrder
<1>3. PICK r \in SaveRecord :
          /\ saving' = [saving EXCEPT ![x] = r]
          /\ r.to = (IF lines = {} THEN "" ELSE f) /\ K!ToSet(r.left) = lines
  <2>. DEFINE r == IF s = <<>> THEN K!Idle ELSE [to |-> f, left |-> s]
  <2>1. K!Idle \in SaveRecord /\ K!Idle.to = "" /\ K!Idle.left = <<>>
    BY EmptySave
  <2>2. [to |-> f, left |-> s] \in SaveRecord
    BY <1>2 DEF SaveRecord
  <2>3. r \in SaveRecord /\ r.to = (IF lines = {} THEN "" ELSE f) /\ r.left = s
    BY <1>2, <2>1, <2>2
  <2>. HIDE DEF r
  <2>4. K!ToSet(r.left) = lines
    BY <1>2, <2>3
  <2>5. saving' = [saving EXCEPT ![x] = r]
    BY <1>1 DEF r
  <2>. QED  BY <2>3, <2>4, <2>5
<1>4. PICK e \in FileRecord : file' = [file EXCEPT ![f] = e] /\ e.lines = <<>>
  <2>. DEFINE e == K!Opened(f)
  <2>1. e.lines = <<>>
    BY Zenon DEF K!Opened
  <2>3. e \in FileRecord
    BY EmptySave DEF K!Opened, FileRecord
  <2>2. file' = [file EXCEPT ![f] = e]
    BY DEF K!StorageSave
  <2>. HIDE DEF e
  <2>. QED  BY <2>1, <2>2, <2>3
<1>5. /\ goal' = [goal EXCEPT ![f] = lines] /\ torn' = torn \ {f}
      /\ \A y \in K!Program : Target[y] # f
  BY DEF K!StorageSave, K!Free, Target
<1>6. FilesType'
  BY <1>3, <1>4, <1>5 DEF FilesInv, FilesType
<1>7. /\ Content'[f] = {}
      /\ \A g \in K!File \ {f} : Content'[g] = Content[g]
  <2>1. file'[f] = e /\ \A g \in K!File \ {f} : file'[g] = file[g]
    BY <1>4 DEF FilesInv, FilesType
  <2>2. K!ToSet(e.lines) = {}
    BY <1>4, EmptySave
  <2>3. \A g \in K!File : Content[g] = K!ToSet(file[g].lines)
                        /\ Content'[g] = K!ToSet(file'[g].lines)
    BY DEF Content, K!Lines, K!ToSet
  <2>. QED  BY <2>1, <2>2, <2>3
<1>8. /\ Target'[x] = (IF lines = {} THEN "" ELSE f) /\ Rest'[x] = lines
      /\ \A y \in K!Program \ {x} : Target'[y] = Target[y] /\ Rest'[y] = Rest[y]
  BY <1>3 DEF FilesInv, FilesType, Target, Rest, K!ToSet
<1>9. goal'[f] = lines /\ \A g \in K!File \ {f} : goal'[g] = goal[g]
  BY <1>5 DEF FilesInv, FilesType
<1>10. WritersUp' /\ OneWriter'
  BY ZenonT(60), <1>5, <1>8, FileNames DEF FilesInv, SavesInv, WritersUp, OneWriter
<1>11. Remaining'
  <2>. SUFFICES ASSUME NEW y \in K!Program, Target'[y] # ""
                PROVE  Content'[Target'[y]] \cup Rest'[y] = goal'[Target'[y]]
    BY DEF Remaining
  <2>1. CASE y = x
    BY <1>7, <1>8, <1>9, <2>1
  <2>2. CASE y # x
    <3>1. Target'[y] = Target[y] /\ Rest'[y] = Rest[y] /\ Target[y] \in K!File \ {f}
      BY <1>5, <1>8, <2>2, Contents DEF FilesInv
    <3>2. Content[Target[y]] \cup Rest[y] = goal[Target[y]]
      BY <3>1 DEF FilesInv, SavesInv, Remaining
    <3>. QED  BY <1>7, <1>9, <3>1, <3>2
  <2>. QED  BY <2>1, <2>2
<1>12. Whole'
  <2>. SUFFICES ASSUME NEW g \in K!File
                PROVE  /\ Content'[g] \subseteq goal'[g]
                       /\ g \notin torn' /\ (\A y \in K!Program : Target'[y] # g)
                             => Content'[g] = goal'[g]
    BY DEF Whole
  <2>1. CASE g = f
    BY <1>7, <1>8, <1>9, <2>1
  <2>2. CASE g # f
    <3>1. Target[x] # g
      BY FileNames
    <3>2. (\A y \in K!Program : Target'[y] # g) => \A y \in K!Program : Target[y] # g
      BY <1>8, <3>1
    <3>3. g \notin torn' => g \notin torn
      BY <1>5, <2>2
    <3>4. Content'[g] = Content[g] /\ goal'[g] = goal[g]
      BY <1>7, <1>9, <2>2
    <3>. QED  BY <3>2, <3>3, <3>4 DEF FilesInv, SavesInv, Whole
  <2>. QED  BY <2>1, <2>2
<1>. QED  BY <1>6, <1>10, <1>11, <1>12 DEF FilesInv, SavesInv

(* A line is moved from what is left to the file.                          *)
LEMMA LineStep ==
    ASSUME FilesInv, NEW x \in K!Program, K!SaveLine(x)
    PROVE  FilesInv'
<1>. DEFINE f == Target[x]
            left == saving[x].left
<1>1. /\ f \in K!File /\ f = saving[x].to /\ saving[x] \in SaveRecord
      /\ left \in Seq(Line) /\ left # <<>>
  <2>1. Target[x] # ""
    BY IdleIsEmpty DEF K!SaveLine
  <2>2. Rest[x] # {}
    BY <2>1 DEF FilesInv, SavesInv, WritersUp
  <2>3. saving[x] \in SaveRecord
    BY DEF FilesInv, FilesType
  <2>4. left \in Seq(Line) /\ Rest[x] = K!ToSet(left)
    BY <2>3 DEF SaveRecord, Rest
  <2>5. left # <<>>
    BY <2>2, <2>4, NoElement
  <2>6. f \in K!File /\ f = saving[x].to
    BY <2>1, Contents DEF FilesInv, Target
  <2>. QED  BY <2>3, <2>4, <2>5, <2>6
<1>2. /\ Head(left) \in Line /\ Tail(left) \in Seq(Line)
      /\ Len(left) = 1 <=> Tail(left) = <<>>
      /\ Rest[x] = {Head(left)} \cup K!ToSet(Tail(left))
  <2>1. K!ToSet(left) = {Head(left)} \cup K!ToSet(Tail(left))
    BY <1>1, Elements
  <2>2. Rest[x] = K!ToSet(left)
    BY DEF Rest
  <2>. HIDE DEF left
  <2>4. Head(left) \in Line /\ Tail(left) \in Seq(Line) /\ Len(Tail(left)) = Len(left) - 1
    BY <1>1
  <2>3. Len(left) = 1 <=> Tail(left) = <<>>
    <3>1. Len(left) \in Nat /\ (Len(Tail(left)) = 0 <=> Tail(left) = <<>>)
      BY <1>1, <2>4, EmptySeq
    <3>. QED  BY <2>4, <3>1
  <2>. QED  BY <2>1, <2>2, <2>3, <2>4
<1>3. /\ file' = [file EXCEPT ![f] = [file[f] EXCEPT !.lines = Append(@, Head(left))]]
      /\ saving' = [saving EXCEPT ![x] = IF Len(left) = 1 THEN K!Idle
                                         ELSE [saving[x] EXCEPT !.left = Tail(@)]]
      /\ phase' = phase /\ goal' = goal /\ torn' = torn
  BY <1>1 DEF K!SaveLine
<1>4. PICK r \in SaveRecord :
          /\ saving' = [saving EXCEPT ![x] = r]
          /\ r.to = (IF Tail(left) = <<>> THEN "" ELSE f) /\ r.left = Tail(left)
  <2>. DEFINE t == [saving[x] EXCEPT !.left = Tail(left)]
              r == IF Len(left) = 1 THEN K!Idle ELSE t
  <2>1. K!Idle \in SaveRecord /\ K!Idle.to = "" /\ K!Idle.left = <<>>
    BY EmptySave
  <2>2. t \in SaveRecord /\ t.to = f /\ t.left = Tail(left)
    BY <1>1, <1>2 DEF SaveRecord
  <2>3. saving' = [saving EXCEPT ![x] = r]
    BY <1>3
  <2>. HIDE DEF t
  <2>4. r \in SaveRecord /\ r.to = (IF Tail(left) = <<>> THEN "" ELSE f) /\ r.left = Tail(left)
    BY <1>2, <2>1, <2>2
  <2>. HIDE DEF r
  <2>. QED  BY <2>3, <2>4
<1>5. PICK e \in FileRecord :
          file' = [file EXCEPT ![f] = e] /\ e.lines = Append(file[f].lines, Head(left))
  <2>1. file[f] \in FileRecord
    BY <1>1 DEF FilesInv, FilesType
  <2>2. Append(file[f].lines, Head(left)) \in Seq(Line)
    BY <1>2, <2>1 DEF FileRecord
  <2>. DEFINE e == [file[f] EXCEPT !.lines = Append(@, Head(left))]
  <2>3. e \in FileRecord /\ e.lines = Append(file[f].lines, Head(left))
    BY <2>1, <2>2 DEF FileRecord
  <2>4. file' = [file EXCEPT ![f] = e]
    BY <1>3
  <2>. HIDE DEF e
  <2>. QED  BY <2>3, <2>4
<1>6. FilesType'
  BY ZenonT(60), <1>3, <1>4, <1>5 DEF FilesInv, FilesType
<1>7. /\ Content'[f] = Content[f] \cup {Head(left)}
      /\ \A g \in K!File \ {f} : Content'[g] = Content[g]
  <2>1. file'[f].lines = Append(file[f].lines, Head(left)) /\ file[f].lines \in Seq(Line)
    BY <1>1, <1>5 DEF FilesInv, FilesType, FileRecord
  <2>2. \A g \in K!File \ {f} : file'[g] = file[g]
    BY <1>5 DEF FilesInv, FilesType
  <2>3. K!ToSet(file'[f].lines) = K!ToSet(file[f].lines) \cup {Head(left)}
    BY SMTT(30), <1>2, <2>1, Elements
  <2>4. \A g \in K!File : Content[g] = K!ToSet(file[g].lines)
                        /\ Content'[g] = K!ToSet(file'[g].lines)
    BY DEF Content, K!Lines, K!ToSet
  <2>. QED  BY <1>1, <2>2, <2>3, <2>4
<1>8. /\ Rest'[x] = K!ToSet(Tail(left)) /\ (Rest'[x] = {} <=> Tail(left) = <<>>)
      /\ Target'[x] = (IF Rest'[x] = {} THEN "" ELSE f)
      /\ \A y \in K!Program \ {x} : Target'[y] = Target[y] /\ Rest'[y] = Rest[y]
  <2>1. K!ToSet(Tail(left)) = {} <=> Tail(left) = <<>>
    BY <1>2, NoElement
  <2>2. saving'[x] = r /\ \A y \in K!Program \ {x} : saving'[y] = saving[y]
    BY <1>4 DEF FilesInv, FilesType
  <2>3. /\ Target'[x] = r.to /\ Rest'[x] = K!ToSet(r.left)
        /\ \A y \in K!Program \ {x} : Target'[y] = Target[y] /\ Rest'[y] = Rest[y]
    BY <2>2 DEF Target, Rest, K!ToSet
  <2>. HIDE DEF f, left
  <2>. QED  BY <1>4, <2>1, <2>3
<1>. HIDE DEF f, left
<1>9. WritersUp' /\ OneWriter'
  BY ZenonT(60), <1>1, <1>3, <1>8, FileNames DEF FilesInv, SavesInv, WritersUp, OneWriter, f
<1>12. Content[f] \cup Rest[x] = goal[f]
  BY <1>1, FileNames DEF FilesInv, SavesInv, Remaining, f
<1>10. Remaining'
  <2>. SUFFICES ASSUME NEW y \in K!Program, Target'[y] # ""
                PROVE  Content'[Target'[y]] \cup Rest'[y] = goal'[Target'[y]]
    BY DEF Remaining
  <2>1. CASE y = x
    <3>1. Target'[x] = f /\ goal'[f] = goal[f]
      BY <1>3, <1>8, <2>1
    <3>2. Content'[f] = Content[f] \cup {Head(left)}
      BY <1>7
    <3>3. Rest'[x] = K!ToSet(Tail(left)) /\ Rest[x] = {Head(left)} \cup K!ToSet(Tail(left))
      BY <1>2, <1>8
    <3>4. Content'[f] \cup Rest'[x] = goal[f]
      BY <1>12, <3>2, <3>3
    <3>. QED  BY <2>1, <3>1, <3>4
  <2>2. CASE y # x
    <3>1. Target'[y] = Target[y] /\ Rest'[y] = Rest[y]
      BY <1>8, <2>2
    <3>2. Target[y] \in K!File \ {f}
      BY <1>1, <3>1, <2>2, Contents, FileNames DEF FilesInv, SavesInv, OneWriter, f
    <3>3. Content[Target[y]] \cup Rest[y] = goal[Target[y]]
      BY <3>1 DEF FilesInv, SavesInv, Remaining
    <3>. QED  BY <1>3, <1>7, <3>1, <3>2, <3>3
  <2>. QED  BY <2>1, <2>2
<1>11. Whole'
  <2>. SUFFICES ASSUME NEW g \in K!File
                PROVE  /\ Content'[g] \subseteq goal'[g]
                       /\ g \notin torn' /\ (\A y \in K!Program : Target'[y] # g)
                             => Content'[g] = goal'[g]
    BY DEF Whole
  <2>1. CASE g = f
    <3>1. (\A y \in K!Program : Target'[y] # g) => Rest'[x] = {}
      BY <1>8, <2>1
    <3>2. Content'[f] = Content[f] \cup {Head(left)} /\ goal'[f] = goal[f]
      BY <1>3, <1>7
    <3>3. Rest'[x] = K!ToSet(Tail(left)) /\ Rest[x] = {Head(left)} \cup K!ToSet(Tail(left))
      BY <1>2, <1>8
    <3>4. Content'[f] \cup Rest'[x] = goal'[f]
      BY <1>12, <3>2, <3>3
    <3>. QED  BY <2>1, <3>1, <3>4
  <2>2. CASE g # f
    <3>1. Target[x] # g
      BY <2>2 DEF f
    <3>2. (\A y \in K!Program : Target'[y] # g) => \A y \in K!Program : Target[y] # g
      BY <1>8, <3>1
    <3>3. Content'[g] = Content[g] /\ goal'[g] = goal[g] /\ torn' = torn
      BY <1>3, <1>7, <2>2
    <3>. QED  BY <3>2, <3>3 DEF FilesInv, SavesInv, Whole
  <2>. QED  BY <2>1, <2>2
<1>. QED  BY <1>6, <1>9, <1>10, <1>11 DEF FilesInv, SavesInv

(* A program ends; what it was writing is torn.                            *)
LEMMA StopStep ==
    ASSUME FilesInv, NEW x \in K!Program, K!Stop(x)
    PROVE  FilesInv'
<1>. DEFINE ended == {y \in K!Program : phase'[y] = "off"}
<1>1. /\ torn' = torn \cup {saving[y].to : y \in {z \in ended : saving[z] # K!Idle}}
      /\ saving' = [y \in K!Program |-> IF y \in ended THEN K!Idle ELSE saving[y]]
      /\ file' = file /\ goal' = goal
  BY DEF K!Stop
<1>2. /\ torn' = torn \cup {Target[y] : y \in {z \in ended : Target[z] # ""}}
      /\ torn' \subseteq K!File
  <2>1. torn' = torn \cup {Target[y] : y \in {z \in ended : Target[z] # ""}}
    BY <1>1, IdleIsEmpty DEF Target
  <2>. QED  BY <2>1, Contents DEF FilesInv, FilesType
<1>3. FilesType'
  <2>1. K!Idle \in SaveRecord
    BY EmptySave
  <2>. QED  BY <1>1, <1>2, <2>1 DEF FilesInv, FilesType
<1>4. Content' = Content
  BY <1>1 DEF Content, K!Lines, K!ToSet
<1>5. \A y \in K!Program :
          /\ Target'[y] = IF y \in ended THEN "" ELSE Target[y]
          /\ Rest'[y] = IF y \in ended THEN {} ELSE Rest[y]
  <2>1. K!Idle.to = "" /\ K!ToSet(K!Idle.left) = {}
    BY EmptySave
  <2>2. \A y \in K!Program : saving'[y] = IF y \in ended THEN K!Idle ELSE saving[y]
    BY <1>1
  <2>. QED  BY <2>1, <2>2 DEF Target, Rest, K!ToSet
<1>6. WritersUp' /\ OneWriter'
  BY <1>5 DEF FilesInv, SavesInv, WritersUp, OneWriter
<1>7. Remaining'
  BY <1>1, <1>4, <1>5 DEF FilesInv, SavesInv, Remaining
<1>8. Whole'
  BY ZenonT(60), <1>1, <1>2, <1>4, <1>5, FileNames DEF FilesInv, SavesInv, Whole
<1>. QED  BY <1>3, <1>6, <1>7, <1>8 DEF FilesInv, SavesInv

(* The paste writes a file at once.                                        *)
LEMMA PasteStep ==
    ASSUME FilesInv, K!Paste
    PROVE  FilesInv'
<1>1. /\ file' = [file EXCEPT !["accept"] = file["connect"]]
      /\ goal' = [goal EXCEPT !["accept"] = Content["connect"]]
      /\ torn' = torn \ {"accept"} /\ saving' = saving /\ phase' = phase
      /\ \A y \in K!Program : Target[y] # "accept"
  BY FileNames DEF K!Paste, K!Free, Target, Content
<1>2. Content["connect"] \in SUBSET Line
  BY Contents, FileNames DEF FilesInv
<1>3. FilesType'
  BY <1>1, <1>2, FileNames DEF FilesInv, FilesType
<1>4. /\ Content'["accept"] = Content["connect"]
      /\ \A g \in K!File \ {"accept"} : Content'[g] = Content[g]
  BY <1>1, FileNames DEF FilesInv, FilesType, Content, K!Lines, K!ToSet
<1>5. goal'["accept"] = Content["connect"] /\ \A g \in K!File \ {"accept"} : goal'[g] = goal[g]
  BY <1>1, FileNames DEF FilesInv, FilesType
<1>6. Target' = Target /\ Rest' = Rest
  BY <1>1 DEF Target, Rest, K!ToSet
<1>7. WritersUp' /\ OneWriter'
  BY <1>1, <1>6 DEF FilesInv, SavesInv, WritersUp, OneWriter
<1>8. Remaining'
  BY ZenonT(60), <1>1, <1>4, <1>5, <1>6, Contents DEF FilesInv, SavesInv, Remaining
<1>9. Whole'
  BY <1>1, <1>4, <1>5, <1>6 DEF FilesInv, SavesInv, Whole
<1>. QED  BY <1>3, <1>7, <1>8, <1>9 DEF FilesInv, SavesInv

LEMMA KeysInit == K!Init => KeysInv
<1>. SUFFICES ASSUME K!Init PROVE KeysInv
  OBVIOUS
<1>1. FilesType
  <2>1. K!NoFile \in FileRecord
    BY EmptySave DEF K!NoFile, FileRecord
  <2>. QED  BY <2>1, EmptySave DEF K!Init, FilesType
<1>2. /\ \A x \in K!Program : Target[x] = "" /\ Rest[x] = {} /\ store[x] = {}
      /\ \A f \in K!File : Content[f] = {} /\ goal[f] = {}
  <2>1. K!NoFile.lines = <<>>
    BY Zenon DEF K!NoFile
  <2>. QED  BY <2>1, EmptySave DEF K!Init, Target, Rest, Content, K!Lines, K!ToSet
<1>3. SavesInv
  BY <1>2, FileNames DEF SavesInv, WritersUp, OneWriter, Remaining, Whole
<1>4. K!NoCert \in Cert
  BY DEF K!NoCert, Cert
<1>5. CertsType
  BY <1>4 DEF K!Init, CertsType
<1>6. StoresFinite
  BY <1>2, FS_EmptySet DEF StoresFinite
<1>7. K!KnownWasAccepted
  BY DEF K!Init, K!KnownWasAccepted
<1>. QED  BY <1>1, <1>3, <1>5, <1>6, <1>7 DEF KeysInv, FilesInv, CertsInv

(* The callback waives the error of a certificate that is its own issuer,  *)
(* but its first answer, which is the one kept, says whether it is known.  *)
LEMMA VerifiedIsTrusted ==
    ASSUME NEW c, NEW trusted, K!OpensslVerify(c, trusted)
    PROVE  c \in trusted
<1>1. c \notin trusted => K!VerifyCb(K!Asked(c, trusted)) = FALSE
  BY DEF K!VerifyCb, K!Asked
<1>. QED  BY <1>1 DEF K!OpensslVerify

(* A key is made where there is none, and with it the certificate.         *)
LEMMA StartStep ==
    ASSUME KeysInv, NEW x \in K!Program, K!Start(x)
    PROVE  KeysInv'
<1>1. /\ phase[x] = "off" /\ starts' = starts + 1
      /\ phase' = [phase EXCEPT ![x] = "on"]
      /\ store' = [store EXCEPT ![x] = K!Lines(K!StoreFile(x))]
      /\ UNCHANGED <<peer, knows, accepted>> /\ K!AuthSslSetupRsa(x)
  BY DEF K!Start
<1>2. Target[x] = ""
  BY <1>1 DEF KeysInv, FilesInv, SavesInv, WritersUp
<1>3. \A y \in K!Program : phase'[y] = "off" => y # x /\ phase[y] = "off"
  BY <1>1 DEF KeysInv, CertsInv, CertsType
<1>4. FilesInv'
  <2>1. CASE K!StorageSave(x, K!KeyFile(x), {"key"})
    <3>1. K!KeyFile(x) \in K!File
      BY DEF K!KeyFile, K!File
    <3>2. {"key"} \in SUBSET Line /\ IsFiniteSet({"key"})
      BY FS_Singleton DEF Line
    <3>. QED  BY <1>2, <1>3, <2>1, <3>1, <3>2, SaveStep DEF KeysInv
  <2>2. CASE UNCHANGED <<file, goal, torn, saving>>
    <3>1. Content' = Content /\ Target' = Target /\ Rest' = Rest
      BY <2>2 DEF Content, Target, Rest, K!Lines, K!ToSet
    <3>2. WritersUp'
      BY <1>3, <3>1 DEF KeysInv, FilesInv, SavesInv, WritersUp
    <3>. QED  BY <2>2, <3>1, <3>2
              DEF KeysInv, FilesInv, FilesType, SavesInv, OneWriter, Remaining, Whole
  <2>. QED  BY <1>1, <2>1, <2>2 DEF K!AuthSslSetupRsa
<1>5. K!Lines(K!StoreFile(x)) \in SUBSET Line /\ IsFiniteSet(K!Lines(K!StoreFile(x)))
  <2>1. K!StoreFile(x) \in K!File
    BY DEF K!StoreFile, K!File
  <2>2. file[K!StoreFile(x)] \in FileRecord
    BY <2>1 DEF KeysInv, FilesInv, FilesType
  <2>3. file[K!StoreFile(x)].lines \in Seq(Line)
    BY <2>2 DEF FileRecord
  <2>. QED  BY <2>3, Elements DEF K!Lines
<1>6. PICK c \in Cert : cert' = [cert EXCEPT ![x] = c]
  <2>1. K!NewCert(x) \in Cert
    <3>1. K!KeyFile(x) \in {"key of the server", "key of the client"}
      BY DEF K!KeyFile
    <3>2. starts' \in Nat
      BY <1>1 DEF KeysInv, CertsInv, CertsType
    <3>. QED  BY <3>1, <3>2 DEF K!NewCert, Cert
  <2>2. K!NoCert \in Cert
    BY DEF K!NoCert, Cert
  <2>. QED  BY <1>1, <2>1, <2>2 DEF K!AuthSslSetupRsa
<1>7. CertsType'
  BY <1>1, <1>5, <1>6 DEF KeysInv, CertsInv, CertsType
<1>8. StoresFinite'
  BY <1>1, <1>5 DEF KeysInv, CertsInv, CertsType, StoresFinite
<1>9. K!KnownWasAccepted'
  <2>. SUFFICES ASSUME NEW p \in Proc, phase'[p] = "connected", knows'[p]
                PROVE  cert'[p] \in accepted'[p]
    BY DEF K!KnownWasAccepted
  <2>1. p \in K!Program /\ p # x
    BY <1>1 DEF K!Program, KeysInv, CertsInv, CertsType
  <2>. QED  BY <1>1, <1>6, <2>1 DEF K!KnownWasAccepted, KeysInv, CertsInv, CertsType
<1>. QED  BY <1>4, <1>7, <1>8, <1>9 DEF KeysInv, CertsInv

LEMMA KeysStep ==
    ASSUME KeysInv, [K!Next]_keys
    PROVE  KeysInv'
<1>1. ASSUME NEW x \in K!Program, K!Stop(x) PROVE KeysInv'
  <2>1. /\ UNCHANGED <<starts, cert, store, peer, knows, accepted>>
        /\ phase' = [y \in K!Program |->
                       IF y = x \/ (x = Server /\ phase[y] = "connected") THEN "off" ELSE phase[y]]
    BY <1>1 DEF K!Stop
  <2>2. CertsType' /\ StoresFinite'
    BY <2>1 DEF KeysInv, CertsInv, CertsType, StoresFinite
  <2>3. \A p \in Proc : phase'[p] = "connected" => phase[p] = "connected"
    BY <2>1 DEF K!Program
  <2>4. K!KnownWasAccepted'
    BY <2>1, <2>3 DEF K!KnownWasAccepted, KeysInv, CertsInv
  <2>. QED  BY <1>1, <2>2, <2>4, StopStep DEF KeysInv, CertsInv
<1>2. ASSUME UNCHANGED <<starts, phase, cert, store, peer, knows, accepted>>
      PROVE  CertsInv'
  BY <1>2 DEF KeysInv, CertsInv, CertsType, StoresFinite, K!KnownWasAccepted
<1>3. ASSUME UNCHANGED <<file, saving, goal, torn>>,
             \A y \in K!Program : phase'[y] = "off" => Target[y] = ""
      PROVE  FilesInv'
  <2>1. Content' = Content /\ Target' = Target /\ Rest' = Rest
    BY <1>3 DEF Content, Target, Rest, K!Lines, K!ToSet
  <2>2. WritersUp'
    BY <1>3, <2>1 DEF KeysInv, FilesInv, SavesInv, WritersUp
  <2>. QED  BY <1>3, <2>1, <2>2
            DEF KeysInv, FilesInv, FilesType, SavesInv, OneWriter, Remaining, Whole
<1>4. ASSUME NEW x \in K!Program, K!SaveLine(x) PROVE KeysInv'
  BY <1>2, <1>4, LineStep DEF KeysInv, K!SaveLine
<1>5. CASE K!Paste
  BY <1>2, <1>5, PasteStep DEF KeysInv, K!Paste
<1>6. ASSUME NEW x \in K!Program, K!Runs(x)
      PROVE  Target[x] = "" /\ phase[x] # "off"
  BY <1>6, IdleIsEmpty DEF K!Runs, KeysInv
<1>7. Proc \subseteq K!Program /\ Server \in K!Program
  BY DEF K!Program
<1>8. \A y \in K!Program : phase[y] = "off" => Target[y] = ""
  BY DEF KeysInv, FilesInv, SavesInv, WritersUp
<1>9. ASSUME NEW p \in Proc, K!Handshake(p) PROVE KeysInv'
  <2>1. /\ phase[p] = "on" /\ K!Runs(p)
        /\ \E w \in {"off", "connected"} : phase' = [phase EXCEPT ![p] = w]
        /\ peer' = [peer EXCEPT ![p] = cert[Server]]
        /\ knows' = [knows EXCEPT ![p] = K!OpensslVerify(cert[p], store[Server])]
        /\ accepted' = [accepted EXCEPT ![p] = store[Server]]
        /\ UNCHANGED <<starts, file, cert, store, saving, goal, torn>>
    BY <1>9 DEF K!Handshake
  <2>2. FilesInv'
    BY <1>3, <1>6, <1>7, <1>8, <2>1 DEF KeysInv, CertsInv, CertsType
  <2>3. K!OpensslVerify(cert[p], store[Server]) \in BOOLEAN
    BY DEF K!OpensslVerify, K!VerifyCb, K!Asked
  <2>4. CertsType'
    BY <1>7, <2>1, <2>3 DEF KeysInv, CertsInv, CertsType
  <2>5. StoresFinite'
    BY <2>1 DEF KeysInv, CertsInv, StoresFinite
  <2>6. K!KnownWasAccepted'
    <3>. SUFFICES ASSUME NEW q \in Proc, phase'[q] = "connected", knows'[q]
                  PROVE  cert[q] \in accepted'[q]
      BY <2>1 DEF K!KnownWasAccepted
    <3>1. CASE q = p
      <4>1. K!OpensslVerify(cert[p], store[Server])
        BY <2>1, <3>1 DEF KeysInv, CertsInv, CertsType
      <4>2. accepted'[p] = store[Server]
        BY <2>1 DEF KeysInv, CertsInv, CertsType
      <4>. QED  BY <3>1, <4>1, <4>2, VerifiedIsTrusted
    <3>2. CASE q # p
      BY <1>7, <2>1, <3>2 DEF K!KnownWasAccepted, KeysInv, CertsInv, CertsType
    <3>. QED  BY <3>1, <3>2
  <2>. QED  BY <2>2, <2>4, <2>5, <2>6 DEF KeysInv, CertsInv
<1>10. ASSUME NEW x \in K!Program, NEW s \in SUBSET Line, IsFiniteSet(s),
              store' = [store EXCEPT ![x] = s],
              UNCHANGED <<starts, phase, cert, peer, knows, accepted>>
       PROVE  CertsInv'
  BY <1>10 DEF KeysInv, CertsInv, CertsType, StoresFinite, K!KnownWasAccepted
<1>11. ASSUME NEW p \in Proc, K!Trust(p) PROVE KeysInv'
  <2>. DEFINE s == store[p] \cup {peer[p]}
  <2>1. s \in SUBSET Line /\ IsFiniteSet(s)
    <3>1. peer[p] \in Line /\ store[p] \in SUBSET Line /\ IsFiniteSet(store[p])
      BY <1>7 DEF KeysInv, CertsInv, CertsType, StoresFinite, Line
    <3>. QED  BY <3>1, FS_AddElement
  <2>2. /\ K!Runs(p) /\ store' = [store EXCEPT ![p] = s]
        /\ K!StorageSave(p, "connect", store'[p])
        /\ UNCHANGED <<starts, phase, cert, peer, knows, accepted>>
    BY <1>11 DEF K!Trust
  <2>3. store'[p] = s
    BY <1>7, <2>2 DEF KeysInv, CertsInv, CertsType
  <2>. HIDE DEF s
  <2>4. K!StorageSave(p, "connect", s)
    BY <2>2, <2>3
  <2>5. FilesInv'
    BY <1>6, <1>7, <2>1, <2>2, <2>4, FileNames, SaveStep DEF KeysInv
  <2>. QED  BY <1>7, <1>10, <2>1, <2>2, <2>5 DEF KeysInv
<1>12. ASSUME NEW p \in Proc, K!ClientControlKey(p) PROVE KeysInv'
  <2>1. /\ K!Runs(Server) /\ K!Commands(p)
        /\ UNCHANGED <<starts, phase, cert, peer, knows, accepted>>
    BY <1>12 DEF K!ClientControlKey
  <2>2. store[Server] \in SUBSET Line /\ IsFiniteSet(store[Server])
    BY <1>7 DEF KeysInv, CertsInv, CertsType, StoresFinite
  <2>3. ASSUME NEW s \in SUBSET Line, IsFiniteSet(s), K!Keep(s) PROVE KeysInv'
    BY <1>3, <1>7, <1>8, <1>10, <2>1, <2>3 DEF K!Keep, KeysInv
  <2>4. ASSUME NEW c \in Line PROVE store[Server] \cup {c} \in SUBSET Line
                                    /\ IsFiniteSet(store[Server] \cup {c})
    BY <2>2, FS_AddElement
  <2>5. \A x \in K!Program : cert[x] \in Line
    BY DEF KeysInv, CertsInv, CertsType, Line
  <2>6. CASE K!Keep(store[Server] \cup (IF knows[p] \/ cert[p] = K!NoCert THEN {} ELSE {cert[p]}))
    <3>1. CASE K!Keep(store[Server] \cup {cert[p]})
      BY <1>7, <2>3, <2>4, <2>5, <3>1
    <3>2. CASE K!Keep(store[Server] \cup {})
      BY <2>2, <2>3, <3>2
    <3>. QED  BY <2>6, <3>1, <3>2
  <2>7. CASE \E x \in K!Program : cert[x] # K!NoCert /\ K!Keep(store[Server] \cup {cert[x]})
    BY <2>3, <2>4, <2>5, <2>7
  <2>8. CASE \E c \in store[Server] : K!Keep(store[Server] \ {c})
    <3>1. PICK c \in store[Server] : K!Keep(store[Server] \ {c})
      BY <2>8
    <3>2. store[Server] \ {c} \in SUBSET Line /\ IsFiniteSet(store[Server] \ {c})
      BY <2>2, FS_RemoveElement
    <3>. QED  BY <2>3, <3>1, <3>2
  <2>9. CASE K!Keep({})
    BY <2>3, <2>9, FS_EmptySet
  <2>10. CASE K!Keep(K!Lines("accept"))
    <3>1. file["accept"] \in FileRecord
      BY FileNames DEF KeysInv, FilesInv, FilesType
    <3>2. file["accept"].lines \in Seq(Line)
      BY <3>1 DEF FileRecord
    <3>3. K!Lines("accept") \in SUBSET Line /\ IsFiniteSet(K!Lines("accept"))
      BY <3>2, Elements DEF K!Lines
    <3>. QED  BY <2>3, <2>10, <3>3
  <2>11. CASE K!StorageSave(Server, "accept", store[Server]) /\ UNCHANGED store
    <3>1. FilesInv'
      BY <1>6, <1>7, <2>1, <2>2, <2>11, FileNames, SaveStep DEF KeysInv
    <3>. QED  BY <1>2, <2>1, <2>11, <3>1 DEF KeysInv
  <2>. QED  BY <2>1, <2>6, <2>7, <2>8, <2>9, <2>10, <2>11 DEF K!Commands
<1>13. CASE UNCHANGED keys
  BY <1>2, <1>3, <1>8, <1>13 DEF keys, KeysInv
<1>. QED  BY <1>1, <1>4, <1>5, <1>9, <1>11, <1>12, <1>13, StartStep DEF K!Next

LEMMA KeysInvariant == MCSpec => []KeysInv
<1>1. MCInit => KeysInv
  BY KeysInit DEF MCInit
<1>2. ASSUME KeysInv, [MCNext]_<<part, vars, keys, loop, command, prompt>>
      PROVE  KeysInv'
  <2>1. [K!Next]_keys
    BY <1>2 DEF MCNext, LoginNext, KeysNext, LoopNext, OptionsNext, TextNext
  <2>. QED  BY <1>2, <2>1, KeysStep
<1>. QED  BY <1>1, <1>2, PTL DEF MCSpec

(* However many programs start, end and are killed while they save, each   *)
(* file holds of the lines of its last save nothing else, and all of them  *)
(* unless that save was cut off.                                           *)
THEOREM FileWholeCorrect == MCSpec => []FileWhole
<1>1. KeysInv => FileWhole
  BY WholeIsFileWhole DEF KeysInv, FilesInv, SavesInv, FileWhole
<1>. QED  BY <1>1, KeysInvariant, PTL

(* A client that is in by its key showed a certificate the server's store  *)
(* held then, whatever the key commands did to the store since.            *)
THEOREM KnownWasAcceptedCorrect == MCSpec => []KnownWasAccepted
<1>1. KeysInv => KnownWasAccepted
  BY DEF KeysInv, CertsInv, KnownWasAccepted
<1>. QED  BY <1>1, KeysInvariant, PTL

-----------------------------------------------------------------------------
(* The loop of `user <name> <access>`.  It goes over the list of clients,  *)
(* on which each client is once.                                           *)

ListInv ==
    /\ order \in Seq(Listed)
    /\ \A i, j \in DOMAIN order : order[i] = order[j] => i = j
    /\ names \in [Listed -> User] /\ accesses \in [Listed -> L!Level]

LoopInv == part = "loop" => ListInv

Namesakes(n) == {c \in L!ToSet(order) : names[c] = n}

(* The namesakes among the first k of the list, and those to be changed.   *)
Met(k, n) == {i \in 1 .. k : names[order[i]] = n}
Changed(k, n, a) == {i \in Met(k, n) : accesses[order[i]] # a}

(* The client is the last of its name among the first k of the list.       *)
LastMet(k, n, c) == \E i \in Met(k, n) : order[i] = c /\ \A j \in Met(k, n) : j <= i

(* What the loop has come to after the first k of the list.                *)
AccessBy(k, n, a) ==
    [c \in Listed |-> IF c \notin Namesakes(n) \/ Changed(k, n, a) = {} THEN accesses[c]
                      ELSE IF LastMet(k, n, c) THEN a ELSE 0]
BitsBy(k, n, a) ==
    IF Changed(k, n, a) = {} THEN {order[i] : i \in Met(k, n)} ELSE Namesakes(n)
StopsAt(k, n, a) ==
    {i \in Met(k, n) :
        \/ a = 1 /\ \E j \in Changed(k, n, a) : j <= i
        \/ a = 0 /\ i \in Changed(k, n, a) /\ \A j \in Changed(k, n, a) : i <= j}
StoppedBy(k, n, a) == {order[i] : i \in StopsAt(k, n, a)}

Walked(k, n, a) ==
    [access |-> AccessBy(k, n, a), bits |-> BitsBy(k, n, a), stopped |-> StoppedBy(k, n, a)]

(* A set of numbers has a least one.                                       *)
LEMMA LeastOf ==
    ASSUME NEW N \in SUBSET Nat, N # {}
    PROVE  \E n \in N : \A m \in N : n <= m
<1>. DEFINE R == {pair \in Nat \X Nat : pair[1] < pair[2]}
<1>1. IsWellFoundedOn(R, Nat)
  BY NatLessThanWellFounded, Zenon DEF OpToRel
<1>2. \A m \in Nat, n \in Nat : <<m, n>> \in R <=> m < n
  OBVIOUS
<1>. HIDE DEF R
<1>3. PICK n \in N : \A m \in N : <<m, n>> \notin R
  BY <1>1, WFMin
<1>4. ASSUME NEW m \in N PROVE n <= m
  <2>1. m \in Nat /\ n \in Nat /\ ~(m < n)
    BY <1>2, <1>3
  <2>. QED  BY <2>1
<1>. QED  BY <1>4

LEMMA ListInit == L!Init => ListInv
<1>. SUFFICES ASSUME L!Init PROVE ListInv
  OBVIOUS
<1>1. PICK n \in Nat : n = Cardinality(Listed)
  BY EntryAssumption, FS_CardinalityType
<1>2. L!Cardinality(Listed) = Cardinality(Listed)
  BY Zenon DEF L!Cardinality, Cardinality
<1>3. order \in [1 .. n -> Listed] /\ \A i, j \in 1 .. n : i # j => order[i] # order[j]
  BY <1>1, <1>2 DEF L!Init, L!SetToSeqs
<1>4. order \in Seq(Listed)
  BY <1>3
<1>5. DOMAIN order = 1 .. n
  BY <1>3
<1>. QED  BY <1>3, <1>4, <1>5 DEF L!Init, ListInv

(* Without one client the list is in the same order.                       *)
LEMMA CloseStep ==
    ASSUME ListInv, NEW c \in Listed, L!ClientClose(c)
    PROVE  ListInv'
<1>1. PICK i \in DOMAIN order : order' = L!RemoveAt(order, i)
  BY DEF L!ClientClose
<1>2. order \in Seq(Listed) /\ Len(order) \in Nat /\ i \in 1 .. Len(order)
  BY <1>1 DEF ListInv
<1>3. /\ order' \in Seq(Listed) /\ Len(order') = Len(order) - 1
      /\ \A j \in 1 .. Len(order) - 1 : order'[j] = order[IF j < i THEN j ELSE j + 1]
  <2>1. PICK s : s = SubSeq(order, 1, i - 1)  OBVIOUS
  <2>2. PICK t : t = SubSeq(order, i + 1, Len(order))  OBVIOUS
  <2>3. order' = s \o t
    BY <1>1, <2>1, <2>2 DEF L!RemoveAt
  <2>4. s \in Seq(Listed) /\ Len(s) = i - 1 /\ \A j \in 1 .. i - 1 : s[j] = order[j]
    BY <1>2, <2>1
  <2>5. /\ t \in Seq(Listed) /\ Len(t) = Len(order) - i
        /\ \A j \in 1 .. Len(order) - i : t[j] = order[i + j]
    BY <1>2, <2>2
  <2>6. Len(s \o t) = Len(order) - 1 /\ s \o t \in Seq(Listed)
    BY <1>2, <2>4, <2>5
  <2>7. ASSUME NEW j \in 1 .. Len(order) - 1
        PROVE  (s \o t)[j] = order[IF j < i THEN j ELSE j + 1]
    <3>1. CASE j < i
      BY <1>2, <2>4, <2>5, <3>1
    <3>2. CASE j >= i
      <4>1. j - (i - 1) \in 1 .. Len(order) - i /\ i + (j - (i - 1)) = j + 1
        BY <1>2, <3>2
      <4>2. (s \o t)[j] = t[j - (i - 1)]
        <5>1. j \in 1 .. Len(s) + Len(t) /\ ~(j <= Len(s)) /\ j - Len(s) = j - (i - 1)
          BY <1>2, <2>4, <2>5, <3>2
        <5>. QED  BY SMTT(30), <2>4, <2>5, <5>1, ConcatProperties
      <4>3. t[j - (i - 1)] = order[i + (j - (i - 1))]
        BY <2>5, <4>1
      <4>4. ~(j < i)
        BY <1>2, <3>2
      <4>5. (IF j < i THEN j ELSE j + 1) = j + 1
        BY <4>4
      <4>6. (s \o t)[j] = order[j + 1]
        BY <4>1, <4>2, <4>3
      <4>. QED  BY <4>5, <4>6, Zenon
    <3>3. j < i \/ j >= i
      BY <1>2
    <3>. QED  BY <3>1, <3>2, <3>3, Zenon
  <2>. QED  BY <2>3, <2>6, <2>7
<1>4. ASSUME NEW j \in DOMAIN order', NEW k \in DOMAIN order', order'[j] = order'[k]
      PROVE  j = k
  <2>1. j \in 1 .. Len(order) - 1 /\ k \in 1 .. Len(order) - 1
    BY <1>2, <1>3
  <2>. DEFINE p == IF j < i THEN j ELSE j + 1
              q == IF k < i THEN k ELSE k + 1
  <2>2. p \in DOMAIN order /\ q \in DOMAIN order /\ (p = q => j = k)
    BY <1>2, <2>1
  <2>3. order[p] = order[q]
    BY <1>3, <1>4, <2>1
  <2>. HIDE DEF p, q
  <2>. QED  BY <2>2, <2>3 DEF ListInv
<1>5. names' = names /\ accesses' = [accesses EXCEPT ![c] = 0]
  BY DEF L!ClientClose
<1>. QED  BY <1>3, <1>4, <1>5 DEF ListInv, L!Level

(* One turn of the loop brings what was after k - 1 to what is after k.    *)
LEMMA TurnStep ==
    ASSUME ListInv, NEW n \in User, NEW a \in L!Level, NEW k \in 1 .. Len(order)
    PROVE  Walked(k, n, a) =
               IF names[order[k]] = n THEN L!ClientAccess(Walked(k - 1, n, a), order[k], a)
               ELSE Walked(k - 1, n, a)
<1>. DEFINE met == Met(k - 1, n)
            changed == Changed(k - 1, n, a)
            l == order[k]
<1>1. /\ Len(order) \in Nat /\ DOMAIN order = 1 .. Len(order)
      /\ l \in Listed /\ \A i \in 1 .. k : i \in DOMAIN order /\ order[i] \in Listed
  BY DEF ListInv
<1>2. met \subseteq 1 .. k - 1 /\ changed \subseteq met /\ k \notin met
  BY DEF Met, Changed
<1>3. ASSUME names[l] # n PROVE Walked(k, n, a) = Walked(k - 1, n, a)
  <2>1. Met(k, n) = met
    BY <1>1, <1>3 DEF Met
  <2>2. Changed(k, n, a) = changed
    BY <2>1 DEF Changed
  <2>. QED  BY <2>1, <2>2 DEF Walked, AccessBy, BitsBy, StoppedBy, StopsAt, LastMet
<1>4. ASSUME names[l] = n
      PROVE  Walked(k, n, a) = L!ClientAccess(Walked(k - 1, n, a), l, a)
  <2>1. Met(k, n) = met \cup {k} /\ \A i \in met : i <= k - 1 /\ i \in Nat
    BY <1>1, <1>4 DEF Met
  <2>2. Changed(k, n, a) = changed \cup (IF accesses[l] = a THEN {} ELSE {k})
    <3>1. Changed(k, n, a) = {i \in met \cup {k} : accesses[order[i]] # a}
      BY <2>1 DEF Changed
    <3>. QED  BY <3>1 DEF Changed
  <2>3. l \in Namesakes(n)
    BY <1>1, <1>4 DEF Namesakes, L!ToSet
  <2>4. {c \in L!ToSet(order) \ {l} : names[c] = names[l]} = Namesakes(n) \ {l}
    BY <1>4 DEF Namesakes
  <2>5. \A i \in Met(k, n) : order[i] \in Namesakes(n)
    BY <1>1 DEF Namesakes, L!ToSet, Met
  <2>6. \A c \in Listed : LastMet(k, n, c) <=> c = l
    <3>1. LastMet(k, n, l)
      BY <1>1, <2>1 DEF LastMet
    <3>2. ASSUME NEW c \in Listed, LastMet(k, n, c) PROVE c = l
      <4>1. PICK i \in Met(k, n) : order[i] = c /\ \A j \in Met(k, n) : j <= i
        BY <3>2 DEF LastMet
      <4>2. k <= i /\ (i = k \/ i <= k - 1)
        BY <2>1, <4>1
      <4>3. i = k
        BY <4>2, <2>1
      <4>. QED  BY <4>1, <4>3
    <3>. QED  BY <3>1, <3>2
  <2>7. ~LastMet(k - 1, n, l)
    BY <1>1, <1>2 DEF LastMet, ListInv
  <2>8. AccessBy(k - 1, n, a)[l] = IF changed = {} THEN accesses[l] ELSE 0
    BY <1>1, <2>3, <2>7 DEF AccessBy
  <2>9. CASE AccessBy(k - 1, n, a)[l] = a
    <3>1. L!ClientAccess(Walked(k - 1, n, a), l, a)
            = [access |-> AccessBy(k - 1, n, a), bits |-> BitsBy(k - 1, n, a) \cup {l},
               stopped |-> StoppedBy(k - 1, n, a)]
      BY <2>9 DEF L!ClientAccess, Walked
    <3>2. CASE changed = {}
      <4>1. Changed(k, n, a) = {}
        BY <2>2, <2>8, <2>9, <3>2
      <4>2. AccessBy(k, n, a) = AccessBy(k - 1, n, a)
        BY <3>2, <4>1 DEF AccessBy
      <4>3. BitsBy(k, n, a) = BitsBy(k - 1, n, a) \cup {l}
        BY <2>1, <3>2, <4>1 DEF BitsBy
      <4>4. StopsAt(k, n, a) = {} /\ StopsAt(k - 1, n, a) = {}
        BY <3>2, <4>1 DEF StopsAt
      <4>. QED  BY <3>1, <4>2, <4>3, <4>4 DEF Walked, StoppedBy
    <3>3. CASE changed # {}
      <4>1. a = 0 /\ Changed(k, n, a) # {}
        BY <2>2, <2>8, <2>9, <3>3
      <4>2. AccessBy(k, n, a) = AccessBy(k - 1, n, a)
        BY <3>3, <4>1 DEF AccessBy
      <4>3. BitsBy(k, n, a) = BitsBy(k - 1, n, a) \cup {l}
        BY <2>3, <3>3, <4>1 DEF BitsBy
      <4>4. StopsAt(k, n, a) = StopsAt(k - 1, n, a)
        <5>1. \A i \in met : i <= k
          BY <1>1, <2>1
        <5>2. PICK j \in changed : TRUE
          BY <3>3
        <5>3. j \in Changed(k, n, a) /\ ~(k <= j)
          BY <1>1, <1>2, <2>1, <2>2, <5>2
        <5>4. k \notin StopsAt(k, n, a)
          BY <4>1, <5>3 DEF StopsAt
        <5>5. \A i \in met : i \in Changed(k, n, a) <=> i \in changed
          BY <1>2, <2>2
        <5>6. \A i \in met : i \in StopsAt(k, n, a) <=> i \in StopsAt(k - 1, n, a)
          BY <2>1, <2>2, <4>1, <5>1, <5>5 DEF StopsAt
        <5>7. StopsAt(k, n, a) \subseteq Met(k, n) /\ StopsAt(k - 1, n, a) \subseteq met
          BY DEF StopsAt
        <5>. QED  BY <2>1, <5>4, <5>6, <5>7
      <4>. QED  BY <3>1, <4>2, <4>3, <4>4 DEF Walked, StoppedBy
    <3>. QED  BY <3>2, <3>3
  <2>10. CASE AccessBy(k - 1, n, a)[l] # a
    <3>1. L!ClientAccess(Walked(k - 1, n, a), l, a)
            = [access |-> [d \in Listed |-> IF d = l THEN a
                                            ELSE IF d \in Namesakes(n) \ {l} THEN 0
                                            ELSE AccessBy(k - 1, n, a)[d]],
               bits |-> BitsBy(k - 1, n, a) \cup {l} \cup (Namesakes(n) \ {l}),
               stopped |-> StoppedBy(k - 1, n, a) \cup (IF a # 2 THEN {l} ELSE {})]
      BY <2>4, <2>10 DEF L!ClientAccess, Walked
    <3>2. Changed(k, n, a) # {} /\ (changed = {} \/ a # 0)
      BY <2>2, <2>8, <2>10
    <3>3. AccessBy(k, n, a) = [d \in Listed |-> IF d = l THEN a
                                                ELSE IF d \in Namesakes(n) \ {l} THEN 0
                                                ELSE AccessBy(k - 1, n, a)[d]]
      BY <1>1, <2>3, <2>6, <3>2 DEF AccessBy
    <3>4. BitsBy(k, n, a) = BitsBy(k - 1, n, a) \cup {l} \cup (Namesakes(n) \ {l})
      <4>1. BitsBy(k - 1, n, a) \subseteq Namesakes(n)
        BY <2>1, <2>5 DEF BitsBy
      <4>. QED  BY <2>3, <3>2, <4>1 DEF BitsBy
    <3>5. StopsAt(k, n, a) = StopsAt(k - 1, n, a) \cup (IF a # 2 THEN {k} ELSE {})
      <4>1. StopsAt(k, n, a) \subseteq met \cup {k} /\ StopsAt(k - 1, n, a) \subseteq met
        BY <2>1 DEF StopsAt
      <4>2. ASSUME NEW i \in met PROVE i \in StopsAt(k, n, a) <=> i \in StopsAt(k - 1, n, a)
        <5>1. \A j \in Changed(k, n, a) : j <= i => j \in changed
          BY <1>1, <2>1, <2>2
        <5>2. changed \subseteq Changed(k, n, a) /\ i \in Met(k, n)
          BY <2>1, <2>2
        <5>. QED  BY <1>2, <3>2, <5>1, <5>2 DEF StopsAt
      <4>3. k \in StopsAt(k, n, a) <=> a # 2
        <5>1. PICK j \in Changed(k, n, a) : j <= k /\ j \in Met(k, n)
          BY <1>1, <1>2, <2>1, <2>2, <3>2
        <5>2. changed = {} => Changed(k, n, a) = {k}
          BY <2>2, <3>2
        <5>3. k \in Met(k, n) /\ a \in {0, 1, 2} /\ k <= k
          BY <2>1 DEF L!Level
        <5>. QED  BY <3>2, <5>1, <5>2, <5>3 DEF StopsAt
      <4>. QED  BY <1>2, <4>1, <4>2, <4>3
    <3>6. StoppedBy(k, n, a) = StoppedBy(k - 1, n, a) \cup (IF a # 2 THEN {l} ELSE {})
      BY <3>5 DEF StoppedBy
    <3>. QED  BY <3>1, <3>3, <3>4, <3>6 DEF Walked
  <2>. QED  BY <2>9, <2>10
<1>. QED  BY <1>3, <1>4

(* The loop is its turns one after the other.                              *)
LEMMA LoopWalks ==
    ASSUME ListInv, NEW n \in User, NEW a \in L!Level
    PROVE  L!Loop(n, a) = Walked(Len(order), n, a)
<1>. DEFINE Turns(f) ==
                f = [i \in 0 .. Len(order) |->
                        IF i = 0 THEN [access |-> accesses, bits |-> {}, stopped |-> {}]
                        ELSE IF names[order[i]] = n THEN L!ClientAccess(f[i - 1], order[i], a)
                        ELSE f[i - 1]]
            g == [i \in 0 .. Len(order) |-> Walked(i, n, a)]
<1>1. Len(order) \in Nat
  BY DEF ListInv
<1>2. Walked(0, n, a) = [access |-> accesses, bits |-> {}, stopped |-> {}]
  <2>1. Met(0, n) = {} /\ Changed(0, n, a) = {}
    BY DEF Met, Changed
  <2>2. AccessBy(0, n, a) = accesses
    BY <2>1 DEF AccessBy, ListInv
  <2>. QED  BY <2>1, <2>2 DEF Walked, BitsBy, StoppedBy, StopsAt
<1>3. Turns(g)
  <2>1. ASSUME NEW i \in 0 .. Len(order)
        PROVE  Walked(i, n, a) =
                 IF i = 0 THEN [access |-> accesses, bits |-> {}, stopped |-> {}]
                 ELSE IF names[order[i]] = n THEN L!ClientAccess(g[i - 1], order[i], a)
                 ELSE g[i - 1]
    <3>1. CASE i = 0
      BY <1>2, <3>1
    <3>2. CASE i # 0
      <4>1. i \in 1 .. Len(order) /\ i - 1 \in 0 .. Len(order)
        BY <1>1, <3>2
      <4>2. g[i - 1] = Walked(i - 1, n, a)
        BY <4>1
      <4>. HIDE DEF g
      <4>. QED  BY <3>2, <4>1, <4>2, TurnStep
    <3>. QED  BY <3>1, <3>2
  <2>. QED  BY <2>1
<1>4. ASSUME NEW f, Turns(f) PROVE f[Len(order)] = Walked(Len(order), n, a)
  <2>. DEFINE Bad == {i \in 0 .. Len(order) : f[i] # Walked(i, n, a)}
  <2>1. SUFFICES ASSUME Bad # {} PROVE FALSE
    BY <1>1
  <2>2. PICK k \in Bad : \A m \in Bad : k <= m
    <3>1. Bad \in SUBSET Nat
      BY <1>1
    <3>. HIDE DEF Bad
    <3>. QED  BY <2>1, <3>1, LeastOf
  <2>3. k \in 0 .. Len(order) /\ f[k] # Walked(k, n, a)
    BY <2>2
  <2>4. f[k] = IF k = 0 THEN [access |-> accesses, bits |-> {}, stopped |-> {}]
               ELSE IF names[order[k]] = n THEN L!ClientAccess(f[k - 1], order[k], a)
               ELSE f[k - 1]
    BY <1>4, <2>3
  <2>5. CASE k = 0
    BY <1>2, <2>3, <2>4, <2>5
  <2>6. CASE k # 0
    <3>1. k \in 1 .. Len(order) /\ k - 1 \in 0 .. Len(order) /\ ~(k <= k - 1)
      BY <1>1, <2>3, <2>6
    <3>2. f[k - 1] = Walked(k - 1, n, a)
      BY <2>2, <3>1
    <3>. HIDE DEF Turns
    <3>. QED  BY <2>3, <2>4, <2>6, <3>1, <3>2, TurnStep
  <2>. QED  BY <2>5, <2>6
<1>5. L!Loop(n, a) = (CHOOSE f : Turns(f))[Len(order)]
  BY DEF L!Loop
<1>6. Turns(CHOOSE f : Turns(f))
  <2>. HIDE DEF Turns, g
  <2>. QED  BY <1>3
<1>. HIDE DEF Turns
<1>. QED  BY <1>4, <1>5, <1>6

(* The clients before another in the list, which are the newer ones.       *)
Newer(c) == {order[i] : i \in {j \in DOMAIN order : \E k \in DOMAIN order : j < k /\ order[k] = c}}

LEMMA NewerIsBefore ==
    ASSUME ListInv, NEW i \in DOMAIN order, NEW j \in DOMAIN order
    PROVE  order[j] \in Newer(order[i]) <=> j < i
  BY DEF ListInv, Newer

(* After the whole list, that is what client_control_user is said to do.   *)
LEMMA WholeWalk ==
    ASSUME ListInv, NEW n \in User, NEW a \in L!Level
    PROVE  Walked(Len(order), n, a) = [access  |-> L!Sessions!UserAccess(n, a),
                                       bits    |-> L!Sessions!Named(n),
                                       stopped |-> L!Sessions!UserStopped(n, a)]
<1>. DEFINE met == Met(Len(order), n)
            changed == Changed(Len(order), n, a)
            Differing == L!Sessions!Differing(n, a)
<1>1. /\ Len(order) \in Nat /\ DOMAIN order = 1 .. Len(order)
      /\ \A i \in DOMAIN order : order[i] \in Listed
  BY DEF ListInv
<1>2. L!Sessions!Named(n) = Namesakes(n)
  BY DEF L!Sessions!Named, Namesakes
<1>3. /\ met = {i \in DOMAIN order : names[order[i]] = n} /\ met \subseteq DOMAIN order
      /\ changed = {i \in met : accesses[order[i]] # a}
  BY <1>1 DEF Met, Changed
<1>4. /\ Namesakes(n) = {order[i] : i \in met}
      /\ \A i \in DOMAIN order : order[i] \in Namesakes(n) <=> i \in met
  BY <1>1, <1>3 DEF Namesakes, L!ToSet
<1>5. Differing = {c \in Namesakes(n) : accesses[c] # a}
  BY <1>2 DEF L!Sessions!Differing
<1>6. /\ Differing = {order[i] : i \in changed}
      /\ \A i \in DOMAIN order : order[i] \in Differing <=> i \in changed
  BY <1>3, <1>4, <1>5
<1>. HIDE DEF met, changed, Differing
<1>7. BitsBy(Len(order), n, a) = Namesakes(n)
  BY <1>4 DEF BitsBy, met
<1>8. AccessBy(Len(order), n, a) = L!Sessions!UserAccess(n, a)
  <2>1. L!Sessions!UserAccess(n, a) =
          [c \in Listed |-> IF c \in Namesakes(n) /\ Differing # {}
                            THEN IF Namesakes(n) \ {c} \subseteq Newer(c) THEN a ELSE 0
                            ELSE accesses[c]]
    BY <1>2 DEF L!Sessions!UserAccess, Newer, Differing
  <2>2. ASSUME NEW c \in Namesakes(n)
        PROVE  Namesakes(n) \ {c} \subseteq Newer(c) <=> LastMet(Len(order), n, c)
    <3>1. PICK i \in met : order[i] = c
      BY <1>4
    <3>2. LastMet(Len(order), n, c) <=> \A j \in met : j <= i
      BY <1>3, <3>1 DEF LastMet, met, ListInv
    <3>3. Namesakes(n) \ {c} \subseteq Newer(c) <=> \A j \in met : j = i \/ j < i
      <4>1. \A j \in met : order[j] = c <=> j = i
        BY <1>3, <3>1 DEF ListInv
      <4>2. \A j \in met : order[j] \in Newer(c) <=> j < i
        BY <1>3, <3>1, NewerIsBefore
      <4>. QED  BY <1>4, <4>1, <4>2
    <3>4. \A j \in met : j <= i <=> j = i \/ j < i
      BY <1>1, <1>3
    <3>. QED  BY <3>2, <3>3, <3>4
  <2>3. Differing = {} <=> changed = {}
    BY <1>6
  <2>. QED  BY <2>1, <2>2, <2>3 DEF AccessBy, changed
<1>9. StoppedBy(Len(order), n, a) = L!Sessions!UserStopped(n, a)
  <2>. DEFINE stopped == L!Sessions!UserStopped(n, a)
              newer == [c \in Listed |-> Newer(c)]
  <2>1. Differing \subseteq Namesakes(n) /\ Namesakes(n) \subseteq Listed
    BY <1>1, <1>3, <1>4, <1>5
  <2>2. ASSUME a = 0 PROVE stopped = {c \in Differing : Newer(c) \cap Differing = {}}
    <3>1. stopped = {c \in Differing : newer[c] \cap Differing = {}}
      <4>1. a # 1 /\ a # 2
        BY <2>2
      <4>. QED  BY <2>2, <4>1 DEF L!Sessions!UserStopped, Newer, Differing
    <3>. QED  BY <2>1, <3>1
  <2>3. ASSUME a = 1
        PROVE  stopped = {c \in Namesakes(n) : ({c} \cup Newer(c)) \cap Differing # {}}
    <3>1. stopped = {c \in L!Sessions!Named(n) : ({c} \cup newer[c]) \cap Differing # {}}
      <4>1. a # 0 /\ a # 2
        BY <2>3
      <4>. QED  BY <2>3, <4>1 DEF L!Sessions!UserStopped, Newer, Differing
    <3>. QED  BY <1>2, <2>1, <3>1
  <2>4. ASSUME a = 2 PROVE stopped = {}
    BY <2>4 DEF L!Sessions!UserStopped
  <2>. HIDE DEF stopped
  <2>5. a \in {0, 1, 2}
    BY DEF L!Level
  <2>6. ASSUME NEW i \in met
        PROVE  /\ Newer(order[i]) \cap Differing = {} <=> \A j \in changed : ~(j < i)
               /\ ({order[i]} \cup Newer(order[i])) \cap Differing # {}
                    <=> \E j \in changed : j = i \/ j < i
    <3>1. changed \subseteq DOMAIN order /\ i \in DOMAIN order
      BY <1>3
    <3>2. \A j \in changed : order[j] \in Newer(order[i]) <=> j < i
      BY <3>1, NewerIsBefore
    <3>3. order[i] \in Differing <=> i \in changed
      BY <1>6, <3>1
    <3>. QED  BY <1>6, <3>1, <3>2, <3>3
  <2>7. \A i \in met, j \in changed : (j <= i <=> j = i \/ j < i) /\ (i <= j <=> ~(j < i))
    BY <1>1, <1>3
  <2>8. ASSUME NEW i \in met
        PROVE  order[i] \in stopped <=> i \in StopsAt(Len(order), n, a)
    <3>1. order[i] \in Namesakes(n) /\ (order[i] \in Differing <=> i \in changed)
      BY <1>3, <1>4, <1>6
    <3>2. CASE a = 0
      BY <2>2, <2>6, <2>7, <3>1, <3>2 DEF StopsAt, met, changed
    <3>3. CASE a = 1
      BY <2>3, <2>6, <2>7, <3>1, <3>3 DEF StopsAt, met, changed
    <3>4. CASE a = 2
      BY <2>4, <3>4 DEF StopsAt
    <3>. QED  BY <2>5, <3>2, <3>3, <3>4
  <2>9. stopped \subseteq Namesakes(n) /\ StopsAt(Len(order), n, a) \subseteq met
    BY <2>1, <2>2, <2>3, <2>4, <2>5 DEF StopsAt, met
  <2>. QED  BY <1>4, <2>8, <2>9 DEF StoppedBy, stopped
<1>. QED  BY <1>2, <1>7, <1>8, <1>9 DEF Walked

LEMMA LoopInvariant == MCSpec => []LoopInv
<1>1. MCInit => LoopInv
  BY ListInit DEF MCInit, LoopInv
<1>2. ASSUME LoopInv, [MCNext]_<<part, vars, keys, loop, command, prompt>> PROVE LoopInv'
  <2>. SUFFICES ASSUME part' = "loop" PROVE ListInv'
    BY DEF LoopInv
  <2>1. part = "loop" /\ ListInv
    BY <1>2 DEF MCNext, LoopInv
  <2>2. CASE UNCHANGED loop
    BY <2>1, <2>2 DEF loop, ListInv
  <2>3. ASSUME NEW c \in Listed, L!ClientClose(c) PROVE ListInv'
    BY <2>1, <2>3, CloseStep
  <2>4. ASSUME NEW n \in User, NEW a \in L!Level, L!ControlUser(n, a) PROVE ListInv'
    <3>1. accesses' = AccessBy(Len(order), n, a) /\ UNCHANGED <<order, names>>
      BY <2>1, <2>4, LoopWalks DEF L!ControlUser, Walked
    <3>2. AccessBy(Len(order), n, a) \in [Listed -> L!Level]
      BY <2>1 DEF AccessBy, ListInv, L!Level
    <3>. QED  BY <2>1, <3>1, <3>2 DEF ListInv
  <2>5. L!Next \/ UNCHANGED loop
    BY <1>2, <2>1 DEF MCNext, LoginNext, KeysNext, LoopNext, OptionsNext, TextNext
  <2>. QED  BY <2>2, <2>3, <2>4, <2>5 DEF L!Next
<1>. QED  BY <1>1, <1>2, PTL DEF MCSpec

(* Whatever the order of the list, the names and the accesses before, one  *)
(* `user <name> <access>` leaves the access to the last namesake, tells    *)
(* all of them and ends the masterships the sessions say it ends.          *)
THEOREM UserLoopAgreesCorrect == MCSpec => []UserLoopAgrees
<1>1. LoopInv => UserLoopAgrees
  BY LoopWalks, WholeWalk DEF LoopInv, UserLoopAgrees, L!UserLoopAgrees
<1>. QED  BY <1>1, LoopInvariant, PTL

-----------------------------------------------------------------------------
(* The line typed at a prompt.                                             *)

Characters ==
    {c \in Seq(T!Byte) : /\ Len(c) > 0 /\ ~T!Chain(c[1])
                         /\ T!Whole(c) /\ \A i \in 2 .. Len(c) : T!Chain(c[i])}

(* Where the characters of a text begin.                                   *)
Firsts(s) == {i \in DOMAIN s : ~T!Chain(s[i])}

(* What has been typed after each character.                               *)
Typing(f) ==
    /\ f \in [0 .. Len(kept) -> Seq(T!Byte)]
    /\ f[0] = <<>>
    /\ \A i \in 1 .. Len(kept) : f[i] = f[i - 1] \o kept[i]
    /\ \A i \in 0 .. Len(kept) : IsFiniteSet(Firsts(f[i])) /\ Cardinality(Firsts(f[i])) = i

Edited ==
    /\ kept \in Seq(Characters) /\ pos \in Nat
    /\ \E f : Typing(f) /\ line = f[Len(kept)]
    /\ tty => pos = Len(kept)
    /\ ~asking /\ kept # <<>> => answer = line /\ Len(kept) >= Least

TextInv == part = "text" => Edited

LEMMA NothingTyped ==
    ASSUME kept' = <<>>, line' = <<>>
    PROVE  \E f : Typing(f)' /\ line' = f[Len(kept')]
<1>1. PICK f : f = [i \in 0 .. 0 |-> <<>>]
  OBVIOUS
<1>2. Len(kept') = 0
  OBVIOUS
<1>3. <<>> \in Seq(T!Byte) /\ IsFiniteSet(Firsts(<<>>)) /\ Cardinality(Firsts(<<>>)) = 0
  <2>1. Firsts(<<>>) = {}
    BY DEF Firsts
  <2>. QED  BY <2>1, FS_EmptySet
<1>4. f \in [0 .. 0 -> Seq(T!Byte)] /\ f[0] = <<>>
  BY <1>1, <1>3
<1>5. \A i \in 0 .. 0 : i = 0
  OBVIOUS
<1>6. Typing(f)'
  BY <1>2, <1>3, <1>4, <1>5 DEF Typing, Firsts, T!Chain
<1>. QED  BY <1>2, <1>4, <1>6

(* A character begins once, wherever it stands.                            *)
LEMMA FirstsMore ==
    ASSUME NEW s \in Seq(T!Byte), NEW c \in Characters
    PROVE  /\ s \o c \in Seq(T!Byte)
           /\ Firsts(s \o c) = Firsts(s) \cup {Len(s) + 1}
           /\ Len(s) + 1 \notin Firsts(s)
           /\ Len(s \o c) > Len(s) /\ SubSeq(s \o c, 1, Len(s)) = s
           /\ Len(s) \in Nat /\ Len(s \o c) \in Nat
<1>1. /\ c \in Seq(T!Byte) /\ Len(c) \in Nat /\ Len(c) > 0 /\ ~T!Chain(c[1])
      /\ \A i \in 2 .. Len(c) : T!Chain(c[i])
  BY DEF Characters
<1>2. PICK t : t = s \o c
  OBVIOUS
<1>3. /\ t \in Seq(T!Byte) /\ Len(t) = Len(s) + Len(c) /\ Len(s) \in Nat
      /\ \A i \in 1 .. Len(s) + Len(c) : t[i] = IF i <= Len(s) THEN s[i] ELSE c[i - Len(s)]
  BY <1>1, <1>2, ConcatProperties
<1>4. PICK n \in Nat : n = Len(s)
  BY <1>3
<1>5. PICK k \in Nat : k = Len(c) /\ k > 0
  BY <1>1
<1>6. DOMAIN t = 1 .. n + k /\ DOMAIN s = 1 .. n
  BY <1>3, <1>4, <1>5
<1>7. ASSUME NEW i \in 1 .. n + k PROVE i \in Firsts(t) <=> i \in Firsts(s) \/ i = n + 1
  <2>1. CASE i <= n
    <3>1. t[i] = s[i] /\ i \in DOMAIN s /\ i # n + 1
      BY <1>3, <1>4, <1>5, <1>6, <2>1
    <3>. QED  BY <1>6, <3>1 DEF Firsts
  <2>2. CASE i = n + 1
    <3>1. t[i] = c[1] /\ i \in DOMAIN t
      <4>1. ~(i <= n) /\ i - n = 1
        BY <2>2
      <4>. QED  BY <1>3, <1>4, <1>5, <1>6, <4>1
    <3>. QED  BY <1>1, <2>2, <3>1 DEF Firsts
  <2>3. CASE i > n + 1
    <3>1. ~(i <= n) /\ i - n \in 2 .. k /\ i \notin 1 .. n /\ i # n + 1
      BY <2>3
    <3>2. t[i] = c[i - n]
      BY <1>3, <1>4, <1>5, <3>1
    <3>. QED  BY <1>1, <1>5, <1>6, <3>1, <3>2 DEF Firsts
  <2>. QED  BY <2>1, <2>2, <2>3
<1>8. n + 1 \in 1 .. n + k /\ n + 1 \notin 1 .. n /\ 1 .. n \subseteq 1 .. n + k
  BY <1>5
<1>9. Firsts(t) \subseteq 1 .. n + k /\ Firsts(s) \subseteq 1 .. n
  BY <1>6 DEF Firsts
<1>10. Firsts(t) = Firsts(s) \cup {n + 1} /\ n + 1 \notin Firsts(s)
  BY <1>7, <1>8, <1>9
<1>11. SubSeq(t, 1, n) = s
  <2>1. \A i \in 1 .. n : t[i] = s[i]
    BY <1>3, <1>4, <1>5
  <2>2. /\ SubSeq(t, 1, n) \in Seq(T!Byte) /\ Len(SubSeq(t, 1, n)) = n
        /\ \A i \in 1 .. n : SubSeq(t, 1, n)[i] = t[i]
    <3>1. Len(t) \in Nat /\ n <= Len(t) /\ 1 .. n \subseteq 1 .. Len(t)
      BY <1>3, <1>4, <1>5
    <3>. QED  BY <1>3, <3>1, SubSeqProperties
  <2>3. PICK u : u = SubSeq(t, 1, n)
    OBVIOUS
  <2>4. u \in Seq(T!Byte) /\ Len(u) = Len(s) /\ \A i \in 1 .. Len(s) : u[i] = s[i]
    BY <1>4, <2>1, <2>2, <2>3
  <2>5. u = s
    BY <2>4, SeqEqual
  <2>. QED  BY <2>3, <2>5
<1>. QED  BY <1>2, <1>3, <1>4, <1>5, <1>10, <1>11

LEMMA CharactersTyped ==
    ASSUME NEW s \in Typed, T!Whole(s)
    PROVE  s \in Characters
<1>1. s \in Seq(T!Byte) /\ s # <<>>
  BY EntryAssumption DEF T!Byte
<1>2. Len(s) \in Nat /\ Len(s) > 0 /\ s[1] \in T!Byte
  BY <1>1
<1>3. T!Utf8Count(s[1]) = Len(s) /\ \A i \in 2 .. Len(s) : T!Chain(s[i])
  BY DEF T!Whole
<1>4. PICK b \in 0 .. 255 : b = s[1]
  BY <1>2 DEF T!Byte
<1>5. T!Utf8Count(b) # 0
  BY <1>2, <1>3, <1>4
<1>6. b < 128 \/ b >= 192
  BY <1>4, <1>5 DEF T!Utf8Count
<1>7. ~T!Chain(b)
  BY <1>4, <1>6 DEF T!Chain
<1>. QED  BY <1>1, <1>2, <1>3, <1>4, <1>7 DEF Characters

LEMMA CharTyped ==
    ASSUME Edited, NEW s \in Typed, T!TypeChar(s)
    PROVE  Edited'
<1>1. /\ asking /\ T!Whole(s) /\ line' = line \o s /\ kept' = Append(kept, s)
      /\ pos' = pos + (IF tty THEN 1 ELSE 0)
      /\ UNCHANGED <<tty, answer, asking>>
  BY DEF T!TypeChar
<1>2. s \in Characters
  BY <1>1, CharactersTyped
<1>3. kept \in Seq(Characters) /\ Len(kept) \in Nat /\ kept' \in Seq(Characters)
  BY <1>1, <1>2 DEF Edited
<1>4. PICK f : Typing(f) /\ line = f[Len(kept)]
  BY DEF Edited
<1>5. PICK n \in Nat : n = Len(kept)
  BY <1>3
<1>6. /\ f \in [0 .. n -> Seq(T!Byte)] /\ f[0] = <<>>
      /\ \A i \in 1 .. n : f[i] = f[i - 1] \o kept[i]
      /\ \A i \in 0 .. n : IsFiniteSet(Firsts(f[i])) /\ Cardinality(Firsts(f[i])) = i
  BY <1>4, <1>5 DEF Typing
<1>7. PICK q : q = f[n] \o s
  OBVIOUS
<1>8. /\ q \in Seq(T!Byte) /\ IsFiniteSet(Firsts(q)) /\ Cardinality(Firsts(q)) = n + 1
  <2>1. f[n] \in Seq(T!Byte) /\ IsFiniteSet(Firsts(f[n])) /\ Cardinality(Firsts(f[n])) = n
    BY <1>6
  <2>2. /\ q \in Seq(T!Byte) /\ Firsts(q) = Firsts(f[n]) \cup {Len(f[n]) + 1}
        /\ Len(f[n]) + 1 \notin Firsts(f[n])
    BY <1>2, <1>7, <2>1, FirstsMore
  <2>. QED  BY <2>1, <2>2, FS_AddElement
<1>9. PICK g : g = [i \in 0 .. n + 1 |-> IF i <= n THEN f[i] ELSE q]
  OBVIOUS
<1>10. /\ Len(kept') = n + 1 /\ kept'[n + 1] = s
       /\ \A i \in 1 .. n : kept'[i] = kept[i]
  BY <1>1, <1>3, <1>5
<1>11. /\ g \in [0 .. n + 1 -> Seq(T!Byte)] /\ g[0] = <<>> /\ g[n + 1] = q
  BY <1>6, <1>8, <1>9
<1>12. ASSUME NEW i \in 1 .. n + 1 PROVE g[i] = g[i - 1] \o kept'[i]
  <2>1. CASE i = n + 1
    <3>1. g[i] = q /\ g[i - 1] = f[n] /\ kept'[i] = s
      BY <1>9, <1>10, <2>1
    <3>. QED  BY <1>7, <3>1
  <2>2. CASE i # n + 1
    <3>1. i \in 1 .. n /\ g[i] = f[i] /\ g[i - 1] = f[i - 1]
      BY <1>9, <2>2
    <3>. QED  BY <1>6, <1>10, <3>1
  <2>. QED  BY <2>1, <2>2
<1>13. ASSUME NEW i \in 0 .. n + 1
       PROVE  IsFiniteSet(Firsts(g[i])) /\ Cardinality(Firsts(g[i])) = i
  <2>1. CASE i = n + 1
    BY <1>8, <1>11, <2>1
  <2>2. CASE i # n + 1
    <3>1. i \in 0 .. n /\ g[i] = f[i]
      BY <1>9, <2>2
    <3>. QED  BY <1>6, <3>1
  <2>. QED  BY <2>1, <2>2
<1>14. Typing(g)'
  BY <1>10, <1>11, <1>12, <1>13 DEF Typing, Firsts, T!Chain
<1>15. line' = g[Len(kept')]
  BY <1>1, <1>4, <1>5, <1>7, <1>10, <1>11
<1>16. pos' \in Nat /\ (tty' => pos' = Len(kept'))
  BY <1>1, <1>3, <1>5, <1>10 DEF Edited
<1>. QED  BY <1>1, <1>3, <1>14, <1>15, <1>16 DEF Edited

(* The character taken back is the last one, however many bytes it has.    *)
LEMMA TakenBack ==
    ASSUME Edited, NEW s \in Typed, T!Backspace(s)
    PROVE  Edited'
<1>1. /\ asking /\ tty /\ pos' = (IF pos > 0 THEN pos - 1 ELSE 0)
      /\ line' = SubSeq(line, 1, T!Utf8Prev(line, Len(line)))
      /\ kept' = (IF kept = <<>> THEN <<>> ELSE SubSeq(kept, 1, Len(kept) - 1))
      /\ UNCHANGED <<tty, answer, asking>>
  BY DEF T!Backspace, T!Front
<1>2. kept \in Seq(Characters) /\ Len(kept) \in Nat /\ pos \in Nat /\ pos = Len(kept)
  BY <1>1 DEF Edited
<1>3. PICK f : Typing(f) /\ line = f[Len(kept)]
  BY DEF Edited
<1>4. PICK n \in Nat : n = Len(kept)
  BY <1>2
<1>5. /\ f \in [0 .. n -> Seq(T!Byte)] /\ f[0] = <<>>
      /\ \A i \in 1 .. n : f[i] = f[i - 1] \o kept[i]
      /\ \A i \in 0 .. n : IsFiniteSet(Firsts(f[i])) /\ Cardinality(Firsts(f[i])) = i
  BY <1>3, <1>4 DEF Typing
<1>6. CASE kept = <<>>
  <2>1. line = <<>> /\ n = 0 /\ pos' = 0
    BY <1>1, <1>2, <1>3, <1>4, <1>5, <1>6
  <2>2. line' = <<>>
    <3>1. \A p : p = T!Utf8Prev(<<>>, 0) => p = 0
      <4>1. {0} \cup {j \in 0 .. 0 - 1 : ~T!Chain(<<>>[j + 1])} = {0}
        OBVIOUS
      <4>2. T!Utf8Prev(<<>>, 0) = CHOOSE x \in {0} : \A y \in {0} : x >= y
        BY <4>1 DEF T!Utf8Prev, T!Max
      <4>. QED  BY <4>2
    <3>2. line' = SubSeq(<<>>, 1, 0)
      BY <1>1, <2>1, <3>1
    <3>. QED  BY <3>2, SubSeqEmpty
  <2>3. kept' = <<>>
    BY <1>1, <1>6
  <2>4. \E g : Typing(g)' /\ line' = g[Len(kept')]
    BY <2>2, <2>3, NothingTyped
  <2>5. kept' \in Seq(Characters) /\ Len(kept') = 0 /\ pos' \in Nat
    BY <2>1, <2>3
  <2>. QED  BY <1>1, <2>1, <2>3, <2>4, <2>5 DEF Edited
<1>7. CASE kept # <<>>
  <2>1. n > 0 /\ n - 1 \in 0 .. n /\ n \in 1 .. n
    BY <1>2, <1>4, <1>7, EmptySeq
  <2>2. PICK p : p = f[n - 1]
    OBVIOUS
  <2>3. PICK c : c = kept[n]
    OBVIOUS
  <2>4. p \in Seq(T!Byte) /\ c \in Characters /\ line = p \o c
    <3>1. p \in Seq(T!Byte)
      BY <1>5, <2>1, <2>2
    <3>2. c \in Characters
      BY <1>2, <1>4, <2>1, <2>3
    <3>3. f[n] = f[n - 1] \o kept[n]
      BY <1>5, <2>1
    <3>. QED  BY <1>3, <1>4, <2>2, <2>3, <3>1, <3>2, <3>3
  <2>5. /\ line \in Seq(T!Byte) /\ Firsts(line) = Firsts(p) \cup {Len(p) + 1}
        /\ Len(line) > Len(p) /\ SubSeq(line, 1, Len(p)) = p
        /\ Len(p) \in Nat /\ Len(line) \in Nat
    BY <2>4, FirstsMore
  <2>6. T!Utf8Prev(line, Len(line)) = Len(p)
    <3>. DEFINE S == {0} \cup {j \in 0 .. Len(line) - 1 : ~T!Chain(line[j + 1])}
                top(j) == j \in S /\ \A i \in S : j >= i
    <3>1. Firsts(p) \subseteq 1 .. Len(p)
      BY <2>4 DEF Firsts
    <3>2. Len(p) \in S
      <4>1. Len(p) + 1 \in Firsts(line)
        BY <2>5
      <4>2. Len(p) \in 0 .. Len(line) - 1 /\ ~T!Chain(line[Len(p) + 1])
        BY <2>5, <4>1 DEF Firsts
      <4>. QED  BY <4>2
    <3>3. ASSUME NEW j \in S PROVE Len(p) >= j /\ j \in Nat
      <4>1. CASE j = 0
        BY <2>5, <4>1
      <4>2. CASE j # 0
        <5>1. j \in 0 .. Len(line) - 1 /\ ~T!Chain(line[j + 1])
          BY <4>2
        <5>2. j + 1 \in DOMAIN line
          BY <2>5, <5>1
        <5>3. j + 1 \in Firsts(line)
          BY <5>1, <5>2 DEF Firsts
        <5>4. j + 1 = Len(p) + 1 \/ j + 1 \in 1 .. Len(p)
          BY <2>5, <3>1, <5>3
        <5>. QED  BY <2>5, <5>1, <5>4
      <4>. QED  BY <4>1, <4>2
    <3>4. T!Utf8Prev(line, Len(line)) = CHOOSE j : top(j)
      BY DEF T!Utf8Prev, T!Max
    <3>. HIDE DEF S
    <3>5. top(Len(p))
      BY <3>2, <3>3
    <3>6. \A j : top(j) => j = Len(p)
      BY <2>5, <3>2, <3>3
    <3>7. top(CHOOSE j : top(j))
      BY <3>5
    <3>. QED  BY <3>4, <3>6, <3>7
  <2>7. line' = p
    BY <1>1, <2>5, <2>6
  <2>8. /\ kept' \in Seq(Characters) /\ Len(kept') = n - 1
        /\ \A i \in 1 .. n - 1 : kept'[i] = kept[i]
    BY <1>1, <1>2, <1>4, <1>7, <2>1
  <2>9. PICK g : g = [i \in 0 .. n - 1 |-> f[i]]
    OBVIOUS
  <2>10. /\ g \in [0 .. n - 1 -> Seq(T!Byte)] /\ g[0] = <<>> /\ g[n - 1] = p
         /\ \A i \in 1 .. n - 1 : g[i] = g[i - 1] \o kept'[i]
         /\ \A i \in 0 .. n - 1 : IsFiniteSet(Firsts(g[i])) /\ Cardinality(Firsts(g[i])) = i
    <3>1. \A i \in 0 .. n - 1 : i \in 0 .. n /\ g[i] = f[i]
      BY <2>9
    <3>2. \A i \in 1 .. n - 1 : i \in 1 .. n /\ i \in 0 .. n - 1 /\ i - 1 \in 0 .. n - 1
      OBVIOUS
    <3>3. 0 \in 0 .. n - 1 /\ n - 1 \in 0 .. n - 1
      BY <2>1
    <3>4. g \in [0 .. n - 1 -> Seq(T!Byte)]
      BY <1>5, <2>9, <3>1
    <3>5. g[0] = <<>> /\ g[n - 1] = p
      BY <1>5, <2>2, <3>1, <3>3
    <3>6. ASSUME NEW i \in 1 .. n - 1 PROVE g[i] = g[i - 1] \o kept'[i]
      BY <1>5, <2>8, <3>1, <3>2
    <3>7. ASSUME NEW i \in 0 .. n - 1
          PROVE  IsFiniteSet(Firsts(g[i])) /\ Cardinality(Firsts(g[i])) = i
      BY <1>5, <3>1
    <3>. QED  BY <3>4, <3>5, <3>6, <3>7
  <2>11. Typing(g)'
    BY <2>8, <2>10 DEF Typing, Firsts, T!Chain
  <2>12. pos' = n - 1 /\ pos' \in Nat
    BY <1>1, <1>2, <1>4, <2>1
  <2>. QED  BY <1>1, <2>7, <2>8, <2>10, <2>11, <2>12 DEF Edited
<1>. QED  BY <1>6, <1>7

LEMMA PromptStep ==
    ASSUME Edited, [T!Next]_prompt
    PROVE  Edited'
<1>1. CASE UNCHANGED prompt
  <2>1. UNCHANGED <<line, pos, tty, answer, asking, kept>>
    BY <1>1 DEF prompt
  <2>. QED  BY <2>1 DEF Edited, Typing
<1>2. ASSUME kept' = <<>>, line' = <<>>, pos' = 0 PROVE Edited'
  <2>1. \E g : Typing(g)' /\ line' = g[Len(kept')]
    BY <1>2, NothingTyped
  <2>2. kept' \in Seq(Characters) /\ Len(kept') = 0 /\ pos' \in Nat
    BY <1>2
  <2>. QED  BY <1>2, <2>1, <2>2 DEF Edited
<1>3. ASSUME NEW s \in Typed, T!Kill(s) \/ T!Cancel(s) PROVE Edited'
  BY <1>2, <1>3 DEF T!Kill, T!Cancel
<1>4. ASSUME NEW s \in Typed, T!EndLine(s) PROVE Edited'
  <2>1. CASE T!Utf8Len(line) >= Least
    <3>1. answer' = line /\ ~asking' /\ UNCHANGED <<line, pos, kept, tty>>
      BY <1>4, <2>1, Zenon DEF T!EndLine
    <3>2. PICK f : Typing(f) /\ line = f[Len(kept)]
      BY DEF Edited
    <3>3. T!Utf8Len(line) = Cardinality(Firsts(line))
      <4>1. T!Cardinality(Firsts(line)) = Cardinality(Firsts(line))
        BY Zenon DEF T!Cardinality, Cardinality
      <4>. QED  BY <4>1 DEF T!Utf8Len, Firsts
    <3>4. T!Utf8Len(line) = Len(kept)
      <4>1. Len(kept) \in 0 .. Len(kept)
        BY DEF Edited
      <4>. QED  BY <3>2, <3>3, <4>1 DEF Typing
    <3>5. Typing(f)'
      BY <3>1, <3>2 DEF Typing
    <3>. QED  BY <2>1, <3>1, <3>2, <3>4, <3>5 DEF Edited
  <2>2. CASE ~(T!Utf8Len(line) >= Least)
    BY <1>2, <1>4, <2>2 DEF T!EndLine
  <2>. QED  BY <2>1, <2>2
<1>. QED  BY <1>1, <1>3, <1>4, CharTyped, TakenBack DEF T!Next

(* What some sequences are one after the other, from what the first of     *)
(* them are.                                                               *)
LEMMA FlattenIs ==
    ASSUME NEW S, NEW seqs \in Seq(Seq(S)), NEW f \in [0 .. Len(seqs) -> Seq(S)],
           f[0] = <<>>, \A i \in 1 .. Len(seqs) : f[i] = f[i - 1] \o seqs[i]
    PROVE  T!FlattenSeq(seqs) = f[Len(seqs)]
<1>1. PICK n \in Nat : n = Len(seqs)
  OBVIOUS
<1>2. CASE n = 0
  <2>1. seqs = <<>>
    BY <1>1, <1>2, EmptySeq
  <2>. QED  BY <1>1, <1>2, <2>1 DEF T!FlattenSeq
<1>3. CASE n # 0
  <2>. DEFINE Flat(g) == g = [i \in 1 .. n |-> IF i = 1 THEN seqs[i] ELSE g[i - 1] \o seqs[i]]
  <2>1. f[1] = seqs[1]
    <3>1. 1 \in 1 .. n /\ 1 - 1 = 0
      BY <1>3
    <3>2. f[1] = f[1 - 1] \o seqs[1] /\ f[1 - 1] = <<>>
      BY <1>1, <3>1
    <3>3. seqs[1] \in Seq(S)
      BY <1>1, <3>1
    <3>4. <<>> \o seqs[1] = seqs[1]
      BY <3>3, ConcatEmptySeq
    <3>. QED  BY <3>2, <3>4
  <2>2. PICK h : h = [i \in 1 .. n |-> f[i]]
    OBVIOUS
  <2>3. ASSUME NEW i \in 1 .. n
        PROVE  h[i] = IF i = 1 THEN seqs[i] ELSE h[i - 1] \o seqs[i]
    <3>1. CASE i = 1
      BY <2>1, <2>2, <3>1
    <3>2. CASE i # 1
      <4>1. i - 1 \in 1 .. n
        BY <3>2
      <4>. QED  BY <1>1, <2>2, <3>2, <4>1
    <3>. QED  BY <3>1, <3>2
  <2>4. Flat(h)
    BY <2>2, <2>3
  <2>5. ASSUME NEW g, Flat(g) PROVE g[n] = f[n]
    <3>. DEFINE Bad == {i \in 1 .. n : g[i] # f[i]}
    <3>1. SUFFICES ASSUME Bad # {} PROVE FALSE
      BY <1>3
    <3>2. PICK k \in Bad : \A j \in Bad : k <= j
      <4>1. Bad \in SUBSET Nat
        OBVIOUS
      <4>. HIDE DEF Bad
      <4>. QED  BY <3>1, <4>1, LeastOf
    <3>3. k \in 1 .. n /\ g[k] # f[k]
      BY <3>2
    <3>4. g[k] = IF k = 1 THEN seqs[k] ELSE g[k - 1] \o seqs[k]
      BY <2>5, <3>3
    <3>5. CASE k = 1
      BY <2>1, <3>3, <3>4, <3>5
    <3>6. CASE k # 1
      <4>1. k - 1 \in 1 .. n /\ ~(k <= k - 1)
        BY <3>3, <3>6
      <4>2. g[k - 1] = f[k - 1]
        BY <3>2, <4>1
      <4>. HIDE DEF Flat
      <4>. QED  BY <1>1, <3>3, <3>4, <3>6, <4>2
    <3>. QED  BY <3>5, <3>6
  <2>6. T!FlattenSeq(seqs) = (CHOOSE g : Flat(g))[n]
    BY <1>1, <1>3 DEF T!FlattenSeq
  <2>. HIDE DEF Flat
  <2>7. Flat(CHOOSE g : Flat(g))
    BY <2>4
  <2>. QED  BY <1>1, <2>5, <2>6, <2>7
<1>. QED  BY <1>2, <1>3

(* The line of the characters, one after the other.                        *)
LEMMA FlatIs ==
    ASSUME kept \in Seq(Characters), NEW f, Typing(f)
    PROVE  T!FlattenSeq(kept) = f[Len(kept)]
<1>1. kept \in Seq(Seq(T!Byte))
  BY DEF Characters
<1>2. /\ f \in [0 .. Len(kept) -> Seq(T!Byte)] /\ f[0] = <<>>
      /\ \A i \in 1 .. Len(kept) : f[i] = f[i - 1] \o kept[i]
  BY DEF Typing
<1>. QED  BY <1>1, <1>2, FlattenIs

LEMMA TextInvariant == MCSpec => []TextInv
<1>1. MCInit => TextInv
  <2>. SUFFICES ASSUME MCInit, part = "text" PROVE Edited
    BY DEF TextInv
  <2>1. line = <<>> /\ pos = 0 /\ kept = <<>> /\ asking = TRUE
    BY DEF MCInit, T!Init
  <2>2. PICK f : f = [i \in 0 .. 0 |-> <<>>]
    OBVIOUS
  <2>3. <<>> \in Seq(T!Byte) /\ IsFiniteSet(Firsts(<<>>)) /\ Cardinality(Firsts(<<>>)) = 0
    <3>1. Firsts(<<>>) = {}
      BY DEF Firsts
    <3>. QED  BY <3>1, FS_EmptySet
  <2>4. Len(kept) = 0 /\ kept \in Seq(Characters) /\ pos \in Nat
    BY <2>1
  <2>5. Typing(f) /\ line = f[Len(kept)]
    BY <2>1, <2>2, <2>3, <2>4 DEF Typing
  <2>. QED  BY <2>1, <2>4, <2>5 DEF Edited
<1>2. ASSUME TextInv, [MCNext]_<<part, vars, keys, loop, command, prompt>> PROVE TextInv'
  <2>. SUFFICES ASSUME part' = "text" PROVE Edited'
    BY DEF TextInv
  <2>1. part = "text" /\ Edited
    BY <1>2 DEF MCNext, TextInv
  <2>2. [T!Next]_prompt
    BY <1>2, <2>1 DEF MCNext, LoginNext, KeysNext, LoopNext, OptionsNext, TextNext
  <2>. QED  BY <2>1, <2>2, PromptStep
<1>. QED  BY <1>1, <1>2, PTL DEF MCSpec

(* Whatever is typed and taken back, the line is whole characters, those   *)
(* on the screen, and an answer is no shorter than was asked for.          *)
THEOREM LineEditedCorrect == MCSpec => []LineEdited
<1>1. TextInv => LineEdited
  <2>. SUFFICES ASSUME Edited PROVE T!LineEdited
    BY DEF TextInv, LineEdited
  <2>1. PICK f : Typing(f) /\ line = f[Len(kept)]
    BY DEF Edited
  <2>2. line = T!FlattenSeq(kept)
    BY <2>1, FlatIs DEF Edited
  <2>. QED  BY <2>2 DEF Edited, T!LineEdited
<1>. QED  BY <1>1, TextInvariant, PTL

-----------------------------------------------------------------------------
(* The conversions of the line: base64.                                    *)

Digit == 0 .. 63

(* Three bytes are the bits of four letters.                               *)
Letters(x, y, z, a, b, c, d) ==
    /\ a = x \div 4 /\ b = (x % 4) * 16 + (y \div 16)
    /\ c = (y % 16) * 4 + (z \div 64) /\ d = z % 64
    /\ a * 4 + (b \div 16) = x /\ (b % 16) * 16 + (c \div 4) = y
    /\ (c % 4) * 64 + d = z

LEMMA LettersOf ==
    ASSUME NEW x \in 0 .. 255, NEW y \in 0 .. 255, NEW z \in 0 .. 255
    PROVE  \E a, b, c, d \in 0 .. 63 : Letters(x, y, z, a, b, c, d)
<1>1. PICK a \in 0 .. 63, t \in 0 .. 3 : x = 4 * a + t /\ x \div 4 = a /\ x % 4 = t
  OBVIOUS
<1>2. PICK u \in 0 .. 15, v \in 0 .. 15 : y = 16 * u + v /\ y \div 16 = u /\ y % 16 = v
  OBVIOUS
<1>3. PICK w \in 0 .. 3, d \in 0 .. 63 : z = 64 * w + d /\ z \div 64 = w /\ z % 64 = d
  OBVIOUS
<1>4. PICK b \in 0 .. 63 : b = t * 16 + u /\ b \div 16 = t /\ b % 16 = u
  OBVIOUS
<1>5. PICK c \in 0 .. 63 : c = v * 4 + w /\ c \div 4 = v /\ c % 4 = w
  OBVIOUS
<1>6. a * 4 + t = x /\ u * 16 + v = y /\ w * 64 + d = z
  BY <1>1, <1>2, <1>3
<1>7. Letters(x, y, z, a, b, c, d)
  BY <1>1, <1>2, <1>3, <1>4, <1>5, <1>6 DEF Letters
<1>. QED  BY <1>7

(* The letters of a group.                                                 *)
LEMMA GroupLetters ==
    ASSUME NEW r \in Seq(T!Byte)
    PROVE  /\ Len(T!Encode(r)) = 4 /\ DOMAIN T!Encode(r) = 1 .. 4
           /\ T!Encode(r) \in Seq(Digit)
<1>1. ASSUME NEW i \in 1 .. 3 PROVE T!At(r, i) \in 0 .. 255
  <2>1. i \in DOMAIN r => r[i] \in T!Byte
    OBVIOUS
  <2>2. T!Byte = 0 .. 255 /\ 0 \in 0 .. 255
    BY DEF T!Byte
  <2>. QED  BY <2>1, <2>2 DEF T!At
<1>2. PICK x \in 0 .. 255, y \in 0 .. 255, z \in 0 .. 255 :
          x = T!At(r, 1) /\ y = T!At(r, 2) /\ z = T!At(r, 3)
  <2>1. 1 \in 1 .. 3 /\ 2 \in 1 .. 3 /\ 3 \in 1 .. 3
    OBVIOUS
  <2>2. T!At(r, 1) \in 0 .. 255 /\ T!At(r, 2) \in 0 .. 255 /\ T!At(r, 3) \in 0 .. 255
    BY <1>1, <2>1
  <2>. QED  BY <2>2
<1>3. PICK a, b, c, d \in 0 .. 63 : Letters(x, y, z, a, b, c, d)
  BY LettersOf
<1>4. T!Encode(r) = <<a, b, c, d>>
  BY <1>2, <1>3 DEF T!Encode, Letters
<1>5. a \in Digit /\ b \in Digit /\ c \in Digit /\ d \in Digit
  BY DEF Digit
<1>. QED  BY <1>4, <1>5

(* A group gives back its bytes, also when only the letters that have bits *)
(* of them are left.                                                       *)
Encoded(e, r, n) ==
    Len(r) = n /\ DOMAIN e = 1 .. n + 1 /\ \A j \in 1 .. n + 1 : e[j] = T!Encode(r)[j]
GivesBack(e, r, n) == Len(T!Decode(e)) = 3 /\ \A j \in 1 .. n : T!Decode(e)[j] = r[j]

LEMMA GroupBack ==
    ASSUME NEW n \in 1 .. 3, NEW r \in Seq(T!Byte), NEW e, Encoded(e, r, n)
    PROVE  GivesBack(e, r, n)
<1>0. Len(r) = n /\ DOMAIN e = 1 .. n + 1 /\ \A j \in 1 .. n + 1 : e[j] = T!Encode(r)[j]
  BY DEF Encoded
<1>1. ASSUME NEW i \in 1 .. 3 PROVE T!At(r, i) \in 0 .. 255
  <2>1. i \in DOMAIN r => r[i] \in T!Byte
    OBVIOUS
  <2>2. T!Byte = 0 .. 255 /\ 0 \in 0 .. 255
    BY DEF T!Byte
  <2>. QED  BY <2>1, <2>2 DEF T!At
<1>2. PICK x \in 0 .. 255, y \in 0 .. 255, z \in 0 .. 255 :
          x = T!At(r, 1) /\ y = T!At(r, 2) /\ z = T!At(r, 3)
  <2>1. 1 \in 1 .. 3 /\ 2 \in 1 .. 3 /\ 3 \in 1 .. 3
    OBVIOUS
  <2>2. T!At(r, 1) \in 0 .. 255 /\ T!At(r, 2) \in 0 .. 255 /\ T!At(r, 3) \in 0 .. 255
    BY <1>1, <2>1
  <2>. QED  BY <2>2
<1>3. PICK a, b, c, d \in 0 .. 63 : Letters(x, y, z, a, b, c, d)
  BY LettersOf
<1>4. T!Encode(r) = <<a, b, c, d>>
  BY <1>2, <1>3 DEF T!Encode, Letters
<1>10. /\ a * 4 + (b \div 16) = x /\ (b % 16) * 16 + (c \div 4) = y
       /\ (c % 4) * 64 + d = z
  BY <1>3 DEF Letters
<1>5. T!Decode(e) = << T!At(e, 1) * 4 + (T!At(e, 2) \div 16),
                       (T!At(e, 2) % 16) * 16 + (T!At(e, 3) \div 4),
                       (T!At(e, 3) % 4) * 64 + T!At(e, 4) >>
  BY DEF T!Decode
<1>6. DOMAIN r = 1 .. n
  BY <1>0
<1>7. T!At(e, 1) = a /\ T!At(e, 2) = b /\ T!Decode(e)[1] = x /\ r[1] = x
  <2>1. 1 \in 1 .. n + 1 /\ 2 \in 1 .. n + 1 /\ 1 \in 1 .. n
    OBVIOUS
  <2>2. e[1] = a /\ e[2] = b
    BY <1>0, <1>4, <2>1
  <2>3. T!At(e, 1) = a /\ T!At(e, 2) = b
    BY <1>0, <2>1, <2>2 DEF T!At
  <2>4. r[1] = x
    BY <1>2, <1>6, <2>1 DEF T!At
  <2>5. T!Decode(e)[1] = T!At(e, 1) * 4 + (T!At(e, 2) \div 16)
    BY <1>5
  <2>6. T!Decode(e)[1] = x
    BY <1>10, <2>3, <2>5
  <2>. QED  BY <2>3, <2>4, <2>6
<1>8. n >= 2 => T!At(e, 3) = c /\ T!Decode(e)[2] = y /\ r[2] = y
  <2>. SUFFICES ASSUME n >= 2 PROVE T!At(e, 3) = c /\ T!Decode(e)[2] = y /\ r[2] = y
    OBVIOUS
  <2>1. 3 \in 1 .. n + 1 /\ 2 \in 1 .. n
    OBVIOUS
  <2>2. e[3] = c
    BY <1>0, <1>4, <2>1
  <2>3. T!At(e, 3) = c
    BY <1>0, <2>1, <2>2 DEF T!At
  <2>4. r[2] = y
    BY <1>2, <1>6, <2>1 DEF T!At
  <2>5. T!Decode(e)[2] = (T!At(e, 2) % 16) * 16 + (T!At(e, 3) \div 4)
    BY <1>5
  <2>6. T!Decode(e)[2] = y
    BY <1>7, <1>10, <2>3, <2>5
  <2>. QED  BY <2>3, <2>4, <2>6
<1>9. n = 3 => T!Decode(e)[3] = z /\ r[3] = z
  <2>. SUFFICES ASSUME n = 3 PROVE T!Decode(e)[3] = z /\ r[3] = z
    OBVIOUS
  <2>1. 4 \in 1 .. n + 1 /\ 3 \in 1 .. n
    OBVIOUS
  <2>2. e[4] = d
    BY <1>0, <1>4, <2>1
  <2>3. T!At(e, 4) = d
    BY <1>0, <2>1, <2>2 DEF T!At
  <2>4. r[3] = z
    BY <1>2, <1>6, <2>1 DEF T!At
  <2>5. T!Decode(e)[3] = (T!At(e, 3) % 4) * 64 + T!At(e, 4)
    BY <1>5
  <2>6. T!Decode(e)[3] = z
    BY <1>8, <1>10, <2>3, <2>5
  <2>. QED  BY <2>4, <2>6
<1>11. Len(T!Decode(e)) = 3
  BY <1>5
<1>12. ASSUME NEW j \in 1 .. n PROVE T!Decode(e)[j] = r[j]
  <2>1. j = 1 \/ (j = 2 /\ n >= 2) \/ (j = 3 /\ n = 3)
    OBVIOUS
  <2>. QED  BY <1>7, <1>8, <1>9, <2>1
<1>. QED  BY <1>11, <1>12 DEF GivesBack

(* Groups of equal length, one after the other.                            *)
LEMMA Groups ==
    ASSUME NEW S, NEW k \in {3, 4}, NEW c \in Nat,
           NEW seqs \in Seq(Seq(S)), Len(seqs) = c,
           \A i \in 1 .. c : Len(seqs[i]) = k,
           NEW t \in Seq(S), Len(t) = k * c,
           \A i \in 1 .. c, j \in 1 .. k : t[k * (i - 1) + j] = seqs[i][j]
    PROVE  T!FlattenSeq(seqs) = t
<1>1. PICK f : f = [i \in 0 .. c |-> SubSeq(t, 1, k * i)]
  OBVIOUS
<1>2. ASSUME NEW i \in 0 .. c
      PROVE  /\ k * i \in Nat /\ k * i <= Len(t)
             /\ f[i] \in Seq(S) /\ Len(f[i]) = k * i
             /\ \A m \in 1 .. k * i : f[i][m] = t[m]
  <2>1. k * i \in Nat /\ k * i <= Len(t)
    <3>1. CASE k = 3
      BY <3>1
    <3>2. CASE k = 4
      BY <3>2
    <3>. QED  BY <3>1, <3>2
  <2>2. PICK n \in Nat : n = k * i
    BY <2>1
  <2>3. \A m \in 1 .. n : t[m] \in S
    BY <2>1, <2>2
  <2>4. /\ SubSeq(t, 1, n) \in Seq(S) /\ Len(SubSeq(t, 1, n)) = n
        /\ \A m \in 1 .. n : SubSeq(t, 1, n)[m] = t[m]
    BY <2>3, SubSeqProperties
  <2>. QED  BY <1>1, <2>1, <2>2, <2>4
<1>3. f \in [0 .. c -> Seq(S)]
  BY <1>1, <1>2
<1>4. f[0] = <<>>
  <2>1. 0 \in 0 .. c /\ k * 0 = 0
    OBVIOUS
  <2>. QED  BY <1>2, <2>1, EmptySeq
<1>5. ASSUME NEW i \in 1 .. c PROVE f[i] = f[i - 1] \o seqs[i]
  <2>1. i \in 0 .. c /\ i - 1 \in 0 .. c
    OBVIOUS
  <2>2. PICK n \in Nat : n = k * (i - 1) /\ n + k = k * i
    <3>1. CASE k = 3
      BY <3>1
    <3>2. CASE k = 4
      BY <3>2
    <3>. QED  BY <3>1, <3>2
  <2>3. seqs[i] \in Seq(S) /\ Len(seqs[i]) = k
    OBVIOUS
  <2>4. PICK u, v : u = f[i - 1] /\ v = seqs[i]
    OBVIOUS
  <2>5. /\ u \in Seq(S) /\ Len(u) = n /\ \A m \in 1 .. n : u[m] = t[m]
        /\ v \in Seq(S) /\ Len(v) = k /\ \A j \in 1 .. k : t[n + j] = v[j]
    BY <1>2, <2>1, <2>2, <2>3, <2>4
  <2>6. /\ u \o v \in Seq(S) /\ Len(u \o v) = n + k
        /\ \A m \in 1 .. n + k : (u \o v)[m] = IF m <= n THEN u[m] ELSE v[m - n]
    BY SMTT(30), <2>5, ConcatProperties
  <2>7. ASSUME NEW m \in 1 .. n + k PROVE (u \o v)[m] = t[m]
    <3>1. CASE m <= n
      BY <2>5, <2>6, <3>1
    <3>2. CASE ~(m <= n)
      <4>1. m - n \in 1 .. k /\ n + (m - n) = m
        BY <3>2
      <4>. QED  BY <2>5, <2>6, <3>2, <4>1
    <3>. QED  BY <3>1, <3>2
  <2>8. f[i] \in Seq(S) /\ Len(f[i]) = n + k /\ \A m \in 1 .. n + k : f[i][m] = t[m]
    BY <1>2, <2>1, <2>2
  <2>9. PICK p, q : p = f[i] /\ q = u \o v
    OBVIOUS
  <2>10. /\ p \in Seq(S) /\ q \in Seq(S) /\ Len(p) = Len(q)
         /\ \A m \in 1 .. Len(p) : p[m] = q[m]
    BY <2>6, <2>7, <2>8, <2>9
  <2>11. p = q
    BY <2>10, SeqEqual
  <2>. QED  BY <2>4, <2>9, <2>11
<1>6. T!FlattenSeq(seqs) = f[c]
  BY <1>3, <1>4, <1>5, FlattenIs
<1>7. f[c] = t
  <2>1. c \in 0 .. c
    OBVIOUS
  <2>2. PICK p : p = f[c]
    OBVIOUS
  <2>3. p \in Seq(S) /\ Len(p) = Len(t) /\ \A m \in 1 .. Len(t) : p[m] = t[m]
    BY <1>2, <2>1, <2>2
  <2>4. p = t
    BY <2>3, SeqEqual
  <2>. QED  BY <2>2, <2>4
<1>. QED  BY <1>6, <1>7

(* The group i of the bytes of s.                                          *)
Group(s, i) == SubSeq(s, 3 * i - 2, 3 * i)

LEMMA GroupIs ==
    ASSUME NEW s \in Seq(T!Byte), NEW i \in Nat \ {0}, 3 * i <= Len(s)
    PROVE  /\ Group(s, i) \in Seq(T!Byte) /\ Len(Group(s, i)) = 3
           /\ \A j \in 1 .. 3 : Group(s, i)[j] = s[3 * (i - 1) + j]
<1>1. PICK a \in Int, b \in Int : a = 3 * i - 2 /\ b = 3 * i
  OBVIOUS
<1>2. \A m \in a .. b : s[m] \in T!Byte
  BY <1>1
<1>3. /\ SubSeq(s, a, b) \in Seq(T!Byte)
      /\ Len(SubSeq(s, a, b)) = IF a <= b THEN b - a + 1 ELSE 0
      /\ \A j \in 1 .. b - a + 1 : SubSeq(s, a, b)[j] = s[a + j - 1]
  BY <1>2, SubSeqProperties
<1>4. a <= b /\ b - a + 1 = 3 /\ \A j \in 1 .. 3 : a + j - 1 = 3 * (i - 1) + j
  BY <1>1
<1>5. Group(s, i) = SubSeq(s, a, b)
  BY <1>1 DEF Group
<1>. QED  BY <1>3, <1>4, <1>5

(* The whole groups, encoded one after the other.                          *)
LEMMA WholeEncoded ==
    ASSUME NEW s \in Seq(T!Byte), NEW c \in Nat, 3 * c <= Len(s)
    PROVE  LET whole == T!FlattenSeq([i \in 1 .. c |-> T!Encode(SubSeq(s, 3 * i - 2, 3 * i))])
           IN  /\ whole \in Seq(Digit) /\ Len(whole) = 4 * c
               /\ \A i \in 1 .. c, j \in 1 .. 4 :
                    whole[4 * (i - 1) + j] = T!Encode(Group(s, i))[j]
<1>1. PICK g : g = [i \in 1 .. c |-> T!Encode(Group(s, i))]
  OBVIOUS
<1>2. ASSUME NEW i \in 1 .. c
      PROVE  g[i] \in Seq(Digit) /\ Len(g[i]) = 4 /\ \A j \in 1 .. 4 : g[i][j] \in Digit
  <2>1. i \in Nat \ {0} /\ 3 * i <= Len(s)
    OBVIOUS
  <2>2. Group(s, i) \in Seq(T!Byte)
    BY <2>1, GroupIs
  <2>3. PICK e : e = T!Encode(Group(s, i))
    OBVIOUS
  <2>4. e \in Seq(Digit) /\ Len(e) = 4
    BY <2>2, <2>3, GroupLetters
  <2>5. g[i] = e
    BY <1>1, <2>3
  <2>6. \A j \in 1 .. 4 : e[j] \in Digit
    <3>1. \A j \in 1 .. Len(e) : e[j] \in Digit
      BY <2>4, LenProperties
    <3>. QED  BY <2>4, <3>1
  <2>. QED  BY <2>4, <2>5, <2>6
<1>3. g \in Seq(Seq(Digit)) /\ Len(g) = c
  <2>1. g \in [1 .. c -> Seq(Digit)]
    BY <1>1, <1>2
  <2>. QED  BY <2>1
<1>4. PICK t : t = [m \in 1 .. 4 * c |-> g[((m - 1) \div 4) + 1][((m - 1) % 4) + 1]]
  OBVIOUS
<1>5. ASSUME NEW m \in 1 .. 4 * c
      PROVE  ((m - 1) \div 4) + 1 \in 1 .. c /\ ((m - 1) % 4) + 1 \in 1 .. 4
  OBVIOUS
<1>6. t \in Seq(Digit) /\ Len(t) = 4 * c
  <2>1. \A m \in 1 .. 4 * c : g[((m - 1) \div 4) + 1][((m - 1) % 4) + 1] \in Digit
    BY <1>2, <1>5
  <2>2. t \in [1 .. 4 * c -> Digit] /\ 4 * c \in Nat
    BY <1>4, <2>1
  <2>. QED  BY <2>2
<1>7. ASSUME NEW i \in 1 .. c, NEW j \in 1 .. 4 PROVE t[4 * (i - 1) + j] = g[i][j]
  <2>1. PICK m \in 1 .. 4 * c : m = 4 * (i - 1) + j
    OBVIOUS
  <2>2. ((m - 1) \div 4) + 1 = i /\ ((m - 1) % 4) + 1 = j
    BY <2>1
  <2>3. t[m] = g[((m - 1) \div 4) + 1][((m - 1) % 4) + 1]
    BY <1>4
  <2>. QED  BY <2>1, <2>2, <2>3
<1>8. T!FlattenSeq(g) = t
  <2>1. 4 \in {3, 4} /\ \A i \in 1 .. c : Len(g[i]) = 4
    BY <1>2
  <2>. QED  BY Zenon, <1>3, <1>6, <1>7, <2>1, Groups
<1>9. T!FlattenSeq([i \in 1 .. c |-> T!Encode(SubSeq(s, 3 * i - 2, 3 * i))]) = t
  BY <1>1, <1>8 DEF Group
<1>10. \A i \in 1 .. c : g[i] = T!Encode(Group(s, i))
  BY <1>1
<1>. QED  BY <1>6, <1>7, <1>9, <1>10

(* And back.                                                               *)
LEMMA WholeDecoded ==
    ASSUME NEW s \in Seq(T!Byte), NEW c \in Nat, 3 * c <= Len(s),
           NEW o \in Seq(Digit), 4 * c <= Len(o),
           \A i \in 1 .. c, j \in 1 .. 4 : o[4 * (i - 1) + j] = T!Encode(Group(s, i))[j]
    PROVE  T!FlattenSeq([i \in 1 .. c |-> T!Decode(SubSeq(o, 4 * i - 3, 4 * i))])
             = SubSeq(s, 1, 3 * c)
<1>1. PICK g : g = [i \in 1 .. c |-> T!Decode(SubSeq(o, 4 * i - 3, 4 * i))]
  OBVIOUS
<1>2. ASSUME NEW i \in 1 .. c
      PROVE  Len(g[i]) = 3 /\ \A j \in 1 .. 3 : g[i][j] = s[3 * (i - 1) + j]
  <2>1. i \in Nat \ {0} /\ 3 * i <= Len(s)
    OBVIOUS
  <2>2. PICK r : r = Group(s, i)
    OBVIOUS
  <2>3. r \in Seq(T!Byte) /\ Len(r) = 3 /\ \A j \in 1 .. 3 : r[j] = s[3 * (i - 1) + j]
    BY <2>1, <2>2, GroupIs
  <2>4. PICK a \in Int, b \in Int : a = 4 * i - 3 /\ b = 4 * i
    BY <2>1
  <2>5. PICK e : e = SubSeq(o, a, b)
    OBVIOUS
  <2>6. \A m \in a .. b : o[m] \in Digit
    BY <2>4
  <2>7. /\ SubSeq(o, a, b) \in Seq(Digit)
        /\ Len(SubSeq(o, a, b)) = IF a <= b THEN b - a + 1 ELSE 0
        /\ \A j \in 1 .. b - a + 1 : SubSeq(o, a, b)[j] = o[a + j - 1]
    BY SMTT(30), <2>6, SubSeqProperties
  <2>8. a <= b /\ b - a + 1 = 4 /\ \A j \in 1 .. 4 : a + j - 1 = 4 * (i - 1) + j
    BY <2>4
  <2>9. e \in Seq(Digit) /\ Len(e) = 4
    BY <2>5, <2>7, <2>8
  <2>10. \A j \in 1 .. 4 : e[j] = T!Encode(r)[j]
    BY SMTT(30), <2>2, <2>5, <2>7, <2>8
  <2>11. PICK n \in 1 .. 3 : n = 3
    OBVIOUS
  <2>12. Len(T!Decode(e)) = 3 /\ \A j \in 1 .. 3 : T!Decode(e)[j] = r[j]
    <3>1. Encoded(e, r, n)
      BY <2>3, <2>9, <2>10, <2>11, LenProperties DEF Encoded
    <3>2. GivesBack(e, r, n)
      BY <2>3, <3>1, GroupBack
    <3>. QED  BY <2>11, <3>2 DEF GivesBack
  <2>13. g[i] = T!Decode(e)
    BY <1>1, <2>4, <2>5
  <2>. QED  BY <2>3, <2>12, <2>13
<1>3. PICK t : t = SubSeq(s, 1, 3 * c)
  OBVIOUS
<1>4. PICK n \in Nat : n = 3 * c
  OBVIOUS
<1>5. t \in Seq(T!Byte) /\ Len(t) = n /\ \A m \in 1 .. n : t[m] = s[m]
  <2>1. \A m \in 1 .. n : s[m] \in T!Byte
    BY <1>4
  <2>. QED  BY <1>3, <1>4, <2>1, SubSeqProperties
<1>6. ASSUME NEW i \in 1 .. c, NEW j \in 1 .. 3
      PROVE  t[3 * (i - 1) + j] = g[i][j] /\ g[i][j] \in T!Byte
  <2>1. 3 * (i - 1) + j \in 1 .. n
    BY <1>4
  <2>2. PICK m \in 1 .. n : m = 3 * (i - 1) + j
    BY <2>1
  <2>3. t[m] = s[m]
    BY <1>5
  <2>4. t[m] \in T!Byte
    BY <1>5
  <2>. QED  BY <1>2, <2>2, <2>3, <2>4
<1>7. g \in Seq(Seq(T!Byte)) /\ Len(g) = c
  <2>1. ASSUME NEW i \in 1 .. c PROVE g[i] \in Seq(T!Byte)
    <3>1. g[i] = T!Decode(SubSeq(o, 4 * i - 3, 4 * i))
      BY <1>1
    <3>2. PICK x, y, z : g[i] = <<x, y, z>>
      BY <3>1 DEF T!Decode
    <3>3. x = g[i][1] /\ y = g[i][2] /\ z = g[i][3]
      BY <3>2
    <3>4. x \in T!Byte /\ y \in T!Byte /\ z \in T!Byte
      BY <1>6, <3>3
    <3>. QED  BY <3>2, <3>4
  <2>2. g \in [1 .. c -> Seq(T!Byte)]
    BY <1>1, <2>1
  <2>. QED  BY <2>2
<1>8. T!FlattenSeq(g) = t
  <2>1. /\ 3 \in {3, 4} /\ \A i \in 1 .. c : Len(g[i]) = 3
        /\ t \in Seq(T!Byte) /\ Len(t) = 3 * c
    BY <1>2, <1>4, <1>5
  <2>2. \A i \in 1 .. c, j \in 1 .. 3 : t[3 * (i - 1) + j] = g[i][j]
    BY <1>6
  <2>. QED  BY ZenonT(60), <1>7, <2>1, <2>2, Groups
<1>. QED  BY <1>1, <1>3, <1>8

(* Base64 is undone, whatever the room; what is not a whole group goes     *)
(* last, and only when its letters fit.                                    *)
LEMMA Base64Back ==
    ASSUME NEW s \in Seq(T!Byte)
    PROVE  T!Base64Agrees(s)
<1>1. PICK n \in Nat : n = Len(s)
  OBVIOUS
<1>2. SUFFICES ASSUME NEW room \in 0 .. (4 * n + 2) \div 3
      PROVE  LET e == T!Base64Encode(room, s)
                 d == T!Base64Decode(e.read, e.out)
             IN  /\ Len(e.out) <= room
                 /\ d.out = SubSeq(s, 1, e.read) /\ d.read = Len(e.out)
                 /\ room = (4 * n + 2) \div 3 => e.read = n
  BY <1>1 DEF T!Base64Agrees
<1>3. PICK c \in Nat : c = T!Lesser(Len(s) \div 3, room \div 4)
  <2>1. n \div 3 \in Nat /\ room \div 4 \in Nat
    OBVIOUS
  <2>. QED  BY <1>1, <2>1 DEF T!Lesser
<1>4. /\ 3 * c <= n /\ 4 * c <= room /\ 3 * c <= Len(s)
      /\ n - 3 * c <= 2 \/ room - 4 * c <= 3
  <2>1. c = n \div 3 \/ c = room \div 4
    BY <1>1, <1>3 DEF T!Lesser
  <2>2. c <= n \div 3 /\ c <= room \div 4
    BY <1>1, <1>3 DEF T!Lesser
  <2>. QED  BY <1>1, <2>1, <2>2
<1>5. PICK whole : whole = T!FlattenSeq([i \in 1 .. c |-> T!Encode(SubSeq(s, 3 * i - 2, 3 * i))])
  OBVIOUS
<1>6. /\ whole \in Seq(Digit) /\ Len(whole) = 4 * c
      /\ \A i \in 1 .. c, j \in 1 .. 4 : whole[4 * (i - 1) + j] = T!Encode(Group(s, i))[j]
  BY <1>4, <1>5, WholeEncoded
<1>7. PICK rest : rest = SubSeq(s, 3 * c + 1, Len(s))
  OBVIOUS
<1>8. PICK k \in Nat : k = n - 3 * c
  BY <1>4
<1>9. /\ rest \in Seq(T!Byte) /\ Len(rest) = k
      /\ \A j \in 1 .. k : rest[j] = s[3 * c + j]
  <2>1. PICK a \in Int : a = 3 * c + 1
    OBVIOUS
  <2>2. \A m \in a .. n : s[m] \in T!Byte
    BY <1>1, <2>1
  <2>3. /\ SubSeq(s, a, n) \in Seq(T!Byte)
        /\ Len(SubSeq(s, a, n)) = IF a <= n THEN n - a + 1 ELSE 0
        /\ \A j \in 1 .. n - a + 1 : SubSeq(s, a, n)[j] = s[a + j - 1]
    BY <2>2, SubSeqProperties
  <2>4. n - a + 1 = k /\ \A j \in 1 .. k : a + j - 1 = 3 * c + j
    BY <1>8, <2>1
  <2>5. rest = SubSeq(s, a, n)
    BY <1>1, <1>7, <2>1
  <2>. QED  BY <1>8, <2>1, <2>3, <2>4, <2>5
<1>10. PICK left \in Nat : left = room - 4 * c
  BY <1>4
<1>11. T!Base64Encode(room, s) =
         IF k > 0 /\ left > k
         THEN [out |-> whole \o T!From(SubSeq(T!Encode(rest), 1, T!Lesser(left, 4)), 1, k + 1),
               read |-> n]
         ELSE [out |-> whole, read |-> 3 * c]
  BY <1>1, <1>3, <1>5, <1>7, <1>9, <1>10 DEF T!Base64Encode, T!EncodeTail
<1>12. ASSUME NEW o \in Seq(Digit), NEW r \in Nat, NEW q \in 0 .. 3, Len(o) = 4 * c + q,
              r >= 3 * c, r <= 3 * c + 2,
              \A m \in 1 .. 4 * c : o[m] = whole[m]
       PROVE  T!Base64Decode(r, o) =
                IF q > 1 /\ r - 3 * c >= q - 1
                THEN [out |-> SubSeq(s, 1, 3 * c)
                                \o SubSeq(T!Decode(SubSeq(o, 4 * c + 1, Len(o))), 1, q - 1),
                      read |-> 4 * c + q]
                ELSE [out |-> SubSeq(s, 1, 3 * c), read |-> 4 * c]
  <2>1. T!Lesser(Len(o) \div 4, r \div 3) = c
    <3>1. Len(o) \div 4 = c /\ r \div 3 = c
      BY <1>12
    <3>. QED  BY <3>1 DEF T!Lesser
  <2>2. T!FlattenSeq([i \in 1 .. c |-> T!Decode(SubSeq(o, 4 * i - 3, 4 * i))]) = SubSeq(s, 1, 3 * c)
    <3>1. ASSUME NEW i \in 1 .. c, NEW j \in 1 .. 4
          PROVE  o[4 * (i - 1) + j] = T!Encode(Group(s, i))[j]
      <4>1. 4 * (i - 1) + j \in 1 .. 4 * c
        OBVIOUS
      <4>. QED  BY <1>6, <1>12, <4>1
    <3>2. 4 * c <= Len(o)
      BY <1>12
    <3>. QED  BY <1>4, <3>1, <3>2, WholeDecoded
  <2>3. Len(SubSeq(o, 4 * c + 1, Len(o))) = q
    <3>1. PICK a \in Int, b \in Int : a = 4 * c + 1 /\ b = Len(o) /\ b = 4 * c + q
      BY <1>12
    <3>2. \A m \in a .. b : o[m] \in Digit
      <4>1. \A m \in 1 .. Len(o) : o[m] \in Digit
        BY LenProperties
      <4>2. \A m \in a .. b : m \in 1 .. Len(o)
        BY <3>1
      <4>. QED  BY <4>1, <4>2
    <3>3. Len(SubSeq(o, a, b)) = IF a <= b THEN b - a + 1 ELSE 0
      BY <3>2, SubSeqProperties
    <3>. QED  BY <3>1, <3>3
  <2>. QED  BY <1>12, <2>1, <2>2, <2>3 DEF T!Base64Decode, T!DecodeTail
<1>13. CASE ~(k > 0 /\ left > k)
  <2>1. T!Base64Encode(room, s) = [out |-> whole, read |-> 3 * c]
    BY <1>11, <1>13
  <2>2. T!Base64Decode(3 * c, whole) = [out |-> SubSeq(s, 1, 3 * c), read |-> 4 * c]
    <3>1. PICK q \in 0 .. 3, r \in Nat : q = 0 /\ r = 3 * c
      OBVIOUS
    <3>2. Len(whole) = 4 * c + q /\ r >= 3 * c /\ r <= 3 * c + 2 /\ ~(q > 1) /\ 4 * c + 0 = 4 * c
      BY <1>6, <3>1
    <3>3. T!Base64Decode(r, whole) = [out |-> SubSeq(s, 1, 3 * c), read |-> 4 * c]
      BY <1>6, <1>12, <3>2
    <3>. QED  BY <3>1, <3>3
  <2>3. room = (4 * n + 2) \div 3 => 3 * c = n
    BY <1>4, <1>8, <1>10, <1>13
  <2>. QED  BY <1>4, <1>6, <2>1, <2>2, <2>3
<1>14. CASE k > 0 /\ left > k
  <2>1. k \in 1 .. 2
    BY <1>4, <1>8, <1>10, <1>14
  <2>2. PICK e : e = T!From(SubSeq(T!Encode(rest), 1, T!Lesser(left, 4)), 1, k + 1)
    OBVIOUS
  <2>3. /\ e \in Seq(Digit) /\ Len(e) = k + 1
        /\ \A j \in 1 .. k + 1 : e[j] = T!Encode(rest)[j]
    <3>1. PICK f : f = T!Encode(rest)
      OBVIOUS
    <3>2. f \in Seq(Digit) /\ Len(f) = 4
      BY <1>9, <3>1, GroupLetters
    <3>3. PICK l \in 2 .. 4 : l = T!Lesser(left, 4) /\ l >= k + 1
      BY <1>14, <2>1 DEF T!Lesser
    <3>4. \A m \in 1 .. l : f[m] \in Digit
      <4>1. \A m \in 1 .. Len(f) : f[m] \in Digit
        BY <3>2, LenProperties
      <4>. QED  BY <3>2, <4>1
    <3>5. PICK g : g = SubSeq(f, 1, l)
      OBVIOUS
    <3>6. g \in Seq(Digit) /\ Len(g) = l /\ \A j \in 1 .. l : g[j] = f[j]
      <4>1. /\ SubSeq(f, 1, l) \in Seq(Digit)
            /\ Len(SubSeq(f, 1, l)) = IF 1 <= l THEN l - 1 + 1 ELSE 0
            /\ \A j \in 1 .. l - 1 + 1 : SubSeq(f, 1, l)[j] = f[1 + j - 1]
        BY <3>4, SubSeqProperties
      <4>2. l - 1 + 1 = l /\ \A j \in 1 .. l : 1 + j - 1 = j
        OBVIOUS
      <4>. QED  BY <3>5, <4>1, <4>2
    <3>7. e = SubSeq(g, 1, k + 1)
      <4>1. (1 + (k + 1) - 1 > Len(g)) = FALSE /\ 1 + (k + 1) - 1 = k + 1
        BY <3>3, <3>6
      <4>. QED  BY <2>2, <3>1, <3>3, <3>5, <4>1 DEF T!From
    <3>8. \A m \in 1 .. k + 1 : g[m] \in Digit
      <4>1. \A m \in 1 .. k + 1 : m \in 1 .. l
        BY <3>3
      <4>. QED  BY <3>4, <3>6, <4>1
    <3>9. /\ SubSeq(g, 1, k + 1) \in Seq(Digit)
          /\ Len(SubSeq(g, 1, k + 1)) = IF 1 <= k + 1 THEN k + 1 - 1 + 1 ELSE 0
          /\ \A j \in 1 .. k + 1 - 1 + 1 : SubSeq(g, 1, k + 1)[j] = g[1 + j - 1]
      BY <3>8, SubSeqProperties
    <3>10. k + 1 - 1 + 1 = k + 1 /\ 1 <= k + 1 /\ \A j \in 1 .. k + 1 : 1 + j - 1 = j /\ j \in 1 .. l
      BY <3>3
    <3>. QED  BY <3>1, <3>6, <3>7, <3>9, <3>10
  <2>4. PICK o : o = whole \o e
    OBVIOUS
  <2>5. /\ o \in Seq(Digit) /\ Len(o) = 4 * c + (k + 1)
        /\ \A m \in 1 .. 4 * c : o[m] = whole[m]
        /\ \A j \in 1 .. k + 1 : o[4 * c + j] = e[j]
    <3>1. /\ o \in Seq(Digit) /\ Len(o) = Len(whole) + Len(e)
          /\ \A m \in 1 .. Len(whole) + Len(e) :
               o[m] = IF m <= Len(whole) THEN whole[m] ELSE e[m - Len(whole)]
      BY <1>6, <2>3, <2>4, ConcatProperties
    <3>2. ASSUME NEW j \in 1 .. k + 1 PROVE o[4 * c + j] = e[j]
      <4>1. PICK m \in 1 .. Len(whole) + Len(e) : m = 4 * c + j /\ ~(m <= Len(whole)) /\ m - Len(whole) = j
        BY <1>6, <2>3
      <4>. QED  BY <3>1, <4>1
    <3>3. ASSUME NEW m \in 1 .. 4 * c PROVE o[m] = whole[m]
      <4>1. m \in 1 .. Len(whole) + Len(e) /\ m <= Len(whole)
        BY <1>6, <2>3
      <4>. QED  BY <3>1, <4>1
    <3>. QED  BY <1>6, <2>3, <3>1, <3>2, <3>3
  <2>6. PICK t : t = SubSeq(o, 4 * c + 1, Len(o))
    OBVIOUS
  <2>7. Encoded(t, rest, k)
    <3>1. PICK a \in Int, b \in Int : a = 4 * c + 1 /\ b = Len(o) /\ b - a + 1 = k + 1
      BY <2>5
    <3>2. \A m \in a .. b : o[m] \in Digit
      BY <2>5, <3>1
    <3>3. /\ SubSeq(o, a, b) \in Seq(Digit)
          /\ Len(SubSeq(o, a, b)) = IF a <= b THEN b - a + 1 ELSE 0
          /\ \A j \in 1 .. b - a + 1 : SubSeq(o, a, b)[j] = o[a + j - 1]
      BY <3>2, SubSeqProperties
    <3>4. t \in Seq(Digit) /\ Len(t) = k + 1 /\ \A j \in 1 .. k + 1 : t[j] = o[4 * c + j]
      <4>1. a <= b /\ \A j \in 1 .. k + 1 : a + j - 1 = 4 * c + j
        BY <3>1
      <4>. QED  BY <2>6, <3>1, <3>3, <4>1
    <3>5. DOMAIN t = 1 .. k + 1
      BY <3>4, LenProperties
    <3>. QED  BY <1>9, <2>3, <2>5, <3>4, <3>5 DEF Encoded
  <2>8. GivesBack(t, rest, k)
    <3>1. k \in 1 .. 3
      BY <2>1
    <3>. QED  BY <1>9, <2>7, <3>1, GroupBack
  <2>9. SubSeq(s, 1, 3 * c) \o SubSeq(T!Decode(t), 1, k) = SubSeq(s, 1, n)
    <3>1. PICK u : u = SubSeq(s, 1, 3 * c)
      OBVIOUS
    <3>2. PICK p \in Nat : p = 3 * c /\ p + k = n
      BY <1>8
    <3>3. u \in Seq(T!Byte) /\ Len(u) = p /\ \A m \in 1 .. p : u[m] = s[m]
      <4>1. \A m \in 1 .. p : s[m] \in T!Byte
        BY <1>1, <3>2
      <4>. QED  BY <3>1, <3>2, <4>1, SubSeqProperties
    <3>4. PICK v : v = SubSeq(T!Decode(t), 1, k)
      OBVIOUS
    <3>5. \A m \in 1 .. k : T!Decode(t)[m] = rest[m] /\ rest[m] \in T!Byte
      BY <1>9, <2>8 DEF GivesBack
    <3>6. v \in Seq(T!Byte) /\ Len(v) = k /\ \A m \in 1 .. k : v[m] = s[p + m]
      <4>1. /\ SubSeq(T!Decode(t), 1, k) \in Seq(T!Byte)
            /\ Len(SubSeq(T!Decode(t), 1, k)) = IF 1 <= k THEN k - 1 + 1 ELSE 0
            /\ \A j \in 1 .. k - 1 + 1 : SubSeq(T!Decode(t), 1, k)[j] = T!Decode(t)[1 + j - 1]
        BY <3>5, SubSeqProperties
      <4>2. 1 <= k /\ k - 1 + 1 = k /\ \A j \in 1 .. k : 1 + j - 1 = j
        BY <2>1
      <4>. QED  BY <1>9, <3>2, <3>4, <3>5, <4>1, <4>2
    <3>7. PICK x, y : x = u \o v /\ y = SubSeq(s, 1, n)
      OBVIOUS
    <3>8. /\ x \in Seq(T!Byte) /\ Len(x) = p + k
          /\ \A m \in 1 .. p + k : x[m] = IF m <= p THEN u[m] ELSE v[m - p]
      <4>1. /\ u \o v \in Seq(T!Byte) /\ Len(u \o v) = Len(u) + Len(v)
            /\ \A m \in 1 .. Len(u) + Len(v) :
                 (u \o v)[m] = IF m <= Len(u) THEN u[m] ELSE v[m - Len(u)]
        BY <3>3, <3>6, ConcatProperties
      <4>. QED  BY <3>3, <3>6, <3>7, <4>1
    <3>9. ASSUME NEW m \in 1 .. p + k PROVE x[m] = s[m]
      <4>1. CASE m <= p
        BY <3>3, <3>8, <4>1
      <4>2. CASE ~(m <= p)
        <5>1. m - p \in 1 .. k /\ p + (m - p) = m
          BY <4>2
        <5>. QED  BY <3>6, <3>8, <4>2, <5>1
      <4>. QED  BY <4>1, <4>2
    <3>10. y \in Seq(T!Byte) /\ Len(y) = n /\ \A m \in 1 .. n : y[m] = s[m]
      <4>1. \A m \in 1 .. n : s[m] \in T!Byte
        BY <1>1
      <4>. QED  BY <3>7, <4>1, SubSeqProperties
    <3>11. x = y
      <4>1. Len(x) = Len(y) /\ \A m \in 1 .. Len(x) : x[m] = y[m]
        BY <3>2, <3>8, <3>9, <3>10
      <4>. QED  BY <3>8, <3>10, <4>1, SeqEqual
    <3>. QED  BY <3>1, <3>4, <3>7, <3>11
  <2>10. T!Base64Encode(room, s) = [out |-> o, read |-> n]
    BY <1>11, <1>14, <2>2, <2>4
  <2>11. T!Base64Decode(n, o) = [out |-> SubSeq(s, 1, n), read |-> 4 * c + (k + 1)]
    <3>1. PICK q \in 0 .. 3 : q = k + 1
      BY <2>1
    <3>2. q > 1 /\ n - 3 * c >= q - 1 /\ q - 1 = k /\ n >= 3 * c /\ n <= 3 * c + 2
      BY <1>8, <2>1, <3>1
    <3>3. T!Base64Decode(n, o) = [out |-> SubSeq(s, 1, 3 * c) \o SubSeq(T!Decode(t), 1, q - 1),
                                  read |-> 4 * c + q]
      BY <1>12, <2>5, <2>6, <3>1, <3>2
    <3>. QED  BY <2>9, <3>1, <3>2, <3>3
  <2>12. 4 * c + (k + 1) <= room
    BY <1>4, <1>10, <1>14
  <2>. QED  BY SMTT(30), <2>5, <2>10, <2>11, <2>12
<1>. QED  BY <1>13, <1>14

-----------------------------------------------------------------------------
(* The conversions of the line: Latin-1.                                   *)

(* Some sequences can be put one after the other.                          *)
LEMMA CatExists ==
    ASSUME NEW S, NEW seqs \in Seq(Seq(S))
    PROVE  \E f \in [0 .. Len(seqs) -> Seq(S)] :
              f[0] = <<>> /\ \A i \in 1 .. Len(seqs) : f[i] = f[i - 1] \o seqs[i]
<1>1. PICK n \in Nat : n = Len(seqs)
  OBVIOUS
<1>. DEFINE Cat(f, k) ==
                /\ f \in [0 .. k -> Seq(S)] /\ f[0] = <<>>
                /\ \A i \in 1 .. k : f[i] = f[i - 1] \o seqs[i]
            Bad == {k \in 0 .. n : ~ \E f : Cat(f, k)}
<1>2. ASSUME Bad # {} PROVE FALSE
  <2>1. PICK k \in Bad : \A m \in Bad : k <= m
    <3>. HIDE DEF Cat
    <3>1. Bad \in SUBSET Nat
      OBVIOUS
    <3>. HIDE DEF Bad
    <3>. QED  BY <1>2, <3>1, LeastOf
  <2>2. k \in 0 .. n /\ ~ \E f : Cat(f, k)
    BY <2>1
  <2>3. CASE k = 0
    <3>1. PICK f : f = [i \in 0 .. 0 |-> <<>>]
      OBVIOUS
    <3>2. <<>> \in Seq(S)
      OBVIOUS
    <3>3. Cat(f, 0)
      BY <3>1, <3>2
    <3>. QED  BY <2>2, <2>3, <3>3
  <2>4. CASE k # 0
    <3>1. k - 1 \in 0 .. n /\ ~(k <= k - 1) /\ k \in 1 .. n
      BY <2>2, <2>4
    <3>2. PICK f : Cat(f, k - 1)
      BY <2>1, <3>1
    <3>3. PICK q : q = f[k - 1] \o seqs[k]
      OBVIOUS
    <3>4. q \in Seq(S)
      <4>1. f[k - 1] \in Seq(S)
        BY <3>1, <3>2
      <4>2. seqs[k] \in Seq(S)
        BY <1>1, <3>1
      <4>. QED  BY <3>3, <4>1, <4>2, ConcatProperties
    <3>5. PICK g : g = [i \in 0 .. k |-> IF i = k THEN q ELSE f[i]]
      OBVIOUS
    <3>6. g \in [0 .. k -> Seq(S)]
      <4>1. ASSUME NEW i \in 0 .. k PROVE (IF i = k THEN q ELSE f[i]) \in Seq(S)
        <5>1. i # k => i \in 0 .. k - 1
          BY <3>1
        <5>. QED  BY <3>2, <3>4, <5>1
      <4>. QED  BY <3>5, <4>1
    <3>7. g[0] = <<>>
      BY <3>1, <3>2, <3>5
    <3>8. ASSUME NEW i \in 1 .. k PROVE g[i] = g[i - 1] \o seqs[i]
      <4>1. i - 1 \in 0 .. k /\ i - 1 # k /\ g[i - 1] = f[i - 1]
        BY <3>1, <3>5
      <4>2. CASE i = k
        <5>1. g[k] = q /\ g[k - 1] = f[k - 1]
          BY <3>1, <3>5, <4>1, <4>2
        <5>. QED  BY <3>3, <4>2, <5>1
      <4>3. CASE i # k
        <5>1. i \in 1 .. k - 1 /\ g[i] = f[i]
          BY <3>1, <3>5, <4>3
        <5>. QED  BY <3>2, <4>1, <5>1
      <4>. QED  BY <4>2, <4>3
    <3>9. Cat(g, k)
      BY <3>6, <3>7, <3>8
    <3>. QED  BY <2>2, <3>9
  <2>. QED  BY <2>3, <2>4
<1>3. n \in 0 .. n
  OBVIOUS
<1>4. \E f : Cat(f, n)
  BY <1>2, <1>3
<1>. QED  BY <1>1, <1>4

(* The course of utf8_to_latin over the bytes.                             *)
Begun == [out |-> <<>>, lead |-> -1]
Taking(d, s, n) ==
    d = [m \in 0 .. n |-> IF m = 0 THEN Begun ELSE T!LatinByte(d[m - 1], s[m])]

LEMMA TakingExists ==
    ASSUME NEW s, NEW n \in Nat
    PROVE  \E d : Taking(d, s, n)
<1>. DEFINE Bad == {k \in Nat : ~ \E d : Taking(d, s, k)}
<1>1. SUFFICES ASSUME Bad # {} PROVE FALSE
  OBVIOUS
<1>2. PICK k \in Bad : \A m \in Bad : k <= m
  <2>1. Bad \in SUBSET Nat
    OBVIOUS
  <2>. HIDE DEF Bad
  <2>. QED  BY <1>1, <2>1, LeastOf
<1>3. k \in Nat /\ ~ \E d : Taking(d, s, k)
  BY <1>2
<1>4. CASE k = 0
  <2>1. PICK g : g = [m \in 0 .. 0 |-> Begun]
    OBVIOUS
  <2>2. g = [m \in 0 .. 0 |-> IF m = 0 THEN Begun ELSE T!LatinByte(g[m - 1], s[m])]
    BY <2>1
  <2>. QED  BY <1>3, <1>4, <2>2 DEF Taking
<1>5. CASE k # 0
  <2>1. k - 1 \in Nat /\ ~(k <= k - 1)
    BY <1>3, <1>5
  <2>2. PICK f : Taking(f, s, k - 1)
    BY <1>2, <2>1
  <2>3. PICK g : g = [m \in 0 .. k |-> IF m = k THEN T!LatinByte(f[k - 1], s[k]) ELSE f[m]]
    OBVIOUS
  <2>4. ASSUME NEW m \in 0 .. k
        PROVE  g[m] = IF m = 0 THEN Begun ELSE T!LatinByte(g[m - 1], s[m])
    <3>1. CASE m = k
      <4>1. k - 1 \in 0 .. k /\ k - 1 # k /\ g[k - 1] = f[k - 1]
        BY <1>5, <2>1, <2>3
      <4>. QED  BY <1>5, <2>3, <3>1, <4>1
    <3>2. CASE m # k
      <4>1. m \in 0 .. k - 1 /\ g[m] = f[m]
        BY <1>3, <2>3, <3>2
      <4>2. f[m] = IF m = 0 THEN Begun ELSE T!LatinByte(f[m - 1], s[m])
        BY <2>2, <4>1 DEF Taking
      <4>3. m # 0 => m - 1 \in 0 .. k /\ m - 1 # k /\ g[m - 1] = f[m - 1]
        BY <1>3, <2>3, <4>1
      <4>. QED  BY <4>1, <4>2, <4>3
    <3>. QED  BY <3>1, <3>2
  <2>5. g = [m \in 0 .. k |-> IF m = 0 THEN Begun ELSE T!LatinByte(g[m - 1], s[m])]
    <3>1. PICK h : h = [m \in 0 .. k |-> IF m = 0 THEN Begun ELSE T!LatinByte(g[m - 1], s[m])]
      OBVIOUS
    <3>2. g = h
      BY <2>3, <2>4, <3>1
    <3>. QED  BY <3>1, <3>2
  <2>. QED  BY <1>3, <2>5 DEF Taking
<1>. QED  BY <1>4, <1>5

(* The characters that are Latin-1: those of one byte and two of the bytes *)
(* that begin one of two.                                                  *)
Code(c) == T!Utf8ToUtf32(c)

LEMMA CharacterIs ==
    ASSUME NEW c \in Characters
    PROVE  /\ Len(c) \in 1 .. 4 /\ \A i \in 1 .. Len(c) : c[i] \in 0 .. 255
           /\ \A i \in 2 .. Len(c) : c[i] \in 128 .. 191
           /\ Len(c) = 1 => c[1] < 128
           /\ Len(c) = 2 => c[1] \in 194 .. 223
           /\ Len(c) > 2 => c[1] >= 224
<1>1. /\ c \in Seq(T!Byte) /\ T!Utf8Count(c[1]) = Len(c) /\ Len(c) \in Nat /\ Len(c) > 0
      /\ \A i \in 2 .. Len(c) : T!Chain(c[i])
  BY DEF Characters, T!Whole
<1>2. T!Byte = 0 .. 255
  BY DEF T!Byte
<1>3. \A i \in 1 .. Len(c) : c[i] \in 0 .. 255
  <2>1. \A i \in 1 .. Len(c) : c[i] \in T!Byte
    BY <1>1, LenProperties
  <2>. QED  BY <1>2, <2>1
<1>4. PICK b \in 0 .. 255 : b = c[1]
  <2>1. 1 \in 1 .. Len(c)
    BY <1>1
  <2>. QED  BY <1>3, <2>1
<1>5. PICK n \in Nat : n = Len(c) /\ n = T!Utf8Count(b) /\ n > 0
  BY <1>1, <1>4
<1>6. /\ n \in 1 .. 4 /\ (n = 1 => b < 128) /\ (n = 2 => b \in 194 .. 223)
      /\ (n > 2 => b >= 224)
  BY <1>5 DEF T!Utf8Count
<1>7. ASSUME NEW i \in 2 .. Len(c) PROVE c[i] \in 128 .. 191
  <2>1. PICK m \in 0 .. 255 : m = c[i]
    BY SMTT(30), <1>1, <1>3
  <2>2. T!Chain(m)
    BY <1>1, <2>1
  <2>3. m \in 128 .. 191
    BY <2>2 DEF T!Chain
  <2>. QED  BY <2>1, <2>3
<1>. QED  BY <1>3, <1>4, <1>5, <1>6, <1>7

LatinCode(c) == IF Len(c) = 1 THEN c[1] ELSE (c[1] - 192) * 64 + (c[2] % 64)
IsLatin(c) == Len(c) = 1 \/ (Len(c) = 2 /\ c[1] \in 194 .. 195)

LEMMA CountOf ==
    /\ \A u \in 0 .. 127 : T!CountUtf32(u) = 1
    /\ \A u \in 128 .. 2047 : T!CountUtf32(u) = 2
BY DEF T!CountUtf32

LEMMA CodeIs ==
    ASSUME NEW c \in Characters
    PROVE  /\ Code(c) \in 0 .. 255 <=> IsLatin(c)
           /\ IsLatin(c) => Code(c) = LatinCode(c)
<1>1. /\ Len(c) \in 1 .. 4 /\ \A i \in 1 .. Len(c) : c[i] \in 0 .. 255
      /\ \A i \in 2 .. Len(c) : c[i] \in 128 .. 191
      /\ Len(c) = 1 => c[1] < 128
      /\ Len(c) = 2 => c[1] \in 194 .. 223
  BY CharacterIs
<1>2. PICK n \in 1 .. 4 : n = Len(c)
  BY <1>1
<1>3. T!Utf8Count(c[1]) = n /\ \A i \in 2 .. n : T!Chain(c[i])
  BY <1>2 DEF Characters, T!Whole
<1>. DEFINE At1 == c[1] % 2^(8 - n)
            Eq(g) == g = [i \in 1 .. Len(c) |-> IF i = 1 THEN c[1] % 2^(8 - T!Utf8Count(c[1]))
                                                ELSE g[i - 1] * 64 + (c[i] % 64)]
            code == CHOOSE g : Eq(g)
<1>4. Code(c) = IF T!CountUtf32(code[n]) = n THEN code[n] ELSE -1
  BY <1>2, <1>3 DEF Code, T!Utf8ToUtf32
<1>5. CASE n = 1
  <2>1. PICK b \in 0 .. 127 : b = c[1]
    BY <1>1, <1>2, <1>5
  <2>2. b % 2^(8 - 1) = b
    OBVIOUS
  <2>3. PICK g : g = [i \in 1 .. 1 |-> b]
    OBVIOUS
  <2>4. g = [i \in 1 .. 1 |-> IF i = 1 THEN b % 2^(8 - 1) ELSE g[i - 1] * 64 + (c[i] % 64)]
    BY <2>2, <2>3
  <2>5. Eq(g)
    BY <1>2, <1>3, <1>5, <2>1, <2>4
  <2>6. Eq(code)
    BY <2>5
  <2>7. code[1] = b
    BY <1>2, <1>3, <1>5, <2>1, <2>2, <2>6
  <2>8. T!CountUtf32(b) = 1
    BY CountOf
  <2>. HIDE DEF code
  <2>9. Code(c) = b
    BY <1>4, <1>5, <2>7, <2>8
  <2>. QED  BY <1>2, <1>5, <2>1, <2>9 DEF IsLatin, LatinCode
<1>6. CASE n = 2
  <2>1. PICK b \in 194 .. 223, e \in 128 .. 191 : b = c[1] /\ e = c[2]
    BY <1>1, <1>2, <1>6
  <2>2. b % 2^(8 - 2) = b - 192
    <3>1. 2^(8 - 2) = 64
      OBVIOUS
    <3>. QED  BY <3>1
  <2>3. PICK g : g = [i \in 1 .. 2 |-> IF i = 1 THEN b - 192 ELSE (b - 192) * 64 + (e % 64)]
    OBVIOUS
  <2>4. g = [i \in 1 .. 2 |-> IF i = 1 THEN b - 192 ELSE g[i - 1] * 64 + (c[i] % 64)]
    <3>1. ASSUME NEW i \in 1 .. 2
          PROVE  g[i] = IF i = 1 THEN b - 192 ELSE g[i - 1] * 64 + (c[i] % 64)
      <4>1. i = 1 \/ (i = 2 /\ i - 1 = 1)
        OBVIOUS
      <4>. QED  BY <2>1, <2>3, <4>1
    <3>2. PICK h : h = [i \in 1 .. 2 |-> IF i = 1 THEN b - 192 ELSE g[i - 1] * 64 + (c[i] % 64)]
      OBVIOUS
    <3>3. g = h
      BY <2>3, <3>1, <3>2
    <3>. QED  BY <3>2, <3>3
  <2>5. Eq(g)
    BY <1>2, <1>3, <1>6, <2>1, <2>2, <2>4
  <2>6. Eq(code)
    BY <2>5
  <2>. HIDE DEF code
  <2>7. code[1] = b - 192
    <3>1. 1 \in 1 .. Len(c)
      BY <1>2
    <3>. QED  BY <1>3, <1>6, <2>1, <2>2, <2>6, <3>1
  <2>8. code[2] = (b - 192) * 64 + (e % 64)
    <3>1. 2 \in 1 .. Len(c) /\ 2 - 1 = 1 /\ 2 # 1
      BY <1>2, <1>6
    <3>2. code[2] = code[2 - 1] * 64 + (c[2] % 64)
      BY <2>6, <3>1
    <3>. QED  BY <2>1, <2>7, <3>1, <3>2
  <2>9. PICK v \in Nat : v = (b - 192) * 64 + (e % 64)
    OBVIOUS
  <2>10. T!CountUtf32(v) = 2
    <3>1. v \in 128 .. 2047
      BY <2>9
    <3>. QED  BY SMTT(30), <3>1, CountOf
  <2>11. Code(c) = v
    BY <1>4, <1>6, <2>8, <2>9, <2>10
  <2>12. v \in 0 .. 255 <=> b \in 194 .. 195
    BY <2>9
  <2>13. Len(c) = 2 /\ c[1] = b /\ c[2] = e
    BY <1>2, <1>6, <2>1
  <2>. QED  BY <2>9, <2>11, <2>12, <2>13 DEF IsLatin, LatinCode
<1>7. CASE n > 2
  <2>. HIDE DEF code
  <2>1. ASSUME Code(c) \in 0 .. 255 PROVE FALSE
    <3>1. PICK u \in 0 .. 255 : u = Code(c)
      BY <2>1
    <3>2. T!CountUtf32(u) = n
      <4>1. u # -1
        OBVIOUS
      <4>. QED  BY <1>4, <3>1, <4>1
    <3>3. T!CountUtf32(u) \in {1, 2}
      <4>1. u \in 0 .. 127 \/ u \in 128 .. 2047
        OBVIOUS
      <4>. QED  BY <4>1, CountOf
    <3>. QED  BY <1>7, <3>2, <3>3
  <2>2. ~IsLatin(c)
    BY <1>2, <1>7 DEF IsLatin
  <2>. QED  BY <2>1, <2>2
<1>. QED  BY <1>5, <1>6, <1>7

(* A character takes utf8_to_latin from its start to its start.            *)
LEMMA OneTaken ==
    ASSUME NEW c \in Characters, NEW p \in Nat, NEW d, NEW o,
           d[p] = [out |-> o, lead |-> -1],
           \A j \in 1 .. Len(c) : d[p + j] = T!LatinByte(d[p + j - 1], c[j])
    PROVE  d[p + Len(c)] = [out |-> IF IsLatin(c) THEN Append(o, LatinCode(c)) ELSE o,
                            lead |-> -1]
<1>1. /\ Len(c) \in 1 .. 4 /\ \A i \in 1 .. Len(c) : c[i] \in 0 .. 255
      /\ \A i \in 2 .. Len(c) : c[i] \in 128 .. 191
      /\ Len(c) = 1 => c[1] < 128
      /\ Len(c) = 2 => c[1] \in 194 .. 223
      /\ Len(c) > 2 => c[1] >= 224
  BY CharacterIs
<1>2. PICK st : st = [out |-> o, lead |-> -1]
  OBVIOUS
<1>3. PICK n \in 1 .. 4 : n = Len(c)
  BY <1>1
<1>4. ASSUME NEW j \in 1 .. n, d[p + j - 1] = st,
             c[j] \in 128 .. 191 \/ c[j] \in 196 .. 255
      PROVE  d[p + j] = st
  <2>1. PICK b \in 128 .. 255 : b = c[j] /\ ~(b < 128) /\ b \notin 192 .. 195
    BY <1>4
  <2>2. T!LatinByte(st, b) = st
    BY <1>2, <2>1 DEF T!LatinByte
  <2>. QED  BY <1>3, <1>4, <2>1, <2>2
<1>5. p + 1 - 1 = p /\ p + 2 - 1 = p + 1 /\ p + 3 - 1 = p + 2 /\ p + 4 - 1 = p + 3
  OBVIOUS
<1>6. 1 \in 1 .. n /\ d[p + 1] = T!LatinByte(st, c[1])
  BY <1>2, <1>3, <1>5
<1>7. CASE n = 1
  <2>1. PICK b \in 0 .. 127 : b = c[1]
    BY <1>1, <1>3, <1>7
  <2>2. T!LatinByte(st, b) = [out |-> Append(o, b), lead |-> -1]
    <3>1. st.lead = -1 /\ ~(st.lead >= 0) /\ st.out = o /\ b < 128
      BY <1>2
    <3>. QED  BY <3>1 DEF T!LatinByte
  <2>. QED  BY <1>3, <1>6, <1>7, <2>1, <2>2 DEF IsLatin, LatinCode
<1>8. CASE n = 2 /\ c[1] \in 194 .. 195
  <2>1. PICK b \in 194 .. 195, e \in 128 .. 191 : b = c[1] /\ e = c[2]
    BY <1>1, <1>3, <1>8
  <2>2. d[p + 1] = [out |-> o, lead |-> b]
    <3>1. ~(b < 128) /\ b \in 192 .. 195
      OBVIOUS
    <3>2. T!LatinByte(st, b) = [out |-> o, lead |-> b]
      BY <1>2, <3>1 DEF T!LatinByte
    <3>. QED  BY <1>6, <2>1, <3>2
  <2>3. d[p + 2] = T!LatinByte(d[p + 1], e)
    <3>1. 2 \in 1 .. Len(c)
      BY <1>3, <1>8
    <3>. QED  BY <1>5, <2>1, <3>1
  <2>4. d[p + 2] = [out |-> Append(o, ((b * 64) % 256) + (e % 64)), lead |-> -1]
    <3>1. b >= 0
      OBVIOUS
    <3>. QED  BY <2>2, <2>3, <3>1 DEF T!LatinByte
  <2>5. ((b * 64) % 256) + (e % 64) = (b - 192) * 64 + (e % 64)
    <3>1. b = 194 \/ b = 195
      OBVIOUS
    <3>2. (194 * 64) % 256 = (194 - 192) * 64 /\ (195 * 64) % 256 = (195 - 192) * 64
      OBVIOUS
    <3>. QED  BY <3>1, <3>2
  <2>6. Len(c) = 2 /\ IsLatin(c) /\ LatinCode(c) = (b - 192) * 64 + (e % 64)
    BY <1>3, <1>8, <2>1 DEF IsLatin, LatinCode
  <2>. QED  BY <2>4, <2>5, <2>6
<1>9. CASE n # 1 /\ ~(n = 2 /\ c[1] \in 194 .. 195)
  <2>1. c[1] \in 196 .. 255
    <3>1. PICK b \in 0 .. 255 : b = c[1]
      BY SMTT(30), <1>1, <1>3, <1>6
    <3>2. CASE n = 2
      <4>1. b \in 194 .. 223 /\ b \notin 194 .. 195
        BY <1>1, <1>3, <1>9, <3>1, <3>2
      <4>2. b \in 196 .. 255
        BY <4>1
      <4>. QED  BY <3>1, <4>2
    <3>3. CASE n > 2
      <4>1. b >= 224
        BY <1>1, <1>3, <3>1, <3>3
      <4>2. b \in 196 .. 255
        BY <4>1
      <4>. QED  BY <3>1, <4>2
    <3>. QED  BY <1>9, <3>2, <3>3
  <2>2. d[p + 1] = st
    BY <1>2, <1>4, <1>5, <1>6, <2>1
  <2>3. \A j \in 2 .. n : j \in 1 .. n /\ c[j] \in 128 .. 191
    BY <1>1, <1>3
  <2>4. n >= 2 => d[p + 2] = st
    <3>. SUFFICES ASSUME n >= 2 PROVE d[p + 2] = st
      OBVIOUS
    <3>1. 2 \in 2 .. n
      OBVIOUS
    <3>. QED  BY <1>4, <1>5, <2>2, <2>3, <3>1
  <2>5. n >= 3 => d[p + 3] = st
    <3>. SUFFICES ASSUME n >= 3 PROVE d[p + 3] = st
      OBVIOUS
    <3>1. 3 \in 2 .. n /\ n >= 2
      OBVIOUS
    <3>. QED  BY <1>4, <1>5, <2>3, <2>4, <3>1
  <2>6. n = 4 => d[p + 4] = st
    <3>. SUFFICES ASSUME n = 4 PROVE d[p + 4] = st
      OBVIOUS
    <3>1. 4 \in 2 .. n /\ n >= 3
      OBVIOUS
    <3>. QED  BY <1>4, <1>5, <2>3, <2>5, <3>1
  <2>7. d[p + n] = st
    <3>1. n = 2 \/ n = 3 \/ n = 4
      BY <1>9
    <3>. QED  BY <2>4, <2>5, <2>6, <3>1
  <2>8. ~IsLatin(c)
    BY <1>3, <1>9 DEF IsLatin
  <2>. QED  BY <1>2, <1>3, <2>7, <2>8
<1>. QED  BY <1>7, <1>8, <1>9

(* Each of some sequences, put one after the other, stands where the ones  *)
(* before it end.                                                          *)
Stands(f, seqs, i) ==
    /\ Len(f[i]) = Len(f[i - 1]) + Len(seqs[i])
    /\ Len(f[i]) <= Len(f[Len(seqs)])
    /\ \A j \in 1 .. Len(seqs[i]) : f[Len(seqs)][Len(f[i - 1]) + j] = seqs[i][j]

LEMMA Standing ==
    ASSUME NEW S, NEW seqs \in Seq(Seq(S)), NEW f \in [0 .. Len(seqs) -> Seq(S)],
           f[0] = <<>>, \A i \in 1 .. Len(seqs) : f[i] = f[i - 1] \o seqs[i],
           NEW i \in 1 .. Len(seqs)
    PROVE  Stands(f, seqs, i)
<1>1. PICK n \in Nat : n = Len(seqs)
  OBVIOUS
<1>. DEFINE Part(k) == /\ Len(f[k]) <= Len(f[n])
                       /\ \A m \in 1 .. Len(f[k]) : f[n][m] = f[k][m]
            Bad == {k \in 0 .. n : ~Part(n - k)}
<1>2. ASSUME NEW k \in 1 .. n
      PROVE  /\ f[k] \in Seq(S) /\ f[k - 1] \in Seq(S) /\ seqs[k] \in Seq(S)
             /\ Len(f[k]) = Len(f[k - 1]) + Len(seqs[k])
             /\ Len(f[k - 1]) \in Nat /\ Len(seqs[k]) \in Nat
             /\ \A m \in 1 .. Len(f[k - 1]) : f[k][m] = f[k - 1][m]
             /\ \A m \in 1 .. Len(seqs[k]) : f[k][Len(f[k - 1]) + m] = seqs[k][m]
  <2>1. k \in 0 .. n /\ k - 1 \in 0 .. n
    OBVIOUS
  <2>2. f[k] \in Seq(S) /\ f[k - 1] \in Seq(S) /\ seqs[k] \in Seq(S) /\ f[k] = f[k - 1] \o seqs[k]
    <3>1. f \in [0 .. n -> Seq(S)] /\ k \in 1 .. Len(seqs)
      BY <1>1
    <3>2. f[k] \in Seq(S) /\ f[k - 1] \in Seq(S)
      BY <2>1, <3>1
    <3>3. seqs[k] \in Seq(S)
      BY <3>1
    <3>. QED  BY <3>1, <3>2, <3>3
  <2>3. PICK p \in Seq(S), q \in Seq(S) : p = f[k - 1] /\ q = seqs[k] /\ f[k] = p \o q
    BY <2>2
  <2>4. PICK x \in Nat, y \in Nat : x = Len(p) /\ y = Len(q)
    OBVIOUS
  <2>5. Len(p \o q) = x + y
    BY <2>4, ConcatProperties
  <2>6. \A m \in 1 .. x + y : (p \o q)[m] = IF m <= x THEN p[m] ELSE q[m - x]
    BY <2>4, ConcatProperties
  <2>7. ASSUME NEW m \in 1 .. x PROVE (p \o q)[m] = p[m]
    <3>1. m \in 1 .. x + y /\ m <= x
      OBVIOUS
    <3>. QED  BY <2>6, <3>1
  <2>8. ASSUME NEW m \in 1 .. y PROVE (p \o q)[x + m] = q[m]
    <3>1. x + m \in 1 .. x + y /\ ~(x + m <= x) /\ (x + m) - x = m
      OBVIOUS
    <3>. QED  BY <2>6, <3>1
  <2>. QED  BY <2>2, <2>3, <2>4, <2>5, <2>7, <2>8
<1>3. ASSUME Bad # {} PROVE FALSE
  <2>1. PICK k \in Bad : \A m \in Bad : k <= m
    <3>. HIDE DEF Part
    <3>1. Bad \in SUBSET Nat
      OBVIOUS
    <3>. HIDE DEF Bad
    <3>. QED  BY <1>3, <3>1, LeastOf
  <2>2. k \in 0 .. n /\ ~Part(n - k)
    BY <2>1
  <2>3. CASE k = 0
    <3>1. f[n] \in Seq(S)
      <4>1. n \in 0 .. Len(seqs)
        BY <1>1
      <4>. QED  BY <4>1
    <3>2. Len(f[n]) \in Nat
      BY <3>1
    <3>3. Part(n)
      BY <3>2
    <3>4. n - 0 = n
      OBVIOUS
    <3>. HIDE DEF Part
    <3>. QED  BY <2>2, <2>3, <3>3, <3>4
  <2>4. CASE k # 0
    <3>1. k - 1 \in 0 .. n /\ ~(k <= k - 1)
      BY <2>2, <2>4
    <3>2. Part(n - (k - 1))
      BY <2>1, <3>1
    <3>3. PICK h \in 1 .. n : h = n - (k - 1) /\ h - 1 = n - k
      BY <2>2, <3>1
    <3>4. Part(h)
      <4>. HIDE DEF Part
      <4>. QED  BY <3>2, <3>3
    <3>5. PICK x \in Nat, y \in Nat : /\ x = Len(f[h - 1]) /\ Len(f[h]) = x + y
                                      /\ \A m \in 1 .. x : f[h][m] = f[h - 1][m]
      BY <1>2
    <3>6. Len(f[n]) \in Nat
      BY <1>1
    <3>7. x <= Len(f[n])
      BY SMTT(30), <3>4, <3>5, <3>6
    <3>8. ASSUME NEW m \in 1 .. x PROVE f[n][m] = f[h - 1][m]
      <4>1. m \in 1 .. Len(f[h])
        BY <3>5
      <4>2. f[n][m] = f[h][m]
        BY <3>4, <4>1
      <4>. QED  BY <3>5, <4>2
    <3>9. Part(h - 1)
      BY <3>5, <3>7, <3>8
    <3>. HIDE DEF Part
    <3>. QED  BY <2>2, <3>3, <3>9
  <2>. QED  BY <2>3, <2>4
<1>4. Part(i)
  <2>1. n - i \in 0 .. n /\ n - (n - i) = i
    BY <1>1
  <2>. HIDE DEF Part
  <2>2. Part(n - (n - i))
    BY <1>3, <2>1
  <2>. QED  BY <2>1, <2>2
<1>5. PICK x \in Nat, y \in Nat :
         /\ x = Len(f[i - 1]) /\ y = Len(seqs[i]) /\ Len(f[i]) = x + y
         /\ \A m \in 1 .. y : f[i][x + m] = seqs[i][m]
  BY <1>1, <1>2
<1>6. ASSUME NEW j \in 1 .. y PROVE f[n][x + j] = seqs[i][j]
  <2>1. x + j \in 1 .. Len(f[i])
    <3>1. x + j \in 1 .. x + y
      OBVIOUS
    <3>. QED  BY <1>5, <3>1
  <2>2. f[n][x + j] = f[i][x + j]
    BY <1>4, <2>1
  <2>. QED  BY <1>5, <2>2
<1>. QED  BY <1>1, <1>4, <1>5, <1>6 DEF Stands

Latins == {c \in Characters : IsLatin(c)}
LatinOf(c) == IF IsLatin(c) THEN <<c>> ELSE <<>>
Codes(q) == [i \in 1 .. Len(q) |-> LatinCode(q[i])]
Recoded(v) == IF v >= 128 THEN <<192 + (v \div 64), 128 + (v % 64)>> ELSE <<v>>

(* A Latin-1 character is found again from its code.                       *)
LEMMA CodeBack ==
    ASSUME NEW c \in Latins
    PROVE  LatinCode(c) \in T!Byte /\ Recoded(LatinCode(c)) = c
<1>1. c \in Characters /\ IsLatin(c) /\ c \in Seq(T!Byte)
  BY DEF Latins, Characters
<1>2. /\ Len(c) \in 1 .. 4 /\ \A i \in 1 .. Len(c) : c[i] \in 0 .. 255
      /\ \A i \in 2 .. Len(c) : c[i] \in 128 .. 191
      /\ Len(c) = 1 => c[1] < 128
  BY <1>1, CharacterIs
<1>3. CASE Len(c) = 1
  <2>1. 1 \in 1 .. Len(c)
    BY <1>3
  <2>2. PICK b \in 0 .. 127 : b = c[1]
    BY <1>2, <1>3, <2>1
  <2>3. LatinCode(c) = b
    BY <1>3, <2>2 DEF LatinCode
  <2>4. c = <<b>>
    BY <1>1, <1>3, <2>2
  <2>5. b \in 0 .. 255 /\ ~(b >= 128)
    OBVIOUS
  <2>. QED  BY <2>3, <2>4, <2>5 DEF Recoded, T!Byte
<1>4. CASE Len(c) # 1
  <2>1. Len(c) = 2 /\ c[1] \in 194 .. 195
    BY <1>1, <1>4 DEF IsLatin
  <2>2. 2 \in 2 .. Len(c)
    BY <2>1
  <2>3. PICK b \in 194 .. 195, e \in 128 .. 191 : b = c[1] /\ e = c[2]
    BY <1>2, <2>1, <2>2
  <2>4. PICK v : v = (b - 192) * 64 + (e % 64)
    OBVIOUS
  <2>5. LatinCode(c) = v
    BY <1>4, <2>3, <2>4 DEF LatinCode
  <2>6. v \in 128 .. 255 /\ 192 + (v \div 64) = b /\ 128 + (v % 64) = e
    <3>1. e % 64 = e - 128
      OBVIOUS
    <3>2. CASE b = 194
      <4>1. v = 128 + (e - 128)
        BY <2>4, <3>1, <3>2
      <4>. QED  BY <3>2, <4>1
    <3>3. CASE b = 195
      <4>1. v = 192 + (e - 128)
        BY <2>4, <3>1, <3>3
      <4>. QED  BY <3>3, <4>1
    <3>. QED  BY <3>2, <3>3
  <2>7. c = <<b, e>>
    BY <1>1, <2>1, <2>3
  <2>8. v \in 0 .. 255 /\ v >= 128
    BY <2>6
  <2>. QED  BY <2>5, <2>6, <2>7, <2>8 DEF Recoded, T!Byte
<1>. QED  BY <1>3, <1>4

LEMMA CodedIn ==
    ASSUME NEW q \in Seq(Latins)
    PROVE  /\ Codes(q) \in Seq(T!Byte) /\ Len(Codes(q)) = Len(q)
           /\ \A i \in 1 .. Len(q) : Codes(q)[i] = LatinCode(q[i])
<1>1. PICK n \in Nat : n = Len(q)
  OBVIOUS
<1>2. ASSUME NEW i \in 1 .. n PROVE LatinCode(q[i]) \in T!Byte
  <2>1. q[i] \in Latins
    BY <1>1
  <2>. QED  BY <2>1, CodeBack
<1>3. PICK r : r = [i \in 1 .. n |-> LatinCode(q[i])]
  OBVIOUS
<1>4. r \in Seq(T!Byte) /\ Len(r) = n /\ \A i \in 1 .. n : r[i] = LatinCode(q[i])
  BY <1>2, <1>3
<1>. QED  BY <1>1, <1>3, <1>4 DEF Codes

(* The codes of one more character.                                        *)
LEMMA OneCoded ==
    ASSUME NEW q \in Seq(Latins), NEW c \in Characters
    PROVE  /\ q \o LatinOf(c) \in Seq(Latins)
           /\ Codes(q \o LatinOf(c)) =
                IF IsLatin(c) THEN Append(Codes(q), LatinCode(c)) ELSE Codes(q)
<1>1. CASE IsLatin(c)
  <2>1. c \in Latins /\ LatinOf(c) = <<c>>
    BY <1>1 DEF Latins, LatinOf
  <2>2. q \o <<c>> = Append(q, c)
    BY <2>1, AppendIsConcat
  <2>3. Append(q, c) \in Seq(Latins)
    BY <2>1, AppendProperties
  <2>4. PICK n \in Nat : n = Len(q)
    OBVIOUS
  <2>5. Len(Append(q, c)) = n + 1 /\ Append(q, c)[n + 1] = c
    BY <2>1, <2>4, AppendProperties
  <2>6. \A i \in 1 .. n : Append(q, c)[i] = q[i]
    BY <2>1, <2>4, AppendProperties
  <2>7. \A s \in Seq(Latins) : /\ Codes(s) \in Seq(T!Byte) /\ Len(Codes(s)) = Len(s)
                                /\ \A i \in 1 .. Len(s) : Codes(s)[i] = LatinCode(s[i])
    BY CodedIn
  <2>8. PICK r \in Seq(T!Byte), e \in T!Byte :
           /\ r = Codes(q) /\ e = LatinCode(c) /\ Len(r) = n
           /\ \A i \in 1 .. n : r[i] = LatinCode(q[i])
    BY <2>1, <2>4, <2>7, CodeBack
  <2>9. /\ Append(r, e) \in Seq(T!Byte) /\ Len(Append(r, e)) = n + 1
        /\ Append(r, e)[n + 1] = e /\ \A i \in 1 .. n : Append(r, e)[i] = r[i]
    BY <2>8, AppendProperties
  <2>10. PICK s \in Seq(Latins) : s = Append(q, c)
    BY <2>3
  <2>11. ASSUME NEW i \in 1 .. n + 1 PROVE Append(r, e)[i] = Codes(s)[i]
    <3>1. CASE i = n + 1
      <4>1. s[i] = c /\ Append(r, e)[i] = e
        BY <2>5, <2>9, <2>10, <3>1
      <4>2. i \in 1 .. Len(s)
        BY <2>5, <2>10
      <4>. QED  BY <2>7, <2>8, <4>1, <4>2
    <3>2. CASE i # n + 1
      <4>1. i \in 1 .. n
        BY <2>4, <3>2
      <4>2. Codes(s)[i] = LatinCode(q[i])
        BY <2>5, <2>6, <2>7, <2>10, <4>1
      <4>. QED  BY <2>8, <2>9, <4>1, <4>2
    <3>. QED  BY <3>1, <3>2
  <2>12. Codes(Append(q, c)) = Append(Codes(q), LatinCode(c))
    <3>1. Codes(s) \in Seq(T!Byte) /\ Len(Codes(s)) = n + 1
      BY <2>5, <2>7, <2>10
    <3>2. Codes(s) = Append(r, e)
      BY <2>9, <2>11, <3>1, SeqEqual
    <3>. QED  BY <2>8, <2>10, <3>2
  <2>. QED  BY <1>1, <2>1, <2>2, <2>3, <2>12
<1>2. CASE ~IsLatin(c)
  <2>1. LatinOf(c) = <<>> /\ q \o <<>> = q
    BY <1>2, ConcatEmptySeq DEF LatinOf
  <2>. QED  BY <1>2, <2>1
<1>. QED  BY <1>1, <1>2

(* The conversion to Latin-1 at the end of each character.                 *)
LEMMA TakenUp ==
    ASSUME kept \in Seq(Characters), NEW f, Typing(f),
           NEW d, Taking(d, f[Len(kept)], Len(f[Len(kept)])),
           NEW a, a[0] = <<>>, \A i \in 1 .. Len(kept) : a[i] = a[i - 1] \o LatinOf(kept[i])
    PROVE  /\ a[Len(kept)] \in Seq(Latins)
           /\ d[Len(f[Len(kept)])].out = Codes(a[Len(kept)])
<1>0. PICK n \in Nat : n = Len(kept)
  OBVIOUS
<1>1. PICK s : n = Len(kept) /\ s = f[n]
  BY <1>0
<1>. DEFINE Good(k) == /\ a[k] \in Seq(Latins)
                       /\ d[Len(f[k])] = [out |-> Codes(a[k]), lead |-> -1]
            Bad == {k \in 0 .. n : ~Good(k)}
<1>2. ASSUME NEW k \in 1 .. n
      PROVE  /\ kept[k] \in Characters /\ k \in 1 .. Len(kept)
             /\ Len(f[k - 1]) \in Nat /\ Len(s) \in Nat /\ Len(kept[k]) \in Nat
             /\ Len(f[k]) = Len(f[k - 1]) + Len(kept[k]) /\ Len(f[k]) <= Len(s)
             /\ \A j \in 1 .. Len(kept[k]) : s[Len(f[k - 1]) + j] = kept[k][j]
  <2>1. kept \in Seq(Seq(T!Byte))
    BY DEF Characters
  <2>2. /\ f \in [0 .. Len(kept) -> Seq(T!Byte)] /\ f[0] = <<>>
        /\ \A i \in 1 .. Len(kept) : f[i] = f[i - 1] \o kept[i]
    BY DEF Typing
  <2>3. k \in 1 .. Len(kept) /\ k - 1 \in 0 .. Len(kept) /\ n \in 0 .. Len(kept)
    BY <1>1
  <2>4. kept[k] \in Characters /\ kept[k] \in Seq(T!Byte)
    BY <2>1, <2>3
  <2>5. f[k - 1] \in Seq(T!Byte) /\ f[n] \in Seq(T!Byte)
    BY <2>2, <2>3
  <2>6. /\ Len(f[k]) = Len(f[k - 1]) + Len(kept[k]) /\ Len(f[k]) <= Len(f[Len(kept)])
        /\ \A j \in 1 .. Len(kept[k]) : f[Len(kept)][Len(f[k - 1]) + j] = kept[k][j]
    <3>1. Stands(f, kept, k)
      BY <2>1, <2>2, <2>3, Standing
    <3>. QED  BY <3>1 DEF Stands
  <2>7. Len(f[k - 1]) \in Nat /\ Len(s) \in Nat /\ Len(kept[k]) \in Nat
    BY <1>1, <2>4, <2>5, LenProperties
  <2>. QED  BY <1>1, <2>3, <2>4, <2>6, <2>7
<1>3. ASSUME Bad # {} PROVE FALSE
  <2>1. PICK k \in Bad : \A m \in Bad : k <= m
    <3>. HIDE DEF Good
    <3>1. Bad \in SUBSET Nat
      OBVIOUS
    <3>. HIDE DEF Bad
    <3>. QED  BY <1>3, <3>1, LeastOf
  <2>2. k \in 0 .. n /\ ~Good(k)
    BY <2>1
  <2>3. CASE k = 0
    <3>1. f[0] = <<>> /\ Len(<<>>) = 0
      BY DEF Typing
    <3>2. Len(s) \in Nat
      <4>1. n \in 0 .. n
        OBVIOUS
      <4>. QED  BY <1>1, <4>1 DEF Typing
    <3>3. 0 \in 0 .. Len(s)
      BY <3>2
    <3>4. d[0] = Begun
      BY <1>1, <3>3 DEF Taking
    <3>5. <<>> \in Seq(Latins) /\ Codes(<<>>) = <<>>
      BY DEF Codes
    <3>. QED  BY <2>2, <2>3, <3>1, <3>4, <3>5 DEF Begun
  <2>4. CASE k # 0
    <3>1. k \in 1 .. n /\ k - 1 \in 0 .. n /\ ~(k <= k - 1)
      BY <2>2, <2>4
    <3>2. Good(k - 1)
      BY <2>1, <3>1
    <3>3. PICK p \in Nat, c \in Characters, q \in Seq(Latins) :
             p = Len(f[k - 1]) /\ c = kept[k] /\ q = a[k - 1]
      BY <1>2, <3>1, <3>2
    <3>4. d[p] = [out |-> Codes(q), lead |-> -1]
      BY <3>2, <3>3
    <3>5. PICK x \in Nat, w \in Nat : /\ x = Len(c) /\ w = Len(s) /\ p + x <= w
                                      /\ Len(f[k]) = p + x
                                      /\ \A j \in 1 .. x : s[p + j] = c[j]
      BY <1>2, <3>1, <3>3
    <3>6. ASSUME NEW j \in 1 .. x PROVE d[p + j] = T!LatinByte(d[p + j - 1], c[j])
      <4>1. p + j \in 0 .. w /\ p + j # 0
        BY <3>5
      <4>2. PICK m \in 0 .. w : m = p + j /\ m # 0
        BY <4>1
      <4>3. d[m] = T!LatinByte(d[m - 1], s[m])
        BY <1>1, <3>5, <4>2 DEF Taking
      <4>. QED  BY SMTT(30), <3>5, <4>2, <4>3
    <3>7. d[p + x] = [out |-> IF IsLatin(c) THEN Append(Codes(q), LatinCode(c)) ELSE Codes(q),
                      lead |-> -1]
      <4>1. PICK o : o = Codes(q)
        OBVIOUS
      <4>2. \A j \in 1 .. Len(c) : d[p + j] = T!LatinByte(d[p + j - 1], c[j])
        BY <3>5, <3>6
      <4>3. d[p] = [out |-> o, lead |-> -1]
        BY <3>4, <4>1
      <4>4. d[p + Len(c)] = [out |-> IF IsLatin(c) THEN Append(o, LatinCode(c)) ELSE o,
                             lead |-> -1]
        BY ZenonT(60), <4>2, <4>3, OneTaken
      <4>. QED  BY <3>5, <4>1, <4>4
    <3>8. a[k] = q \o LatinOf(c)
      BY <1>1, <3>1, <3>3
    <3>9. /\ a[k] \in Seq(Latins)
          /\ Codes(a[k]) = IF IsLatin(c) THEN Append(Codes(q), LatinCode(c)) ELSE Codes(q)
      BY <3>8, OneCoded
    <3>. QED  BY <2>2, <3>5, <3>7, <3>9
  <2>. QED  BY <2>3, <2>4
<1>4. Good(n)
  <2>1. n \in 0 .. n
    OBVIOUS
  <2>. HIDE DEF Good
  <2>. QED  BY <1>3, <2>1
<1>. QED  BY <1>1, <1>4

(* Both conversions of the characters typed.                               *)
LEMMA LatinBack ==
    ASSUME kept \in Seq(Characters), NEW f, Typing(f)
    PROVE  T!LatinAgrees(kept)
<1>1. PICK n \in Nat : n = Len(kept)
  OBVIOUS
<1>2. PICK s : s = f[n] /\ s = T!FlattenSeq(kept)
  BY <1>1, FlatIs
<1>3. s \in Seq(T!Byte) /\ Len(s) \in Nat
  <2>1. n \in 0 .. Len(kept)
    BY <1>1
  <2>2. s \in Seq(T!Byte)
    BY <1>2, <2>1 DEF Typing
  <2>. QED  BY <2>2, LenProperties
<1>. DEFINE Among(g) == g = [m \in 0 .. Len(kept) |->
                               IF m = 0 THEN <<>>
                               ELSE g[m - 1] \o IF Code(kept[m]) \in 0 .. 255
                                                THEN <<kept[m]>> ELSE <<>>]
            among == CHOOSE g : Among(g)
            done == CHOOSE d : Taking(d, s, Len(s))
<1>4. \A i \in 1 .. n : /\ kept[i] \in Characters
                        /\ LatinOf(kept[i]) = IF Code(kept[i]) \in 0 .. 255
                                              THEN <<kept[i]>> ELSE <<>>
  <2>. SUFFICES ASSUME NEW i \in 1 .. n
                PROVE  /\ kept[i] \in Characters
                       /\ LatinOf(kept[i]) = IF Code(kept[i]) \in 0 .. 255
                                             THEN <<kept[i]>> ELSE <<>>
    OBVIOUS
  <2>1. PICK c \in Characters : c = kept[i]
    BY <1>1
  <2>2. Code(c) \in 0 .. 255 <=> IsLatin(c)
    BY CodeIs
  <2>. QED  BY <2>1, <2>2 DEF LatinOf
<1>5. Among(among)
  <2>1. PICK parts : parts = [i \in 1 .. n |-> LatinOf(kept[i])]
    OBVIOUS
  <2>2. parts \in Seq(Seq(Latins)) /\ Len(parts) = n
    <3>1. ASSUME NEW i \in 1 .. n PROVE LatinOf(kept[i]) \in Seq(Latins)
      <4>1. PICK c \in Characters : c = kept[i]
        BY <1>4
      <4>2. LatinOf(c) \in Seq(Latins)
        <5>1. IsLatin(c) => c \in Latins
          BY DEF Latins
        <5>2. \A x \in Latins : <<x>> \in Seq(Latins)
          OBVIOUS
        <5>. QED  BY <5>1, <5>2 DEF LatinOf
      <4>. QED  BY <4>1, <4>2
    <3>. QED  BY <2>1, <3>1
  <2>3. PICK g \in [0 .. n -> Seq(Latins)] :
           g[0] = <<>> /\ \A i \in 1 .. n : g[i] = g[i - 1] \o parts[i]
    BY <2>2, CatExists
  <2>4. PICK h : h = [m \in 0 .. n |-> IF m = 0 THEN <<>>
                                       ELSE g[m - 1] \o IF Code(kept[m]) \in 0 .. 255
                                                        THEN <<kept[m]>> ELSE <<>>]
    OBVIOUS
  <2>5. ASSUME NEW m \in 0 .. n PROVE g[m] = h[m]
    <3>1. CASE m = 0
      BY <2>3, <2>4, <3>1
    <3>2. CASE m # 0
      <4>1. m \in 1 .. n
        BY <3>2
      <4>2. parts[m] = IF Code(kept[m]) \in 0 .. 255 THEN <<kept[m]>> ELSE <<>>
        BY <1>4, <2>1, <4>1
      <4>3. g[m] = g[m - 1] \o parts[m]
        BY <2>3, <4>1
      <4>. QED  BY <2>4, <3>2, <4>2, <4>3
    <3>. QED  BY <3>1, <3>2
  <2>6. g = h
    BY <2>3, <2>4, <2>5
  <2>7. Among(g)
    BY <1>1, <2>4, <2>6
  <2>. HIDE DEF Among
  <2>. QED  BY <2>7
<1>6. PICK latin : latin = among[n]
  OBVIOUS
<1>7. T!Utf8ToLatin(s) = done[Len(s)].out
  BY DEF T!Utf8ToLatin, Taking, Begun
<1>8. Taking(done, s, Len(s))
  BY <1>3, TakingExists
<1>9. latin \in Seq(Latins) /\ T!Utf8ToLatin(s) = Codes(latin)
  <2>1. among[0] = <<>>
    <3>1. 0 \in 0 .. Len(kept)
      BY <1>1
    <3>. HIDE DEF among
    <3>. QED  BY <1>5, <3>1
  <2>2. ASSUME NEW i \in 1 .. Len(kept) PROVE among[i] = among[i - 1] \o LatinOf(kept[i])
    <3>1. i \in 0 .. Len(kept) /\ i # 0 /\ i \in 1 .. n
      BY <1>1
    <3>. HIDE DEF among
    <3>. QED  BY <1>4, <1>5, <3>1
  <2>. HIDE DEF Among, among, done
  <2>3. Taking(done, f[Len(kept)], Len(f[Len(kept)]))
    BY <1>1, <1>2, <1>8
  <2>4. /\ among[Len(kept)] \in Seq(Latins)
        /\ done[Len(f[Len(kept)])].out = Codes(among[Len(kept)])
    BY <2>1, <2>2, <2>3, TakenUp
  <2>. QED  BY <1>1, <1>2, <1>6, <1>7, <2>4
<1>10. PICK k \in Nat : k = Len(latin)
  BY <1>9
<1>11. ASSUME NEW i \in 1 .. k
       PROVE  /\ latin[i] \in Latins /\ Codes(latin)[i] = Code(latin[i])
              /\ Recoded(Codes(latin)[i]) = latin[i]
  <2>1. PICK c \in Latins : c = latin[i]
    BY <1>9, <1>10
  <2>2. Codes(latin)[i] = LatinCode(c)
    BY <1>10, <2>1 DEF Codes
  <2>3. Code(c) = LatinCode(c)
    BY CodeIs DEF Latins
  <2>. QED  BY <2>1, <2>2, <2>3, CodeBack
<1>12. Codes(latin) = [i \in DOMAIN latin |-> Code(latin[i])]
  <2>1. DOMAIN latin = 1 .. k
    BY <1>9, <1>10
  <2>2. \A i \in 1 .. k : LatinCode(latin[i]) = Code(latin[i])
    BY <1>10, <1>11 DEF Codes
  <2>. QED  BY <1>10, <2>1, <2>2 DEF Codes
<1>13. T!LatinToUtf8(Codes(latin)) = T!FlattenSeq(latin)
  <2>1. PICK t : t = Codes(latin)
    OBVIOUS
  <2>2. DOMAIN t = 1 .. k /\ DOMAIN latin = 1 .. k
    BY <1>9, <1>10, <2>1 DEF Codes
  <2>3. PICK r : r = [i \in DOMAIN t |-> Recoded(t[i])]
    OBVIOUS
  <2>4. r = latin
    BY <1>9, <1>10, <1>11, <2>1, <2>2, <2>3
  <2>5. T!LatinToUtf8(t) = T!FlattenSeq(r)
    BY <2>3 DEF T!LatinToUtf8, Recoded
  <2>. QED  BY <2>1, <2>4, <2>5
<1>14. T!LatinAgrees(kept) <=>
         /\ T!Utf8ToLatin(s) = [i \in DOMAIN latin |-> Code(latin[i])]
         /\ T!LatinToUtf8(T!Utf8ToLatin(s)) = T!FlattenSeq(latin)
  BY <1>1, <1>2, <1>6 DEF T!LatinAgrees, Code
<1>. QED  BY <1>9, <1>12, <1>13, <1>14

(* A character of n bytes stands for what has been taken of its bytes, one *)
(* after the other.                                                        *)
LEMMA CodeGiven ==
    ASSUME NEW s, NEW n \in 1 .. 4, Len(s) = n, T!Utf8Count(s[1]) = n,
           \A i \in 2 .. n : T!Chain(s[i]),
           NEW v, v[1] = s[1] % 2^(8 - n), \A i \in 2 .. n : v[i] = v[i - 1] * 64 + (s[i] % 64)
    PROVE  T!Utf8ToUtf32(s) = IF T!CountUtf32(v[n]) = n THEN v[n] ELSE -1
<1>. DEFINE Eq(g) == g = [i \in 1 .. Len(s) |-> IF i = 1 THEN s[1] % 2^(8 - T!Utf8Count(s[1]))
                                                ELSE g[i - 1] * 64 + (s[i] % 64)]
            code == CHOOSE g : Eq(g)
<1>1. T!Utf8ToUtf32(s) = IF T!CountUtf32(code[n]) = n THEN code[n] ELSE -1
  BY DEF T!Utf8ToUtf32
<1>2. PICK w : w = [i \in 1 .. n |-> v[i]]
  OBVIOUS
<1>3. ASSUME NEW i \in 1 .. n
      PROVE  w[i] = IF i = 1 THEN s[1] % 2^(8 - n) ELSE w[i - 1] * 64 + (s[i] % 64)
  <2>1. CASE i = 1
    BY <1>2, <2>1
  <2>2. CASE i # 1
    <3>1. i \in 2 .. n /\ i - 1 \in 1 .. n
      BY <2>2
    <3>. QED  BY <1>2, <2>2, <3>1
  <2>. QED  BY <2>1, <2>2
<1>4. Eq(w)
  <2>1. PICK h : h = [i \in 1 .. n |-> IF i = 1 THEN s[1] % 2^(8 - n)
                                       ELSE w[i - 1] * 64 + (s[i] % 64)]
    OBVIOUS
  <2>2. w = h
    BY <1>2, <1>3, <2>1
  <2>. QED  BY <2>1, <2>2
<1>5. Eq(code)
  BY <1>4
<1>. HIDE DEF code
<1>6. 1 \in 1 .. n /\ \A i \in 2 .. n : i \in 1 .. n /\ i # 1 /\ i - 1 \in 1 .. n
  OBVIOUS
<1>7. code[1] = v[1] /\ \A i \in 2 .. n : code[i] = code[i - 1] * 64 + (s[i] % 64)
  BY <1>5, <1>6
<1>8. code[n] = v[n]
  <2>1. n = 1 \/ n = 2 \/ n = 3 \/ n = 4
    OBVIOUS
  <2>2. n >= 2 => 2 \in 2 .. n /\ 2 - 1 = 1
    OBVIOUS
  <2>3. n >= 3 => 3 \in 2 .. n /\ 3 - 1 = 2 /\ n >= 2
    OBVIOUS
  <2>4. n = 4 => 4 \in 2 .. n /\ 4 - 1 = 3 /\ n >= 3
    OBVIOUS
  <2>5. n >= 2 => code[2] = v[2]
    BY <1>7, <2>2
  <2>6. n >= 3 => code[3] = v[3]
    BY <1>7, <2>3, <2>5
  <2>7. n = 4 => code[4] = v[4]
    BY <1>7, <2>4, <2>6
  <2>8. (n = 2 => n >= 2) /\ (n = 3 => n >= 3)
    OBVIOUS
  <2>. QED  BY <1>7, <2>1, <2>5, <2>6, <2>7, <2>8
<1>. QED  BY <1>1, <1>8

(* The bytes of a code, and how many of them.  From here on SMT is asked   *)
(* for by name: to Zenon 4096 is so many successors of zero.               *)
LEMMA BytesOf ==
    ASSUME NEW u \in Nat, NEW n \in 2 .. 4, T!CountUtf32(u) = n
    PROVE  T!Utf8FromUtf32(u) =
             [i \in 1 .. n |-> IF i = 1 THEN ((u \div 64^(n - 1)) % 2^(8 - n)) + 256 - 2^(8 - n)
                               ELSE ((u \div 64^(n - i)) % 64) + 128]
BY DEF T!Utf8FromUtf32

LEMMA CountIs ==
    ASSUME NEW u \in Nat
    PROVE  /\ T!CountUtf32(u) = 1 <=> u < 128
           /\ T!CountUtf32(u) = 2 <=> (128 <= u /\ u < 2048)
           /\ T!CountUtf32(u) = 3 <=> (2048 <= u /\ u < 55296)
           /\ T!CountUtf32(u) = 4 <=> (57344 <= u /\ u <= 1114111)
           /\ T!CountUtf32(u) \in 0 .. 4
BY SMTT(30) DEF T!CountUtf32

LEMMA Powers ==
    /\ 64^1 = 64 /\ 64^2 = 4096 /\ 64^3 = 262144 /\ 64^0 = 1
    /\ 2^7 = 128 /\ 2^6 = 64 /\ 2^5 = 32 /\ 2^4 = 16
BY SMTT(30)

(* What the bytes of a code give back, by the number of bytes.             *)
LEMMA By64 ==
    ASSUME NEW u \in Nat
    PROVE  \E q \in Nat, r \in 0 .. 63 : u = q * 64 + r /\ u \div 64 = q /\ u % 64 = r
<1>1. u \div 64 \in Nat /\ u % 64 \in 0 .. 63 /\ u = (u \div 64) * 64 + (u % 64)
  BY SMTT(30)
<1>. QED  BY SMTT(30), <1>1

IsTwo(u, h, l) ==
    /\ h \in 2 .. 31 /\ l \in 0 .. 63
    /\ h = (u \div 64) % 64 /\ l = u % 64
    /\ h * 64 + l = u
IsThree(u, h, m, l) ==
    /\ h \in 0 .. 15 /\ m \in 0 .. 63 /\ l \in 0 .. 63
    /\ h = (u \div 4096) % 32 /\ m = (u \div 64) % 64 /\ l = u % 64
    /\ (h * 64 + m) * 64 + l = u
IsFour(u, h, k, m, l) ==
    /\ h \in 0 .. 4 /\ k \in 0 .. 63 /\ m \in 0 .. 63 /\ l \in 0 .. 63
    /\ h = (u \div 262144) % 16 /\ k = (u \div 4096) % 64
    /\ m = (u \div 64) % 64 /\ l = u % 64
    /\ ((h * 64 + k) * 64 + m) * 64 + l = u

LEMMA BytesTwo == \A a, b \in T!Byte : <<a, b>> \in Seq(T!Byte)
OBVIOUS

LEMMA BytesThree == \A a, b, c \in T!Byte : <<a, b, c>> \in Seq(T!Byte)
OBVIOUS

LEMMA BytesFour == \A a, b, c, d \in T!Byte : <<a, b, c, d>> \in Seq(T!Byte)
OBVIOUS

LEMMA TwoBytes ==
    ASSUME NEW u \in Nat, 128 <= u, u < 2048
    PROVE  \E h, l : IsTwo(u, h, l)
<1>1. PICK h \in Nat, l \in 0 .. 63 : u = h * 64 + l /\ u \div 64 = h /\ u % 64 = l
  BY SMTT(30), By64
<1>2. h \in 2 .. 31
  BY SMTT(30), <1>1
<1>3. h % 64 = h
  BY SMTT(30), <1>2
<1>4. IsTwo(u, h, l)
  BY SMTT(30), <1>1, <1>2, <1>3 DEF IsTwo
<1>. QED  BY SMTT(30), <1>4

LEMMA ThreeBytes ==
    ASSUME NEW u \in Nat, 2048 <= u, u < 55296
    PROVE  \E h, m, l : IsThree(u, h, m, l)
<1>1. PICK p \in Nat, l \in 0 .. 63 : u = p * 64 + l /\ u \div 64 = p /\ u % 64 = l
  BY SMTT(30), By64
<1>2. PICK h \in Nat, m \in 0 .. 63 : p = h * 64 + m /\ p % 64 = m
  BY SMTT(30), By64
<1>3. u = (h * 64 + m) * 64 + l
  BY SMTT(30), <1>1, <1>2
<1>4. u \div 4096 = h
  <2>1. PICK r \in Nat : r = m * 64 + l /\ r < 4096
    BY SMTT(30)
  <2>2. u = h * 4096 + r
    BY SMTT(30), <1>3, <2>1
  <2>. QED  BY SMTT(30), <2>1, <2>2
<1>5. h \in 0 .. 15
  BY SMTT(30), <1>3
<1>6. h % 32 = h
  BY SMTT(30), <1>5
<1>7. IsThree(u, h, m, l)
  BY SMTT(30), <1>1, <1>2, <1>3, <1>4, <1>5, <1>6 DEF IsThree
<1>. QED  BY SMTT(30), <1>7

LEMMA FourBytes ==
    ASSUME NEW u \in Nat, 57344 <= u, u <= 1114111
    PROVE  \E h, k, m, l : IsFour(u, h, k, m, l)
<1>1. PICK p \in Nat, l \in 0 .. 63 : u = p * 64 + l /\ u \div 64 = p /\ u % 64 = l
  BY SMTT(30), By64
<1>2. PICK q \in Nat, m \in 0 .. 63 : p = q * 64 + m /\ p % 64 = m
  BY SMTT(30), By64
<1>3. PICK h \in Nat, k \in 0 .. 63 : q = h * 64 + k /\ q % 64 = k
  BY SMTT(30), By64
<1>4. u = (q * 64 + m) * 64 + l /\ u = ((h * 64 + k) * 64 + m) * 64 + l
  BY SMTT(30), <1>1, <1>2, <1>3
<1>5. u \div 4096 = q
  <2>1. PICK r \in Nat : r = m * 64 + l /\ r < 4096
    BY SMTT(30)
  <2>2. u = q * 4096 + r
    BY SMTT(30), <1>4, <2>1
  <2>. QED  BY SMTT(30), <2>1, <2>2
<1>6. u \div 262144 = h
  <2>1. PICK r \in Nat : r = (k * 64 + m) * 64 + l /\ r < 262144
    BY SMTT(30)
  <2>2. u = h * 262144 + r
    BY SMTT(30), <1>4, <2>1
  <2>. QED  BY SMTT(30), <2>1, <2>2
<1>7. h \in 0 .. 4
  BY SMTT(30), <1>4
<1>8. h % 16 = h
  BY SMTT(30), <1>7
<1>9. (u \div 262144) % 16 = h /\ (u \div 4096) % 64 = k /\ (u \div 64) % 64 = m /\ u % 64 = l
  BY SMTT(30), <1>1, <1>2, <1>3, <1>5, <1>6, <1>8
<1>10. ((h * 64 + k) * 64 + m) * 64 + l = u
  BY SMTT(30), <1>4
<1>11. IsFour(u, h, k, m, l)
  BY SMTT(30), <1>7, <1>9, <1>10 DEF IsFour
<1>. QED  BY SMTT(30), <1>11

(* Every code that is a character's is written as bytes that stand for it, *)
(* and nothing else is written.                                            *)
THEOREM CodeInverseCorrect == \A u \in Nat : T!CodeInverse(u)
<1>. SUFFICES ASSUME NEW u \in Nat PROVE T!CodeInverse(u)
  BY SMTT(30)
<1>1. PICK s : s = T!Utf8FromUtf32(u)
  BY SMTT(30)
<1>2. u \in T!Surrogate <=> (55296 <= u /\ u < 57344)
  <2>1. \A x, y \in Nat : x \in 55296 .. y <=> (55296 <= x /\ x <= y)
    BY SMTT(30)
  <2>2. u <= 57343 <=> u < 57344
    BY SMTT(30)
  <2>. QED  BY SMTT(30), <2>1, <2>2 DEF T!Surrogate
<1>3. SUFFICES IF (55296 <= u /\ u < 57344) \/ u > 1114111 THEN s = <<>>
               ELSE s \in Seq(T!Byte) /\ T!Utf8ToUtf32(s) = u
  BY SMTT(30), <1>1, <1>2 DEF T!CodeInverse
<1>4. CASE (55296 <= u /\ u < 57344) \/ u > 1114111
  <2>1. T!CountUtf32(u) = 0
    BY SMTT(30), <1>4, CountIs
  <2>2. s = [i \in 1 .. 0 |-> IF i = 1 THEN ((u \div 64^(0 - 1)) % 2^(8 - 0)) + 256 - 2^(8 - 0)
                              ELSE ((u \div 64^(0 - i)) % 64) + 128]
    BY SMTT(30), <1>1, <2>1 DEF T!Utf8FromUtf32
  <2>3. 1 .. 0 = {}
    BY SMTT(30)
  <2>4. s = <<>>
    BY SMTT(30), <2>2, <2>3
  <2>. QED  BY SMTT(30), <1>4, <2>4
<1>5. CASE u < 128
  <2>1. T!CountUtf32(u) = 1
    BY SMTT(30), <1>5, CountIs
  <2>2. s = <<u>>
    BY SMTT(30), <1>1, <2>1 DEF T!Utf8FromUtf32
  <2>3. Len(s) = 1 /\ s[1] = u /\ s \in Seq(T!Byte)
    BY SMTT(30), <1>5, <2>2 DEF T!Byte
  <2>4. T!Utf8Count(u) = 1
    BY SMTT(30), <1>5 DEF T!Utf8Count
  <2>5. PICK v : v = <<u>>
    OBVIOUS
  <2>6. u % 2^(8 - 1) = u
    BY SMTT(30), <1>5, Powers
  <2>7. v[1] = s[1] % 2^(8 - 1)
    BY SMTT(30), <2>3, <2>5, <2>6
  <2>8. T!Utf8ToUtf32(s) = IF T!CountUtf32(v[1]) = 1 THEN v[1] ELSE -1
    BY SMTT(30), <2>3, <2>4, <2>7, CodeGiven
  <2>. QED  BY SMTT(30), <1>5, <2>1, <2>3, <2>5, <2>8
<1>6. CASE 128 <= u /\ u < 2048
  <2>1. T!CountUtf32(u) = 2
    BY SMTT(30), <1>6, CountIs
  <2>2. PICK h, l : IsTwo(u, h, l)
    BY SMTT(30), <1>6, TwoBytes
  <2>3. /\ 64^(2 - 1) = 64 /\ 64^(2 - 2) = 1 /\ 2^(8 - 2) = 64 /\ u \div 1 = u
        /\ h + 256 - 64 = h + 192
    BY SMTT(30), Powers
  <2>4. s = [i \in 1 .. 2 |-> IF i = 1 THEN h + 192 ELSE ((u \div 64^(2 - i)) % 64) + 128]
    BY SMTT(30), <1>1, <2>1, <2>2, <2>3, BytesOf DEF IsTwo
  <2>5. s[1] = h + 192 /\ s[2] = l + 128 /\ Len(s) = 2
    BY SMTT(30), <2>2, <2>3, <2>4 DEF IsTwo
  <2>6. s = <<h + 192, l + 128>>
    BY SMTT(30), <2>4, <2>5
  <2>7. s \in Seq(T!Byte)
    <3>1. h \in 2 .. 31 /\ l \in 0 .. 63
      BY SMTT(30), <2>2 DEF IsTwo
    <3>2. h + 192 \in T!Byte /\ l + 128 \in T!Byte
      BY SMTT(30), <3>1 DEF T!Byte
    <3>. QED  BY <2>6, <3>2, BytesTwo
  <2>8. T!Utf8Count(h + 192) = 2 /\ T!Chain(l + 128)
    <3>1. h \in 2 .. 31 /\ l \in 0 .. 63
      BY SMTT(30), <2>2 DEF IsTwo
    <3>. QED  BY SMTT(30), <3>1 DEF T!Utf8Count, T!Chain
  <2>9. (h + 192) % 64 = h /\ (l + 128) % 64 = l
    BY SMTT(30), <2>2 DEF IsTwo
  <2>10. PICK v : v = <<h, u>>
    OBVIOUS
  <2>11. v[1] = s[1] % 2^(8 - 2) /\ \A i \in 2 .. 2 : v[i] = v[i - 1] * 64 + (s[i] % 64)
    BY SMTT(30), <2>2, <2>3, <2>5, <2>9, <2>10 DEF IsTwo
  <2>12. T!Utf8ToUtf32(s) = IF T!CountUtf32(v[2]) = 2 THEN v[2] ELSE -1
    <3>1. Len(s) = 2 /\ T!Utf8Count(s[1]) = 2 /\ 2 \in 1 .. 4 /\ \A i \in 2 .. 2 : T!Chain(s[i])
      BY SMTT(30), <2>5, <2>8
    <3>. QED  BY SMTT(30), <2>11, <3>1, CodeGiven
  <2>. QED  BY SMTT(30), <1>6, <2>1, <2>7, <2>10, <2>12
<1>7. CASE 2048 <= u /\ u < 55296
  <2>1. T!CountUtf32(u) = 3
    BY SMTT(30), <1>7, CountIs
  <2>2. PICK h, m, l : IsThree(u, h, m, l)
    BY SMTT(30), <1>7, ThreeBytes
  <2>3. /\ 64^(3 - 1) = 4096 /\ 64^(3 - 2) = 64 /\ 64^(3 - 3) = 1 /\ 2^(8 - 3) = 32
        /\ u \div 1 = u /\ h + 256 - 32 = h + 224
    BY SMTT(30), Powers
  <2>4. s = [i \in 1 .. 3 |-> IF i = 1 THEN h + 224 ELSE ((u \div 64^(3 - i)) % 64) + 128]
    BY SMTT(30), <1>1, <2>1, <2>2, <2>3, BytesOf DEF IsThree
  <2>5. s[1] = h + 224 /\ s[2] = m + 128 /\ s[3] = l + 128 /\ Len(s) = 3
    BY SMTT(30), <2>2, <2>3, <2>4 DEF IsThree
  <2>6. s = <<h + 224, m + 128, l + 128>>
    BY SMTT(30), <2>4, <2>5
  <2>7. s \in Seq(T!Byte)
    <3>1. h \in 0 .. 15 /\ m \in 0 .. 63 /\ l \in 0 .. 63
      BY SMTT(30), <2>2 DEF IsThree
    <3>2. h + 224 \in T!Byte /\ m + 128 \in T!Byte /\ l + 128 \in T!Byte
      BY SMTT(30), <3>1 DEF T!Byte
    <3>. QED  BY <2>6, <3>2, BytesThree
  <2>8. T!Utf8Count(h + 224) = 3 /\ T!Chain(m + 128) /\ T!Chain(l + 128)
    <3>1. h \in 0 .. 15 /\ m \in 0 .. 63 /\ l \in 0 .. 63
      BY SMTT(30), <2>2 DEF IsThree
    <3>. QED  BY SMTT(30), <3>1 DEF T!Utf8Count, T!Chain
  <2>9. (h + 224) % 32 = h /\ (m + 128) % 64 = m /\ (l + 128) % 64 = l
    BY SMTT(30), <2>2 DEF IsThree
  <2>10. PICK v : v = <<h, h * 64 + m, u>>
    OBVIOUS
  <2>11. v[1] = s[1] % 2^(8 - 3) /\ \A i \in 2 .. 3 : v[i] = v[i - 1] * 64 + (s[i] % 64)
    <3>1. \A i \in 2 .. 3 : (i = 2 /\ i - 1 = 1) \/ (i = 3 /\ i - 1 = 2)
      BY SMTT(30)
    <3>. QED  BY SMTT(30), <2>2, <2>3, <2>5, <2>9, <2>10, <3>1 DEF IsThree
  <2>12. \A i \in 2 .. 3 : T!Chain(s[i])
    <3>1. \A i \in 2 .. 3 : i = 2 \/ i = 3
      BY SMTT(30)
    <3>. QED  BY SMTT(30), <2>5, <2>8, <3>1
  <2>13. T!Utf8ToUtf32(s) = IF T!CountUtf32(v[3]) = 3 THEN v[3] ELSE -1
    <3>1. Len(s) = 3 /\ T!Utf8Count(s[1]) = 3 /\ 3 \in 1 .. 4
      BY SMTT(30), <2>5, <2>8
    <3>. QED  BY SMTT(30), <2>11, <2>12, <3>1, CodeGiven
  <2>. QED  BY SMTT(30), <1>7, <2>1, <2>7, <2>10, <2>13
<1>8. CASE 57344 <= u /\ u <= 1114111
  <2>1. T!CountUtf32(u) = 4
    BY SMTT(30), <1>8, CountIs
  <2>2. PICK h, k, m, l : IsFour(u, h, k, m, l)
    BY SMTT(30), <1>8, FourBytes
  <2>3. /\ 64^(4 - 1) = 262144 /\ 64^(4 - 2) = 4096 /\ 64^(4 - 3) = 64 /\ 64^(4 - 4) = 1
        /\ 2^(8 - 4) = 16 /\ u \div 1 = u /\ h + 256 - 16 = h + 240
    BY SMTT(30), Powers
  <2>4. s = [i \in 1 .. 4 |-> IF i = 1 THEN h + 240 ELSE ((u \div 64^(4 - i)) % 64) + 128]
    BY SMTT(30), <1>1, <2>1, <2>2, <2>3, BytesOf DEF IsFour
  <2>5. s[1] = h + 240 /\ s[2] = k + 128 /\ s[3] = m + 128 /\ s[4] = l + 128 /\ Len(s) = 4
    BY SMTT(30), <2>2, <2>3, <2>4 DEF IsFour
  <2>6. s = <<h + 240, k + 128, m + 128, l + 128>>
    BY SMTT(30), <2>4, <2>5
  <2>7. s \in Seq(T!Byte)
    <3>1. h \in 0 .. 4 /\ k \in 0 .. 63 /\ m \in 0 .. 63 /\ l \in 0 .. 63
      BY SMTT(30), <2>2 DEF IsFour
    <3>2. /\ h + 240 \in T!Byte /\ k + 128 \in T!Byte
          /\ m + 128 \in T!Byte /\ l + 128 \in T!Byte
      BY SMTT(30), <3>1 DEF T!Byte
    <3>. QED  BY <2>6, <3>2, BytesFour
  <2>8. T!Utf8Count(h + 240) = 4 /\ T!Chain(k + 128) /\ T!Chain(m + 128) /\ T!Chain(l + 128)
    <3>1. h \in 0 .. 4 /\ k \in 0 .. 63 /\ m \in 0 .. 63 /\ l \in 0 .. 63
      BY SMTT(30), <2>2 DEF IsFour
    <3>. QED  BY SMTT(30), <3>1 DEF T!Utf8Count, T!Chain
  <2>9. /\ (h + 240) % 16 = h /\ (k + 128) % 64 = k /\ (m + 128) % 64 = m
        /\ (l + 128) % 64 = l
    BY SMTT(30), <2>2 DEF IsFour
  <2>10. PICK v : v = <<h, h * 64 + k, (h * 64 + k) * 64 + m, u>>
    OBVIOUS
  <2>11. v[1] = s[1] % 2^(8 - 4) /\ \A i \in 2 .. 4 : v[i] = v[i - 1] * 64 + (s[i] % 64)
    <3>1. \A i \in 2 .. 4 : (i = 2 /\ i - 1 = 1) \/ (i = 3 /\ i - 1 = 2) \/ (i = 4 /\ i - 1 = 3)
      BY SMTT(30)
    <3>. QED  BY SMTT(30), <2>2, <2>3, <2>5, <2>9, <2>10, <3>1 DEF IsFour
  <2>12. \A i \in 2 .. 4 : T!Chain(s[i])
    <3>1. \A i \in 2 .. 4 : i = 2 \/ i = 3 \/ i = 4
      BY SMTT(30)
    <3>. QED  BY SMTT(30), <2>5, <2>8, <3>1
  <2>13. T!Utf8ToUtf32(s) = IF T!CountUtf32(v[4]) = 4 THEN v[4] ELSE -1
    <3>1. Len(s) = 4 /\ T!Utf8Count(s[1]) = 4 /\ 4 \in 1 .. 4
      BY SMTT(30), <2>5, <2>8
    <3>. QED  BY SMTT(30), <2>11, <2>12, <3>1, CodeGiven
  <2>. QED  BY SMTT(30), <1>8, <2>1, <2>7, <2>10, <2>13
<1>. QED  BY SMTT(30), <1>4, <1>5, <1>6, <1>7, <1>8

(* The line of a prompt, of any length, survives base64 in both directions *)
(* and with any room, and of its characters those of Latin-1 survive the   *)
(* conversions of the clipboard.                                           *)
THEOREM CodesAgreeCorrect == MCSpec => []CodesAgree
<1>1. TextInv => CodesAgree
  <2>. SUFFICES ASSUME Edited PROVE T!CodesAgree
    BY DEF TextInv, CodesAgree
  <2>1. PICK f : Typing(f) /\ line = f[Len(kept)]
    BY DEF Edited
  <2>2. line \in Seq(T!Byte)
    <3>1. Len(kept) \in 0 .. Len(kept)
      BY DEF Edited
    <3>. QED  BY <2>1, <3>1 DEF Typing
  <2>3. T!Base64Agrees(line)
    BY <2>2, Base64Back
  <2>4. T!LatinAgrees(kept)
    BY <2>1, LatinBack DEF Edited
  <2>. QED  BY <2>3, <2>4 DEF T!CodesAgree
<1>. QED  BY <1>1, TextInvariant, PTL

-----------------------------------------------------------------------------
(* The names on the command line: the distance of two words.               *)

LEMMA SmallestOf ==
    ASSUME NEW S \in SUBSET Nat, S # {}
    PROVE  O!Smallest(S) \in S /\ \A x \in S : O!Smallest(S) <= x
<1>1. \E n \in S : \A m \in S : n <= m
  BY LeastOf
<1>. QED  BY <1>1 DEF O!Smallest, O!Min

LEMMA LastBeforeIs ==
    ASSUME NEW s, NEW i \in Nat \ {0}, NEW c
    PROVE  O!LastBefore(s, i, c) \in 0 .. i - 1
<1>. DEFINE S == {0} \cup {j \in 1 .. i - 1 : s[j] = c}
            N == {n \in 0 .. i : i - n \in S}
<1>1. S \subseteq 0 .. i - 1 /\ 0 \in S
  OBVIOUS
<1>. HIDE DEF S
<1>2. i \in N /\ N \in SUBSET Nat
  BY <1>1
<1>3. PICK n \in N : \A m \in N : n <= m
  BY <1>2, LeastOf
<1>4. i - n \in S /\ n \in 0 .. i
  BY <1>3
<1>5. ASSUME NEW x \in S PROVE i - n >= x
  <2>1. x \in 0 .. i - 1
    BY <1>1
  <2>2. i - x \in 0 .. i /\ i - (i - x) = x
    BY <2>1
  <2>3. n <= i - x
    BY <1>3, <2>2
  <2>. QED  BY <1>4, <2>1, <2>3
<1>6. O!Max(S) \in S
  BY <1>4, <1>5 DEF O!Max
<1>7. O!LastBefore(s, i, c) = O!Max(S)
  BY DEF O!LastBefore, S
<1>. QED  BY <1>1, <1>6, <1>7

(* A place of the table is a distance, and none exactly where the same     *)
(* letters have been read of both words.                                   *)
Alike(a, b, i) == \A t \in 1 .. i : a[t] = b[t]

IsPlace(v, a, b, i, j) == v \in Nat /\ (v = 0 <=> (i = j /\ Alike(a, b, i)))

IsRow(r, a, b, i, n) ==
    /\ r \in Seq(Nat) /\ Len(r) = n + 1
    /\ \A y \in 1 .. n + 1 : r[y] = 0 <=> (i = y - 1 /\ Alike(a, b, i))

IsTable(rows, a, b, i) ==
    /\ rows \in Seq(Seq(Nat)) /\ Len(rows) = i + 1
    /\ \A x \in 1 .. i + 1 : IsRow(rows[x], a, b, x - 1, Len(b))

LEMMA PlaceIs ==
    ASSUME NEW a, NEW b, NEW i \in Nat \ {0}, NEW j \in Nat \ {0}, Len(b) \in Nat, j <= Len(b),
           NEW rows, IsTable(rows, a, b, i - 1), NEW row, IsRow(row, a, b, i, j - 1)
    PROVE  IsPlace(O!Place(rows, row, a, b, i, j), a, b, i, j)
<1>1. PICK k \in 0 .. i - 1, m \in 0 .. j - 1 :
         k = O!LastBefore(a, i, b[j]) /\ m = O!LastBefore(b, j, a[i])
  BY LastBeforeIs
<1>2. PICK n \in Nat : n = Len(b) /\ j <= n
  OBVIOUS
<1>3. ASSUME NEW x \in 1 .. i, NEW y \in 1 .. n + 1
      PROVE  rows[x][y] \in Nat /\ (rows[x][y] = 0 <=> (x = y /\ Alike(a, b, x - 1)))
  <2>1. x \in 1 .. (i - 1) + 1
    OBVIOUS
  <2>2. IsRow(rows[x], a, b, x - 1, n)
    BY <1>2, <2>1 DEF IsTable
  <2>3. rows[x][y] \in Nat
    BY SMTT(30), <2>2 DEF IsRow
  <2>4. rows[x][y] = 0 <=> (x - 1 = y - 1 /\ Alike(a, b, x - 1))
    BY <2>2 DEF IsRow
  <2>5. x - 1 = y - 1 <=> x = y
    OBVIOUS
  <2>. QED  BY <2>3, <2>4, <2>5
<1>4. i \in 1 .. i /\ j \in 1 .. n + 1 /\ j + 1 \in 1 .. n + 1
  BY <1>2
<1>5. PICK u \in Nat, v \in Nat, w \in Nat :
         u = rows[i][j] /\ v = row[j] /\ w = rows[i][j + 1]
  <2>1. row[j] \in Nat
    <3>1. row \in Seq(Nat) /\ Len(row) = (j - 1) + 1
      BY DEF IsRow
    <3>2. j \in 1 .. Len(row)
      BY <3>1
    <3>. QED  BY <3>1, <3>2
  <2>. QED  BY <1>3, <1>4, <2>1
<1>6. u = 0 <=> (i = j /\ Alike(a, b, i - 1))
  BY <1>3, <1>4, <1>5
<1>7. PICK p \in Nat : p = u + (IF a[i] = b[j] THEN 0 ELSE 2)
  OBVIOUS
<1>8. PICK X \in SUBSET (Nat \ {0}) :
         X = IF k = 0 \/ m = 0 THEN {} ELSE {rows[k][m] + i - k + j - m - 1}
  <2>1. CASE k = 0 \/ m = 0
    BY <2>1
  <2>2. CASE ~(k = 0 \/ m = 0)
    <3>1. k \in 1 .. i /\ m \in 1 .. n + 1
      BY <1>2, <2>2
    <3>2. PICK z \in Nat : z = rows[k][m]
      BY <1>3, <3>1
    <3>3. z + i - k + j - m - 1 \in Nat \ {0}
      OBVIOUS
    <3>. QED  BY <2>2, <3>2, <3>3
  <2>. QED  BY <2>1, <2>2
<1>9. PICK S : S = {p, v + 1, w + 1} \cup X
  OBVIOUS
<1>10. O!Place(rows, row, a, b, i, j) = O!Smallest(S)
  BY <1>1, <1>5, <1>7, <1>8, <1>9 DEF O!Place
<1>11. S \in SUBSET Nat /\ S # {}
  BY <1>8, <1>9
<1>12. PICK q \in S : q = O!Smallest(S) /\ \A x \in S : q <= x
  BY <1>11, SmallestOf
<1>13. q = 0 <=> p = 0
  <2>1. ASSUME q = 0 PROVE p = 0
    <3>1. q # v + 1 /\ q # w + 1 /\ q \notin X
      BY <1>8, <2>1
    <3>. QED  BY <1>9, <2>1, <3>1
  <2>2. ASSUME p = 0 PROVE q = 0
    <3>1. q <= p /\ q \in Nat
      BY <1>9, <1>11, <1>12
    <3>. QED  BY <2>2, <3>1
  <2>. QED  BY <2>1, <2>2
<1>14. p = 0 <=> (u = 0 /\ a[i] = b[j])
  BY <1>7
<1>15. i = j => (Alike(a, b, i) <=> (Alike(a, b, i - 1) /\ a[i] = b[j]))
  <2>1. \A t : t \in 1 .. i <=> (t \in 1 .. i - 1 \/ t = i)
    OBVIOUS
  <2>. QED  BY <2>1 DEF Alike
<1>. QED  BY <1>6, <1>10, <1>11, <1>12, <1>13, <1>14, <1>15 DEF IsPlace

(* The courses of str_dist along a row and down the table.                 *)
NextPlace(row, rows, a, b, i, j) == Append(row, O!Place(rows, row, a, b, i, j))
RowUpTo(g, n, rows, a, b, i) ==
    g = [j \in 0 .. n |-> IF j = 0 THEN <<i>> ELSE NextPlace(g[j - 1], rows, a, b, i, j)]

TopRow(b) == << [j \in 1 .. Len(b) + 1 |-> j - 1] >>
NextTable(rows, a, b, i) == Append(rows, O!NextRow(rows, a, b, i))
TableUpTo(g, n, a, b) ==
    g = [i \in 0 .. n |-> IF i = 0 THEN TopRow(b) ELSE NextTable(g[i - 1], a, b, i)]

LEMMA RowExists ==
    ASSUME NEW rows, NEW a, NEW b, NEW i, NEW n \in Nat
    PROVE  \E g : RowUpTo(g, n, rows, a, b, i)
<1>. DEFINE Bad == {k \in Nat : ~ \E g : RowUpTo(g, k, rows, a, b, i)}
<1>1. SUFFICES ASSUME Bad # {} PROVE FALSE
  OBVIOUS
<1>2. PICK k \in Bad : \A m \in Bad : k <= m
  <2>1. Bad \in SUBSET Nat
    OBVIOUS
  <2>. HIDE DEF Bad
  <2>. QED  BY <1>1, <2>1, LeastOf
<1>3. k \in Nat /\ ~ \E g : RowUpTo(g, k, rows, a, b, i)
  BY <1>2
<1>4. CASE k = 0
  <2>1. PICK g : g = [m \in 0 .. 0 |-> <<i>>]
    OBVIOUS
  <2>2. g = [m \in 0 .. 0 |-> IF m = 0 THEN <<i>> ELSE NextPlace(g[m - 1], rows, a, b, i, m)]
    BY <2>1
  <2>. QED  BY <1>3, <1>4, <2>2 DEF RowUpTo
<1>5. CASE k # 0
  <2>1. k - 1 \in Nat /\ ~(k <= k - 1)
    BY <1>3, <1>5
  <2>2. PICK f : RowUpTo(f, k - 1, rows, a, b, i)
    BY <1>2, <2>1
  <2>3. PICK g : g = [m \in 0 .. k |-> IF m = k THEN NextPlace(f[k - 1], rows, a, b, i, k) ELSE f[m]]
    OBVIOUS
  <2>4. ASSUME NEW m \in 0 .. k
        PROVE  g[m] = IF m = 0 THEN <<i>> ELSE NextPlace(g[m - 1], rows, a, b, i, m)
    <3>1. CASE m = k
      <4>1. k - 1 \in 0 .. k /\ k - 1 # k /\ g[k - 1] = f[k - 1]
        BY <1>5, <2>1, <2>3
      <4>. QED  BY <1>5, <2>3, <3>1, <4>1
    <3>2. CASE m # k
      <4>1. m \in 0 .. k - 1 /\ g[m] = f[m]
        BY <1>3, <2>3, <3>2
      <4>2. f[m] = IF m = 0 THEN <<i>> ELSE NextPlace(f[m - 1], rows, a, b, i, m)
        BY <2>2, <4>1 DEF RowUpTo
      <4>3. m # 0 => m - 1 \in 0 .. k /\ m - 1 # k /\ g[m - 1] = f[m - 1]
        BY <1>3, <2>3, <4>1
      <4>. QED  BY <4>1, <4>2, <4>3
    <3>. QED  BY <3>1, <3>2
  <2>5. g = [m \in 0 .. k |-> IF m = 0 THEN <<i>> ELSE NextPlace(g[m - 1], rows, a, b, i, m)]
    <3>1. PICK h : h = [m \in 0 .. k |-> IF m = 0 THEN <<i>> ELSE NextPlace(g[m - 1], rows, a, b, i, m)]
      OBVIOUS
    <3>2. g = h
      BY <2>3, <2>4, <3>1
    <3>. QED  BY <3>1, <3>2
  <2>. QED  BY <1>3, <2>5 DEF RowUpTo
<1>. QED  BY <1>4, <1>5

LEMMA TableExists ==
    ASSUME NEW a, NEW b, NEW n \in Nat
    PROVE  \E g : TableUpTo(g, n, a, b)
<1>. DEFINE Bad == {k \in Nat : ~ \E g : TableUpTo(g, k, a, b)}
<1>1. SUFFICES ASSUME Bad # {} PROVE FALSE
  OBVIOUS
<1>2. PICK k \in Bad : \A m \in Bad : k <= m
  <2>1. Bad \in SUBSET Nat
    OBVIOUS
  <2>. HIDE DEF Bad
  <2>. QED  BY <1>1, <2>1, LeastOf
<1>3. k \in Nat /\ ~ \E g : TableUpTo(g, k, a, b)
  BY <1>2
<1>4. CASE k = 0
  <2>1. PICK g : g = [m \in 0 .. 0 |-> TopRow(b)]
    OBVIOUS
  <2>2. g = [m \in 0 .. 0 |-> IF m = 0 THEN TopRow(b) ELSE NextTable(g[m - 1], a, b, m)]
    BY <2>1
  <2>. QED  BY <1>3, <1>4, <2>2 DEF TableUpTo
<1>5. CASE k # 0
  <2>1. k - 1 \in Nat /\ ~(k <= k - 1)
    BY <1>3, <1>5
  <2>2. PICK f : TableUpTo(f, k - 1, a, b)
    BY <1>2, <2>1
  <2>3. PICK g : g = [m \in 0 .. k |-> IF m = k THEN NextTable(f[k - 1], a, b, k) ELSE f[m]]
    OBVIOUS
  <2>4. ASSUME NEW m \in 0 .. k
        PROVE  g[m] = IF m = 0 THEN TopRow(b) ELSE NextTable(g[m - 1], a, b, m)
    <3>1. CASE m = k
      <4>1. k - 1 \in 0 .. k /\ k - 1 # k /\ g[k - 1] = f[k - 1]
        BY <1>5, <2>1, <2>3
      <4>. QED  BY <1>5, <2>3, <3>1, <4>1
    <3>2. CASE m # k
      <4>1. m \in 0 .. k - 1 /\ g[m] = f[m]
        BY <1>3, <2>3, <3>2
      <4>2. f[m] = IF m = 0 THEN TopRow(b) ELSE NextTable(f[m - 1], a, b, m)
        BY <2>2, <4>1 DEF TableUpTo
      <4>3. m # 0 => m - 1 \in 0 .. k /\ m - 1 # k /\ g[m - 1] = f[m - 1]
        BY <1>3, <2>3, <4>1
      <4>. QED  BY <4>1, <4>2, <4>3
    <3>. QED  BY <3>1, <3>2
  <2>5. g = [m \in 0 .. k |-> IF m = 0 THEN TopRow(b) ELSE NextTable(g[m - 1], a, b, m)]
    <3>1. PICK h : h = [m \in 0 .. k |-> IF m = 0 THEN TopRow(b) ELSE NextTable(g[m - 1], a, b, m)]
      OBVIOUS
    <3>2. g = h
      BY <2>3, <2>4, <3>1
    <3>. QED  BY <3>1, <3>2
  <2>. QED  BY <1>3, <2>5 DEF TableUpTo
<1>. QED  BY <1>4, <1>5

LEMMA NextRowIs ==
    ASSUME NEW a, NEW b, Len(b) \in Nat, NEW i \in Nat \ {0},
           NEW rows, IsTable(rows, a, b, i - 1)
    PROVE  IsRow(O!NextRow(rows, a, b, i), a, b, i, Len(b))
<1>1. PICK n \in Nat : n = Len(b)
  OBVIOUS
<1>. DEFINE g == CHOOSE h : RowUpTo(h, n, rows, a, b, i)
            Bad == {j \in 0 .. n : ~IsRow(g[j], a, b, i, j)}
<1>2. O!NextRow(rows, a, b, i) = g[n]
  BY <1>1 DEF O!NextRow, RowUpTo, NextPlace
<1>3. RowUpTo(g, n, rows, a, b, i)
  BY RowExists
<1>. HIDE DEF g
<1>4. g[0] = <<i>> /\ \A j \in 1 .. n : g[j] = NextPlace(g[j - 1], rows, a, b, i, j)
  <2>1. 0 \in 0 .. n
    OBVIOUS
  <2>2. \A j \in 1 .. n : j \in 0 .. n /\ j # 0
    OBVIOUS
  <2>. QED  BY <1>3, <2>1, <2>2 DEF RowUpTo
<1>5. ASSUME Bad # {} PROVE FALSE
  <2>1. PICK j \in Bad : \A m \in Bad : j <= m
    <3>1. Bad \in SUBSET Nat
      OBVIOUS
    <3>. HIDE DEF Bad
    <3>. QED  BY <1>5, <3>1, LeastOf
  <2>2. j \in 0 .. n /\ ~IsRow(g[j], a, b, i, j)
    BY <2>1
  <2>3. CASE j = 0
    <3>1. <<i>> \in Seq(Nat) /\ Len(<<i>>) = 0 + 1 /\ <<i>>[1] = i
      OBVIOUS
    <3>2. \A y \in 1 .. 0 + 1 : y = 1 /\ y - 1 = 0
      OBVIOUS
    <3>3. IsRow(<<i>>, a, b, i, 0)
      BY <3>1, <3>2 DEF IsRow
    <3>. QED  BY <1>4, <2>2, <2>3, <3>3
  <2>4. CASE j # 0
    <3>1. j \in 1 .. n /\ j - 1 \in 0 .. n /\ ~(j <= j - 1) /\ j \in Nat \ {0}
      BY <2>2, <2>4
    <3>2. PICK row : row = g[j - 1] /\ IsRow(row, a, b, i, j - 1)
      BY <2>1, <3>1
    <3>3. PICK v : v = O!Place(rows, row, a, b, i, j)
      OBVIOUS
    <3>4. v \in Nat /\ (v = 0 <=> (i = j /\ Alike(a, b, i)))
      <4>1. j <= Len(b) /\ j \in Nat \ {0}
        BY <1>1, <3>1
      <4>2. IsPlace(v, a, b, i, j)
        BY <3>2, <3>3, <4>1, PlaceIs
      <4>. QED  BY <4>2 DEF IsPlace
    <3>5. g[j] = Append(row, v)
      BY <1>4, <3>1, <3>2, <3>3 DEF NextPlace
    <3>6. row \in Seq(Nat) /\ Len(row) = j
      BY <3>1, <3>2 DEF IsRow
    <3>7. /\ Append(row, v) \in Seq(Nat) /\ Len(Append(row, v)) = j + 1
          /\ Append(row, v)[j + 1] = v
          /\ \A y \in 1 .. j : Append(row, v)[y] = row[y]
      BY <3>4, <3>6, AppendProperties
    <3>8. ASSUME NEW y \in 1 .. j + 1
          PROVE  Append(row, v)[y] = 0 <=> (i = y - 1 /\ Alike(a, b, i))
      <4>1. CASE y = j + 1
        <5>1. y - 1 = j
          BY <3>1, <4>1
        <5>. QED  BY <3>4, <3>7, <4>1, <5>1
      <4>2. CASE y # j + 1
        <5>1. y \in 1 .. j /\ y \in 1 .. (j - 1) + 1
          BY <3>1, <4>2
        <5>2. row[y] = 0 <=> (i = y - 1 /\ Alike(a, b, i))
          BY <3>2, <5>1 DEF IsRow
        <5>. QED  BY <3>7, <5>1, <5>2
      <4>. QED  BY <4>1, <4>2
    <3>9. IsRow(Append(row, v), a, b, i, j)
      BY <3>7, <3>8 DEF IsRow
    <3>. QED  BY <2>2, <3>5, <3>9
  <2>. QED  BY <2>3, <2>4
<1>6. n \in 0 .. n
  OBVIOUS
<1>. QED  BY <1>1, <1>2, <1>5, <1>6

LEMMA LastRowIs ==
    ASSUME NEW a, Len(a) \in Nat, NEW b, Len(b) \in Nat
    PROVE  IsRow(O!LastRow(a, b), a, b, Len(a), Len(b))
<1>1. PICK l \in Nat, n \in Nat : l = Len(a) /\ n = Len(b)
  OBVIOUS
<1>. DEFINE g == CHOOSE h : TableUpTo(h, l, a, b)
            Bad == {i \in 0 .. l : ~IsTable(g[i], a, b, i)}
<1>2. O!LastRow(a, b) = g[l][l + 1]
  BY <1>1 DEF O!LastRow, TableUpTo, NextTable, TopRow
<1>3. TableUpTo(g, l, a, b)
  BY TableExists
<1>. HIDE DEF g
<1>4. g[0] = TopRow(b) /\ \A i \in 1 .. l : g[i] = NextTable(g[i - 1], a, b, i)
  <2>1. 0 \in 0 .. l
    OBVIOUS
  <2>2. \A i \in 1 .. l : i \in 0 .. l /\ i # 0
    OBVIOUS
  <2>. QED  BY <1>3, <2>1, <2>2 DEF TableUpTo
<1>5. ASSUME Bad # {} PROVE FALSE
  <2>1. PICK i \in Bad : \A m \in Bad : i <= m
    <3>1. Bad \in SUBSET Nat
      OBVIOUS
    <3>. HIDE DEF Bad
    <3>. QED  BY <1>5, <3>1, LeastOf
  <2>2. i \in 0 .. l /\ ~IsTable(g[i], a, b, i)
    BY <2>1
  <2>3. CASE i = 0
    <3>1. PICK r : r = [j \in 1 .. n + 1 |-> j - 1]
      OBVIOUS
    <3>2. r \in Seq(Nat) /\ Len(r) = n + 1
      <4>1. \A j \in 1 .. n + 1 : j - 1 \in Nat
        OBVIOUS
      <4>. QED  BY <3>1, <4>1
    <3>3. ASSUME NEW y \in 1 .. n + 1 PROVE r[y] = 0 <=> (0 = y - 1 /\ Alike(a, b, 0))
      <4>1. r[y] = y - 1 /\ 1 .. 0 = {}
        BY <3>1
      <4>. QED  BY <4>1 DEF Alike
    <3>4. IsRow(r, a, b, 0, n)
      BY <3>2, <3>3 DEF IsRow
    <3>5. <<r>> \in Seq(Seq(Nat)) /\ Len(<<r>>) = 0 + 1 /\ <<r>>[1] = r
      BY <3>2
    <3>6. \A x \in 1 .. 0 + 1 : x = 1 /\ x - 1 = 0
      OBVIOUS
    <3>7. IsTable(<<r>>, a, b, 0)
      BY <1>1, <3>4, <3>5, <3>6 DEF IsTable
    <3>. QED  BY <1>1, <1>4, <2>2, <2>3, <3>1, <3>7 DEF TopRow
  <2>4. CASE i # 0
    <3>1. i \in 1 .. l /\ i - 1 \in 0 .. l /\ ~(i <= i - 1) /\ i \in Nat \ {0}
      BY <2>2, <2>4
    <3>2. PICK rows : rows = g[i - 1] /\ IsTable(rows, a, b, i - 1)
      BY <2>1, <3>1
    <3>3. PICK r : r = O!NextRow(rows, a, b, i)
      OBVIOUS
    <3>4. IsRow(r, a, b, i, n)
      BY <1>1, <3>1, <3>2, <3>3, NextRowIs
    <3>5. g[i] = Append(rows, r)
      BY <1>4, <3>1, <3>2, <3>3 DEF NextTable
    <3>6. rows \in Seq(Seq(Nat)) /\ Len(rows) = i /\ r \in Seq(Nat)
      BY <3>1, <3>2, <3>4 DEF IsTable, IsRow
    <3>7. /\ Append(rows, r) \in Seq(Seq(Nat)) /\ Len(Append(rows, r)) = i + 1
          /\ Append(rows, r)[i + 1] = r
          /\ \A x \in 1 .. i : Append(rows, r)[x] = rows[x]
      BY SMTT(30), <3>6, AppendProperties
    <3>8. ASSUME NEW x \in 1 .. i + 1 PROVE IsRow(Append(rows, r)[x], a, b, x - 1, n)
      <4>1. CASE x = i + 1
        <5>1. x - 1 = i
          BY <3>1, <4>1
        <5>. QED  BY <3>4, <3>7, <4>1, <5>1
      <4>2. CASE x # i + 1
        <5>1. x \in 1 .. i /\ x \in 1 .. (i - 1) + 1
          BY <3>1, <4>2
        <5>2. IsRow(rows[x], a, b, x - 1, n)
          BY <1>1, <3>2, <5>1 DEF IsTable
        <5>. QED  BY <3>7, <5>1, <5>2
      <4>. QED  BY <4>1, <4>2
    <3>9. IsTable(Append(rows, r), a, b, i)
      BY <1>1, <3>7, <3>8 DEF IsTable
    <3>. QED  BY <2>2, <3>5, <3>9
  <2>. QED  BY <2>3, <2>4
<1>6. IsTable(g[l], a, b, l)
  <2>1. l \in 0 .. l
    OBVIOUS
  <2>. QED  BY <1>5, <2>1
<1>7. l + 1 \in 1 .. l + 1 /\ (l + 1) - 1 = l
  OBVIOUS
<1>8. IsRow(g[l][l + 1], a, b, l, n)
  BY <1>1, <1>6, <1>7 DEF IsTable
<1>. QED  BY <1>1, <1>2, <1>8

(* A distance is a number, and none between words of one length only if    *)
(* they are the same.                                                      *)
LEMMA StrDistIs ==
    ASSUME NEW S, NEW a \in Seq(S), NEW b \in Seq(S)
    PROVE  /\ O!StrDist(a, b) \in Nat
           /\ Len(a) = Len(b) => (O!StrDist(a, b) = 0 <=> a = b)
<1>1. PICK l \in Nat, n \in Nat : l = Len(a) /\ n = Len(b)
  OBVIOUS
<1>2. PICK d : d = O!LastRow(a, b) /\ IsRow(d, a, b, l, n)
  BY <1>1, LastRowIs
<1>3. \A y \in 1 .. n + 1 : d[y] \in Nat
  BY <1>2 DEF IsRow
<1>4. PICK D : D = {d[n + 1]} \cup {d[k + 1] : k \in l .. n}
  OBVIOUS
<1>5. O!StrDist(a, b) = O!Smallest(D)
  BY <1>1, <1>2, <1>4 DEF O!StrDist
<1>6. D \in SUBSET Nat /\ D # {}
  <2>1. \A k \in l .. n : k + 1 \in 1 .. n + 1
    OBVIOUS
  <2>2. n + 1 \in 1 .. n + 1
    OBVIOUS
  <2>. QED  BY <1>3, <1>4, <2>1, <2>2
<1>7. O!StrDist(a, b) \in D
  BY <1>5, <1>6, SmallestOf
<1>8. ASSUME l = n PROVE O!StrDist(a, b) = 0 <=> a = b
  <2>1. D = {d[n + 1]}
    <3>1. \A k \in l .. n : k = n
      BY <1>8
    <3>. QED  BY <1>4, <3>1
  <2>2. n + 1 \in 1 .. n + 1 /\ (n + 1) - 1 = n
    OBVIOUS
  <2>3. d[n + 1] = 0 <=> Alike(a, b, n)
    BY <1>2, <1>8, <2>2 DEF IsRow
  <2>4. Alike(a, b, n) <=> a = b
    <3>1. Alike(a, b, n) => a = b
      BY <1>1, <1>8, SeqEqual DEF Alike
    <3>. QED  BY <3>1 DEF Alike
  <2>. QED  BY <1>7, <2>1, <2>3, <2>4
<1>. QED  BY <1>1, <1>6, <1>7, <1>8

-----------------------------------------------------------------------------
(* The names on the command line: the search.                              *)

Opt == [name : Seq(Letter), help : BOOLEAN]
Result == [found : Seq(Letter), least : Nat, done : BOOLEAN]

NoneYet == [found |-> <<>>, least |-> O!Far, done |-> FALSE]
Searching(g, n, os, w) ==
    g = [k \in 0 .. n |-> IF k = 0 THEN NoneYet ELSE O!Consider(g[k - 1], os[k], w)]

(* After the first k options: the word itself has been found, or of those  *)
(* near it the nearest is known, and its name unless there are two.        *)
Dist(os, w, i) == O!StrDist(w, os[i].name)
Half(w) == (Len(w) + 1) \div 2
Near(os, w, k) == {i \in 1 .. k : os[i].help /\ Dist(os, w, i) <= Half(w)}
Has(os, w, k) == \E i \in 1 .. k : os[i].name = w

IsNearest(st, os, w, N, i) ==
    /\ st.least = Dist(os, w, i) /\ \A j \in N : Dist(os, w, i) <= Dist(os, w, j)
    /\ st.found = IF \A j \in N : Dist(os, w, j) = Dist(os, w, i) => j = i
                  THEN os[i].name ELSE <<>>

Searched(st, os, w, k) ==
    /\ st \in Result
    /\ Has(os, w, k) => st.done /\ st.found = w
    /\ ~Has(os, w, k) =>
         /\ ~st.done
         /\ Near(os, w, k) = {} => st.found = <<>> /\ st.least = O!Far
         /\ Near(os, w, k) # {} =>
              \E i \in Near(os, w, k) : IsNearest(st, os, w, Near(os, w, k), i)

LEMMA SearchExists ==
    ASSUME NEW w, NEW os, NEW n \in Nat
    PROVE  \E g : Searching(g, n, os, w)
<1>. DEFINE Bad == {k \in Nat : ~ \E g : Searching(g, k, os, w)}
<1>1. SUFFICES ASSUME Bad # {} PROVE FALSE
  OBVIOUS
<1>2. PICK k \in Bad : \A m \in Bad : k <= m
  <2>1. Bad \in SUBSET Nat
    OBVIOUS
  <2>. HIDE DEF Bad
  <2>. QED  BY <1>1, <2>1, LeastOf
<1>3. k \in Nat /\ ~ \E g : Searching(g, k, os, w)
  BY <1>2
<1>4. CASE k = 0
  <2>1. PICK g : g = [m \in 0 .. 0 |-> NoneYet]
    OBVIOUS
  <2>2. g = [m \in 0 .. 0 |-> IF m = 0 THEN NoneYet ELSE O!Consider(g[m - 1], os[m], w)]
    BY <2>1
  <2>. QED  BY <1>3, <1>4, <2>2 DEF Searching
<1>5. CASE k # 0
  <2>1. k - 1 \in Nat /\ ~(k <= k - 1)
    BY <1>3, <1>5
  <2>2. PICK f : Searching(f, k - 1, os, w)
    BY <1>2, <2>1
  <2>3. PICK g : g = [m \in 0 .. k |-> IF m = k THEN O!Consider(f[k - 1], os[k], w) ELSE f[m]]
    OBVIOUS
  <2>4. ASSUME NEW m \in 0 .. k
        PROVE  g[m] = IF m = 0 THEN NoneYet ELSE O!Consider(g[m - 1], os[m], w)
    <3>1. CASE m = k
      <4>1. k - 1 \in 0 .. k /\ k - 1 # k /\ g[k - 1] = f[k - 1]
        BY <1>5, <2>1, <2>3
      <4>. QED  BY <1>5, <2>3, <3>1, <4>1
    <3>2. CASE m # k
      <4>1. m \in 0 .. k - 1 /\ g[m] = f[m]
        BY <1>3, <2>3, <3>2
      <4>2. f[m] = IF m = 0 THEN NoneYet ELSE O!Consider(f[m - 1], os[m], w)
        BY <2>2, <4>1 DEF Searching
      <4>3. m # 0 => m - 1 \in 0 .. k /\ m - 1 # k /\ g[m - 1] = f[m - 1]
        BY <1>3, <2>3, <4>1
      <4>. QED  BY <4>1, <4>2, <4>3
    <3>. QED  BY <3>1, <3>2
  <2>5. g = [m \in 0 .. k |-> IF m = 0 THEN NoneYet ELSE O!Consider(g[m - 1], os[m], w)]
    <3>1. PICK h : h = [m \in 0 .. k |-> IF m = 0 THEN NoneYet ELSE O!Consider(g[m - 1], os[m], w)]
      OBVIOUS
    <3>2. g = h
      BY <2>3, <2>4, <3>1
    <3>. QED  BY <3>1, <3>2
  <2>. QED  BY <1>3, <2>5 DEF Searching
<1>. QED  BY <1>4, <1>5

LEMMA ConsiderIs ==
    ASSUME NEW os \in Seq(Opt), NEW w \in Seq(Letter), Half(w) < O!Far, O!Far \in Nat,
           NEW k \in 1 .. Len(os), NEW st, Searched(st, os, w, k - 1)
    PROVE  Searched(O!Consider(st, os[k], w), os, w, k)
<1>1. os[k] \in Opt /\ os[k].name \in Seq(Letter) /\ os[k].help \in BOOLEAN
  <2>1. os[k] \in Opt
    OBVIOUS
  <2>. QED  BY <2>1 DEF Opt
<1>2. PICK dist \in Nat : dist = Dist(os, w, k) /\ dist = O!StrDist(w, os[k].name)
  BY <1>1, StrDistIs DEF Dist
<1>3. (Len(os[k].name) = Len(w) /\ dist = 0) <=> os[k].name = w
  BY <1>1, <1>2, StrDistIs
<1>4. \A i : i \in 1 .. k <=> (i \in 1 .. k - 1 \/ i = k)
  OBVIOUS
<1>5. k \notin 1 .. k - 1
  OBVIOUS
<1>6. Half(w) \in Nat
  <2>1. Len(w) \in Nat
    OBVIOUS
  <2>. QED  BY <2>1 DEF Half
<1>7. PICK res : res = O!Consider(st, os[k], w)
  OBVIOUS
<1>8. st \in Result /\ st.least \in Nat
  BY DEF Searched, Result
<1>9. \A j \in 1 .. k - 1 : Dist(os, w, j) \in Nat
  <2>. SUFFICES ASSUME NEW j \in 1 .. k - 1 PROVE Dist(os, w, j) \in Nat
    OBVIOUS
  <2>1. j \in 1 .. Len(os)
    OBVIOUS
  <2>2. os[j].name \in Seq(Letter)
    <3>1. os[j] \in Opt
      BY <2>1
    <3>. QED  BY <3>1 DEF Opt
  <2>. QED  BY <2>2, StrDistIs DEF Dist
<1>. DEFINE M == Near(os, w, k - 1)
            N == Near(os, w, k)
<1>10. Has(os, w, k) <=> (Has(os, w, k - 1) \/ os[k].name = w)
  BY <1>4 DEF Has
<1>11. CASE st.done
  <2>1. res = st
    BY <1>7, <1>11 DEF O!Consider
  <2>2. Has(os, w, k - 1) /\ st.found = w
    BY <1>11 DEF Searched
  <2>. QED  BY <1>7, <1>8, <1>10, <1>11, <2>1, <2>2 DEF Searched
<1>12. CASE ~st.done /\ os[k].name = w
  <2>1. res = [found |-> w, least |-> 0, done |-> TRUE]
    BY <1>1, <1>2, <1>3, <1>7, <1>12 DEF O!Consider
  <2>2. res \in Result /\ res.done /\ res.found = w
    BY <2>1 DEF Result
  <2>. QED  BY <1>7, <1>10, <1>12, <2>2 DEF Searched
<1>13. CASE ~st.done /\ os[k].name # w
  <2>1. ~Has(os, w, k - 1) /\ ~Has(os, w, k)
    BY <1>10, <1>13 DEF Searched
  <2>2. ~(Len(os[k].name) = Len(w) /\ O!StrDist(w, os[k].name) = 0)
    BY <1>2, <1>3, <1>13
  <2>3. /\ M = {} => st.found = <<>> /\ st.least = O!Far
        /\ M # {} => \E i \in M : IsNearest(st, os, w, M, i)
    BY <2>1 DEF Searched
  <2>4. SUFFICES /\ res \in Result /\ ~res.done
                 /\ N = {} => res.found = <<>> /\ res.least = O!Far
                 /\ N # {} => \E i \in N : IsNearest(res, os, w, N, i)
    BY <1>7, <2>1 DEF Searched
  <2>5. CASE ~os[k].help \/ dist > Half(w)
    <3>1. res = st
      BY <1>2, <1>7, <1>13, <2>2, <2>5 DEF O!Consider, Half
    <3>2. ~(os[k].help /\ Dist(os, w, k) <= Half(w))
      BY <1>2, <1>6, <2>5
    <3>3. N = M
      BY <1>4, <3>2 DEF Near
    <3>. QED  BY <1>8, <1>13, <2>3, <3>1, <3>3
  <2>6. CASE os[k].help /\ dist <= Half(w)
    <3>1. N = M \cup {k} /\ k \notin M /\ N # {} /\ M \subseteq 1 .. k - 1
      BY <1>2, <1>4, <1>5, <2>6 DEF Near
    <3>2. ~(~os[k].help \/ O!StrDist(w, os[k].name) > (Len(w) + 1) \div 2)
      BY <1>2, <1>6, <2>6 DEF Half
    <3>. HIDE DEF M, N
    <3>3. CASE dist < st.least
      <4>1. res = [st EXCEPT !.found = os[k].name, !.least = dist]
        BY <1>2, <1>7, <1>13, <2>2, <3>2, <3>3 DEF O!Consider
      <4>2. /\ res \in Result /\ ~res.done /\ res.least = dist
            /\ res.found = os[k].name
        BY <1>1, <1>8, <1>13, <4>1 DEF Result
      <4>3. ASSUME NEW j \in M PROVE Dist(os, w, j) \in Nat /\ dist < Dist(os, w, j)
        <5>1. PICK i \in M : IsNearest(st, os, w, M, i)
          BY <2>3
        <5>2. st.least <= Dist(os, w, j)
          BY <5>1 DEF IsNearest
        <5>3. Dist(os, w, j) \in Nat
          BY <1>9, <3>1
        <5>. QED  BY <1>8, <3>3, <5>2, <5>3
      <4>4. \A j \in N : dist <= Dist(os, w, j) /\ (Dist(os, w, j) = dist => j = k)
        <5>1. ASSUME NEW j \in N PROVE dist <= Dist(os, w, j) /\ (Dist(os, w, j) = dist => j = k)
          <6>1. CASE j = k
            <7>1. Dist(os, w, j) = dist
              BY <1>2, <6>1, Zenon
            <7>2. dist <= dist
              OBVIOUS
            <7>. QED  BY <6>1, <7>1, <7>2
          <6>2. CASE j # k
            BY <3>1, <4>3, <6>2
          <6>. QED  BY <6>1, <6>2
        <5>. QED  BY <5>1
      <4>5. k \in N /\ IsNearest(res, os, w, N, k)
        BY <1>2, <3>1, <4>2, <4>4 DEF IsNearest
      <4>. QED  BY <3>1, <4>2, <4>5
    <3>4. CASE ~(dist < st.least)
      <4>1. M # {}
        <5>1. ~(dist < O!Far) => FALSE
          BY <1>6, <2>6
        <5>. QED  BY <2>3, <3>4, <5>1
      <4>2. PICK i \in M : IsNearest(st, os, w, M, i)
        BY <2>3, <4>1
      <4>3. st.least = Dist(os, w, i) /\ Dist(os, w, i) <= dist /\ i \in N /\ i # k
        BY <1>8, <3>1, <3>4, <4>2 DEF IsNearest
      <4>4. \A j \in N : Dist(os, w, i) <= Dist(os, w, j)
        BY <1>2, <3>1, <4>2, <4>3 DEF IsNearest
      <4>5. CASE dist = st.least
        <5>1. res = [st EXCEPT !.found = <<>>]
          BY <1>2, <1>7, <1>13, <2>2, <3>2, <3>4, <4>5 DEF O!Consider, O!Tied
        <5>2. /\ res \in Result /\ ~res.done /\ res.least = st.least
              /\ res.found = <<>>
          <6>1. <<>> \in Seq(Letter)
            OBVIOUS
          <6>. QED  BY <1>8, <1>13, <5>1, <6>1 DEF Result
        <5>3. ~ \A j \in N : Dist(os, w, j) = Dist(os, w, i) => j = i
          BY <1>2, <3>1, <4>3, <4>5
        <5>4. IsNearest(res, os, w, N, i)
          BY <4>3, <4>4, <5>2, <5>3 DEF IsNearest
        <5>. QED  BY <3>1, <4>3, <5>2, <5>4
      <4>6. CASE dist # st.least
        <5>1. res = st
          BY <1>2, <1>7, <1>13, <2>2, <3>2, <3>4, <4>6 DEF O!Consider
        <5>2. (\A j \in N : Dist(os, w, j) = Dist(os, w, i) => j = i)
                <=> (\A j \in M : Dist(os, w, j) = Dist(os, w, i) => j = i)
          BY <1>2, <3>1, <4>3, <4>6
        <5>3. IsNearest(res, os, w, N, i)
          BY <4>2, <4>4, <5>1, <5>2 DEF IsNearest
        <5>. QED  BY <1>8, <1>13, <3>1, <4>3, <5>1, <5>3
      <4>. QED  BY <4>5, <4>6
    <3>. QED  BY <3>3, <3>4
  <2>7. (~os[k].help \/ dist > Half(w)) \/ (os[k].help /\ dist <= Half(w))
    BY <1>1, <1>6
  <2>. QED  BY <2>5, <2>6, <2>7
<1>. QED  BY <1>11, <1>12, <1>13

LEMMA SearchIs ==
    ASSUME options \in Seq(Opt), NEW w \in Seq(Letter), Half(w) < O!Far, O!Far \in Nat
    PROVE  \E st : O!OptionSearch(w) = st.found /\ Searched(st, options, w, Len(options))
<1>1. PICK n \in Nat : n = Len(options)
  OBVIOUS
<1>. DEFINE g == CHOOSE h : Searching(h, n, options, w)
            Bad == {k \in 0 .. n : ~Searched(g[k], options, w, k)}
<1>2. O!OptionSearch(w) = g[n].found
  BY <1>1 DEF O!OptionSearch, Searching, NoneYet
<1>3. Searching(g, n, options, w)
  BY SearchExists
<1>. HIDE DEF g
<1>4. g[0] = NoneYet /\ \A k \in 1 .. n : g[k] = O!Consider(g[k - 1], options[k], w)
  <2>1. 0 \in 0 .. n
    OBVIOUS
  <2>2. \A k \in 1 .. n : k \in 0 .. n /\ k # 0
    OBVIOUS
  <2>. QED  BY <1>3, <2>1, <2>2 DEF Searching
<1>5. ASSUME Bad # {} PROVE FALSE
  <2>1. PICK k \in Bad : \A m \in Bad : k <= m
    <3>1. Bad \in SUBSET Nat
      OBVIOUS
    <3>. HIDE DEF Bad
    <3>. QED  BY <1>5, <3>1, LeastOf
  <2>2. k \in 0 .. n /\ ~Searched(g[k], options, w, k)
    BY <2>1
  <2>3. CASE k = 0
    <3>1. 1 .. 0 = {}
      OBVIOUS
    <3>2. ~Has(options, w, 0) /\ Near(options, w, 0) = {}
      BY <3>1 DEF Has, Near
    <3>3. NoneYet \in Result /\ ~NoneYet.done /\ NoneYet.found = <<>> /\ NoneYet.least = O!Far
      <4>1. <<>> \in Seq(Letter)
        OBVIOUS
      <4>. QED  BY <4>1 DEF NoneYet, Result
    <3>. QED  BY <1>4, <2>2, <2>3, <3>2, <3>3 DEF Searched
  <2>4. CASE k # 0
    <3>1. k \in 1 .. n /\ k - 1 \in 0 .. n /\ ~(k <= k - 1)
      BY <2>2, <2>4
    <3>2. Searched(g[k - 1], options, w, k - 1)
      BY <2>1, <3>1
    <3>3. k \in 1 .. Len(options)
      BY <1>1, <3>1
    <3>4. Searched(O!Consider(g[k - 1], options[k], w), options, w, k)
      BY <3>2, <3>3, ConsiderIs
    <3>. QED  BY <1>4, <2>2, <3>1, <3>4
  <2>. QED  BY <2>3, <2>4
<1>6. n \in 0 .. n
  OBVIOUS
<1>. QED  BY <1>1, <1>2, <1>5, <1>6

(* What a name and a word may be.                                          *)
OptionsInv ==
    part = "options" =>
        options \in Seq(Opt) /\ word \in Seq(Letter) /\ Len(word) <= MaxName

(* A word finds its option whatever the options and their order, hidden    *)
(* ones and equal distances included.                                      *)
THEOREM OptionFoundCorrect == MCSpec => []OptionFound
<1>1. MCInit => OptionsInv
  <2>. SUFFICES ASSUME MCInit, part = "options"
                PROVE  options \in Seq(Opt) /\ word \in Seq(Letter) /\ Len(word) <= MaxName
    BY DEF OptionsInv
  <2>1. options = <<>> /\ word = <<>>
    BY DEF MCInit, O!Init
  <2>2. MaxName \in Nat
    BY EntryAssumption
  <2>. QED  BY <2>1, <2>2
<1>2. ASSUME OptionsInv, [MCNext]_<<part, vars, keys, loop, command, prompt>> PROVE OptionsInv'
  <2>. SUFFICES ASSUME part' = "options"
                PROVE  options' \in Seq(Opt) /\ word' \in Seq(Letter) /\ Len(word') <= MaxName
    BY DEF OptionsInv
  <2>1. /\ part = "options" /\ options \in Seq(Opt)
        /\ word \in Seq(Letter) /\ Len(word) <= MaxName
    BY <1>2 DEF MCNext, OptionsInv
  <2>2. [O!Next]_command
    BY <1>2, <2>1 DEF MCNext, LoginNext, KeysNext, LoopNext, OptionsNext, TextNext
  <2>3. CASE UNCHANGED command
    BY <2>1, <2>3 DEF command
  <2>4. ASSUME NEW s \in O!Words(MaxName), NEW help \in BOOLEAN, O!Declare(s, help)
        PROVE  options' \in Seq(Opt) /\ word' = word
    <3>1. PICK l \in 0 .. MaxName : s \in [1 .. l -> Letter]
      BY <2>4 DEF O!Words
    <3>2. s \in Seq(Letter)
      <4>1. l \in Nat
        BY <3>1, EntryAssumption
      <4>. QED  BY <3>1, <4>1
    <3>3. [name |-> s, help |-> help] \in Opt
      BY <3>2 DEF Opt
    <3>. QED  BY <2>1, <2>4, <3>3, AppendProperties DEF O!Declare
  <2>5. ASSUME NEW l \in Letter, O!Type(l)
        PROVE  options' = options /\ word' \in Seq(Letter) /\ Len(word') <= MaxName
    <3>1. word' = Append(word, l) /\ options' = options /\ Len(word) < MaxName
      BY <2>5 DEF O!Type
    <3>2. word' \in Seq(Letter) /\ Len(word') = Len(word) + 1 /\ Len(word) \in Nat
      BY <2>1, <3>1, AppendProperties
    <3>. QED  BY <3>1, <3>2, EntryAssumption
  <2>6. CASE O!Next
    BY <2>1, <2>4, <2>5, <2>6 DEF O!Next
  <2>. QED  BY <2>2, <2>3, <2>6
<1>3. OptionsInv => OptionFound
  <2>. SUFFICES ASSUME OptionsInv, part = "options", word # <<>> PROVE O!OptionFound
    BY DEF OptionFound, O!OptionFound
  <2>1. options \in Seq(Opt) /\ word \in Seq(Letter) /\ Len(word) <= MaxName
    BY DEF OptionsInv
  <2>2. Half(word) < O!Far /\ O!Far \in Nat
    <3>1. PICK l \in Nat : l = Len(word) /\ l # 0 /\ l <= MaxName
      BY <2>1, EmptySeq
    <3>2. MaxName \in Nat
      BY EntryAssumption
    <3>3. (l + 1) \div 2 <= l
      BY <3>1
    <3>. QED  BY <3>1, <3>2, <3>3 DEF Half, O!Far
  <2>3. PICK st : O!OptionSearch(word) = st.found /\ Searched(st, options, word, Len(options))
    BY <2>1, <2>2, SearchIs
  <2>4. PICK n \in Nat : n = Len(options) /\ DOMAIN options = 1 .. n
    BY <2>1
  <2>. DEFINE open == {i \in DOMAIN options : options[i].help}
              dist == [i \in open |-> O!StrDist(word, options[i].name)]
              near == {i \in open : dist[i] <= (Len(word) + 1) \div 2}
              nearest == {i \in near : \A j \in near : dist[i] <= dist[j]}
              N == Near(options, word, n)
  <2>5. near = N
    BY <2>4 DEF Near, Dist, Half
  <2>6. \A i \in N : dist[i] = Dist(options, word, i)
    BY <2>4 DEF Near, Dist
  <2>7. word \in {options[i].name : i \in DOMAIN options} <=> Has(options, word, n)
    BY <2>4 DEF Has
  <2>8. \A i \in N : Dist(options, word, i) \in Nat
    <3>. SUFFICES ASSUME NEW i \in N PROVE Dist(options, word, i) \in Nat
      OBVIOUS
    <3>1. i \in 1 .. Len(options)
      BY <2>4 DEF Near
    <3>2. options[i].name \in Seq(Letter)
      <4>1. options[i] \in Opt
        BY <2>1, <3>1
      <4>. QED  BY <4>1 DEF Opt
    <3>. QED  BY <2>1, <3>2, StrDistIs DEF Dist
  <2>9. nearest = {i \in N : \A j \in N : Dist(options, word, i) <= Dist(options, word, j)}
    <3>. HIDE DEF near, N, dist
    <3>. QED  BY <2>5, <2>6
  <2>10. IsFiniteSet(nearest)
    <3>1. nearest \subseteq 1 .. n
      BY <2>4
    <3>2. IsFiniteSet(1 .. n)
      BY FS_Interval
    <3>. HIDE DEF nearest
    <3>. QED  BY <3>1, <3>2, FS_Subset
  <2>11. ASSUME ~Has(options, word, n)
         PROVE  st.found = IF Cardinality(nearest) = 1
                           THEN options[CHOOSE i \in nearest : TRUE].name ELSE <<>>
    <3>. HIDE DEF nearest, near, N, dist
    <3>1. CASE N = {}
      <4>1. nearest = {} /\ Cardinality(nearest) = 0
        BY <2>9, <3>1, FS_EmptySet
      <4>2. st.found = <<>>
        BY <2>3, <2>4, <2>11, <3>1 DEF Searched, N
      <4>. QED  BY <4>1, <4>2
    <3>2. CASE N # {}
      <4>1. PICK i \in N : IsNearest(st, options, word, N, i)
        BY <2>3, <2>4, <2>11, <3>2 DEF Searched, N
      <4>2. i \in nearest
        BY <2>9, <4>1 DEF IsNearest
      <4>3. \A j \in N : j \in nearest <=> Dist(options, word, j) = Dist(options, word, i)
        <5>. SUFFICES ASSUME NEW j \in N
                      PROVE  j \in nearest <=> Dist(options, word, j) = Dist(options, word, i)
          OBVIOUS
        <5>1. Dist(options, word, i) <= Dist(options, word, j)
          BY <4>1 DEF IsNearest
        <5>2. j \in nearest => Dist(options, word, j) <= Dist(options, word, i)
          BY <2>9
        <5>3. Dist(options, word, j) = Dist(options, word, i) => j \in nearest
          BY <2>9, <4>2
        <5>. QED  BY <2>8, <5>1, <5>2, <5>3
      <4>4. nearest \subseteq N
        BY <2>9
      <4>5. CASE \A j \in N : Dist(options, word, j) = Dist(options, word, i) => j = i
        <5>1. nearest = {i}
          BY <4>2, <4>3, <4>4, <4>5
        <5>2. Cardinality(nearest) = 1 /\ (CHOOSE x \in nearest : TRUE) = i
          BY <5>1, FS_Singleton
        <5>3. st.found = options[i].name
          BY <4>1, <4>5 DEF IsNearest
        <5>. QED  BY <5>2, <5>3
      <4>6. CASE ~ \A j \in N : Dist(options, word, j) = Dist(options, word, i) => j = i
        <5>1. PICK j \in nearest : j # i
          BY <4>3, <4>6
        <5>2. Cardinality(nearest) # 1
          <6>1. \A x : nearest # {x}
            BY <4>2, <5>1
          <6>. QED  BY <2>10, <6>1, FS_Singleton
        <5>3. st.found = <<>>
          BY <4>1, <4>6 DEF IsNearest
        <5>. QED  BY <5>2, <5>3
      <4>. QED  BY <4>5, <4>6
    <3>. QED  BY <3>1, <3>2
  <2>12. Has(options, word, n) => st.found = word
    BY <2>3, <2>4 DEF Searched
  <2>13. O!OptionFound <=>
           O!OptionSearch(word) =
              IF word \in {options[i].name : i \in DOMAIN options} THEN word
              ELSE IF Cardinality(nearest) = 1 THEN options[CHOOSE i \in nearest : TRUE].name
              ELSE <<>>
    <3>1. O!Cardinality(nearest) = Cardinality(nearest)
      BY Zenon DEF O!Cardinality, Cardinality
    <3>. QED  BY <3>1, Zenon DEF O!OptionFound
  <2>. HIDE DEF nearest
  <2>. QED  BY <2>3, <2>7, <2>11, <2>12, <2>13
<1>. QED  BY <1>1, <1>2, <1>3, PTL DEF MCSpec

=============================================================================
