---------------------------- MODULE ServerProofs ----------------------------
(* The keyboard, the mouse, the sessions and the master of the server, for *)
(* any number of clients, names, keys and buttons.                         *)
EXTENDS Server, TLAPS

-----------------------------------------------------------------------------
(* What input.c remembers is what the X server holds, for every keyboard,  *)
(* every set of buttons and any order of presses, releases and resets.     *)

(* On a stable map a slot holds its key's one code or none.                *)
SlotsResolved ==
    StableMap => \A k \in Key : keys[k] \in Resolve[k] \cup {NoCode}

InputInv ==
    /\ InputTypeOK
    /\ LowButtonsTracked
    /\ SlotsResolved
    /\ KeysTracked

(* input_init leaves nothing pressed, in the table or in the X server.     *)
LEMMA InputInitInv == InputInit => InputInv
  BY InputAssumption
  DEF InputInit, InputInv, InputTypeOK, LowButtonsTracked, SlotsResolved,
      KeysTracked, TrackedKeys, AllKeysUp, MaskButton, LowButton

(* input_key with press: the code found joins the table and the X server.  *)
LEMMA KeyPressInv ==
  ASSUME NEW k \in Key, InputInv, KeyPress(k)
  PROVE  InputInv'
<1>1. PICK kc \in Resolve[k] :
        /\ keys' = [keys EXCEPT ![k] = kc]
        /\ xkeys' = xkeys \cup ({kc} \ {NoCode})
        /\ UNCHANGED <<button, xbuttons>>
  BY DEF KeyPress, Lookup
<1>2. kc \in KeyCode \cup {NoCode}
  BY InputAssumption
<1>3. InputTypeOK'
  BY <1>1, <1>2, InputAssumption DEF InputInv, InputTypeOK
<1>4. LowButtonsTracked'
  BY <1>1 DEF InputInv, LowButtonsTracked
<1>5. SlotsResolved'
  BY <1>1 DEF InputInv, InputTypeOK, SlotsResolved, StableMap
<1>6. KeysTracked'
  <2>. SUFFICES ASSUME StableMap PROVE xkeys' = TrackedKeys'
    BY DEF KeysTracked, StableMap
  <2>1. keys[k] \in {kc, NoCode}
    BY DEF InputInv, SlotsResolved, StableMap
  <2>2. xkeys = {keys[j] : j \in Key} \ {NoCode}
    BY DEF InputInv, KeysTracked, TrackedKeys
  <2>3. \A j \in Key : keys'[j] = IF j = k THEN kc ELSE keys[j]
    BY <1>1 DEF InputInv, InputTypeOK
  <2>4. TrackedKeys' = {keys'[j] : j \in Key} \ {NoCode}
    BY DEF TrackedKeys
  <2>. QED  BY <1>1, <2>1, <2>2, <2>3, <2>4
<1>. QED  BY <1>3, <1>4, <1>5, <1>6 DEF InputInv

(* input_key without press: on a stable map no other slot has the code, so *)
(* lifting it leaves the other slots' codes down.                          *)
LEMMA KeyReleaseInv ==
  ASSUME NEW k \in Key, InputInv, KeyRelease(k)
  PROVE  InputInv'
<1>1. InputTypeOK'
  BY DEF InputInv, InputTypeOK, KeyRelease
<1>2. LowButtonsTracked'
  BY DEF InputInv, LowButtonsTracked, KeyRelease
<1>3. SlotsResolved'
  BY DEF InputInv, InputTypeOK, SlotsResolved, StableMap, KeyRelease
<1>4. KeysTracked'
  <2>. SUFFICES ASSUME StableMap PROVE xkeys' = TrackedKeys'
    BY DEF KeysTracked, StableMap
  <2>1. \A j \in Key : keys'[j] = IF j = k THEN NoCode ELSE keys[j]
    BY DEF InputInv, InputTypeOK, KeyRelease
  <2>2. \A j \in Key \ {k} : keys[j] = keys[k] => keys[j] = NoCode
    BY DEF InputInv, SlotsResolved, StableMap
  <2>3. xkeys' = ({keys[j] : j \in Key} \ {NoCode}) \ {keys[k]}
    BY DEF InputInv, KeysTracked, TrackedKeys, KeyRelease
  <2>4. TrackedKeys' = {keys'[j] : j \in Key} \ {NoCode}
    BY DEF TrackedKeys
  <2>. QED  BY <2>1, <2>2, <2>3, <2>4
<1>. QED  BY <1>1, <1>2, <1>3, <1>4 DEF InputInv

(* input_button, also for numbers that do not fit in the mask.             *)
LEMMA ButtonInv ==
  ASSUME NEW b \in Button, InputInv, InputButton(b)
  PROVE  InputInv'
<1>. USE DEF InputInv, InputTypeOK, LowButtonsTracked, SlotsResolved,
             KeysTracked, TrackedKeys, StableMap
<1>1. CASE b \in MaskButton /\ ButtonPress(b)
  BY <1>1 DEF ButtonPress, MaskButton, LowButton
<1>2. CASE b \in MaskButton /\ ButtonRelease(b)
  BY <1>2 DEF ButtonRelease, MaskButton, LowButton
<1>3. CASE UNCHANGED inputVars
  BY <1>3 DEF inputVars
<1>. QED  BY <1>1, <1>2, <1>3 DEF InputButton

(* input_release lifts every key of the table and every low button.        *)
LEMMA ReleaseInv ==
  ASSUME InputInv, InputRelease
  PROVE  /\ InputInv'
         /\ ~NeedRelease'
<1>1. TrackedKeys' = {}
  BY DEF InputRelease, TrackedKeys, AllKeysUp
<1>2. InputTypeOK'
  BY DEF InputInv, InputTypeOK, InputRelease, AllKeysUp
<1>3. LowButtonsTracked'
  BY DEF InputInv, LowButtonsTracked, InputRelease
<1>4. SlotsResolved'
  BY DEF SlotsResolved, StableMap, InputRelease, AllKeysUp
<1>5. KeysTracked'
  BY <1>1 DEF InputInv, KeysTracked, InputRelease, StableMap
<1>6. ~NeedRelease'
  BY <1>1 DEF NeedRelease, InputRelease
<1>. QED  BY <1>2, <1>3, <1>4, <1>5, <1>6 DEF InputInv

(* One step of the input module keeps its invariant.                       *)
LEMMA InputStepInv == InputInv /\ [InputNext]_inputVars => InputInv'
<1>. SUFFICES ASSUME InputInv, [InputNext]_inputVars PROVE InputInv'
  OBVIOUS
<1>1. CASE UNCHANGED inputVars
  BY <1>1 DEF inputVars, InputInv, InputTypeOK, LowButtonsTracked,
              SlotsResolved, KeysTracked, TrackedKeys, StableMap
<1>2. ASSUME NEW k \in Key, InputKey(k) PROVE InputInv'
  BY <1>1, <1>2, KeyPressInv, KeyReleaseInv DEF InputKey
<1>3. ASSUME NEW b \in Button, InputButton(b) PROVE InputInv'
  BY <1>3, ButtonInv
<1>4. CASE InputRelease
  BY <1>4, ReleaseInv
<1>. QED  BY <1>1, <1>2, <1>3, <1>4 DEF InputNext

(* The tables of input.c and the X server agree on keys (on a stable map)  *)
(* and on the buttons below 8.                                             *)
THEOREM InputCorrect == InputSpec => [](LowButtonsTracked /\ KeysTracked)
<1>1. InputInv => LowButtonsTracked /\ KeysTracked
  BY DEF InputInv
<1>. QED  BY <1>1, InputInitInv, InputStepInv, PTL DEF InputSpec

(* input_need_release answering 0 means the X server holds nothing.        *)
LEMMA InvClean == InputInv => NoNeedMeansClean
  BY DEF InputInv, LowButtonsTracked, KeysTracked, NoNeedMeansClean,
         NeedRelease

(* The same for the whole module.                                          *)
THEOREM InputClean == InputSpec => []NoNeedMeansClean
  BY InvClean, InputInitInv, InputStepInv, PTL DEF InputSpec

-----------------------------------------------------------------------------
(* Types.                                                                  *)

(* Every step of the server uses the keyboard and the mouse only through   *)
(* the functions of input.c.                                               *)
LEMMA MasterStopInput ==
  ASSUME NEW cs, MasterStop(cs)
  PROVE  [InputNext]_inputVars
  BY DEF MasterStop, InputNext, inputVars

LEMMA ServerInput == [Next]_vars => [InputNext]_inputVars
<1>. SUFFICES ASSUME [Next]_vars PROVE [InputNext]_inputVars
  OBVIOUS
<1>. USE DEF vars
<1>1. CASE UNCHANGED vars
  BY <1>1
<1>2. CASE \E c \in Client : Accept(c) \/ Start(c) \/ HonourClose(c)
                \/ PeerStop(c) \/ AccessRequest(c) \/ Pointer(c)
                \/ Quality(c) \/ Resize(c) \/ ControlAcl(c) \/ ControlClose(c)
                \/ SendAccess(c) \/ SendMaster(c)
  BY <1>2 DEF Accept, Start, HonourClose, PeerStop, AccessRequest, Pointer,
              Quality, Resize, Setting, ControlAcl, ControlClose, SendAccess,
              SendMaster
<1>3. CASE \E c \in Client : ClientClose(c) \/ Finish(c) \/ ClientQuits(c)
  BY <1>3, MasterStopInput DEF ClientClose, Finish, ClientQuits
<1>4. ASSUME NEW c \in Client, NEW n, NEW l, NEW m, ClientAuth(c, n, l, m)
      PROVE  [InputNext]_inputVars
  BY <1>4, MasterStopInput DEF ClientAuth, ClientAccess
<1>5. CASE \E c \in Client : AuthSsl(c) \/ AuthPam(c) \/ AuthGss(c)
  BY <1>4, <1>5 DEF AuthSsl, AuthPam, AuthGss
<1>6. CASE \E c \in Client : PushButton(c) \/ TypeKey(c) \/ Reset(c)
  BY <1>6 DEF PushButton, TypeKey, Reset, InputNext
<1>7. CASE \E c \in Client : ControlUser(c)
  BY <1>7, MasterStopInput DEF ControlUser
<1>8. CASE Inactivity \/ MasterIdle \/ Exit
  BY <1>8 DEF Inactivity, MasterIdle, Exit, InputNext
<1>. QED
  BY <1>1, <1>2, <1>3, <1>5, <1>6, <1>7, <1>8 DEF Next

(* The server does to the keyboard and the mouse what the input module     *)
(* allows, so what holds of every use of that module holds in the server.  *)
THEOREM ServerUsesInput == Spec => InputSpec
<1>1. Init => InputInit
  BY DEF Init
<1>. QED  BY <1>1, ServerInput, PTL DEF Spec, InputSpec

(* input.c's tables never disagree with the X server while the server runs.*)
THEOREM ServerInputCorrect == Spec => []InputInv
<1>1. Init => InputInv
  BY InputInitInv DEF Init
<1>. QED  BY <1>1, ServerInput, InputStepInv, PTL DEF Spec

-----------------------------------------------------------------------------
LEMMA LevelFacts == 0 \in Level /\ 1 \in Level /\ 2 \in Level
  BY DEF Level

LEMMA InputInvType == InputInv => InputTypeOK
  BY DEF InputInv

(* The typing of a call of client_access.                                  *)
LEMMA ClientAccessType ==
  ASSUME TypeOK, NEW c \in Client, NEW a \in Level, NEW names,
         ClientAccess(c, a, names)
  PROVE  /\ access' \in [Client -> Level]
         /\ toSend' \in [Client -> SUBSET {"access", "master"}]
         /\ armed' \in BOOLEAN
         /\ master' \in Client \cup {NoClient}
         /\ masterFresh' \in BOOLEAN
<1>1. access' \in [Client -> Level]
  BY DEF ClientAccess, TypeOK, Level
<1>2. toSend' \in [Client -> SUBSET {"access", "master"}]
  BY DEF ClientAccess, TypeOK
<1>3. armed' \in BOOLEAN
  BY ServerAssumption DEF ClientAccess, TypeOK
<1>4. /\ master' \in Client \cup {NoClient}
      /\ masterFresh' \in BOOLEAN
  BY DEF ClientAccess, MasterStop, masterVars, TypeOK
<1>. QED  BY <1>1, <1>2, <1>3, <1>4

LEMMA ClientAuthType ==
  ASSUME TypeOK, InputTypeOK', NEW c \in Client,
         NEW n \in Name \cup {NoName, EmptyName},
         NEW l \in Level, NEW m \in SUBSET Command, ClientAuth(c, n, l, m)
  PROVE  TypeOK'
<1>. DEFINE k == IF n \in Name THEN l ELSE 0
            a == IF k = 1 THEN acl[n] ELSE k
<1>1. a \in Level
  BY DEF TypeOK, Level
<1>2. ClientAccess(c, a, [name EXCEPT ![c] = n])
  BY DEF ClientAuth
<1>. HIDE DEF a
<1>3. /\ access' \in [Client -> Level]
      /\ toSend' \in [Client -> SUBSET {"access", "master"}]
      /\ armed' \in BOOLEAN
      /\ master' \in Client \cup {NoClient}
      /\ masterFresh' \in BOOLEAN
  BY <1>1, <1>2, ClientAccessType
<1>4. /\ name' \in [Client -> Name \cup {NoName, EmptyName}]
      /\ level' \in [Client -> Level]
      /\ mask' \in [Client -> SUBSET Command]
  BY DEF ClientAuth, TypeOK, Level, Command, FullCommand, BaseCommand
<1>. QED
  BY <1>3, <1>4 DEF ClientAuth, TypeOK, listVars

LEMMA BecomeMasterType ==
  ASSUME TypeOK, NEW c \in Client, BecomeMaster(c)
  PROVE  /\ toSend' \in [Client -> SUBSET {"access", "master"}]
         /\ master' \in Client \cup {NoClient}
         /\ masterFresh' \in BOOLEAN
  BY DEF BecomeMaster, TypeOK

LEMMA DriveType ==
  ASSUME TypeOK, InputTypeOK', NEW c \in Client, NEW command,
         Drive(c, command)
  PROVE  TypeOK'
  BY BecomeMasterType, ServerAssumption DEF Drive, TypeOK, listVars

(* Typing of the whole state, the keyboard's and the mouse's included.     *)
LEMMA TypeStep == TypeOK /\ InputInv /\ [Next]_vars => TypeOK'
<1>. SUFFICES ASSUME TypeOK, InputInv, [Next]_vars PROVE TypeOK'
  OBVIOUS
<1>1. InputTypeOK'
  BY ServerInput, InputStepInv, InputInvType DEF InputInv
<1>. USE DEF vars, listVars, clientVars, masterVars
<1>2. CASE UNCHANGED vars
  BY <1>1, <1>2 DEF TypeOK
<1>3. ASSUME NEW c \in Client, Accept(c) PROVE TypeOK'
  BY <1>1, <1>3 DEF Accept, TypeOK
<1>4. ASSUME NEW c \in Client, Start(c) PROVE TypeOK'
  BY <1>1, <1>4 DEF Start, TypeOK, Command
<1>5. ASSUME NEW c \in Client, ClientClose(c) PROVE TypeOK'
  BY <1>1, <1>5, LevelFacts DEF ClientClose, MasterStop, TypeOK
<1>6. ASSUME NEW c \in Client, HonourClose(c) \/ PeerStop(c) PROVE TypeOK'
  BY <1>1, <1>6 DEF HonourClose, PeerStop, TypeOK
<1>7. ASSUME NEW c \in Client, AuthSsl(c) PROVE TypeOK'
  <2>1. /\ Owner \in Name /\ 2 \in Level
        /\ name[c] \in Name \cup {NoName, EmptyName}
        /\ level[c] \in Level
        /\ mask[c] \ {"auth_ssl"} \in SUBSET Command
    BY ServerAssumption DEF TypeOK, Level
  <2>. QED  BY <1>1, <1>7, <2>1, ClientAuthType DEF AuthSsl
<1>8. ASSUME NEW c \in Client, AuthPam(c) PROVE TypeOK'
  <2>1. /\ \A n : PamLevel(n) \in Level
        /\ 1 \in Level
        /\ name[c] \in Name \cup {NoName, EmptyName}
        /\ level[c] \in Level
        /\ mask[c] \in SUBSET Command
    BY DEF TypeOK, Level, PamLevel
  <2>. QED  BY <1>1, <1>8, <2>1, ClientAuthType DEF AuthPam
<1>9. ASSUME NEW c \in Client, AuthGss(c) PROVE TypeOK'
  <2>1. /\ \A l \in GssLevel : l \in Level
        /\ 0 \in Level
        /\ name[c] \in Name \cup {NoName, EmptyName}
        /\ level[c] \in Level
        /\ mask[c] \in SUBSET Command
    BY ServerAssumption DEF TypeOK, Level
  <2>. QED  BY <1>1, <1>9, <2>1, ClientAuthType DEF AuthGss
<1>10. ASSUME NEW c \in Client, AccessRequest(c) PROVE TypeOK'
  BY <1>1, <1>10, BecomeMasterType
  DEF AccessRequest, TypeOK, Command
<1>11. ASSUME NEW c \in Client,
              Pointer(c) \/ PushButton(c) \/ TypeKey(c) \/ Reset(c)
       PROVE  TypeOK'
  BY <1>1, <1>11, DriveType DEF Pointer, PushButton, TypeKey, Reset
<1>12. ASSUME NEW c \in Client, Quality(c) \/ Resize(c) PROVE TypeOK'
  BY <1>1, <1>12, ServerAssumption DEF Quality, Resize, Setting, TypeOK
<1>13. ASSUME NEW c \in Client, ControlAcl(c) PROVE TypeOK'
  BY <1>1, <1>13 DEF ControlAcl, TypeOK
<1>14. ASSUME NEW c \in Client, ControlUser(c) PROVE TypeOK'
  <2>1. access' \in [Client -> Level]
    BY <1>14 DEF ControlUser, UserAccess, TypeOK, Level
  <2>2. toSend' \in [Client -> SUBSET {"access", "master"}]
    BY <1>14 DEF ControlUser, TypeOK
  <2>3. armed' \in BOOLEAN
    BY <1>14, ServerAssumption DEF ControlUser, TypeOK
  <2>4. /\ master' \in Client \cup {NoClient}
        /\ masterFresh' \in BOOLEAN
    BY <1>14 DEF ControlUser, MasterStop, TypeOK
  <2>. QED  BY <1>1, <1>14, <2>1, <2>2, <2>3, <2>4 DEF ControlUser, TypeOK
<1>15. ASSUME NEW c \in Client, ControlClose(c) PROVE TypeOK'
  BY <1>1, <1>15 DEF ControlClose, TypeOK
<1>16. ASSUME NEW c \in Client, SendAccess(c) PROVE TypeOK'
  BY <1>1, <1>16 DEF SendAccess, TypeOK
<1>17. ASSUME NEW c \in Client, SendMaster(c) PROVE TypeOK'
  BY <1>1, <1>17 DEF SendMaster, TypeOK
<1>18. CASE Inactivity
  BY <1>1, <1>18, LevelFacts DEF Inactivity, TypeOK
<1>19. CASE MasterIdle
  BY <1>1, <1>19 DEF MasterIdle, TypeOK
<1>20. CASE Exit
  BY <1>1, <1>20, LevelFacts DEF Exit, TypeOK
<1>. QED
  BY <1>2, <1>3, <1>4, <1>5, <1>6, <1>7, <1>8, <1>9, <1>10, <1>11, <1>12,
     <1>13, <1>14, <1>15, <1>16, <1>17, <1>18, <1>19, <1>20
  DEF Next, Finish, ClientQuits

LEMMA TypeInit == Init => TypeOK
  BY InputInitInv, InputInvType, LevelFacts DEF Init, TypeOK

(* Every variable keeps its type.                                          *)
THEOREM TypeCorrect == Spec => []TypeOK
  BY TypeInit, TypeStep, ServerInputCorrect, PTL DEF Spec

-----------------------------------------------------------------------------
(* The sessions.  MasksByLevel says how far a client has come from what it *)
(* may send: this is what makes an unproven client unable to drive, and    *)
(* authentication possible only while the level is 0.                      *)

MasksByLevel ==
    \A c \in Client :
        IF level[c] = 0 THEN mask[c] \subseteq AuthCommand
                        ELSE mask[c] \in {BaseCommand, FullCommand}

(* A record outside the list is zeroed, as client_accept allocates it.     *)
OutsideZeroed ==
    \A c \in Client \ clients :
        /\ level[c] = 0
        /\ access[c] = 0
        /\ toSend[c] = {}
        /\ told[c] = Nothing
        /\ toldMaster[c] = FALSE

SessionInv ==
    /\ MasksByLevel
    /\ OutsideZeroed
    /\ MasterConnected
    /\ HeldHasMaster
    /\ MasterNeverViewOnly
    /\ MasterAuthenticated
    /\ AccessInSync
    /\ MasterInSync

LEMMA CommandFacts ==
    /\ "access" \notin AuthCommand /\ "control" \notin AuthCommand
    /\ "auth_ssl" \notin FullCommand
    /\ "auth_pam" \notin FullCommand
    /\ "auth_gss" \notin FullCommand
    /\ BaseCommand \subseteq FullCommand
    /\ \A x \in FullCommand \ BaseCommand : x \notin AuthCommand
    /\ {"pointer", "button", "key"} \subseteq FullCommand \ BaseCommand
  BY DEF AuthCommand, BaseCommand, FullCommand

LEMMA SessionInit == Init => SessionInv
  BY ServerAssumption
  DEF Init, InputInit, SessionInv, MasksByLevel, OutsideZeroed,
      MasterConnected, HeldHasMaster, MasterNeverViewOnly,
      MasterAuthenticated, AccessInSync, MasterInSync, NeedRelease,
      TrackedKeys, AllKeysUp

(* While a client may authenticate it is nobody yet, and not the master.   *)
LEMMA AuthenticatingIsNobody ==
  ASSUME TypeOK, SessionInv, NEW c \in Client,
         mask[c] \cap AuthCommand # {}
  PROVE  level[c] = 0 /\ master # c
  BY ServerAssumption
  DEF SessionInv, MasksByLevel, MasterAuthenticated, AuthCommand,
      BaseCommand, FullCommand

(* Stopping the master releases what it holds; the others are not touched. *)
LEMMA MasterStopFacts ==
  ASSUME HeldHasMaster, NEW cs, MasterStop(cs), InputInv, NoClient \notin cs
  PROVE  /\ HeldHasMaster'
         /\ master' = IF master \in cs THEN NoClient ELSE master
<1>1. CASE master \in cs
  BY <1>1, ReleaseInv DEF MasterStop, HeldHasMaster
<1>2. CASE master \notin cs
  BY <1>2 DEF MasterStop, HeldHasMaster, NeedRelease, TrackedKeys, inputVars,
              masterVars
<1>. QED  BY <1>1, <1>2 DEF MasterStop

(* An authentication of c, whatever name and level it gives.               *)
LEMMA AuthSession ==
  ASSUME TypeOK, InputInv, SessionInv, NEW c \in clients,
         mask[c] \cap AuthCommand # {},
         NEW n \in Name \cup {NoName, EmptyName}, NEW l \in Level,
         NEW m \in SUBSET mask[c], ClientAuth(c, n, l, m)
  PROVE  SessionInv'
<1>. DEFINE k == IF n \in Name THEN l ELSE 0
            a == IF k = 1 THEN acl[n] ELSE k
            newName == [name EXCEPT ![c] = n]
            changed == access[c] # a
            others == IF changed THEN Namesakes(c, newName) ELSE {}
            stopped == IF changed /\ a # 2 THEN {c} ELSE {}
<1>1. level[c] = 0 /\ master # c /\ c \in Client
  BY AuthenticatingIsNobody DEF TypeOK
<1>2. k \in Level /\ a \in Level
  BY LevelFacts DEF TypeOK
<1>3. ClientAccess(c, a, newName)
  BY DEF ClientAuth
<1>4. others \subseteq clients \ {c}
  BY DEF Namesakes
<1>5. /\ access' = [d \in Client |-> IF d = c THEN a
                                     ELSE IF d \in others THEN 0
                                     ELSE access[d]]
      /\ toSend' = [d \in Client |->
                      toSend[d] \cup
                      (IF d \in others \cup {c} THEN {"access"} ELSE {})]
      /\ MasterStop(stopped)
  BY <1>1, <1>3 DEF ClientAccess, AccessNews, TypeOK
<1>6. /\ level' = [level EXCEPT ![c] = k]
      /\ mask' = [mask EXCEPT ![c] = IF k # 0 THEN BaseCommand ELSE m]
      /\ UNCHANGED <<clients, told, toldMaster>>
  BY DEF ClientAuth, listVars
<1>. HIDE DEF k, a, others, changed
<1>7. /\ HeldHasMaster'
      /\ master' = master
  BY <1>1, <1>5, MasterStopFacts, ServerAssumption DEF SessionInv
<1>8. MasksByLevel'
  BY <1>1, <1>6 DEF SessionInv, MasksByLevel, TypeOK
<1>9. OutsideZeroed'
  BY <1>1, <1>4, <1>5, <1>6 DEF SessionInv, OutsideZeroed, TypeOK
<1>10. MasterConnected'
  BY <1>6, <1>7 DEF SessionInv, MasterConnected
<1>11. MasterNeverViewOnly'
  BY <1>1, <1>5, <1>7 DEF SessionInv, MasterNeverViewOnly, TypeOK
<1>12. MasterAuthenticated'
  BY <1>1, <1>6, <1>7 DEF SessionInv, MasterAuthenticated, TypeOK
<1>13. AccessInSync'
  BY <1>1, <1>5, <1>6 DEF SessionInv, AccessInSync, TypeOK
<1>14. MasterInSync'
  BY <1>1, <1>5, <1>6, <1>7 DEF SessionInv, MasterInSync, TypeOK
<1>. QED
  BY <1>7, <1>8, <1>9, <1>10, <1>11, <1>12, <1>13, <1>14 DEF SessionInv

(* Taking the mastership, or using it again.                               *)
LEMMA BecomeMasterSession ==
  ASSUME TypeOK, SessionInv, NEW c \in clients, access[c] = 2,
         BecomeMaster(c), UNCHANGED <<clients, level, access, told, toldMaster>>,
         MasksByLevel', level[c] # 0, mask'[c] = FullCommand
  PROVE  SessionInv'
<1>. c \in Client /\ c # NoClient
  BY ServerAssumption DEF TypeOK
<1>1. master' = c
  BY DEF BecomeMaster
<1>2. OutsideZeroed'
  BY ServerAssumption
  DEF BecomeMaster, SessionInv, OutsideZeroed, MasterConnected, TypeOK
<1>3. /\ MasterConnected' /\ HeldHasMaster' /\ MasterNeverViewOnly'
      /\ MasterAuthenticated'
  BY <1>1 DEF MasterConnected, HeldHasMaster, MasterNeverViewOnly,
              MasterAuthenticated
<1>4. AccessInSync'
  BY DEF BecomeMaster, SessionInv, AccessInSync, TypeOK
<1>5. MasterInSync'
  BY DEF BecomeMaster, SessionInv, MasterInSync, TypeOK
<1>. QED  BY <1>2, <1>3, <1>4, <1>5 DEF SessionInv

LEMMA DriveSession ==
  ASSUME TypeOK, SessionInv, NEW c \in Client,
         NEW command \in {"pointer", "button", "key"}, Drive(c, command)
  PROVE  SessionInv'
<1>1. level[c] # 0 /\ mask[c] = FullCommand
  BY CommandFacts DEF SessionInv, MasksByLevel, Drive, Receives
<1>2. MasksByLevel'
  BY DEF Drive, SessionInv, MasksByLevel
<1>. QED
  BY <1>1, <1>2, BecomeMasterSession DEF Drive, Receives, MayDrive, listVars

(* client_close, in or out of turn.                                        *)
LEMMA CloseSession ==
  ASSUME TypeOK, InputInv, SessionInv, NEW c \in Client, ClientClose(c)
  PROVE  SessionInv'
<1>1. /\ HeldHasMaster'
      /\ master' = IF master = c THEN NoClient ELSE master
  BY MasterStopFacts, ServerAssumption DEF ClientClose, SessionInv
<1>2. MasksByLevel' /\ OutsideZeroed'
  BY DEF ClientClose, SessionInv, MasksByLevel, OutsideZeroed, TypeOK
<1>3. MasterConnected' /\ MasterNeverViewOnly' /\ MasterAuthenticated'
  BY <1>1 DEF ClientClose, SessionInv, MasterConnected, MasterNeverViewOnly,
              MasterAuthenticated, TypeOK
<1>4. AccessInSync' /\ MasterInSync'
  BY <1>1, ServerAssumption
  DEF ClientClose, SessionInv, AccessInSync, MasterInSync, TypeOK
<1>. QED  BY <1>1, <1>2, <1>3, <1>4 DEF SessionInv

(* The loop of client_control_user.  For access 1 the master, if it ends   *)
(* with that access, is the last of its name, and then it is at or after   *)
(* the first client that differed, so the loop stopped it.                 *)
LEMMA UserSession ==
  ASSUME TypeOK, InputInv, SessionInv, NEW c \in Client, ControlUser(c)
  PROVE  SessionInv'
<1>1. PICK n \in Name, a \in Level :
        /\ access' = UserAccess(n, a)
        /\ toSend' = [d \in Client |->
                        toSend[d]
                        \cup (IF d \in Named(n) THEN {"access"} ELSE {})
                        \cup (IF d \in UserStopped(n, a) /\ d = master
                              THEN {"master"} ELSE {})]
        /\ MasterStop(UserStopped(n, a))
  BY DEF ControlUser
<1>. DEFINE stopped == UserStopped(n, a)
<1>2. stopped \subseteq Named(n) /\ Named(n) \subseteq clients
  BY DEF UserStopped, Named, Differing, Level
<1>3. UNCHANGED <<clients, level, mask, told, toldMaster>>
  BY DEF ControlUser, listVars
<1>4. /\ HeldHasMaster'
      /\ master' = IF master \in stopped THEN NoClient ELSE master
  BY <1>1, <1>2, MasterStopFacts, ServerAssumption DEF SessionInv, TypeOK
<1>5. MasksByLevel' /\ MasterConnected' /\ MasterAuthenticated'
  BY <1>3, <1>4 DEF SessionInv, MasksByLevel, MasterConnected,
                    MasterAuthenticated
<1>6. OutsideZeroed'
  BY <1>1, <1>2, <1>3
  DEF SessionInv, OutsideZeroed, UserAccess, Named, TypeOK
<1>7. MasterNeverViewOnly'
  <2>. SUFFICES ASSUME master' # NoClient, access'[master'] = 1 PROVE FALSE
    BY DEF MasterNeverViewOnly
  <2>1. /\ master' = master /\ master \notin stopped /\ master \in Client
        /\ access[master] # 1
    BY <1>4 DEF SessionInv, MasterNeverViewOnly, TypeOK
  <2>2. /\ master \in Named(n) /\ Differing(n, a) # {}
        /\ Named(n) \ {master} \subseteq newer[master]
        /\ a = 1
    BY <1>1, <2>1 DEF UserAccess
  <2>3. ({master} \cup newer[master]) \cap Differing(n, a) # {}
    BY <2>2 DEF Differing
  <2>. QED  BY <2>1, <2>2, <2>3 DEF UserStopped
<1>8. AccessInSync'
  BY <1>1, <1>2, <1>3 DEF SessionInv, AccessInSync, UserAccess, TypeOK
<1>9. MasterInSync'
  BY <1>1, <1>2, <1>3, <1>4, ServerAssumption
  DEF SessionInv, MasterInSync, TypeOK
<1>. QED  BY <1>4, <1>5, <1>6, <1>7, <1>8, <1>9 DEF SessionInv

LEMMA SessionStep == TypeOK /\ InputInv /\ SessionInv /\ [Next]_vars => SessionInv'
<1>. SUFFICES ASSUME TypeOK, InputInv, SessionInv, [Next]_vars
              PROVE  SessionInv'
  OBVIOUS
<1>. DEFINE SameSession ==
        UNCHANGED <<inputVars, clients, level, access, mask, toSend, told,
                    toldMaster, master>>
<1>1. ASSUME SameSession PROVE SessionInv'
  BY <1>1
  DEF SessionInv, MasksByLevel, OutsideZeroed, MasterConnected, HeldHasMaster,
      MasterNeverViewOnly, MasterAuthenticated, AccessInSync, MasterInSync,
      NeedRelease, TrackedKeys, inputVars
<1>2. CASE UNCHANGED vars \/ MasterIdle
  BY <1>1, <1>2 DEF vars, listVars, clientVars, masterVars, MasterIdle
<1>3. ASSUME NEW c \in Client,
             HonourClose(c) \/ PeerStop(c) \/ Quality(c) \/ Resize(c)
             \/ ControlAcl(c) \/ ControlClose(c)
      PROVE  SessionInv'
  BY <1>1, <1>3
  DEF listVars, clientVars, masterVars, HonourClose, PeerStop, Quality,
      Resize, Setting, ControlAcl, ControlClose
<1>4. ASSUME NEW c \in Client, Accept(c) PROVE SessionInv'
  <2>1. /\ clients' = clients \cup {c}
        /\ UNCHANGED <<inputVars, level, access, mask, toSend, told,
                       toldMaster, master>>
    BY <1>4 DEF Accept, clientVars, masterVars
  <2>2. c \notin clients
    BY <1>4 DEF Accept
  <2>3. OutsideZeroed' /\ MasterConnected' /\ AccessInSync'
    BY <2>1, <2>2 DEF SessionInv, OutsideZeroed, MasterConnected, AccessInSync
  <2>4. MasterInSync'
    BY <2>1, <2>2, ServerAssumption
    DEF SessionInv, OutsideZeroed, MasterConnected, MasterInSync, TypeOK
  <2>. QED
    BY <2>1, <2>3, <2>4
    DEF SessionInv, MasksByLevel, HeldHasMaster, MasterNeverViewOnly,
        MasterAuthenticated, NeedRelease, TrackedKeys, inputVars
<1>5. ASSUME NEW c \in Client, Start(c) PROVE SessionInv'
  <2>1. /\ mask' = [mask EXCEPT ![c] = AuthCommand]
        /\ UNCHANGED <<inputVars, clients, level, access, toSend, told,
                       toldMaster, master>>
        /\ mask[c] = {}
    BY <1>5 DEF Start, listVars, masterVars
  <2>2. level[c] = 0
    BY <2>1 DEF SessionInv, MasksByLevel, BaseCommand, FullCommand
  <2>3. MasksByLevel' /\ MasterAuthenticated'
    BY <2>1, <2>2 DEF SessionInv, MasksByLevel, MasterAuthenticated, TypeOK
  <2>. QED
    BY <2>1, <2>3
    DEF SessionInv, OutsideZeroed, MasterConnected, HeldHasMaster,
        MasterNeverViewOnly, AccessInSync, MasterInSync, NeedRelease,
        TrackedKeys, inputVars
<1>6. ASSUME NEW c \in Client, ClientClose(c) PROVE SessionInv'
  BY <1>6, CloseSession
<1>7. ASSUME NEW c \in Client, AuthSsl(c) PROVE SessionInv'
  <2>1. c \in clients /\ mask[c] \cap AuthCommand # {}
    BY <1>7 DEF AuthSsl, Receives, AuthCommand
  <2>2. /\ Owner \in Name /\ 2 \in Level
        /\ name[c] \in Name \cup {NoName, EmptyName}
        /\ level[c] \in Level
    BY ServerAssumption, LevelFacts DEF TypeOK
  <2>. QED  BY <1>7, <2>1, <2>2, AuthSession DEF AuthSsl
<1>8. ASSUME NEW c \in Client, AuthPam(c) PROVE SessionInv'
  <2>1. c \in clients /\ mask[c] \cap AuthCommand # {}
    BY <1>8 DEF AuthPam, Receives, AuthCommand
  <2>2. /\ \A n : PamLevel(n) \in Level
        /\ 1 \in Level
        /\ name[c] \in Name \cup {NoName, EmptyName}
        /\ level[c] \in Level
    BY LevelFacts DEF TypeOK, PamLevel
  <2>. QED  BY <1>8, <2>1, <2>2, AuthSession DEF AuthPam
<1>9. ASSUME NEW c \in Client, AuthGss(c) PROVE SessionInv'
  <2>1. c \in clients /\ mask[c] \cap AuthCommand # {}
    BY <1>9 DEF AuthGss, Receives, AuthCommand
  <2>2. /\ \A l \in GssLevel : l \in Level
        /\ 0 \in Level
        /\ name[c] \in Name \cup {NoName, EmptyName}
        /\ level[c] \in Level
    BY ServerAssumption, LevelFacts DEF TypeOK, Level
  <2>. QED  BY <1>9, <2>1, <2>2, AuthSession DEF AuthGss
<1>10. ASSUME NEW c \in Client, AccessRequest(c) PROVE SessionInv'
  <2>1. /\ c \in clients /\ level[c] # 0
        /\ mask' = [mask EXCEPT ![c] = FullCommand]
        /\ UNCHANGED <<inputVars, clients, level, access, told, toldMaster>>
    BY <1>10, CommandFacts
    DEF AccessRequest, Receives, SessionInv, MasksByLevel, listVars
  <2>2. MasksByLevel'
    BY <2>1 DEF SessionInv, MasksByLevel, TypeOK
  <2>3. CASE MayDrive(c)
    <3>1. BecomeMaster(c) /\ access[c] = 2
      BY <1>10, <2>3 DEF AccessRequest, MayDrive
    <3>. QED  BY <2>1, <2>2, <3>1, BecomeMasterSession DEF TypeOK
  <2>4. CASE ~MayDrive(c)
    <3>1. UNCHANGED <<master, toSend>>
      BY <1>10, <2>4 DEF AccessRequest, masterVars
    <3>2. MasterAuthenticated'
      BY <2>1, <3>1 DEF SessionInv, MasterAuthenticated, TypeOK
    <3>. QED
      BY <2>1, <2>2, <3>1, <3>2
      DEF SessionInv, OutsideZeroed, MasterConnected, HeldHasMaster,
          MasterNeverViewOnly, AccessInSync, MasterInSync, NeedRelease,
          TrackedKeys, inputVars
  <2>. QED  BY <2>3, <2>4
<1>11. ASSUME NEW c \in Client,
              Pointer(c) \/ PushButton(c) \/ TypeKey(c) \/ Reset(c)
       PROVE  SessionInv'
  BY <1>11, DriveSession DEF Pointer, PushButton, TypeKey, Reset
<1>12. ASSUME NEW c \in Client, ControlUser(c) PROVE SessionInv'
  BY <1>12, UserSession
<1>13. ASSUME NEW c \in Client, SendAccess(c) PROVE SessionInv'
  <2>1. AccessInSync'
    BY <1>13 DEF SendAccess, listVars, SessionInv, AccessInSync, TypeOK
  <2>2. OutsideZeroed'
    BY <1>13 DEF SendAccess, listVars, SessionInv, OutsideZeroed, TypeOK
  <2>3. MasterInSync'
    BY <1>13 DEF SendAccess, listVars, masterVars, SessionInv, MasterInSync,
                 TypeOK
  <2>4. UNCHANGED <<inputVars, clients, level, access, mask, master>>
    BY <1>13 DEF SendAccess, listVars, masterVars
  <2>. QED
    BY <2>1, <2>2, <2>3, <2>4
    DEF SessionInv, MasksByLevel, MasterConnected, HeldHasMaster,
        MasterNeverViewOnly, MasterAuthenticated, NeedRelease, TrackedKeys,
        inputVars
<1>14. ASSUME NEW c \in Client, SendMaster(c) PROVE SessionInv'
  <2>1. AccessInSync'
    BY <1>14 DEF SendMaster, listVars, SessionInv, AccessInSync, TypeOK
  <2>2. OutsideZeroed'
    BY <1>14 DEF SendMaster, listVars, SessionInv, OutsideZeroed, TypeOK
  <2>3. MasterInSync'
    BY <1>14 DEF SendMaster, listVars, masterVars, SessionInv, MasterInSync,
                 TypeOK
  <2>4. UNCHANGED <<inputVars, clients, level, access, mask, master>>
    BY <1>14 DEF SendMaster, listVars, masterVars
  <2>. QED
    BY <2>1, <2>2, <2>3, <2>4
    DEF SessionInv, MasksByLevel, MasterConnected, HeldHasMaster,
        MasterNeverViewOnly, MasterAuthenticated, NeedRelease, TrackedKeys,
        inputVars
<1>15. CASE Inactivity
  <2>1. AccessInSync' /\ MasterInSync' /\ OutsideZeroed' /\ MasterNeverViewOnly'
    BY <1>15, ServerAssumption
    DEF Inactivity, listVars, masterVars, SessionInv, AccessInSync,
        MasterInSync, OutsideZeroed, MasterNeverViewOnly, MasterConnected,
        TypeOK
  <2>2. UNCHANGED <<inputVars, clients, level, mask, master>>
    BY <1>15 DEF Inactivity, listVars, masterVars
  <2>. QED
    BY <2>1, <2>2
    DEF SessionInv, MasksByLevel, MasterConnected, HeldHasMaster,
        MasterAuthenticated, NeedRelease, TrackedKeys, inputVars
<1>16. CASE Exit
  <2>1. HeldHasMaster'
    BY <1>16, ReleaseInv DEF Exit, HeldHasMaster
  <2>. QED
    BY <1>16, <2>1, ServerAssumption
    DEF Exit, SessionInv, MasksByLevel, OutsideZeroed, MasterConnected,
        MasterNeverViewOnly, MasterAuthenticated, AccessInSync, MasterInSync
<1>. QED
  BY <1>2, <1>3, <1>4, <1>5, <1>6, <1>7, <1>8, <1>9, <1>10, <1>11, <1>12,
     <1>13, <1>14, <1>15, <1>16
  DEF Next, Finish, ClientQuits

ServerInv == TypeOK /\ InputInv /\ SessionInv

LEMMA ServerInvariant == Spec => []ServerInv
<1>1. Init => ServerInv
  BY TypeInit, SessionInit, InputInitInv DEF Init, ServerInv
<1>2. ServerInv /\ [Next]_vars => ServerInv'
  BY TypeStep, SessionStep, ServerInput, InputStepInv DEF ServerInv
<1>. QED  BY <1>1, <1>2, PTL DEF Spec

(* The master is a client of the list, has proved who it is, and           *)
(* everything held down is its own.                                        *)
THEOREM MasterCorrect ==
    Spec => [](MasterConnected /\ MasterAuthenticated /\ HeldHasMaster)
<1>1. ServerInv => MasterConnected /\ MasterAuthenticated /\ HeldHasMaster
  BY DEF ServerInv, SessionInv
<1>. QED  BY <1>1, ServerInvariant, PTL

(* A client whose access is for viewing never drives: the master may drive *)
(* or has lost its access altogether since.                                *)
THEOREM ViewerNeverDrives == Spec => []MasterNeverViewOnly
<1>1. ServerInv => MasterNeverViewOnly
  BY DEF ServerInv, SessionInv
<1>. QED  BY <1>1, ServerInvariant, PTL

(* No client is left with an outdated word on its access or mastership.    *)
THEOREM ToldCorrect == Spec => []ToldInSync
<1>1. ServerInv => ToldInSync
  BY DEF ServerInv, SessionInv, ToldInSync
<1>. QED  BY <1>1, ServerInvariant, PTL

-----------------------------------------------------------------------------
(* Handing the keyboard and the mouse over.                                *)

(* Only client_master makes somebody else the master.                      *)
LEMMA OnlyDriversTake ==
  ASSUME [Next]_vars, master' \notin {master, NoClient}
  PROVE  \E c \in Client : MayDrive(c) /\ BecomeMaster(c)
<1>1. ASSUME NEW cs, MasterStop(cs) PROVE FALSE
  BY <1>1 DEF MasterStop, masterVars
<1>2. CASE UNCHANGED vars
  BY <1>2 DEF vars, masterVars
<1>3. CASE \E c \in Client : Accept(c) \/ Start(c) \/ HonourClose(c)
              \/ PeerStop(c) \/ Quality(c) \/ Resize(c) \/ ControlAcl(c)
              \/ ControlClose(c) \/ SendAccess(c) \/ SendMaster(c)
  BY <1>3 DEF masterVars, Accept, Start, HonourClose, PeerStop, Quality,
              Resize, Setting, ControlAcl, ControlClose, SendAccess,
              SendMaster
<1>4. CASE \E c \in Client : ClientClose(c) \/ Finish(c) \/ ClientQuits(c)
                             \/ ControlUser(c)
  BY <1>1, <1>4 DEF ClientClose, Finish, ClientQuits, ControlUser
<1>5. ASSUME NEW c \in Client, NEW n, NEW l, NEW m, ClientAuth(c, n, l, m)
      PROVE  FALSE
  BY <1>1, <1>5 DEF ClientAuth, ClientAccess
<1>6. CASE \E c \in Client : AuthSsl(c) \/ AuthPam(c) \/ AuthGss(c)
  BY <1>5, <1>6 DEF AuthSsl, AuthPam, AuthGss
<1>7. CASE \E c \in Client : AccessRequest(c) \/ Pointer(c) \/ PushButton(c)
                             \/ TypeKey(c) \/ Reset(c)
  BY <1>7 DEF AccessRequest, Pointer, PushButton, TypeKey, Reset, Drive,
              masterVars
<1>8. CASE Inactivity \/ MasterIdle \/ Exit
  BY <1>8 DEF Inactivity, MasterIdle, Exit, masterVars
<1>. QED
  BY <1>2, <1>3, <1>4, <1>6, <1>7, <1>8 DEF Next

LEMMA TakenClean ==
  ASSUME ServerInv, [Next]_vars, master' \notin {master, NoClient}
  PROVE  master' \in Client /\ ~NeedRelease
<1>1. PICK c \in Client : MayDrive(c) /\ BecomeMaster(c)
  BY OnlyDriversTake
<1>2. master' = c /\ (master = NoClient \/ ~NeedRelease)
  BY <1>1 DEF MayDrive, BecomeMaster
<1>. QED  BY <1>2 DEF ServerInv, SessionInv, HeldHasMaster

LEMMA ServerInvStep == ServerInv /\ [Next]_vars => ServerInv'
  BY TypeStep, SessionStep, ServerInput, InputStepInv DEF ServerInv

LEMMA HandoverStep ==
  ASSUME ServerInv, [Next]_vars, StableMap, master # NoClient,
         master' # master
  PROVE  IF master' = NoClient
         THEN xkeys' = {} /\ xbuttons' \cap LowButton = {}
         ELSE xkeys = {} /\ xbuttons \cap LowButton = {}
<1>1. CASE master' = NoClient
  <2>1. ServerInv'
    BY ServerInvStep
  <2>2. ~NeedRelease' /\ InputInv'
    BY <1>1, <2>1 DEF ServerInv, SessionInv, HeldHasMaster
  <2>3. LowButtonsTracked' /\ KeysTracked' /\ StableMap' /\ LowButton' = LowButton
    BY <2>2 DEF InputInv, StableMap, LowButton
  <2>. QED
    BY <1>1, <2>2, <2>3 DEF NeedRelease, LowButtonsTracked, KeysTracked
<1>2. CASE master' # NoClient
  <2>1. ~NeedRelease /\ InputInv
    BY <1>2, TakenClean DEF ServerInv
  <2>. QED  BY <1>2, <2>1, InvClean DEF NoNeedMeansClean
<1>. QED  BY <1>1, <1>2

(* A new master inherits no pressed key and no pressed low button.         *)
THEOREM HandoverCorrect == Spec => HandoverClean
<1>1. ServerInv /\ [Next]_vars =>
        [StableMap /\ master # NoClient /\ master' # master =>
           IF master' = NoClient
           THEN xkeys' = {} /\ xbuttons' \cap LowButton = {}
           ELSE xkeys = {} /\ xbuttons \cap LowButton = {}]_vars
  BY HandoverStep
<1>. QED  BY <1>1, ServerInvariant, PTL DEF Spec, HandoverClean

LEMMA SendMasterTells ==
  ASSUME ServerInv, [Next]_vars, NEW c \in Client,
         toldMaster'[c], ~toldMaster[c]
  PROVE  told[c] = <<level[c], access[c]>>
<1>1. CASE \E d \in Client : SendMaster(d)
  <2>1. PICK d \in Client : SendMaster(d)
    BY <1>1
  <2>2. d = c /\ master = c /\ toSend[c] = {"master"}
    BY <2>1 DEF SendMaster, ServerInv, TypeOK
  <2>3. level[c] # 0 /\ c \in clients
    BY <2>2, ServerAssumption
    DEF ServerInv, SessionInv, MasterAuthenticated, MasterConnected
  <2>. QED  BY <2>2, <2>3 DEF ServerInv, SessionInv, AccessInSync
<1>2. CASE \E d \in Client : ClientClose(d) \/ Finish(d) \/ ClientQuits(d)
  BY <1>2 DEF ClientClose, Finish, ClientQuits, ServerInv, TypeOK
<1>3. CASE Exit
  BY <1>3 DEF Exit
<1>4. CASE ~(\E d \in Client : SendMaster(d) \/ ClientClose(d) \/ Finish(d)
                               \/ ClientQuits(d)) /\ ~Exit
  <2>1. ASSUME NEW d \in Client, NEW n, NEW l, NEW m, ClientAuth(d, n, l, m)
        PROVE  toldMaster' = toldMaster
    BY <2>1 DEF ClientAuth
  <2>2. CASE \E d \in Client : AuthSsl(d) \/ AuthPam(d) \/ AuthGss(d)
    BY <2>1, <2>2 DEF AuthSsl, AuthPam, AuthGss
  <2>3. CASE \E d \in Client : Accept(d) \/ Start(d) \/ HonourClose(d)
                \/ PeerStop(d) \/ AccessRequest(d) \/ Quality(d) \/ Resize(d)
                \/ ControlAcl(d) \/ ControlUser(d) \/ ControlClose(d)
                \/ SendAccess(d)
    BY <2>3
    DEF clientVars, Accept, Start, HonourClose, PeerStop, AccessRequest,
        Quality, Resize, Setting, ControlAcl, ControlUser, ControlClose,
        SendAccess
  <2>4. CASE \E d \in Client : Pointer(d) \/ PushButton(d) \/ TypeKey(d)
                               \/ Reset(d)
    BY <2>4 DEF Pointer, PushButton, TypeKey, Reset, Drive
  <2>5. CASE Inactivity \/ MasterIdle \/ UNCHANGED vars
    BY <2>5 DEF Inactivity, MasterIdle, vars, clientVars
  <2>. QED  BY <1>4, <2>2, <2>3, <2>4, <2>5 DEF Next
<1>. QED  BY <1>1, <1>2, <1>3, <1>4

(* A client hears of its access before it hears it is the master.          *)
THEOREM ToldFirstCorrect == Spec => AccessToldFirst
<1>1. ServerInv /\ [Next]_vars =>
        [\A c \in Client :
           toldMaster'[c] /\ ~toldMaster[c]
             => told[c] = <<level[c], access[c]>>]_vars
  BY SendMasterTells
<1>. QED  BY <1>1, ServerInvariant, PTL DEF Spec, AccessToldFirst

(* The server implements the baton: every step takes it, uses it, gives it *)
(* up or leaves it alone.                                                  *)
LEMMA BatonInit == Init => B!Init
  BY DEF Init, InputInit, B!Init, NeedRelease, TrackedKeys, AllKeysUp

LEMMA BatonStep ==
  ServerInv /\ [Next]_vars => [B!Next]_<<master, NeedRelease>>
<1>. SUFFICES ASSUME ServerInv, [Next]_vars
              PROVE  [B!Next]_<<master, NeedRelease>>
  OBVIOUS
<1>1. ServerInv'
  BY ServerInvStep
<1>2. (NeedRelease => master # NoClient) /\ (NeedRelease' => master' # NoClient)
  BY <1>1 DEF ServerInv, SessionInv, HeldHasMaster
<1>3. NeedRelease' \in BOOLEAN /\ NeedRelease \in BOOLEAN
  BY DEF NeedRelease
<1>4. CASE master' = master /\ master = NoClient
  BY <1>2, <1>3, <1>4
<1>5. CASE master' = master /\ master # NoClient
  BY <1>3, <1>5 DEF B!Next, B!Use
<1>6. CASE master' # master /\ master' = NoClient
  BY <1>2, <1>3, <1>6 DEF B!Next, B!GiveUp
<1>7. CASE master' \notin {master, NoClient}
  <2>1. master' \in Client /\ ~NeedRelease
    BY <1>7, TakenClean
  <2>. QED  BY <1>3, <1>7, <2>1 DEF B!Next, B!Take
<1>. QED  BY <1>4, <1>5, <1>6, <1>7

THEOREM BatonCorrect == Spec => BatonSpec
<1>. QED
  BY BatonInit, BatonStep, ServerInvariant, PTL DEF Spec, BatonSpec, B!Spec

-----------------------------------------------------------------------------
(* One access per name.  The list order is antisymmetric, so that at most  *)
(* one client comes last in the loop of client_control_user; and who has   *)
(* no level has no name that could be given an access.                     *)

ListOrdered ==
    \A c, d \in Client :
        /\ newer[c] \subseteq clients
        /\ c \in newer[d] => d \notin newer[c]

NamedByLevel == \A c \in Client : level[c] # 0 => name[c] \in Name

NamelessHasNothing ==
    \A c \in Client : level[c] = 0 => name[c] \notin Name /\ access[c] = 0

NameInv ==
    /\ ListOrdered
    /\ NamedByLevel
    /\ 0 \notin GssLevel => NamelessHasNothing
    /\ OneAccessPerName

LEMMA NameInit == Init => NameInv
  BY ServerAssumption
  DEF Init, NameInv, ListOrdered, NamedByLevel, NamelessHasNothing,
      OneAccessPerName

(* An authentication that gives a name of Name with a level, or no name.   *)
LEMMA AuthName ==
  ASSUME ServerInv, NameInv, NEW c \in clients, mask[c] \cap AuthCommand # {},
         NEW n \in Name \cup {NoName, EmptyName}, NEW l \in Level,
         0 \notin GssLevel /\ n \in Name => l # 0,
         NEW m, ClientAuth(c, n, l, m)
  PROVE  NameInv'
<1>. DEFINE k == IF n \in Name THEN l ELSE 0
            a == IF k = 1 THEN acl[n] ELSE k
            newName == [name EXCEPT ![c] = n]
            changed == access[c] # a
            others == IF changed THEN Namesakes(c, newName) ELSE {}
<1>1. level[c] = 0 /\ c \in Client
  BY AuthenticatingIsNobody DEF ServerInv, TypeOK
<1>2. k = 0 => a = 0
  OBVIOUS
<1>3. access' = [d \in Client |-> IF d = c THEN a
                                  ELSE IF d \in others THEN 0 ELSE access[d]]
  BY DEF ClientAuth, ClientAccess
<1>4. /\ level' = [level EXCEPT ![c] = k]
      /\ name' = newName
      /\ UNCHANGED <<clients, newer>>
  BY DEF ClientAuth, listVars
<1>5. k # 0 => n \in Name
  OBVIOUS
<1>6. 0 \notin GssLevel /\ k = 0 => n \notin Name
  OBVIOUS
<1>7. others = {d \in clients \ {c} : /\ changed /\ newName[d] = n
                                      /\ n # NoName}
  BY <1>1 DEF Namesakes, ServerInv, TypeOK
<1>. HIDE DEF k, a, others
<1>8. ListOrdered'
  BY <1>4 DEF NameInv, ListOrdered
<1>9. NamedByLevel'
  BY <1>1, <1>4, <1>5 DEF NameInv, NamedByLevel, ServerInv, TypeOK
<1>10. 0 \notin GssLevel => NamelessHasNothing'
  BY <1>1, <1>2, <1>3, <1>4, <1>6
  DEF NameInv, NamelessHasNothing, ServerInv, TypeOK
<1>11. OneAccessPerName'
  <2>. SUFFICES ASSUME 0 \notin GssLevel, NEW d \in clients, NEW e \in clients,
                       d # e, name'[d] = name'[e], access'[d] # 0,
                       access'[e] # 0
                PROVE  FALSE
    BY <1>4 DEF OneAccessPerName
  <2>1. d \in Client /\ e \in Client
    BY DEF ServerInv, TypeOK
  <2>2. d # c /\ e # c => name[d] = name[e] /\ access[d] # 0 /\ access[e] # 0
    BY <1>3, <1>4, <2>1 DEF ServerInv, TypeOK
  <2>3. access[c] = 0
    BY <1>1 DEF NameInv, NamelessHasNothing
  <2>4. CASE d = c
    <3>1. changed /\ k # 0 /\ newName[e] = n
      BY <1>2, <1>3, <1>4, <2>1, <2>3, <2>4 DEF ServerInv, TypeOK
    <3>. QED
      BY <1>3, <1>5, <1>7, <2>1, <2>4, <3>1, ServerAssumption
  <2>5. CASE e = c
    <3>1. changed /\ k # 0 /\ newName[d] = n
      BY <1>2, <1>3, <1>4, <2>1, <2>3, <2>5 DEF ServerInv, TypeOK
    <3>. QED
      BY <1>3, <1>5, <1>7, <2>1, <2>5, <3>1, ServerAssumption
  <2>. QED  BY <2>2, <2>4, <2>5 DEF NameInv, OneAccessPerName
<1>. QED  BY <1>8, <1>9, <1>10, <1>11 DEF NameInv

(* Of the clients of one name at most one is the last in the list.         *)
LEMMA UserName ==
  ASSUME ServerInv, NameInv, NEW c \in Client, ControlUser(c)
  PROVE  NameInv'
<1>1. PICK n \in Name, a \in Level : access' = UserAccess(n, a)
  BY DEF ControlUser
<1>2. UNCHANGED <<clients, newer, name, level>>
  BY DEF ControlUser, listVars
<1>3. 0 \notin GssLevel => NamelessHasNothing'
  BY <1>1, <1>2
  DEF NameInv, NamelessHasNothing, UserAccess, Named, ServerInv, TypeOK
<1>4. OneAccessPerName'
  <2>. SUFFICES ASSUME 0 \notin GssLevel, NEW d \in clients, NEW e \in clients,
                       d # e, name[d] = name[e], access'[d] # 0,
                       access'[e] # 0
                PROVE  FALSE
    BY <1>2 DEF OneAccessPerName
  <2>1. d \in Client /\ e \in Client
    BY DEF ServerInv, TypeOK
  <2>2. CASE name[d] = n /\ Differing(n, a) # {}
    <3>1. d \in Named(n) /\ e \in Named(n)
      BY <2>2 DEF Named
    <3>2. Named(n) \ {d} \subseteq newer[d] /\ Named(n) \ {e} \subseteq newer[e]
      BY <1>1, <2>1, <2>2, <3>1 DEF UserAccess
    <3>. QED  BY <2>1, <3>1, <3>2 DEF NameInv, ListOrdered
  <2>3. CASE ~(name[d] = n /\ Differing(n, a) # {})
    BY <1>1, <2>1, <2>3 DEF UserAccess, Named, NameInv, OneAccessPerName
  <2>. QED  BY <2>2, <2>3
<1>. QED
  BY <1>2, <1>3, <1>4 DEF NameInv, ListOrdered, NamedByLevel

LEMMA NameStep == ServerInv /\ NameInv /\ [Next]_vars => NameInv'
<1>. SUFFICES ASSUME ServerInv, NameInv, [Next]_vars PROVE NameInv'
  OBVIOUS
<1>1. ASSUME UNCHANGED <<clients, newer, name, level, access>> PROVE NameInv'
  BY <1>1 DEF NameInv, ListOrdered, NamedByLevel, NamelessHasNothing,
              OneAccessPerName
<1>2. CASE UNCHANGED vars \/ MasterIdle
  BY <1>1, <1>2 DEF vars, listVars, clientVars, MasterIdle
<1>3. CASE \E c \in Client : Start(c) \/ HonourClose(c) \/ PeerStop(c)
              \/ AccessRequest(c) \/ Quality(c) \/ Resize(c) \/ ControlAcl(c)
              \/ ControlClose(c) \/ SendAccess(c) \/ SendMaster(c)
  BY <1>1, <1>3
  DEF listVars, clientVars, Start, HonourClose, PeerStop, AccessRequest,
      Quality, Resize, Setting, ControlAcl, ControlClose, SendAccess,
      SendMaster
<1>4. CASE \E c \in Client : Pointer(c) \/ PushButton(c) \/ TypeKey(c)
                             \/ Reset(c)
  BY <1>1, <1>4 DEF listVars, Pointer, PushButton, TypeKey, Reset, Drive
<1>5. ASSUME NEW c \in Client, Accept(c) PROVE NameInv'
  <2>1. /\ c \notin clients /\ clients' = clients \cup {c}
        /\ newer' = [d \in Client |->
                       IF d \in clients THEN newer[d] \cup {c} ELSE {}]
        /\ UNCHANGED <<name, level, access>>
    BY <1>5 DEF Accept, clientVars
  <2>2. ListOrdered'
    BY <2>1 DEF NameInv, ListOrdered
  <2>3. access[c] = 0
    BY <2>1 DEF ServerInv, SessionInv, OutsideZeroed
  <2>4. OneAccessPerName'
    BY <2>1, <2>3 DEF NameInv, OneAccessPerName
  <2>. QED
    BY <2>1, <2>2, <2>4 DEF NameInv, NamedByLevel, NamelessHasNothing
<1>6. ASSUME NEW c \in Client, ClientClose(c) PROVE NameInv'
  BY <1>6, ServerAssumption
  DEF ClientClose, NameInv, ListOrdered, NamedByLevel, NamelessHasNothing,
      OneAccessPerName, ServerInv, TypeOK
<1>7. ASSUME NEW c \in Client, AuthSsl(c) PROVE NameInv'
  <2>1. /\ c \in clients /\ mask[c] \cap AuthCommand # {}
        /\ name[c] \in Name \cup {NoName, EmptyName} /\ level[c] \in Level
        /\ Owner \in Name /\ 2 \in Level
    BY <1>7, ServerAssumption, LevelFacts
    DEF AuthSsl, Receives, AuthCommand, ServerInv, TypeOK
  <2>2. 0 \notin GssLevel /\ name[c] \in Name => level[c] # 0
    BY <1>7 DEF NameInv, NamelessHasNothing
  <2>. QED  BY <1>7, <2>1, <2>2, AuthName DEF AuthSsl
<1>8. ASSUME NEW c \in Client, AuthPam(c) PROVE NameInv'
  <2>1. /\ c \in clients /\ mask[c] \cap AuthCommand # {}
        /\ name[c] \in Name \cup {NoName, EmptyName} /\ level[c] \in Level
        /\ 1 \in Level
        /\ \A n : PamLevel(n) \in Level /\ PamLevel(n) # 0
    BY <1>8, LevelFacts
    DEF AuthPam, Receives, AuthCommand, ServerInv, TypeOK, PamLevel
  <2>2. EmptyName \notin Name /\ NoName \notin Name
    BY ServerAssumption
  <2>3. CASE \E n \in Name : ClientAuth(c, n, PamLevel(n), mask[c])
    BY <2>1, <2>3, AuthName
  <2>4. CASE ClientAuth(c, EmptyName, 1, mask[c])
    BY <2>1, <2>2, <2>4, AuthName
  <2>5. CASE ClientAuth(c, name[c], IF name[c] = NoName THEN level[c]
                                    ELSE PamLevel(name[c]), mask[c])
    BY <2>1, <2>2, <2>5, AuthName
  <2>. QED  BY <1>8, <2>3, <2>4, <2>5 DEF AuthPam
<1>9. ASSUME NEW c \in Client, AuthGss(c) PROVE NameInv'
  <2>1. /\ c \in clients /\ mask[c] \cap AuthCommand # {}
        /\ name[c] \in Name \cup {NoName, EmptyName} /\ level[c] \in Level
        /\ 0 \in Level /\ \A l \in GssLevel : l \in Level
        /\ EmptyName \notin Name
    BY <1>9, ServerAssumption, LevelFacts
    DEF AuthGss, Receives, AuthCommand, ServerInv, TypeOK, Level
  <2>2. 0 \notin GssLevel /\ name[c] \in Name => level[c] # 0
    BY <1>9 DEF NameInv, NamelessHasNothing
  <2>3. CASE \E n \in Name, l \in GssLevel : ClientAuth(c, n, l, mask[c])
    BY <2>1, <2>3, AuthName
  <2>4. CASE ClientAuth(c, EmptyName, 0, mask[c])
    BY <2>1, <2>4, AuthName
  <2>5. CASE ClientAuth(c, name[c], level[c], mask[c])
    BY <2>1, <2>2, <2>5, AuthName
  <2>. QED  BY <1>9, <2>3, <2>4, <2>5 DEF AuthGss
<1>10. ASSUME NEW c \in Client, ControlUser(c) PROVE NameInv'
  BY <1>10, UserName
<1>11. CASE Inactivity
  BY <1>11
  DEF Inactivity, listVars, NameInv, ListOrdered, NamedByLevel,
      NamelessHasNothing, OneAccessPerName, ServerInv, TypeOK
<1>12. CASE Exit
  BY <1>12, ServerAssumption
  DEF Exit, NameInv, ListOrdered, NamedByLevel, NamelessHasNothing,
      OneAccessPerName
<1>. QED
  BY <1>2, <1>3, <1>4, <1>5, <1>6, <1>7, <1>8, <1>9, <1>10, <1>11, <1>12
  DEF Next, Finish, ClientQuits

(* One user has at most one session with an access, provided that no       *)
(* authentication leaves a name without a level.                           *)
THEOREM OneAccessCorrect == Spec => []OneAccessPerName
<1>1. NameInv => OneAccessPerName
  BY DEF NameInv
<1>. QED  BY <1>1, NameInit, NameStep, ServerInvariant, PTL DEF Spec
=============================================================================
