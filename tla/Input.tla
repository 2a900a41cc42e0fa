------------------------------- MODULE Input -------------------------------
(***************************************************************************)
(* The keyboard and mouse side of the server: src/src/input.c.  The        *)
(* program keeps, for each key of the remote client, the X key code it     *)
(* pressed for it (global.keys), and a bit mask of pressed buttons         *)
(* (global.button).  The X server keeps which key codes and which buttons  *)
(* are down; it changes them when told by XTestFakeKeyEvent and            *)
(* XTestFakeButtonEvent.                                                   *)
(***************************************************************************)
EXTENDS Naturals

CONSTANTS
    Key,        \* the client's key numbers, indexes of global.keys
    KeyCode,    \* the key codes of the X server
    NoCode,     \* key code 0: the key is not pressed, or has no key code
    Resolve,    \* Resolve[k]: what input_search_key may answer for key k
    Button      \* the button numbers clients send

ASSUME InputAssumption ==
    /\ NoCode \notin KeyCode
    /\ Resolve \in [Key -> SUBSET (KeyCode \cup {NoCode})]
    /\ Button \subseteq Nat

VARIABLES
    keys,       \* global.keys[k].keycode
    button,     \* the bits set in global.button
    xkeys,      \* key codes down in the X server (external)
    xbuttons    \* buttons down in the X server (external)

inputVars == <<keys, button, xkeys, xbuttons>>

(* Buttons below 8 are the ones input_release and input_need_release see;  *)
(* buttons above 31 do not fit in the mask and are ignored.                *)
LowButton  == {b \in Button : b < 8}
MaskButton == {b \in Button : b <= 31}

InputTypeOK ==
    /\ keys \in [Key -> KeyCode \cup {NoCode}]
    /\ button \subseteq MaskButton
    /\ xkeys \subseteq KeyCode
    /\ xbuttons \subseteq MaskButton

AllKeysUp == [k \in Key |-> NoCode]

(* The key codes the table says are pressed.                               *)
TrackedKeys == {keys[k] : k \in Key} \ {NoCode}

(* input_init ends with input_release on a fresh table.                    *)
InputInit ==
    /\ keys = AllKeysUp
    /\ button = {}
    /\ xkeys = {}
    /\ xbuttons = {}

-----------------------------------------------------------------------------

(* input_search_key: the X keyboard map, which the lookup itself may edit,  *)
(* decides; see StableMap.                                                 *)
Lookup(k) == Resolve[k]

(* input_key with press: the key code found is stored, replacing the one   *)
(* stored before, and pressed unless it is 0.                              *)
KeyPress(k) ==
    \E kc \in Lookup(k) :
        /\ keys' = [keys EXCEPT ![k] = kc]
        /\ xkeys' = xkeys \cup ({kc} \ {NoCode})
        /\ UNCHANGED <<button, xbuttons>>

(* input_key without press.                                                *)
KeyRelease(k) ==
    /\ keys' = [keys EXCEPT ![k] = NoCode]
    /\ xkeys' = xkeys \ {keys[k]}
    /\ UNCHANGED <<button, xbuttons>>

(* input_button.                                                           *)
ButtonPress(b) ==
    /\ button' = button \cup {b}
    /\ xbuttons' = xbuttons \cup {b}
    /\ UNCHANGED <<keys, xkeys>>

ButtonRelease(b) ==
    /\ button' = button \ {b}
    /\ xbuttons' = xbuttons \ {b}
    /\ UNCHANGED <<keys, xkeys>>

(* One call of input_key or input_button.  A null keysym and the lock keys *)
(* return before the lookup; a button that does not fit is ignored.        *)
InputKey(k) == KeyPress(k) \/ KeyRelease(k) \/ UNCHANGED inputVars

InputButton(b) ==
    IF b \in MaskButton THEN ButtonPress(b) \/ ButtonRelease(b)
                        ELSE UNCHANGED inputVars

(* input_release: every stored key code is released, and the pressed       *)
(* buttons below 8; then the whole mask is cleared.                        *)
InputRelease ==
    /\ keys' = AllKeysUp
    /\ xkeys' = xkeys \ TrackedKeys
    /\ button' = {}
    /\ xbuttons' = xbuttons \ (button \cap LowButton)

(* Variants named Bad... are slips the properties must notice.             *)
BadNeedRelease == TrackedKeys # {} \/ \E b \in button : b < 7

(* input_need_release.                                                     *)
NeedRelease == TrackedKeys # {} \/ button \cap LowButton # {}

InputNext ==
    \/ \E k \in Key : InputKey(k)
    \/ \E b \in Button : InputButton(b)
    \/ InputRelease

InputSpec == InputInit /\ [][InputNext]_inputVars

-----------------------------------------------------------------------------

(* Keys whose lookup always gives the same code, and a code of their own:  *)
(* the keyboard map is not edited under the client.                        *)
StableMap ==
    /\ \A k \in Key : \A a, b \in Resolve[k] : a = b
    /\ \A j, k \in Key : j # k => Resolve[j] \cap Resolve[k] \subseteq {NoCode}

(* What input.c remembers is what the X server holds, for the buttons that *)
(* input_need_release looks at: no order of presses, releases and resets   *)
(* makes the mask and the X server differ on them.                         *)
LowButtonsTracked == xbuttons \cap LowButton = button \cap LowButton

(* The same for the keys: on a stable keyboard map every key code that is  *)
(* down in the X server is one global.keys remembers, so that              *)
(* input_release can lift it.  Without StableMap pressing a key twice with *)
(* two codes (the second lookup after the map changed) forgets the first.  *)
KeysTracked == StableMap => xkeys = TrackedKeys

(* input_need_release answers for the X server: when it returns 0 nothing  *)
(* below button 8 and no key is down, so a new client starts clean.        *)
NoNeedMeansClean ==
    StableMap /\ ~NeedRelease => xkeys = {} /\ xbuttons \cap LowButton = {}

(* client.c:565 sends key 0, for which server.c calls input_release, with  *)
(* the comment "reset inputs": after it nothing is down.                   *)
ResetInputs == [][InputRelease => xkeys' = {} /\ xbuttons' = {}]_inputVars
=============================================================================
