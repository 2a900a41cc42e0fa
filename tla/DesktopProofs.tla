---------------------------- MODULE DesktopProofs ----------------------------
(* What two desktops share besides the picture: the keyboard, the pointer  *)
(* and the clipboard, for any number of keys, positions and texts and for  *)
(* any delay on either side.                                               *)
EXTENDS MCDesktop, FiniteSetTheorems, SequenceTheorems, WellFoundedInduction, TLAPS

-----------------------------------------------------------------------------
(* The keyboard.                                                           *)

AnyKey == Key \cup {Lock}
KeyMessage == [kind : {"press", "release"}, key : AnyKey]
Typed == KeyMessage \cup [kind : {"focus"}]
Sent == KeyMessage \cup [kind : {"reset"}]

KeyboardType ==
    /\ typed \in Seq(Typed) /\ keys \in Seq(Sent)
    /\ focus \in BOOLEAN /\ grab \in BOOLEAN

(* What a message or an event does to a key.                               *)
IsPress(m, k) == m.kind = "press" /\ m.key = k
Ends(m, k) == m.kind \in {"focus", "reset"} \/ (m.kind = "release" /\ m.key = k)

(* The key is pressed and not ended after; nothing ends it.                *)
LastPress(s, k) ==
    \E i \in 1 .. Len(s) : IsPress(s[i], k) /\ \A j \in 1 .. Len(s) : j > i => ~Ends(s[j], k)
NoEnd(s, k) == \A j \in 1 .. Len(s) : ~Ends(s[j], k)

LEMMA LastAppend ==
    ASSUME NEW T, NEW s \in Seq(T), NEW m \in T, NEW k
    PROVE  /\ NoEnd(Append(s, m), k) <=> NoEnd(s, k) /\ ~Ends(m, k)
           /\ LastPress(Append(s, m), k) <=> IsPress(m, k) \/ (LastPress(s, k) /\ ~Ends(m, k))
<1>. DEFINE n == Len(s)
            t == Append(s, m)
<1>1. /\ n \in Nat /\ Len(t) = n + 1 /\ t[n + 1] = m
      /\ \A i \in 1 .. n : t[i] = s[i]
  OBVIOUS
<1>. HIDE DEF n, t
<1>2. /\ \A j \in 1 .. n + 1 : j \in 1 .. n \/ j = n + 1
      /\ \A j \in 1 .. n : j \in 1 .. n + 1 /\ n + 1 > j
      /\ n + 1 \in 1 .. n + 1
  BY <1>1
<1>3. NoEnd(t, k) <=> NoEnd(s, k) /\ ~Ends(m, k)
  BY <1>1, <1>2 DEF NoEnd, n
<1>4. IsPress(m, k) => ~Ends(m, k)
  BY DEF IsPress, Ends
<1>5. ASSUME LastPress(t, k) PROVE IsPress(m, k) \/ (LastPress(s, k) /\ ~Ends(m, k))
  <2>1. PICK i \in 1 .. n + 1 :
            IsPress(t[i], k) /\ \A j \in 1 .. n + 1 : j > i => ~Ends(t[j], k)
    BY <1>1, <1>5 DEF LastPress
  <2>2. CASE i = n + 1
    BY <1>1, <2>1, <2>2
  <2>3. CASE i \in 1 .. n
    <3>1. IsPress(s[i], k) /\ \A j \in 1 .. n : j > i => ~Ends(s[j], k)
      BY <1>1, <1>2, <2>1, <2>3
    <3>2. ~Ends(m, k)
      BY <1>1, <1>2, <2>1, <2>3
    <3>. QED  BY <2>3, <3>1, <3>2 DEF LastPress, n
  <2>. QED  BY <1>2, <2>2, <2>3
<1>6. ASSUME IsPress(m, k) PROVE LastPress(t, k)
  <2>1. \A j \in 1 .. n + 1 : ~(j > n + 1)
    BY <1>1
  <2>. QED  BY <1>1, <1>2, <1>6, <2>1 DEF LastPress
<1>7. ASSUME LastPress(s, k), ~Ends(m, k) PROVE LastPress(t, k)
  <2>1. PICK i \in 1 .. n : IsPress(s[i], k) /\ \A j \in 1 .. n : j > i => ~Ends(s[j], k)
    BY <1>7 DEF LastPress, n
  <2>2. \A j \in 1 .. n + 1 : j > i => ~Ends(t[j], k)
    BY <1>1, <1>2, <1>7, <2>1
  <2>. QED  BY <1>1, <1>2, <2>1, <2>2 DEF LastPress
<1>. QED  BY <1>3, <1>5, <1>6, <1>7 DEF t

LEMMA LastTail ==
    ASSUME NEW T, NEW s \in Seq(T), s # <<>>, NEW k
    PROVE  /\ NoEnd(s, k) <=> ~Ends(Head(s), k) /\ NoEnd(Tail(s), k)
           /\ LastPress(s, k) <=> \/ LastPress(Tail(s), k)
                                  \/ IsPress(Head(s), k) /\ NoEnd(Tail(s), k)
<1>. DEFINE n == Len(s)
            t == Tail(s)
<1>1. /\ n \in Nat \ {0} /\ Len(t) = n - 1 /\ Head(s) = s[1]
      /\ \A i \in 1 .. n - 1 : t[i] = s[i + 1]
  BY HeadTailProperties, EmptySeq
<1>. HIDE DEF n, t
<1>2. /\ \A j \in 1 .. n - 1 : j + 1 \in 1 .. n
      /\ \A j \in 1 .. n : j = 1 \/ (j - 1 \in 1 .. n - 1 /\ (j - 1) + 1 = j)
      /\ 1 \in 1 .. n
  BY <1>1
<1>3. \A j \in 1 .. n : j # 1 => t[j - 1] = s[j]
  BY <1>1, <1>2
<1>4. NoEnd(s, k) <=> ~Ends(s[1], k) /\ NoEnd(t, k)
  <2>1. NoEnd(s, k) => ~Ends(s[1], k) /\ NoEnd(t, k)
    BY <1>1, <1>2 DEF NoEnd, n
  <2>2. ASSUME ~Ends(s[1], k), NoEnd(t, k), NEW j \in 1 .. n PROVE ~Ends(s[j], k)
    BY <1>1, <1>2, <1>3, <2>2 DEF NoEnd
  <2>. QED  BY <2>1, <2>2 DEF NoEnd, n
<1>5. ASSUME LastPress(s, k) PROVE LastPress(t, k) \/ (IsPress(s[1], k) /\ NoEnd(t, k))
  <2>1. PICK i \in 1 .. n : IsPress(s[i], k) /\ \A j \in 1 .. n : j > i => ~Ends(s[j], k)
    BY <1>5 DEF LastPress, n
  <2>2. CASE i = 1
    <3>1. \A j \in 1 .. n - 1 : j + 1 > 1
      BY <1>1
    <3>2. NoEnd(t, k)
      BY <1>1, <1>2, <2>1, <2>2, <3>1 DEF NoEnd
    <3>. QED  BY <2>1, <2>2, <3>2
  <2>3. CASE i # 1
    <3>1. i - 1 \in 1 .. n - 1 /\ IsPress(t[i - 1], k)
      BY <1>2, <1>3, <2>1, <2>3
    <3>2. ASSUME NEW j \in 1 .. n - 1, j > i - 1 PROVE ~Ends(t[j], k)
      <4>1. j + 1 > i
        BY <1>1, <3>2
      <4>. QED  BY <1>1, <1>2, <2>1, <4>1
    <3>. QED  BY <1>1, <3>1, <3>2 DEF LastPress
  <2>. QED  BY <2>2, <2>3
<1>6. ASSUME LastPress(t, k) PROVE LastPress(s, k)
  <2>1. PICK i \in 1 .. n - 1 :
            IsPress(t[i], k) /\ \A j \in 1 .. n - 1 : j > i => ~Ends(t[j], k)
    BY <1>1, <1>6 DEF LastPress
  <2>2. ASSUME NEW j \in 1 .. n, j > i + 1 PROVE ~Ends(s[j], k)
    <3>1. j # 1 /\ j - 1 > i
      BY <1>1, <2>2
    <3>. QED  BY <1>2, <1>3, <2>1, <3>1
  <2>. QED  BY <1>1, <1>2, <2>1, <2>2 DEF LastPress, n
<1>7. ASSUME IsPress(s[1], k), NoEnd(t, k) PROVE LastPress(s, k)
  <2>1. ASSUME NEW j \in 1 .. n, j > 1 PROVE ~Ends(s[j], k)
    <3>1. j - 1 \in 1 .. n - 1
      BY <1>1, <2>1
    <3>. QED  BY <1>1, <1>3, <1>7, <2>1, <3>1 DEF NoEnd
  <2>. QED  BY <1>2, <1>7, <2>1 DEF LastPress, n
<1>. QED  BY <1>1, <1>4, <1>5, <1>6, <1>7 DEF t

(* A key that is pressed at the server once it has all that was sent.      *)
Down(k) == LastPress(keys, k) \/ (NoEnd(keys, k) /\ k \in pressed)
Reach == focus \/ grab

(* What will be pressed at the server is held, and its release will be     *)
(* heard, or it was released under the lock.                               *)
Accounted(k) ==
    /\ LastPress(typed, k) => k \in held /\ Reach
    /\ NoEnd(typed, k) /\ Down(k) => k \in eaten \/ (k \in held /\ Reach)

KeyboardInv ==
    /\ KeyboardType
    /\ pressed \subseteq AnyKey /\ (~types => pressed = {})
    /\ ~Down(Lock)
    /\ \A k \in AnyKey : Accounted(k)

LEMMA KeyboardInit == K!Init => KeyboardInv
<1>. SUFFICES ASSUME K!Init PROVE KeyboardInv
  OBVIOUS
<1>1. KeyboardType
  <2>1. <<>> \in Seq(Typed) /\ <<>> \in Seq(Sent)
    OBVIOUS
  <2>2. typed = <<>> /\ keys = <<>> /\ focus = TRUE /\ grab = FALSE
    BY DEF K!Init
  <2>. QED  BY <2>1, <2>2 DEF KeyboardType
<1>2. \A k : ~LastPress(<<>>, k)
  BY DEF LastPress
<1>. QED  BY <1>1, <1>2 DEF K!Init, KeyboardInv, Down, Accounted

(* A grab that ends out of focus is told like a focus that is lost.        *)
LEMMA GrabTold ==
    ASSUME KeyboardType, NEW new \in BOOLEAN, NEW rest \in Seq(Typed),
           K!KeyGrab(new, rest), UNCHANGED focus
    PROVE  /\ grab' \in BOOLEAN
           /\ \/ typed' = rest /\ (Reach => Reach')
              \/ typed' = Append(rest, K!FocusEvent)
  BY DEF K!KeyGrab, Reach, KeyboardType

LEMMA FocusEnds ==
    K!FocusEvent \in Typed /\ \A k : Ends(K!FocusEvent, k) /\ ~IsPress(K!FocusEvent, k)
  BY DEF K!FocusEvent, Typed, Ends, IsPress

(* An event of the user and the X server.                                  *)
LEMMA UserStep ==
    ASSUME KeyboardInv, NEW m \in Typed, UNCHANGED <<grab, on, action, keys, types, pressed, eaten>>,
           typed' = IF m = K!FocusEvent \/ Reach THEN Append(typed, m) ELSE typed,
           focus' \in BOOLEAN, m # K!FocusEvent => focus' = focus,
           \A k \in AnyKey :
               IF IsPress(m, k) THEN k \in held' ELSE Ends(m, k) \/ (k \in held => k \in held'),
           \A k \in AnyKey : IsPress(m, k) => k \notin held
    PROVE  KeyboardInv'
<1>1. KeyboardType'
  BY DEF KeyboardInv, KeyboardType
<1>2. \A k : Down(k)' <=> Down(k)
  BY DEF Down
<1>3. ASSUME NEW k \in AnyKey PROVE Accounted(k)'
  <2>1. /\ NoEnd(Append(typed, m), k) <=> NoEnd(typed, k) /\ ~Ends(m, k)
        /\ LastPress(Append(typed, m), k) <=> IsPress(m, k) \/ (LastPress(typed, k) /\ ~Ends(m, k))
    BY LastAppend DEF KeyboardInv, KeyboardType
  <2>2. CASE m = K!FocusEvent
    BY <2>1, <2>2, FocusEnds DEF Accounted
  <2>3. CASE m # K!FocusEvent
    <3>1. Reach' <=> Reach
      BY <2>3 DEF Reach
    <3>2. Accounted(k)
      BY DEF KeyboardInv
    <3>3. CASE Reach
      <4>1. typed' = Append(typed, m)
        BY <3>3
      <4>. QED  BY <1>2, <2>1, <3>1, <3>2, <3>3, <4>1 DEF Accounted
    <3>4. CASE ~Reach
      <4>1. typed' = typed
        BY <2>3, <3>4
      <4>2. IsPress(m, k) => k \notin held
        OBVIOUS
      <4>. QED  BY <1>2, <3>1, <3>2, <3>4, <4>1 DEF Accounted
    <3>. QED  BY <3>3, <3>4
  <2>. QED  BY <2>2, <2>3
<1>. QED  BY <1>1, <1>2, <1>3 DEF KeyboardInv

(* The client handles the first event of its queue.                        *)
LEMMA HandledStep ==
    ASSUME KeyboardInv, typed # <<>>, UNCHANGED <<held, focus, types, pressed>>,
           KeyboardType',
           NEW rest, rest = Tail(typed),
           \/ typed' = rest /\ (Reach => Reach')
           \/ typed' = Append(rest, K!FocusEvent),
           \A k \in AnyKey : NoEnd(rest, k) /\ Down(k)' =>
               \/ k \in eaten'
               \/ IsPress(Head(typed), k)
               \/ NoEnd(typed, k) /\ Down(k) /\ (k \in eaten => k \in eaten'),
           ~Down(Lock)'
    PROVE  KeyboardInv'
<1>1. rest \in Seq(Typed)
  BY DEF KeyboardInv, KeyboardType
<1>2. ASSUME NEW k \in AnyKey PROVE Accounted(k)'
  <2>1. CASE typed' = Append(rest, K!FocusEvent)
    <3>1. ~NoEnd(typed', k) /\ ~LastPress(typed', k)
      BY <1>1, <2>1, FocusEnds, LastAppend
    <3>. QED  BY <3>1 DEF Accounted
  <2>2. CASE typed' = rest /\ (Reach => Reach')
    <3>1. LastPress(typed, k) <=> LastPress(rest, k) \/ (IsPress(Head(typed), k) /\ NoEnd(rest, k))
      BY LastTail DEF KeyboardInv, KeyboardType
    <3>2. Accounted(k)
      BY DEF KeyboardInv
    <3>. QED  BY <2>2, <3>1, <3>2 DEF Accounted
  <2>. QED  BY <2>1, <2>2
<1>. QED  BY <1>2 DEF KeyboardInv

LEMMA DisplayStep ==
    ASSUME KeyboardInv, K!DisplayEvent
    PROVE  KeyboardInv'
<1>. DEFINE e == Head(typed)
<1>1. PICK rest : rest = Tail(typed)
  OBVIOUS
<1>2. /\ typed # <<>> /\ UNCHANGED <<held, focus, types, pressed>>
      /\ \/ e.kind = "press" /\ K!KeyPress(e.key)
         \/ e.kind = "release" /\ K!KeyRelease(e.key)
         \/ e.kind = "focus" /\ K!Focus
  BY DEF K!DisplayEvent, K!keyboard, K!server
<1>3. e \in Typed /\ rest \in Seq(Typed)
  BY <1>1, <1>2 DEF KeyboardInv, KeyboardType
<1>4. /\ e.kind \in {"press", "release"} => e.key \in AnyKey
      /\ keys \in Seq(Sent) /\ focus \in BOOLEAN /\ grab \in BOOLEAN
  BY <1>3 DEF Typed, KeyMessage, KeyboardInv, KeyboardType
<1>. HIDE DEF e
<1>5. \A k \in AnyKey : NoEnd(typed, k) <=> ~Ends(e, k) /\ NoEnd(rest, k)
  BY <1>1, <1>2, LastTail DEF KeyboardInv, KeyboardType, e
<1>6. ASSUME NEW m \in Sent, keys' = Append(keys, m)
      PROVE  /\ keys' \in Seq(Sent)
             /\ \A k : Down(k)' <=> IsPress(m, k) \/ (Down(k) /\ ~Ends(m, k))
  <2>1. keys' \in Seq(Sent)
    BY <1>4, <1>6
  <2>2. ASSUME NEW k PROVE Down(k)' <=> IsPress(m, k) \/ (Down(k) /\ ~Ends(m, k))
    <3>1. /\ NoEnd(Append(keys, m), k) <=> NoEnd(keys, k) /\ ~Ends(m, k)
          /\ LastPress(Append(keys, m), k) <=> IsPress(m, k) \/ (LastPress(keys, k) /\ ~Ends(m, k))
      BY <1>4, LastAppend
    <3>. QED  BY <1>2, <1>6, <3>1 DEF Down
  <2>. QED  BY <2>1, <2>2
<1>7. ASSUME UNCHANGED keys PROVE \A k : Down(k)' <=> Down(k)
  BY <1>2, <1>7 DEF Down
<1>8. CASE e.kind = "press" /\ K!KeyPress(e.key)
  <2>1. /\ typed' = rest /\ grab' = grab
        /\ eaten' = IF e.key = Lock \/ on THEN eaten ELSE eaten \ {e.key}
        /\ \A k : ~Ends(e, k)
    BY <1>1, <1>8 DEF K!KeyPress, Ends
  <2>2. CASE e.key # Lock /\ ~on
    <3>. DEFINE m == [kind |-> "press", key |-> e.key]
    <3>1. m \in Sent /\ \A k : (IsPress(m, k) <=> k = e.key) /\ ~Ends(m, k)
      BY <1>4, <1>8 DEF Sent, KeyMessage, IsPress, Ends
    <3>2. keys' = Append(keys, m)
      BY <1>8, <2>2 DEF K!KeyPress, K!Sends
    <3>. HIDE DEF m
    <3>3. \A k : Down(k)' <=> k = e.key \/ Down(k)
      BY <1>6, <3>1, <3>2
    <3>4. \A k : IsPress(e, k) <=> k = e.key
      BY <1>8 DEF IsPress
    <3>5. KeyboardType' /\ (Reach => Reach')
      BY <1>2, <1>3, <1>4, <1>6, <2>1, <3>1, <3>2 DEF KeyboardType, Reach
    <3>6. ~Down(Lock)'
      BY <2>2, <3>3 DEF KeyboardInv
    <3>. QED  BY <1>1, <1>2, <1>5, <2>1, <2>2, <3>3, <3>4, <3>5, <3>6, HandledStep DEF e
  <2>3. CASE e.key = Lock \/ on
    <3>1. UNCHANGED keys
      BY <1>8, <2>3 DEF K!KeyPress
    <3>2. KeyboardType' /\ (Reach => Reach')
      BY <1>2, <1>3, <1>4, <2>1, <3>1 DEF KeyboardType, Reach
    <3>3. ~Down(Lock)'
      BY <1>7, <3>1 DEF KeyboardInv
    <3>. QED  BY <1>1, <1>2, <1>5, <1>7, <2>1, <2>3, <3>1, <3>2, <3>3, HandledStep
  <2>. QED  BY <2>2, <2>3
<1>9. CASE e.kind = "release" /\ K!KeyRelease(e.key)
  <2>0. \A k : Ends(e, k) <=> k = e.key
    BY <1>9 DEF Ends
  <2>1. CASE e.key = Lock
    <3>1. PICK new \in BOOLEAN : K!KeyGrab(new, rest) /\ UNCHANGED <<keys, eaten>>
      BY <1>1, <1>4, <1>9, <2>1 DEF K!KeyRelease
    <3>2. /\ grab' \in BOOLEAN
          /\ \/ typed' = rest /\ (Reach => Reach')
             \/ typed' = Append(rest, K!FocusEvent)
      BY <1>2, <1>3, <3>1, GrabTold DEF KeyboardInv
    <3>3. KeyboardType'
      BY <1>2, <1>3, <1>4, <3>1, <3>2, FocusEnds DEF KeyboardType
    <3>4. \A k : Down(k)' <=> Down(k)
      BY <1>7, <3>1
    <3>5. \A k \in AnyKey : Down(k)' => k # e.key /\ Down(k)
      BY <2>1, <3>4 DEF KeyboardInv
    <3>6. ~Down(Lock)'
      BY <3>4 DEF KeyboardInv
    <3>. QED  BY <1>1, <1>2, <1>5, <2>0, <3>1, <3>2, <3>3, <3>5, <3>6, HandledStep
  <2>2. CASE e.key # Lock /\ on
    <3>1. eaten' = eaten \cup {e.key} /\ typed' = rest /\ UNCHANGED <<grab, keys>>
      BY <1>1, <1>9, <2>2 DEF K!KeyRelease, K!client
    <3>2. KeyboardType' /\ (Reach => Reach')
      BY <1>2, <1>3, <1>4, <3>1 DEF KeyboardType, Reach
    <3>3. ~Down(Lock)'
      BY <1>7, <3>1 DEF KeyboardInv
    <3>. QED  BY <1>1, <1>2, <1>5, <1>7, <2>0, <3>1, <3>2, <3>3, HandledStep
  <2>3. CASE e.key # Lock /\ ~on
    <3>. DEFINE m == [kind |-> "release", key |-> e.key]
    <3>1. m \in Sent /\ \A k : (Ends(m, k) <=> k = e.key) /\ ~IsPress(m, k)
      BY <1>4, <1>9 DEF Sent, KeyMessage, IsPress, Ends
    <3>2. keys' = Append(keys, m) /\ typed' = rest /\ UNCHANGED <<grab, eaten>>
      BY <1>1, <1>9, <2>3 DEF K!KeyRelease, K!Sends, K!client
    <3>. HIDE DEF m
    <3>3. \A k : Down(k)' <=> k # e.key /\ Down(k)
      BY <1>6, <3>1, <3>2
    <3>4. KeyboardType' /\ (Reach => Reach')
      BY <1>2, <1>3, <1>4, <1>6, <3>1, <3>2 DEF KeyboardType, Reach
    <3>5. ~Down(Lock)'
      BY <3>3 DEF KeyboardInv
    <3>. QED  BY <1>1, <1>2, <1>5, <2>0, <3>2, <3>3, <3>4, <3>5, HandledStep
  <2>. QED  BY <2>1, <2>2, <2>3
<1>10. CASE e.kind = "focus" /\ K!Focus
  <2>. DEFINE m == [kind |-> "reset"]
  <2>1. m \in Sent /\ \A k : Ends(m, k) /\ ~IsPress(m, k)
    BY DEF Sent, IsPress, Ends
  <2>2. keys' = Append(keys, m) /\ typed' = rest /\ UNCHANGED grab
    BY <1>1, <1>10 DEF K!Focus, K!Sends, K!client
  <2>. HIDE DEF m
  <2>3. \A k : ~Down(k)'
    BY <1>6, <2>1, <2>2
  <2>4. KeyboardType' /\ (Reach => Reach')
    BY <1>2, <1>3, <1>4, <1>6, <2>1, <2>2 DEF KeyboardType, Reach
  <2>. QED  BY <1>1, <1>2, <2>2, <2>3, <2>4, HandledStep
<1>. QED  BY <1>2, <1>8, <1>9, <1>10

(* The server takes the first message: what is pressed once all are taken  *)
(* stays, or shrinks when it refuses it.                                   *)
LEMMA CommandStep ==
    ASSUME KeyboardInv, K!CommandKey
    PROVE  KeyboardInv'
<1>. DEFINE m == Head(keys)
<1>1. /\ keys # <<>> /\ keys' = Tail(keys)
      /\ \/ ~types /\ UNCHANGED <<types, pressed>>
         \/ /\ types' = TRUE
            /\ pressed' = IF m.kind = "press" THEN pressed \cup {m.key}
                          ELSE IF m.kind = "release" THEN pressed \ {m.key} ELSE {}
      /\ UNCHANGED <<held, focus, typed, grab, eaten>>
  BY DEF K!CommandKey, K!server, K!keyboard, K!client
<1>2. m \in Sent /\ keys' \in Seq(Sent)
  BY <1>1 DEF KeyboardInv, KeyboardType
<1>3. m.kind \in {"press", "release"} => m.key \in AnyKey
  BY <1>2 DEF Sent, KeyMessage
<1>4. ASSUME NEW k PROVE Down(k)' => Down(k)
  <2>1. /\ NoEnd(keys, k) <=> ~Ends(m, k) /\ NoEnd(keys', k)
        /\ LastPress(keys, k) <=> LastPress(keys', k) \/ (IsPress(m, k) /\ NoEnd(keys', k))
    BY <1>1, LastTail DEF KeyboardInv, KeyboardType
  <2>. HIDE DEF m
  <2>2. k \in pressed' => IsPress(m, k) \/ (k \in pressed /\ ~Ends(m, k))
    BY <1>1, <1>2 DEF KeyboardInv, IsPress, Ends, Sent, KeyMessage
  <2>. QED  BY <2>1, <2>2 DEF Down
<1>. HIDE DEF m
<1>5. KeyboardType'
  BY <1>1, <1>2 DEF KeyboardInv, KeyboardType
<1>6. pressed' \subseteq AnyKey /\ (~types' => pressed' = {})
  BY <1>1, <1>3 DEF KeyboardInv
<1>7. \A k \in AnyKey : Accounted(k)'
  BY <1>1, <1>4 DEF KeyboardInv, Accounted, Reach
<1>. QED  BY <1>4, <1>5, <1>6, <1>7 DEF KeyboardInv

LEMMA KeyboardStep ==
    ASSUME KeyboardInv, [K!Next]_keyboard
    PROVE  KeyboardInv'
<1>2. ASSUME NEW k \in AnyKey, K!Press(k) PROVE KeyboardInv'
  <2>. DEFINE m == [kind |-> "press", key |-> k]
  <2>1. /\ m \in Typed /\ m # K!FocusEvent
        /\ \A j : (IsPress(m, j) <=> j = k) /\ ~Ends(m, j)
    BY DEF Typed, KeyMessage, IsPress, Ends, K!FocusEvent
  <2>2. /\ k \notin held /\ held' = held \cup {k}
        /\ typed' = IF Reach THEN Append(typed, m) ELSE typed
        /\ UNCHANGED <<focus, grab, on, action, keys, types, pressed, eaten>>
    BY <1>2 DEF K!Press, K!Event, K!client, K!server, Reach
  <2>. HIDE DEF m
  <2>3. focus' \in BOOLEAN
    BY <2>2 DEF KeyboardInv, KeyboardType
  <2>. QED  BY <2>1, <2>2, <2>3, UserStep
<1>3. ASSUME NEW k \in AnyKey, K!Release(k) PROVE KeyboardInv'
  <2>. DEFINE m == [kind |-> "release", key |-> k]
  <2>1. /\ m \in Typed /\ m # K!FocusEvent
        /\ \A j : ~IsPress(m, j) /\ (Ends(m, j) <=> j = k)
    BY DEF Typed, KeyMessage, IsPress, Ends, K!FocusEvent
  <2>2. /\ held' = held \ {k}
        /\ typed' = IF Reach THEN Append(typed, m) ELSE typed
        /\ UNCHANGED <<focus, grab, on, action, keys, types, pressed, eaten>>
    BY <1>3 DEF K!Release, K!Event, K!client, K!server, Reach
  <2>. HIDE DEF m
  <2>3. focus' \in BOOLEAN
    BY <2>2 DEF KeyboardInv, KeyboardType
  <2>. QED  BY <2>1, <2>2, <2>3, UserStep
<1>4. CASE K!FocusChange
  <2>1. /\ typed' = Append(typed, K!FocusEvent) /\ focus' \in BOOLEAN
        /\ UNCHANGED <<held, grab, on, action, keys, types, pressed, eaten>>
    BY <1>4 DEF K!FocusChange, K!client, K!server, KeyboardInv, KeyboardType
  <2>2. K!FocusEvent \in Typed /\ \A k : ~IsPress(K!FocusEvent, k)
    BY FocusEnds
  <2>. QED  BY <2>1, <2>2, UserStep
<1>5. CASE K!Demoted
  <2>1. K!KeyGrab(FALSE, typed) /\ UNCHANGED <<held, focus, keys, types, pressed, eaten>>
    BY <1>5 DEF K!Demoted, K!keyboard, K!server
  <2>2. /\ grab' \in BOOLEAN
        /\ \/ typed' = typed /\ (Reach => Reach')
           \/ typed' = Append(typed, K!FocusEvent)
    BY <2>1, GrabTold DEF KeyboardInv, KeyboardType
  <2>3. typed \in Seq(Typed)
    BY DEF KeyboardInv, KeyboardType
  <2>4. KeyboardType'
    BY <2>1, <2>2, <2>3, FocusEnds DEF KeyboardInv, KeyboardType
  <2>5. \A k : Down(k)' <=> Down(k)
    BY <2>1 DEF Down
  <2>6. ASSUME NEW k \in AnyKey PROVE Accounted(k)'
    <3>1. Accounted(k)
      BY DEF KeyboardInv
    <3>2. CASE typed' = Append(typed, K!FocusEvent)
      <4>1. ~NoEnd(typed', k) /\ ~LastPress(typed', k)
        BY <2>3, <3>2, FocusEnds, LastAppend
      <4>. QED  BY <4>1 DEF Accounted
    <3>3. CASE typed' = typed /\ (Reach => Reach')
      BY <2>1, <2>5, <3>1, <3>3 DEF Accounted
    <3>. QED  BY <2>2, <3>2, <3>3
  <2>. QED  BY <2>1, <2>4, <2>5, <2>6 DEF KeyboardInv
<1>6. CASE K!Overtaken
  <2>1. types' = FALSE /\ pressed' = {} /\ UNCHANGED <<held, focus, typed, grab, keys, eaten>>
    BY <1>6 DEF K!Overtaken, K!keyboard, K!client
  <2>2. \A k : Down(k)' => Down(k)
    BY <2>1 DEF Down
  <2>3. KeyboardType'
    BY <2>1 DEF KeyboardInv, KeyboardType
  <2>4. \A k \in AnyKey : Accounted(k)'
    BY <2>1, <2>2 DEF KeyboardInv, Accounted, Reach
  <2>. QED  BY <2>1, <2>2, <2>3, <2>4 DEF KeyboardInv
<1>7. CASE UNCHANGED keyboard
  <2>1. UNCHANGED <<held, focus, typed, grab, keys, types, pressed, eaten>>
    BY <1>7 DEF keyboard
  <2>2. \A k : Down(k)' <=> Down(k)
    BY <2>1 DEF Down
  <2>3. KeyboardType'
    BY <2>1 DEF KeyboardInv, KeyboardType
  <2>4. \A k \in AnyKey : Accounted(k)'
    BY <2>1, <2>2 DEF KeyboardInv, Accounted, Reach
  <2>. QED  BY <2>1, <2>2, <2>3, <2>4 DEF KeyboardInv
<1>. QED  BY <1>2, <1>3, <1>4, <1>5, <1>6, <1>7, DisplayStep, CommandStep DEF K!Next, AnyKey

(* However the focus, the grab and the mastership come and go, and however *)
(* late the messages are, no key stays pressed at the server that the user *)
(* let go, but for those the lock took for the end of an order.            *)
THEOREM NothingStuckCorrect == MCSpec => []NothingStuck
<1>1. MCInit => KeyboardInv
  BY KeyboardInit DEF MCInit
<1>2. ASSUME KeyboardInv, [MCNext]_<<part, vars, pointer, clipboard, keyboard>>
      PROVE  KeyboardInv'
  <2>1. [K!Next]_keyboard
    BY <1>2 DEF MCNext, CursorNext, PointerNext, ClipboardNext, KeyboardNext
  <2>. QED  BY <1>2, <2>1, KeyboardStep
<1>3. KeyboardInv => NothingStuck
  <2>. SUFFICES ASSUME KeyboardInv, typed = <<>>, keys = <<>>, NEW k \in pressed
                PROVE  k \in held \cup eaten
    BY DEF NothingStuck, K!NothingStuck
  <2>1. k \in AnyKey /\ Accounted(k)
    BY DEF KeyboardInv
  <2>2. NoEnd(typed, k) /\ NoEnd(keys, k)
    BY DEF NoEnd
  <2>. QED  BY <2>1, <2>2 DEF Accounted, Down
<1>. QED  BY <1>1, <1>2, <1>3, PTL DEF MCSpec

-----------------------------------------------------------------------------
(* The pointer.                                                            *)

Report == [kind : {"pointer", "sync"}, x : Int]

PointerType ==
    /\ xpos \in Int /\ gpos \in Int /\ cpos \in Int /\ csx \in Int
    /\ sx \in Int /\ px \in Int /\ at \in Int /\ warp \in Int
    /\ down \in Seq(Int) /\ up \in Seq(Report)
    /\ moves \in Seq(Int \cup {Mark})
    /\ warped \in BOOLEAN

(* BlockedHasAnswer, case by case.                                         *)
OneAnswer ==
    /\ sx = 0 \/ warped => P!Marks = {}
    /\ sx = 0 => ~warped
    /\ sx # 0 /\ ~warped => \E i : P!Marks = {i}

PointerInv == PointerType /\ OneAnswer

LEMMA Positions ==
    /\ M \in Nat \ {0} /\ Width \in Nat \ {0} /\ Margin \in Nat /\ Mark \notin Int
    /\ \A x \in Int : /\ x % M \in Int /\ P!Signed(x) \in Int
                      /\ P!Clamp(x) \in Int /\ P!ClampAround(x) \in Int
    /\ P!Place \subseteq Int /\ P!Around \subseteq Int
<1>1. M \in Nat \ {0} /\ Width \in Nat \ {0} /\ Margin \in Nat /\ Mark \notin Int
  BY DesktopAssumption DEF P!PointerAssumption
<1>2. ASSUME NEW x \in Int PROVE x % M \in Int /\ P!Signed(x) \in Int
  BY <1>1 DEF P!Signed
<1>3. ASSUME NEW x \in Int PROVE P!Clamp(x) \in Int /\ P!ClampAround(x) \in Int
  BY <1>1 DEF P!Clamp, P!ClampAround
<1>4. P!Place \subseteq Int /\ P!Around \subseteq Int
  BY <1>1 DEF P!Place, P!Around
<1>. QED  BY <1>1, <1>2, <1>3, <1>4

(* What is added to the queue or taken from it, and the marks there.       *)
LEMMA MarksAppend ==
    ASSUME PointerType, NEW e \in Int \cup {Mark}, moves' = Append(moves, e)
    PROVE  /\ moves' \in Seq(Int \cup {Mark})
           /\ P!Marks' = IF e = Mark THEN P!Marks \cup {Len(moves) + 1} ELSE P!Marks
<1>1. /\ Len(moves) \in Nat /\ moves' \in Seq(Int \cup {Mark})
      /\ DOMAIN moves = 1 .. Len(moves) /\ DOMAIN moves' = 1 .. Len(moves) + 1
      /\ moves'[Len(moves) + 1] = e
      /\ \A i \in 1 .. Len(moves) : moves'[i] = moves[i]
  BY DEF PointerType
<1>. QED  BY <1>1 DEF P!Marks

LEMMA MarksTail ==
    ASSUME PointerType, moves # <<>>, moves' = Tail(moves)
    PROVE  /\ moves' \in Seq(Int \cup {Mark}) /\ Head(moves) \in Int \cup {Mark}
           /\ P!Marks' = {i - 1 : i \in P!Marks \ {1}}
           /\ 1 \in P!Marks <=> Head(moves) = Mark
           /\ P!Marks \subseteq Nat
<1>1. /\ Len(moves) \in Nat \ {0} /\ moves' \in Seq(Int \cup {Mark})
      /\ DOMAIN moves = 1 .. Len(moves) /\ DOMAIN moves' = 1 .. Len(moves) - 1
      /\ Head(moves) = moves[1] /\ Head(moves) \in Int \cup {Mark}
      /\ \A i \in 1 .. Len(moves) - 1 : moves'[i] = moves[i + 1]
  BY HeadTailProperties, EmptySeq DEF PointerType
<1>2. ASSUME NEW j \in P!Marks' PROVE j \in {i - 1 : i \in P!Marks \ {1}}
  <2>1. j \in 1 .. Len(moves) - 1 /\ moves[j + 1] = Mark
    BY <1>1 DEF P!Marks
  <2>2. j + 1 \in P!Marks \ {1} /\ (j + 1) - 1 = j
    BY <1>1, <2>1 DEF P!Marks
  <2>. QED  BY <2>2
<1>3. ASSUME NEW i \in P!Marks \ {1} PROVE i - 1 \in P!Marks'
  <2>1. i - 1 \in 1 .. Len(moves) - 1 /\ (i - 1) + 1 = i
    BY <1>1 DEF P!Marks
  <2>. QED  BY <1>1, <2>1 DEF P!Marks
<1>4. (1 \in P!Marks <=> Head(moves) = Mark) /\ P!Marks \subseteq Nat
  BY <1>1 DEF P!Marks
<1>. QED  BY <1>1, <1>2, <1>3, <1>4

LEMMA PointerInit ==
    ASSUME MCInit
    PROVE  PointerInv
<1>1. P!Init \/ Unmoved
  BY DEF MCInit
<1>2. /\ gpos = -1 /\ cpos = 0 /\ csx = 0 /\ sx = 0 /\ px = 0 /\ warp = 0
      /\ warped = FALSE /\ down = <<>> /\ up = <<>> /\ moves = <<>>
  BY <1>1 DEF P!Init, Unmoved
<1>3. xpos \in Int /\ at \in Int
  <2>1. CASE P!Init
    <3>1. xpos \in P!Place /\ at \in P!Place
      BY <2>1 DEF P!Init
    <3>2. P!Place \subseteq Int
      BY Positions
    <3>. QED  BY <3>1, <3>2, Zenon
  <2>2. CASE Unmoved
    BY <2>2 DEF Unmoved
  <2>. QED  BY <1>1, <2>1, <2>2
<1>4. <<>> \in Seq(Int) /\ <<>> \in Seq(Report) /\ <<>> \in Seq(Int \cup {Mark})
  OBVIOUS
<1>5. gpos \in Int /\ warped \in BOOLEAN
  <2>1. -1 \in Int /\ FALSE \in BOOLEAN
    OBVIOUS
  <2>. QED  BY <1>2, <2>1, Zenon
<1>6. PointerType
  BY <1>2, <1>3, <1>4, <1>5 DEF PointerType
<1>7. P!Marks = {}
  BY <1>2 DEF P!Marks
<1>8. OneAnswer
  BY <1>2, <1>7 DEF OneAnswer
<1>. QED  BY <1>6, <1>8 DEF PointerInv

(* The server's side: nothing the client answers for changes.              *)
LEMMA ServerPointerStep ==
    ASSUME PointerInv,
           \/ \E x \in P!Place : P!Jump(x) \/ P!OtherMoves(x)
           \/ P!OtherTypes \/ P!Types \/ P!RecvPointer \/ P!RecvAnswer
           \/ P!Grab \/ P!Begin \/ P!Write
    PROVE  PointerInv'
<1>1. UNCHANGED <<sx, px, warp, warped, at, moves>>
  BY DEF P!Jump, P!OtherMoves, P!OtherTypes, P!Types, P!RecvPointer, P!RecvAnswer,
         P!Grab, P!Begin, P!Write, P!client, P!screen
<1>2. OneAnswer'
  BY <1>1 DEF PointerInv, OneAnswer, P!Marks
<1>3. up # <<>> => Head(up) \in Report /\ Tail(up) \in Seq(Report) /\ Head(up).x \in Int
  <2>1. up # <<>> => Head(up) \in Report /\ Tail(up) \in Seq(Report)
    BY DEF PointerInv, PointerType
  <2>. QED  BY <2>1 DEF Report
<1>. USE <1>1 DEF PointerInv, PointerType
<1>4. CASE \E x \in P!Place : P!Jump(x) \/ P!OtherMoves(x)
  BY <1>2, <1>4, Positions DEF P!Jump, P!OtherMoves, P!asked
<1>5. CASE P!OtherTypes \/ P!Types \/ P!Begin
  BY <1>2, <1>5 DEF P!OtherTypes, P!Types, P!Begin, P!asked
<1>6. CASE P!RecvPointer
  <2>1. up # <<>> /\ up' = Tail(up) /\ csx' \in {csx, 0} /\ cpos' = Head(up).x
        /\ gpos' \in {gpos, Head(up).x} /\ UNCHANGED down
    BY <1>6 DEF P!RecvPointer, P!asked
  <2>2. xpos' \in Int
    <3>. DEFINE to == IF P!Relative THEN xpos + P!Signed(Head(up).x - P!Signed(cpos))
                      ELSE P!Signed(Head(up).x)
    <3>1. to \in Int
      <4>1. P!Signed(cpos) \in Int /\ P!Signed(Head(up).x) \in Int
        BY <1>3, <2>1, Positions
      <4>2. Head(up).x - P!Signed(cpos) \in Int
        BY <1>3, <2>1, <4>1
      <4>3. P!Signed(Head(up).x - P!Signed(cpos)) \in Int
        BY <4>2, Positions
      <4>. QED  BY <4>1, <4>3
    <3>2. xpos' = P!Clamp(to) \/ xpos' = xpos
      BY <1>6 DEF P!RecvPointer
    <3>. HIDE DEF to
    <3>. QED  BY <3>1, <3>2, Positions
  <2>. QED  BY <1>2, <1>3, <2>1, <2>2
<1>7. CASE P!RecvAnswer
  <2>1. up # <<>> /\ up' = Tail(up) /\ csx' = 0 /\ cpos' = cpos + P!Signed(Head(up).x)
        /\ UNCHANGED <<xpos, gpos, down>>
    BY <1>7 DEF P!RecvAnswer, P!asked
  <2>2. P!Signed(Head(up).x) \in Int
    BY <1>3, <2>1, Positions
  <2>. QED  BY <1>2, <1>3, <2>1, <2>2
<1>8. CASE P!Grab
  BY <1>2, <1>8 DEF P!Grab
<1>9. CASE P!Write
  <2>1. down' = Append(down, csx % M) /\ UNCHANGED <<xpos, gpos, cpos, csx, up>>
    BY <1>9 DEF P!Write
  <2>2. csx % M \in Int
    BY Positions
  <2>3. down' \in Seq(Int)
    BY <2>1, <2>2
  <2>. QED  BY <1>2, <2>1, <2>3
<1>. QED  BY <1>4, <1>5, <1>6, <1>7, <1>8, <1>9

LEMMA PointerStep ==
    ASSUME PointerInv, [P!Next]_pointer
    PROVE  PointerInv'
<1>1. PointerType /\ OneAnswer
  BY DEF PointerInv
<1>2. ASSUME UNCHANGED <<xpos, gpos, cpos, csx, down, up, sx, px, warp, warped>>,
             at' \in Int, NEW x \in Int, moves' = Append(moves, x) \/ moves' = moves
      PROVE  PointerInv'
  <2>1. moves' \in Seq(Int \cup {Mark}) /\ P!Marks' = P!Marks
    <3>1. CASE moves' = Append(moves, x)
      <4>1. x \in Int \cup {Mark} /\ x # Mark
        BY Positions
      <4>. QED  BY <1>1, <3>1, <4>1, MarksAppend
    <3>2. CASE moves' = moves
      BY <1>1, <3>2 DEF P!Marks, PointerType
    <3>. QED  BY <1>2, <3>1, <3>2
  <2>2. PointerType'
    BY <1>1, <1>2, <2>1 DEF PointerType
  <2>3. OneAnswer'
    BY <1>1, <1>2, <2>1 DEF OneAnswer
  <2>. QED  BY <2>2, <2>3 DEF PointerInv
<1>3. ASSUME NEW x \in P!Around, NEW report \in BOOLEAN, P!UserMove(x, report)
      PROVE  PointerInv'
  <2>1. x \in Int
    BY Positions
  <2>. QED  BY <1>2, <1>3, <2>1 DEF P!UserMove, P!asked, P!client
<1>4. ASSUME NEW report \in BOOLEAN, P!Warp(report) PROVE PointerInv'
  <2>1. at + warp \in Int
    BY <1>1 DEF PointerType
  <2>2. at' = P!ClampAround(at + warp) /\ warp' = 0
        /\ (moves' = Append(moves, at') \/ moves' = moves)
        /\ UNCHANGED <<xpos, gpos, cpos, csx, down, up, sx, px, warped>>
    BY <1>4 DEF P!Warp, P!asked
  <2>3. at' \in Int
    BY <2>1, <2>2, Positions
  <2>4. moves' \in Seq(Int \cup {Mark}) /\ P!Marks' = P!Marks
    <3>. DEFINE to == at'
    <3>1. CASE moves' = Append(moves, to)
      <4>1. to \in Int \cup {Mark} /\ to # Mark
        BY <2>3, Positions
      <4>. HIDE DEF to
      <4>. QED  BY <1>1, <3>1, <4>1, MarksAppend
    <3>2. CASE moves' = moves
      BY <1>1, <3>2 DEF P!Marks, PointerType
    <3>. QED  BY <2>2, <3>1, <3>2
  <2>5. PointerType'
    BY <1>1, <2>2, <2>3, <2>4 DEF PointerType
  <2>6. OneAnswer'
    BY <1>1, <2>2, <2>4 DEF OneAnswer
  <2>. QED  BY <2>5, <2>6 DEF PointerInv
<1>5. CASE P!RecvSync
  <2>1. /\ down # <<>> /\ sx = 0 /\ sx' = P!Signed(Head(down)) /\ warp' = sx'
        /\ down' = Tail(down)
        /\ moves' = IF sx' = 0 THEN moves ELSE Append(moves, Mark)
        /\ UNCHANGED <<xpos, gpos, cpos, csx, up, px, warped, at>>
    BY <1>5 DEF P!RecvSync
  <2>2. Head(down) \in Int /\ Tail(down) \in Seq(Int)
    BY <1>1, <2>1 DEF PointerType
  <2>3. sx' \in Int
    BY <2>1, <2>2, Positions
  <2>4. P!Marks = {} /\ ~warped
    BY <1>1, <2>1 DEF OneAnswer
  <2>5. /\ moves' \in Seq(Int \cup {Mark})
        /\ P!Marks' = IF sx' = 0 THEN {} ELSE {Len(moves) + 1}
    <3>1. CASE sx' = 0
      BY <1>1, <2>1, <2>4, <3>1 DEF P!Marks, PointerType
    <3>2. CASE sx' # 0
      BY <1>1, <2>1, <2>4, <3>2, MarksAppend
    <3>. QED  BY <3>1, <3>2
  <2>6. PointerType'
    BY <1>1, <2>1, <2>2, <2>3, <2>5 DEF PointerType
  <2>7. OneAnswer'
    BY <2>1, <2>4, <2>5 DEF OneAnswer
  <2>. QED  BY <2>6, <2>7 DEF PointerInv
<1>6. CASE P!HandleMark
  <2>1. /\ moves # <<>> /\ Head(moves) = Mark /\ moves' = Tail(moves) /\ warped' = TRUE
        /\ UNCHANGED <<xpos, gpos, cpos, csx, down, up, sx, px, warp, at>>
    BY <1>6 DEF P!HandleMark, P!asked
  <2>2. /\ moves' \in Seq(Int \cup {Mark}) /\ P!Marks' = {i - 1 : i \in P!Marks \ {1}}
        /\ 1 \in P!Marks
    BY <1>1, <2>1, MarksTail
  <2>3. sx # 0 /\ P!Marks = {1}
    BY <1>1, <2>2 DEF OneAnswer
  <2>4. P!Marks' = {}
    BY <2>2, <2>3
  <2>5. PointerType'
    BY <1>1, <2>1, <2>2 DEF PointerType
  <2>6. OneAnswer'
    BY <2>1, <2>3, <2>4 DEF OneAnswer
  <2>. QED  BY <2>5, <2>6 DEF PointerInv
<1>7. CASE P!HandleMotion
  <2>. DEFINE x == Head(moves)
              m == IF warped THEN [kind |-> "sync", x |-> (x - px) % M]
                             ELSE [kind |-> "pointer", x |-> x % M]
  <2>1. /\ moves # <<>> /\ x # Mark /\ moves' = Tail(moves) /\ warped' = FALSE
        /\ px' = x /\ up' = Append(up, m) /\ sx' = IF warped THEN 0 ELSE sx
        /\ UNCHANGED <<xpos, gpos, cpos, csx, down, warp, at>>
    BY <1>7 DEF P!HandleMotion, P!asked
  <2>2. /\ moves' \in Seq(Int \cup {Mark}) /\ P!Marks' = {i - 1 : i \in P!Marks \ {1}}
        /\ 1 \notin P!Marks /\ x \in Int
    BY <1>1, <2>1, MarksTail
  <2>3. m \in Report
    <3>1. x \in Int /\ x - px \in Int
      BY <1>1, <2>2 DEF PointerType
    <3>2. x % M \in Int /\ (x - px) % M \in Int
      BY <3>1, Positions
    <3>. QED  BY <3>2 DEF Report
  <2>. HIDE DEF m, x
  <2>4. up' \in Seq(Report)
    BY <1>1, <2>1, <2>3 DEF PointerType
  <2>5. P!Marks' = {i - 1 : i \in P!Marks}
    BY <2>2
  <2>6. PointerType'
    <3>1. sx' \in Int /\ px' \in Int
      BY <1>1, <2>1, <2>2 DEF PointerType
    <3>2. warped' \in BOOLEAN
      BY <2>1, Zenon
    <3>. QED  BY <1>1, <2>1, <2>2, <2>4, <3>1, <3>2 DEF PointerType
  <2>7. OneAnswer'
    <3>1. P!Marks = {} => P!Marks' = {}
      BY <2>5
    <3>2. ASSUME NEW i, P!Marks = {i} PROVE P!Marks' = {i - 1}
      BY <2>5, <3>2
    <3>. QED  BY <1>1, <2>1, <3>1, <3>2 DEF OneAnswer
  <2>. QED  BY <2>6, <2>7 DEF PointerInv
<1>8. CASE UNCHANGED pointer
  <2>1. UNCHANGED <<xpos, gpos, cpos, csx, down, up, sx, px, warp, warped, at, moves>>
    BY <1>8 DEF pointer
  <2>. QED  BY <1>1, <2>1 DEF PointerInv, PointerType, OneAnswer, P!Marks
<1>. QED  BY <1>3, <1>4, <1>5, <1>6, <1>7, <1>8, ServerPointerStep DEF P!Next

(* A client that waits for its pointer to be moved has exactly one mark    *)
(* ahead, whatever the user and the server do meanwhile: it cannot be left *)
(* reading nothing.                                                        *)
THEOREM BlockedHasAnswerCorrect == MCSpec => []BlockedHasAnswer
<1>1. ASSUME PointerInv, [MCNext]_<<part, vars, pointer, clipboard, keyboard>>
      PROVE  PointerInv'
  <2>1. [P!Next]_pointer
    BY <1>1 DEF MCNext, CursorNext, PointerNext, ClipboardNext, KeyboardNext
  <2>. QED  BY <1>1, <2>1, PointerStep
<1>2. PointerInv => BlockedHasAnswer
  BY DEF PointerInv, OneAnswer, BlockedHasAnswer, P!BlockedHasAnswer, P!Marks
<1>. QED  BY <1>1, <1>2, PointerInit, PTL DEF MCSpec

-----------------------------------------------------------------------------
(* Where the two pointers meet.                                            *)

MeetType ==
    /\ xpos \in P!Place /\ px \in P!Around /\ at \in P!Around
    /\ moves \in Seq(P!Around \cup {Mark})
    /\ pending \in BOOLEAN /\ asks \in BOOLEAN /\ apart \in BOOLEAN
    /\ sx = 0 => warp = 0

(* The places the messages on the way lead through, from the one the       *)
(* server takes for the client's to the one that is the client's.          *)
Through(r) ==
    /\ r \in [0 .. Len(up) -> P!Around]
    /\ r[0] = cpos /\ r[Len(up)] = px
    /\ \A i \in 1 .. Len(up) : r[i] = P!Arrive(r[i - 1], up[i])

Connected == \E r : Through(r)

Replies == {i \in DOMAIN up : up[i].kind = "sync"}

(* The place a motion in the queue is seen from.                           *)
Before(k) == IF k = 1 THEN px ELSE moves[k - 1]

(* A request to follow that did not cross anything, where it can be: on    *)
(* the server, on the wire, with the client until its pointer is moved,    *)
(* before and after the mark is seen, and as an answer.  The next motion   *)
(* after the mark is the way that was asked for, or another follows.       *)
OnServer == (pending <=> ~asks) /\ down = <<>> /\ sx = 0 /\ Replies = {}
OnWire == ~pending /\ ~asks /\ down = <<csx % M>> /\ sx = 0 /\ Replies = {}
NotAsking == ~pending /\ ~asks /\ down = <<>>
AtClient == NotAsking /\ sx = csx /\ warp = csx /\ Replies = {} /\ ~warped
Moved ==
    /\ NotAsking /\ sx = csx /\ warp = 0 /\ Replies = {} /\ ~warped
    /\ \E k \in DOMAIN moves :
        /\ moves[k] = Mark /\ k < Len(moves)
        /\ Len(moves) = k + 1 => moves[k + 1] - Before(k) = csx
Noticed ==
    /\ NotAsking /\ sx = csx /\ warp = 0 /\ Replies = {} /\ warped
    /\ moves # <<>>
    /\ Len(moves) = 1 => moves[1] - px = csx
Replied ==
    /\ NotAsking /\ sx = 0
    /\ \E i \in DOMAIN up :
        /\ Replies = {i}
        /\ i = Len(up) /\ moves = <<>> => P!Signed(up[i].x) = csx

Following == OnServer \/ OnWire \/ AtClient \/ Moved \/ Noticed \/ Replied

(* As long as the two did not cross: without a request the server has      *)
(* nothing to ask, or has what it asked for, or hears of another motion;   *)
(* with one its pointer is as far from the client's as it asks for.        *)
Together ==
    IF csx = 0
    THEN /\ ~P!UnderWay
         /\ gpos = cpos \/ xpos = cpos \/ up # <<>> \/ moves # <<>>
    ELSE gpos = cpos /\ xpos = cpos + csx /\ Following

MeetInv == MeetType /\ Connected /\ (~apart => Together)

(* Positions and their differences travel whole.                           *)
LEMMA Travel ==
    /\ P!Place \subseteq P!Around /\ P!Around \subseteq Int
    /\ \A x \in Int : P!Clamp(x) \in P!Place /\ P!ClampAround(x) \in P!Around
    /\ \A x \in P!Around : x % M = x /\ P!Signed(x) = x
    /\ \A x, y \in P!Around : /\ P!Signed(x - y) = x - y
                              /\ P!Signed((x - y) % M) = x - y
                              /\ (x - y) % M \in Int
<1>. DEFINE W == Width + Margin
<1>1. /\ M \in Nat /\ Width \in Nat \ {0} /\ Margin \in Nat /\ M % 2 = 0
      /\ M > 4 * W /\ W \in Nat \ {0}
  BY DesktopAssumption DEF P!PointerAssumption
<1>2. M \div 2 \in Int /\ M = 2 * (M \div 2)
  BY <1>1
<1>3. ASSUME NEW x \in Int, 0 <= x, x < M PROVE x % M = x
  BY <1>1, <1>3
<1>4. ASSUME NEW x \in Int, x < 0, 0 - M <= x PROVE x % M = x + M
  BY <1>1, <1>4
<1>5. P!Around = 0 .. W - 1
  BY <1>1 DEF P!Around
<1>. HIDE DEF W
<1>6. ASSUME NEW x \in Int, 0 - W <= x, x <= W
      PROVE  P!Signed(x) = x /\ P!Signed(x % M) = x /\ x % M \in Int
  <2>1. CASE x >= 0
    <3>1. x % M = x /\ x < M \div 2
      BY <1>1, <1>2, <1>3, <1>6, <2>1
    <3>. QED  BY <3>1 DEF P!Signed
  <2>2. CASE x < 0
    <3>1. x % M = x + M /\ x + M \in Int /\ 0 <= x + M /\ x + M < M
      BY <1>1, <1>4, <1>6, <2>2
    <3>2. (x + M) % M = x + M /\ ~(x + M < M \div 2) /\ (x + M) - M = x
      BY <1>1, <1>2, <1>3, <1>6, <2>2, <3>1
    <3>. QED  BY <3>1, <3>2 DEF P!Signed
  <2>. QED  BY <1>6, <2>1, <2>2
<1>7. ASSUME NEW x \in P!Around PROVE x \in Int /\ 0 <= x /\ x < M /\ x <= W /\ 0 - W <= x
  BY <1>1, <1>5
<1>8. ASSUME NEW x \in P!Around, NEW y \in P!Around
      PROVE  x - y \in Int /\ 0 - W <= x - y /\ x - y <= W
  BY <1>1, <1>5
<1>9. \A x \in Int : P!Clamp(x) \in P!Place /\ P!ClampAround(x) \in P!Around
  BY <1>1 DEF P!Clamp, P!ClampAround, P!Place, P!Around
<1>10. P!Place \subseteq P!Around
  BY <1>1 DEF P!Place, P!Around
<1>. QED  BY <1>3, <1>6, <1>7, <1>8, <1>9, <1>10

LEMMA UnderWayIs ==
    P!UnderWay <=> (csx # 0 \/ pending \/ asks \/ down # <<>> \/ sx # 0 \/ Replies # {})
BY DEF P!UnderWay, Replies

(* A message more leads on from the last place, one less starts later.     *)
LEMMA ThroughAppend ==
    ASSUME PointerType, NEW r, Through(r), NEW m \in Report,
           up' = Append(up, m), cpos' = cpos, px' = P!Arrive(px, m), px' \in P!Around
    PROVE  Connected'
<1>a. PICK n : n = Len(up)  OBVIOUS
<1>b. PICK x : x = px'  OBVIOUS
<1>c. PICK q : q = [i \in 0 .. n + 1 |-> IF i <= n THEN r[i] ELSE x]  OBVIOUS
<1>1. n \in Nat /\ Len(up') = n + 1 /\ up'[n + 1] = m /\ \A i \in 1 .. n : up'[i] = up[i]
  BY <1>a DEF PointerType
<1>2. /\ r \in [0 .. n -> P!Around] /\ r[0] = cpos /\ r[n] = px
      /\ \A i \in 1 .. n : r[i] = P!Arrive(r[i - 1], up[i])
  BY <1>a DEF Through
<1>3. q \in [0 .. n + 1 -> P!Around] /\ q[0] = cpos' /\ q[n + 1] = px'
  BY <1>b, <1>c, <1>1, <1>2
<1>4. ASSUME NEW i \in 1 .. n + 1 PROVE q[i] = P!Arrive(q[i - 1], up'[i])
  <2>1. CASE i = n + 1
    <3>1. q[i] = px' /\ q[i - 1] = px /\ up'[i] = m
      BY <1>b, <1>c, <1>1, <1>2, <2>1
    <3>. QED  BY <3>1
  <2>2. CASE i # n + 1
    <3>1. i \in 1 .. n
      BY <1>1, <2>2
    <3>2. q[i] = r[i] /\ q[i - 1] = r[i - 1] /\ up'[i] = up[i]
      BY <1>c, <1>1, <3>1
    <3>. QED  BY <1>2, <3>1, <3>2
  <2>. QED  BY <2>1, <2>2
<1>5. Through(q)'
  BY <1>1, <1>3, <1>4 DEF Through, P!Arrive, P!Signed
<1>. QED  BY <1>5 DEF Connected

LEMMA ThroughTail ==
    ASSUME PointerType, Connected, up # <<>>, up' = Tail(up), px' = px,
           cpos' = P!Arrive(cpos, Head(up))
    PROVE  Connected' /\ cpos \in P!Around /\ cpos' \in P!Around
<1>a. PICK n : n = Len(up)  OBVIOUS
<1>1. /\ n \in Nat \ {0} /\ Len(up') = n - 1 /\ Head(up) = up[1]
      /\ \A i \in 1 .. n - 1 : up'[i] = up[i + 1]
  BY <1>a, HeadTailProperties, EmptySeq DEF PointerType
<1>2. PICK r : Through(r)
  BY DEF Connected
<1>3. /\ r \in [0 .. n -> P!Around] /\ r[0] = cpos /\ r[n] = px
      /\ \A i \in 1 .. n : r[i] = P!Arrive(r[i - 1], up[i])
  BY <1>a, <1>2 DEF Through
<1>c. PICK q : q = [i \in 0 .. n - 1 |-> r[i + 1]]  OBVIOUS
<1>4. r[1] = cpos' /\ cpos \in P!Around /\ cpos' \in P!Around
  <2>1. 1 \in 1 .. n /\ 1 \in 0 .. n /\ 0 \in 0 .. n /\ 1 - 1 = 0
    BY <1>1
  <2>. QED  BY <1>1, <1>3, <2>1
<1>5. q \in [0 .. n - 1 -> P!Around] /\ q[0] = cpos' /\ q[n - 1] = px'
  BY <1>c, <1>1, <1>3, <1>4
<1>6. ASSUME NEW i \in 1 .. n - 1 PROVE q[i] = P!Arrive(q[i - 1], up'[i])
  <2>1. /\ q[i] = r[i + 1] /\ q[i - 1] = r[i] /\ up'[i] = up[i + 1]
        /\ i + 1 \in 1 .. n /\ (i + 1) - 1 = i
    BY <1>c, <1>1
  <2>. QED  BY <1>3, <2>1
<1>7. Through(q)'
  BY <1>1, <1>5, <1>6 DEF Through, P!Arrive, P!Signed
<1>. QED  BY <1>4, <1>7 DEF Connected

(* The answers among the messages.                                         *)
LEMMA RepliesAppend ==
    ASSUME PointerType, NEW m, up' = Append(up, m)
    PROVE  Replies' = IF m.kind = "sync" THEN Replies \cup {Len(up) + 1} ELSE Replies
<1>1. /\ Len(up) \in Nat /\ DOMAIN up = 1 .. Len(up) /\ DOMAIN up' = 1 .. Len(up) + 1
      /\ up'[Len(up) + 1] = m /\ \A i \in 1 .. Len(up) : up'[i] = up[i]
  BY DEF PointerType
<1>. QED  BY <1>1 DEF Replies

LEMMA RepliesTail ==
    ASSUME PointerType, up # <<>>, up' = Tail(up)
    PROVE  /\ Replies' = {i - 1 : i \in Replies \ {1}}
           /\ 1 \in Replies <=> Head(up).kind = "sync"
           /\ Replies \subseteq Nat
           /\ Len(up') = Len(up) - 1 /\ Len(up) \in Nat \ {0}
           /\ \A i \in DOMAIN up \ {1} : i - 1 \in DOMAIN up' /\ up'[i - 1] = up[i]
<1>1. /\ Len(up) \in Nat \ {0} /\ Len(up') = Len(up) - 1
      /\ DOMAIN up = 1 .. Len(up) /\ DOMAIN up' = 1 .. Len(up) - 1
      /\ Head(up) = up[1]
      /\ \A i \in 1 .. Len(up) - 1 : up'[i] = up[i + 1]
  BY HeadTailProperties, EmptySeq DEF PointerType
<1>2. ASSUME NEW j \in Replies' PROVE j \in {i - 1 : i \in Replies \ {1}}
  <2>1. j \in 1 .. Len(up) - 1 /\ up[j + 1].kind = "sync"
    BY <1>1 DEF Replies
  <2>2. j + 1 \in Replies \ {1} /\ (j + 1) - 1 = j
    BY <1>1, <2>1 DEF Replies
  <2>. QED  BY <2>2
<1>3. ASSUME NEW i \in DOMAIN up \ {1} PROVE i - 1 \in DOMAIN up' /\ up'[i - 1] = up[i]
  <2>1. i - 1 \in 1 .. Len(up) - 1 /\ (i - 1) + 1 = i
    BY <1>1
  <2>. QED  BY <1>1, <2>1
<1>4. ASSUME NEW i \in Replies \ {1} PROVE i - 1 \in Replies'
  BY <1>3 DEF Replies
<1>. QED  BY <1>1, <1>2, <1>3, <1>4 DEF Replies

(* What no step of the pointers of other programs or clients touches.      *)
LEMMA ConnectedKept ==
    ASSUME Connected, UNCHANGED <<up, cpos, px>>
    PROVE  Connected'
<1>1. PICK r : Through(r)
  BY DEF Connected
<1>2. Through(r)'
  BY <1>1 DEF Through, P!Arrive, P!Signed
<1>. QED  BY <1>2 DEF Connected

LEMMA FollowingKept ==
    ASSUME UNCHANGED <<pending, asks, down, sx, csx, up, warp, warped, moves, px>>
    PROVE  Following' <=> Following
  BY DEF Following, OnServer, OnWire, NotAsking, AtClient, Moved, Noticed, Replied,
         Replies, Before, P!Signed

(* Programs and other clients on the server.                               *)
LEMMA OthersMeet ==
    ASSUME PointerInv, MeetInv,
           (\E x \in P!Place : P!Jump(x) \/ P!OtherMoves(x)) \/ P!OtherTypes \/ P!Types
    PROVE  MeetInv'
<1>1. /\ UNCHANGED <<cpos, csx, pending, asks, down, up, sx, px, warp, warped, at, moves>>
      /\ xpos' \in P!Place
      /\ ~apart' => \/ UNCHANGED <<xpos, gpos, apart>>
                    \/ ~apart /\ ~P!UnderWay /\ gpos = cpos /\ gpos' = gpos
  BY DEF MeetInv, MeetType, P!Jump, P!OtherMoves, P!OtherTypes, P!Types, P!asked, P!client,
         P!screen
<1>2. apart' \in BOOLEAN
  BY Zenon DEF MeetInv, MeetType, P!Jump, P!OtherMoves, P!OtherTypes, P!Types
<1>3. MeetType'
  BY <1>1, <1>2 DEF MeetInv, MeetType
<1>4. Connected'
  BY <1>1, ConnectedKept DEF MeetInv
<1>5. P!UnderWay' <=> P!UnderWay
  BY <1>1 DEF P!UnderWay
<1>6. ASSUME ~apart' PROVE Together'
  <2>1. CASE UNCHANGED <<xpos, gpos, apart>>
    BY <1>1, <1>5, <1>6, <2>1, FollowingKept DEF MeetInv, Together
  <2>2. CASE ~apart /\ ~P!UnderWay /\ gpos = cpos /\ gpos' = gpos
    BY <1>1, <1>5, <2>2, UnderWayIs DEF Together
  <2>. QED  BY <1>1, <1>6, <2>1, <2>2
<1>. QED  BY <1>3, <1>4, <1>6 DEF MeetInv

(* The server asks.                                                        *)
LEMMA AskingMeets ==
    ASSUME PointerInv, MeetInv, P!Grab \/ P!Begin \/ P!Write
    PROVE  MeetInv'
<1>1. UNCHANGED <<xpos, gpos, cpos, up, sx, px, warp, warped, at, moves, apart>>
  BY DEF P!Grab, P!Begin, P!Write, P!client, P!screen
<1>2. pending' \in BOOLEAN /\ asks' \in BOOLEAN
  BY Zenon DEF MeetInv, MeetType, P!Grab, P!Begin, P!Write
<1>3. MeetType'
  BY <1>1, <1>2 DEF MeetInv, MeetType
<1>4. Connected'
  BY <1>1, ConnectedKept DEF MeetInv
<1>5. Replies' = Replies
  BY <1>1 DEF Replies
<1>. SUFFICES ASSUME ~apart' PROVE Together'
  BY <1>3, <1>4 DEF MeetInv
<1>6. Together
  BY <1>1 DEF MeetInv
<1>7. CASE P!Grab
  <2>1. /\ csx = 0 /\ gpos = cpos /\ xpos # cpos /\ csx' = xpos - cpos /\ pending'
        /\ UNCHANGED <<asks, down>>
    BY <1>7 DEF P!Grab
  <2>2. xpos \in Int /\ cpos \in Int
    BY DEF PointerInv, PointerType
  <2>3. ~asks /\ down = <<>> /\ sx = 0 /\ Replies = {}
    BY <1>6, <2>1, UnderWayIs DEF Together
  <2>4. OnServer'
    BY <1>1, <1>5, <2>1, <2>3 DEF OnServer
  <2>. QED  BY <1>1, <2>1, <2>2, <2>4 DEF Together, Following
<1>8. CASE P!Begin
  <2>1. pending /\ ~asks /\ ~pending' /\ asks' /\ UNCHANGED <<csx, down>>
    BY <1>8 DEF P!Begin
  <2>2. csx # 0
    BY <1>6, <2>1, UnderWayIs DEF Together
  <2>3. OnServer
    BY <1>6, <2>1, <2>2
    DEF Together, Following, OnWire, NotAsking, AtClient, Moved, Noticed, Replied
  <2>4. OnServer'
    BY <1>1, <1>5, <2>1, <2>3 DEF OnServer
  <2>. QED  BY <1>1, <1>6, <2>1, <2>2, <2>4 DEF Together, Following
<1>9. CASE P!Write
  <2>1. asks /\ ~asks' /\ down' = Append(down, csx % M) /\ UNCHANGED <<csx, pending>>
    BY <1>9 DEF P!Write
  <2>2. csx # 0
    BY <1>6, <2>1, UnderWayIs DEF Together
  <2>3. OnServer
    BY <1>6, <2>1, <2>2
    DEF Together, Following, OnWire, NotAsking, AtClient, Moved, Noticed, Replied
  <2>4. OnWire'
    <3>1. down' = <<csx % M>>
      BY <2>1, <2>3 DEF OnServer
    <3>. QED  BY <1>1, <1>5, <2>1, <2>3, <3>1 DEF OnServer, OnWire
  <2>. QED  BY <1>1, <1>6, <2>1, <2>2, <2>4 DEF Together, Following
<1>. QED  BY <1>7, <1>8, <1>9

(* The server hears of a motion, or gets the answer.                       *)
LEMMA ReceivedMeets ==
    ASSUME PointerInv, MeetInv, P!RecvPointer \/ P!RecvAnswer
    PROVE  MeetInv'
<1>1. /\ up # <<>> /\ up' = Tail(up)
      /\ UNCHANGED <<pending, asks, down, sx, px, warp, warped, at, moves>>
  BY DEF P!RecvPointer, P!RecvAnswer, P!asked, P!client, P!screen
<1>2. PointerType /\ MeetType /\ Connected /\ (~apart => Together)
  BY DEF PointerInv, MeetInv
<1>3. cpos' = P!Arrive(cpos, Head(up))
  BY DEF P!RecvPointer, P!RecvAnswer, P!Arrive
<1>4. Connected' /\ cpos \in P!Around /\ cpos' \in P!Around
  BY <1>1, <1>2, <1>3, ThroughTail
<1>5. /\ Replies' = {i - 1 : i \in Replies \ {1}} /\ Replies \subseteq Nat
      /\ 1 \in Replies <=> Head(up).kind = "sync"
      /\ Len(up') = Len(up) - 1 /\ Len(up) \in Nat \ {0}
      /\ \A i \in DOMAIN up \ {1} : i - 1 \in DOMAIN up' /\ up'[i - 1] = up[i]
  BY <1>1, <1>2, RepliesTail
<1>6. xpos \in Int /\ cpos \in Int /\ cpos' \in Int /\ xpos \in P!Place /\ csx \in Int
  BY <1>2, <1>4, Travel DEF PointerType, MeetType
<1>7. CASE P!RecvAnswer
  <2>1. Head(up).kind = "sync" /\ csx' = 0 /\ UNCHANGED <<xpos, gpos, apart>>
        /\ cpos' = cpos + P!Signed(Head(up).x)
    BY <1>7 DEF P!RecvAnswer
  <2>2. MeetType'
    BY <1>1, <1>2, <2>1 DEF MeetType
  <2>3. ASSUME ~apart' PROVE Together'
    <3>1. Together /\ 1 \in Replies
      BY <1>2, <1>5, <2>1, <2>3
    <3>2. csx # 0
      BY <3>1, UnderWayIs DEF Together
    <3>3. Replied /\ xpos = cpos + csx
      BY <3>1, <3>2 DEF Together, Following, OnServer, OnWire, AtClient, Moved, Noticed
    <3>4. PICK i \in DOMAIN up : /\ Replies = {i}
                                 /\ i = Len(up) /\ moves = <<>> => P!Signed(up[i].x) = csx
      BY <3>3 DEF Replied
    <3>5. i = 1 /\ Replies' = {}
      BY <1>5, <3>1, <3>4
    <3>6. ~P!UnderWay'
      BY <1>1, <2>1, <3>3, <3>5 DEF Replied, NotAsking, Replies, P!UnderWay
    <3>7. up' = <<>> /\ moves = <<>> => cpos' = xpos
      <4>. SUFFICES ASSUME up' = <<>>, moves = <<>> PROVE cpos' = xpos
        OBVIOUS
      <4>1. Len(up) = 1
        BY <1>5
      <4>2. P!Signed(up[1].x) = csx /\ Head(up) = up[1]
        BY <1>1, <3>4, <3>5, <4>1
      <4>. QED  BY <2>1, <3>3, <4>2
    <3>. QED  BY <1>1, <2>1, <3>6, <3>7 DEF Together
  <2>. QED  BY <1>4, <2>2, <2>3 DEF MeetInv
<1>8. CASE P!RecvPointer
  <2>. DEFINE new == Head(up).x
              to == IF P!Relative THEN xpos + P!Signed(new - P!Signed(cpos)) ELSE P!Signed(new)
  <2>1. /\ Head(up).kind = "pointer" /\ cpos' = new
        /\ \/ /\ gpos' = new /\ xpos' = P!Clamp(to)
              /\ csx' = IF P!Relative THEN csx ELSE 0
              /\ apart' = IF P!Relative THEN apart \/ (P!UnderWay /\ P!Clamp(to) # to)
                          ELSE P!UnderWay
           \/ apart' = TRUE /\ UNCHANGED <<gpos, xpos, csx>>
    BY <1>8 DEF P!RecvPointer
  <2>2. /\ P!Relative <=> gpos = cpos
        /\ to = IF P!Relative THEN xpos + (cpos' - cpos) ELSE cpos'
    BY <1>4, <2>1, Travel DEF P!Relative
  <2>. HIDE DEF to, new
  <2>3. to \in Int
    BY <1>6, <2>2
  <2>4. apart' \in BOOLEAN /\ xpos' \in P!Place
    <3>1. (P!UnderWay /\ P!Clamp(to) # to) \in BOOLEAN /\ P!UnderWay \in BOOLEAN
          /\ apart \in BOOLEAN
      BY <1>2 DEF MeetType, P!UnderWay
    <3>2. P!Clamp(to) \in P!Place
      BY <2>3, Travel
    <3>3. apart' \in BOOLEAN
      BY <2>1, <3>1
    <3>. QED  BY <1>6, <2>1, <3>2, <3>3
  <2>5. MeetType'
    BY <1>1, <1>2, <2>4 DEF MeetType
  <2>6. ASSUME ~apart' PROVE Together'
    <3>1. /\ gpos' = cpos' /\ xpos' = P!Clamp(to)
          /\ csx' = IF gpos = cpos THEN csx ELSE 0
          /\ IF gpos = cpos THEN ~apart /\ (P!UnderWay => P!Clamp(to) = to) ELSE ~P!UnderWay
      BY <2>1, <2>2, <2>6
    <3>2. 1 \notin Replies
      BY <1>5, <2>1
    <3>3. (Replies = {}) => (Replies' = {})
      BY <1>5
    <3>4. CASE csx' = 0
      <4>1. ~P!UnderWay
        BY <1>2, <3>1, <3>4 DEF Together
      <4>2. csx = 0 /\ ~pending /\ ~asks /\ down = <<>> /\ sx = 0 /\ Replies = {}
        BY <4>1, UnderWayIs
      <4>3. ~P!UnderWay'
        BY <1>1, <3>3, <3>4, <4>2 DEF P!UnderWay, Replies
      <4>. QED  BY <3>1, <3>4, <4>3 DEF Together
    <3>5. CASE csx' # 0
      <4>1. gpos = cpos /\ csx' = csx /\ csx # 0 /\ ~apart
        BY <3>1, <3>5
      <4>2. Together /\ P!UnderWay
        BY <1>2, <4>1, UnderWayIs
      <4>3. xpos = cpos + csx /\ Following
        BY <4>1, <4>2 DEF Together
      <4>4. xpos' = cpos' + csx'
        <5>1. xpos' = to /\ to = xpos + (cpos' - cpos)
          BY <2>2, <3>1, <4>1, <4>2
        <5>. QED  BY <1>6, <4>1, <4>3, <5>1
      <4>5. Following'
        <5>1. CASE Replied
          <6>1. PICK i \in DOMAIN up : /\ Replies = {i}
                                       /\ i = Len(up) /\ moves = <<>> => P!Signed(up[i].x) = csx
            BY <5>1 DEF Replied
          <6>2. i \in Nat /\ i # 1 /\ i - 1 \in DOMAIN up' /\ up'[i - 1] = up[i]
            BY <1>5, <3>2, <6>1
          <6>3. Replies' = {i - 1}
            BY <1>5, <6>1, <6>2
          <6>4. i - 1 = Len(up') => i = Len(up)
            BY <1>5, <6>2
          <6>5. P!Signed(up'[i - 1].x) = P!Signed(up[i].x)
            BY <6>2
          <6>6. Replied'
            <7>1. NotAsking' /\ sx' = 0
              BY <1>1, <5>1 DEF Replied, NotAsking
            <7>2. i - 1 = Len(up') /\ moves' = <<>> => P!Signed(up'[i - 1].x) = csx'
              BY <1>1, <4>1, <6>1, <6>4, <6>5
            <7>. QED  BY <6>2, <6>3, <7>1, <7>2 DEF Replied, P!Signed
          <6>. QED  BY <6>6 DEF Following
        <5>2. CASE ~Replied
          <6>1. Replies = {} /\ (OnServer \/ OnWire \/ AtClient \/ Moved \/ Noticed)
            BY <4>3, <5>2 DEF Following, OnServer, OnWire, AtClient, Moved, Noticed
          <6>. QED  BY <1>1, <3>3, <4>1, <6>1 DEF Following, OnServer, OnWire, NotAsking,
                    AtClient, Moved, Noticed, Before
        <5>. QED  BY <5>1, <5>2
      <4>. QED  BY <3>1, <3>5, <4>4, <4>5 DEF Together
    <3>. QED  BY <3>4, <3>5
  <2>. QED  BY <1>4, <2>5, <2>6 DEF MeetInv
<1>. QED  BY <1>7, <1>8

(* The queue of the client, with an event more or one less.                *)
LEMMA QueueAppend ==
    ASSUME MeetType, NEW e \in P!Around \cup {Mark}, moves' = Append(moves, e)
    PROVE  /\ moves' \in Seq(P!Around \cup {Mark}) /\ moves' # <<>>
           /\ Len(moves') = Len(moves) + 1 /\ Len(moves) \in Nat
           /\ DOMAIN moves = 1 .. Len(moves) /\ DOMAIN moves' = 1 .. Len(moves) + 1
           /\ moves'[Len(moves) + 1] = e
           /\ \A i \in DOMAIN moves : moves'[i] = moves[i]
BY DEF MeetType

LEMMA QueueTail ==
    ASSUME MeetType, moves # <<>>, moves' = Tail(moves)
    PROVE  /\ moves' \in Seq(P!Around \cup {Mark})
           /\ Head(moves) \in P!Around \cup {Mark} /\ Head(moves) = moves[1]
           /\ Len(moves') = Len(moves) - 1 /\ Len(moves) \in Nat \ {0}
           /\ DOMAIN moves = 1 .. Len(moves) /\ DOMAIN moves' = 1 .. Len(moves) - 1
           /\ \A i \in 1 .. Len(moves) - 1 : moves'[i] = moves[i + 1]
           /\ moves' = <<>> <=> Len(moves) = 1
<1>1. /\ moves' \in Seq(P!Around \cup {Mark})
      /\ Head(moves) \in P!Around \cup {Mark} /\ Head(moves) = moves[1]
      /\ Len(moves') = Len(moves) - 1 /\ Len(moves) \in Nat \ {0}
      /\ DOMAIN moves = 1 .. Len(moves) /\ DOMAIN moves' = 1 .. Len(moves) - 1
      /\ \A i \in 1 .. Len(moves) - 1 : moves'[i] = moves[i + 1]
  BY HeadTailProperties, EmptySeq DEF MeetType
<1>2. moves' = <<>> <=> Len(moves') = 0
  BY <1>1, EmptySeq
<1>. QED  BY <1>1, <1>2

(* The client gets the request.                                            *)
LEMMA RequestMeets ==
    ASSUME PointerInv, MeetInv, P!RecvSync
    PROVE  MeetInv'
<1>1. /\ down # <<>> /\ sx = 0 /\ sx' = P!Signed(Head(down)) /\ warp' = sx'
      /\ down' = Tail(down)
      /\ moves' = IF sx' = 0 THEN moves ELSE Append(moves, Mark)
      /\ UNCHANGED <<xpos, gpos, cpos, csx, pending, asks, up, px, warped, at, apart>>
  BY DEF P!RecvSync
<1>2. MeetType /\ Connected /\ (~apart => Together)
  BY DEF MeetInv
<1>3. MeetType'
  <2>1. moves' \in Seq(P!Around \cup {Mark})
    BY <1>1, <1>2 DEF MeetType
  <2>. QED  BY <1>1, <1>2, <2>1 DEF MeetType
<1>4. Connected'
  BY <1>1, <1>2, ConnectedKept
<1>5. ASSUME ~apart' PROVE Together'
  <2>1. Together
    BY <1>1, <1>2, <1>5
  <2>2. csx # 0
    BY <1>1, <2>1, UnderWayIs DEF Together
  <2>3. OnWire /\ gpos = cpos /\ xpos = cpos + csx
    BY <1>1, <2>1, <2>2
    DEF Together, Following, OnServer, NotAsking, AtClient, Moved, Noticed, Replied
  <2>4. P!Signed(csx % M) = csx
    <3>1. \E r : Through(r)
      BY <1>2 DEF Connected
    <3>2. cpos \in P!Around /\ Len(up) \in Nat
      BY <3>1 DEF Through, PointerInv, PointerType
    <3>3. xpos \in P!Around /\ csx = xpos - cpos
      BY <1>2, <2>3, <3>2, Travel DEF MeetType, PointerInv, PointerType
    <3>. QED  BY <3>2, <3>3, Travel
  <2>5. down = <<csx % M>>
    BY <2>3 DEF OnWire
  <2>6. sx' = csx /\ down' = <<>>
    BY <1>1, <2>4, <2>5
  <2>7. ~warped
    BY <1>1 DEF PointerInv, OneAnswer
  <2>8. AtClient'
    BY <1>1, <2>3, <2>6, <2>7 DEF OnWire, AtClient, NotAsking, Replies
  <2>. QED  BY <1>1, <2>2, <2>3, <2>8 DEF Together, Following
<1>. QED  BY <1>3, <1>4, <1>5 DEF MeetInv

(* The user moves the client's pointer.                                    *)
LEMMA UserMeets ==
    ASSUME PointerInv, MeetInv, NEW x \in P!Around, NEW report \in BOOLEAN,
           P!UserMove(x, report)
    PROVE  MeetInv'
<1>1. /\ at' = x /\ (moves' = Append(moves, x) \/ moves' = moves)
      /\ UNCHANGED <<xpos, gpos, cpos, csx, pending, asks, down, up, sx, px, warp, warped,
                     apart>>
  BY DEF P!UserMove, P!asked, P!client
<1>2. MeetType /\ Connected /\ (~apart => Together)
  BY DEF MeetInv
<1>3. Connected'
  BY <1>1, <1>2, ConnectedKept
<1>4. CASE moves' = moves
  <2>1. MeetType'
    BY <1>1, <1>2, <1>4 DEF MeetType
  <2>2. Together => Together'
    BY <1>1, <1>4, FollowingKept DEF Together, P!UnderWay
  <2>. QED  BY <1>1, <1>2, <1>3, <2>1, <2>2 DEF MeetInv
<1>5. CASE moves' = Append(moves, x)
  <2>1. /\ moves' \in Seq(P!Around \cup {Mark}) /\ moves' # <<>>
        /\ Len(moves') = Len(moves) + 1 /\ Len(moves) \in Nat
        /\ DOMAIN moves = 1 .. Len(moves) /\ DOMAIN moves' = 1 .. Len(moves) + 1
        /\ \A i \in DOMAIN moves : moves'[i] = moves[i]
    BY <1>2, <1>5, QueueAppend
  <2>2. MeetType'
    BY <1>1, <1>2, <2>1 DEF MeetType
  <2>3. Replies' = Replies /\ (NotAsking' <=> NotAsking)
    BY <1>1 DEF Replies, NotAsking
  <2>4. Moved => Moved'
    <3>. SUFFICES ASSUME Moved PROVE Moved'
      OBVIOUS
    <3>1. PICK k \in DOMAIN moves : moves[k] = Mark /\ k < Len(moves)
      BY DEF Moved
    <3>2. k \in DOMAIN moves' /\ moves'[k] = Mark /\ k < Len(moves') /\ Len(moves') # k + 1
      BY <2>1, <3>1
    <3>. QED  BY <1>1, <2>3, <3>2 DEF Moved
  <2>5. Noticed => Noticed'
    <3>1. moves # <<>> => Len(moves') # 1
      BY <1>2, <2>1 DEF MeetType
    <3>. QED  BY <1>1, <2>1, <2>3, <3>1 DEF Noticed
  <2>6. (OnServer => OnServer') /\ (OnWire => OnWire') /\ (AtClient => AtClient')
    BY <1>1, <2>3 DEF OnServer, OnWire, AtClient
  <2>7. Replied => Replied'
    BY <1>1, <2>1, <2>3 DEF Replied
  <2>8. Together => Together'
    BY <1>1, <2>1, <2>4, <2>5, <2>6, <2>7 DEF Together, Following, P!UnderWay
  <2>. QED  BY <1>1, <1>2, <1>3, <2>2, <2>8 DEF MeetInv
<1>. QED  BY <1>1, <1>4, <1>5

(* The client's X server moves it as it was asked.                         *)
LEMMA WarpMeets ==
    ASSUME PointerInv, MeetInv, NEW report \in BOOLEAN, P!Warp(report)
    PROVE  MeetInv'
<1>1. /\ warp # 0 /\ warp' = 0 /\ at' = P!ClampAround(at + warp)
      /\ moves' = IF report /\ at' # at THEN Append(moves, at') ELSE moves
      /\ apart' = (apart \/ ~report \/ at # P!LastReport \/ at' # at + warp)
      /\ UNCHANGED <<xpos, gpos, cpos, csx, pending, asks, down, up, sx, px, warped>>
  BY DEF P!Warp, P!asked
<1>2. MeetType /\ Connected /\ (~apart => Together) /\ at \in Int /\ warp \in Int
  BY DEF MeetInv, PointerInv, PointerType
<1>3. Connected'
  BY <1>1, <1>2, ConnectedKept
<1>4. at' \in P!Around
  <2>1. at + warp \in Int
    BY <1>2
  <2>. QED  BY <1>1, <2>1, Travel
<1>5. moves' \in Seq(P!Around \cup {Mark})
  BY <1>1, <1>2, <1>4 DEF MeetType
<1>6. MeetType'
  <2>1. apart' \in BOOLEAN
    <3>1. (~report \/ at # P!LastReport \/ at' # at + warp) \in BOOLEAN
      BY Zenon
    <3>. QED  BY <1>1, <1>2, <3>1, Zenon DEF MeetType
  <2>. QED  BY <1>1, <1>2, <1>4, <1>5, <2>1 DEF MeetType
<1>7. ASSUME ~apart' PROVE Together'
  <2>1. ~apart /\ report /\ at = P!LastReport /\ at' = at + warp /\ sx # 0 /\ at' # at
    <3>1. ~apart /\ report /\ at = P!LastReport /\ at' = at + warp
      BY <1>1, <1>7, Zenon
    <3>2. sx # 0
      BY <1>1, <1>2 DEF MeetType
    <3>3. at' # at
      BY <1>1, <1>2, <3>1
    <3>. QED  BY <3>1, <3>2, <3>3
  <2>2. Together /\ csx # 0
    BY <1>2, <2>1, UnderWayIs DEF Together
  <2>3. AtClient /\ gpos = cpos /\ xpos = cpos + csx
    BY <1>1, <2>1, <2>2 DEF Together, Following, OnServer, OnWire, Moved, Noticed, Replied
  <2>4. PICK k : P!Marks = {k}
    BY <2>1, <2>3 DEF AtClient, PointerInv, OneAnswer
  <2>5. k \in DOMAIN moves /\ moves[k] = Mark /\ \A i \in DOMAIN moves : moves[i] = Mark => i = k
    BY <2>4 DEF P!Marks
  <2>6. PICK to : to = at'
    OBVIOUS
  <2>7. /\ Len(moves') = Len(moves) + 1 /\ Len(moves) \in Nat
        /\ DOMAIN moves = 1 .. Len(moves) /\ DOMAIN moves' = 1 .. Len(moves) + 1
        /\ moves'[Len(moves) + 1] = to
        /\ \A i \in DOMAIN moves : moves'[i] = moves[i]
    <3>1. moves' = Append(moves, to) /\ to \in P!Around \cup {Mark}
      BY <1>1, <1>4, <2>1, <2>6
    <3>. QED  BY <1>2, <3>1, QueueAppend
  <2>8. k = Len(moves) => P!LastReport = Before(k)
    <3>. SUFFICES ASSUME k = Len(moves) PROVE P!LastReport = Before(k)
      OBVIOUS
    <3>. DEFINE motions == {i \in DOMAIN moves : moves[i] # Mark}
    <3>1. motions = 1 .. k - 1
      BY <2>5, <2>7
    <3>2. P!LastReport = IF motions = {} THEN px ELSE moves[P!Max(motions)]
      BY DEF P!LastReport
    <3>. HIDE DEF motions
    <3>3. CASE k = 1
      <4>1. motions = {}
        BY <3>1, <3>3
      <4>. QED  BY <3>2, <3>3, <4>1 DEF Before
    <3>4. CASE k # 1
      <4>1. k - 1 \in motions /\ \A i \in motions : k - 1 >= i
        BY <2>5, <2>7, <3>1, <3>4
      <4>2. motions \subseteq Int
        BY <3>1
      <4>3. P!Max(motions) = k - 1
        <5>. DEFINE top(j) == j \in motions /\ \A i \in motions : j >= i
        <5>1. top(k - 1)
          BY <4>1
        <5>2. P!Max(motions) = CHOOSE j : top(j)
          BY DEF P!Max
        <5>3. top(CHOOSE j : top(j))
          BY <5>1
        <5>4. \A j : top(j) => j = k - 1
          BY <4>1, <4>2
        <5>. QED  BY <5>2, <5>3, <5>4
      <4>. QED  BY <3>2, <3>4, <4>1, <4>3 DEF Before
    <3>. QED  BY <3>3, <3>4
  <2>9. k = Len(moves) => moves'[k + 1] - Before(k)' = csx
    <3>. SUFFICES ASSUME k = Len(moves) PROVE moves'[k + 1] - Before(k)' = csx
      OBVIOUS
    <3>1. Before(k)' = Before(k)
      BY <1>1, <2>5, <2>7 DEF Before
    <3>2. moves'[k + 1] = at + csx /\ Before(k) = at
      BY <2>1, <2>3, <2>6, <2>7, <2>8 DEF AtClient
    <3>3. csx \in Int
      BY DEF PointerInv, PointerType
    <3>. QED  BY <1>2, <3>1, <3>2, <3>3
  <2>10. Moved'
    <3>1. NotAsking' /\ sx' = csx' /\ warp' = 0 /\ Replies' = {} /\ ~warped'
      BY <1>1, <2>3 DEF AtClient, NotAsking, Replies
    <3>2. k \in DOMAIN moves' /\ moves'[k] = Mark /\ k < Len(moves')
      BY <2>5, <2>7
    <3>3. Len(moves') = k + 1 => moves'[k + 1] - Before(k)' = csx'
      <4>1. Len(moves') = k + 1 => k = Len(moves)
        BY <2>5, <2>7
      <4>. QED  BY <1>1, <2>9, <4>1
    <3>. QED  BY <3>1, <3>2, <3>3 DEF Moved, Before
  <2>. QED  BY <1>1, <2>2, <2>3, <2>10 DEF Together, Following
<1>. QED  BY <1>3, <1>6, <1>7 DEF MeetInv

(* The client sees the mark.                                               *)
LEMMA MarkMeets ==
    ASSUME PointerInv, MeetInv, P!HandleMark
    PROVE  MeetInv'
<1>1. /\ warp = 0 /\ moves # <<>> /\ Head(moves) = Mark /\ moves' = Tail(moves) /\ warped'
      /\ UNCHANGED <<xpos, gpos, cpos, csx, pending, asks, down, up, sx, px, warp, at, apart>>
  BY DEF P!HandleMark, P!asked
<1>2. MeetType /\ Connected /\ (~apart => Together)
  BY DEF MeetInv
<1>3. /\ moves' \in Seq(P!Around \cup {Mark}) /\ Head(moves) = moves[1]
      /\ Len(moves') = Len(moves) - 1 /\ Len(moves) \in Nat \ {0}
      /\ DOMAIN moves = 1 .. Len(moves)
      /\ \A i \in 1 .. Len(moves) - 1 : moves'[i] = moves[i + 1]
      /\ moves' = <<>> <=> Len(moves) = 1
  BY <1>1, <1>2, QueueTail
<1>4. MeetType'
  BY <1>1, <1>2, <1>3 DEF MeetType
<1>5. Connected'
  BY <1>1, <1>2, ConnectedKept
<1>6. P!Marks = {1} /\ sx # 0 /\ ~warped
  <2>1. 1 \in P!Marks
    BY <1>1, <1>3 DEF P!Marks
  <2>. QED  BY <2>1 DEF PointerInv, OneAnswer
<1>7. ASSUME ~apart' PROVE Together'
  <2>1. Together /\ csx # 0
    BY <1>1, <1>2, <1>6, <1>7, UnderWayIs DEF Together
  <2>2. Moved /\ gpos = cpos /\ xpos = cpos + csx
    BY <1>1, <1>6, <2>1 DEF Together, Following, OnServer, OnWire, AtClient, Noticed, Replied
  <2>3. PICK k \in DOMAIN moves : /\ moves[k] = Mark /\ k < Len(moves)
                                  /\ Len(moves) = k + 1 => moves[k + 1] - Before(k) = csx
    BY <2>2 DEF Moved
  <2>4. k = 1
    BY <1>6, <2>3 DEF P!Marks
  <2>5. moves' # <<>>
    BY <1>3, <2>3, <2>4
  <2>6. Len(moves') = 1 => moves'[1] - px' = csx'
    <3>. SUFFICES ASSUME Len(moves') = 1 PROVE moves'[1] - px' = csx'
      OBVIOUS
    <3>1. Len(moves) = 2 /\ moves'[1] = moves[2] /\ Before(1) = px
      <4>1. Len(moves) = 2
        <5>1. PICK n \in Nat : n = Len(moves)
          BY <1>3
        <5>2. n - 1 = 1
          BY <1>3, <5>1
        <5>3. n = 2
          BY <5>2
        <5>. QED  BY <5>1, <5>3
      <4>. QED  BY <1>3, <4>1 DEF Before
    <3>2. moves[2] - px = csx
      BY <2>3, <2>4, <3>1
    <3>. QED  BY <1>1, <3>1, <3>2
  <2>7. NotAsking' /\ Replies' = {}
    BY <1>1, <2>2 DEF Moved, NotAsking, Replies
  <2>8. sx' = csx' /\ warp' = 0
    BY <1>1, <2>2 DEF Moved
  <2>9. Noticed'
    BY <1>1, <2>5, <2>6, <2>7, <2>8 DEF Noticed
  <2>. QED  BY <1>1, <2>1, <2>2, <2>9 DEF Together, Following
<1>. QED  BY <1>4, <1>5, <1>7 DEF MeetInv

(* The client reports a motion, as the answer if the mark was seen.        *)
LEMMA MotionMeets ==
    ASSUME PointerInv, MeetInv, P!HandleMotion
    PROVE  MeetInv'
<1>. DEFINE m == IF warped THEN [kind |-> "sync", x |-> (Head(moves) - px) % M]
                           ELSE [kind |-> "pointer", x |-> Head(moves) % M]
<1>1. /\ warp = 0 /\ moves # <<>> /\ Head(moves) # Mark /\ moves' = Tail(moves)
      /\ px' = Head(moves) /\ warped' = FALSE /\ up' = Append(up, m)
      /\ sx' = IF warped THEN 0 ELSE sx
      /\ UNCHANGED <<xpos, gpos, cpos, csx, pending, asks, down, warp, at, apart>>
  BY DEF P!HandleMotion, P!asked
<1>2. MeetType /\ Connected /\ (~apart => Together) /\ PointerType
  BY DEF MeetInv, PointerInv
<1>3. /\ moves' \in Seq(P!Around \cup {Mark})
      /\ Head(moves) \in P!Around \cup {Mark} /\ Head(moves) = moves[1]
      /\ Len(moves') = Len(moves) - 1 /\ Len(moves) \in Nat \ {0}
      /\ DOMAIN moves = 1 .. Len(moves) /\ DOMAIN moves' = 1 .. Len(moves) - 1
      /\ \A i \in 1 .. Len(moves) - 1 : moves'[i] = moves[i + 1]
      /\ moves' = <<>> <=> Len(moves) = 1
  BY <1>1, <1>2, QueueTail
<1>4. Head(moves) \in P!Around /\ px \in P!Around /\ Head(moves) \in Int /\ px \in Int
  BY <1>1, <1>2, <1>3, Travel DEF MeetType
<1>5. P!Arrive(px, m) = Head(moves) /\ m \in Report
  <2>1. CASE warped
    <3>1. /\ m.kind = "sync" /\ m.x = (Head(moves) - px) % M
          /\ P!Signed(m.x) = Head(moves) - px /\ m.x \in Int
      BY <1>4, <2>1, Travel
    <3>2. P!Arrive(px, m) = px + P!Signed(m.x)
      BY <3>1 DEF P!Arrive
    <3>3. m \in Report
      BY <2>1, <3>1 DEF Report
    <3>. QED  BY <1>4, <3>1, <3>2, <3>3
  <2>2. CASE ~warped
    <3>1. m.kind = "pointer" /\ m.x = Head(moves)
      BY <1>4, <2>2, Travel
    <3>. QED  BY <1>4, <2>2, <3>1 DEF P!Arrive, Report
  <2>. QED  BY <2>1, <2>2
<1>6. m.kind = IF warped THEN "sync" ELSE "pointer"
  OBVIOUS
<1>7. warped => m.x = (Head(moves) - px) % M
  OBVIOUS
<1>. HIDE DEF m
<1>8. Connected'
  <2>1. PICK r : Through(r)
    BY <1>2 DEF Connected
  <2>. QED  BY <1>1, <1>2, <1>4, <1>5, <2>1, ThroughAppend
<1>9. MeetType'
  BY <1>1, <1>2, <1>3, <1>4 DEF MeetType
<1>10. /\ Replies' = IF warped THEN Replies \cup {Len(up) + 1} ELSE Replies
       /\ up' # <<>> /\ Len(up') = Len(up) + 1 /\ Len(up) \in Nat
       /\ DOMAIN up = 1 .. Len(up) /\ DOMAIN up' = 1 .. Len(up) + 1
       /\ up'[Len(up) + 1] = m
  <2>1. Replies' = IF warped THEN Replies \cup {Len(up) + 1} ELSE Replies
    BY <1>1, <1>2, <1>6, RepliesAppend
  <2>2. up \in Seq(Report) /\ up' = Append(up, m) /\ m \in Report
    BY <1>1, <1>2, <1>5 DEF PointerType
  <2>3. /\ Len(up') = Len(up) + 1 /\ Len(up) \in Nat
        /\ DOMAIN up = 1 .. Len(up) /\ DOMAIN up' = 1 .. Len(up) + 1
        /\ up'[Len(up) + 1] = m
    BY <2>2
  <2>4. up' # <<>>
    BY <2>3
  <2>. QED  BY <2>1, <2>3, <2>4
<1>11. NotAsking' <=> NotAsking
  BY <1>1 DEF NotAsking
<1>12. ASSUME ~apart' PROVE Together'
  <2>1. Together
    BY <1>1, <1>2, <1>12
  <2>2. CASE csx = 0
    <3>1. ~pending /\ ~asks /\ down = <<>> /\ sx = 0 /\ Replies = {}
      BY <2>1, <2>2, UnderWayIs DEF Together
    <3>2. ~warped
      BY <3>1 DEF PointerInv, OneAnswer
    <3>3. Replies' = {} /\ sx' = 0
      BY <1>1, <1>10, <3>1, <3>2
    <3>4. ~P!UnderWay'
      BY <1>1, <2>2, <3>1, <3>3 DEF P!UnderWay, Replies
    <3>. QED  BY <1>1, <1>10, <2>2, <3>4 DEF Together
  <2>3. CASE csx # 0
    <3>1. gpos = cpos /\ xpos = cpos + csx /\ Following
      BY <2>1, <2>3 DEF Together
    <3>2. CASE warped
      <4>1. sx # 0 /\ ~AtClient /\ ~Moved
        BY <3>2 DEF PointerInv, OneAnswer, AtClient, Moved
      <4>2. Noticed
        BY <3>1, <4>1 DEF Following, OnServer, OnWire, Replied
      <4>3. Replies' = {Len(up) + 1}
        BY <1>10, <3>2, <4>2 DEF Noticed
      <4>4. moves' = <<>> => P!Signed(up'[Len(up) + 1].x) = csx
        <5>. SUFFICES ASSUME moves' = <<>> PROVE P!Signed(up'[Len(up) + 1].x) = csx
          OBVIOUS
        <5>1. Head(moves) - px = csx
          BY <1>3, <4>2 DEF Noticed
        <5>2. up'[Len(up) + 1].x = (Head(moves) - px) % M
          BY <1>7, <1>10, <3>2
        <5>3. P!Signed((Head(moves) - px) % M) = Head(moves) - px
          BY <1>4, Travel
        <5>. QED  BY <5>1, <5>2, <5>3
      <4>5. Replied'
        <5>1. NotAsking' /\ sx' = 0
          BY <1>1, <1>11, <3>2, <4>2 DEF Noticed
        <5>2. Len(up) + 1 \in DOMAIN up'
          BY <1>10
        <5>. QED  BY <1>1, <4>3, <4>4, <5>1, <5>2 DEF Replied, P!Signed
      <4>. QED  BY <1>1, <2>3, <3>1, <4>5 DEF Together, Following
    <3>3. CASE ~warped
      <4>1. Replies' = Replies /\ sx' = sx /\ ~warped'
        BY <1>1, <1>10, <3>3
      <4>2. ~AtClient /\ ~Noticed
        BY <1>1, <2>3, <3>3 DEF AtClient, Noticed
      <4>3. (OnServer => OnServer') /\ (OnWire => OnWire')
        BY <1>1, <4>1 DEF OnServer, OnWire
      <4>4. Moved => Moved'
        <5>. SUFFICES ASSUME Moved PROVE Moved'
          OBVIOUS
        <5>1. PICK k \in DOMAIN moves :
                /\ moves[k] = Mark /\ k < Len(moves)
                /\ Len(moves) = k + 1 => moves[k + 1] - Before(k) = csx
          BY DEF Moved
        <5>2. k # 1 /\ k \in 1 .. Len(moves)
          BY <1>1, <1>3, <5>1
        <5>3. /\ k - 1 \in DOMAIN moves' /\ moves'[k - 1] = Mark /\ k - 1 < Len(moves')
          <6>1. k - 1 \in 1 .. Len(moves) - 1 /\ (k - 1) + 1 = k
            BY <1>3, <5>2
          <6>. QED  BY <1>3, <5>1, <6>1
        <5>4. Before(k - 1)' = Before(k)
          <6>1. CASE k = 2
            <7>1. k - 1 = 1
              BY <6>1
            <7>. QED  BY <1>1, <1>3, <6>1, <7>1 DEF Before
          <6>2. CASE k # 2
            <7>1. k - 2 \in 1 .. Len(moves) - 1 /\ (k - 2) + 1 = k - 1 /\ (k - 1) - 1 = k - 2
                  /\ k - 1 # 1
              BY <1>3, <5>2, <6>2
            <7>2. moves'[k - 2] = moves[k - 1]
              BY <1>3, <7>1
            <7>. QED  BY <5>2, <7>1, <7>2 DEF Before
          <6>. QED  BY <6>1, <6>2
        <5>5. Len(moves') = (k - 1) + 1 => moves'[(k - 1) + 1] - Before(k - 1)' = csx'
          <6>. SUFFICES ASSUME Len(moves') = (k - 1) + 1
                        PROVE  moves'[(k - 1) + 1] - Before(k - 1)' = csx'
            OBVIOUS
          <6>1. Len(moves) = k + 1 /\ (k - 1) + 1 = k /\ k \in 1 .. Len(moves) - 1
            BY <1>3, <5>2
          <6>2. moves'[k] = moves[k + 1]
            BY <1>3, <6>1
          <6>. QED  BY <1>1, <5>1, <5>4, <6>1, <6>2
        <5>6. NotAsking' /\ sx' = csx' /\ warp' = 0 /\ Replies' = {}
          BY <1>1, <1>11, <4>1 DEF Moved
        <5>. QED  BY <4>1, <5>3, <5>5, <5>6 DEF Moved, Before
      <4>5. Replied => Replied'
        <5>. SUFFICES ASSUME Replied PROVE Replied'
          OBVIOUS
        <5>1. PICK i \in DOMAIN up : Replies = {i}
          BY DEF Replied
        <5>2. i \in DOMAIN up' /\ i # Len(up')
          BY <1>10, <5>1
        <5>. QED  BY <1>11, <4>1, <5>1, <5>2 DEF Replied
      <4>. QED  BY <1>1, <2>3, <3>1, <4>2, <4>3, <4>4, <4>5 DEF Together, Following
    <3>. QED  BY <3>2, <3>3
  <2>. QED  BY <2>2, <2>3
<1>. QED  BY <1>8, <1>9, <1>12 DEF MeetInv

LEMMA MeetInit == MCInit => MeetInv
<1>. SUFFICES ASSUME MCInit PROVE MeetInv
  OBVIOUS
<1>1. P!Init \/ Unmoved
  BY DEF MCInit
<1>2. 0 \in P!Place /\ 0 \in P!Around
  BY DesktopAssumption DEF P!PointerAssumption, P!Place, P!Around
<1>3. /\ cpos = 0 /\ px = 0 /\ up = <<>> /\ moves = <<>> /\ sx = 0 /\ warp = 0
      /\ pending = FALSE /\ asks = FALSE /\ apart = TRUE
  BY <1>1 DEF P!Init, Unmoved
<1>4. xpos \in P!Place /\ at \in P!Around
  BY <1>1, <1>2, Travel DEF P!Init, Unmoved
<1>5. moves \in Seq(P!Around \cup {Mark})
  BY <1>3
<1>6. MeetType
  BY <1>2, <1>3, <1>4, <1>5, Zenon DEF MeetType
<1>7. Connected
  <2>1. PICK r : r = [i \in 0 .. 0 |-> 0]
    OBVIOUS
  <2>2. Len(up) = 0
    BY <1>3
  <2>3. Through(r)
    BY <1>2, <1>3, <2>1, <2>2 DEF Through
  <2>. QED  BY <2>3 DEF Connected
<1>. QED  BY <1>3, <1>6, <1>7 DEF MeetInv

LEMMA MeetStep ==
    ASSUME PointerInv, MeetInv, [P!Next]_pointer
    PROVE  MeetInv'
<1>1. CASE UNCHANGED pointer
  <2>1. /\ UNCHANGED <<up, cpos, px>>
        /\ UNCHANGED <<pending, asks, down, sx, csx, up, warp, warped, moves, px>>
        /\ UNCHANGED <<xpos, gpos, at, apart>>
    BY <1>1 DEF pointer
  <2>2. Connected'
    BY <2>1, ConnectedKept DEF MeetInv
  <2>3. Following' <=> Following
    BY <2>1, FollowingKept
  <2>4. MeetType'
    BY <2>1 DEF MeetInv, MeetType
  <2>5. Together' <=> Together
    BY <2>1, <2>3 DEF Together, P!UnderWay
  <2>. QED  BY <2>1, <2>2, <2>4, <2>5 DEF MeetInv
<1>. QED
  BY <1>1, OthersMeet, AskingMeets, ReceivedMeets, RequestMeets, UserMeets, WarpMeets,
     MarkMeets, MotionMeets DEF P!Next

(* A set of numbers has a least one.                                       *)
LEMMA LeastOf ==
    ASSUME NEW N \in SUBSET Nat, N # {}
    PROVE  \E n \in N : \A m \in N : n <= m
<1>. DEFINE R == {pair \in Nat \X Nat : pair[1] < pair[2]}
<1>1. IsWellFoundedOn(R, Nat)
  BY NatLessThanWellFounded, Zenon DEF OpToRel
<1>2. \A m \in Nat, n \in Nat : <<m, n>> \in R <=> m < n
  OBVIOUS
<1>. HIDE DEF R
<1>3. PICK n \in N : \A m \in N : <<m, n>> \notin R
  BY <1>1, WFMin
<1>4. ASSUME NEW m \in N PROVE n <= m
  <2>1. m \in Nat /\ n \in Nat /\ ~(m < n)
    BY <1>2, <1>3
  <2>. QED  BY <2>1
<1>. QED  BY <1>4

(* Where the server's place arrives is where the client's pointer is.      *)
LEMMA ArrivedIs ==
    ASSUME PointerType, NEW r, Through(r)
    PROVE  P!Arrived = px
<1>. DEFINE Places(f) == f = [i \in 0 .. Len(up) |->
                                IF i = 0 THEN cpos ELSE P!Arrive(f[i - 1], up[i])]
<1>1. /\ Len(up) \in Nat /\ r \in [0 .. Len(up) -> P!Around] /\ r[0] = cpos /\ r[Len(up)] = px
      /\ \A i \in 1 .. Len(up) : r[i] = P!Arrive(r[i - 1], up[i])
  BY DEF Through, PointerType
<1>2. Places(r)
  <2>1. ASSUME NEW i \in 0 .. Len(up)
        PROVE  r[i] = IF i = 0 THEN cpos ELSE P!Arrive(r[i - 1], up[i])
    <3>1. CASE i = 0
      BY <1>1, <3>1
    <3>2. CASE i # 0
      <4>1. i \in 1 .. Len(up)
        BY <1>1, <3>2
      <4>. QED  BY <1>1, <3>2, <4>1
    <3>. QED  BY <3>1, <3>2
  <2>. QED  BY <1>1, <2>1
<1>3. ASSUME NEW f, Places(f) PROVE f[Len(up)] = px
  <2>. DEFINE Bad == {i \in 0 .. Len(up) : f[i] # r[i]}
  <2>1. SUFFICES ASSUME Bad # {} PROVE FALSE
    BY <1>1
  <2>2. PICK k \in Bad : \A j \in Bad : k <= j
    <3>1. Bad \in SUBSET Nat
      BY <1>1
    <3>. HIDE DEF Bad
    <3>. QED  BY <2>1, <3>1, LeastOf
  <2>3. k \in 0 .. Len(up) /\ f[k] # r[k]
    BY <2>2
  <2>4. f[k] = IF k = 0 THEN cpos ELSE P!Arrive(f[k - 1], up[k])
    BY <1>3, <2>3
  <2>5. CASE k = 0
    BY <1>1, <2>3, <2>4, <2>5
  <2>6. CASE k # 0
    <3>1. k \in 1 .. Len(up) /\ k - 1 \in 0 .. Len(up) /\ ~(k <= k - 1)
      BY <1>1, <2>3, <2>6
    <3>2. f[k - 1] = r[k - 1]
      BY <2>2, <3>1
    <3>. HIDE DEF Places
    <3>. QED  BY <1>1, <2>3, <2>4, <2>6, <3>1, <3>2
  <2>. QED  BY <2>5, <2>6
<1>4. P!Arrived = (CHOOSE f : Places(f))[Len(up)]
  BY DEF P!Arrived
<1>. HIDE DEF Places
<1>5. Places(CHOOSE f : Places(f))
  BY <1>2
<1>. QED  BY <1>3, <1>4, <1>5

LEMMA Meeting ==
    ASSUME PointerInv, MeetInv
    PROVE  P!Meets
<1>1. PICK r : Through(r)
  BY DEF MeetInv, Connected
<1>2. P!Arrived = px
  BY <1>1, ArrivedIs DEF PointerInv
<1>3. ASSUME P!Settled, ~apart PROVE xpos = px
  <2>1. /\ ~P!UnderWay /\ up = <<>> /\ moves = <<>> /\ (gpos = cpos => xpos = cpos)
    BY <1>3 DEF P!Settled
  <2>2. csx = 0 /\ Together
    BY <1>3, <2>1, UnderWayIs DEF MeetInv
  <2>3. xpos = cpos
    BY <2>1, <2>2 DEF Together
  <2>4. cpos = px
    <3>1. Len(up) = 0
      BY <2>1
    <3>. QED  BY <1>1, <3>1 DEF Through
  <2>. QED  BY <2>3, <2>4
<1>. QED  BY <1>2, <1>3 DEF P!Meets

(* However the two sides move and whatever is under way, the server knows  *)
(* where the client's pointer was reported last; and when all is said both *)
(* pointers are at the same position, unless they crossed or met an edge.  *)
THEOREM MeetsCorrect == MCSpec => []Meets
<1>1. ASSUME PointerInv, MeetInv, [MCNext]_<<part, vars, pointer, clipboard, keyboard>>
      PROVE  PointerInv' /\ MeetInv'
  <2>1. [P!Next]_pointer
    BY <1>1 DEF MCNext, CursorNext, PointerNext, ClipboardNext, KeyboardNext
  <2>. QED  BY <1>1, <2>1, PointerStep, MeetStep
<1>2. PointerInv /\ MeetInv => Meets
  BY Meeting DEF Meets
<1>3. MCInit => PointerInv
  BY PointerInit
<1>. QED  BY <1>1, <1>2, <1>3, MeetInit, PTL DEF MCSpec

-----------------------------------------------------------------------------
(* The clipboard.                                                          *)

(* What the programs of a desktop copied.                                  *)
Copied(d) == {t \in Text : C!CopiedAt(d, t)}

Target == {"utf8", "string"}
Event == [kind : {"owner"}, sel : C!Selection, who : Text \cup {NoText, Us}]
         \cup [kind : {"answer"}, sel : C!Selection, target : Target, ok : BOOLEAN]

(* Whatever a desktop holds of the kind that may be passed on was copied   *)
(* by one of its own programs.                                             *)
Owners(d) == owner[d] \in [C!Selection -> Copied(d) \cup {NoText, Us}]
Questions(d) == asked[d] \subseteq [sel : C!Selection, target : Target, text : Copied(d)]
Answers(d) == property[d] \in [C!Selection -> Copied(d) \cup {NoText}]
Got(d) == get[d] \in Copied(d) \cup {NoText}
Events(d) == news[d] \in Seq(Event)

Honest(d) == Owners(d) /\ Questions(d) /\ Answers(d) /\ Got(d) /\ Events(d)

ClipboardType ==
    /\ copies \in Seq([at : C!Desktop, text : Text])
    /\ DOMAIN owner = C!Desktop /\ DOMAIN asked = C!Desktop
    /\ DOMAIN property = C!Desktop /\ DOMAIN get = C!Desktop
    /\ DOMAIN news = C!Desktop /\ DOMAIN link = C!Desktop

ClipboardInv ==
    /\ ClipboardType
    /\ \A d \in C!Desktop : Honest(d)
    /\ passing \in Copied("server") \cup {NoText}
    /\ link["server"] \in Seq(Copied("client"))

LEMMA Texts == NoText \notin Text /\ Us \notin Text /\ NoText # Us
  BY DesktopAssumption DEF C!ClipboardAssumption

LEMMA ClipboardInit ==
    ASSUME C!Init
    PROVE  ClipboardInv
<1>1. copies = <<>> /\ <<>> \in Seq([at : C!Desktop, text : Text])
  BY DEF C!Init
<1>2. ClipboardType
  BY <1>1 DEF C!Init, ClipboardType
<1>3. ASSUME NEW d \in C!Desktop PROVE Honest(d)
  <2>1. Owners(d) /\ Answers(d)
    BY DEF C!Init, Owners, Answers
  <2>2. Questions(d) /\ Got(d)
    BY DEF C!Init, Questions, Got
  <2>3. Events(d)
    <3>1. news[d] = <<>> /\ <<>> \in Seq(Event)
      BY DEF C!Init
    <3>. QED  BY <3>1 DEF Events
  <2>. QED  BY <2>1, <2>2, <2>3 DEF Honest
<1>4. link["server"] \in Seq(Copied("client"))
  <2>1. link["server"] = <<>> /\ <<>> \in Seq(Copied("client"))
    BY DEF C!Init, C!Desktop
  <2>. QED  BY <2>1
<1>5. passing \in Copied("server") \cup {NoText}
  BY DEF C!Init
<1>. QED  BY <1>2, <1>3, <1>4, <1>5 DEF ClipboardInv

(* A desktop that nothing happened to is as honest as before, also when    *)
(* more was copied.                                                        *)
LEMMA HonestKept ==
    ASSUME NEW d, Honest(d), Copied(d) \subseteq Copied(d)',
           owner'[d] = owner[d], asked'[d] = asked[d], property'[d] = property[d],
           get'[d] = get[d], news'[d] = news[d]
    PROVE  Honest(d)'
<1>. DEFINE T == Copied(d)
            U == Copied(d)'
<1>1. T \subseteq U
  OBVIOUS
<1>2. /\ owner[d] \in [C!Selection -> T \cup {NoText, Us}]
      /\ property[d] \in [C!Selection -> T \cup {NoText}]
      /\ asked[d] \subseteq [sel : C!Selection, target : Target, text : T]
      /\ get[d] \in T \cup {NoText} /\ news[d] \in Seq(Event)
  BY DEF Honest, Owners, Questions, Answers, Got, Events
<1>. HIDE DEF T, U
<1>3. /\ owner[d] \in [C!Selection -> U \cup {NoText, Us}]
      /\ property[d] \in [C!Selection -> U \cup {NoText}]
  BY <1>1, <1>2
<1>4. asked[d] \subseteq [sel : C!Selection, target : Target, text : U]
  BY <1>1, <1>2
<1>5. get[d] \in U \cup {NoText}
  BY <1>1, <1>2
<1>. QED  BY <1>2, <1>3, <1>4, <1>5 DEF Honest, Owners, Questions, Answers, Got, Events, U

(* Nothing was copied in this step.                                        *)
LEMMA CopiedKept ==
    ASSUME UNCHANGED copies, NEW d
    PROVE  Copied(d)' = Copied(d)
  BY DEF Copied, C!CopiedAt

(* The owners of the selections are told one after the other.              *)
LEMMA OrderOf ==
    ASSUME NEW S \in (SUBSET C!Selection) \ {{}}, NEW order \in C!SetToSeqs(S)
    PROVE  order \in [1 .. Cardinality(S) -> S] /\ Cardinality(S) \in Nat \ {0}
<1>1. IsFiniteSet(C!Selection)
  <2>1. IsFiniteSet({"primary"})
    BY FS_Singleton
  <2>2. IsFiniteSet({"primary"} \cup {"clipboard"})
    BY <2>1, FS_AddElement
  <2>3. C!Selection = {"primary"} \cup {"clipboard"}
    BY DEF C!Selection
  <2>. QED  BY <2>2, <2>3
<1>2. IsFiniteSet(S) /\ Cardinality(S) \in Nat
  BY <1>1, FS_Subset, FS_CardinalityType
<1>3. Cardinality(S) # 0
  <2>1. S # {}
    OBVIOUS
  <2>. QED  BY <1>2, <2>1, FS_EmptySet
<1>4. C!Cardinality(S) = Cardinality(S)
  BY Zenon DEF C!Cardinality, C!IsFiniteSet, Cardinality, IsFiniteSet
<1>. QED  BY <1>2, <1>3, <1>4 DEF C!SetToSeqs

LEMMA CopyStep ==
    ASSUME ClipboardInv, NEW d \in C!Desktop, NEW t \in Text,
           NEW S \in (SUBSET C!Selection) \ {{}}, C!Copy(d, t, S)
    PROVE  ClipboardInv'
<1>. DEFINE new == [at |-> d, text |-> t]
<1>1. /\ copies' = Append(copies, new) /\ copies \in Seq([at : C!Desktop, text : Text])
      /\ UNCHANGED <<asked, property, get, passing, link>>
  BY DEF C!Copy, ClipboardInv, ClipboardType
<1>2. /\ copies' \in Seq([at : C!Desktop, text : Text])
      /\ Len(copies) \in Nat /\ DOMAIN copies = 1 .. Len(copies)
      /\ DOMAIN copies' = 1 .. Len(copies) + 1
      /\ copies'[Len(copies) + 1] = new
      /\ \A i \in 1 .. Len(copies) : copies'[i] = copies[i]
  BY <1>1
<1>3. \A c : Copied(c) \subseteq Copied(c)'
  <2>1. ASSUME NEW c, NEW u \in Text, C!CopiedAt(c, u) PROVE C!CopiedAt(c, u)'
    BY <1>2, <2>1 DEF C!CopiedAt
  <2>. QED  BY <2>1 DEF Copied
<1>4. t \in Copied(d)'
  <2>1. C!CopiedAt(d, t)'
    <3>1. Len(copies) + 1 \in DOMAIN copies'
      BY <1>2
    <3>. QED  BY <1>2, <3>1 DEF C!CopiedAt
  <2>. QED  BY <2>1 DEF Copied
<1>5. PICK order \in C!SetToSeqs(S) :
         news' = [news EXCEPT ![d] = @ \o [i \in DOMAIN order |-> C!Owned(order[i], t)]]
  BY DEF C!Copy
<1>6. order \in [1 .. Cardinality(S) -> S] /\ Cardinality(S) \in Nat
  BY <1>5, OrderOf
<1>. DEFINE heard == [i \in DOMAIN order |-> C!Owned(order[i], t)]
<1>7. heard \in Seq(Event)
  <2>1. \A s \in C!Selection : C!Owned(s, t) \in Event
    BY DEF C!Owned, Event
  <2>2. heard \in [1 .. Cardinality(S) -> Event]
    BY <1>6, <2>1
  <2>. QED  BY <1>6, <2>2
<1>. HIDE DEF heard, new
<1>8. ASSUME NEW c \in C!Desktop \ {d} PROVE Honest(c)'
  <2>1. owner'[c] = owner[c] /\ news'[c] = news[c]
    BY <1>5 DEF C!Copy, ClipboardInv, ClipboardType
  <2>. QED  BY <1>1, <1>3, <2>1, HonestKept DEF ClipboardInv
<1>9. Honest(d)'
  <2>. DEFINE T == Copied(d)
              U == Copied(d)'
  <2>1. t \in U /\ T \subseteq U /\ Honest(d)
    BY <1>3, <1>4 DEF ClipboardInv
  <2>2. /\ owner'[d] = [s \in C!Selection |-> IF s \in S THEN t ELSE owner[d][s]]
        /\ news'[d] = news[d] \o heard
    BY <1>5 DEF C!Copy, ClipboardInv, ClipboardType, heard
  <2>3. /\ owner[d] \in [C!Selection -> T \cup {NoText, Us}]
        /\ property'[d] \in [C!Selection -> T \cup {NoText}]
        /\ asked'[d] \subseteq [sel : C!Selection, target : Target, text : T]
        /\ get'[d] \in T \cup {NoText} /\ news[d] \in Seq(Event)
    BY <1>1, <2>1 DEF Honest, Owners, Questions, Answers, Got, Events
  <2>. HIDE DEF T, U
  <2>4. owner'[d] \in [C!Selection -> U \cup {NoText, Us}]
    BY <2>1, <2>2, <2>3
  <2>5. property'[d] \in [C!Selection -> U \cup {NoText}] /\ get'[d] \in U \cup {NoText}
    BY <2>1, <2>3
  <2>6. asked'[d] \subseteq [sel : C!Selection, target : Target, text : U]
    BY <2>1, <2>3
  <2>7. news'[d] \in Seq(Event)
    BY <1>7, <2>2, <2>3
  <2>. QED
    BY <2>4, <2>5, <2>6, <2>7 DEF Honest, Owners, Questions, Answers, Got, Events, U
<1>10. ClipboardType'
  <2>1. DOMAIN owner' = C!Desktop /\ DOMAIN news' = C!Desktop
    BY <1>5 DEF C!Copy, ClipboardInv, ClipboardType
  <2>. QED  BY <1>1, <1>2, <2>1 DEF ClipboardInv, ClipboardType
<1>11. /\ passing' \in Copied("server")' \cup {NoText}
       /\ link'["server"] \in Seq(Copied("client")')
  <2>. DEFINE T == Copied("client")
              U == Copied("client")'
  <2>1. T \subseteq U /\ link["server"] \in Seq(T)
    BY <1>3 DEF ClipboardInv
  <2>. HIDE DEF T, U
  <2>2. link["server"] \in Seq(U)
    BY <2>1, SeqMonotonic
  <2>. QED  BY <1>1, <1>3, <2>2 DEF ClipboardInv, U
<1>. QED  BY <1>8, <1>9, <1>10, <1>11 DEF ClipboardInv

LEMMA ExitStep ==
    ASSUME ClipboardInv, NEW d \in C!Desktop, NEW t \in Text, C!Exit(d, t)
    PROVE  ClipboardInv'
<1>1. UNCHANGED <<news, property, get, passing, link, copies>>
  BY DEF C!Exit
<1>2. \A c : Copied(c)' = Copied(c)
  BY <1>1, CopiedKept
<1>3. /\ owner' = [owner EXCEPT ![d] =
                     [s \in C!Selection |-> IF @[s] = t THEN NoText ELSE @[s]]]
      /\ asked' = [asked EXCEPT ![d] = {a \in @ : a.text # t}]
  BY DEF C!Exit
<1>4. ClipboardType'
  BY <1>1, <1>3 DEF ClipboardInv, ClipboardType
<1>5. ASSUME NEW c \in C!Desktop \ {d} PROVE Honest(c)'
  BY <1>1, <1>2, <1>3, HonestKept DEF ClipboardInv, ClipboardType
<1>6. Honest(d)'
  <2>1. /\ owner'[d] = [s \in C!Selection |-> IF owner[d][s] = t THEN NoText ELSE owner[d][s]]
        /\ asked'[d] \subseteq asked[d]
    BY <1>3 DEF ClipboardInv, ClipboardType
  <2>2. Owners(d)'
    BY <1>2, <2>1 DEF ClipboardInv, Honest, Owners
  <2>3. Questions(d)'
    BY <1>2, <2>1 DEF ClipboardInv, Honest, Questions
  <2>4. Answers(d)' /\ Got(d)' /\ Events(d)'
    BY <1>1, <1>2 DEF ClipboardInv, Honest, Answers, Got, Events
  <2>. QED  BY <2>2, <2>3, <2>4 DEF Honest
<1>. QED  BY <1>1, <1>2, <1>4, <1>5, <1>6 DEF ClipboardInv

LEMMA ReplyStep ==
    ASSUME ClipboardInv, NEW d \in C!Desktop, NEW a \in asked[d], C!Reply(d, a)
    PROVE  ClipboardInv'
<1>1. UNCHANGED <<owner, get, passing, link, copies>>
  BY DEF C!Reply
<1>2. \A c : Copied(c)' = Copied(c)
  BY <1>1, CopiedKept
<1>3. PICK ok \in BOOLEAN :
        /\ asked' = [asked EXCEPT ![d] = @ \ {a}]
        /\ news' = [news EXCEPT ![d] = Append(@, C!Answer(a.sel, a.target, ok))]
        /\ property' = IF ok THEN [property EXCEPT ![d][a.sel] = a.text] ELSE property
  BY DEF C!Reply
<1>4. ClipboardType'
  BY <1>1, <1>3 DEF ClipboardInv, ClipboardType
<1>5. ASSUME NEW c \in C!Desktop \ {d} PROVE Honest(c)'
  <2>1. asked'[c] = asked[c] /\ news'[c] = news[c] /\ property'[c] = property[c]
    BY <1>3 DEF ClipboardInv, ClipboardType
  <2>. QED  BY <1>1, <1>2, <2>1, HonestKept DEF ClipboardInv
<1>6. Honest(d)'
  <2>. DEFINE e == C!Answer(a.sel, a.target, ok)
  <2>1. Honest(d) /\ a \in [sel : C!Selection, target : Target, text : Copied(d)]
    BY DEF ClipboardInv, Honest, Questions
  <2>2. a.sel \in C!Selection /\ a.target \in Target /\ a.text \in Copied(d)
    BY <2>1
  <2>3. e \in Event
    BY <2>2 DEF C!Answer, Event
  <2>. HIDE DEF e
  <2>4. news'[d] = Append(news[d], e) /\ asked'[d] \subseteq asked[d]
    BY <1>3 DEF ClipboardInv, ClipboardType, e
  <2>5. property'[d] = [property[d] EXCEPT ![a.sel] = a.text] \/ property'[d] = property[d]
    BY <1>3 DEF ClipboardInv, ClipboardType
  <2>6. Answers(d)'
    BY <1>2, <2>1, <2>2, <2>5 DEF Honest, Answers
  <2>7. Questions(d)'
    BY <1>2, <2>1, <2>4 DEF Honest, Questions
  <2>8. Events(d)'
    BY <2>1, <2>3, <2>4 DEF Honest, Events
  <2>9. Owners(d)' /\ Got(d)'
    BY <1>1, <1>2, <2>1 DEF Honest, Owners, Got
  <2>. QED  BY <2>6, <2>7, <2>8, <2>9 DEF Honest
<1>. QED  BY <1>1, <1>2, <1>4, <1>5, <1>6 DEF ClipboardInv

(* The next event of a selection: what is got by it is an answer, and who  *)
(* is asked for one is a program of this desktop.                          *)
LEMMA SelectionEvent ==
    ASSUME ClipboardInv, NEW d \in C!Desktop, NEW got, C!ClipboardEvent(d, got),
           news[d] # <<>>, UNCHANGED <<owner, copies>>,
           DOMAIN get' = C!Desktop, get'[d] \in {got, NoText},
           \A c \in C!Desktop \ {d} : get'[c] = get[c]
    PROVE  /\ got \in Copied(d) \cup {NoText}
           /\ DOMAIN asked' = C!Desktop /\ DOMAIN property' = C!Desktop
           /\ DOMAIN news' = C!Desktop
           /\ \A c \in C!Desktop : Honest(c)'
<1>. DEFINE e == Head(news[d])
<1>1. Honest(d) /\ \A c : Copied(c)' = Copied(c)
  BY CopiedKept DEF ClipboardInv
<1>2. /\ DOMAIN asked = C!Desktop /\ DOMAIN property = C!Desktop
      /\ DOMAIN news = C!Desktop
  BY DEF ClipboardInv, ClipboardType
<1>3. e \in Event /\ Tail(news[d]) \in Seq(Event)
  BY <1>1 DEF Honest, Events
<1>4. e.sel \in C!Selection
  BY <1>3 DEF Event
<1>. HIDE DEF e
<1>5. ASSUME NEW target \in Target, C!Convert(d, e.sel, target)
      PROVE  /\ DOMAIN asked' = C!Desktop /\ DOMAIN news' = C!Desktop
             /\ property' = property
             /\ \A c \in C!Desktop \ {d} : asked'[c] = asked[c] /\ news'[c] = news[c]
             /\ Questions(d)' /\ Events(d)'
  <2>. DEFINE o == owner[d][e.sel]
              q == [sel |-> e.sel, target |-> target, text |-> o]
              no == C!Answer(e.sel, target, FALSE)
              more == IF o = NoText THEN <<no>> ELSE <<>>
  <2>1. /\ asked' = [asked EXCEPT ![d] = @ \cup (IF o \in Text THEN {q} ELSE {})]
        /\ news' = [news EXCEPT ![d] = Tail(@) \o more]
        /\ property' = property
    BY <1>5, Zenon DEF C!Convert, C!AnswersSelf
  <2>2. o \in Copied(d) \cup {NoText, Us}
    BY <1>1, <1>4 DEF Honest, Owners
  <2>3. o \in Text => q \in [sel : C!Selection, target : Target, text : Copied(d)]
    BY <1>4, <2>2, Texts
  <2>4. more \in Seq(Event)
    <3>1. no \in Event
      BY <1>4 DEF C!Answer, Event
    <3>. HIDE DEF no
    <3>2. <<no>> \in Seq(Event) /\ <<>> \in Seq(Event)
      BY <3>1
    <3>. QED  BY <3>2
  <2>. HIDE DEF o, q, more
  <2>5. /\ asked'[d] \subseteq asked[d] \cup (IF o \in Text THEN {q} ELSE {})
        /\ news'[d] = Tail(news[d]) \o more
    BY <1>2, <2>1
  <2>6. Questions(d)'
    BY <1>1, <2>3, <2>5 DEF Honest, Questions
  <2>7. Events(d)'
    BY <1>3, <2>4, <2>5 DEF Events
  <2>. QED  BY <1>2, <2>1, <2>6, <2>7
<1>6. ASSUME C!Handled(d)
      PROVE  /\ DOMAIN asked' = C!Desktop /\ DOMAIN news' = C!Desktop
             /\ property' = property
             /\ \A c \in C!Desktop \ {d} : asked'[c] = asked[c] /\ news'[c] = news[c]
             /\ Questions(d)' /\ Events(d)'
  BY <1>1, <1>2, <1>3, <1>6 DEF C!Handled, Honest, Questions, Events
<1>7. got \in Copied(d) \cup {NoText}
  <2>1. got = get[d] \/ got = property[d][e.sel]
    BY DEF C!ClipboardEvent, e
  <2>. QED  BY <1>1, <1>4, <2>1 DEF Honest, Got, Answers
<1>8. /\ DOMAIN asked' = C!Desktop /\ DOMAIN news' = C!Desktop
      /\ property' = property
      /\ \A c \in C!Desktop \ {d} : asked'[c] = asked[c] /\ news'[c] = news[c]
      /\ Questions(d)' /\ Events(d)'
  <2>1. \/ C!Convert(d, e.sel, "utf8") \/ C!Convert(d, e.sel, "string")
        \/ C!Handled(d)
    BY Zenon DEF C!ClipboardEvent, e
  <2>2. "utf8" \in Target /\ "string" \in Target
    BY DEF Target
  <2>. QED  BY <1>5, <1>6, <2>1, <2>2
<1>9. ASSUME NEW c \in C!Desktop \ {d} PROVE Honest(c)'
  BY <1>1, <1>8, <1>9, HonestKept DEF ClipboardInv
<1>10. Honest(d)'
  <2>1. Owners(d)' /\ Answers(d)'
    BY <1>1, <1>8 DEF Honest, Owners, Answers
  <2>2. Got(d)'
    BY <1>1, <1>7 DEF Got
  <2>. QED  BY <1>8, <2>1, <2>2 DEF Honest
<1>. QED  BY <1>2, <1>7, <1>8, <1>9, <1>10

(* What comes from the other side is offered in vbridge's own name.        *)
LEMMA SelectionSet ==
    ASSUME ClipboardInv, NEW d \in C!Desktop, NEW t,
           \/ C!ClipboardSet(d, t)
           \/ UNCHANGED <<owner, news>>,
           UNCHANGED <<asked, property, get, copies>>
    PROVE  /\ DOMAIN owner' = C!Desktop /\ DOMAIN news' = C!Desktop
           /\ \A c \in C!Desktop : Honest(c)'
<1>1. \A c : Copied(c)' = Copied(c)
  BY CopiedKept
<1>2. DOMAIN owner = C!Desktop /\ DOMAIN news = C!Desktop /\ Honest(d)
  BY DEF ClipboardInv, ClipboardType
<1>. DEFINE told == <<C!Owned("primary", Us), C!Owned("clipboard", Us)>>
<1>3. told \in Seq(Event)
  <2>1. C!Owned("primary", Us) \in Event /\ C!Owned("clipboard", Us) \in Event
    BY DEF C!Owned, Event, C!Selection
  <2>. QED  BY <2>1
<1>. HIDE DEF told
<1>4. CASE UNCHANGED <<owner, news>>
  BY <1>1, <1>2, <1>4, HonestKept DEF ClipboardInv
<1>5. CASE /\ owner' = [owner EXCEPT ![d] =
                          [s \in C!Selection |-> IF s \in C!Owns(d) THEN Us ELSE @[s]]]
           /\ news' = [news EXCEPT ![d] = @ \o told]
  <2>1. /\ DOMAIN owner' = C!Desktop /\ DOMAIN news' = C!Desktop
        /\ \A c \in C!Desktop \ {d} : owner'[c] = owner[c] /\ news'[c] = news[c]
        /\ owner'[d] = [s \in C!Selection |-> Us] /\ news'[d] = news[d] \o told
    BY <1>2, <1>5 DEF C!Owns
  <2>2. ASSUME NEW c \in C!Desktop \ {d} PROVE Honest(c)'
    BY <1>1, <2>1, <2>2, HonestKept DEF ClipboardInv
  <2>3. Honest(d)'
    BY <1>1, <1>2, <1>3, <2>1 DEF Honest, Owners, Questions, Answers, Got, Events
  <2>. QED  BY <2>1, <2>2, <2>3
<1>. QED  BY <1>4, <1>5 DEF C!ClipboardSet, told

LEMMA ServerEventStep ==
    ASSUME ClipboardInv, C!ServerEvent
    PROVE  ClipboardInv'
<1>1. PICK got \in Text \cup {NoText} :
        /\ C!ClipboardEvent("server", got)
        /\ passing' \in {passing, got}
        /\ \/ get' = [get EXCEPT !["server"] = NoText]
           \/ get' = [get EXCEPT !["server"] = got]
  BY DEF C!ServerEvent
<1>2. news["server"] # <<>> /\ UNCHANGED <<owner, link, copies>>
  BY DEF C!ServerEvent
<1>3. "server" \in C!Desktop
  BY DEF C!Desktop
<1>4. /\ DOMAIN get' = C!Desktop /\ get'["server"] \in {got, NoText}
      /\ \A c \in C!Desktop \ {"server"} : get'[c] = get[c]
  BY <1>1, <1>3 DEF ClipboardInv, ClipboardType
<1>5. /\ got \in Copied("server") \cup {NoText}
      /\ DOMAIN asked' = C!Desktop /\ DOMAIN property' = C!Desktop
      /\ DOMAIN news' = C!Desktop
      /\ \A c \in C!Desktop : Honest(c)'
  BY <1>1, <1>2, <1>3, <1>4, SelectionEvent
<1>6. ClipboardType'
  BY <1>2, <1>4, <1>5 DEF ClipboardInv, ClipboardType
<1>7. \A c : Copied(c)' = Copied(c)
  BY <1>2, CopiedKept
<1>8. passing' \in Copied("server") \cup {NoText}
  BY <1>1, <1>5 DEF ClipboardInv
<1>. QED  BY <1>2, <1>5, <1>6, <1>7, <1>8 DEF ClipboardInv

LEMMA ClientEventStep ==
    ASSUME ClipboardInv, C!ClientEvent
    PROVE  ClipboardInv'
<1>1. PICK got \in Text \cup {NoText} :
        /\ C!ClipboardEvent("client", got)
        /\ get' = [get EXCEPT !["client"] = IF driver THEN NoText ELSE got]
        /\ link' = IF driver /\ got # NoText
                   THEN [link EXCEPT !["server"] = Append(@, got)] ELSE link
  BY DEF C!ClientEvent
<1>2. news["client"] # <<>> /\ UNCHANGED <<owner, passing, copies>>
  BY DEF C!ClientEvent
<1>3. "client" \in C!Desktop /\ "server" \in C!Desktop
  BY DEF C!Desktop
<1>4. /\ DOMAIN get' = C!Desktop /\ get'["client"] \in {got, NoText}
      /\ \A c \in C!Desktop \ {"client"} : get'[c] = get[c]
  BY <1>1, <1>3 DEF ClipboardInv, ClipboardType
<1>5. /\ got \in Copied("client") \cup {NoText}
      /\ DOMAIN asked' = C!Desktop /\ DOMAIN property' = C!Desktop
      /\ DOMAIN news' = C!Desktop
      /\ \A c \in C!Desktop : Honest(c)'
  BY <1>1, <1>2, <1>3, <1>4, SelectionEvent
<1>6. ClipboardType'
  BY <1>1, <1>2, <1>4, <1>5 DEF ClipboardInv, ClipboardType
<1>7. \A c : Copied(c)' = Copied(c)
  BY <1>2, CopiedKept
<1>8. link'["server"] \in Seq(Copied("client"))
  <2>1. DOMAIN link = C!Desktop /\ link["server"] \in Seq(Copied("client"))
    BY DEF ClipboardInv, ClipboardType
  <2>2. CASE got = NoText
    BY <1>1, <2>1, <2>2
  <2>3. CASE got \in Copied("client")
    <3>1. link'["server"] \in {link["server"], Append(link["server"], got)}
      BY <1>1, <1>3, <2>1
    <3>. QED  BY <2>1, <2>3, <3>1
  <2>. QED  BY <1>5, <2>2, <2>3
<1>. QED  BY <1>2, <1>5, <1>6, <1>7, <1>8 DEF ClipboardInv

(* The messages between the two.                                           *)
LEMMA MessageStep ==
    ASSUME ClipboardInv, C!ServerReceive \/ C!ServerSend \/ C!ClientReceive
    PROVE  ClipboardInv'
<1>1. UNCHANGED <<asked, property, get, copies>>
  BY DEF C!ServerReceive, C!ServerSend, C!ClientReceive, C!desk
<1>2. "client" \in C!Desktop /\ "server" \in C!Desktop
  BY DEF C!Desktop
<1>3. \E d \in C!Desktop : \E t : C!ClipboardSet(d, t) \/ UNCHANGED <<owner, news>>
  BY <1>2 DEF C!ServerReceive, C!ServerSend, C!ClientReceive, C!desk
<1>4. /\ DOMAIN owner' = C!Desktop /\ DOMAIN news' = C!Desktop
      /\ \A c \in C!Desktop : Honest(c)'
  BY <1>1, <1>3, SelectionSet
<1>5. \A c : Copied(c)' = Copied(c)
  BY <1>1, CopiedKept
<1>6. passing' \in Copied("server") \cup {NoText}
  BY DEF ClipboardInv, C!ServerReceive, C!ServerSend, C!ClientReceive
<1>7. DOMAIN link = C!Desktop /\ link["server"] \in Seq(Copied("client"))
  BY DEF ClipboardInv, ClipboardType
<1>8. DOMAIN link' = C!Desktop /\ link'["server"] \in Seq(Copied("client"))
  <2>1. CASE C!ServerReceive
    <3>1. link["server"] # <<>> /\ link' = [link EXCEPT !["server"] = Tail(@)]
      BY <2>1 DEF C!ServerReceive
    <3>. QED  BY <1>2, <1>7, <3>1
  <2>2. CASE C!ServerSend \/ C!ClientReceive
    <3>1. \E q : link' = [link EXCEPT !["client"] = q]
      BY <2>2 DEF C!ServerSend, C!ClientReceive
    <3>. QED  BY <1>2, <1>7, <3>1
  <2>. QED  BY <2>1, <2>2
<1>9. ClipboardType'
  BY <1>1, <1>4, <1>8 DEF ClipboardInv, ClipboardType
<1>. QED  BY <1>4, <1>5, <1>6, <1>8, <1>9 DEF ClipboardInv

LEMMA ClipboardStep ==
    ASSUME ClipboardInv, [C!Next]_clipboard
    PROVE  ClipboardInv'
<1>1. CASE C!Turn \/ UNCHANGED clipboard
  <2>1. UNCHANGED <<owner, news, asked, property, get, passing, link, copies>>
    BY <1>1 DEF C!Turn, C!desk, clipboard
  <2>2. \A c : Copied(c)' = Copied(c)
    BY <2>1, CopiedKept
  <2>3. \A c \in C!Desktop : Honest(c)'
    BY <2>1, <2>2, HonestKept DEF ClipboardInv
  <2>. QED  BY <2>1, <2>2, <2>3 DEF ClipboardInv, ClipboardType
<1>. QED
  BY <1>1, CopyStep, ExitStep, ReplyStep, ServerEventStep, ClientEventStep, MessageStep
     DEF C!Next

(* A text a desktop passes on was copied there: no exchange of texts goes  *)
(* on by itself, however the questions, answers and messages interleave.   *)
THEOREM NoEchoCorrect == MCSpec => []NoEcho
<1>1. MCInit => ClipboardInv
  BY ClipboardInit DEF MCInit
<1>2. ASSUME ClipboardInv, [MCNext]_<<part, vars, pointer, clipboard, keyboard>>
      PROVE  ClipboardInv'
  <2>1. [C!Next]_clipboard
    BY <1>2 DEF MCNext, CursorNext, PointerNext, ClipboardNext, KeyboardNext
  <2>. QED  BY <1>2, <2>1, ClipboardStep
<1>3. ASSUME ClipboardInv PROVE C!NoEcho
  <2>1. ASSUME NEW d \in C!Desktop PROVE get[d] # NoText => C!CopiedAt(d, get[d])
    BY <1>3 DEF ClipboardInv, Honest, Got, Copied
  <2>2. passing # NoText => C!CopiedAt("server", passing)
    BY <1>3 DEF ClipboardInv, Copied
  <2>3. ASSUME NEW i \in DOMAIN link["server"]
        PROVE  C!CopiedAt("client", link["server"][i])
    <3>1. link["server"][i] \in Copied("client")
      BY <1>3 DEF ClipboardInv
    <3>. QED  BY <3>1 DEF Copied
  <2>. QED  BY <2>1, <2>2, <2>3 DEF C!NoEcho
<1>. QED  BY <1>1, <1>2, <1>3, PTL DEF MCSpec, NoEcho

-----------------------------------------------------------------------------
(* The way of the last copy, made on d while nothing else went on.         *)

Onward(d) == IF d = "server" THEN passing ELSE NoText

(* An event that is about the text t.                                      *)
Fresh(d, t, e) ==
    /\ owner[d][e.sel] = t
    /\ e.kind = "owner" => e.who = t
    /\ e.kind = "answer" => IF e.ok THEN property[d][e.sel] = t ELSE e.target = "utf8"

Heard(d, t) ==
    /\ \A a \in asked[d] : a.text = t /\ owner[d][a.sel] = t
    /\ \A i \in 1 .. Len(news[d]) : Fresh(d, t, news[d][i])

(* The messages before t are the text u and none, and t itself.            *)
Train(s, u, t) == s \in Seq(Text \cap {u, t}) /\ \A i \in 2 .. Len(s) : s[i] = t
Carries(s, t) == \E i \in 1 .. Len(s) : s[i] = t

(* One text older than t may be before it, the one the other side has.     *)
OnWay(d, f, t) ==
    /\ Train(link[f], set[f], t)
    /\ Onward(d) \in {NoText, set[f], t} /\ get[d] \in {NoText, set[f], t}
    /\ link[f] # <<>> => Onward(d) \in {NoText, t}
    /\ link[f] # <<>> \/ Onward(d) # NoText => get[d] \in {NoText, t}

(* The other side has nothing to say.                                      *)
Quiet(d, f) ==
    /\ asked[f] = {}
    /\ \A i \in 1 .. Len(news[f]) : news[f][i].kind = "owner" /\ news[f][i].who = Us
    /\ link[d] \in Seq(Text \cap {set[d]})
    /\ Onward(f) \in {NoText, set[d]} /\ get[f] \in {NoText, set[d]}

Due(d, f, t) ==
    \/ set[f] = t \/ news[d] # <<>> \/ asked[d] # {} \/ get[d] = t \/ Onward(d) = t
    \/ Carries(link[f], t)

Once(t) == \A i \in 1 .. Len(copies) - 1 : copies[i].text # t
Offered(f, t) == set[f] = t /\ Once(t) => \A s \in C!Selection : owner[f][s] = Us

Driven == master /\ driver /\ ~toTell

Settling(d, f, t) ==
    Driven /\ Heard(d, t) /\ OnWay(d, f, t) /\ Quiet(d, f) /\ Due(d, f, t) /\ Offered(f, t)

LastOne == copies[Len(copies)]
CalmInv ==
    calm => copies # <<>> /\ Settling(LastOne.at, C!Far(LastOne.at), LastOne.text)

(* What a desktop was told by the other one was copied there.              *)
TellsWho == {<<told>> : told \in BOOLEAN}
SetInv ==
    /\ master \in BOOLEAN
    /\ DOMAIN set = C!Desktop
    /\ \A d \in C!Desktop : set[d] \in Copied(C!Far(d)) \cup {NoText}
    /\ link["client"] \in Seq(Copied("server") \cup TellsWho)

LEMMA TrainAppend ==
    ASSUME NEW s, NEW u, NEW t, Train(s, u, t), NEW m \in Text, m \in {u, t},
           s # <<>> => m = t
    PROVE  /\ Train(Append(s, m), u, t)
           /\ Carries(s, t) \/ m = t => Carries(Append(s, m), t)
<1>. DEFINE S == Text \cap {u, t}
            n == Len(s)
            r == Append(s, m)
<1>1. s \in Seq(S) /\ m \in S
  BY DEF Train
<1>. HIDE DEF S
<1>2. /\ n \in Nat /\ r \in Seq(S) /\ Len(r) = n + 1 /\ r[n + 1] = m
      /\ \A i \in 1 .. n : r[i] = s[i]
      /\ n = 0 => s = <<>>
  BY <1>1, EmptySeq
<1>. HIDE DEF r, n
<1>3. \A i \in 2 .. n + 1 : r[i] = t
  <2>1. ASSUME NEW i \in 2 .. n + 1 PROVE r[i] = t
    <3>1. CASE i = n + 1
      <4>1. n # 0
        BY <1>2, <3>1
      <4>2. s # <<>>
        BY <4>1 DEF n
      <4>. QED  BY <1>2, <3>1, <4>2
    <3>2. CASE i # n + 1
      <4>1. i \in 2 .. n /\ i \in 1 .. n
        BY <1>2, <3>2
      <4>. QED  BY <1>2, <4>1 DEF Train, n
    <3>. QED  BY <3>1, <3>2
  <2>. QED  BY <2>1
<1>4. ASSUME Carries(s, t) \/ m = t PROVE Carries(r, t)
  <2>1. \A i \in 1 .. n : i \in 1 .. n + 1
    BY <1>2
  <2>2. n + 1 \in 1 .. n + 1
    BY <1>2
  <2>. QED  BY <1>2, <1>4, <2>1, <2>2 DEF Carries, n
<1>. QED  BY <1>2, <1>3, <1>4 DEF Train, S, r

LEMMA TrainTail ==
    ASSUME NEW s, NEW u, NEW t, Train(s, u, t), s # <<>>
    PROVE  /\ Head(s) \in Text \cap {u, t} /\ Train(Tail(s), Head(s), t)
           /\ Carries(s, t) => Head(s) = t \/ Carries(Tail(s), t)
<1>. DEFINE S == Text \cap {u, t}
            n == Len(s)
            r == Tail(s)
            h == Head(s)
<1>1. s \in Seq(S)
  BY DEF Train
<1>. HIDE DEF S
<1>2. /\ n \in Nat \ {0} /\ r \in Seq(S) /\ Len(r) = n - 1 /\ h = s[1] /\ h \in S
      /\ \A i \in 1 .. n - 1 : r[i] = s[i + 1]
  BY <1>1, HeadTailProperties, EmptySeq
<1>. HIDE DEF r, h, n
<1>3. \A i \in 1 .. n - 1 : r[i] = t
  <2>1. \A i \in 1 .. n - 1 : i + 1 \in 2 .. n
    BY <1>2
  <2>. QED  BY <1>2, <2>1 DEF Train, n
<1>4. \A i \in 2 .. n - 1 : r[i] = t
  <2>1. \A i \in 2 .. n - 1 : i \in 1 .. n - 1
    BY <1>2
  <2>. QED  BY <1>3, <2>1
<1>5. r \in Seq(Text \cap {h, t})
  <2>1. \A i \in 1 .. n - 1 : r[i] \in Text \cap {h, t}
    <3>1. \A i \in 1 .. n - 1 : r[i] \in S
      BY <1>2
    <3>. QED  BY <1>3, <3>1 DEF S
  <2>. QED  BY <1>2, <2>1, IsASeq
<1>6. ASSUME Carries(s, t) PROVE h = t \/ Carries(r, t)
  <2>1. PICK i \in 1 .. n : s[i] = t
    BY <1>6 DEF Carries, n
  <2>2. CASE i = 1
    BY <1>2, <2>1, <2>2
  <2>3. CASE i # 1
    <3>1. i - 1 \in 1 .. n - 1 /\ (i - 1) + 1 = i
      BY <1>2, <2>3
    <3>. QED  BY <1>2, <2>1, <3>1 DEF Carries
  <2>. QED  BY <2>2, <2>3
<1>. QED  BY <1>2, <1>4, <1>5, <1>6 DEF Train, S, r, h

LEMMA Sides ==
    ASSUME NEW d \in C!Desktop
    PROVE  /\ C!Far(d) \in C!Desktop /\ C!Far(d) # d /\ C!Far(C!Far(d)) = d
           /\ \/ d = "server" /\ C!Far(d) = "client"
              \/ d = "client" /\ C!Far(d) = "server"
<1>1. d = "server" \/ d = "client"
  BY DEF C!Desktop
<1>2. "server" \in C!Desktop /\ "client" \in C!Desktop /\ "server" # "client"
  BY DEF C!Desktop
<1>3. C!Far("server") = "client" /\ C!Far("client") = "server"
  BY DEF C!Far
<1>4. CASE d = "server"
  <2>1. C!Far(d) = "client" /\ C!Far(C!Far(d)) = "server"
    BY <1>3, <1>4
  <2>2. C!Far(d) \in C!Desktop /\ C!Far(d) # d /\ C!Far(C!Far(d)) = d
    BY <1>2, <1>4, <2>1, Zenon
  <2>. QED  BY <1>4, <2>1, <2>2, Zenon
<1>5. CASE d = "client"
  <2>1. C!Far(d) = "server" /\ C!Far(C!Far(d)) = "client"
    BY <1>3, <1>5
  <2>2. C!Far(d) \in C!Desktop /\ C!Far(d) # d /\ C!Far(C!Far(d)) = d
    BY <1>2, <1>5, <2>1, Zenon
  <2>. QED  BY <1>5, <2>1, <2>2, Zenon
<1>. QED  BY <1>1, <1>4, <1>5, Zenon

LEMMA SetCopied ==
    ASSUME SetInv, ClipboardInv, [C!Next]_clipboard
    PROVE  SetInv'
<1>1. /\ DOMAIN set = C!Desktop /\ DOMAIN link = C!Desktop
      /\ "server" \in C!Desktop /\ "client" \in C!Desktop
      /\ C!Far("server") = "client" /\ C!Far("client") = "server"
      /\ \A d \in C!Desktop : d = "server" \/ d = "client"
  BY DEF SetInv, ClipboardInv, ClipboardType, C!Desktop, C!Far
<1>2. /\ set["server"] \in Copied("client") \cup {NoText}
      /\ set["client"] \in Copied("server") \cup {NoText}
      /\ link["client"] \in Seq(Copied("server") \cup TellsWho)
      /\ link["server"] \in Seq(Copied("client"))
      /\ passing \in Copied("server") \cup {NoText}
  BY <1>1 DEF SetInv, ClipboardInv
<1>0. master' \in BOOLEAN
  <2>1. master' = master \/ master' = ~master
    BY DEF C!Next, C!Copy, C!Exit, C!Reply, C!ServerEvent, C!ClientEvent, C!ServerReceive,
           C!ServerSend, C!ClientReceive, C!Turn, C!mastery, clipboard
  <2>. QED  BY <2>1 DEF SetInv
<1>3. SUFFICES /\ DOMAIN set' = C!Desktop
               /\ set'["server"] \in Copied("client")' \cup {NoText}
               /\ set'["client"] \in Copied("server")' \cup {NoText}
               /\ link'["client"] \in Seq(Copied("server")' \cup TellsWho)
  BY <1>0, <1>1 DEF SetInv
<1>4. \A m \in TellsWho : m \notin Text
  BY DesktopAssumption DEF C!ClipboardAssumption, TellsWho
<1>5. CASE \E d \in C!Desktop, t \in Text, S \in (SUBSET C!Selection) \ {{}} : C!Copy(d, t, S)
  <2>1. PICK d \in C!Desktop, t \in Text : copies' = Append(copies, [at |-> d, text |-> t])
    BY <1>5 DEF C!Copy
  <2>2. copies \in Seq([at : C!Desktop, text : Text])
    BY DEF ClipboardInv, ClipboardType
  <2>3. \A c : Copied(c) \subseteq Copied(c)'
    <3>1. \A i \in DOMAIN copies : i \in DOMAIN copies' /\ copies'[i] = copies[i]
      BY <2>1, <2>2
    <3>2. ASSUME NEW c, NEW u \in Text, C!CopiedAt(c, u) PROVE C!CopiedAt(c, u)'
      BY <3>1, <3>2 DEF C!CopiedAt
    <3>. QED  BY <3>2 DEF Copied
  <2>4. UNCHANGED <<set, link>>
    BY <1>5 DEF C!Copy
  <2>. DEFINE A == Copied("server") \cup TellsWho
              B == Copied("server")' \cup TellsWho
  <2>5. A \subseteq B /\ link["client"] \in Seq(A)
    BY <1>2, <2>3
  <2>. HIDE DEF A, B
  <2>6. link["client"] \in Seq(B)
    BY <2>5, SeqMonotonic
  <2>. QED  BY <1>1, <1>2, <2>3, <2>4, <2>6 DEF B
<1>6. CASE UNCHANGED <<set, link, copies>>
  BY <1>1, <1>2, <1>6, CopiedKept
<1>7. CASE C!ServerReceive
  <2>1. UNCHANGED copies /\ link' = [link EXCEPT !["server"] = Tail(@)] /\ link["server"] # <<>>
        /\ (set' = set \/ set' = [set EXCEPT !["server"] = Head(link["server"])])
    BY <1>7 DEF C!ServerReceive, C!ClipboardSet
  <2>2. Head(link["server"]) \in Copied("client")
    BY <1>2, <2>1
  <2>. QED  BY <1>1, <1>2, <2>1, <2>2, CopiedKept
<1>8. CASE C!ServerSend
  <2>1. /\ UNCHANGED <<copies, set>>
        /\ \/ link' = [link EXCEPT !["client"] = Append(@, <<master>>)]
           \/ passing # NoText /\ link' = [link EXCEPT !["client"] = Append(@, passing)]
    BY <1>8 DEF C!ServerSend, C!desk
  <2>2. PICK m : /\ \/ m = <<master>>
                    \/ m = passing /\ passing # NoText
                 /\ link' = [link EXCEPT !["client"] = Append(@, m)]
    <3>1. CASE link' = [link EXCEPT !["client"] = Append(@, <<master>>)]
      BY <3>1, Zenon
    <3>2. CASE passing # NoText /\ link' = [link EXCEPT !["client"] = Append(@, passing)]
      BY <3>2, Zenon
    <3>. QED  BY <2>1, <3>1, <3>2
  <2>3. <<master>> \in TellsWho
    BY DEF SetInv, TellsWho
  <2>4. m \in Copied("server") \cup TellsWho
    BY <1>2, <2>2, <2>3
  <2>5. link'["client"] = Append(link["client"], m)
    BY <1>1, <2>2
  <2>6. link'["client"] \in Seq(Copied("server") \cup TellsWho)
    BY <1>2, <2>4, <2>5
  <2>. QED  BY <1>1, <1>2, <2>1, <2>6, CopiedKept
<1>9. CASE C!ClientReceive
  <2>1. UNCHANGED copies /\ link' = [link EXCEPT !["client"] = Tail(@)] /\ link["client"] # <<>>
        /\ \/ set' = set
           \/ Head(link["client"]) \in Text /\ set' = [set EXCEPT !["client"] = Head(link["client"])]
    BY <1>9 DEF C!ClientReceive, C!ClipboardSet
  <2>2. Head(link["client"]) \in Copied("server") \cup TellsWho
        /\ Tail(link["client"]) \in Seq(Copied("server") \cup TellsWho)
    BY <1>2, <2>1
  <2>. QED  BY <1>1, <1>2, <1>4, <2>1, <2>2, CopiedKept
<1>10. CASE C!ClientEvent
  <2>1. /\ UNCHANGED <<copies, set>>
        /\ \/ link' = link
           \/ \E got : link' = [link EXCEPT !["server"] = Append(@, got)]
    BY <1>10 DEF C!ClientEvent
  <2>2. link'["client"] = link["client"]
    BY <1>1, <2>1
  <2>. QED  BY <1>1, <1>2, <2>1, <2>2, CopiedKept
<1>. QED
  <2>1. UNCHANGED <<set, link, copies>>
        \/ (\E d \in C!Desktop, t \in Text, S \in (SUBSET C!Selection) \ {{}} : C!Copy(d, t, S))
        \/ C!ServerReceive \/ C!ServerSend \/ C!ClientReceive \/ C!ClientEvent
    BY DEF C!Next, C!Exit, C!Reply, C!ServerEvent, C!Turn, clipboard, C!desk
  <2>. QED  BY <1>5, <1>6, <1>7, <1>8, <1>9, <1>10, <2>1

(* A desktop that nothing happened to is as far as it was.                 *)
LEMMA HeardKept ==
    ASSUME NEW d, NEW t, Heard(d, t),
           owner'[d] = owner[d], property'[d] = property[d],
           asked'[d] = asked[d], news'[d] = news[d]
    PROVE  Heard(d, t)'
  BY DEF Heard, Fresh

(* The next event of the desktop that was copied on: it gives the text or  *)
(* the question that is put for it.                                        *)
LEMMA FreshEvent ==
    ASSUME ClipboardInv, NEW d \in C!Desktop, NEW t \in Text, NEW got,
           Heard(d, t), news[d] # <<>>, C!ClipboardEvent(d, got), UNCHANGED owner
    PROVE  /\ Heard(d, t)' /\ UNCHANGED property
           /\ got \in {get[d], t} /\ (got = t \/ asked'[d] # {})
           /\ \A c \in C!Desktop \ {d} : asked'[c] = asked[c] /\ news'[c] = news[c]
<1>. DEFINE e == Head(news[d])
            n == Len(news[d])
            rest == Tail(news[d])
<1>1. /\ DOMAIN asked = C!Desktop /\ DOMAIN news = C!Desktop
      /\ news[d] \in Seq(Event) /\ t # NoText /\ t # Us
  BY Texts DEF ClipboardInv, ClipboardType, Honest, Events
<1>2. /\ n \in Nat \ {0} /\ e = news[d][1] /\ e \in Event
      /\ rest \in Seq(Event) /\ Len(rest) = n - 1
      /\ \A i \in 1 .. n - 1 : rest[i] = news[d][i + 1]
  BY <1>1, HeadTailProperties, EmptySeq
<1>. HIDE DEF e, n, rest
<1>3. Fresh(d, t, e) /\ \A i \in 1 .. n - 1 : Fresh(d, t, rest[i])
  <2>1. \A i \in 1 .. n : Fresh(d, t, news[d][i])
    BY DEF Heard, n
  <2>2. 1 \in 1 .. n /\ \A i \in 1 .. n - 1 : i + 1 \in 1 .. n
    BY <1>2
  <2>. QED  BY <1>2, <2>1, <2>2
<1>4. ASSUME asked'[d] \subseteq asked[d] \cup {a \in asked'[d] : a.text = t /\ owner[d][a.sel] = t},
             news'[d] = rest, UNCHANGED property
      PROVE  Heard(d, t)'
  <2>1. \A a \in asked'[d] : a.text = t /\ owner'[d][a.sel] = t
    BY <1>4 DEF Heard
  <2>2. \A x : Fresh(d, t, x) => Fresh(d, t, x)'
    BY <1>4 DEF Fresh
  <2>3. \A i \in 1 .. Len(news'[d]) : Fresh(d, t, news[d][i])'
    <3>1. \A i \in 1 .. n - 1 : news'[d][i] = rest[i] /\ Fresh(d, t, rest[i])
      BY <1>3, <1>4
    <3>2. Len(news'[d]) = n - 1
      BY <1>2, <1>4
    <3>. QED  BY <2>2, <3>1, <3>2
  <2>. QED  BY <2>1, <2>3 DEF Heard
<1>5. ASSUME NEW target, C!Convert(d, e.sel, target), got = get[d]
      PROVE  /\ Heard(d, t)' /\ UNCHANGED property
             /\ asked'[d] # {}
             /\ \A c \in C!Desktop \ {d} : asked'[c] = asked[c] /\ news'[c] = news[c]
  <2>. DEFINE q == [sel |-> e.sel, target |-> target, text |-> t]
  <2>1. owner[d][e.sel] = t
    BY <1>3 DEF Fresh
  <2>2. /\ asked' = [asked EXCEPT ![d] = @ \cup {q}]
        /\ news' = [news EXCEPT ![d] = rest \o <<>>]
        /\ UNCHANGED property
    BY <1>1, <1>5, <2>1 DEF C!Convert, C!AnswersSelf, rest
  <2>3. q.text = t /\ q.sel = e.sel
    OBVIOUS
  <2>. HIDE DEF q
  <2>4. /\ asked'[d] = asked[d] \cup {q} /\ news'[d] = rest
        /\ \A c \in C!Desktop \ {d} : asked'[c] = asked[c] /\ news'[c] = news[c]
    <3>1. rest \o <<>> = rest
      BY <1>2
    <3>. QED  BY <1>1, <2>2, <3>1
  <2>5. Heard(d, t)'
    BY <1>4, <2>1, <2>2, <2>3, <2>4
  <2>. QED  BY <2>2, <2>4, <2>5
<1>6. CASE e.kind = "owner" /\ e.who \notin {NoText, Us} /\ C!Convert(d, e.sel, "utf8") /\ got = get[d]
  BY <1>5, <1>6
<1>7. CASE C!Convert(d, e.sel, "string") /\ got = get[d]
  BY <1>5, <1>7
<1>8. CASE /\ ~(e.kind = "owner" /\ e.who \notin {NoText, Us})
           /\ ~(e.kind = "answer" /\ ~e.ok /\ e.target = "utf8")
           /\ C!Handled(d)
           /\ got = IF e.kind = "answer" /\ e.ok THEN property[d][e.sel] ELSE get[d]
  <2>1. e.kind # "owner"
    BY <1>1, <1>3, <1>8 DEF Fresh
  <2>2. e.kind = "answer" /\ e.ok
    BY <1>2, <1>3, <1>8, <2>1 DEF Event, Fresh
  <2>3. got = t
    BY <1>3, <1>8, <2>2 DEF Fresh
  <2>4. /\ UNCHANGED <<asked, property>> /\ news'[d] = rest
        /\ \A c \in C!Desktop \ {d} : news'[c] = news[c]
    BY <1>1, <1>8 DEF C!Handled, rest
  <2>5. Heard(d, t)'
    BY <1>4, <2>4
  <2>. QED  BY <2>3, <2>4, <2>5
<1>9. \/ /\ e.kind = "owner" /\ e.who \notin {NoText, Us}
         /\ C!Convert(d, e.sel, "utf8") /\ got = get[d]
      \/ C!Convert(d, e.sel, "string") /\ got = get[d]
      \/ /\ ~(e.kind = "owner" /\ e.who \notin {NoText, Us})
         /\ ~(e.kind = "answer" /\ ~e.ok /\ e.target = "utf8")
         /\ C!Handled(d)
         /\ got = IF e.kind = "answer" /\ e.ok THEN property[d][e.sel] ELSE get[d]
  BY Zenon DEF C!ClipboardEvent, e
<1>. QED  BY <1>5, <1>6, <1>7, <1>8, <1>9

(* An event of the other one says what vbridge did there itself.           *)
LEMMA UsEvent ==
    ASSUME ClipboardInv, NEW c \in C!Desktop, NEW got, news[c] # <<>>,
           \A i \in 1 .. Len(news[c]) : news[c][i].kind = "owner" /\ news[c][i].who = Us,
           C!ClipboardEvent(c, got)
    PROVE  /\ UNCHANGED <<asked, property>> /\ got = get[c]
           /\ \A b \in C!Desktop \ {c} : news'[b] = news[b]
           /\ \A i \in 1 .. Len(news'[c]) : news'[c][i].kind = "owner" /\ news'[c][i].who = Us
<1>. DEFINE e == Head(news[c])
            n == Len(news[c])
            rest == Tail(news[c])
<1>1. DOMAIN news = C!Desktop /\ news[c] \in Seq(Event)
  BY DEF ClipboardInv, ClipboardType, Honest, Events
<1>2. /\ n \in Nat \ {0} /\ e = news[c][1] /\ Len(rest) = n - 1
      /\ \A i \in 1 .. n - 1 : rest[i] = news[c][i + 1]
  BY <1>1, HeadTailProperties, EmptySeq
<1>3. 1 \in 1 .. n /\ \A i \in 1 .. n - 1 : i + 1 \in 1 .. n
  BY <1>2
<1>4. e.kind = "owner" /\ e.who = Us
  BY <1>2, <1>3
<1>. HIDE DEF e
<1>5. C!Handled(c) /\ got = get[c]
  BY <1>4 DEF C!ClipboardEvent, e
<1>6. news' = [news EXCEPT ![c] = rest] /\ UNCHANGED <<asked, property>>
  BY <1>5 DEF C!Handled
<1>. HIDE DEF n, rest
<1>7. news'[c] = rest /\ \A b \in C!Desktop \ {c} : news'[b] = news[b]
  BY <1>1, <1>6
<1>8. \A i \in 1 .. n - 1 : rest[i].kind = "owner" /\ rest[i].who = Us
  BY <1>2, <1>3 DEF n
<1>. QED  BY <1>2, <1>5, <1>6, <1>7, <1>8

(* The server hears of a selection: what it gets it keeps until the text   *)
(* before it is sent.                                                      *)
LEMMA ServerHears ==
    ASSUME ClipboardInv, NEW d \in C!Desktop, NEW f, f = C!Far(d), NEW t \in Text,
           Settling(d, f, t), C!ServerEvent
    PROVE  Settling(d, f, t)'
<1>1. PICK got \in Text \cup {NoText} :
        /\ C!ClipboardEvent("server", got)
        /\ passing' = IF master /\ passing = NoText /\ got # NoText THEN got ELSE passing
        /\ get' = [get EXCEPT !["server"] =
                     IF master /\ passing = NoText /\ got # NoText THEN NoText ELSE got]
  BY DEF C!ServerEvent
<1>2. news["server"] # <<>> /\ UNCHANGED <<owner, set, master, toTell, driver, link, copies>>
  BY DEF C!ServerEvent, C!mastery
<1>3. /\ f \in C!Desktop /\ f # d /\ "server" \in C!Desktop
      /\ \/ d = "server" /\ f = "client"
         \/ d = "client" /\ f = "server"
  BY Sides DEF C!Desktop
<1>4. /\ Driven /\ Heard(d, t) /\ OnWay(d, f, t) /\ Quiet(d, f) /\ Due(d, f, t)
      /\ Offered(f, t) /\ t # NoText
  BY Texts DEF Settling
<1>5. /\ get'["server"] = IF passing = NoText /\ got # NoText THEN NoText ELSE got
      /\ \A c \in C!Desktop \ {"server"} : get'[c] = get[c]
  BY <1>1, <1>3, <1>4 DEF ClipboardInv, ClipboardType, Driven
<1>6. passing' = IF passing = NoText /\ got # NoText THEN got ELSE passing
  BY <1>1, <1>4 DEF Driven
<1>7. Driven' /\ Offered(f, t)'
  BY <1>2, <1>4 DEF Driven, Offered, Once
<1>8. CASE d = "server"
  <2>1. /\ Heard(d, t)' /\ UNCHANGED property
        /\ got \in {get[d], t} /\ (got = t \/ asked'[d] # {})
        /\ asked'[f] = asked[f] /\ news'[f] = news[f]
    BY <1>1, <1>2, <1>3, <1>4, <1>8, FreshEvent
  <2>2. get'[d] = (IF passing = NoText /\ got # NoText THEN NoText ELSE got) /\ get'[f] = get[f]
    BY <1>3, <1>5, <1>8
  <2>3. Onward(d) = passing /\ Onward(d)' = passing' /\ Onward(f) = NoText /\ Onward(f)' = NoText
    BY <1>3, <1>8 DEF Onward
  <2>4. OnWay(d, f, t)'
    BY <1>2, <1>4, <1>6, <2>1, <2>2, <2>3 DEF OnWay, Train
  <2>5. Quiet(d, f)'
    BY <1>2, <1>4, <2>1, <2>2, <2>3 DEF Quiet
  <2>6. Due(d, f, t)'
    BY <1>4, <1>6, <2>1, <2>2, <2>3 DEF Due
  <2>. QED  BY <1>7, <2>1, <2>4, <2>5, <2>6 DEF Settling
<1>9. CASE d = "client"
  <2>1. /\ UNCHANGED <<asked, property>> /\ got = get[f]
        /\ news'[d] = news[d]
        /\ \A i \in 1 .. Len(news'[f]) : news'[f][i].kind = "owner" /\ news'[f][i].who = Us
    BY <1>1, <1>2, <1>3, <1>4, <1>9, UsEvent DEF Quiet
  <2>2. get'[f] \in {got, NoText} /\ get'[d] = get[d] /\ passing' \in {passing, got}
    BY <1>3, <1>5, <1>6, <1>9
  <2>3. Onward(f) = passing /\ Onward(f)' = passing' /\ Onward(d) = NoText /\ Onward(d)' = NoText
    BY <1>3, <1>9 DEF Onward
  <2>4. OnWay(d, f, t)'
    BY <1>2, <1>4, <2>2, <2>3 DEF OnWay, Train
  <2>5. Quiet(d, f)'
    BY <1>2, <1>4, <2>1, <2>2, <2>3 DEF Quiet
  <2>6. Due(d, f, t)'
    BY <1>2, <1>4, <2>1, <2>2, <2>3 DEF Due, Carries
  <2>7. Heard(d, t)'
    BY <1>2, <1>4, <2>1, HeardKept
  <2>. QED  BY <1>7, <2>4, <2>5, <2>6, <2>7 DEF Settling
<1>. QED  BY <1>3, <1>8, <1>9

(* The client hears of a selection: it passes on what it gets.             *)
LEMMA ClientHears ==
    ASSUME ClipboardInv, NEW d \in C!Desktop, NEW f, f = C!Far(d), NEW t \in Text,
           Settling(d, f, t), C!ClientEvent
    PROVE  Settling(d, f, t)'
<1>1. PICK got \in Text \cup {NoText} :
        /\ C!ClipboardEvent("client", got)
        /\ get' = [get EXCEPT !["client"] = IF driver THEN NoText ELSE got]
        /\ link' = IF driver /\ got # NoText
                   THEN [link EXCEPT !["server"] = Append(@, got)] ELSE link
  BY DEF C!ClientEvent
<1>2. news["client"] # <<>> /\ UNCHANGED <<owner, set, master, toTell, driver, passing, copies>>
  BY DEF C!ClientEvent, C!mastery
<1>3. /\ f \in C!Desktop /\ f # d /\ "client" \in C!Desktop /\ "server" \in C!Desktop
      /\ \/ d = "server" /\ f = "client"
         \/ d = "client" /\ f = "server"
  BY Sides DEF C!Desktop
<1>4. /\ Driven /\ Heard(d, t) /\ OnWay(d, f, t) /\ Quiet(d, f) /\ Due(d, f, t)
      /\ Offered(f, t) /\ t # NoText /\ NoText \notin Text
  BY Texts DEF Settling
<1>5. /\ get'["client"] = NoText
      /\ \A c \in C!Desktop \ {"client"} : get'[c] = get[c]
      /\ link'["server"] = IF got # NoText THEN Append(link["server"], got) ELSE link["server"]
      /\ link'["client"] = link["client"]
  <2>1. get' = [get EXCEPT !["client"] = NoText]
    BY <1>1, <1>4 DEF Driven
  <2>2. link' = IF got # NoText THEN [link EXCEPT !["server"] = Append(@, got)] ELSE link
    BY <1>1, <1>4 DEF Driven
  <2>. QED  BY <1>3, <2>1, <2>2 DEF ClipboardInv, ClipboardType
<1>6. Driven' /\ Offered(f, t)'
  BY <1>2, <1>4 DEF Driven, Offered, Once
<1>7. Onward(d)' = Onward(d) /\ Onward(f)' = Onward(f)
  BY <1>2 DEF Onward
<1>8. CASE d = "client"
  <2>1. /\ Heard(d, t)' /\ UNCHANGED property
        /\ got \in {get[d], t} /\ (got = t \/ asked'[d] # {})
        /\ asked'[f] = asked[f] /\ news'[f] = news[f]
    BY <1>1, <1>2, <1>3, <1>4, <1>8, FreshEvent
  <2>2. /\ get'[d] = NoText /\ get'[f] = get[f] /\ link'[d] = link[d]
        /\ link'[f] = IF got # NoText THEN Append(link[f], got) ELSE link[f]
    BY <1>3, <1>5, <1>8
  <2>3. Onward(d) = NoText
    BY <1>3, <1>8 DEF Onward
  <2>4. Train(link'[f], set[f], t) /\ (got = t => Carries(link'[f], t))
    <3>1. CASE got = NoText
      BY <1>4, <2>2, <3>1 DEF OnWay
    <3>2. CASE got # NoText
      <4>1. got \in Text /\ got \in {set[f], t} /\ (link[f] # <<>> => got = t)
        BY <1>1, <1>4, <2>1, <3>2 DEF OnWay
      <4>2. Train(link[f], set[f], t) /\ link'[f] = Append(link[f], got)
        BY <1>4, <2>2, <3>2 DEF OnWay
      <4>. QED  BY <4>1, <4>2, TrainAppend
    <3>. QED  BY <3>1, <3>2
  <2>5. OnWay(d, f, t)'
    BY <1>2, <1>7, <2>2, <2>3, <2>4 DEF OnWay, Train
  <2>6. Quiet(d, f)'
    BY <1>2, <1>4, <1>7, <2>1, <2>2 DEF Quiet
  <2>7. Due(d, f, t)'
    BY <2>1, <2>4 DEF Due, Carries
  <2>. QED  BY <1>6, <2>1, <2>5, <2>6, <2>7 DEF Settling
<1>9. CASE d = "server"
  <2>1. /\ UNCHANGED <<asked, property>> /\ got = get[f]
        /\ news'[d] = news[d]
        /\ \A i \in 1 .. Len(news'[f]) : news'[f][i].kind = "owner" /\ news'[f][i].who = Us
    BY <1>1, <1>2, <1>3, <1>4, <1>9, UsEvent DEF Quiet
  <2>2. /\ get'[f] = NoText /\ get'[d] = get[d] /\ link'[f] = link[f]
        /\ link'[d] = IF got # NoText THEN Append(link[d], got) ELSE link[d]
    BY <1>3, <1>5, <1>9
  <2>3. link'[d] \in Seq(Text \cap {set[d]})
    <3>1. link[d] \in Seq(Text \cap {set[d]})
      BY <1>4 DEF Quiet
    <3>2. got # NoText => got \in Text \cap {set[d]}
      BY <1>1, <1>4, <2>1 DEF Quiet
    <3>. QED  BY <2>2, <3>1, <3>2
  <2>4. OnWay(d, f, t)'
    BY <1>2, <1>4, <1>7, <2>2 DEF OnWay, Train
  <2>5. Quiet(d, f)'
    BY <1>2, <1>4, <1>7, <2>1, <2>2, <2>3 DEF Quiet
  <2>6. Due(d, f, t)'
    BY <1>2, <1>4, <1>7, <2>1, <2>2 DEF Due, Carries
  <2>7. Heard(d, t)'
    BY <1>2, <1>4, <2>1, HeardKept
  <2>. QED  BY <1>6, <2>4, <2>5, <2>6, <2>7 DEF Settling
<1>. QED  BY <1>3, <1>8, <1>9

(* What vbridge does itself at the other side it hears of there.           *)
LEMMA Followed ==
    ASSUME NEW s \in Seq(Event),
           \A i \in 1 .. Len(s) : s[i].kind = "owner" /\ s[i].who = Us,
           NEW r, r = s \o <<C!Owned("primary", Us), C!Owned("clipboard", Us)>>
    PROVE  \A i \in 1 .. Len(r) : r[i].kind = "owner" /\ r[i].who = Us
<1>. DEFINE a == C!Owned("primary", Us)
            b == C!Owned("clipboard", Us)
            n == Len(s)
<1>1. a.kind = "owner" /\ a.who = Us /\ b.kind = "owner" /\ b.who = Us
  BY DEF C!Owned
<1>2. a \in Event /\ b \in Event
  BY DEF C!Owned, Event, C!Selection
<1>. HIDE DEF a, b
<1>3. <<a, b>> \in Seq(Event)
  BY <1>2
<1>4. /\ n \in Nat /\ Len(r) = n + 2 /\ r[n + 1] = a /\ r[n + 2] = b
      /\ \A i \in 1 .. n : r[i] = s[i]
  BY <1>3 DEF a, b
<1>5. \A i \in 1 .. n + 2 : i \in 1 .. n \/ i = n + 1 \/ i = n + 2
  BY <1>4
<1>. QED  BY <1>1, <1>4, <1>5

(* A message arrives: at the other side it is the text, or one older that  *)
(* the other side has; at this side it is the text this side has.          *)
LEMMA Taken ==
    ASSUME ClipboardInv, SetInv, NEW d \in C!Desktop, NEW f, f = C!Far(d), NEW t \in Text,
           Settling(d, f, t), NEW c \in C!Desktop, link[c] # <<>>,
           link' = [link EXCEPT ![c] = Tail(@)], C!ClipboardSet(c, Head(link[c])),
           UNCHANGED <<asked, property, get, passing, master, toTell, driver, copies>>
    PROVE  Settling(d, f, t)'
<1>. DEFINE h == Head(link[c])
            told == <<C!Owned("primary", Us), C!Owned("clipboard", Us)>>
<1>1. /\ f \in C!Desktop /\ f # d /\ DOMAIN link = C!Desktop /\ DOMAIN owner = C!Desktop
      /\ DOMAIN news = C!Desktop /\ DOMAIN set = C!Desktop /\ (c = d \/ c = f)
  BY Sides DEF ClipboardInv, ClipboardType, SetInv, C!Desktop
<1>2. /\ Driven /\ Heard(d, t) /\ OnWay(d, f, t) /\ Quiet(d, f) /\ Due(d, f, t)
      /\ Offered(f, t)
  BY DEF Settling
<1>3. /\ link'[c] = Tail(link[c])
      /\ \A b \in C!Desktop \ {c} : link'[b] = link[b]
  BY <1>1
<1>4. Driven'
  BY <1>2 DEF Driven
<1>5. Onward(d)' = Onward(d) /\ Onward(f)' = Onward(f)
  BY DEF Onward
<1>6. /\ set' = [set EXCEPT ![c] = h]
      /\ IF h = set[c] THEN UNCHANGED <<owner, news>>
         ELSE /\ owner' = [owner EXCEPT ![c] =
                             [s \in C!Selection |-> IF s \in C!Owns(c) THEN Us ELSE @[s]]]
              /\ news' = [news EXCEPT ![c] = @ \o told]
  BY DEF C!ClipboardSet
<1>. HIDE DEF h, told
<1>7. CASE c = d
  <2>1. link[d] \in Seq(Text \cap {set[d]})
    BY <1>2 DEF Quiet
  <2>2. h = set[d] /\ Tail(link[d]) \in Seq(Text \cap {set[d]})
    BY <1>7, <2>1, HeadTailProperties DEF h
  <2>3. UNCHANGED <<owner, news>>
    BY <1>6, <1>7, <2>2
  <2>4. set'[d] = set[d] /\ set'[f] = set[f]
    BY <1>1, <1>6, <1>7, <2>2
  <2>5. link'[d] = Tail(link[d]) /\ link'[f] = link[f]
    BY <1>1, <1>3, <1>7
  <2>6. Heard(d, t)'
    BY <1>2, <2>3, HeardKept
  <2>7. OnWay(d, f, t)'
    BY <1>2, <1>5, <2>4, <2>5 DEF OnWay, Train
  <2>8. Quiet(d, f)'
    BY <1>2, <1>5, <2>2, <2>3, <2>4, <2>5 DEF Quiet
  <2>9. Due(d, f, t)'
    BY <1>2, <1>5, <2>3, <2>4, <2>5 DEF Due, Carries
  <2>10. Offered(f, t)'
    BY <1>2, <2>3, <2>4 DEF Offered, Once
  <2>. QED  BY <1>4, <2>6, <2>7, <2>8, <2>9, <2>10 DEF Settling
<1>8. CASE c = f
  <2>1. /\ h \in {set[f], t} /\ Train(Tail(link[f]), h, t)
        /\ Carries(link[f], t) => h = t \/ Carries(Tail(link[f]), t)
    <3>1. Train(link[f], set[f], t) /\ link[f] # <<>> /\ h = Head(link[f])
      BY <1>2, <1>8 DEF OnWay, h
    <3>. QED  BY <3>1, TrainTail
  <2>2. link'[f] = Tail(link[f]) /\ link'[d] = link[d]
    BY <1>1, <1>3, <1>8
  <2>3. set'[d] = set[d] /\ set'[f] = h
    BY <1>1, <1>6, <1>8
  <2>4. owner'[d] = owner[d] /\ news'[d] = news[d]
    BY <1>1, <1>6, <1>8
  <2>5. \/ h = set[f] /\ owner'[f] = owner[f] /\ news'[f] = news[f]
        \/ /\ h = t /\ owner'[f] = [s \in C!Selection |-> Us]
           /\ news'[f] = news[f] \o told
    BY <1>1, <1>6, <1>8, <2>1 DEF C!Owns
  <2>6. Heard(d, t)'
    BY <1>2, <2>4, HeardKept
  <2>7. OnWay(d, f, t)'
    <3>1. link[f] # <<>>
      BY <1>8
    <3>. QED  BY <1>2, <1>5, <2>1, <2>2, <2>3, <3>1 DEF OnWay, Train
  <2>8. Quiet(d, f)'
    <3>1. \A i \in 1 .. Len(news'[f]) : news'[f][i].kind = "owner" /\ news'[f][i].who = Us
      <4>1. CASE news'[f] = news[f]
        BY <1>2, <4>1 DEF Quiet
      <4>2. CASE news'[f] = news[f] \o told
        <5>1. news[f] \in Seq(Event)
          BY <1>1 DEF ClipboardInv, Honest, Events
        <5>. QED  BY <1>2, <4>2, <5>1, Followed DEF Quiet, told
      <4>. QED  BY <2>5, <4>1, <4>2
    <3>. QED  BY <1>2, <1>5, <2>2, <2>3, <3>1 DEF Quiet
  <2>9. Due(d, f, t)'
    BY <1>2, <1>5, <2>1, <2>2, <2>3, <2>4 DEF Due, Carries
  <2>10. Offered(f, t)'
    BY <1>2, <2>3, <2>5 DEF Offered, Once
  <2>. QED  BY <1>4, <2>6, <2>7, <2>8, <2>9, <2>10 DEF Settling
<1>. QED  BY <1>1, <1>7, <1>8

LEMMA TakenStep ==
    ASSUME ClipboardInv, SetInv, NEW d \in C!Desktop, NEW f, f = C!Far(d), NEW t \in Text,
           Settling(d, f, t), C!ServerReceive \/ C!ClientReceive
    PROVE  Settling(d, f, t)'
<1>1. /\ f \in C!Desktop /\ "client" \in C!Desktop /\ "server" \in C!Desktop
      /\ \/ d = "server" /\ f = "client"
         \/ d = "client" /\ f = "server"
  BY Sides DEF C!Desktop
<1>2. Driven /\ OnWay(d, f, t) /\ Quiet(d, f)
  BY DEF Settling
<1>3. CASE C!ServerReceive
  <2>1. /\ link["server"] # <<>> /\ link' = [link EXCEPT !["server"] = Tail(@)]
        /\ C!ClipboardSet("server", Head(link["server"]))
        /\ UNCHANGED <<asked, property, get, passing, master, toTell, driver, copies>>
    BY <1>2, <1>3 DEF C!ServerReceive, C!mastery, Driven
  <2>. QED  BY <1>1, <2>1, Taken
<1>4. CASE C!ClientReceive
  <2>1. link["client"] # <<>> /\ link["client"] \in Seq(Text)
    <3>1. link[f] \in Seq(Text \cap {set[f], t}) /\ link[d] \in Seq(Text \cap {set[d]})
      BY <1>2 DEF OnWay, Train, Quiet
    <3>2. link[f] \in Seq(Text) /\ link[d] \in Seq(Text)
      BY <3>1, SeqMonotonic
    <3>. QED  BY <1>1, <1>4, <3>2 DEF C!ClientReceive
  <2>2. Head(link["client"]) \in Text
    BY <2>1, HeadTailProperties
  <2>3. /\ link' = [link EXCEPT !["client"] = Tail(@)]
        /\ C!ClipboardSet("client", Head(link["client"]))
        /\ UNCHANGED <<asked, property, get, passing, master, toTell, driver, copies>>
    BY <1>4, <2>2 DEF C!ClientReceive
  <2>. QED  BY <1>1, <2>1, <2>3, Taken
<1>. QED  BY <1>3, <1>4

(* The server sends the text it got: there is no mastership to tell.       *)
LEMMA SentStep ==
    ASSUME ClipboardInv, NEW d \in C!Desktop, NEW f, f = C!Far(d), NEW t \in Text,
           Settling(d, f, t), C!ServerSend
    PROVE  Settling(d, f, t)'
<1>1. /\ f \in C!Desktop /\ f # d /\ "client" \in C!Desktop /\ DOMAIN link = C!Desktop
      /\ \/ d = "server" /\ f = "client"
         \/ d = "client" /\ f = "server"
  BY Sides DEF C!Desktop, ClipboardInv, ClipboardType
<1>2. /\ Driven /\ Heard(d, t) /\ OnWay(d, f, t) /\ Quiet(d, f) /\ Due(d, f, t)
      /\ Offered(f, t) /\ t # NoText
  BY Texts DEF Settling
<1>3. /\ passing # NoText /\ passing' = NoText
      /\ link' = [link EXCEPT !["client"] = Append(@, passing)]
      /\ UNCHANGED <<owner, news, asked, property, set, get, master, toTell, driver, copies>>
  BY <1>2 DEF C!ServerSend, C!desk, Driven
<1>4. passing \in Text
  BY <1>3 DEF ClipboardInv, Copied
<1>5. link'["client"] = Append(link["client"], passing) /\ link'["server"] = link["server"]
  BY <1>1, <1>3 DEF C!Desktop
<1>6. Driven' /\ Offered(f, t)' /\ Heard(d, t)'
  BY <1>2, <1>3, HeardKept DEF Driven, Offered, Once
<1>7. CASE d = "server"
  <2>1. /\ Onward(d) = passing /\ Onward(d)' = NoText /\ Onward(f) = NoText /\ Onward(f)' = NoText
        /\ link'[f] = Append(link[f], passing) /\ link'[d] = link[d]
    BY <1>1, <1>3, <1>5, <1>7 DEF Onward
  <2>2. /\ Train(link[f], set[f], t) /\ passing \in {set[f], t}
        /\ link[f] # <<>> => passing = t
    BY <1>2, <1>3, <2>1 DEF OnWay
  <2>3. /\ Train(link'[f], set[f], t)
        /\ Carries(link[f], t) \/ passing = t => Carries(link'[f], t)
    BY <1>4, <2>1, <2>2, TrainAppend
  <2>4. OnWay(d, f, t)'
    BY <1>2, <1>3, <2>1, <2>3 DEF OnWay, Train
  <2>5. Quiet(d, f)'
    BY <1>2, <1>3, <2>1 DEF Quiet
  <2>6. Due(d, f, t)'
    BY <1>2, <1>3, <2>1, <2>3 DEF Due, Carries
  <2>. QED  BY <1>6, <2>4, <2>5, <2>6 DEF Settling
<1>8. CASE d = "client"
  <2>1. /\ Onward(f) = passing /\ Onward(f)' = NoText /\ Onward(d) = NoText /\ Onward(d)' = NoText
        /\ link'[d] = Append(link[d], passing) /\ link'[f] = link[f]
    BY <1>1, <1>3, <1>5, <1>8 DEF Onward
  <2>2. link'[d] \in Seq(Text \cap {set[d]})
    <3>1. link[d] \in Seq(Text \cap {set[d]}) /\ passing \in Text \cap {set[d]}
      BY <1>2, <1>3, <1>4, <2>1 DEF Quiet
    <3>. QED  BY <2>1, <3>1
  <2>3. OnWay(d, f, t)'
    BY <1>2, <1>3, <2>1 DEF OnWay, Train
  <2>4. Quiet(d, f)'
    BY <1>2, <1>3, <2>1, <2>2 DEF Quiet
  <2>5. Due(d, f, t)'
    BY <1>2, <1>3, <2>1 DEF Due, Carries
  <2>. QED  BY <1>6, <2>3, <2>4, <2>5 DEF Settling
<1>. QED  BY <1>1, <1>7, <1>8

(* A program answers: only the one that was copied from is asked.          *)
LEMMA AnswerStep ==
    ASSUME ClipboardInv, NEW d \in C!Desktop, NEW f, f = C!Far(d), NEW t \in Text,
           Settling(d, f, t), NEW c \in C!Desktop, NEW a \in asked[c], C!Reply(c, a)
    PROVE  Settling(d, f, t)'
<1>1. /\ f \in C!Desktop /\ f # d /\ (c = d \/ c = f)
      /\ DOMAIN asked = C!Desktop /\ DOMAIN news = C!Desktop /\ DOMAIN property = C!Desktop
  BY Sides DEF C!Desktop, ClipboardInv, ClipboardType
<1>2. /\ Driven /\ Heard(d, t) /\ OnWay(d, f, t) /\ Quiet(d, f) /\ Due(d, f, t)
      /\ Offered(f, t)
  BY DEF Settling
<1>3. c = d
  BY <1>1, <1>2 DEF Quiet
<1>4. PICK ok \in BOOLEAN :
        /\ ~ok => a.target = "utf8"
        /\ asked' = [asked EXCEPT ![d] = @ \ {a}]
        /\ news' = [news EXCEPT ![d] = Append(@, C!Answer(a.sel, a.target, ok))]
        /\ property' = IF ok THEN [property EXCEPT ![d][a.sel] = a.text] ELSE property
  <2>1. PICK ok \in {TRUE} \cup {a.target # "utf8"} :
          /\ news' = [news EXCEPT ![c] = Append(@, C!Answer(a.sel, a.target, ok))]
          /\ property' = IF ok THEN [property EXCEPT ![c][a.sel] = a.text] ELSE property
    BY DEF C!Reply
  <2>2. asked' = [asked EXCEPT ![c] = @ \ {a}]
    BY DEF C!Reply
  <2>3. ok = TRUE \/ (ok = (a.target # "utf8"))
    OBVIOUS
  <2>. QED  BY <1>3, <2>1, <2>2, <2>3
<1>5. UNCHANGED <<owner, set, get, passing, master, toTell, driver, link, copies>>
  BY DEF C!Reply, C!mastery
<1>. DEFINE e == C!Answer(a.sel, a.target, ok)
<1>6. /\ e.kind = "answer" /\ e.sel = a.sel /\ e.ok = ok /\ e.target = a.target
  BY DEF C!Answer
<1>. HIDE DEF e
<1>7. /\ asked'[d] = asked[d] \ {a} /\ asked'[f] = asked[f]
      /\ news'[d] = Append(news[d], e) /\ news'[f] = news[f]
      /\ property'[d] = IF ok THEN [property[d] EXCEPT ![a.sel] = a.text] ELSE property[d]
  BY <1>1, <1>4 DEF e
<1>8. /\ a.text = t /\ owner[d][a.sel] = t
      /\ a.sel \in C!Selection /\ DOMAIN property[d] = C!Selection
  <2>1. Questions(d) /\ Answers(d)
    BY DEF ClipboardInv, Honest
  <2>2. a \in [sel : C!Selection, target : Target, text : Copied(d)]
    BY <1>3, <2>1 DEF Questions
  <2>. QED  BY <1>2, <1>3, <2>1, <2>2 DEF Heard, Answers
<1>9. \A x : x.sel \in C!Selection =>
        property'[d][x.sel] = IF ok /\ x.sel = a.sel THEN t ELSE property[d][x.sel]
  BY <1>7, <1>8
<1>10. Heard(d, t)'
  <2>. DEFINE n == Len(news[d])
  <2>1. news[d] \in Seq(Event)
    BY DEF ClipboardInv, Honest, Events
  <2>2. /\ n \in Nat /\ Len(news'[d]) = n + 1 /\ news'[d][n + 1] = e
        /\ \A i \in 1 .. n : news'[d][i] = news[d][i] /\ news[d][i] \in Event
    BY <1>7, <2>1, ElementOfSeq
  <2>. HIDE DEF n
  <2>3. ASSUME NEW x \in Event, Fresh(d, t, x) PROVE Fresh(d, t, x)'
    <3>1. x.sel \in C!Selection
      BY <2>3 DEF Event
    <3>2. property'[d][x.sel] \in {t, property[d][x.sel]}
      BY <1>9, <3>1
    <3>3. owner'[d][x.sel] = t /\ (x.kind = "owner" => x.who = t)
      BY <1>5, <2>3 DEF Fresh
    <3>4. x.kind = "answer" => IF x.ok THEN property'[d][x.sel] = t ELSE x.target = "utf8"
      BY <2>3, <3>2 DEF Fresh
    <3>. QED  BY <3>3, <3>4 DEF Fresh
  <2>4. Fresh(d, t, e)'
    <3>1. owner'[d][e.sel] = t
      BY <1>5, <1>6, <1>8
    <3>2. ok => property'[d][e.sel] = t
      BY <1>6, <1>8, <1>9
    <3>. QED  BY <1>4, <1>6, <3>1, <3>2 DEF Fresh
  <2>5. \A i \in 1 .. Len(news'[d]) : Fresh(d, t, news[d][i])'
    <3>1. \A i \in 1 .. n : Fresh(d, t, news[d][i])
      BY <1>2 DEF Heard, n
    <3>2. ASSUME NEW i \in 1 .. n + 1 PROVE Fresh(d, t, news[d][i])'
      <4>1. CASE i = n + 1
        BY <2>2, <2>4, <4>1
      <4>2. CASE i \in 1 .. n
        BY <2>2, <2>3, <3>1, <4>2
      <4>. QED  BY <2>2, <4>1, <4>2
    <3>. QED  BY <2>2, <3>2
  <2>6. \A x \in asked'[d] : x.text = t /\ owner'[d][x.sel] = t
    BY <1>2, <1>5, <1>7 DEF Heard
  <2>. QED  BY <2>5, <2>6 DEF Heard
<1>11. Onward(d)' = Onward(d) /\ Onward(f)' = Onward(f)
  BY <1>5 DEF Onward
<1>12. Driven' /\ OnWay(d, f, t)' /\ Quiet(d, f)' /\ Offered(f, t)'
  BY <1>2, <1>5, <1>7, <1>11 DEF Driven, OnWay, Train, Quiet, Offered, Once
<1>13. Due(d, f, t)'
  <2>1. news[d] \in Seq(Event)
    BY DEF ClipboardInv, Honest, Events
  <2>2. e \in Event
    BY <1>8 DEF ClipboardInv, Honest, Questions, C!Answer, Event, e
  <2>3. news'[d] # <<>>
    BY <1>7, <2>1, <2>2
  <2>. QED  BY <2>3 DEF Due
<1>. QED  BY <1>10, <1>12, <1>13 DEF Settling

(* A copy made while nothing else went on sets the text on its way; if the *)
(* other side had this text before, it was copied before.                  *)
LEMMA SetOut ==
    ASSUME ClipboardInv, SetInv, NEW d \in C!Desktop, NEW t \in Text,
           NEW S \in (SUBSET C!Selection) \ {{}}, C!Copy(d, t, S), C!Still
    PROVE  Settling(d, C!Far(d), t)'
<1>. DEFINE f == C!Far(d)
            new == [at |-> d, text |-> t]
<1>1. /\ f \in C!Desktop /\ f # d /\ C!Far(f) = d
      /\ \/ d = "server" /\ f = "client"
         \/ d = "client" /\ f = "server"
  BY Sides
<1>. HIDE DEF f
<1>2. /\ passing = NoText /\ Driven
      /\ \A c \in C!Desktop : /\ news[c] = <<>> /\ asked[c] = {} /\ link[c] = <<>>
                              /\ get[c] \in {NoText, set[C!Far(c)]}
  BY DEF C!Still, Driven
<1>3. /\ news[d] = <<>> /\ asked[d] = {} /\ link[d] = <<>> /\ get[d] \in {NoText, set[f]}
      /\ news[f] = <<>> /\ asked[f] = {} /\ link[f] = <<>> /\ get[f] \in {NoText, set[d]}
  BY <1>1, <1>2 DEF f
<1>4. /\ UNCHANGED <<asked, property, set, get, passing, master, toTell, driver, link>>
      /\ copies' = Append(copies, new)
      /\ owner' = [owner EXCEPT ![d] = [s \in C!Selection |-> IF s \in S THEN t ELSE @[s]]]
  BY DEF C!Copy, C!mastery
<1>5. PICK order \in C!SetToSeqs(S) :
         news' = [news EXCEPT ![d] = @ \o [i \in DOMAIN order |-> C!Owned(order[i], t)]]
  BY DEF C!Copy
<1>6. order \in [1 .. Cardinality(S) -> S] /\ Cardinality(S) \in Nat \ {0}
  BY <1>5, OrderOf
<1>. DEFINE told == [i \in DOMAIN order |-> C!Owned(order[i], t)]
<1>7. /\ told \in Seq(Event) /\ Len(told) = Cardinality(S)
      /\ \A i \in 1 .. Cardinality(S) : told[i] = C!Owned(order[i], t) /\ order[i] \in S
  <2>1. \A s \in C!Selection : C!Owned(s, t) \in Event
    BY DEF C!Owned, Event
  <2>2. told \in [1 .. Cardinality(S) -> Event]
    BY <1>6, <2>1
  <2>. QED  BY <1>6, <2>2
<1>. HIDE DEF told
<1>8. news'[d] = told /\ news'[f] = <<>>
  <2>1. <<>> \o told = told
    BY <1>7
  <2>2. news' = [news EXCEPT ![d] = @ \o told] /\ DOMAIN news = C!Desktop
    BY <1>5 DEF told, ClipboardInv, ClipboardType
  <2>. QED  BY <1>1, <1>3, <2>1, <2>2
<1>9. (\A s \in S : owner'[d][s] = t) /\ owner'[f] = owner[f]
  BY <1>1, <1>4 DEF ClipboardInv, ClipboardType
<1>10. Heard(d, t)'
  <2>1. ASSUME NEW i \in 1 .. Cardinality(S) PROVE Fresh(d, t, told[i])'
    <3>1. told[i].kind = "owner" /\ told[i].sel = order[i] /\ told[i].who = t /\ order[i] \in S
      BY <1>7 DEF C!Owned
    <3>. QED  BY <1>9, <3>1 DEF Fresh
  <2>. QED  BY <1>3, <1>4, <1>7, <1>8, <2>1 DEF Heard
<1>11. Onward(d)' = NoText /\ Onward(f)' = NoText
  BY <1>2, <1>4 DEF Onward
<1>12. Driven' /\ OnWay(d, f, t)' /\ Quiet(d, f)'
  <2>1. \A T : <<>> \in Seq(T)
    OBVIOUS
  <2>2. Train(<<>>, set[f], t)
    BY <2>1 DEF Train
  <2>3. OnWay(d, f, t)'
    BY <1>3, <1>4, <1>11, <2>2 DEF OnWay, Train
  <2>4. Quiet(d, f)'
    <3>1. \A i \in 1 .. Len(news'[f]) : FALSE
      BY <1>8
    <3>. QED  BY <1>3, <1>4, <1>11, <2>1, <3>1 DEF Quiet
  <2>. QED  BY <1>2, <1>4, <2>3, <2>4 DEF Driven
<1>13. Due(d, f, t)'
  <2>1. news'[d] # <<>>
    BY <1>6, <1>7, <1>8
  <2>. QED  BY <2>1 DEF Due
<1>14. Offered(f, t)'
  <2>1. SUFFICES ASSUME set'[f] = t, Once(t)' PROVE FALSE
    BY DEF Offered
  <2>2. set[f] \in Copied(d)
    BY <1>1, <1>4, <2>1, Texts DEF SetInv
  <2>3. PICK i \in DOMAIN copies : copies[i].text = t
    BY <1>4, <2>1, <2>2 DEF Copied, C!CopiedAt
  <2>4. copies \in Seq([at : C!Desktop, text : Text])
    BY DEF ClipboardInv, ClipboardType
  <2>5. i \in 1 .. Len(copies') - 1 /\ copies'[i] = copies[i]
    BY <1>4, <2>3, <2>4
  <2>. QED  BY <2>1, <2>3, <2>5 DEF Once
<1>. QED  BY <1>10, <1>12, <1>13, <1>14 DEF Settling, f

LEMMA LastOf ==
    ASSUME NEW T, NEW s \in Seq(T), s # <<>>
    PROVE  s[Len(s)] \in T
<1>1. Len(s) \in Nat \ {0}
  BY EmptySeq
<1>2. Len(s) \in 1 .. Len(s)
  BY <1>1
<1>. QED  BY <1>2, ElementOfSeq

LEMMA Waiting ==
    ASSUME NEW d, NEW f, NEW t, Settling(d, f, t), UNCHANGED clipboard
    PROVE  Settling(d, f, t)'
<1>1. /\ Driven /\ Heard(d, t) /\ OnWay(d, f, t) /\ Quiet(d, f) /\ Due(d, f, t)
      /\ Offered(f, t)
  BY DEF Settling
<1>2. UNCHANGED <<owner, news, asked, property, set, get, passing, master, toTell, driver,
                  link, copies>>
  BY DEF clipboard
<1>3. Driven' /\ Heard(d, t)' /\ Offered(f, t)'
  BY <1>1, <1>2, HeardKept DEF Driven, Offered, Once
<1>4. Onward(d)' = Onward(d) /\ Onward(f)' = Onward(f)
  BY <1>2 DEF Onward
<1>5. OnWay(d, f, t)' /\ Quiet(d, f)' /\ Due(d, f, t)'
  BY <1>1, <1>2, <1>4 DEF OnWay, Train, Quiet, Due, Carries
<1>. QED  BY <1>3, <1>5 DEF Settling

LEMMA CalmStep ==
    ASSUME ClipboardInv, SetInv, CalmInv, [C!Next]_clipboard
    PROVE  CalmInv'
<1>1. SUFFICES ASSUME calm' PROVE copies' # <<>> /\ Settling(LastOne.at, C!Far(LastOne.at), LastOne.text)'
  BY DEF CalmInv
<1>2. copies \in Seq([at : C!Desktop, text : Text])
  BY DEF ClipboardInv, ClipboardType
<1>3. CASE \E d \in C!Desktop, t \in Text, S \in (SUBSET C!Selection) \ {{}} : C!Copy(d, t, S)
  <2>1. PICK d \in C!Desktop, t \in Text, S \in (SUBSET C!Selection) \ {{}} : C!Copy(d, t, S)
    BY <1>3
  <2>2. C!Still /\ copies' = Append(copies, [at |-> d, text |-> t])
    BY <1>1, <2>1 DEF C!Copy
  <2>3. Settling(d, C!Far(d), t)'
    BY <2>1, <2>2, SetOut
  <2>4. LastOne' = [at |-> d, text |-> t] /\ copies' # <<>>
    BY <1>2, <2>2 DEF LastOne
  <2>5. LastOne.at' = d /\ LastOne.text' = t
    BY <2>4
  <2>. QED  BY <2>3, <2>4, <2>5
<1>4. CASE calm /\ UNCHANGED copies
  <2>1. copies # <<>> /\ LastOne' = LastOne
    BY <1>4 DEF CalmInv, LastOne
  <2>2. LastOne \in [at : C!Desktop, text : Text]
    BY <1>2, <2>1, LastOf DEF LastOne
  <2>3. PICK d \in C!Desktop, t \in Text : LastOne.at = d /\ LastOne.text = t
    BY <2>2
  <2>4. PICK f : f = C!Far(d)
    OBVIOUS
  <2>5. Settling(d, f, t)
    BY <1>4, <2>3, <2>4 DEF CalmInv
  <2>6. Settling(d, f, t)'
    <3>1. CASE C!ServerEvent \/ C!ClientEvent
      BY <2>3, <2>4, <2>5, <3>1, ServerHears, ClientHears
    <3>2. CASE C!ServerReceive \/ C!ClientReceive
      BY <2>3, <2>4, <2>5, <3>2, TakenStep
    <3>3. CASE C!ServerSend
      BY <2>3, <2>4, <2>5, <3>3, SentStep
    <3>4. CASE \E c \in C!Desktop : \E a \in asked[c] : C!Reply(c, a)
      BY <2>3, <2>4, <2>5, <3>4, AnswerStep
    <3>5. CASE UNCHANGED clipboard
      BY <2>5, <3>5, Waiting
    <3>6. ~ \E c \in C!Desktop, u \in Text, S \in (SUBSET C!Selection) \ {{}} : C!Copy(c, u, S)
      <4>1. \A x : Append(copies, x) # copies
        <5>1. \A x : Len(Append(copies, x)) = Len(copies) + 1 /\ Len(copies) \in Nat
          BY <1>2
        <5>. QED  BY <5>1
      <4>2. ASSUME NEW c, NEW u, NEW S, C!Copy(c, u, S) PROVE FALSE
        <5>1. copies' = Append(copies, [at |-> c, text |-> u])
          BY <4>2 DEF C!Copy
        <5>. QED  BY <1>4, <4>1, <5>1
      <4>. QED  BY <4>2
    <3>7. \/ \E c \in C!Desktop, u \in Text, S \in (SUBSET C!Selection) \ {{}} : C!Copy(c, u, S)
          \/ C!ServerEvent \/ C!ClientEvent \/ C!ServerReceive \/ C!ClientReceive \/ C!ServerSend
          \/ \E c \in C!Desktop : \E a \in asked[c] : C!Reply(c, a)
          \/ UNCHANGED clipboard
      BY <1>1 DEF C!Next, C!Exit, C!Turn
    <3>. QED  BY <3>1, <3>2, <3>3, <3>4, <3>5, <3>6, <3>7
  <2>7. LastOne.at' = d /\ LastOne.text' = t /\ copies' # <<>>
    BY <1>4, <2>1, <2>3
  <2>. QED  BY <2>4, <2>6, <2>7
<1>5. \/ \E d \in C!Desktop, t \in Text, S \in (SUBSET C!Selection) \ {{}} : C!Copy(d, t, S)
      \/ calm /\ UNCHANGED copies
  BY <1>1 DEF C!Next, C!Exit, C!Turn, C!Reply, C!ServerEvent, C!ClientEvent, C!ServerReceive,
              C!ServerSend, C!ClientReceive, clipboard
<1>. QED  BY <1>3, <1>4, <1>5

(* After a copy made while nothing else went on, the other desktop has the *)
(* text once all is still, and pastes it from both its selections if it    *)
(* was not copied before: however the questions, answers, events and       *)
(* messages of that copy interleave.                                       *)
THEOREM LastCopyArrivesCorrect == MCSpec => []LastCopyArrives
<1>. DEFINE Inv == ClipboardInv /\ SetInv /\ CalmInv
<1>1. MCInit => Inv
  <2>1. SUFFICES ASSUME C!Init PROVE Inv
    BY DEF MCInit
  <2>2. master = TRUE /\ ~calm /\ set = [d \in C!Desktop |-> NoText] /\ link["client"] = <<>>
    <3>1. "client" \in C!Desktop
      BY DEF C!Desktop
    <3>2. /\ master = TRUE /\ calm = FALSE /\ set = [d \in C!Desktop |-> NoText]
          /\ link = [d \in C!Desktop |-> <<>>]
      BY <2>1, Zenon DEF C!Init
    <3>. QED  BY <3>1, <3>2
  <2>3. <<>> \in Seq(Copied("server") \cup TellsWho)
    OBVIOUS
  <2>. QED  BY <2>1, <2>2, <2>3, ClipboardInit DEF SetInv, CalmInv
<1>2. ASSUME Inv, [MCNext]_<<part, vars, pointer, clipboard, keyboard>> PROVE Inv'
  <2>1. [C!Next]_clipboard
    BY <1>2 DEF MCNext, CursorNext, PointerNext, ClipboardNext, KeyboardNext
  <2>. QED  BY <1>2, <2>1, ClipboardStep, SetCopied, CalmStep
<1>3. ASSUME Inv PROVE C!LastCopyArrives
  <2>1. SUFFICES ASSUME calm, C!Still
                 PROVE  LET c == C!Last(copies)
                            once == \A i \in 1 .. Len(copies) - 1 : copies[i].text # c.text
                        IN  /\ set[C!Far(c.at)] = c.text
                            /\ once => \A s \in C!Selection : C!Pasted(C!Far(c.at), s) = c.text
    BY DEF C!LastCopyArrives
  <2>2. copies # <<>> /\ Settling(LastOne.at, C!Far(LastOne.at), LastOne.text)
    BY <1>3, <2>1 DEF CalmInv
  <2>3. LastOne.at \in C!Desktop /\ LastOne.text \in Text
    <3>1. copies \in Seq([at : C!Desktop, text : Text])
      BY <1>3 DEF ClipboardInv, ClipboardType
    <3>2. LastOne \in [at : C!Desktop, text : Text]
      BY <2>2, <3>1, LastOf DEF LastOne
    <3>. QED  BY <3>2
  <2>4. PICK d \in C!Desktop, t \in Text : d = LastOne.at /\ t = LastOne.text
    BY <2>3
  <2>5. PICK f : f = C!Far(d)
    OBVIOUS
  <2>6. f \in C!Desktop /\ Settling(d, f, t) /\ t # NoText /\ C!Far(f) = d
    BY <2>2, <2>4, <2>5, Sides, Texts
  <2>7. set[f] = t
    <3>1. passing = NoText /\ \A c \in C!Desktop : news[c] = <<>> /\ asked[c] = {} /\ link[c] = <<>>
          /\ get[c] \in {NoText, set[C!Far(c)]}
      BY <2>1 DEF C!Still
    <3>2. /\ news[d] = <<>> /\ asked[d] = {} /\ link[f] = <<>> /\ get[d] \in {NoText, set[f]}
          /\ Onward(d) = NoText
      BY <2>5, <2>6, <3>1 DEF Onward
    <3>3. ~Carries(link[f], t)
      BY <3>2 DEF Carries
    <3>. QED  BY <2>6, <3>2, <3>3 DEF Settling, Due
  <2>8. C!Last(copies) = LastOne
    BY DEF C!Last, LastOne
  <2>9. ASSUME \A i \in 1 .. Len(copies) - 1 : copies[i].text # t
        PROVE  \A s \in C!Selection : C!Pasted(f, s) = t
    <3>1. \A s \in C!Selection : owner[f][s] = Us
      BY <2>6, <2>7, <2>9 DEF Settling, Offered, Once
    <3>. QED  BY <2>7, <3>1 DEF C!Pasted
  <2>. QED  BY <2>4, <2>5, <2>7, <2>8, <2>9
<1>. QED  BY <1>1, <1>2, <1>3, PTL DEF MCSpec, LastCopyArrives

=============================================================================
