---------------------------- MODULE CursorProofs ----------------------------
(* The two lists of cursor pictures, for any set of pictures and any size. *)
EXTENDS Cursor, SequenceTheorems, TLAPS

Picture == Hash \cup {Blank}
Lists == [Index -> Picture]

(* A message is a header or the pixels of a picture.                       *)
LEMMA Kinds ==
  ASSUME NEW x \in Header \cup Data
  PROVE  /\ x.kind = "header" => x.hash \in Picture
         /\ x.kind = "data" => x.data \in Hash
         /\ x.kind \in {"header", "data"}
BY DEF Header, Data, Picture

(* The state keeps its types.                                              *)
THEOREM TypeCorrect == Spec => []TypeOK
<1>. USE CursorAssumption DEF Index
<1>1. Init => TypeOK
  <2>. SUFFICES ASSUME Init PROVE TypeOK
    OBVIOUS
  <2>1. wire \in Seq(Header \cup Data) /\ Len(wire) <= Room
    BY DEF Init
  <2>2. cache \in [Index -> Entry] /\ known \in [Index -> Hash \cup {Blank}]
    BY DEF Init, Entry
  <2>3. serial \in 1 .. Size + 1
    BY DEF Init
  <2>. QED  BY <2>1, <2>2, <2>3 DEF Init, TypeOK
<1>2. ASSUME TypeOK, [Next]_vars PROVE TypeOK'
  <2>. USE <1>2 DEF TypeOK
  <2>1. CASE (\E h \in Hash \cup {Blank} : Grab(h)) \/ Ask \/ Begin
    BY <2>1 DEF Grab, Ask, Begin, clientVars
  <2>2. CASE SendCursor
    <3>1. [kind |-> "header", hash |-> cursor] \in Header \cup Data
      BY DEF Header
    <3>2. wire' \in Seq(Header \cup Data) /\ Len(wire') <= Room
      BY <2>2, <3>1 DEF SendCursor, HasRoom
    <3>3. known' \in [Index -> Hash \cup {Blank}]
      BY <2>2 DEF SendCursor, PushFirst
    <3>4. pixels' \in IF sending' = "cursor_data" THEN Hash ELSE {None}
      BY <2>2 DEF SendCursor, IsNew
    <3>. QED  BY <2>2, <3>2, <3>3, <3>4 DEF SendCursor, clientVars
  <2>3. CASE SendData
    <3>1. [kind |-> "data", data |-> pixels] \in Header \cup Data
      BY <2>3 DEF SendData, Data
    <3>2. wire' \in Seq(Header \cup Data) /\ Len(wire') <= Room
      BY <2>3, <3>1 DEF SendData, HasRoom
    <3>. QED  BY <2>3, <3>2 DEF SendData, clientVars
  <2>4. CASE RecvNew
    <3>1. Head(wire) \in Header \cup Data /\ Head(wire).kind = "header"
      BY <2>4 DEF RecvNew, RecvsCursor
    <3>2. [hash |-> Head(wire).hash, data |-> None] \in Entry
      BY <3>1, Kinds DEF Entry, Picture
    <3>3. cache' \in [Index -> Entry]
      BY <2>4, <3>2 DEF RecvNew, PushFirst
    <3>4. wire' \in Seq(Header \cup Data) /\ Len(wire') <= Room
      BY <2>4 DEF RecvNew, RecvsCursor
    <3>. QED  BY <2>4, <3>3, <3>4 DEF RecvNew, RecvsCursor, serverVars
  <2>5. CASE RecvKnown
    BY <2>5 DEF RecvKnown, RecvsCursor, serverVars
  <2>6. CASE RecvData
    <3>1. Head(wire) \in Header \cup Data /\ Head(wire).kind = "data"
      BY <2>6 DEF RecvData
    <3>2. Head(wire).data \in Hash
      BY <3>1, Kinds
    <3>3. cache[1] \in Entry /\ 1 \in Index
      OBVIOUS
    <3>4. [cache[1] EXCEPT !.data = Head(wire).data] \in Entry
      BY <3>2, <3>3 DEF Entry
    <3>5. cache' \in [Index -> Entry]
      BY <2>6, <3>3, <3>4 DEF RecvData
    <3>6. wire' \in Seq(Header \cup Data) /\ Len(wire') <= Room
      BY <2>6 DEF RecvData
    <3>. QED  BY <2>6, <3>5, <3>6 DEF RecvData, serverVars
  <2>7. CASE Show
    <3>1. serial \in Index => cache[serial].data \in Hash \cup {None}
      BY DEF Entry
    <3>2. shown' \in Hash \cup {None, Unseen}
      BY <2>7, <3>1 DEF Show
    <3>. QED  BY <2>7, <3>2 DEF Show, serverVars
  <2>8. CASE UNCHANGED vars
    BY <2>8 DEF vars, serverVars, clientVars
  <2>. QED  BY <1>2, <2>1, <2>2, <2>3, <2>4, <2>5, <2>6, <2>7, <2>8 DEF Next
<1>. QED  BY <1>1, <1>2, PTL DEF Spec

-----------------------------------------------------------------------------
(* The lists in step.                                                      *)

(* What a list becomes with a message of a picture h.                      *)
New(list, h) == h # Blank /\ \A i \in Index : list[i] # h
Accept(list, h) == IF New(list, h) THEN PushFirst(list, h) ELSE list

(* The list of the client.                                                 *)
Kept == [i \in Index |-> cache[i].hash]

(* A history of the list: from what the client has, through the messages   *)
(* on the wire, to what the server believes.                               *)
Through(chain) ==
    /\ chain \in [1 .. Len(wire) + 1 -> Lists]
    /\ chain[1] = Kept
    /\ chain[Len(wire) + 1] = known
    /\ \A i \in 1 .. Len(wire) :
          chain[i + 1] = IF wire[i].kind = "header"
                         THEN Accept(chain[i], wire[i].hash) ELSE chain[i]

(* Pixels are due at a place of the wire: the client waits for them, or    *)
(* the message before named a picture that was not in the list.            *)
Due(chain, i) ==
    IF i = 1 THEN expecting
    ELSE wire[i - 1].kind = "header" /\ New(chain[i - 1], wire[i - 1].hash)

(* The picture whose pixels are due there.                                 *)
DueHash(i) == IF i = 1 THEN cache[1].hash ELSE wire[i - 1].hash

Agree(chain) ==
    /\ Through(chain)
    /\ \A i \in 1 .. Len(wire) :
          /\ wire[i].kind = "data" <=> Due(chain, i)
          /\ wire[i].kind = "data" => wire[i].data = DueHash(i)
    /\ sending = "cursor_data" <=> Due(chain, Len(wire) + 1)
    /\ sending = "cursor_data" => pixels = DueHash(Len(wire) + 1)

Lockstep == \E chain : Agree(chain)

LEMMA AcceptType ==
  ASSUME NEW list \in Lists, NEW h \in Picture
  PROVE  Accept(list, h) \in Lists
BY CursorAssumption DEF Accept, New, PushFirst, Lists, Index

(* What is appended to the wire extends the history at its end.            *)
LEMMA Extend ==
  ASSUME TypeOK, NEW chain, Through(chain), NEW x \in Header \cup Data,
         wire' = Append(wire, x), UNCHANGED cache,
         known' = IF x.kind = "header" THEN Accept(known, x.hash) ELSE known,
         NEW longer,
         longer = [i \in 1 .. Len(wire) + 2 |->
                     IF i <= Len(wire) + 1 THEN chain[i]
                     ELSE IF x.kind = "header" THEN Accept(known, x.hash) ELSE known]
  PROVE  Through(longer)'
<1>1. /\ Len(wire) \in Nat /\ Len(wire') = Len(wire) + 1
      /\ \A i \in 1 .. Len(wire) : wire'[i] = wire[i]
      /\ wire'[Len(wire) + 1] = x
  BY DEF TypeOK
<1>2. known \in Lists
  BY DEF TypeOK, Lists, Picture
<1>3. x.kind = "header" => Accept(known, x.hash) \in Lists
  BY <1>2, Kinds, AcceptType
<1>4. longer \in [1 .. Len(wire') + 1 -> Lists]
  BY <1>1, <1>2, <1>3 DEF Through
<1>5. /\ longer[1] = Kept'
      /\ longer[Len(wire') + 1] = known'
  BY <1>1 DEF Through, Kept
<1>6. ASSUME NEW i \in 1 .. Len(wire')
      PROVE  longer[i + 1] = IF wire'[i].kind = "header"
                             THEN Accept(longer[i], wire'[i].hash) ELSE longer[i]
  <2>1. CASE i = Len(wire) + 1
    <3>1. longer[i] = known
      BY <1>1, <2>1 DEF Through
    <3>. QED  BY <1>1, <2>1, <3>1
  <2>2. CASE i # Len(wire) + 1
    <3>1. i \in 1 .. Len(wire) /\ longer[i] = chain[i] /\ longer[i + 1] = chain[i + 1]
      BY <1>1, <2>2
    <3>. QED  BY <1>1, <3>1 DEF Through
  <2>. QED  BY <2>1, <2>2
<1>. QED  BY <1>4, <1>5, <1>6 DEF Through

(* What is received leaves the history at its beginning.                   *)
LEMMA Shorten ==
  ASSUME TypeOK, NEW chain, Through(chain), wire # <<>>, wire' = Tail(wire),
         Kept' = chain[2], UNCHANGED known,
         NEW shorter, shorter = [i \in 1 .. Len(wire) |-> chain[i + 1]]
  PROVE  Through(shorter)'
<1>1. /\ Len(wire) \in Nat \ {0} /\ Len(wire') = Len(wire) - 1
      /\ \A i \in 1 .. Len(wire') : wire'[i] = wire[i + 1]
  BY HeadTailProperties, EmptySeq DEF TypeOK
<1>2. shorter \in [1 .. Len(wire') + 1 -> Lists]
  BY <1>1 DEF Through
<1>3. shorter[1] = Kept' /\ shorter[Len(wire') + 1] = known'
  BY <1>1 DEF Through
<1>4. ASSUME NEW i \in 1 .. Len(wire')
      PROVE  shorter[i + 1] = IF wire'[i].kind = "header"
                              THEN Accept(shorter[i], wire'[i].hash) ELSE shorter[i]
  <2>1. i + 1 \in 1 .. Len(wire) /\ i \in 1 .. Len(wire)
    BY <1>1
  <2>2. shorter[i] = chain[i + 1] /\ shorter[i + 1] = chain[(i + 1) + 1]
    BY <1>1, <2>1
  <2>. QED  BY <1>1, <2>1, <2>2 DEF Through
<1>. QED  BY <1>2, <1>3, <1>4 DEF Through

(* A message received agrees with what follows when the client then waits  *)
(* for what is due behind it.                                              *)
LEMMA ReceivedAgrees ==
  ASSUME TypeOK, NEW chain, Agree(chain), wire # <<>>, wire' = Tail(wire),
         UNCHANGED serverVars, Kept' = chain[2], expecting' <=> Due(chain, 2),
         expecting' => cache'[1].hash = wire[1].hash
  PROVE  Lockstep'
<1>. PICK shorter, n : /\ shorter = [i \in 1 .. Len(wire) |-> chain[i + 1]]
                       /\ n = Len(wire)
  OBVIOUS
<1>1. /\ Len(wire) \in Nat \ {0} /\ Len(wire') = Len(wire) - 1
      /\ \A i \in 1 .. Len(wire') : wire'[i] = wire[i + 1]
  BY HeadTailProperties, EmptySeq DEF TypeOK
<1>2. Through(shorter)'
  BY Shorten DEF Agree, serverVars
<1>3. ASSUME NEW i \in 1 .. Len(wire)
      PROVE  Due(shorter, i)' <=> Due(chain, i + 1)
  <2>1. CASE i = 1
    BY <2>1 DEF Due
  <2>2. CASE i # 1
    <3>1. i - 1 \in 1 .. Len(wire') /\ (i - 1) + 1 = i /\ (i + 1) - 1 = i
      BY <1>1, <2>2
    <3>2. wire'[i - 1] = wire[i] /\ shorter[i - 1] = chain[i]
      BY <1>1, <3>1
    <3>. QED  BY <1>1, <2>2, <3>1, <3>2 DEF Due
  <2>. QED  BY <2>1, <2>2
<1>4. ASSUME NEW i \in 1 .. Len(wire), Due(chain, i + 1)
      PROVE  DueHash(i)' = DueHash(i + 1)
  <2>1. CASE i = 1
    BY <1>4, <2>1 DEF DueHash
  <2>2. CASE i # 1
    <3>1. i - 1 \in 1 .. Len(wire') /\ (i - 1) + 1 = i /\ (i + 1) - 1 = i
      BY <1>1, <2>2
    <3>. QED  BY <1>1, <2>2, <3>1 DEF DueHash
  <2>. QED  BY <2>1, <2>2
<1>5. ASSUME NEW i \in 1 .. Len(wire')
      PROVE  /\ wire'[i].kind = "data" <=> Due(shorter, i)'
             /\ wire'[i].kind = "data" => wire'[i].data = DueHash(i)'
  <2>1. i \in 1 .. Len(wire) /\ i + 1 \in 1 .. Len(wire)
    BY <1>1
  <2>2. /\ wire[i + 1].kind = "data" <=> Due(chain, i + 1)
        /\ wire[i + 1].kind = "data" => wire[i + 1].data = DueHash(i + 1)
    BY <2>1 DEF Agree
  <2>. QED  BY <1>1, <1>3, <1>4, <2>1, <2>2
<1>6. /\ sending' = "cursor_data" <=> Due(shorter, n)'
      /\ sending' = "cursor_data" => pixels' = DueHash(n)'
  <2>1. /\ sending = "cursor_data" <=> Due(chain, n + 1)
        /\ sending = "cursor_data" => pixels = DueHash(n + 1)
    BY DEF Agree
  <2>. QED  BY <1>1, <1>3, <1>4, <2>1 DEF serverVars
<1>7. Agree(shorter)'
  BY <1>1, <1>2, <1>5, <1>6 DEF Agree
<1>. QED  BY <1>7 DEF Lockstep

(* Both sides take the same messages for new, however many are between     *)
(* them.                                                                   *)
THEOREM LockstepKept == Spec => []Lockstep
<1>1. Init => Lockstep
  <2>. SUFFICES ASSUME Init PROVE Lockstep
    OBVIOUS
  <2>1. PICK chain : chain = [i \in 1 .. 1 |-> known]
    OBVIOUS
  <2>2. known \in Lists /\ Kept = known
    BY CursorAssumption DEF Init, Lists, Kept, Picture
  <2>3. Through(chain)
    BY <2>1, <2>2 DEF Init, Through
  <2>. QED  BY <2>3 DEF Init, Lockstep, Agree, Due
<1>2. ASSUME TypeOK, Lockstep, [Next]_vars PROVE Lockstep'
  <2>0. PICK chain : Agree(chain)
    BY <1>2 DEF Lockstep
  <2>a. PICK n : n = Len(wire)
    OBVIOUS
  <2>b. /\ wire \in Seq(Header \cup Data) /\ n \in Nat /\ n = Len(wire)
        /\ known \in Lists /\ cursor \in Picture /\ cache \in [Index -> Entry]
    BY <1>2, <2>a DEF TypeOK, Lists, Picture
  <2>1. ASSUME UNCHANGED <<wire, cache, known, expecting, pixels>>,
               sending' = "cursor_data" <=> sending = "cursor_data"
        PROVE  Lockstep'
    <3>1. Agree(chain)'
      BY <2>0, <2>1 DEF Agree, Through, Due, DueHash, Kept
    <3>. QED  BY <3>1 DEF Lockstep
  <2>2. CASE (\E h \in Hash \cup {Blank} : Grab(h)) \/ Ask \/ Begin \/ Show
             \/ UNCHANGED vars
    BY <2>1, <2>2 DEF Grab, Ask, Begin, Show, vars, serverVars, clientVars
  <2>3. ASSUME NEW x \in Header \cup Data, wire' = Append(wire, x),
               UNCHANGED <<cache, expecting>>,
               known' = IF x.kind = "header" THEN Accept(known, x.hash) ELSE known,
               x.kind = "data" <=> sending = "cursor_data",
               x.kind = "data" => x.data = pixels,
               sending' = "cursor_data" <=> x.kind = "header" /\ New(known, x.hash),
               sending' = "cursor_data" => pixels' = x.hash
        PROVE  Lockstep'
    <3>1. PICK longer :
             longer = [i \in 1 .. Len(wire) + 2 |->
                        IF i <= Len(wire) + 1 THEN chain[i]
                        ELSE IF x.kind = "header" THEN Accept(known, x.hash)
                        ELSE known]
      OBVIOUS
    <3>2. Through(longer)'
      BY <1>2, <2>0, <2>3, <3>1, Extend DEF Agree
    <3>3. /\ Len(wire') = n + 1
          /\ \A i \in 1 .. n : wire'[i] = wire[i]
          /\ wire'[n + 1] = x
      BY <2>b, <2>3
    <3>4. /\ \A i \in 1 .. n + 1 : longer[i] = chain[i]
          /\ chain[n + 1] = known
      BY <2>0, <2>b, <3>1 DEF Agree, Through
    <3>5. ASSUME NEW i \in 1 .. n + 1
          PROVE  /\ Due(longer, i)' <=> Due(chain, i)
                 /\ DueHash(i)' = DueHash(i)
      <4>1. CASE i = 1
        BY <2>3, <4>1 DEF Due, DueHash
      <4>2. CASE i # 1
        <5>1. i - 1 \in 1 .. n /\ i - 1 \in 1 .. n + 1
          BY <2>b, <4>2
        <5>. QED  BY <3>3, <3>4, <4>2, <5>1 DEF Due, DueHash
      <4>. QED  BY <4>1, <4>2
    <3>6. ASSUME NEW i \in 1 .. n + 1
          PROVE  /\ wire'[i].kind = "data" <=> Due(longer, i)'
                 /\ wire'[i].kind = "data" => wire'[i].data = DueHash(i)'
      <4>1. CASE i = n + 1
        <5>1. /\ sending = "cursor_data" <=> Due(chain, i)
              /\ sending = "cursor_data" => pixels = DueHash(i)
          BY <2>0, <2>b, <4>1 DEF Agree
        <5>. QED  BY <2>3, <3>3, <3>5, <4>1, <5>1
      <4>2. CASE i \in 1 .. n
        <5>1. /\ wire[i].kind = "data" <=> Due(chain, i)
              /\ wire[i].kind = "data" => wire[i].data = DueHash(i)
          BY <2>0, <2>b, <4>2 DEF Agree
        <5>. QED  BY <3>3, <3>5, <4>2, <5>1
      <4>. QED  BY <2>b, <4>1, <4>2
    <3>7. /\ sending' = "cursor_data" <=> Due(longer, n + 2)'
          /\ sending' = "cursor_data" => pixels' = DueHash(n + 2)'
      <4>1. n + 2 # 1 /\ (n + 2) - 1 = n + 1 /\ n + 1 \in 1 .. n + 1
        BY <2>b
      <4>2. wire'[(n + 2) - 1] = x /\ longer[(n + 2) - 1] = known
        BY <3>3, <3>4, <4>1
      <4>3. /\ Due(longer, n + 2)' <=> x.kind = "header" /\ New(known, x.hash)
            /\ DueHash(n + 2)' = x.hash
        BY <4>1, <4>2 DEF Due, DueHash
      <4>. QED  BY <2>3, <4>3
    <3>8. Len(wire') + 1 = n + 2
      BY <2>b, <3>3
    <3>9. Agree(longer)'
      BY <3>2, <3>3, <3>6, <3>7, <3>8 DEF Agree
    <3>. QED  BY <3>9 DEF Lockstep
  <2>4. CASE SendCursor
    <3>1. PICK x : x = [kind |-> "header", hash |-> cursor]
      OBVIOUS
    <3>2. x \in Header \cup Data /\ x.kind = "header" /\ x.hash = cursor
      BY <2>b, <3>1 DEF Header, Picture
    <3>3. IsNew(cursor) <=> New(known, cursor)
      BY DEF IsNew, New
    <3>. QED  BY <2>3, <2>4, <3>1, <3>2, <3>3 DEF SendCursor, Accept, clientVars
  <2>5. CASE SendData
    <3>1. PICK x : x = [kind |-> "data", data |-> pixels]
      OBVIOUS
    <3>2. x \in Header \cup Data /\ x.kind = "data" /\ x.data = pixels
      BY <1>2, <2>5, <3>1 DEF SendData, TypeOK, Data
    <3>. QED  BY <2>3, <2>5, <3>1, <3>2 DEF SendData, clientVars
  <2>6. ASSUME wire # <<>>
        PROVE  /\ 1 \in 1 .. Len(wire) /\ Head(wire) = wire[1]
               /\ wire[1] \in Header \cup Data
               /\ chain[2] = IF wire[1].kind = "header"
                             THEN Accept(Kept, wire[1].hash) ELSE Kept
               /\ Due(chain, 2) <=> wire[1].kind = "header" /\ New(Kept, wire[1].hash)
    <3>1. 1 \in 1 .. Len(wire) /\ Head(wire) = wire[1] /\ wire[1] \in Header \cup Data
      BY <2>b, <2>6
    <3>2. chain[1] = Kept /\ 1 + 1 = 2 /\ 2 - 1 = 1 /\ 2 # 1
      BY <2>0 DEF Agree, Through
    <3>3. chain[1 + 1] = IF wire[1].kind = "header"
                         THEN Accept(chain[1], wire[1].hash) ELSE chain[1]
      BY <2>0, <3>1 DEF Agree, Through
    <3>. QED  BY <3>1, <3>2, <3>3 DEF Due
  <2>7. CASE RecvNew
    <3>1. /\ wire # <<>> /\ wire' = Tail(wire) /\ UNCHANGED serverVars
          /\ Head(wire).kind = "header" /\ Head(wire).hash # Blank
          /\ cache' = PushFirst(cache, [hash |-> Head(wire).hash, data |-> None])
          /\ expecting' = TRUE
      BY <2>7 DEF RecvNew, RecvsCursor
    <3>2. New(Kept, Head(wire).hash)
      BY <3>1, <2>7, CursorAssumption DEF RecvNew, Finds, New, Kept, Index
    <3>3. Kept' = PushFirst(Kept, Head(wire).hash) /\ cache'[1].hash = Head(wire).hash
      BY <3>1, CursorAssumption DEF Kept, PushFirst, Index
    <3>. QED  BY <1>2, <2>0, <2>6, <3>1, <3>2, <3>3, ReceivedAgrees DEF Accept
  <2>8. CASE RecvKnown
    <3>1. /\ wire # <<>> /\ wire' = Tail(wire) /\ UNCHANGED serverVars
          /\ Head(wire).kind = "header" /\ UNCHANGED cache
          /\ expecting' = FALSE
      BY <2>8 DEF RecvKnown, RecvsCursor
    <3>2. PICK i \in 1 .. Size + 1 : /\ Finds(Head(wire).hash, i)
                                     /\ i <= Size \/ Head(wire).hash = Blank
      BY <2>8 DEF RecvKnown
    <3>3. ~New(Kept, Head(wire).hash)
      BY <3>2, CursorAssumption DEF Finds, New, Kept, Index
    <3>4. Kept' = Kept
      BY <3>1 DEF Kept
    <3>. QED  BY <1>2, <2>0, <2>6, <3>1, <3>3, <3>4, ReceivedAgrees DEF Accept
  <2>9. CASE RecvData
    <3>1. /\ wire # <<>> /\ wire' = Tail(wire) /\ UNCHANGED serverVars
          /\ Head(wire).kind = "data" /\ expecting' = FALSE
          /\ cache' = [cache EXCEPT ![1].data = Head(wire).data]
      BY <2>9 DEF RecvData
    <3>2. Kept' = Kept
      BY <2>b, <3>1, CursorAssumption DEF Kept, Index, Entry
    <3>. QED  BY <1>2, <2>0, <2>6, <3>1, <3>2, ReceivedAgrees
  <2>. QED  BY <1>2, <2>2, <2>4, <2>5, <2>7, <2>8, <2>9 DEF Next
<1>. QED  BY <1>1, <1>2, TypeCorrect, PTL DEF Spec

(* The client never takes pixels for a command or a command for pixels.    *)
THEOREM StepKept == Spec => []InStep
<1>1. TypeOK /\ Lockstep => InStep
  BY EmptySeq DEF Lockstep, Agree, Due, InStep, TypeOK
<1>. QED  BY <1>1, TypeCorrect, LockstepKept, PTL

(* Once everything is received the two lists are the same.                 *)
THEOREM ListsMeet == Spec => []SameList
<1>1. Lockstep => SameList
  BY DEF Lockstep, Agree, Through, Kept, SameList
<1>. QED  BY <1>1, LockstepKept, PTL

(* No picture is kept under the hash of another.                           *)
THEOREM PixelsMatch == Spec => []RightPixels
<1>1. Init => RightPixels
  BY DEF Init, RightPixels
<1>2. ASSUME TypeOK, Lockstep, RightPixels, [Next]_vars PROVE RightPixels'
  <2>. USE <1>2, CursorAssumption DEF RightPixels, Index
  <2>1. CASE RecvNew
    BY <2>1 DEF RecvNew, PushFirst
  <2>2. CASE RecvData
    <3>1. wire # <<>> /\ Head(wire).kind = "data"
          /\ cache' = [cache EXCEPT ![1].data = Head(wire).data]
      BY <2>2 DEF RecvData
    <3>2. 1 \in 1 .. Len(wire) /\ Head(wire) = wire[1]
      BY <3>1 DEF TypeOK
    <3>3. Head(wire).data = cache[1].hash
      BY <3>1, <3>2 DEF Lockstep, Agree, DueHash
    <3>. QED  BY <3>1, <3>3 DEF TypeOK, Entry
  <2>3. CASE ~RecvNew /\ ~RecvData
    <3>1. UNCHANGED cache
      BY <2>3 DEF Next, Grab, Ask, Begin, SendCursor, SendData, RecvKnown,
                  Show, vars, clientVars
    <3>. QED  BY <3>1
  <2>. QED  BY <2>1, <2>2, <2>3
<1>. QED  BY <1>1, <1>2, TypeCorrect, LockstepKept, PTL DEF Spec
-----------------------------------------------------------------------------
(* What the client shows.                                                  *)

(* A picture in the list has its pixels, the first one when they are here. *)
Filled ==
    /\ expecting => serial = 1
    /\ \A i \in Index : cache[i].hash # Blank /\ (i = 1 => ~expecting) =>
                            cache[i].data = cache[i].hash

(* What the client has, or will have after its next visit, if the last     *)
(* picture it was named is h.                                              *)
ShownFor(h) ==
    \/ h = Blank
    \/ serial = 1
    \/ serial \in Index /\ cache[serial].hash = h /\ (received \/ shown = h)

(* The last picture named is the cursor, unless it is to be named again.   *)
LastNamed ==
    ~toSend /\ sending # "cursor" =>
        \/ \E i \in 1 .. Len(wire) :
              /\ wire[i].kind = "header" /\ wire[i].hash = cursor
              /\ \A j \in 1 .. Len(wire) : j > i => wire[j].kind = "data"
        \/ (\A j \in 1 .. Len(wire) : wire[j].kind = "data") /\ ShownFor(cursor)

LEMMA FilledStep ==
    ASSUME TypeOK, InStep, Lockstep, Filled, [Next]_vars
    PROVE  Filled'
<1>. USE CursorAssumption DEF Index
<1>1. CASE RecvNew
  <2>1. /\ serial' = 1 /\ expecting' = TRUE
        /\ cache' = PushFirst(cache, [hash |-> Head(wire).hash, data |-> None])
        /\ ~expecting
    BY <1>1 DEF RecvNew, RecvsCursor
  <2>2. \A i \in Index : i # 1 => i - 1 \in Index /\ cache'[i] = cache[i - 1]
    BY <2>1 DEF PushFirst
  <2>. QED  BY <2>1, <2>2 DEF Filled
<1>2. CASE RecvKnown
  BY <1>2 DEF RecvKnown, RecvsCursor, Filled
<1>3. CASE RecvData
  <2>1. /\ wire # <<>> /\ expecting /\ Head(wire).kind = "data"
        /\ cache' = [cache EXCEPT ![1].data = Head(wire).data]
        /\ expecting' = FALSE /\ serial' = serial
    BY <1>3 DEF RecvData
  <2>2. 1 \in 1 .. Len(wire) /\ Head(wire) = wire[1]
    BY <2>1 DEF TypeOK
  <2>3. Head(wire).data = cache[1].hash
    BY <2>1, <2>2 DEF Lockstep, Agree, DueHash
  <2>4. cache'[1].data = Head(wire).data /\ cache'[1].hash = cache[1].hash
    BY <2>1 DEF TypeOK, Entry
  <2>5. \A i \in Index : i # 1 => cache'[i] = cache[i]
    BY <2>1 DEF TypeOK
  <2>. QED  BY <2>1, <2>3, <2>4, <2>5 DEF Filled
<1>4. CASE ~RecvNew /\ ~RecvKnown /\ ~RecvData
  <2>1. UNCHANGED <<cache, expecting, serial>>
    BY <1>4 DEF Next, Grab, Ask, Begin, SendCursor, SendData, Show, vars, clientVars
  <2>. QED  BY <2>1 DEF Filled
<1>. QED  BY <1>1, <1>2, <1>3, <1>4

(* A message received: what was said of the rest of the wire stays true,   *)
(* and if it was the last one named it is what the client shows.           *)
LEMMA NamedReceived ==
    ASSUME TypeOK, LastNamed, wire # <<>>, wire' = Tail(wire), UNCHANGED serverVars,
           NEW h, h = wire[1].hash, wire[1].kind = "header" => ShownFor(h)',
           wire[1].kind = "data" /\ ShownFor(cursor) => ShownFor(cursor)'
    PROVE  LastNamed'
<1>1. /\ Len(wire) \in Nat \ {0} /\ Len(wire') = Len(wire) - 1
      /\ \A i \in 1 .. Len(wire') : wire'[i] = wire[i + 1] /\ i + 1 \in 1 .. Len(wire)
  BY HeadTailProperties, EmptySeq DEF TypeOK
<1>. SUFFICES ASSUME ~toSend', sending' # "cursor"
              PROVE  \/ \E i \in 1 .. Len(wire') :
                          /\ wire'[i].kind = "header" /\ wire'[i].hash = cursor
                          /\ \A j \in 1 .. Len(wire') : j > i => wire'[j].kind = "data"
                     \/ (\A j \in 1 .. Len(wire') : wire'[j].kind = "data") /\ ShownFor(cursor)'
  BY DEF LastNamed, serverVars
<1>2. ~toSend /\ sending # "cursor"
  BY DEF serverVars
<1>3. CASE (\A j \in 1 .. Len(wire) : wire[j].kind = "data") /\ ShownFor(cursor)
  BY <1>1, <1>3
<1>4. ASSUME NEW i \in 1 .. Len(wire),
             wire[i].kind = "header" /\ wire[i].hash = cursor
             /\ \A j \in 1 .. Len(wire) : j > i => wire[j].kind = "data"
      PROVE  \/ \E k \in 1 .. Len(wire') :
                  /\ wire'[k].kind = "header" /\ wire'[k].hash = cursor
                  /\ \A j \in 1 .. Len(wire') : j > k => wire'[j].kind = "data"
             \/ (\A j \in 1 .. Len(wire') : wire'[j].kind = "data") /\ ShownFor(cursor)'
  <2>1. CASE i = 1
    <3>1. \A j \in 1 .. Len(wire') : wire'[j].kind = "data"
      BY <1>1, <1>4, <2>1
    <3>2. cursor' = cursor
      BY DEF serverVars
    <3>3. ShownFor(cursor)'
      BY <1>4, <2>1, <3>2 DEF ShownFor
    <3>. QED  BY <3>1, <3>3
  <2>2. CASE i # 1
    <3>1. i - 1 \in 1 .. Len(wire') /\ wire'[i - 1] = wire[i]
      BY <1>1, <2>2
    <3>2. \A j \in 1 .. Len(wire') : j > i - 1 => wire'[j].kind = "data"
      BY <1>1, <1>4
    <3>. QED  BY <1>4, <3>1, <3>2
  <2>. QED  BY <2>1, <2>2
<1>. QED  BY <1>2, <1>3, <1>4 DEF LastNamed

LEMMA NamedStep ==
    ASSUME TypeOK, InStep, Filled, LastNamed, [Next]_vars
    PROVE  LastNamed'
<1>. USE CursorAssumption DEF Index
<1>1. CASE (\E h \in Hash \cup {Blank} : Grab(h)) \/ Ask \/ Begin
  BY <1>1 DEF Grab, Ask, Begin, LastNamed
<1>2. CASE SendCursor
  <2>. DEFINE n == Len(wire) + 1
              x == [kind |-> "header", hash |-> cursor]
  <2>1. wire' = Append(wire, x) /\ cursor' = cursor
    BY <1>2 DEF SendCursor
  <2>2. n \in 1 .. Len(wire') /\ wire'[n] = x /\ Len(wire') = n
    BY <2>1 DEF TypeOK
  <2>3. x.kind = "header" /\ x.hash = cursor
    OBVIOUS
  <2>. HIDE DEF x
  <2>. QED  BY <2>1, <2>2, <2>3 DEF LastNamed
<1>3. CASE SendData
  <2>. DEFINE n == Len(wire)
              x == [kind |-> "data", data |-> pixels]
  <2>1. wire' = Append(wire, x)
        /\ UNCHANGED <<cursor, toSend, clientVars>> /\ sending = "cursor_data"
    BY <1>3 DEF SendData
  <2>2. /\ n \in Nat /\ Len(wire') = n + 1 /\ wire'[n + 1] = x
        /\ \A i \in 1 .. n : wire'[i] = wire[i]
    BY <2>1 DEF TypeOK
  <2>3. x.kind = "data"
    OBVIOUS
  <2>4. ShownFor(cursor)' <=> ShownFor(cursor)
    BY <2>1 DEF ShownFor, clientVars
  <2>. HIDE DEF x, n
  <2>5. \A i \in 1 .. n + 1 : i \in 1 .. n \/ i = n + 1
    BY <2>2
  <2>6. CASE toSend'
    BY <2>6 DEF LastNamed
  <2>7. ASSUME NEW i \in 1 .. n,
               wire[i].kind = "header" /\ wire[i].hash = cursor
               /\ \A j \in 1 .. n : j > i => wire[j].kind = "data"
        PROVE  LastNamed'
    <3>1. i \in 1 .. n + 1 /\ wire'[i] = wire[i]
      BY <2>2, <2>7
    <3>2. \A j \in 1 .. n + 1 : j > i => wire'[j].kind = "data"
      BY <2>2, <2>3, <2>5, <2>7
    <3>. QED  BY <2>1, <2>2, <2>7, <3>1, <3>2 DEF LastNamed
  <2>8. CASE (\A j \in 1 .. n : wire[j].kind = "data") /\ ShownFor(cursor)
    <3>1. \A j \in 1 .. n + 1 : wire'[j].kind = "data"
      BY <2>2, <2>3, <2>5, <2>8
    <3>. QED  BY <2>2, <2>4, <2>8, <3>1 DEF LastNamed
  <2>. QED  BY <2>1, <2>6, <2>7, <2>8 DEF LastNamed, n
<1>4. wire # <<>> => Head(wire) = wire[1]
  BY DEF TypeOK
<1>5. CASE RecvNew
  <2>0. PICK h : h = wire[1].hash
    OBVIOUS
  <2>1. ShownFor(h)'
    BY <1>5 DEF RecvNew, ShownFor
  <2>. QED  BY <1>4, <1>5, <2>0, <2>1, NamedReceived DEF RecvNew, RecvsCursor
<1>6. CASE RecvKnown
  <2>1. wire # <<>> /\ wire' = Tail(wire) /\ UNCHANGED serverVars /\ wire[1].kind = "header"
        /\ cache' = cache /\ received'
    BY <1>4, <1>6 DEF RecvKnown, RecvsCursor
  <2>2. PICK i \in 1 .. Size + 1 :
            Finds(wire[1].hash, i) /\ (i <= Size \/ wire[1].hash = Blank) /\ serial' = i
    BY <1>4, <1>6, <2>1 DEF RecvKnown
  <2>3. PICK h : h = wire[1].hash
    OBVIOUS
  <2>4. ShownFor(h)'
    <3>1. CASE i <= Size
      <4>1. serial' \in Index /\ cache'[serial'].hash = h
        BY <2>1, <2>2, <2>3, <3>1 DEF Finds
      <4>. QED  BY <2>1, <4>1 DEF ShownFor
    <3>2. CASE h = Blank
      BY <3>2 DEF ShownFor
    <3>. QED  BY <2>2, <2>3, <3>1, <3>2
  <2>. QED  BY <2>1, <2>3, <2>4, NamedReceived
<1>7. CASE RecvData
  <2>1. wire # <<>> /\ wire' = Tail(wire) /\ UNCHANGED serverVars /\ wire[1].kind = "data"
        /\ serial' = 1
    BY <1>4, <1>7 DEF RecvData, Filled
  <2>2. ShownFor(cursor)'
    BY <2>1 DEF ShownFor
  <2>. QED  BY <2>1, <2>2, NamedReceived
<1>8. CASE Show
  <2>1. /\ UNCHANGED <<serverVars, wire, cache, serial>>
        /\ shown' = IF serial > Size THEN Unseen
                    ELSE IF cache[serial].data # None THEN cache[serial].data ELSE shown
    BY <1>8 DEF Show
  <2>2. ASSUME ShownFor(cursor) PROVE ShownFor(cursor)'
    <3>1. CASE cursor = Blank \/ serial = 1
      BY <2>1, <3>1 DEF ShownFor, serverVars
    <3>2. CASE cursor # Blank /\ serial # 1
      <4>1. serial \in Index /\ cache[serial].hash = cursor /\ cursor \in Hash
        BY <2>2, <3>2 DEF ShownFor, TypeOK
      <4>2. cache[serial].data = cursor /\ cursor # None
        BY <3>2, <4>1, PixelsAssumption DEF Filled
      <4>3. shown' = cursor
        BY <2>1, <4>1, <4>2
      <4>. QED  BY <2>1, <4>1, <4>3 DEF ShownFor, serverVars
    <3>. QED  BY <3>1, <3>2
  <2>. QED  BY <2>1, <2>2 DEF LastNamed, serverVars
<1>9. CASE UNCHANGED vars
  <2>1. ShownFor(cursor)' <=> ShownFor(cursor)
    BY <1>9 DEF ShownFor, vars, serverVars, clientVars
  <2>. QED  BY <1>9, <2>1 DEF LastNamed, vars, serverVars
<1>. QED  BY <1>1, <1>2, <1>3, <1>5, <1>6, <1>7, <1>8, <1>9 DEF Next

(* At rest the client shows the cursor of the server, for any number of    *)
(* pictures and any delay, with the two exceptions the code has.           *)
THEOREM ShownCorrect == Spec => []ShownWhenKnown
<1>1. Init => Filled /\ LastNamed
  BY DEF Init, Filled, LastNamed, ShownFor
<1>2. TypeOK /\ LastNamed => ShownWhenKnown
  BY DEF TypeOK, LastNamed, ShownFor, ShownWhenKnown
<1>. QED  BY <1>1, <1>2, FilledStep, NamedStep, TypeCorrect, LockstepKept, StepKept, PTL DEF Spec
=============================================================================
