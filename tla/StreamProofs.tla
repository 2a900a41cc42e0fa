---------------------------- MODULE StreamProofs ----------------------------
(* The stream of one client, for any room and any bounds.                  *)
EXTENDS Stream, FiniteSetTheorems, SequenceTheorems, TLAPS

-----------------------------------------------------------------------------
(* Counting in a sequence.                                                 *)

LEMMA CountFinite ==
  ASSUME NEW T, NEW s \in Seq(T), NEW S
  PROVE  /\ IsFiniteSet({i \in 1 .. Len(s) : s[i] \in S})
         /\ Count(s, S) \in Nat
<1>1. IsFiniteSet(1 .. Len(s))
  BY FS_Interval, LenProperties
<1>2. IsFiniteSet({i \in 1 .. Len(s) : s[i] \in S})
  BY <1>1, FS_Subset
<1>. QED  BY <1>2, FS_CardinalityType DEF Count

LEMMA CountEmpty == ASSUME NEW S PROVE Count(<<>>, S) = 0
<1>1. {i \in 1 .. Len(<<>>) : <<>>[i] \in S} = {}
  OBVIOUS
<1>. QED  BY <1>1, FS_EmptySet DEF Count

LEMMA CountAppend ==
  ASSUME NEW T, NEW s \in Seq(T), NEW e \in T, NEW S
  PROVE  Count(Append(s, e), S) = Count(s, S) + (IF e \in S THEN 1 ELSE 0)
<1>. DEFINE A == {i \in 1 .. Len(s) : s[i] \in S}
            B == {i \in 1 .. Len(Append(s, e)) : Append(s, e)[i] \in S}
<1>1. IsFiniteSet(A) /\ Count(s, S) \in Nat
  BY CountFinite
<1>2. Count(s, S) = Cardinality(A) /\ Count(Append(s, e), S) = Cardinality(B)
  BY DEF Count
<1>3. CASE e \in S
  <2>1. B = A \cup {Len(s) + 1}
    BY <1>3
  <2>2. Len(s) + 1 \notin A
    OBVIOUS
  <2>3. Cardinality(B) = Cardinality(A) + 1
    BY <2>1, <2>2, <1>1, FS_AddElement
  <2>. QED  BY <1>2, <1>3, <2>3
<1>4. CASE e \notin S
  <2>1. B = A
    BY <1>4
  <2>2. Count(Append(s, e), S) = Count(s, S)
    BY <2>1, <1>2
  <2>. HIDE DEF A, B
  <2>. QED  BY <1>1, <1>4, <2>2
<1>. QED  BY <1>3, <1>4

LEMMA CountTail ==
  ASSUME NEW T, NEW s \in Seq(T), s # <<>>, NEW S
  PROVE  Count(s, S) = Count(Tail(s), S) + (IF Head(s) \in S THEN 1 ELSE 0)
<1>. DEFINE A == {i \in 1 .. Len(Tail(s)) : Tail(s)[i] \in S}
            B == {i \in 1 .. Len(s) : s[i] \in S}
            C == B \ {1}
            f == [i \in A |-> i + 1]
<1>1. /\ Len(s) \in Nat \ {0}
      /\ Len(Tail(s)) = Len(s) - 1
      /\ \A i \in 1 .. Len(Tail(s)) : Tail(s)[i] = s[i + 1]
      /\ Head(s) = s[1]
  BY HeadTailProperties, EmptySeq
<1>2. /\ IsFiniteSet(A) /\ Count(Tail(s), S) = Cardinality(A)
      /\ IsFiniteSet(B) /\ Count(s, S) = Cardinality(B)
      /\ Count(Tail(s), S) \in Nat
  <2>1. Tail(s) \in Seq(T)
    BY HeadTailProperties
  <2>2. IsFiniteSet(A) /\ IsFiniteSet(B) /\ Count(Tail(s), S) \in Nat
    BY <2>1, CountFinite
  <2>. QED  BY <2>2 DEF Count
<1>3. ExistsBijection(A, C)
  <2>1. f \in [A -> C]
    BY <1>1
  <2>2. \A a, b \in A : f[a] = f[b] => a = b
    OBVIOUS
  <2>3. \A c \in C : \E a \in A : f[a] = c
    <3>1. SUFFICES ASSUME NEW c \in C PROVE \E a \in A : f[a] = c
      OBVIOUS
    <3>2. c - 1 \in A
      BY <1>1
    <3>3. f[c - 1] = c
      BY <3>2
    <3>. QED  BY <3>2, <3>3
  <2>4. f \in Injection(A, C)
    BY <2>1, <2>2 DEF Injection, IsInjective
  <2>5. f \in Surjection(A, C)
    BY <2>1, <2>3 DEF Surjection
  <2>. HIDE DEF f, A, C
  <2>. QED  BY <2>4, <2>5 DEF ExistsBijection, Bijection
<1>4. Cardinality(C) = Cardinality(A) /\ IsFiniteSet(C)
  BY <1>2, <1>3, FS_Bijection
<1>5. CASE Head(s) \in S
  <2>1. B = C \cup {1} /\ 1 \notin C
    BY <1>1, <1>5
  <2>2. Cardinality(B) = Cardinality(C) + 1
    BY <2>1, <1>4, FS_AddElement
  <2>. HIDE DEF A, B, C
  <2>. QED  BY <2>2, <1>2, <1>4, <1>5
<1>6. CASE Head(s) \notin S
  <2>1. B = C
    BY <1>1, <1>6
  <2>. HIDE DEF A, B, C
  <2>. QED  BY <2>1, <1>2, <1>4, <1>6
<1>. QED  BY <1>5, <1>6

(* Appending what is not counted changes nothing.                          *)
LEMMA CountConcat ==
  ASSUME NEW T, NEW s \in Seq(T), NEW t \in Seq(T), NEW S,
         \A i \in 1 .. Len(t) : t[i] \notin S
  PROVE  Count(s \o t, S) = Count(s, S)
<1>1. {i \in 1 .. Len(s \o t) : (s \o t)[i] \in S}
        = {i \in 1 .. Len(s) : s[i] \in S}
  BY ConcatProperties, LenProperties
<1>. QED  BY <1>1 DEF Count

-----------------------------------------------------------------------------
(* Type correctness.                                                       *)

(* The switch takes one of the bits that are pending.                      *)
LEMMA LowestIn ==
  ASSUME NEW S \in SUBSET Message, S # {}
  PROVE  Lowest(S) \in S
<1>1. Message = {"control", "access", "image"}
  BY DEF Message, Bit
<1>2. /\ Bit["control"] = 5
      /\ Bit["access"] = 12
      /\ Bit["image"] = 17
  BY DEF Bit
<1>3. \E m \in S : \A n \in S : Bit[m] <= Bit[n]
  <2>1. CASE "control" \in S
    BY <2>1, <1>1, <1>2
  <2>2. CASE "control" \notin S /\ "access" \in S
    BY <2>2, <1>1, <1>2
  <2>3. CASE "control" \notin S /\ "access" \notin S
    <3>1. S = {"image"}
      BY <2>3, <1>1
    <3>. QED  BY <3>1, <1>2
  <2>. QED  BY <2>1, <2>2, <2>3
<1>. QED  BY <1>3 DEF Lowest

LEMMA SaysType == Says \in Seq(Command)
<1>1. {"access", "query", "stop"} \subseteq Command
  BY DEF Command
<1>2. <<"access">> \in Seq(Command) /\ <<"query", "stop">> \in Seq(Command)
  BY <1>1
<1>. QED  BY <1>2 DEF Says

(* A message is of one kind.                                               *)
LEMMA Kinds ==
  ASSUME NEW x \in Sent
  PROVE  /\ x \in ImageMessage <=> x.m = "image"
         /\ x \in ImageMessage => x.frame \in 0 .. MaxScreen
         /\ x.m = "access" => x.access \in BOOLEAN
BY DEF Sent, AccessMessage, ControlMessage, ImageMessage

(* The state keeps its types, and no more than Room messages are ever on   *)
(* their way to the client.                                                *)
THEOREM TypeCorrect == Spec => []TypeOK
<1>1. Init => TypeOK
  <2>. SUFFICES ASSUME Init PROVE TypeOK
    OBVIOUS
  <2>1. Len(<<>>) <= Room /\ 0 \in 0 .. MaxScreen
    BY StreamAssumption
  <2>2. toSend \subseteq Message /\ mask \subseteq Message
    BY DEF Init, Message, Bit
  <2>3. down \in Seq(Sent) /\ up \in Seq(Command)
    BY DEF Init
  <2>4. sending \in Stage
    BY DEF Init, Stage
  <2>5. {open, stopping, access, reply, display, running, told, heard} \subseteq BOOLEAN
    BY DEF Init
  <2>6. /\ {screen, frame, base, shown} \subseteq 0 .. MaxScreen
        /\ {queries, answers, requests, grants} \subseteq Nat
        /\ imageCount \in Nat
    BY <2>1 DEF Init
  <2>7. Len(down) <= Room
    BY <2>1 DEF Init
  <2>. QED  BY <2>2, <2>3, <2>4, <2>5, <2>6, <2>7 DEF TypeOK
<1>2. ASSUME TypeOK, [Next]_vars PROVE TypeOK'
  <2>. USE <1>2, StreamAssumption DEF TypeOK
  <2>1. CASE Grab
    BY <2>1 DEF Grab, clientVars, counters, Message, Bit
  <2>2. ASSUME NEW a \in BOOLEAN, ChangeAccess(a) PROVE TypeOK'
    BY <2>2 DEF ChangeAccess, clientVars, Message, Bit
  <2>3. CASE ReadAccess
    BY <2>3 DEF ReadAccess, Reads, clientVars, Message, Bit
  <2>4. CASE ReadImage
    BY <2>4 DEF ReadImage, Reads, clientVars, Message, Bit
  <2>5. CASE ReadControl
    BY <2>5 DEF ReadControl, Reads, clientVars, Message, Bit
  <2>6. CASE ReadStop
    BY <2>6 DEF ReadStop, clientVars, counters
  <2>7. CASE Begin
    <3>1. sending' \in Message
      BY <2>7, LowestIn DEF Begin
    <3>. QED  BY <2>7, <3>1 DEF Begin, clientVars, counters, Stage
  <2>8. CASE WriteAccess
    BY <2>8 DEF WriteAccess, Writes, HasRoom, clientVars, counters, Sent,
                AccessMessage, Stage
  <2>9. CASE WriteControl
    <3>1. [m |-> "control"] \in Sent
      BY DEF Sent, ControlMessage
    <3>2. down' \in Seq(Sent) /\ Len(down') <= Room
      <4>1. down' = Append(down, [m |-> "control"]) /\ Len(down) < Room
        BY <2>9 DEF WriteControl, Writes, HasRoom
      <4>. QED  BY <4>1, <3>1, AppendProperties
    <3>. QED  BY <2>9, <3>2 DEF WriteControl, Writes, clientVars, counters, Stage
  <2>10. CASE StartImage
    BY <2>10 DEF StartImage, clientVars, counters, Stage
  <2>11. CASE WriteImage
    BY <2>11 DEF WriteImage, Writes, HasRoom, clientVars, counters, Sent,
                 ImageMessage, Stage
  <2>12. CASE FinishImage
    BY <2>12 DEF FinishImage, clientVars, counters, Stage
  <2>13. CASE Stop \/ PeerGone
    BY <2>13 DEF Stop, PeerGone, clientVars, counters
  <2>14. CASE RecvAccess
    <3>1. Head(down).access \in BOOLEAN
      <4>1. Head(down) \in Sent /\ Head(down).m = "access"
        BY <2>14 DEF RecvAccess, Receives
      <4>. QED  BY <4>1, Kinds
    <3>2. down' \in Seq(Sent) /\ Len(down') <= Room
      BY <2>14 DEF RecvAccess, Receives
    <3>. QED  BY <2>14, <3>1, <3>2 DEF RecvAccess, Receives, serverVars, counters
  <2>14a. CASE Hear
    <3>1. up' \in Seq(Command)
      <4>1. up \o Says \in Seq(Command)
        BY SaysType, ConcatProperties
      <4>. QED  BY <4>1, <2>14a DEF Hear
    <3>2. queries' \in Nat
      BY <2>14a DEF Hear
    <3>3. heard' \in BOOLEAN /\ running' \in BOOLEAN
      BY <2>14a DEF Hear
    <3>. QED  BY <2>14a, <3>1, <3>2, <3>3 DEF Hear, serverVars, counters
  <2>15. CASE RecvControl
    <3>1. answers' \in Nat
      BY <2>15 DEF RecvControl
    <3>2. down' \in Seq(Sent) /\ Len(down') <= Room
      BY <2>15 DEF RecvControl, Receives
    <3>. QED  BY <2>15, <3>1, <3>2 DEF RecvControl, Receives, serverVars, counters
  <2>16. CASE RecvImage
    <3>1. Head(down).frame \in 0 .. MaxScreen
      <4>1. Head(down) \in Sent /\ Head(down).m = "image"
        BY <2>16 DEF RecvImage, Receives
      <4>. QED  BY <4>1, Kinds
    <3>. QED  BY <2>16, <3>1 DEF RecvImage, Receives, serverVars, counters,
                                 Command
  <2>17. CASE RecvEnd
    BY <2>17 DEF RecvEnd, serverVars, counters
  <2>18. CASE GiveQuery \/ GiveOrder
    <3>1. "query" \in Command /\ "order" \in Command
      BY DEF Command
    <3>2. up' \in Seq(Command)
      <4>1. up' = Append(up, "query") \/ up' = Append(up, "order")
        BY <2>18 DEF GiveQuery, GiveOrder
      <4>2. Append(up, "query") \in Seq(Command)
        BY <3>1, AppendProperties
      <4>3. Append(up, "order") \in Seq(Command)
        BY <3>1, AppendProperties
      <4>. QED  BY <4>1, <4>2, <4>3
    <3>3. queries' \in Nat
      BY <2>18 DEF GiveQuery, GiveOrder, clientVars
    <3>. QED  BY <2>18, <3>2, <3>3
              DEF GiveQuery, GiveOrder, serverVars, clientVars, counters
  <2>19. CASE UNCHANGED vars
    BY <2>19 DEF vars, serverVars, clientVars, counters
  <2>. QED  BY <2>1, <2>2, <2>3, <2>4, <2>5, <2>6, <2>7, <2>8, <2>9, <2>10,
               <2>11, <2>12, <2>13, <2>14, <2>14a, <2>15, <2>16, <2>17, <2>18,
               <2>19 DEF Next
<1>. QED  BY <1>1, <1>2, PTL DEF Spec

-----------------------------------------------------------------------------
(* Damage and credit.                                                      *)

(* No change of the screen is lost to the switch, whatever comes between   *)
(* the clearing of the bit and the copy of the tiles.                      *)
THEOREM DamageNeverLost == Spec => []DamagePending
<1>1. Init => DamagePending
  BY DEF Init, DamagePending
<1>2. ASSUME TypeOK, DamagePending, [Next]_vars PROVE DamagePending'
  <2>. USE <1>2 DEF DamagePending
  <2>1. CASE Begin
    BY <2>1 DEF Begin, Idle
  <2>2. CASE Grab \/ \E a \in BOOLEAN : ChangeAccess(a)
    BY <2>2 DEF Grab, ChangeAccess
  <2>3. CASE ReadAccess \/ ReadImage \/ ReadControl \/ ReadStop
    BY <2>3 DEF ReadAccess, ReadImage, ReadControl, ReadStop, Reads
  <2>4. CASE WriteAccess \/ WriteControl \/ WriteImage
    BY <2>4 DEF WriteAccess, WriteControl, WriteImage, Writes
  <2>5. CASE StartImage \/ FinishImage \/ Stop \/ PeerGone
    BY <2>5 DEF StartImage, FinishImage, Stop, PeerGone
  <2>6. CASE RecvAccess \/ RecvControl \/ RecvImage \/ Hear \/ RecvEnd
    BY <2>6 DEF RecvAccess, RecvControl, RecvImage, Hear, RecvEnd, Receives,
                serverVars
  <2>7. CASE GiveQuery \/ GiveOrder \/ UNCHANGED vars
    BY <2>7 DEF GiveQuery, GiveOrder, vars, serverVars
  <2>. QED  BY <2>1, <2>2, <2>3, <2>4, <2>5, <2>6, <2>7 DEF Next
<1>. QED  BY <1>1, <1>2, TypeCorrect, PTL DEF Spec

(* Before the first request there is no image anywhere.                    *)
Asked ==
    requests = 0 =>
        /\ "image" \notin mask
        /\ sending \notin {"image", "image_data", "image_sent"}
        /\ \A i \in 1 .. Len(up) : up[i] # "image"
        /\ \A i \in 1 .. Len(down) : down[i].m # "image"

LEMMA AskedFirst == Spec => []Asked
<1>1. Init => Asked
  BY DEF Init, Asked, Idle
<1>2. ASSUME TypeOK, Asked, [Next]_vars PROVE Asked'
  <2>0. requests \in Nat
    BY <1>2 DEF TypeOK
  <2>. SUFFICES ASSUME requests' = 0, requests = 0 PROVE Asked'
    <3>1. requests' = requests \/ requests' = requests + 1
      BY <1>2 DEF Next, vars, counters, Grab, ChangeAccess, ReadAccess,
             ReadImage, ReadControl, ReadStop, Begin, WriteAccess,
             WriteControl, StartImage, WriteImage, FinishImage, Stop,
             PeerGone, RecvAccess, RecvControl, RecvImage, Hear, RecvEnd,
             GiveQuery, GiveOrder, Reads, Writes, Receives
    <3>. QED  BY <3>1, <2>0 DEF Asked
  <2>1. /\ "image" \notin mask
        /\ sending \notin {"image", "image_data", "image_sent"}
        /\ \A i \in 1 .. Len(up) : up[i] # "image"
        /\ \A i \in 1 .. Len(down) : down[i].m # "image"
    BY <1>2 DEF Asked
  <2>2. up \in Seq(Command) /\ down \in Seq(Sent) /\ toSend \subseteq Message
    BY <1>2 DEF TypeOK
  <2>3. CASE Grab \/ (\E a \in BOOLEAN : ChangeAccess(a)) \/ Stop \/ PeerGone
    BY <2>3, <2>1 DEF Grab, ChangeAccess, Stop, PeerGone, Asked
  <2>4. CASE ReadAccess \/ ReadControl
    <3>1. up # <<>> /\ up' = Tail(up) /\ UNCHANGED <<mask, sending, down>>
      BY <2>4, <2>0 DEF ReadAccess, ReadControl, Reads
    <3>. QED  BY <3>1, <2>1, <2>2, HeadTailProperties DEF Asked
  <2>5. CASE ReadImage
    <3>1. up # <<>> /\ Head(up) = "image"
      BY <2>5 DEF ReadImage, Reads
    <3>. QED  BY <3>1, <2>1, <2>2
  <2>6. CASE ReadStop
    BY <2>6, <2>1 DEF ReadStop, Asked
  <2>7. CASE Begin
    <3>1. sending' \in toSend \cap mask
      BY <2>7, <2>2, LowestIn DEF Begin
    <3>. QED  BY <2>7, <3>1, <2>1, <2>2 DEF Begin, Asked, Message, Bit
  <2>8. CASE WriteAccess
    <3>1. /\ down' = Append(down, [m |-> "access", access |-> access])
          /\ UNCHANGED <<mask, up>> /\ sending' = Idle
      BY <2>8 DEF WriteAccess, Writes
    <3>2. \A i \in 1 .. Len(down') : down'[i].m # "image"
      BY <3>1, <2>1, <2>2
    <3>. QED  BY <3>1, <3>2, <2>1 DEF Asked, Idle
  <2>9. CASE WriteControl
    <3>1. /\ down' = Append(down, [m |-> "control"])
          /\ UNCHANGED <<mask, up>> /\ sending' = Idle
      BY <2>9 DEF WriteControl, Writes
    <3>2. \A i \in 1 .. Len(down') : down'[i].m # "image"
      BY <3>1, <2>1, <2>2
    <3>. QED  BY <3>1, <3>2, <2>1 DEF Asked, Idle
  <2>10. CASE StartImage \/ WriteImage \/ FinishImage
    BY <2>10, <2>1 DEF StartImage, WriteImage, FinishImage
  <2>11. CASE Hear
    <3>1. /\ UNCHANGED <<mask, sending, down>>
          /\ up' = up \o Says \/ up' = up
      BY <2>11 DEF Hear, serverVars
    <3>2. \A i \in 1 .. Len(Says) : Says[i] # "image"
      BY DEF Says
    <3>3. \A i \in 1 .. Len(up') : up'[i] # "image"
      <4>1. CASE up' = up
        BY <4>1, <2>1
      <4>2. CASE up' = up \o Says
        <5>1. /\ Len(up') = Len(up) + Len(Says)
              /\ \A i \in 1 .. Len(up') :
                    up'[i] = IF i <= Len(up) THEN up[i] ELSE Says[i - Len(up)]
          BY <4>2, <2>2, SaysType, ConcatProperties
        <5>2. Len(up) \in Nat /\ Len(Says) \in Nat
          BY <2>2, SaysType
        <5>3. ASSUME NEW i \in 1 .. Len(up') PROVE up'[i] # "image"
          <6>1. CASE i <= Len(up)
            BY <6>1, <5>1, <5>2, <2>1
          <6>2. CASE i > Len(up)
            <7>1. i - Len(up) \in 1 .. Len(Says)
              BY <6>2, <5>1, <5>2
            <7>. QED  BY <6>2, <7>1, <5>1, <5>2, <3>2
          <6>. QED  BY <6>1, <6>2, <5>2
        <5>. QED  BY <5>3
      <4>. QED  BY <4>1, <4>2, <3>1
    <3>. QED  BY <3>1, <3>3, <2>1 DEF Asked
  <2>12. CASE RecvAccess \/ RecvControl \/ RecvEnd
    <3>1. /\ down' = down \/ (down # <<>> /\ down' = Tail(down))
          /\ UNCHANGED <<mask, sending, up>>
      BY <2>12 DEF RecvAccess, RecvControl, RecvEnd, Receives, serverVars
    <3>2. \A i \in 1 .. Len(down') : down'[i].m # "image"
      BY <3>1, <2>1, <2>2, HeadTailProperties
    <3>. QED  BY <3>1, <3>2, <2>1 DEF Asked
  <2>13. CASE RecvImage
    <3>1. down # <<>> /\ Head(down).m = "image"
      BY <2>13 DEF RecvImage, Receives
    <3>. QED  BY <3>1, <2>1, <2>2
  <2>14. CASE GiveQuery \/ GiveOrder
    <3>1. /\ up' = Append(up, "query") \/ up' = Append(up, "order")
          /\ UNCHANGED <<mask, sending, down>>
      BY <2>14 DEF GiveQuery, GiveOrder, serverVars
    <3>. QED  BY <3>1, <2>1, <2>2 DEF Asked
  <2>15. CASE UNCHANGED vars
    BY <2>15, <2>1 DEF vars, serverVars, Asked
  <2>. QED  BY <1>2, <2>3, <2>4, <2>5, <2>6, <2>7, <2>8, <2>9, <2>10, <2>11,
               <2>12, <2>13, <2>14, <2>15 DEF Next
<1>. QED  BY <1>1, <1>2, TypeCorrect, PTL DEF Spec

(* The credit: an image begins only while there is less of it than the     *)
(* requests allow.                                                         *)
Credit ==
    /\ imageCount <= requests + 1
    /\ "image" \in mask /\ sending \notin {"image_data", "image_sent"}
         => imageCount <= requests
    /\ sending = "image" => imageCount <= requests

(* The images in flight stay within two, plus one for each request made    *)
(* again.                                                                  *)
THEOREM CreditKept == Spec => []ImageBound
<1>1. Init => Credit
  BY DEF Init, Credit, Idle
<1>2. ASSUME TypeOK, Asked, Credit, [Next]_vars PROVE Credit'
  <2>. USE <1>2 DEF Credit
  <2>0. /\ imageCount \in Nat /\ requests \in Nat
        /\ toSend \subseteq Message /\ mask \subseteq Message
    BY DEF TypeOK
  <2>1. CASE Begin
    <3>1. sending' \in toSend \cap mask
      BY <2>0, <2>1, LowestIn DEF Begin
    <3>2. sending' \notin {"image_data", "image_sent"}
      BY <2>0, <3>1 DEF Message, Bit
    <3>. QED  BY <2>1, <3>1, <3>2 DEF Begin, Idle, counters
  <2>2. CASE Grab \/ \E a \in BOOLEAN : ChangeAccess(a)
    BY <2>2 DEF Grab, ChangeAccess, counters
  <2>3. CASE ReadAccess
    BY <2>0, <2>3 DEF ReadAccess, Reads
  <2>4. CASE ReadImage
    <3>1. imageCount' \in Nat /\ imageCount' <= requests
      BY <2>0, <2>4 DEF ReadImage
    <3>2. UNCHANGED <<sending, requests>>
      BY <2>4 DEF ReadImage, Reads
    <3>. QED  BY <2>0, <3>1, <3>2
  <2>5. CASE ReadControl \/ ReadStop
    BY <2>5 DEF ReadControl, ReadStop, Reads, counters
  <2>6. CASE WriteAccess \/ WriteControl \/ WriteImage
    BY <2>6 DEF WriteAccess, WriteControl, WriteImage, Writes, counters, Idle
  <2>7. CASE StartImage
    BY <2>0, <2>7 DEF StartImage, counters
  <2>8. CASE FinishImage
    <3>1. requests >= 1
      BY <2>0, <2>8 DEF FinishImage, Asked
    <3>2. "image" \in mask' => imageCount < 2
      BY <2>0, <2>8 DEF FinishImage
    <3>3. UNCHANGED <<imageCount, requests>> /\ sending' = Idle
      BY <2>8 DEF FinishImage, counters
    <3>. QED  BY <2>0, <3>1, <3>2, <3>3 DEF Idle
  <2>9. CASE Stop \/ PeerGone
    BY <2>9 DEF Stop, PeerGone, counters
  <2>10. CASE RecvAccess \/ RecvControl \/ RecvImage \/ Hear \/ RecvEnd
    BY <2>10 DEF RecvAccess, RecvControl, RecvImage, Hear, RecvEnd, Receives,
                 serverVars, counters
  <2>11. CASE GiveQuery \/ GiveOrder \/ UNCHANGED vars
    BY <2>11 DEF GiveQuery, GiveOrder, vars, serverVars, counters
  <2>. QED  BY <2>1, <2>2, <2>3, <2>4, <2>5, <2>6, <2>7, <2>8, <2>9, <2>10,
               <2>11 DEF Next
<1>3. Credit => ImageBound
  BY DEF Credit, ImageBound
<1>. QED  BY <1>1, <1>2, <1>3, TypeCorrect, AskedFirst, PTL DEF Spec

-----------------------------------------------------------------------------
(* The accounting of images.                                               *)

(* image_count is the number of images the client has still to             *)
(* acknowledge, as long as the server reads.                               *)
THEOREM ImagesCounted == Spec => []ImagesAccounted
<1>. DEFINE Leaving == IF sending = "image_data" THEN 1 ELSE 0
            OnDown == Count(down, ImageMessage)
            OnUp == Count(up, {"image"})
            Balance == imageCount = OnDown + OnUp + Leaving
<1>1. Init => ImagesAccounted
  BY CountEmpty DEF Init, ImagesAccounted, Idle
<1>2. ASSUME TypeOK, ImagesAccounted, [Next]_vars PROVE ImagesAccounted'
  <2>1. /\ up \in Seq(Command) /\ down \in Seq(Sent)
        /\ toSend \subseteq Message /\ mask \subseteq Message
        /\ imageCount \in Nat
    BY <1>2 DEF TypeOK
  <2>2. OnDown \in Nat /\ OnUp \in Nat /\ Leaving \in Nat
    BY <2>1, CountFinite
  <2>. SUFFICES ASSUME open', ~stopping' PROVE Balance'
    BY DEF ImagesAccounted
  <2>3. open /\ ~stopping
    <3>1. CASE UNCHANGED <<open, stopping>>
      BY <3>1
    <3>2. CASE ReadStop \/ Stop \/ PeerGone
      BY <3>2 DEF ReadStop, Stop, PeerGone
    <3>3. CASE ~ UNCHANGED <<open, stopping>> /\ ~(ReadStop \/ Stop \/ PeerGone)
      BY <1>2, <3>3 DEF Next, vars, serverVars, Grab, ChangeAccess,
             ReadAccess, ReadImage, ReadControl, Begin, WriteAccess,
             WriteControl, StartImage, WriteImage, FinishImage, RecvAccess,
             RecvControl, RecvImage, Hear, RecvEnd, GiveQuery, GiveOrder,
             Reads, Writes, Receives
    <3>. QED  BY <3>1, <3>2, <3>3
  <2>4. Balance
    BY <1>2, <2>3 DEF ImagesAccounted
  <2>. HIDE DEF OnDown, OnUp
  <2>5. ASSUME UNCHANGED <<imageCount, OnDown, OnUp, Leaving>> PROVE Balance'
    BY <2>4, <2>5
  <2>6. CASE Grab \/ \E a \in BOOLEAN : ChangeAccess(a)
    BY <2>6, <2>5 DEF Grab, ChangeAccess, OnDown, OnUp
  <2>7. ASSUME NEW command \in Command, Reads(command)
        PROVE  /\ OnUp = OnUp' + (IF command = "image" THEN 1 ELSE 0)
               /\ OnUp' \in Nat
               /\ UNCHANGED <<OnDown, Leaving>>
    <3>1. up # <<>> /\ Head(up) = command /\ up' = Tail(up)
      BY <2>7 DEF Reads
    <3>2. Tail(up) \in Seq(Command)
      BY <2>1, <3>1, HeadTailProperties
    <3>3. Count(up, {"image"}) = Count(Tail(up), {"image"})
             + (IF Head(up) \in {"image"} THEN 1 ELSE 0)
      BY <2>1, <3>1, CountTail
    <3>4. OnUp' \in Nat
      BY <3>1, <3>2, CountFinite DEF OnUp
    <3>5. UNCHANGED <<OnDown, Leaving>>
      BY <2>7 DEF Reads, OnDown
    <3>. QED  BY <3>1, <3>3, <3>4, <3>5 DEF OnUp
  <2>8. CASE ReadAccess \/ ReadControl
    <3>1. PICK command \in Command \ {"image"} : Reads(command)
      BY <2>8 DEF ReadAccess, ReadControl, Command
    <3>2. imageCount' = imageCount
      BY <2>8 DEF ReadAccess, ReadControl
    <3>3. OnUp = OnUp' /\ UNCHANGED <<OnDown, Leaving>>
      BY <2>7, <3>1
    <3>. QED  BY <2>5, <3>2, <3>3
  <2>9. CASE ReadImage
    <3>1. Reads("image") /\ "image" \in Command
      BY <2>9 DEF ReadImage, Command
    <3>2. /\ OnUp = OnUp' + 1 /\ OnUp' \in Nat
          /\ UNCHANGED <<OnDown, Leaving>>
      BY <2>7, <3>1
    <3>3. imageCount = OnDown + OnUp' + 1 + Leaving
      BY <2>2, <2>4, <3>2
    <3>4. imageCount' = IF imageCount > 0 THEN imageCount - 1 ELSE 0
      BY <2>9 DEF ReadImage
    <3>5. OnUp' \in Nat /\ OnDown \in Nat /\ Leaving \in Nat
      BY <2>2, <3>2
    <3>. HIDE DEF Leaving
    <3>6. imageCount' = OnDown + OnUp' + Leaving
      <4>1. imageCount > 0
        <5>1. imageCount \in Nat
          BY <1>2 DEF TypeOK
        <5>2. imageCount # 0
          <6>1. \A a, b, c \in Nat : a + b + 1 + c # 0
            OBVIOUS
          <6>2. OnDown + OnUp' + 1 + Leaving # 0
            BY <6>1, <3>5
          <6>. QED  BY <3>3, <6>2
        <5>. QED  BY <5>1, <5>2
      <4>2. imageCount' = imageCount - 1
        BY <3>4, <4>1
      <4>3. imageCount - 1 = OnDown + OnUp' + Leaving
        BY <3>3, <3>5
      <4>. QED  BY <4>2, <4>3
    <3>. QED  BY <3>2, <3>6
  <2>10. CASE ReadStop
    BY <2>10 DEF ReadStop
  <2>11. CASE Begin
    <3>1. sending' \in toSend \cap mask
      BY <2>1, <2>11, LowestIn DEF Begin
    <3>. QED  BY <2>1, <2>5, <2>11, <3>1
              DEF Begin, Message, Bit, Idle, OnDown, OnUp
  <2>12. ASSUME NEW message \in Sent, Writes(message)
         PROVE  /\ OnDown' = OnDown + (IF message \in ImageMessage THEN 1 ELSE 0)
                /\ OnUp' = OnUp
    BY <2>12, <2>1, CountAppend DEF Writes, OnDown, OnUp
  <2>13. CASE WriteAccess \/ WriteControl
    <3>1. PICK message \in Sent \ ImageMessage : Writes(message)
      BY <2>13, <1>2 DEF WriteAccess, WriteControl, Sent, AccessMessage,
                         ControlMessage, ImageMessage, TypeOK
    <3>2. /\ imageCount' = imageCount /\ sending' = Idle
          /\ sending # "image_data"
      BY <2>13 DEF WriteAccess, WriteControl
    <3>. QED  BY <2>2, <2>5, <2>12, <3>1, <3>2 DEF Idle
  <2>14. CASE StartImage
    BY <2>1, <2>2, <2>4, <2>14 DEF StartImage, OnDown, OnUp
  <2>15. CASE WriteImage
    <3>1. DEFINE message == [m |-> "image", base |-> base, frame |-> frame]
    <3>2. message \in Sent /\ message \in ImageMessage
      BY <1>2 DEF Sent, ImageMessage, TypeOK
    <3>3. Writes(message)
      BY <2>15 DEF WriteImage
    <3>4. imageCount' = imageCount /\ Leaving = 1 /\ Leaving' = 0
      BY <2>15 DEF WriteImage
    <3>5. OnDown' = OnDown + 1 /\ OnUp' = OnUp
      BY <2>12, <3>2, <3>3
    <3>. QED  BY <2>2, <2>4, <3>4, <3>5
  <2>16. CASE FinishImage
    BY <2>5, <2>16 DEF FinishImage, OnDown, OnUp, Idle
  <2>17. CASE Stop \/ PeerGone
    BY <2>17 DEF Stop, PeerGone
  <2>18. ASSUME NEW m, Receives(m)
         PROVE  /\ OnDown = OnDown' + (IF m = "image" THEN 1 ELSE 0)
                /\ OnDown' \in Nat
                /\ UNCHANGED <<imageCount, Leaving>>
    <3>1. down # <<>> /\ Head(down).m = m /\ down' = Tail(down)
      BY <2>18 DEF Receives
    <3>2. Head(down) \in Sent /\ Tail(down) \in Seq(Sent)
      BY <2>1, <3>1, HeadTailProperties
    <3>3. Count(down, ImageMessage) = Count(Tail(down), ImageMessage)
            + (IF Head(down) \in ImageMessage THEN 1 ELSE 0)
      BY <2>1, <3>1, CountTail
    <3>4. OnDown' \in Nat
      BY <3>1, <3>2, CountFinite DEF OnDown
    <3>5. Head(down) \in ImageMessage <=> m = "image"
      BY <3>1, <3>2, Kinds
    <3>6. UNCHANGED <<imageCount, Leaving>>
      BY <2>18 DEF Receives, serverVars
    <3>. QED  BY <3>1, <3>3, <3>4, <3>5, <3>6 DEF OnDown
  <2>19. CASE RecvAccess \/ RecvControl
    <3>1. PICK m \in {"access", "control"} : Receives(m)
      BY <2>19 DEF RecvAccess, RecvControl
    <3>2. OnUp' = OnUp
      BY <2>19 DEF RecvAccess, RecvControl, OnUp
    <3>3. OnDown = OnDown' /\ UNCHANGED <<imageCount, Leaving>>
      BY <2>18, <3>1
    <3>. QED  BY <2>5, <3>2, <3>3
  <2>19a. CASE Hear
    <3>1. UNCHANGED <<imageCount, sending, down>>
      BY <2>19a DEF Hear, serverVars
    <3>2. OnUp' = OnUp
      <4>1. up' = up \/ up' = up \o Says
        BY <2>19a DEF Hear
      <4>2. \A i \in 1 .. Len(Says) : Says[i] \notin {"image"}
        BY DEF Says
      <4>3. Count(up \o Says, {"image"}) = Count(up, {"image"})
        BY <4>2, <2>1, SaysType, CountConcat
      <4>. QED  BY <4>1, <4>3 DEF OnUp
    <3>. QED  BY <2>5, <3>1, <3>2 DEF OnDown
  <2>20. CASE RecvImage
    <3>1. Receives("image") /\ up' = Append(up, "image") /\ "image" \in Command
      BY <2>20 DEF RecvImage, Command
    <3>2. OnUp' = OnUp + 1
      BY <2>1, <3>1, CountAppend DEF OnUp
    <3>3. OnDown = OnDown' + 1 /\ OnDown' \in Nat
          /\ UNCHANGED <<imageCount, Leaving>>
      BY <2>18, <3>1
    <3>. QED  BY <2>1, <2>2, <2>4, <3>2, <3>3
  <2>21. CASE RecvEnd
    BY <2>21, <2>3 DEF RecvEnd
  <2>22. CASE GiveQuery \/ GiveOrder
    <3>1. /\ up' = Append(up, "query") \/ up' = Append(up, "order")
          /\ UNCHANGED <<imageCount, sending, down>>
      BY <2>22 DEF GiveQuery, GiveOrder, serverVars
    <3>2. "query" \in Command /\ "order" \in Command
      BY DEF Command
    <3>3. OnUp' = OnUp
      <4>1. Count(Append(up, "query"), {"image"}) = Count(up, {"image"}) + 0
        BY <3>2, <2>1, CountAppend
      <4>2. Count(Append(up, "order"), {"image"}) = Count(up, {"image"}) + 0
        BY <3>2, <2>1, CountAppend
      <4>3. OnUp' = OnUp + 0
        BY <3>1, <4>1, <4>2 DEF OnUp
      <4>. QED  BY <4>3, <2>2
    <3>. QED  BY <2>5, <3>1, <3>3 DEF OnDown
  <2>23. CASE UNCHANGED vars
    BY <2>5, <2>23 DEF vars, serverVars, OnDown, OnUp
  <2>. QED  BY <1>2, <2>6, <2>8, <2>9, <2>10, <2>11, <2>13, <2>14, <2>15,
               <2>16, <2>17, <2>19, <2>19a, <2>20, <2>21, <2>22, <2>23 DEF Next
<1>. QED  BY <1>1, <1>2, TypeCorrect, PTL DEF Spec

-----------------------------------------------------------------------------
(* The pictures.                                                           *)

(* The picture the next image will be encoded against.                     *)
Basis == IF sending = "image_data" THEN base ELSE frame

(* What is on its way is not affected by what is appended behind it.       *)
LEMMA ShowsBefore ==
  ASSUME TypeOK, NEW message \in Sent, down' = Append(down, message),
         shown' = shown, NEW n \in 0 .. Len(down), NEW v
  PROVE  ShowsAfter(n, v)' <=> ShowsAfter(n, v)
<1>1. \A i \in 1 .. n : down'[i] = down[i]
  BY DEF TypeOK
<1>. QED  BY <1>1 DEF ShowsAfter

(* Receiving a message only moves what follows one place nearer.           *)
LEMMA ShowsCloser ==
  ASSUME TypeOK, down # <<>>, down' = Tail(down),
         shown' = IF Head(down) \in ImageMessage THEN Head(down).frame ELSE shown,
         NEW n \in 1 .. Len(down), NEW v, ShowsAfter(n, v)
  PROVE  ShowsAfter(n - 1, v)'
<1>1. /\ Len(down) \in Nat \ {0}
      /\ \A i \in 1 .. Len(down) - 1 : down'[i] = down[i + 1]
      /\ Head(down) = down[1]
  BY HeadTailProperties, EmptySeq DEF TypeOK
<1>2. n - 1 \in 0 .. Len(down) - 1
  BY <1>1
<1>3. CASE v = shown /\ \A i \in 1 .. n : down[i] \notin ImageMessage
  <2>1. shown' = v
    BY <1>1, <1>3
  <2>2. ASSUME NEW i \in 1 .. n - 1 PROVE down'[i] \notin ImageMessage
    <3>1. i + 1 \in 1 .. n /\ i \in 1 .. Len(down) - 1
      BY <1>1
    <3>. QED  BY <3>1, <1>1, <1>3
  <2>. QED  BY <2>1, <2>2 DEF ShowsAfter
<1>4. CASE \E i \in 1 .. n : /\ down[i] \in ImageMessage
                             /\ down[i].frame = v
                             /\ \A j \in i + 1 .. n : down[j] \notin ImageMessage
  <2>1. PICK i \in 1 .. n : /\ down[i] \in ImageMessage
                            /\ down[i].frame = v
                            /\ \A j \in i + 1 .. n : down[j] \notin ImageMessage
    BY <1>4
  <2>2. ASSUME NEW j \in i .. n - 1 PROVE down'[j] \notin ImageMessage
    <3>1. j + 1 \in i + 1 .. n /\ j \in 1 .. Len(down) - 1
      BY <1>1
    <3>. QED  BY <3>1, <1>1, <2>1
  <2>3. CASE i = 1
    <3>1. shown' = v
      BY <2>1, <2>3, <1>1
    <3>. QED  BY <3>1, <2>2, <2>3 DEF ShowsAfter
  <2>4. CASE i > 1
    <3>1. i - 1 \in 1 .. n - 1 /\ i - 1 \in 1 .. Len(down) - 1
      BY <2>4, <1>1
    <3>2. down'[i - 1] = down[i]
      BY <3>1, <1>1
    <3>3. \A j \in (i - 1) + 1 .. n - 1 : down'[j] \notin ImageMessage
      BY <2>2
    <3>. QED  BY <3>1, <3>2, <3>3, <2>1 DEF ShowsAfter
  <2>. QED  BY <2>3, <2>4
<1>. QED  BY <1>3, <1>4 DEF ShowsAfter

(* Every image finds the client with the picture it was encoded against.   *)
THEOREM DeltasApply == Spec => []DeltaApplies
<1>1. Init => DeltaApplies
  BY DEF Init, DeltaApplies, ShowsAfter, Idle
<1>2. ASSUME TypeOK, DeltaApplies, [Next]_vars PROVE DeltaApplies'
  <2>1. /\ down \in Seq(Sent) /\ Len(down) \in Nat
        /\ toSend \subseteq Message /\ mask \subseteq Message
    BY <1>2 DEF TypeOK
  <2>2. /\ \A i \in 1 .. Len(down) :
              down[i] \in ImageMessage => ShowsAfter(i - 1, down[i].base)
        /\ ShowsAfter(Len(down), Basis)
    BY <1>2 DEF DeltaApplies, Basis
  <2>3. ASSUME UNCHANGED <<down, shown>>, Basis' = Basis
        PROVE  DeltaApplies'
    BY <2>2, <2>3 DEF DeltaApplies, Basis, ShowsAfter
  <2>4. CASE Grab \/ (\E a \in BOOLEAN : ChangeAccess(a)) \/ Stop \/ PeerGone
    BY <2>3, <2>4 DEF Grab, ChangeAccess, Stop, PeerGone, clientVars, Basis
  <2>5. CASE ReadAccess \/ ReadImage \/ ReadControl \/ ReadStop
    BY <2>3, <2>5 DEF ReadAccess, ReadImage, ReadControl, ReadStop, Reads,
                      clientVars, Basis
  <2>6. CASE Begin
    <3>1. sending' \in toSend \cap mask /\ sending # "image_data"
      BY <2>1, <2>6, LowestIn DEF Begin, Idle
    <3>2. sending' # "image_data"
      BY <2>1, <3>1 DEF Message, Bit
    <3>. QED  BY <2>3, <2>6, <3>1, <3>2 DEF Begin, clientVars, Basis
  <2>7. CASE StartImage \/ FinishImage
    BY <2>3, <2>7 DEF StartImage, FinishImage, clientVars, Basis, Idle
  <2>8. ASSUME NEW message \in Sent, down' = Append(down, message), shown' = shown,
               message \in ImageMessage => message.base = Basis,
               Basis' = IF message \in ImageMessage THEN message.frame ELSE Basis
        PROVE  DeltaApplies'
    <3>1. /\ Len(down') = Len(down) + 1
          /\ \A i \in 1 .. Len(down) : down'[i] = down[i]
          /\ down'[Len(down) + 1] = message
      BY <2>1, <2>8
    <3>2. PICK k, v : k = Len(down) /\ v = Basis
      OBVIOUS
    <3>3. ShowsAfter(k, v)'
      BY <1>2, <2>1, <2>2, <2>8, <3>2, ShowsBefore
    <3>4. ASSUME NEW i \in 1 .. k + 1, down'[i] \in ImageMessage
          PROVE  ShowsAfter(i - 1, down[i].base)'
      <4>1. CASE i = k + 1
        BY <4>1, <3>1, <3>2, <3>3, <3>4, <2>1, <2>8
      <4>2. CASE i # k + 1
        <5>1. i \in 1 .. Len(down) /\ i - 1 \in 0 .. Len(down)
          BY <4>2, <3>2, <2>1
        <5>2. PICK w : w = down[i].base
          OBVIOUS
        <5>3. down'[i] = down[i]
          BY <3>1, <5>1
        <5>4. ShowsAfter(i - 1, w)
          BY <2>2, <3>4, <5>1, <5>2, <5>3
        <5>5. ShowsAfter(i - 1, w)'
          BY <1>2, <2>8, <5>1, <5>4, ShowsBefore
        <5>. QED  BY <5>2, <5>3, <5>5
      <4>. QED  BY <4>1, <4>2
    <3>5. ShowsAfter(Len(down), Basis)'
      <4>1. CASE message \in ImageMessage
        BY <4>1, <2>1, <2>8, <3>1 DEF ShowsAfter
      <4>2. CASE message \notin ImageMessage
        <5>1. Basis' = v
          BY <4>2, <2>8, <3>2
        <5>2. ShowsAfter(k + 1, v)'
          BY <4>2, <3>1, <3>2, <3>3, <2>1 DEF ShowsAfter
        <5>. QED  BY <5>1, <5>2, <3>1, <3>2
      <4>. QED  BY <4>1, <4>2
    <3>. QED  BY <3>1, <3>2, <3>4, <3>5 DEF DeltaApplies, Basis
  <2>9. CASE WriteAccess \/ WriteControl
    <3>1. PICK message \in Sent \ ImageMessage : Writes(message)
      BY <2>9, <1>2 DEF WriteAccess, WriteControl, Sent, AccessMessage,
                        ControlMessage, ImageMessage, TypeOK
    <3>2. Basis' = Basis
      BY <2>9 DEF WriteAccess, WriteControl, Writes, Basis, Idle
    <3>. QED  BY <2>8, <3>1, <3>2 DEF Writes, clientVars
  <2>10. CASE WriteImage
    <3>. DEFINE message == [m |-> "image", base |-> base, frame |-> frame]
    <3>1. /\ message \in Sent /\ message \in ImageMessage
          /\ message.base = base /\ message.frame = frame
      BY <1>2 DEF Sent, ImageMessage, TypeOK
    <3>2. Writes(message) /\ Basis = base /\ Basis' = frame
      BY <2>10 DEF WriteImage, Writes, Basis
    <3>. HIDE DEF message
    <3>. QED  BY <2>8, <3>1, <3>2 DEF Writes, clientVars
  <2>11. ASSUME down # <<>>, down' = Tail(down), Basis' = Basis,
                shown' = IF Head(down) \in ImageMessage
                         THEN Head(down).frame ELSE shown
         PROVE  DeltaApplies'
    <3>1. /\ Len(down) >= 1 /\ Len(down') = Len(down) - 1
          /\ \A i \in 1 .. Len(down) - 1 : down'[i] = down[i + 1]
      BY <2>1, <2>11, HeadTailProperties, EmptySeq
    <3>2. PICK k, v : k = Len(down) /\ v = Basis
      OBVIOUS
    <3>3. ShowsAfter(k - 1, v)'
      BY <1>2, <2>1, <2>2, <2>11, <3>1, <3>2, ShowsCloser
    <3>4. ASSUME NEW i \in 1 .. k - 1, down'[i] \in ImageMessage
          PROVE  ShowsAfter(i - 1, down[i].base)'
      <4>1. PICK w : w = down'[i].base
        OBVIOUS
      <4>2. i + 1 \in 1 .. Len(down) /\ i \in 1 .. Len(down) - 1
        BY <3>2, <2>1
      <4>3. ShowsAfter(i, w)
        BY <2>2, <3>1, <3>4, <4>1, <4>2
      <4>4. ShowsAfter(i - 1, w)'
        BY <1>2, <2>11, <4>2, <4>3, ShowsCloser
      <4>. QED  BY <4>1, <4>4
    <3>. QED  BY <2>11, <3>1, <3>2, <3>3, <3>4 DEF DeltaApplies, Basis
  <2>12. CASE RecvAccess \/ RecvControl \/ RecvImage
    <3>1. /\ down # <<>> /\ down' = Tail(down) /\ Basis' = Basis
          /\ Head(down) \in Sent
      BY <2>12, <2>1, HeadTailProperties
         DEF RecvAccess, RecvControl, RecvImage, Receives, serverVars, Basis
    <3>2. shown' = IF Head(down) \in ImageMessage
                   THEN Head(down).frame ELSE shown
      BY <2>12, <3>1, Kinds DEF RecvAccess, RecvControl, RecvImage, Receives
    <3>. QED  BY <2>11, <3>1, <3>2
  <2>13. CASE Hear \/ RecvEnd \/ GiveQuery \/ GiveOrder \/ UNCHANGED vars
    BY <2>3, <2>13 DEF Hear, RecvEnd, GiveQuery, GiveOrder, vars, serverVars,
                       clientVars, Basis
  <2>. QED  BY <1>2, <2>4, <2>5, <2>6, <2>7, <2>9, <2>10, <2>12, <2>13 DEF Next
<1>. QED  BY <1>1, <1>2, TypeCorrect, PTL DEF Spec

-----------------------------------------------------------------------------
(* The answers.                                                            *)

(* An answer has been given to the connection, or is held to be.           *)
Delivered == answers + Count(down, ControlMessage)
Owed == reply /\ ("control" \in toSend \/ sending = "control")

(* A stop comes right behind a query, so once it is next the query has     *)
(* been read.                                                              *)
Ordered ==
    /\ "control" \in mask
    /\ reply => Owed
    /\ \A i \in 1 .. Len(up) :
          up[i] = "stop" => IF i = 1 THEN Owed \/ Delivered >= 1
                                     ELSE up[i - 1] = "query"
    /\ stopping => Owed \/ Delivered >= 1

(* What the client was given and what is on its way to it only grows.      *)
LEMMA DeliveredGrows ==
  ASSUME TypeOK, [Next]_vars
  PROVE  /\ Delivered \in Nat /\ Delivered' \in Nat
         /\ Delivered' >= Delivered
         /\ WriteControl => Delivered' >= 1
<1>1. /\ down \in Seq(Sent) /\ answers \in Nat
      /\ Count(down, ControlMessage) \in Nat
  BY CountFinite DEF TypeOK
<1>2. ASSUME NEW message \in Sent, Writes(message)
      PROVE  /\ Delivered' = answers + (Count(down, ControlMessage)
                               + IF message \in ControlMessage THEN 1 ELSE 0)
  <2>1. Count(down', ControlMessage)
          = Count(down, ControlMessage)
              + (IF message \in ControlMessage THEN 1 ELSE 0)
    BY <1>1, <1>2, CountAppend DEF Writes
  <2>2. answers' = answers
    BY <1>2 DEF Writes, clientVars
  <2>. QED  BY <2>1, <2>2 DEF Delivered
<1>3. ASSUME UNCHANGED <<answers, down>>
      PROVE  Delivered' = Delivered
  BY <1>3 DEF Delivered
<1>4. CASE WriteControl
  <2>1. [m |-> "control"] \in Sent /\ [m |-> "control"] \in ControlMessage
    BY DEF Sent, ControlMessage
  <2>2. Delivered' = answers + (Count(down, ControlMessage) + 1)
    BY <1>2, <1>4, <2>1 DEF WriteControl
  <2>. QED  BY <1>1, <2>2 DEF Delivered
<1>5. CASE WriteAccess \/ WriteImage
  <2>1. PICK message \in Sent : Writes(message)
    BY <1>5 DEF WriteAccess, WriteImage, Sent, AccessMessage, ImageMessage,
                TypeOK
  <2>2. ~WriteControl
    BY <1>5 DEF WriteAccess, WriteImage, WriteControl
  <2>. QED  BY <1>1, <1>2, <2>1, <2>2 DEF Delivered
<1>6. CASE RecvAccess \/ RecvControl \/ RecvImage
  <2>1. /\ down # <<>> /\ down' = Tail(down) /\ sending' = sending
        /\ answers' = IF Head(down).m = "control" THEN answers + 1 ELSE answers
    BY <1>6 DEF RecvAccess, RecvControl, RecvImage, Receives, serverVars
  <2>2. /\ Tail(down) \in Seq(Sent) /\ Head(down) \in Sent
        /\ Count(Tail(down), ControlMessage) \in Nat
    BY <1>1, <2>1, HeadTailProperties, CountFinite
  <2>3. Count(down, ControlMessage) = Count(Tail(down), ControlMessage)
          + (IF Head(down) \in ControlMessage THEN 1 ELSE 0)
    BY <1>1, <2>1, CountTail
  <2>4. Head(down) \in ControlMessage => Head(down).m = "control"
    BY DEF ControlMessage
  <2>5. ~WriteControl
    BY <1>1, <2>1, <1>6 DEF WriteControl, Writes, RecvAccess, RecvControl,
       RecvImage, clientVars
  <2>6. Delivered' = answers' + Count(Tail(down), ControlMessage)
    BY <2>1 DEF Delivered
  <2>. QED  BY <1>1, <2>1, <2>2, <2>3, <2>4, <2>5, <2>6 DEF Delivered
<1>7. CASE ~(WriteControl \/ WriteAccess \/ WriteImage \/ RecvAccess
             \/ RecvControl \/ RecvImage)
  <2>1. UNCHANGED <<answers, down>>
    BY <1>7 DEF Next, vars, clientVars, Grab, ChangeAccess, ReadAccess,
       ReadImage, ReadControl, ReadStop, Begin, StartImage, FinishImage, Stop,
       PeerGone, Hear, RecvEnd, GiveQuery, GiveOrder, Reads
  <2>. QED  BY <1>1, <1>3, <1>7, <2>1 DEF Delivered
<1>. QED  BY <1>4, <1>5, <1>6, <1>7

(* The end of the connection after a stop leaves the client its answer.    *)
THEOREM AnswersKept == Spec => []AnsweredBeforeEnd
<1>1. Init => Ordered /\ AnsweredBeforeEnd
  BY DEF Init, Ordered, AnsweredBeforeEnd
<1>2. ASSUME TypeOK, Ordered, [Next]_vars PROVE Ordered'
  <2>1. /\ up \in Seq(Command) /\ Len(up) \in Nat
        /\ toSend \subseteq Message /\ mask \subseteq Message
    BY <1>2 DEF TypeOK
  <2>2. /\ Delivered \in Nat /\ Delivered' \in Nat
        /\ Delivered' >= Delivered
        /\ WriteControl => Delivered' >= 1
    BY <1>2, DeliveredGrows
  <2>. USE <1>2 DEF Ordered
  <2>3. ASSUME UNCHANGED <<mask, reply, up, stopping>>, Owed => Owed'
        PROVE  Ordered'
    BY <2>2, <2>3
  <2>4. CASE Grab \/ (\E a \in BOOLEAN : ChangeAccess(a)) \/ Stop \/ PeerGone
    BY <2>3, <2>4 DEF Grab, ChangeAccess, Stop, PeerGone, Owed
  <2>5. CASE Begin
    BY <2>3, <2>5 DEF Begin, Owed, Idle
  <2>6. CASE WriteAccess \/ StartImage \/ WriteImage
    BY <2>3, <2>6 DEF WriteAccess, StartImage, WriteImage, Writes, Owed
  <2>7. CASE FinishImage
    BY <2>2, <2>7 DEF FinishImage, Owed
  <2>8. CASE WriteControl
    BY <2>2, <2>8 DEF WriteControl, Writes
  <2>9. CASE RecvAccess \/ RecvControl \/ RecvEnd
    BY <2>3, <2>9 DEF RecvAccess, RecvControl, RecvEnd, Receives, serverVars,
                      Owed
  <2>10. ASSUME NEW command \in Command, command # "stop", Reads(command),
                "control" \in mask', reply' => Owed', stopping' = stopping,
                Owed => Owed', command = "query" => Owed'
         PROVE  Ordered'
    <3>1. /\ up # <<>> /\ Head(up) = command /\ up' = Tail(up)
          /\ Head(up) = up[1] /\ Len(up) >= 1 /\ Len(up') = Len(up) - 1
          /\ \A i \in 1 .. Len(up') : up'[i] = up[i + 1]
      BY <2>1, <2>10, HeadTailProperties, EmptySeq DEF Reads
    <3>2. ASSUME NEW i \in 1 .. Len(up'), up'[i] = "stop"
          PROVE  IF i = 1 THEN Owed' ELSE up'[i - 1] = "query"
      <4>1. i + 1 \in 1 .. Len(up) /\ i + 1 # 1 /\ (i + 1) - 1 = i
        BY <3>1, <2>1
      <4>2. up[i] = "query"
        BY <3>1, <3>2, <4>1
      <4>3. CASE i = 1
        BY <2>10, <3>1, <4>2, <4>3
      <4>4. CASE i # 1
        <5>1. i - 1 \in 1 .. Len(up') /\ (i - 1) + 1 = i
          BY <4>4, <3>1, <2>1
        <5>. QED  BY <3>1, <4>2, <4>4, <5>1
      <4>. QED  BY <4>3, <4>4
    <3>. QED  BY <2>2, <2>10, <3>2
  <2>11. CASE ReadAccess \/ ReadImage
    <3>1. PICK command \in {"access", "image"} : Reads(command)
      BY <2>11 DEF ReadAccess, ReadImage
    <3>2. /\ UNCHANGED <<reply, stopping, sending>>
          /\ mask \subseteq mask' /\ toSend \subseteq toSend'
      BY <2>11 DEF ReadAccess, ReadImage, Reads
    <3>. QED  BY <2>10, <3>1, <3>2 DEF Owed, Command
  <2>12. CASE ReadControl
    <3>1. PICK command \in {"query", "order"} :
             /\ Reads(command) /\ ~reply /\ reply' = (command = "query")
             /\ toSend' = IF reply' THEN toSend \cup {"control"} ELSE toSend
             /\ UNCHANGED <<stopping, mask>>
      BY <2>12 DEF ReadControl
    <3>. QED  BY <2>10, <3>1 DEF Owed, Command
  <2>13. CASE ReadStop
    <3>1. /\ up # <<>> /\ up[1] = "stop" /\ Len(up) >= 1 /\ up' = <<>>
          /\ UNCHANGED <<mask, reply, toSend, sending>>
      BY <2>1, <2>13, HeadTailProperties, EmptySeq DEF ReadStop
    <3>2. Owed \/ Delivered >= 1
      BY <2>1, <3>1
    <3>3. Owed => Owed'
      BY <3>1 DEF Owed
    <3>. QED  BY <2>2, <3>1, <3>2, <3>3
  <2>14. ASSUME NEW e \in Command, e # "stop", up' = Append(up, e),
                UNCHANGED <<mask, reply, stopping>>, Owed => Owed'
         PROVE  Ordered'
    <3>1. /\ Len(up') = Len(up) + 1 /\ up'[Len(up) + 1] = e
          /\ \A i \in 1 .. Len(up) : up'[i] = up[i]
      BY <2>1, <2>14
    <3>2. ASSUME NEW i \in 1 .. Len(up'), up'[i] = "stop"
          PROVE  IF i = 1 THEN Owed' \/ Delivered' >= 1
                          ELSE up'[i - 1] = "query"
      <4>1. i \in 1 .. Len(up)
        BY <2>1, <2>14, <3>1, <3>2
      <4>2. CASE i = 1
        BY <2>2, <2>14, <3>1, <3>2, <4>1, <4>2
      <4>3. CASE i # 1
        <5>1. i - 1 \in 1 .. Len(up)
          BY <4>1, <4>3
        <5>. QED  BY <3>1, <3>2, <4>1, <4>3, <5>1
      <4>. QED  BY <4>2, <4>3
    <3>. QED  BY <2>2, <2>14, <3>2
  <2>15. CASE RecvImage \/ GiveQuery \/ GiveOrder
    <3>1. PICK e \in {"image", "query", "order"} : up' = Append(up, e)
      BY <2>15 DEF RecvImage, GiveQuery, GiveOrder
    <3>2. UNCHANGED <<mask, reply, stopping, toSend, sending>>
      BY <2>15 DEF RecvImage, Receives, GiveQuery, GiveOrder, serverVars
    <3>. QED  BY <2>14, <3>1, <3>2 DEF Owed, Command
  <2>16. CASE Hear
    <3>1. UNCHANGED <<mask, reply, stopping, toSend, sending>>
      BY <2>16 DEF Hear, serverVars
    <3>2. CASE up' = up
      BY <2>3, <3>1, <3>2 DEF Owed
    <3>3. CASE up' = up \o <<"access">>
      <4>1. up' = Append(up, "access")
        BY <2>1, <3>3
      <4>. QED  BY <2>14, <3>1, <4>1 DEF Owed, Command
    <3>4. CASE up' = up \o <<"query", "stop">>
      <4>1. /\ Len(up') = Len(up) + 2
            /\ up'[Len(up) + 1] = "query" /\ up'[Len(up) + 2] = "stop"
            /\ \A i \in 1 .. Len(up) : up'[i] = up[i]
        BY <2>1, <3>4
      <4>2. ASSUME NEW i \in 1 .. Len(up'), up'[i] = "stop"
            PROVE  IF i = 1 THEN Owed' \/ Delivered' >= 1
                            ELSE up'[i - 1] = "query"
        <5>1. CASE i = Len(up) + 2
          BY <2>1, <4>1, <5>1
        <5>2. CASE i = Len(up) + 1
          BY <4>1, <4>2, <5>2
        <5>3. CASE i \in 1 .. Len(up)
          <6>1. CASE i = 1
            BY <2>2, <3>1, <4>1, <4>2, <5>3, <6>1 DEF Owed
          <6>2. CASE i # 1
            <7>1. i - 1 \in 1 .. Len(up)
              BY <5>3, <6>2
            <7>. QED  BY <4>1, <4>2, <5>3, <6>2, <7>1
          <6>. QED  BY <6>1, <6>2
        <5>. QED  BY <2>1, <4>1, <5>1, <5>2, <5>3
      <4>. QED  BY <2>2, <3>1, <4>2 DEF Owed
    <3>. QED  BY <2>16, <3>2, <3>3, <3>4 DEF Hear, Says
  <2>17. CASE UNCHANGED vars
    BY <2>3, <2>17 DEF vars, serverVars, Owed
  <2>. QED  BY <1>2, <2>4, <2>5, <2>6, <2>7, <2>8, <2>9, <2>11, <2>12, <2>13,
               <2>15, <2>16, <2>17 DEF Next
<1>3. ASSUME TypeOK, Ordered, AnsweredBeforeEnd, [Next]_vars
      PROVE  AnsweredBeforeEnd'
  <2>1. /\ Delivered \in Nat /\ Delivered' \in Nat
        /\ Delivered' >= Delivered
    BY <1>3, DeliveredGrows
  <2>2. SUFFICES ASSUME ~open', stopping', running' PROVE Delivered' >= 1
    BY DEF AnsweredBeforeEnd, Delivered
  <2>3. running
    BY <1>3, <2>2 DEF Next, vars, clientVars, Grab, ChangeAccess, ReadAccess,
       ReadImage, ReadControl, ReadStop, Begin, WriteAccess, WriteControl,
       StartImage, WriteImage, FinishImage, Stop, PeerGone, RecvAccess,
       RecvControl, RecvImage, Hear, RecvEnd, GiveQuery, GiveOrder, Reads,
       Writes, Receives
  <2>4. CASE Stop
    <3>1. "control" \notin toSend /\ sending # "control" /\ stopping
      BY <1>3, <2>4 DEF Stop, Ordered, Idle
    <3>. QED  BY <1>3, <2>1, <3>1 DEF Ordered, Owed
  <2>5. CASE PeerGone
    BY <2>3, <2>5 DEF PeerGone
  <2>6. CASE ~open /\ stopping
    <3>1. Delivered >= 1
      BY <1>3, <2>3, <2>6 DEF AnsweredBeforeEnd, Delivered
    <3>. QED  BY <2>1, <3>1
  <2>7. CASE ReadStop
    BY <2>2, <2>7 DEF ReadStop
  <2>8. CASE ~(Stop \/ PeerGone \/ ReadStop)
    <3>1. UNCHANGED open /\ UNCHANGED stopping
      BY <1>3, <2>8 DEF Next, vars, serverVars, Grab, ChangeAccess,
         ReadAccess, ReadImage, ReadControl, Begin, WriteAccess,
         WriteControl, StartImage, WriteImage, FinishImage, RecvAccess,
         RecvControl, RecvImage, Hear, RecvEnd, GiveQuery, GiveOrder, Reads,
         Writes, Receives
    <3>. QED  BY <2>2, <2>6, <3>1
  <2>. QED  BY <2>4, <2>5, <2>6, <2>7, <2>8
<1>. QED  BY <1>1, <1>2, <1>3, TypeCorrect, PTL DEF Spec
=============================================================================
