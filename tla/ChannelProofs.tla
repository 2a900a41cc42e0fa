----------------------------- MODULE ChannelProofs -----------------------------
(* The connection implements the pipe: what one program sends the other    *)
(* gets, message by message, for buffers, messages and a network of any    *)
(* size and whatever the pieces, the handshakes and the end.               *)
EXTENDS Channel, SequenceTheorems, WellFoundedInduction, TLAPS

(* A message is not empty, and its bytes are numbered from 1.              *)
Pair == Nat \X Nat
Message == [kind : {"fixed", "token"}, size : Nat \ {0}]

(* The byte after b in what p sends; <<i, 0>> stands before the message i. *)
After(p, b) ==
    IF b[2] = 0 \/ b[2] < Length(Script[p][b[1]]) THEN <<b[1], b[2] + 1>>
    ELSE <<b[1] + 1, 1>>

(* A sequence of bytes and flights that has every byte before the next.    *)
Chained(p, s) ==
    \A i, j \in DOMAIN s :
        /\ i < j /\ s[i] # Flight /\ s[j] # Flight
        /\ \A k \in i + 1 .. j - 1 : s[k] = Flight
        => s[j] = After(p, s[i])

(* What has not left the queue of a peer: of a token of the server whose   *)
(* data is whole the size comes first.                                     *)
SizeOwed(p) ==
    /\ p = "server" /\ queue[p] # <<>>
    /\ Script[p][Len(given[p])].kind = "token"
    /\ Len(queue[p]) = Script[p][Len(given[p])].size
Owed(p) ==
    IF SizeOwed(p) THEN SubSeq(Bytes(p, Len(given[p])), 2, 1 + Header) \o queue[p]
    ELSE queue[p]

(* All that is between the programs in the direction of p to the other,    *)
(* with the place of the first byte due and that of the next to be given.  *)
Ahead(p) == << <<Len(arrived[p]) + 1, 0>> >> \o (reading[Other(p)] \o input[Other(p)].bytes)
Stop(p) == IF phase[p] = "closed" THEN <<>> ELSE << <<Len(given[p]) + 1, 1>> >>
Behind(p) == output[p].bytes \o (Owed(p) \o Stop(p))
InOrder(p) == phase[Other(p)] = "closed" \/ Chained(p, Ahead(p) \o (wire[p] \o Behind(p)))

(* The bytes of what a peer has given.                                     *)
Sent(p) == {b \in Pair : /\ b[1] \in 1 .. Len(given[p])
                         /\ b[2] \in 1 .. Length(Script[p][b[1]])}

Carried(p) ==
    /\ queue[p] \in Seq(Sent(p)) /\ output[p].bytes \in Seq(Sent(p))
    /\ wire[p] \in Seq(Sent(p) \cup {Flight})
    /\ input[Other(p)].bytes \in Seq(Sent(p)) /\ reading[Other(p)] \in Seq(Sent(p))

OfScript(s, p) ==
    /\ s \in Seq(Message) /\ Len(s) <= Len(Script[p])
    /\ \A i \in 1 .. Len(s) : s[i] = Script[p][i]

Counted(p) ==
    /\ OfScript(given[p], p) /\ OfScript(arrived[p], p)
    /\ Len(arrived[p]) <= Len(given[p])

(* No buffer is written beyond its end.                                    *)
Fits(b) == /\ b \in [at : Nat, bytes : Seq(Pair)]
           /\ b.at + Len(b.bytes) <= Size

(* Nothing is there before the connection is.                              *)
Begun(p) ==
    phase[p] \notin {"ready", "closed"} =>
        queue[p] = <<>> /\ output[p].bytes = <<>> /\ input[p].bytes = <<>>

(* token_send tells by the length of the data whether the size is out.     *)
Owing(p) ==
    p = "server" /\ queue[p] # <<>> =>
        /\ given[p] # <<>>
        /\ Script[p][Len(given[p])].kind = "token"
             => Len(queue[p]) <= Script[p][Len(given[p])].size

Sound(p) == Carried(p) /\ Counted(p) /\ Owing(p) /\ InOrder(p)

ChannelType ==
    /\ DOMAIN phase = Peer /\ DOMAIN queue = Peer /\ DOMAIN output = Peer
    /\ DOMAIN input = Peer /\ DOMAIN wire = Peer /\ DOMAIN reading = Peer
    /\ DOMAIN given = Peer /\ DOMAIN arrived = Peer

ChannelInv ==
    /\ ChannelType
    /\ \A p \in Peer : Fits(output[p]) /\ Fits(input[p]) /\ Begun(p) /\ Sound(p)

-----------------------------------------------------------------------------
LEMMA Others ==
    ASSUME NEW p \in Peer
    PROVE  Other(p) \in Peer /\ Other(p) # p /\ Other(Other(p)) = p
           /\ \A q \in Peer : q = p \/ q = Other(p)
<1>1. \A r \in Peer : Other(r) \in Peer /\ Other(r) # r
  BY DEF Peer, Other
<1>. QED  BY <1>1 DEF Peer

LEMMA Constants ==
    /\ Size \in Nat \ {0} /\ Unit \in Nat \ {0} /\ Header \in Nat \ {0}
    /\ \A p \in Peer : Script[p] \in Seq(Message)
    /\ \A p \in Peer : \A i \in 1 .. Len(Script[p]) :
         /\ Script[p][i] \in Message /\ Length(Script[p][i]) \in Nat \ {0}
         /\ Script[p][i].kind = "token" => Length(Script[p][i]) = 1 + Header + Script[p][i].size
         /\ Script[p][i].size \in Nat \ {0}
<1>1. /\ Size \in Nat \ {0} /\ Unit \in Nat \ {0} /\ Header \in Nat \ {0}
      /\ \A p \in Peer : Script[p] \in Seq(Message)
  BY ChannelAssumption DEF Message
<1>2. ASSUME NEW m \in Message
      PROVE  /\ Length(m) \in Nat \ {0} /\ m.size \in Nat \ {0}
             /\ m.kind = "token" => Length(m) = 1 + Header + m.size
  BY <1>1 DEF Message, Length
<1>3. ASSUME NEW p \in Peer, NEW i \in 1 .. Len(Script[p]) PROVE Script[p][i] \in Message
  BY <1>1
<1>. QED  BY <1>1, <1>2, <1>3

(* Pieces put together in one order or the other.                          *)
LEMMA Joined ==
    \A a, b, c \in Seq(Pair) : a \o b \in Seq(Pair) /\ (a \o b) \o c = a \o (b \o c)
  BY SMTT(30), ConcatAssociative, ConcatProperties

(* So named, the provers need not look into the sequences.                 *)
Cat(s, t) == s \o t

LEMMA Catted ==
    ASSUME NEW a \in Seq(Pair), NEW b \in Seq(Pair), NEW c \in Seq(Pair)
    PROVE  Cat(a, b) \in Seq(Pair) /\ Cat(Cat(a, b), c) = Cat(a, Cat(b, c))
  BY SMTT(30), ConcatAssociative, ConcatProperties DEF Cat

LEMMA Regroup ==
    ASSUME NEW a \in Seq(Pair), NEW b \in Seq(Pair), NEW c \in Seq(Pair)
    PROVE  (a \o b) \o c = a \o (b \o c)
  BY ConcatAssociative

(* Bytes move from one place to the next.                                  *)
LEMMA Moved ==
    ASSUME NEW p, NEW a \in Seq(Pair), NEW b \in Seq(Pair), NEW c \in Seq(Pair),
           NEW d \in Seq(Pair), NEW A, A = a \o b, NEW B, B = c \o d,
           NEW C, C = b \o c, Chained(p, a \o (C \o d))
    PROVE  Chained(p, A \o B)
<1>1. Cat(Cat(a, b), Cat(c, d)) = Cat(a, Cat(Cat(b, c), d))
  BY Catted
<1>. QED  BY <1>1 DEF Cat

(* A sequence is its head and its tail.                                    *)
LEMMA SplitHead ==
    ASSUME NEW T, NEW s \in Seq(T), s # <<>>
    PROVE  s = <<Head(s)>> \o Tail(s)
<1>1. Len(s) \in Nat \ {0} /\ Head(s) = s[1]
  BY EmptySeq
<1>2. SubSeq(s, 1, Len(s)) = <<s[1]>> \o SubSeq(s, 2, Len(s))
  BY <1>1, SubSeqRecursiveFirst
<1>. QED  BY <1>1, <1>2, SubSeqFull, TailIsSubSeq

(* A sequence is what comes before a place, and the rest.                  *)
LEMMA SplitAt ==
    ASSUME NEW T, NEW s \in Seq(T), NEW n \in 0 .. Len(s)
    PROVE  /\ s = SubSeq(s, 1, n) \o SubSeq(s, n + 1, Len(s))
           /\ SubSeq(s, 1, n) \in Seq(T) /\ Len(SubSeq(s, 1, n)) = n
           /\ SubSeq(s, n + 1, Len(s)) \in Seq(T) /\ Len(SubSeq(s, n + 1, Len(s))) = Len(s) - n
<1>1. Len(s) \in Nat /\ n \in Nat
  OBVIOUS
<1>2. s = SubSeq(s, 1, n) \o SubSeq(s, n + 1, Len(s))
  <2>1. 1 \in 1 .. Len(s) + 1 /\ n \in 1 - 1 .. Len(s) /\ Len(s) \in n .. Len(s)
    BY <1>1
  <2>. QED  BY <1>1, <2>1, SubSeqFull, ConcatAdjacentSubSeq
<1>3. SubSeq(s, 1, n) \in Seq(T) /\ Len(SubSeq(s, 1, n)) = n
  BY <1>1
<1>4. SubSeq(s, n + 1, Len(s)) \in Seq(T) /\ Len(SubSeq(s, n + 1, Len(s))) = Len(s) - n
  BY <1>1
<1>. QED  BY <1>2, <1>3, <1>4

(* A part of a chain is one.                                               *)
LEMMA ChainedParts ==
    ASSUME NEW p, NEW A \in Seq(Pair), NEW B \in Seq(Pair), Chained(p, A \o B)
    PROVE  Chained(p, A) /\ Chained(p, B)
<1>1. /\ Len(A) \in Nat /\ Len(B) \in Nat /\ DOMAIN (A \o B) = 1 .. Len(A) + Len(B)
      /\ DOMAIN A = 1 .. Len(A) /\ DOMAIN B = 1 .. Len(B)
      /\ \A i \in 1 .. Len(A) : (A \o B)[i] = A[i]
      /\ \A i \in 1 .. Len(B) : (A \o B)[Len(A) + i] = B[i]
  OBVIOUS
<1>. DEFINE V == A \o B
<1>2. ASSUME NEW i \in DOMAIN V, NEW j \in DOMAIN V, i < j, V[i] # Flight, V[j] # Flight,
             \A k \in i + 1 .. j - 1 : V[k] = Flight
      PROVE  V[j] = After(p, V[i])
  BY <1>2 DEF Chained
<1>. HIDE DEF V
<1>3. ASSUME NEW i \in DOMAIN A, NEW j \in DOMAIN A, i < j, A[i] # Flight, A[j] # Flight,
             \A k \in i + 1 .. j - 1 : A[k] = Flight
      PROVE  A[j] = After(p, A[i])
  <2>1. i \in DOMAIN V /\ j \in DOMAIN V /\ V[i] = A[i] /\ V[j] = A[j]
        /\ \A k \in i + 1 .. j - 1 : V[k] = Flight
    BY <1>1, <1>3 DEF V
  <2>. QED  BY <1>2, <1>3, <2>1
<1>4. ASSUME NEW i \in DOMAIN B, NEW j \in DOMAIN B, i < j, B[i] # Flight, B[j] # Flight,
             \A k \in i + 1 .. j - 1 : B[k] = Flight
      PROVE  B[j] = After(p, B[i])
  <2>. DEFINE n == Len(A)
  <2>1. n + i \in DOMAIN V /\ n + j \in DOMAIN V /\ V[n + i] = B[i] /\ V[n + j] = B[j]
        /\ n + i < n + j
    BY <1>1, <1>4 DEF V
  <2>2. ASSUME NEW k \in (n + i) + 1 .. (n + j) - 1 PROVE V[k] = Flight
    <3>1. k - n \in i + 1 .. j - 1 /\ k - n \in 1 .. Len(B) /\ n + (k - n) = k
      BY <1>1, <2>1
    <3>2. V[n + (k - n)] = B[k - n]
      BY <1>1, <3>1 DEF V
    <3>. QED  BY <1>4, <3>1, <3>2
  <2>. QED  BY <1>2, <1>4, <2>1, <2>2
<1>. QED  BY <1>3, <1>4 DEF Chained

(* A flight may go in anywhere and come out again.                         *)
LEMMA ChainedFlight ==
    ASSUME NEW p, NEW A \in Seq(Pair), NEW B \in Seq(Pair)
    PROVE  Chained(p, A \o B) <=> Chained(p, A \o (<<Flight>> \o B))
<1>. DEFINE n == Len(A)
            V == A \o B
            W == A \o (<<Flight>> \o B)
            up(k) == IF k <= n THEN k ELSE k + 1
            low(k) == IF k <= n THEN k ELSE k - 1
<1>1. /\ n \in Nat /\ Len(B) \in Nat /\ DOMAIN V = 1 .. n + Len(B)
      /\ DOMAIN W = 1 .. n + Len(B) + 1
      /\ \A k \in 1 .. n : V[k] = A[k] /\ W[k] = A[k]
      /\ W[n + 1] = Flight
  <2>1. Flight \in Pair /\ n \in Nat /\ Len(B) \in Nat
    BY DEF Flight, Pair
  <2>2. <<Flight>> \o B \in Seq(Pair) /\ Len(<<Flight>> \o B) = Len(B) + 1
        /\ (<<Flight>> \o B)[1] = Flight
    BY <2>1
  <2>. QED  BY <2>1, <2>2
<1>2. ASSUME NEW k \in 1 .. Len(B) PROVE V[n + k] = B[k] /\ W[n + k + 1] = B[k]
  <2>. DEFINE T == <<Flight>> \o B
  <2>1. Flight \in Pair /\ n \in Nat /\ Len(B) \in Nat
    BY DEF Flight, Pair
  <2>2. T \in Seq(Pair) /\ Len(T) = Len(B) + 1
    BY <2>1
  <2>3. T[k + 1] = B[k]
    <3>1. <<Flight>> \in Seq(Pair) /\ Len(<<Flight>>) = 1 /\ k + 1 - 1 = k
      BY <2>1
    <3>2. k + 1 \in 1 .. Len(<<Flight>>) + Len(B) /\ ~(k + 1 <= Len(<<Flight>>))
      BY <3>1
    <3>. QED  BY <3>1, <3>2
  <2>. HIDE DEF T
  <2>4. W[n + (k + 1)] = T[k + 1] /\ n + (k + 1) = n + k + 1
    BY <2>1, <2>2 DEF T
  <2>. QED  BY <2>1, <2>3, <2>4
<1>. HIDE DEF V, W, n
<1>3. ASSUME NEW k \in DOMAIN V PROVE up(k) \in DOMAIN W /\ W[up(k)] = V[k] /\ up(k) # n + 1
  <2>1. CASE k <= n
    BY <1>1, <2>1
  <2>2. CASE k > n
    <3>1. k - n \in 1 .. Len(B) /\ n + (k - n) = k /\ n + (k - n) + 1 = k + 1
      BY <1>1, <2>2
    <3>. QED  BY <1>1, <1>2, <2>2, <3>1
  <2>. QED  BY <1>1, <2>1, <2>2
<1>4. ASSUME NEW k \in DOMAIN W, k # n + 1
      PROVE  low(k) \in DOMAIN V /\ V[low(k)] = W[k] /\ up(low(k)) = k
  <2>1. CASE k <= n
    BY <1>1, <2>1
  <2>2. CASE k > n + 1
    <3>1. k - 1 - n \in 1 .. Len(B) /\ n + (k - 1 - n) = k - 1 /\ n + (k - 1 - n) + 1 = k
      BY <1>1, <2>2
    <3>. QED  BY <1>1, <1>2, <2>2, <3>1
  <2>. QED  BY <1>1, <1>4, <2>1, <2>2
<1>5. ASSUME Chained(p, W) PROVE Chained(p, V)
  <2>. SUFFICES ASSUME NEW i \in DOMAIN V, NEW j \in DOMAIN V, i < j,
                       V[i] # Flight, V[j] # Flight, \A k \in i + 1 .. j - 1 : V[k] = Flight
                PROVE  V[j] = After(p, V[i])
    BY DEF Chained
  <2>1. up(i) \in DOMAIN W /\ up(j) \in DOMAIN W /\ up(i) < up(j)
        /\ W[up(i)] = V[i] /\ W[up(j)] = V[j]
    BY <1>1, <1>3
  <2>2. ASSUME NEW k \in up(i) + 1 .. up(j) - 1 PROVE W[k] = Flight
    <3>1. k \in DOMAIN W /\ k \in Int
      BY <1>1, <2>1
    <3>2. ASSUME k # n + 1 PROVE low(k) \in i + 1 .. j - 1
      <4>1. i \in Int /\ j \in Int /\ n \in Int
        BY <1>1
      <4>2. CASE k <= n
        BY <3>1, <4>1, <4>2
      <4>3. CASE k > n + 1
        BY <3>1, <4>1, <4>3
      <4>. QED  BY <3>1, <3>2, <4>1, <4>2, <4>3
    <3>. QED  BY <1>1, <1>4, <3>1, <3>2
  <2>. QED  BY <1>5, <2>1, <2>2 DEF Chained
<1>6. ASSUME Chained(p, V) PROVE Chained(p, W)
  <2>. SUFFICES ASSUME NEW i \in DOMAIN W, NEW j \in DOMAIN W, i < j,
                       W[i] # Flight, W[j] # Flight, \A k \in i + 1 .. j - 1 : W[k] = Flight
                PROVE  W[j] = After(p, W[i])
    BY DEF Chained
  <2>1. i # n + 1 /\ j # n + 1
    BY <1>1
  <2>2. low(i) \in DOMAIN V /\ low(j) \in DOMAIN V /\ low(i) < low(j)
        /\ V[low(i)] = W[i] /\ V[low(j)] = W[j]
    BY <1>1, <1>4, <2>1
  <2>3. ASSUME NEW k \in low(i) + 1 .. low(j) - 1 PROVE V[k] = Flight
    <3>1. k \in DOMAIN V /\ up(k) \in i + 1 .. j - 1
      <4>1. k \in DOMAIN V /\ i \in Int /\ j \in Int /\ n \in Int /\ k \in Int
        BY SMTT(30), <1>1, <2>2
      <4>2. CASE k <= n
        BY <2>1, <4>1, <4>2
      <4>3. CASE k > n
        BY <2>1, <4>1, <4>3
      <4>. QED  BY <4>1, <4>2, <4>3
    <3>. QED  BY <1>3, <3>1
  <2>. QED  BY <1>6, <2>2, <2>3 DEF Chained
<1>. QED  BY <1>5, <1>6 DEF V, W

(* Two chains that meet in a byte are one.                                 *)
LEMMA ChainedJoin ==
    ASSUME NEW p, NEW A \in Seq(Pair), NEW x \in Pair, NEW B \in Seq(Pair), x # Flight,
           Chained(p, A \o <<x>>), Chained(p, <<x>> \o B)
    PROVE  Chained(p, A \o (<<x>> \o B))
<1>. DEFINE n == Len(A)
            U == A \o <<x>>
            T == <<x>> \o B
            V == A \o T
<1>1. /\ n \in Nat /\ Len(B) \in Nat /\ U \in Seq(Pair) /\ T \in Seq(Pair)
      /\ DOMAIN U = 1 .. n + 1 /\ DOMAIN T = 1 .. Len(B) + 1 /\ Len(T) = Len(B) + 1
      /\ U[n + 1] = x /\ T[1] = x
      /\ \A k \in 1 .. n : U[k] = A[k]
  OBVIOUS
<1>. HIDE DEF T, U
<1>2. /\ DOMAIN V = 1 .. n + Len(B) + 1
      /\ \A k \in 1 .. n : V[k] = A[k]
      /\ \A k \in 1 .. Len(B) + 1 : V[n + k] = T[k]
  <2>1. ASSUME NEW k \in 1 .. Len(T) PROVE V[n + k] = T[k]
    BY <1>1
  <2>2. V \in Seq(Pair) /\ Len(V) = n + Len(T)
    BY <1>1, ConcatProperties
  <2>3. DOMAIN V = 1 .. Len(V)
    BY <2>2
  <2>4. ASSUME NEW k \in 1 .. n PROVE V[k] = A[k]
    BY <1>1
  <2>. QED  BY <1>1, <2>1, <2>2, <2>3, <2>4
<1>. HIDE DEF V, n
<1>3. V[n + 1] = x /\ \A k \in 1 .. n + 1 : V[k] = U[k]
  BY <1>1, <1>2
<1>. SUFFICES ASSUME NEW i \in DOMAIN V, NEW j \in DOMAIN V, i < j,
                     V[i] # Flight, V[j] # Flight, \A k \in i + 1 .. j - 1 : V[k] = Flight
              PROVE  V[j] = After(p, V[i])
  BY DEF Chained, V, T
<1>4. CASE j <= n + 1
  <2>1. i \in DOMAIN U /\ j \in DOMAIN U /\ V[i] = U[i] /\ V[j] = U[j]
        /\ \A k \in i + 1 .. j - 1 : U[k] = Flight
    BY <1>1, <1>2, <1>3, <1>4
  <2>. QED  BY <2>1 DEF Chained, U
<1>5. CASE i >= n + 1
  <2>1. i - n \in DOMAIN T /\ j - n \in DOMAIN T /\ i - n < j - n
        /\ n + (i - n) = i /\ n + (j - n) = j
    BY SMTT(30), <1>1, <1>2, <1>5
  <2>2. V[i] = T[i - n] /\ V[j] = T[j - n]
    BY <1>1, <1>2, <2>1
  <2>3. ASSUME NEW k \in (i - n) + 1 .. (j - n) - 1 PROVE T[k] = Flight
    <3>1. k \in 1 .. Len(B) + 1 /\ n + k \in i + 1 .. j - 1
      BY <1>1, <2>1
    <3>. QED  BY <1>2, <3>1
  <2>. QED  BY <2>1, <2>2, <2>3 DEF Chained, T
<1>6. CASE i < n + 1 /\ j > n + 1
  <2>1. n + 1 \in i + 1 .. j - 1
    BY <1>1, <1>2, <1>6
  <2>. QED  BY <1>3, <2>1
<1>. QED  BY <1>1, <1>2, <1>4, <1>5, <1>6

(* What the first byte of a chain is does not matter but for the next.     *)
LEMMA ChainedHead ==
    ASSUME NEW p, NEW x \in Pair, NEW y \in Pair, NEW B \in Seq(Pair), x # Flight,
           After(p, x) = After(p, y), Chained(p, <<x>> \o B)
    PROVE  Chained(p, <<y>> \o B)
<1>. DEFINE V == <<x>> \o B
            W == <<y>> \o B
<1>1. /\ Len(B) \in Nat /\ DOMAIN V = 1 .. Len(B) + 1 /\ DOMAIN W = 1 .. Len(B) + 1
      /\ V[1] = x /\ W[1] = y
      /\ \A k \in 2 .. Len(B) + 1 : V[k] = W[k]
  OBVIOUS
<1>. HIDE DEF V, W
<1>. SUFFICES ASSUME NEW i \in DOMAIN W, NEW j \in DOMAIN W, i < j,
                     W[i] # Flight, W[j] # Flight, \A k \in i + 1 .. j - 1 : W[k] = Flight
              PROVE  W[j] = After(p, W[i])
  BY DEF Chained, W
<1>2. V[i] # Flight /\ V[j] = W[j] /\ After(p, V[i]) = After(p, W[i])
  BY <1>1
<1>3. \A k \in i + 1 .. j - 1 : V[k] = Flight
  BY <1>1
<1>. QED  BY <1>1, <1>2, <1>3 DEF Chained, V

(* The bytes of a message, and the place of the next one.                  *)
LEMMA ChainedBytes ==
    ASSUME NEW p \in Peer, NEW i \in 1 .. Len(Script[p])
    PROVE  /\ Bytes(p, i) \in Seq(Pair) /\ Len(Bytes(p, i)) = Length(Script[p][i])
           /\ Bytes(p, i)[1] = <<i, 1>>
           /\ Chained(p, Bytes(p, i) \o << <<i + 1, 1>> >>)
<1>. DEFINE n == Length(Script[p][i])
            B == Bytes(p, i)
            x == <<i + 1, 1>>
            V == B \o <<x>>
<1>1. n \in Nat \ {0} /\ i \in Nat \ {0}
  BY Constants
<1>. HIDE DEF n
<1>2. B = [k \in 1 .. n |-> <<i, k>>]
  BY DEF Bytes, n
<1>. HIDE DEF B
<1>3. B \in Seq(Pair) /\ Len(B) = n /\ x \in Pair
  <2>1. B \in [1 .. n -> Pair]
    BY <1>1, <1>2 DEF Pair
  <2>2. x \in Pair
    BY <1>1 DEF Pair
  <2>. QED  BY <1>1, <1>2, <2>1, <2>2
<1>. HIDE DEF x
<1>4. /\ DOMAIN V = 1 .. n + 1 /\ V[n + 1] = x
      /\ \A k \in 1 .. n : V[k] = B[k]
  BY <1>1, <1>3
<1>. HIDE DEF V
<1>5. ASSUME NEW j \in 1 .. n PROVE V[j] = <<i, j>> /\ V[j] # Flight
  BY <1>1, <1>2, <1>4 DEF Flight
<1>6. ASSUME NEW j \in 1 .. n PROVE V[j + 1] = After(p, V[j])
  <2>1. V[j][1] = i /\ V[j][2] = j
    BY <1>5
  <2>2. After(p, V[j]) = IF j = 0 \/ j < n THEN <<i, j + 1>> ELSE <<i + 1, 1>>
    BY <2>1, Zenon DEF After, n
  <2>3. CASE j = n
    BY <1>1, <1>4, <2>2, <2>3 DEF x
  <2>4. CASE j # n
    <3>1. j + 1 \in 1 .. n /\ j < n
      BY <1>1, <2>4
    <3>. QED  BY <1>5, <2>2, <3>1
  <2>. QED  BY <2>3, <2>4
<1>7. Chained(p, V)
  <2>. SUFFICES ASSUME NEW a \in DOMAIN V, NEW b \in DOMAIN V, a < b,
                       V[a] # Flight, V[b] # Flight, \A k \in a + 1 .. b - 1 : V[k] = Flight
                PROVE  V[b] = After(p, V[a])
    BY DEF Chained
  <2>1. a \in 1 .. n /\ a \in Int /\ b \in Int
    BY <1>1, <1>4
  <2>2. CASE b = a + 1
    BY <1>6, <2>1, <2>2
  <2>3. CASE b > a + 1
    <3>1. a + 1 \in a + 1 .. b - 1 /\ a + 1 \in 1 .. n
      BY <1>1, <1>4, <2>1, <2>3
    <3>. QED  BY <1>5, <3>1
  <2>. QED  BY <2>1, <2>2, <2>3
<1>8. B[1] = <<i, 1>>
  BY <1>1, <1>2
<1>. QED  BY <1>3, <1>7, <1>8 DEF B, V, n, x

(* What is given goes where the next byte was due.                         *)
LEMMA ChainedGive ==
    ASSUME NEW p \in Peer, NEW i \in 1 .. Len(Script[p]), NEW A \in Seq(Pair),
           Chained(p, A \o << <<i, 1>> >>)
    PROVE  Chained(p, A \o (Bytes(p, i) \o << <<i + 1, 1>> >>))
<1>. DEFINE x == <<i, 1>>
            y == <<i + 1, 1>>
            V == Bytes(p, i) \o <<y>>
<1>1. x \in Pair /\ y \in Pair /\ x # Flight
  <2>1. i \in Nat \ {0}
    BY Constants
  <2>. QED  BY <2>1 DEF Pair, Flight
<1>2. /\ Bytes(p, i) \in Seq(Pair) /\ Len(Bytes(p, i)) \in Nat \ {0}
      /\ Bytes(p, i)[1] = x /\ Chained(p, V)
  <2>1. Length(Script[p][i]) \in Nat \ {0}
    BY Constants
  <2>. QED  BY <2>1, ChainedBytes
<1>. HIDE DEF x, y
<1>3. V \in Seq(Pair) /\ V # <<>> /\ V[1] = x
  BY <1>1, <1>2
<1>4. Tail(V) \in Seq(Pair) /\ V = <<x>> \o Tail(V)
  <2>1. Tail(V) \in Seq(Pair) /\ Head(V) = x
    BY <1>3
  <2>. QED  BY <1>3, <2>1, SplitHead
<1>. HIDE DEF V
<1>. QED  BY <1>1, <1>2, <1>4, ChainedJoin DEF V, x, y

(* The smallest of some numbers, where an induction would begin to fail.   *)
LEMMA Smallest ==
    ASSUME NEW S \in SUBSET Nat, S # {}
    PROVE  \E n \in S : \A m \in S : n <= m
<1>. DEFINE R == {ss \in Nat \X Nat : ss[1] < ss[2]}
<1>1. IsWellFoundedOn(R, Nat)
  BY NatLessThanWellFounded, Zenon DEF OpToRel
<1>2. \A m \in Nat, n \in Nat : <<m, n>> \in R <=> m < n
  OBVIOUS
<1>. HIDE DEF R
<1>3. PICK n \in S : \A m \in S : <<m, n>> \notin R
  BY <1>1, WFMin
<1>4. ASSUME NEW m \in S PROVE n <= m
  <2>1. m \in Nat /\ n \in Nat /\ ~(m < n)
    BY <1>2, <1>3
  <2>. QED  BY <2>1
<1>. QED  BY <1>4

(* What was read of a message is its beginning.                            *)
LEMMA ChainedRead ==
    ASSUME NEW p \in Peer, NEW a \in 1 .. Len(Script[p]), NEW R \in Seq(Pair),
           \A j \in 1 .. Len(R) : R[j] # Flight,
           Chained(p, << <<a, 0>> >> \o R)
    PROVE  \A j \in 1 .. Len(R) : j <= Length(Script[p][a]) => R[j] = <<a, j>>
<1>. DEFINE x == <<a, 0>>
            V == <<x>> \o R
            n == Length(Script[p][a])
            Wrong == {j \in 1 .. Len(R) : j <= n /\ R[j] # <<a, j>>}
<1>1. n \in Nat \ {0} /\ a \in Nat \ {0} /\ x \in Pair /\ x # Flight
  <2>1. n \in Nat \ {0} /\ a \in Nat \ {0}
    BY Constants
  <2>. QED  BY <2>1 DEF Pair, Flight
<1>2. After(p, x) = <<a, 1>>
  BY <1>1 DEF After
<1>3. ASSUME NEW j \in Nat \ {0}, j < n PROVE After(p, <<a, j>>) = <<a, j + 1>>
  BY <1>3 DEF After
<1>. HIDE DEF x, n
<1>4. /\ Len(R) \in Nat /\ V[1] = x /\ DOMAIN V = 1 .. Len(R) + 1
      /\ \A j \in 1 .. Len(R) : V[j + 1] = R[j]
  <2>. DEFINE h == <<x>>
  <2>1. h \in Seq(Pair) /\ Len(h) = 1 /\ h[1] = x /\ Len(R) \in Nat
    BY <1>1
  <2>. HIDE DEF h
  <2>2. /\ V \in Seq(Pair) /\ Len(V) = Len(h) + Len(R)
        /\ \A k \in 1 .. Len(h) + Len(R) : V[k] = IF k <= Len(h) THEN h[k] ELSE R[k - Len(h)]
    BY <2>1, ConcatProperties DEF h
  <2>. HIDE DEF V
  <2>3. ASSUME NEW j \in 1 .. Len(R) PROVE V[j + 1] = R[j]
    <3>1. j + 1 \in 1 .. 1 + Len(R) /\ ~(j + 1 <= 1) /\ j + 1 - 1 = j
      BY <2>1
    <3>. QED  BY <2>1, <2>2, <3>1
  <2>. QED  BY <2>1, <2>2, <2>3
<1>. HIDE DEF V
<1>5. ASSUME NEW j \in 1 .. Len(R) PROVE V[j + 1] = After(p, V[j])
  <2>1. j \in DOMAIN V /\ j + 1 \in DOMAIN V /\ j < j + 1
        /\ \A k \in j + 1 .. (j + 1) - 1 : V[k] = Flight
    <3>1. (j + 1) - 1 < j + 1
      BY <1>4
    <3>. QED  BY <1>4
  <2>2. V[j] # Flight /\ V[j + 1] # Flight
    <3>1. CASE j = 1
      BY <1>1, <1>4, <3>1
    <3>2. CASE j # 1
      <4>1. j - 1 \in 1 .. Len(R) /\ j - 1 + 1 = j
        BY <1>4, <3>2
      <4>. QED  BY <1>4, <4>1
    <3>. QED  BY <3>1, <3>2
  <2>. QED  BY <2>1, <2>2 DEF Chained, V, x
<1>6. Wrong = {}
  <2>. SUFFICES ASSUME Wrong # {} PROVE FALSE
    OBVIOUS
  <2>1. PICK j \in Wrong : \A m \in Wrong : j <= m
    <3>1. Wrong \in SUBSET Nat
      OBVIOUS
    <3>. HIDE DEF Wrong
    <3>. QED  BY <3>1, Smallest
  <2>2. j \in 1 .. Len(R) /\ j <= n /\ R[j] # <<a, j>> /\ R[j] = After(p, V[j])
    BY <1>4, <1>5
  <2>3. CASE j = 1
    BY <1>2, <1>4, <2>2, <2>3
  <2>4. CASE j # 1
    <3>1. j - 1 \in 1 .. Len(R) /\ j - 1 \in Nat \ {0} /\ j - 1 < n /\ j - 1 + 1 = j
      BY <1>1, <1>4, <2>2, <2>4
    <3>2. R[j - 1] = <<a, j - 1>>
      <4>1. j - 1 \notin Wrong
        BY <2>1, <3>1
      <4>. QED  BY <1>1, <3>1, <4>1
    <3>3. V[j] = <<a, j - 1>>
      BY <1>4, <3>1, <3>2
    <3>. QED  BY <1>3, <2>2, <3>1, <3>3
  <2>. QED  BY <2>3, <2>4
<1>. QED  BY <1>6 DEF n

(* A sequence is what comes before its last element, and that.             *)
LEMMA SplitLast ==
    ASSUME NEW T, NEW s \in Seq(T), s # <<>>
    PROVE  /\ s = SubSeq(s, 1, Len(s) - 1) \o <<s[Len(s)]>>
           /\ SubSeq(s, 1, Len(s) - 1) \in Seq(T) /\ s[Len(s)] \in T
<1>1. Len(s) \in Nat \ {0} /\ s[Len(s)] \in T
  BY EmptySeq, ElementOfSeq
<1>2. SubSeq(s, 1, Len(s) - 1) \in Seq(T)
  BY <1>1
<1>3. SubSeq(s, 1, Len(s)) = SubSeq(s, 1, Len(s) - 1) \o <<s[Len(s)]>>
  BY <1>1, SubSeqRecursiveSecond
<1>. QED  BY <1>1, <1>2, <1>3, SubSeqFull

(* A message that was read whole is the next one that was given.           *)
LEMMA ChainedTake ==
    ASSUME NEW p \in Peer, NEW a \in 1 .. Len(Script[p]),
           NEW R \in Seq(Pair), NEW B \in Seq(Pair),
           \A j \in 1 .. Len(R) : R[j] # Flight,
           Len(R) = Length(Script[p][a]),
           Chained(p, (<< <<a, 0>> >> \o R) \o B)
    PROVE  R = Bytes(p, a) /\ Chained(p, << <<a + 1, 0>> >> \o B)
<1>. DEFINE x == <<a, 0>>
            y == <<a + 1, 0>>
            n == Len(R)
            z == R[n]
            R0 == SubSeq(R, 1, n - 1)
<1>1. n \in Nat \ {0} /\ a \in Nat \ {0} /\ x \in Pair /\ y \in Pair
  <2>1. n \in Nat \ {0} /\ a \in Nat \ {0}
    BY Constants
  <2>. QED  BY <2>1 DEF Pair
<1>2. <<x>> \in Seq(Pair) /\ <<x>> \o R \in Seq(Pair)
  BY <1>1
<1>3. Chained(p, <<x>> \o R)
  BY <1>2, ChainedParts
<1>4. \A j \in 1 .. n : R[j] = <<a, j>>
  <2>1. \A j \in 1 .. Len(R) : j <= Length(Script[p][a]) => R[j] = <<a, j>>
    BY <1>3, ChainedRead
  <2>2. \A j \in 1 .. n : j <= Length(Script[p][a])
    BY <1>1
  <2>. QED  BY <2>1, <2>2
<1>5. R = Bytes(p, a)
  <2>1. Bytes(p, a) \in Seq(Pair) /\ Len(Bytes(p, a)) = n
        /\ \A j \in 1 .. n : Bytes(p, a)[j] = <<a, j>>
    BY ChainedBytes DEF Bytes
  <2>. QED  BY <1>4, <2>1, SeqEqual
<1>6. z \in Pair /\ z # Flight /\ After(p, z) = After(p, y)
  <2>1. z = <<a, n>> /\ z # Flight
    BY <1>1, <1>4 DEF Flight
  <2>2. After(p, <<a, n>>) = <<a + 1, 1>>
    BY <1>1 DEF After
  <2>3. After(p, y) = <<a + 1, 1>>
    BY <1>1 DEF After
  <2>. QED  BY <1>1, <2>1, <2>2, <2>3 DEF Pair
<1>7. Chained(p, <<z>> \o B)
  <2>1. R = R0 \o <<z>> /\ R0 \in Seq(Pair) /\ <<z>> \in Seq(Pair)
    <3>1. R # <<>>
      BY <1>1
    <3>2. R = R0 \o <<z>> /\ R0 \in Seq(Pair)
      BY <3>1, SplitLast
    <3>3. <<z>> \in Seq(Pair)
      BY <1>6
    <3>. QED  BY <3>2, <3>3
  <2>. HIDE DEF R0, z, x
  <2>2. <<x>> \o R = (<<x>> \o R0) \o <<z>> /\ <<x>> \o R0 \in Seq(Pair)
    BY <1>2, <2>1, ConcatAssociative, ConcatProperties
  <2>3. (<<x>> \o R) \o B = (<<x>> \o R0) \o (<<z>> \o B) /\ <<z>> \o B \in Seq(Pair)
    BY SMTT(30), <2>1, <2>2, ConcatAssociative, ConcatProperties
  <2>. QED  BY <2>2, <2>3, ChainedParts DEF x
<1>. HIDE DEF z, x, y
<1>8. Chained(p, <<y>> \o B)
  BY <1>1, <1>6, <1>7, ChainedHead
<1>. QED  BY <1>5, <1>8 DEF y

-----------------------------------------------------------------------------
(* The pieces of a direction.                                              *)

LEMMA SentPairs ==
    ASSUME NEW p \in Peer, Counted(p)
    PROVE  /\ Sent(p) \subseteq Pair /\ Flight \notin Sent(p) /\ Flight \in Pair
           /\ Len(given[p]) \in 0 .. Len(Script[p]) /\ Len(arrived[p]) \in 0 .. Len(given[p])
<1>1. Len(given[p]) \in Nat /\ Len(arrived[p]) \in Nat /\ Len(given[p]) <= Len(Script[p])
      /\ Len(arrived[p]) <= Len(given[p]) /\ Len(Script[p]) \in Nat
  BY Constants DEF Counted, OfScript
<1>2. Flight \in Pair /\ Flight[1] = 0
  BY DEF Flight, Pair
<1>. QED  BY <1>1, <1>2 DEF Sent

LEMMA Pieces ==
    ASSUME NEW p \in Peer, Carried(p), Counted(p), Owing(p)
    PROVE  /\ queue[p] \in Seq(Pair) /\ output[p].bytes \in Seq(Pair)
           /\ wire[p] \in Seq(Pair)
           /\ input[Other(p)].bytes \in Seq(Pair) /\ reading[Other(p)] \in Seq(Pair)
           /\ << <<Len(arrived[p]) + 1, 0>> >> \in Seq(Pair)
           /\ Owed(p) \in Seq(Pair) /\ Stop(p) \in Seq(Pair)
           /\ Ahead(p) \in Seq(Pair) /\ Behind(p) \in Seq(Pair)
<1>1. Sent(p) \subseteq Pair /\ Sent(p) \cup {Flight} \subseteq Pair
  BY SentPairs
<1>. DEFINE T == Sent(p)
<1>2. /\ queue[p] \in Seq(T) /\ output[p].bytes \in Seq(T)
      /\ wire[p] \in Seq(T \cup {Flight})
      /\ input[Other(p)].bytes \in Seq(T) /\ reading[Other(p)] \in Seq(T)
  BY DEF Carried
<1>3. T \subseteq Pair /\ T \cup {Flight} \subseteq Pair
  BY <1>1
<1>. HIDE DEF T
<1>4. /\ queue[p] \in Seq(Pair) /\ output[p].bytes \in Seq(Pair)
      /\ wire[p] \in Seq(Pair)
      /\ input[Other(p)].bytes \in Seq(Pair) /\ reading[Other(p)] \in Seq(Pair)
  BY <1>2, <1>3, SeqMonotonic
<1>5. << <<Len(arrived[p]) + 1, 0>> >> \in Seq(Pair)
  <2>1. <<Len(arrived[p]) + 1, 0>> \in Pair
    BY SentPairs, Constants DEF Pair
  <2>. QED  BY <2>1
<1>6. Stop(p) \in Seq(Pair)
  <2>1. <<Len(given[p]) + 1, 1>> \in Pair
    BY SentPairs, Constants DEF Pair
  <2>. QED  BY <2>1 DEF Stop
<1>7. Owed(p) \in Seq(Pair)
  <2>1. CASE SizeOwed(p)
    <3>. DEFINE g == Len(given[p])
    <3>1. g \in 1 .. Len(Script[p]) /\ Script[p][g].kind = "token"
      <4>1. given[p] # <<>> /\ given[p] \in Seq(Message) /\ Len(given[p]) <= Len(Script[p])
            /\ Script[p][g].kind = "token"
        BY <2>1 DEF SizeOwed, Owing, Counted, OfScript
      <4>2. Len(Script[p]) \in Nat
        BY Constants
      <4>. QED  BY <4>1, <4>2, EmptySeq
    <3>2. /\ Bytes(p, g) \in Seq(Pair) /\ Header \in Nat
          /\ Len(Bytes(p, g)) = 1 + Header + Script[p][g].size /\ Script[p][g].size \in Nat
      BY <3>1, ChainedBytes, Constants
    <3>. HIDE DEF g
    <3>3. SubSeq(Bytes(p, g), 2, 1 + Header) \in Seq(Pair)
      BY <3>2
    <3>. QED  BY <1>4, <2>1, <3>3, ConcatProperties DEF Owed, g
  <2>2. CASE ~SizeOwed(p)
    BY <1>4, <2>2 DEF Owed
  <2>. QED  BY <2>1, <2>2
<1>8. Ahead(p) \in Seq(Pair) /\ Behind(p) \in Seq(Pair)
  BY <1>4, <1>5, <1>6, <1>7, ConcatProperties DEF Ahead, Behind
<1>. QED  BY <1>4, <1>5, <1>6, <1>7, <1>8

LEMMA InOrderNext ==
    ASSUME NEW p \in Peer, NEW V, V = Ahead(p)' \o (wire'[p] \o Behind(p)'),
           phase'[Other(p)] = "closed" \/ Chained(p, V)
    PROVE  InOrder(p)'
  BY DEF InOrder, Chained

(* A direction in which nothing moved.                                     *)
LEMMA SameDirection ==
    ASSUME NEW p \in Peer, Sound(p),
           arrived'[p] = arrived[p], given'[p] = given[p], queue'[p] = queue[p],
           output'[p].bytes = output[p].bytes, wire'[p] = wire[p],
           input'[Other(p)].bytes = input[Other(p)].bytes,
           reading'[Other(p)] = reading[Other(p)],
           phase'[p] = "closed" <=> phase[p] = "closed",
           phase[Other(p)] = "closed" => phase'[Other(p)] = "closed"
    PROVE  Sound(p)'
<1>1. Sent(p)' = Sent(p)
  BY DEF Sent
<1>2. Carried(p)'
  BY <1>1 DEF Carried, Sound
<1>3. Counted(p)'
  BY DEF Counted, OfScript, Sound
<1>4. Owing(p)'
  BY DEF Owing, Sound
<1>5. Ahead(p)' = Ahead(p) /\ Behind(p)' = Behind(p)
  <2>1. SizeOwed(p)' <=> SizeOwed(p)
    BY DEF SizeOwed
  <2>2. Owed(p)' = Owed(p)
    BY <2>1 DEF Owed
  <2>3. Stop(p)' = Stop(p)
    BY DEF Stop
  <2>. QED  BY <2>2, <2>3 DEF Ahead, Behind
<1>6. InOrder(p)'
  BY <1>5 DEF InOrder, Sound, Chained
<1>. QED  BY <1>2, <1>3, <1>4, <1>6 DEF Sound

(* A buffer keeps its bytes when they move, and has room for what it gets. *)
LEMMA ShiftFits ==
    ASSUME NEW b, Fits(b)
    PROVE  Fits(Shift(b)) /\ Shift(b).bytes = b.bytes
<1>. DEFINE from == Aligned(b.at)
            n == Len(b.bytes)
            size == Aligned(b.at + n - from + Unit - 1)
<1>1. /\ b \in [at : Nat, bytes : Seq(Pair)] /\ b.at \in Nat /\ b.bytes \in Seq(Pair)
      /\ n \in Nat /\ b.at + n <= Size /\ Unit \in Nat \ {0} /\ Size \in Nat
  BY Constants DEF Fits
<1>2. \A k \in Int : Aligned(k) \in Int /\ Aligned(k) <= k /\ k - Unit < Aligned(k)
  <2>1. ASSUME NEW k \in Int PROVE k % Unit \in 0 .. Unit - 1
    BY <1>1
  <2>2. ASSUME NEW k \in Int
        PROVE  Aligned(k) \in Int /\ Aligned(k) <= k /\ k - Unit < Aligned(k)
    <3>. DEFINE m == k % Unit
    <3>1. m \in 0 .. Unit - 1 /\ Aligned(k) = k - m
      BY <2>1 DEF Aligned
    <3>. HIDE DEF m
    <3>. QED  BY <1>1, <3>1
  <2>. QED  BY <2>2
<1>3. CASE b.bytes = <<>>
  <2>1. Shift(b) = Empty
    BY <1>3 DEF Shift
  <2>2. Empty \in [at : Nat, bytes : Seq(Pair)] /\ Empty.at = 0 /\ Empty.bytes = <<>>
    BY DEF Empty
  <2>. QED  BY <1>1, <1>3, <2>1, <2>2 DEF Fits
<1>4. CASE b.bytes # <<>>
  <2>1. Shift(b) = IF size < from THEN [b EXCEPT !.at = @ - from] ELSE b
    BY <1>4, Zenon DEF Shift
  <2>2. n \in Nat \ {0}
    BY <1>1, <1>4, EmptySeq
  <2>3. from \in Int /\ from <= b.at /\ b.at - Unit < from
    BY SMTT(30), <1>1, <1>2
  <2>4. PICK x \in Int : x = b.at + n - from + Unit - 1
    BY <1>1, <2>3
  <2>5. size \in Int /\ x - Unit < size
    BY <1>2, <2>4
  <2>. HIDE DEF from, size
  <2>6. CASE size < from
    <3>1. from \in Nat /\ b.at - from \in Nat
      BY SMTT(30), <1>1, <2>2, <2>3, <2>4, <2>5, <2>6
    <3>2. /\ Shift(b) \in [at : Nat, bytes : Seq(Pair)]
          /\ Shift(b).at = b.at - from /\ Shift(b).bytes = b.bytes
      BY <1>1, <2>1, <2>6, <3>1
    <3>. QED  BY <1>1, <3>1, <3>2 DEF Fits
  <2>7. CASE ~(size < from)
    BY <2>1, <2>7
  <2>. QED  BY <2>6, <2>7
<1>. QED  BY <1>3, <1>4

LEMMA PutFits ==
    ASSUME NEW b, Fits(b), NEW s \in Seq(Pair), Len(s) <= Room(b)
    PROVE  Fits(Put(b, s)) /\ Put(b, s).bytes = b.bytes \o s
<1>1. /\ b \in [at : Nat, bytes : Seq(Pair)] /\ b.at \in Nat /\ b.bytes \in Seq(Pair)
      /\ Len(b.bytes) \in Nat /\ Len(s) \in Nat /\ Size \in Nat
      /\ b.at + Len(b.bytes) + Len(s) <= Size
  BY Constants DEF Fits, Room
<1>2. b.bytes \o s \in Seq(Pair) /\ Len(b.bytes \o s) = Len(b.bytes) + Len(s)
  BY <1>1, ConcatProperties
<1>. DEFINE t == b.bytes \o s
<1>3. Put(b, s) = [b EXCEPT !.bytes = t]
  BY DEF Put
<1>. HIDE DEF t
<1>4. Put(b, s) \in [at : Nat, bytes : Seq(Pair)] /\ Put(b, s).at = b.at /\ Put(b, s).bytes = t
  BY <1>1, <1>2, <1>3 DEF t
<1>. QED  BY <1>1, <1>2, <1>4 DEF Fits, t

LEMMA DropFits ==
    ASSUME NEW b, Fits(b), NEW n \in 0 .. Len(b.bytes)
    PROVE  /\ Fits(Drop(b, n)) /\ Drop(b, n).bytes = SubSeq(b.bytes, n + 1, Len(b.bytes))
           /\ b.bytes = SubSeq(b.bytes, 1, n) \o SubSeq(b.bytes, n + 1, Len(b.bytes))
<1>. DEFINE t == SubSeq(b.bytes, n + 1, Len(b.bytes))
<1>1. /\ b.at \in Nat /\ b.bytes \in Seq(Pair) /\ Len(b.bytes) \in Nat /\ n \in Nat
      /\ b.at + Len(b.bytes) <= Size /\ Size \in Nat
  BY Constants DEF Fits
<1>2. t \in Seq(Pair) /\ Len(t) = Len(b.bytes) - n
  BY <1>1
<1>3. b.bytes = SubSeq(b.bytes, 1, n) \o t
  <2>1. 1 \in 1 .. Len(b.bytes) + 1 /\ n \in 1 - 1 .. Len(b.bytes)
        /\ Len(b.bytes) \in n .. Len(b.bytes)
    BY <1>1
  <2>. QED  BY <1>1, <2>1, SubSeqFull, ConcatAdjacentSubSeq
<1>. HIDE DEF t
<1>4. Drop(b, n) = [at |-> b.at + n, bytes |-> t]
  BY DEF Drop, t
<1>5. Drop(b, n) \in [at : Nat, bytes : Seq(Pair)] /\ Drop(b, n).at = b.at + n
      /\ Drop(b, n).bytes = t
  BY <1>1, <1>2, <1>4
<1>6. (b.at + n) + (Len(b.bytes) - n) <= Size
  BY <1>1
<1>7. Fits(Drop(b, n))
  BY <1>2, <1>5, <1>6 DEF Fits
<1>. QED  BY <1>3, <1>5, <1>7 DEF t

LEMMA EmptyFits == Fits(Empty) /\ Empty.bytes = <<>>
<1>1. Empty \in [at : Nat, bytes : Seq(Pair)] /\ Empty.at = 0 /\ Empty.bytes = <<>>
  BY DEF Empty
<1>2. Len(Empty.bytes) = 0 /\ Size \in Nat
  BY <1>1, Constants
<1>. QED  BY <1>1, <1>2 DEF Fits

(* The sender is gone, and what had not left it.                           *)
LEMMA ClosedDirection ==
    ASSUME NEW p \in Peer, Sound(p),
           arrived'[p] = arrived[p], given'[p] = given[p], wire'[p] = wire[p],
           queue'[p] = <<>>, output'[p].bytes = <<>>,
           input'[Other(p)].bytes = input[Other(p)].bytes,
           reading'[Other(p)] = reading[Other(p)],
           phase'[p] = "closed",
           phase[Other(p)] = "closed" => phase'[Other(p)] = "closed"
    PROVE  Sound(p)'
<1>1. Sent(p)' = Sent(p)
  BY DEF Sent
<1>2. Carried(p)'
  <2>1. <<>> \in Seq(Sent(p))
    OBVIOUS
  <2>. QED  BY <1>1, <2>1 DEF Carried, Sound
<1>3. Counted(p)' /\ Owing(p)'
  BY DEF Counted, OfScript, Owing, Sound
<1>4. Ahead(p)' = Ahead(p) /\ Behind(p)' = <<>>
  <2>1. Owed(p)' = <<>>
    BY DEF Owed, SizeOwed
  <2>2. Stop(p)' = <<>> /\ <<>> \o <<>> = <<>>
    BY DEF Stop
  <2>3. Behind(p)' = <<>>
    BY <2>1, <2>2 DEF Behind
  <2>. QED  BY <2>3 DEF Ahead
<1>5. InOrder(p)'
  <2>. SUFFICES ASSUME phase[Other(p)] # "closed"
                PROVE  Chained(p, Ahead(p) \o (wire[p] \o <<>>))
    BY <1>4 DEF InOrder, Chained
  <2>1. Ahead(p) \in Seq(Pair) /\ wire[p] \in Seq(Pair) /\ Behind(p) \in Seq(Pair)
    BY Pieces DEF Sound
  <2>2. Ahead(p) \o (wire[p] \o Behind(p)) = (Ahead(p) \o wire[p]) \o Behind(p)
        /\ wire[p] \o <<>> = wire[p] /\ Ahead(p) \o wire[p] \in Seq(Pair)
    <3>1. wire[p] \o <<>> = wire[p]
      BY <2>1, ConcatEmptySeq
    <3>. QED  BY <2>1, <3>1, Joined
  <2>3. Chained(p, (Ahead(p) \o wire[p]) \o Behind(p))
    BY <2>2 DEF Sound, InOrder
  <2>. QED  BY <2>1, <2>2, <2>3, ChainedParts
<1>. QED  BY <1>2, <1>3, <1>5 DEF Sound

(* The receiver is gone.                                                   *)
LEMMA DeafDirection ==
    ASSUME NEW p \in Peer, Sound(p),
           arrived'[p] = arrived[p], given'[p] = given[p], queue'[p] = queue[p],
           output'[p].bytes = output[p].bytes, wire'[p] \in {wire[p], <<>>},
           input'[Other(p)].bytes \in {input[Other(p)].bytes, <<>>},
           reading'[Other(p)] \in {reading[Other(p)], <<>>},
           phase'[Other(p)] = "closed"
    PROVE  Sound(p)'
<1>1. Sent(p)' = Sent(p)
  BY DEF Sent
<1>2. Carried(p)'
  <2>1. <<>> \in Seq(Sent(p)) /\ <<>> \in Seq(Sent(p) \cup {Flight})
    OBVIOUS
  <2>. QED  BY <1>1, <2>1 DEF Carried, Sound
<1>3. Counted(p)' /\ Owing(p)'
  BY DEF Counted, OfScript, Owing, Sound
<1>. QED  BY <1>2, <1>3 DEF Sound, InOrder

LEMMA FlightPassed ==
    ASSUME NEW p, NEW A \in Seq(Pair), NEW w \in Seq(Pair), NEW B \in Seq(Pair), NEW x,
           \/ x = Append(w, Flight)
           \/ w # <<>> /\ Head(w) = Flight /\ x = Tail(w),
           Chained(p, A \o (w \o B))
    PROVE  Chained(p, A \o (x \o B))
<1>. DEFINE f == <<Flight>>
<1>1. f \in Seq(Pair) /\ Flight \in Pair
  <2>1. Flight \in Pair
    BY DEF Flight, Pair
  <2>. QED  BY <2>1
<1>2. \/ x = w \o f
      \/ w = f \o x /\ x \in Seq(Pair)
  <2>1. CASE x = Append(w, Flight)
    BY <1>1, <2>1, AppendIsConcat
  <2>2. CASE w # <<>> /\ Head(w) = Flight /\ x = Tail(w)
    BY <2>2, SplitHead, HeadTailProperties
  <2>. QED  BY <2>1, <2>2
<1>3. \A a, b \in Seq(Pair) : Chained(p, a \o b) <=> Chained(p, a \o (f \o b))
  BY ChainedFlight
<1>. HIDE DEF f
<1>4. CASE x = w \o f
  <2>1. A \o w \in Seq(Pair) /\ A \o (w \o B) = (A \o w) \o B
    BY SMTT(30), Joined
  <2>2. Chained(p, (A \o w) \o (f \o B))
    BY <1>3, <2>1
  <2>3. f \o B \in Seq(Pair)
    BY <1>1, Joined
  <2>5. A \o (w \o (f \o B)) = (A \o w) \o (f \o B)
    <3>1. PICK g \in Seq(Pair) : g = f \o B
      BY <2>3
    <3>2. (A \o w) \o g = A \o (w \o g)
      BY SMTT(30), Regroup
    <3>. QED  BY <3>1, <3>2
  <2>4. w \o (f \o B) = x \o B
    BY <1>1, <1>4, Joined
  <2>. QED  BY <2>2, <2>4, <2>5
<1>5. CASE w = f \o x /\ x \in Seq(Pair)
  <2>. SUFFICES ASSUME x \in Seq(Pair) PROVE Chained(p, A \o (x \o B))
    BY <1>5
  <2>1. f \o (x \o B) = w \o B
    <3>1. (f \o x) \o B = f \o (x \o B)
      BY SMTT(30), <1>1, Regroup
    <3>. QED  BY <1>5, <3>1
  <2>2. x \o B \in Seq(Pair)
    BY Joined
  <2>3. Chained(p, A \o (f \o (x \o B)))
    BY <2>1
  <2>. QED  BY <1>3, <2>2, <2>3
<1>. QED  BY <1>2, <1>4, <1>5

(* A flight goes onto the wire, or is taken from it.                       *)
LEMMA FlightDirection ==
    ASSUME NEW p \in Peer, Sound(p),
           \/ wire'[p] = Append(wire[p], Flight)
           \/ wire[p] # <<>> /\ Head(wire[p]) = Flight /\ wire'[p] = Tail(wire[p]),
           UNCHANGED <<arrived, given, queue, output, input, reading, phase>>
    PROVE  Sound(p)'
<1>1. Sent(p)' = Sent(p)
  BY DEF Sent
<1>. DEFINE T == Sent(p) \cup {Flight}
<1>2. wire[p] \in Seq(T) /\ Flight \in T
  BY DEF Sound, Carried
<1>3. wire'[p] \in Seq(T)
  <2>. HIDE DEF T
  <2>1. \A s \in Seq(T) : Append(s, Flight) \in Seq(T) /\ (s # <<>> => Tail(s) \in Seq(T))
    BY <1>2, AppendProperties, HeadTailProperties
  <2>. QED  BY <1>2, <2>1
<1>4. Carried(p)'
  BY <1>1, <1>3 DEF Carried, Sound
<1>5. Counted(p)' /\ Owing(p)'
  BY DEF Counted, OfScript, Owing, Sound
<1>6. Ahead(p)' = Ahead(p) /\ Behind(p)' = Behind(p)
  <2>1. SizeOwed(p)' <=> SizeOwed(p)
    BY DEF SizeOwed
  <2>2. Owed(p)' = Owed(p) /\ Stop(p)' = Stop(p)
    BY <2>1 DEF Owed, Stop
  <2>. QED  BY <2>2 DEF Ahead, Behind
<1>7. Ahead(p) \in Seq(Pair) /\ Behind(p) \in Seq(Pair) /\ wire[p] \in Seq(Pair)
  BY Pieces DEF Sound
<1>9. InOrder(p)'
  <2>. SUFFICES ASSUME phase[Other(p)] # "closed"
                PROVE  Chained(p, Ahead(p) \o (wire'[p] \o Behind(p)))
    BY <1>6 DEF InOrder, Chained
  <2>1. Chained(p, Ahead(p) \o (wire[p] \o Behind(p)))
    BY DEF Sound, InOrder
  <2>. QED  BY <1>7, <2>1, FlightPassed
<1>. QED  BY <1>4, <1>5, <1>9 DEF Sound

-----------------------------------------------------------------------------
(* The steps.                                                              *)

(* Nothing moves from one place to another.                                *)
LEMMA Quiet ==
    ASSUME ChannelInv, ChannelType', UNCHANGED <<queue, wire, reading, given, arrived>>,
           \A p \in Peer : /\ Fits(output'[p]) /\ output'[p].bytes = output[p].bytes
                           /\ Fits(input'[p]) /\ input'[p].bytes = input[p].bytes
                           /\ phase'[p] = "closed" <=> phase[p] = "closed"
                           /\ phase[p] = "ready" => phase'[p] = "ready"
    PROVE  ChannelInv'
<1>. SUFFICES ASSUME NEW p \in Peer
              PROVE  (Fits(output[p]) /\ Fits(input[p]) /\ Begun(p) /\ Sound(p))'
  BY DEF ChannelInv
<1>1. Begun(p) /\ Sound(p) /\ Other(p) \in Peer
  BY Others DEF ChannelInv
<1>2. Fits(output[p])' /\ Fits(input[p])'
  BY DEF Fits
<1>3. Begun(p)'
  BY <1>1 DEF Begun
<1>4. Sound(p)'
  BY <1>1, SameDirection
<1>. QED  BY <1>2, <1>3, <1>4

LEMMA QuietStep ==
    ASSUME ChannelInv, NEW p \in Peer,
           \/ Create(TRUE) \/ Connect(TRUE) \/ Accept
           \/ Start(p) \/ Renegotiate(p) \/ WriteBlocks(p) \/ ReadBlocks(p)
    PROVE  ChannelInv'
<1>1. /\ ChannelType
      /\ \A q \in Peer : Fits(output[q]) /\ Fits(input[q])
  BY DEF ChannelInv
<1>2. \A q \in Peer : Fits(Shift(input[q])) /\ Shift(input[q]).bytes = input[q].bytes
  BY <1>1, ShiftFits
<1>3. CASE Create(TRUE) \/ Connect(TRUE) \/ Accept
  <2>1. /\ UNCHANGED <<queue, output, input, wire, reading, given, arrived>>
        /\ \/ phase["client"] \in {"none", "new"}
              /\ phase' = [phase EXCEPT !["client"] = IF Create(TRUE) THEN "new" ELSE "started"]
           \/ phase["server"] = "none" /\ phase' = [phase EXCEPT !["server"] = "started"]
    BY <1>3 DEF Create, Connect, Accept
  <2>2. ChannelType'
    BY <1>1, <2>1 DEF ChannelType
  <2>3. \A q \in Peer : /\ phase'[q] = "closed" <=> phase[q] = "closed"
                        /\ phase[q] = "ready" => phase'[q] = "ready"
    BY <1>1, <2>1 DEF ChannelType
  <2>. QED  BY <1>1, <2>1, <2>2, <2>3, Quiet
<1>4. CASE Start(p)
  <2>1. /\ phase[p] = "started" /\ phase' = [phase EXCEPT ![p] = "ready"]
        /\ output' = [output EXCEPT ![p] = Empty] /\ input' = [input EXCEPT ![p] = Empty]
        /\ UNCHANGED <<queue, wire, reading, given, arrived>>
    BY <1>4 DEF Start
  <2>2. ChannelType'
    BY <1>1, <2>1 DEF ChannelType
  <2>3. output[p].bytes = <<>> /\ input[p].bytes = <<>>
    BY <2>1 DEF ChannelInv, Begun
  <2>4. \A q \in Peer : /\ Fits(output'[q]) /\ output'[q].bytes = output[q].bytes
                        /\ Fits(input'[q]) /\ input'[q].bytes = input[q].bytes
    BY <1>1, <2>1, <2>3, EmptyFits DEF ChannelType
  <2>5. \A q \in Peer : /\ phase'[q] = "closed" <=> phase[q] = "closed"
                        /\ phase[q] = "ready" => phase'[q] = "ready"
    BY <1>1, <2>1 DEF ChannelType
  <2>. QED  BY <2>1, <2>2, <2>4, <2>5, Quiet
<1>5. CASE Renegotiate(p) \/ WriteBlocks(p) \/ ReadBlocks(p)
  <2>1. /\ UNCHANGED <<phase, queue, output, wire, reading, given, arrived>>
        /\ input' = input \/ input' = [input EXCEPT ![p] = Shift(@)]
    BY <1>5 DEF Renegotiate, WriteBlocks, ReadBlocks
  <2>2. ChannelType'
    BY <1>1, <2>1 DEF ChannelType
  <2>3. \A q \in Peer : Fits(input'[q]) /\ input'[q].bytes = input[q].bytes
    BY <1>1, <1>2, <2>1 DEF ChannelType
  <2>. QED  BY <1>1, <2>1, <2>2, <2>3, Quiet
<1>. QED  BY <1>3, <1>4, <1>5

(* One end is gone.                                                        *)
LEMMA Closing ==
    ASSUME ChannelInv, NEW p \in Peer,
           ChannelType', UNCHANGED <<given, arrived>>,
           phase'[p] = "closed", queue'[p] = <<>>, output'[p].bytes = <<>>,
           output'[p] \in {output[p], Empty}, input'[p] \in {input[p], Empty},
           reading'[p] \in {reading[p], <<>>}, wire'[p] = wire[p],
           wire'[Other(p)] \in {wire[Other(p)], <<>>},
           \A q \in Peer \ {p} :
             /\ phase'[q] = phase[q] /\ queue'[q] = queue[q] /\ output'[q] = output[q]
             /\ input'[q] = input[q] /\ reading'[q] = reading[q]
    PROVE  ChannelInv'
<1>1. /\ ChannelType /\ Other(p) \in Peer /\ Other(p) # p /\ Other(Other(p)) = p
      /\ \A q \in Peer : /\ Fits(output[q]) /\ Fits(input[q]) /\ Begun(q) /\ Sound(q)
                         /\ q = p \/ q = Other(p)
  BY Others DEF ChannelInv
<1>. DEFINE q == Other(p)
<1>2. q \in Peer /\ q # p /\ Other(q) = p
  BY <1>1
<1>3. /\ phase'[q] = phase[q] /\ queue'[q] = queue[q] /\ output'[q] = output[q]
      /\ input'[q] = input[q] /\ reading'[q] = reading[q]
      /\ wire'[q] \in {wire[q], <<>>}
  BY <1>1
<1>4. Sound(p)'
  <2>. HIDE DEF q
  <2>. QED  BY <1>1, <1>3, ClosedDirection DEF q
<1>5. Sound(q)'
  <2>1. input'[p].bytes \in {input[p].bytes, <<>>}
    BY <1>3, EmptyFits
  <2>. HIDE DEF q
  <2>2. Sound(q)
    BY <1>1, <1>2
  <2>. QED  BY <1>2, <1>3, <2>1, <2>2, DeafDirection
<1>6. \A r \in Peer : Fits(output[r])' /\ Fits(input[r])'
  <2>1. Fits(output'[p]) /\ Fits(output'[q]) /\ Fits(input'[p]) /\ Fits(input'[q])
    BY <1>1, <1>3, EmptyFits
  <2>. QED  BY <1>1, <2>1 DEF Fits
<1>7. Begun(p)' /\ Begun(q)'
  <2>. HIDE DEF q
  <2>1. Begun(q)
    BY <1>1, <1>2
  <2>. QED  BY <1>3, <2>1 DEF Begun
<1>. QED  BY <1>1, <1>4, <1>5, <1>6, <1>7 DEF ChannelInv

LEMMA ClosingStep ==
    ASSUME ChannelInv, NEW p \in Peer,
           Create(FALSE) \/ Connect(FALSE) \/ Fail(p) \/ HangUp(p) \/ WriteFails(p)
    PROVE  ChannelInv'
<1>1. ChannelType /\ Other(p) \in Peer /\ "client" \in Peer
  BY Others DEF ChannelInv, Peer
<1>2. CASE Create(FALSE) \/ Connect(FALSE)
  <2>. DEFINE c == "client"
  <2>1. /\ phase[c] \in {"none", "new"} /\ phase' = [phase EXCEPT ![c] = "closed"]
        /\ UNCHANGED <<queue, output, input, wire, reading, given, arrived>>
    BY <1>2 DEF Create, Connect
  <2>2. c \in Peer /\ queue[c] = <<>> /\ output[c].bytes = <<>>
    BY <1>1, <2>1 DEF ChannelInv, Begun
  <2>3. ChannelType'
    BY <1>1, <2>1 DEF ChannelType
  <2>4. phase'[c] = "closed" /\ \A q \in Peer \ {c} : phase'[q] = phase[q]
    BY <1>1, <2>1, <2>2 DEF ChannelType
  <2>. HIDE DEF c
  <2>. QED  BY <2>1, <2>2, <2>3, <2>4, Closing
<1>3. CASE Fail(p) \/ HangUp(p) \/ WriteFails(p)
  <2>1. Delete(p)
    BY <1>3 DEF Fail, HangUp, WriteFails
  <2>2. ChannelType'
    BY <1>1, <2>1 DEF ChannelType, Delete
  <2>3. UNCHANGED <<given, arrived>>
    BY <2>1 DEF Delete
  <2>4. /\ phase'[p] = "closed" /\ queue'[p] = <<>> /\ output'[p] = Empty
        /\ input'[p] = Empty /\ reading'[p] = <<>>
        /\ wire'[p] = wire[p] /\ wire'[Other(p)] = <<>>
    BY <1>1, <2>1, Others DEF ChannelType, Delete
  <2>5. \A q \in Peer \ {p} :
          /\ phase'[q] = phase[q] /\ queue'[q] = queue[q] /\ output'[q] = output[q]
          /\ input'[q] = input[q] /\ reading'[q] = reading[q]
    BY <1>1, <2>1 DEF ChannelType, Delete
  <2>. QED  BY <2>2, <2>3, <2>4, <2>5, EmptyFits, Closing
<1>. QED  BY <1>2, <1>3

LEMMA FlightStep ==
    ASSUME ChannelInv, NEW p \in Peer, NEW call,
           SendFlight(p, call) \/ ReceiveFlight(p, call)
    PROVE  ChannelInv'
<1>1. /\ ChannelType /\ Other(p) \in Peer /\ Other(Other(p)) = p
      /\ \A q \in Peer : Fits(output[q]) /\ Fits(input[q]) /\ Begun(q) /\ Sound(q)
  BY Others DEF ChannelInv
<1>2. UNCHANGED <<phase, queue, output, input, reading, given, arrived>>
  BY DEF SendFlight, ReceiveFlight
<1>3. PICK d \in Peer :
        /\ \/ wire'[d] = Append(wire[d], Flight)
           \/ wire[d] # <<>> /\ Head(wire[d]) = Flight /\ wire'[d] = Tail(wire[d])
        /\ \A q \in Peer : q # d => wire'[q] = wire[q]
        /\ DOMAIN wire' = Peer
  <2>1. CASE SendFlight(p, call)
    <3>1. wire' = [wire EXCEPT ![p] = Append(@, Flight)]
      BY <2>1 DEF SendFlight
    <3>. QED  BY <1>1, <3>1 DEF ChannelType
  <2>2. CASE ReceiveFlight(p, call)
    <3>1. /\ wire' = [wire EXCEPT ![Other(p)] = Tail(@)]
          /\ wire[Other(p)] # <<>> /\ Head(wire[Other(p)]) = Flight
      BY <2>2 DEF ReceiveFlight, FlightAtHead
    <3>. QED  BY <1>1, <3>1 DEF ChannelType
  <2>. QED  BY <2>1, <2>2
<1>4. ASSUME NEW q \in Peer PROVE Sound(q)'
  <2>1. CASE q = d
    BY <1>1, <1>2, <1>3, <2>1, FlightDirection
  <2>2. CASE q # d
    <3>1. wire'[q] = wire[q] /\ Sound(q)
      BY <1>1, <1>3, <2>2
    <3>. QED  BY <1>2, <3>1, SameDirection
  <2>. QED  BY <2>1, <2>2
<1>5. ChannelType'
  BY <1>1, <1>2, <1>3 DEF ChannelType
<1>6. ASSUME NEW q \in Peer PROVE Begun(q)' /\ Fits(output[q])' /\ Fits(input[q])'
  <2>1. Begun(q) /\ Fits(output[q]) /\ Fits(input[q])
    BY <1>1
  <2>. QED  BY <1>2, <2>1 DEF Begun, Fits
<1>. QED  BY <1>4, <1>5, <1>6 DEF ChannelInv

(* The bytes read leave the wire for the input.                            *)
LEMMA ReadDirection ==
    ASSUME NEW p \in Peer, Sound(p), NEW n \in 0 .. Len(wire[p]),
           \A k \in 1 .. n : wire[p][k] # Flight,
           wire'[p] = SubSeq(wire[p], n + 1, Len(wire[p])),
           input'[Other(p)].bytes = input[Other(p)].bytes \o SubSeq(wire[p], 1, n),
           UNCHANGED <<arrived, given, queue, output, reading, phase>>
    PROVE  Sound(p)'
<1>. DEFINE T == Sent(p)
            X == SubSeq(wire[p], 1, n)
            Y == SubSeq(wire[p], n + 1, Len(wire[p]))
<1>1. T' = T
  BY DEF Sent
<1>2. wire[p] \in Seq(T \cup {Flight}) /\ input[Other(p)].bytes \in Seq(T)
      /\ T \subseteq Pair /\ reading[Other(p)] \in Seq(T)
  BY SentPairs DEF Sound, Carried
<1>. HIDE DEF T
<1>3. X \in Seq(T) /\ Y \in Seq(T \cup {Flight}) /\ wire[p] = X \o Y
  <2>1. PICK w \in Seq(T \cup {Flight}) : w = wire[p]
    BY <1>2
  <2>2. Len(w) \in Nat /\ n \in Nat /\ n <= Len(w)
    BY <2>1
  <2>3. SubSeq(w, n + 1, Len(w)) \in Seq(T \cup {Flight})
    BY <2>2
  <2>4. SubSeq(w, 1, n) \in Seq(T)
    <3>1. \A k \in 1 .. n : w[k] \in T
      BY <2>1, <2>2
    <3>2. SubSeq(w, 1, n) = [k \in 1 .. n |-> w[k]]
      BY <2>2
    <3>. QED  BY <2>2, <3>1, <3>2
  <2>5. w = SubSeq(w, 1, n) \o SubSeq(w, n + 1, Len(w))
    <3>1. n \in 0 .. Len(w)
      BY <2>2
    <3>. QED  BY <3>1, SplitAt
  <2>. QED  BY <2>1, <2>3, <2>4, <2>5
<1>. HIDE DEF X, Y
<1>4. wire'[p] = Y /\ input'[Other(p)].bytes = input[Other(p)].bytes \o X
  BY DEF X, Y
<1>5. Carried(p)'
  <2>1. input'[Other(p)].bytes \in Seq(T)
    BY <1>2, <1>3, <1>4, ConcatProperties
  <2>. QED  BY <1>1, <1>3, <1>4, <2>1 DEF Carried, Sound, T
<1>6. Counted(p)' /\ Owing(p)'
  BY DEF Counted, OfScript, Owing, Sound
<1>7. X \in Seq(Pair) /\ Y \in Seq(Pair)
  <2>1. T \cup {Flight} \subseteq Pair
    BY <1>2 DEF Flight, Pair
  <2>. QED  BY <1>2, <1>3, <2>1, SeqMonotonic
<1>8. Behind(p)' = Behind(p)
  <2>1. SizeOwed(p)' <=> SizeOwed(p)
    BY DEF SizeOwed
  <2>2. Owed(p)' = Owed(p) /\ Stop(p)' = Stop(p)
    BY <2>1 DEF Owed, Stop
  <2>. QED  BY <2>2 DEF Behind
<1>9. /\ Ahead(p) \in Seq(Pair) /\ Behind(p) \in Seq(Pair)
      /\ input[Other(p)].bytes \in Seq(Pair) /\ reading[Other(p)] \in Seq(Pair)
      /\ << <<Len(arrived[p]) + 1, 0>> >> \in Seq(Pair)
  BY Pieces DEF Sound
<1>10. Ahead(p)' = Ahead(p) \o X
  <2>. DEFINE h == << <<Len(arrived[p]) + 1, 0>> >>
              r == reading[Other(p)]
              b == input[Other(p)].bytes
  <2>1. h \in Seq(Pair) /\ r \in Seq(Pair) /\ b \in Seq(Pair)
    BY <1>9
  <2>2. Ahead(p) = h \o (r \o b) /\ Ahead(p)' = h \o (r \o (b \o X))
    BY <1>4 DEF Ahead
  <2>. HIDE DEF h, r, b
  <2>3. Cat(Cat(h, Cat(r, b)), X) = Cat(h, Cat(r, Cat(b, X)))
    BY <1>7, <2>1, Catted
  <2>. QED  BY <2>2, <2>3 DEF Cat
<1>11. InOrder(p)'
  <2>. SUFFICES ASSUME phase[Other(p)] # "closed"
                PROVE  Chained(p, (Ahead(p) \o X) \o (Y \o Behind(p)))
    BY ZenonT(60), <1>4, <1>8, <1>10 DEF InOrder, Chained
  <2>1. Chained(p, Ahead(p) \o (wire[p] \o Behind(p)))
    BY DEF Sound, InOrder
  <2>. QED  BY <1>3, <1>7, <1>9, <2>1, Moved
<1>. QED  BY <1>5, <1>6, <1>11 DEF Sound

LEMMA ReadStep ==
    ASSUME ChannelInv, NEW p \in Peer, NEW n \in 1 .. Wire, Read(p, n)
    PROVE  ChannelInv'
<1>. DEFINE d == Other(p)
<1>1. /\ ChannelType /\ d \in Peer /\ d # p /\ Other(d) = p
      /\ \A q \in Peer : /\ Fits(output[q]) /\ Fits(input[q]) /\ Begun(q) /\ Sound(q)
                         /\ q = p \/ q = d
  BY Others DEF ChannelInv
<1>. DEFINE b == Shift(input[p])
            X == SubSeq(wire[d], 1, n)
<1>2. /\ n <= Room(b) /\ n <= Len(wire[d]) /\ \A k \in 1 .. n : wire[d][k] # Flight
      /\ input' = [input EXCEPT ![p] = Put(Shift(@), X)]
      /\ wire' = [wire EXCEPT ![d] = SubSeq(@, n + 1, Len(@))]
      /\ UNCHANGED <<phase, queue, output, reading, given, arrived>>
      /\ phase[p] = "ready"
  BY DEF Read, CanRead
<1>3. Fits(b) /\ b.bytes = input[p].bytes
  BY <1>1, ShiftFits
<1>4. wire[d] \in Seq(Pair)
  BY <1>1, Pieces DEF Sound
<1>5. n \in 0 .. Len(wire[d]) /\ X \in Seq(Pair) /\ Len(X) <= Room(b)
  <2>. DEFINE w == wire[d]
  <2>1. w \in Seq(Pair) /\ n \in Nat \ {0} /\ n <= Len(w)
    BY <1>2, <1>4
  <2>2. X = SubSeq(w, 1, n)
    OBVIOUS
  <2>. HIDE DEF w, X
  <2>3. X \in Seq(Pair) /\ Len(X) = n /\ n \in 0 .. Len(w)
    BY <2>1, <2>2
  <2>. QED  BY <1>2, <2>3 DEF w
<1>. HIDE DEF b, X, d
<1>6. Fits(Put(b, X)) /\ Put(b, X).bytes = input[p].bytes \o X
  BY <1>3, <1>5, PutFits
<1>7. /\ input'[p] = Put(b, X) /\ input'[d] = input[d]
      /\ wire'[d] = SubSeq(wire[d], n + 1, Len(wire[d])) /\ wire'[p] = wire[p]
  BY <1>1, <1>2 DEF ChannelType, b
<1>8. Sound(d)'
  <2>1. input'[Other(d)].bytes = input[Other(d)].bytes \o SubSeq(wire[d], 1, n)
    BY <1>1, <1>6, <1>7 DEF X
  <2>. QED  BY <1>1, <1>2, <1>5, <1>7, <2>1, ReadDirection
<1>9. Sound(p)'
  <2>1. input'[Other(p)] = input[Other(p)]
    BY <1>7 DEF d
  <2>. QED  BY <1>1, <1>2, <1>7, <2>1, SameDirection
<1>10. \A q \in Peer : Fits(output[q])' /\ Fits(input[q])'
  <2>1. Fits(output'[p]) /\ Fits(output'[d]) /\ Fits(input'[p]) /\ Fits(input'[d])
    BY <1>1, <1>2, <1>6, <1>7
  <2>. QED  BY <1>1, <2>1 DEF Fits
<1>11. Begun(p)' /\ Begun(d)'
  <2>1. Begun(d)
    BY <1>1
  <2>. QED  BY <1>2, <1>7, <2>1 DEF Begun
<1>12. ChannelType'
  BY <1>1, <1>2 DEF ChannelType
<1>. QED  BY <1>1, <1>8, <1>9, <1>10, <1>11, <1>12 DEF ChannelInv

(* The bytes written leave the output for the wire.                        *)
LEMMA WriteDirection ==
    ASSUME NEW p \in Peer, Sound(p), NEW X, NEW Y, output[p].bytes = X \o Y,
           X \in Seq(Sent(p)), Y \in Seq(Sent(p)),
           output'[p].bytes = Y, wire'[p] = wire[p] \o X,
           UNCHANGED <<arrived, given, queue, input, reading, phase>>
    PROVE  Sound(p)'
<1>. DEFINE T == Sent(p)
<1>1. T' = T
  BY DEF Sent
<1>2. T \subseteq Pair /\ T \cup {Flight} \subseteq Pair
  BY SentPairs DEF Sound
<1>3. wire[p] \in Seq(T \cup {Flight}) /\ X \in Seq(T) /\ Y \in Seq(T)
  BY DEF Sound, Carried
<1>. HIDE DEF T
<1>4. wire'[p] \in Seq(T \cup {Flight})
  <2>1. T \subseteq T \cup {Flight}
    OBVIOUS
  <2>2. X \in Seq(T \cup {Flight})
    BY <1>3, <2>1, SeqMonotonic
  <2>. QED  BY <1>3, <2>2, ConcatProperties
<1>5. Carried(p)'
  BY <1>1, <1>3, <1>4 DEF Carried, Sound, T
<1>6. Counted(p)' /\ Owing(p)'
  BY DEF Counted, OfScript, Owing, Sound
<1>. DEFINE R == Owed(p) \o Stop(p)
            w == wire[p]
<1>7. X \in Seq(Pair) /\ Y \in Seq(Pair) /\ w \in Seq(Pair) /\ R \in Seq(Pair)
  <2>1. X \in Seq(Pair) /\ Y \in Seq(Pair)
    BY <1>2, <1>3, SeqMonotonic
  <2>2. w \in Seq(Pair) /\ Owed(p) \in Seq(Pair) /\ Stop(p) \in Seq(Pair)
    BY Pieces DEF Sound
  <2>3. R \in Seq(Pair)
    BY <2>2, ConcatProperties
  <2>. QED  BY <2>1, <2>2, <2>3
<1>8. Ahead(p)' = Ahead(p) /\ Behind(p) = (X \o Y) \o R /\ Behind(p)' = Y \o R
  <2>1. SizeOwed(p)' <=> SizeOwed(p)
    BY DEF SizeOwed
  <2>2. Owed(p)' = Owed(p) /\ Stop(p)' = Stop(p)
    BY <2>1 DEF Owed, Stop
  <2>. QED  BY <2>2 DEF Ahead, Behind
<1>9. wire'[p] = w \o X
  OBVIOUS
<1>. HIDE DEF R, w
<1>10. (w \o X) \o (Y \o R) = w \o ((X \o Y) \o R)
  <2>1. Cat(Cat(w, X), Cat(Y, R)) = Cat(w, Cat(Cat(X, Y), R))
    BY <1>7, Catted
  <2>. QED  BY <2>1 DEF Cat
<1>11. InOrder(p)'
  <2>. SUFFICES ASSUME phase[Other(p)] # "closed"
                PROVE  Chained(p, Ahead(p) \o ((w \o X) \o (Y \o R)))
    BY ZenonT(60), <1>8, <1>9 DEF InOrder, Chained
  <2>1. Chained(p, Ahead(p) \o (w \o ((X \o Y) \o R)))
    BY <1>8 DEF Sound, InOrder, w
  <2>. QED  BY <1>10, <2>1
<1>. QED  BY <1>5, <1>6, <1>11 DEF Sound

LEMMA WriteStep ==
    ASSUME ChannelInv, NEW p \in Peer, NEW n \in 1 .. Wire, Write(p, n)
    PROVE  ChannelInv'
<1>. DEFINE d == Other(p)
            o == output[p].bytes
            b == Drop(output[p], n)
            X == SubSeq(o, 1, n)
            Y == SubSeq(o, n + 1, Len(o))
<1>1. /\ ChannelType /\ d \in Peer /\ d # p /\ Other(d) = p
      /\ \A q \in Peer : /\ Fits(output[q]) /\ Fits(input[q]) /\ Begun(q) /\ Sound(q)
                         /\ q = p \/ q = d
  BY Others DEF ChannelInv
<1>2. /\ n <= Len(o)
      /\ output' = [output EXCEPT ![p] = Shift(Drop(@, n))]
      /\ wire' = [wire EXCEPT ![p] = @ \o X]
      /\ UNCHANGED <<phase, queue, input, reading, given, arrived>>
      /\ phase[p] = "ready"
  BY DEF Write, CanWrite
<1>3. o \in Seq(Sent(p)) /\ n \in 0 .. Len(o)
  <2>1. o \in Seq(Sent(p))
    BY <1>1 DEF Sound, Carried
  <2>2. Len(o) \in Nat
    BY <2>1
  <2>3. n \in Nat
    BY ChannelAssumption
  <2>. QED  BY <1>2, <2>1, <2>2, <2>3
<1>4. Fits(b) /\ b.bytes = Y /\ o = X \o Y
  BY <1>1, <1>3, DropFits
<1>5. X \in Seq(Sent(p)) /\ Y \in Seq(Sent(p))
  <2>. DEFINE T == Sent(p)
  <2>1. o \in Seq(T) /\ n \in 0 .. Len(o)
    BY <1>3
  <2>. HIDE DEF o, T
  <2>2. X \in Seq(T) /\ Y \in Seq(T)
    BY <2>1
  <2>. QED  BY <2>2 DEF T
<1>. HIDE DEF X, Y, b
<1>6. Fits(Shift(b)) /\ Shift(b).bytes = Y
  BY <1>4, ShiftFits
<1>7. /\ output'[p] = Shift(b) /\ output'[d] = output[d]
      /\ wire'[p] = wire[p] \o X /\ wire'[d] = wire[d]
  BY <1>1, <1>2 DEF ChannelType, b
<1>. HIDE DEF d
<1>8. Sound(p)'
  BY <1>1, <1>2, <1>4, <1>5, <1>6, <1>7, WriteDirection
<1>9. Sound(d)'
  BY <1>1, <1>2, <1>7, SameDirection
<1>10. \A q \in Peer : Fits(output[q])' /\ Fits(input[q])'
  <2>1. Fits(output'[p]) /\ Fits(output'[d]) /\ Fits(input'[p]) /\ Fits(input'[d])
    BY <1>1, <1>2, <1>6, <1>7
  <2>. QED  BY <1>1, <2>1 DEF Fits
<1>11. Begun(p)' /\ Begun(d)'
  <2>1. Begun(d)
    BY <1>1
  <2>. QED  BY <1>2, <1>7, <2>1 DEF Begun
<1>12. ChannelType'
  BY <1>1, <1>2 DEF ChannelType
<1>. QED  BY <1>1, <1>8, <1>9, <1>10, <1>11, <1>12 DEF ChannelInv

(* What was owed goes into the output.                                     *)
LEMMA QueueDirection ==
    ASSUME NEW p \in Peer, Sound(p), NEW X, NEW Y \in Seq(Pair), Owed(p) = X \o Y,
           X \in Seq(Sent(p)), queue'[p] \in Seq(Sent(p)), Owing(p)', Owed(p)' = Y,
           output'[p].bytes = output[p].bytes \o X,
           UNCHANGED <<arrived, given, wire, input, reading, phase>>
    PROVE  Sound(p)'
<1>. DEFINE T == Sent(p)
            o == output[p].bytes
            S == Stop(p)
<1>1. T' = T /\ Stop(p)' = S /\ Ahead(p)' = Ahead(p)
  BY DEF Sent, Stop, Ahead
<1>2. T \subseteq Pair
  BY SentPairs DEF Sound
<1>3. o \in Seq(T) /\ X \in Seq(T)
  BY DEF Sound, Carried
<1>. HIDE DEF T
<1>4. Carried(p)'
  <2>1. output'[p].bytes \in Seq(T)
    BY <1>3, ConcatProperties
  <2>. QED  BY <1>1, <2>1 DEF Carried, Sound, T
<1>5. Counted(p)'
  BY DEF Counted, OfScript, Sound
<1>6. o \in Seq(Pair) /\ X \in Seq(Pair) /\ Y \in Seq(Pair) /\ S \in Seq(Pair)
  <2>1. S \in Seq(Pair)
    BY Pieces DEF Sound
  <2>. QED  BY <1>2, <1>3, <2>1, SeqMonotonic
<1>7. Behind(p) = o \o ((X \o Y) \o S) /\ Behind(p)' = (o \o X) \o (Y \o S)
  BY <1>1 DEF Behind
<1>. HIDE DEF o, S
<1>8. (o \o X) \o (Y \o S) = o \o ((X \o Y) \o S)
  <2>1. Cat(Cat(o, X), Cat(Y, S)) = Cat(o, Cat(Cat(X, Y), S))
    BY <1>6, Catted
  <2>. QED  BY <2>1 DEF Cat
<1>9. InOrder(p)'
  <2>1. Ahead(p)' \o (wire'[p] \o Behind(p)') = Ahead(p) \o (wire[p] \o Behind(p))
    BY <1>1, <1>7, <1>8
  <2>2. phase'[Other(p)] = "closed" \/ Chained(p, Ahead(p) \o (wire[p] \o Behind(p)))
    BY DEF InOrder, Sound
  <2>. QED  BY <2>1, <2>2, InOrderNext
<1>. QED  BY <1>4, <1>5, <1>9 DEF Sound

(* A peer gives its next message.                                          *)
LEMMA SentGrows ==
    ASSUME NEW p \in Peer, Counted(p), NEW i \in 1 .. Len(Script[p]), i = Len(given[p]) + 1,
           given'[p] = Append(given[p], Script[p][i]), arrived'[p] = arrived[p]
    PROVE  /\ Sent(p) \subseteq Sent(p)' /\ Bytes(p, i) \in Seq(Sent(p)')
           /\ Counted(p)' /\ Len(given'[p]) = i /\ given'[p] # <<>>
<1>. DEFINE g == given[p]
            h == given'[p]
<1>1. /\ g \in Seq(Message) /\ Len(g) \in Nat /\ Len(g) <= Len(Script[p])
      /\ \A k \in 1 .. Len(g) : g[k] = Script[p][k]
      /\ Script[p][i] \in Message /\ Len(Script[p]) \in Nat /\ i \in Nat
  BY Constants DEF Counted, OfScript
<1>2. h \in Seq(Message) /\ Len(h) = i /\ h # <<>>
      /\ \A k \in 1 .. Len(h) : h[k] = Script[p][k]
  <2>1. /\ h \in Seq(Message) /\ Len(h) = Len(g) + 1
        /\ \A k \in 1 .. Len(g) : h[k] = g[k] /\ h[Len(g) + 1] = Script[p][i]
    BY <1>1, AppendProperties
  <2>. HIDE DEF g, h
  <2>2. h[i] = Script[p][i]
    BY <1>1, AppendProperties DEF g, h
  <2>. QED  BY <1>1, <2>1, <2>2 DEF g
<1>. HIDE DEF g, h
<1>3. Counted(p)'
  <2>1. OfScript(h, p)
    BY <1>1, <1>2 DEF OfScript
  <2>2. OfScript(arrived[p], p) /\ Len(arrived[p]) <= Len(g) /\ Len(arrived[p]) \in Nat
    BY DEF Counted, OfScript, g
  <2>. QED  BY <1>1, <1>2, <2>1, <2>2 DEF Counted, g, h, OfScript
<1>4. Sent(p)' = {x \in Pair : x[1] \in 1 .. i /\ x[2] \in 1 .. Length(Script[p][x[1]])}
  BY <1>2 DEF Sent, h
<1>5. Sent(p) \subseteq Sent(p)'
  <2>1. 1 .. Len(g) \subseteq 1 .. i
    BY <1>1 DEF g
  <2>. QED  BY <1>4, <2>1 DEF Sent, g
<1>6. Bytes(p, i) \in Seq(Sent(p)')
  <2>. DEFINE n == Length(Script[p][i])
              V == Sent(p)'
  <2>1. n \in Nat \ {0} /\ i \in 1 .. i
    BY <1>1, Constants
  <2>2. \A k \in 1 .. n : <<i, k>> \in V
    BY <1>1, <1>4, <2>1 DEF Pair
  <2>. HIDE DEF n, V
  <2>3. [k \in 1 .. n |-> <<i, k>>] \in Seq(V)
    BY <2>1, <2>2
  <2>. QED  BY <2>3 DEF n, V, Bytes
<1>. QED  BY <1>2, <1>3, <1>5, <1>6 DEF h

LEMMA GiveDirection ==
    ASSUME NEW p \in Peer, Sound(p), NEW i \in 1 .. Len(Script[p]), i = Len(given[p]) + 1,
           given'[p] = Append(given[p], Script[p][i]),
           NEW X \in Seq(Pair), NEW Y \in Seq(Pair), Owed(p) \o Bytes(p, i) = X \o Y,
           X \in Seq(Sent(p)'), queue'[p] \in Seq(Sent(p)'), Owing(p)', Owed(p)' = Y,
           output'[p].bytes = output[p].bytes \o X, phase[p] = "ready",
           UNCHANGED <<arrived, wire, input, reading, phase>>
    PROVE  Sound(p)'
<1>. DEFINE T == Sent(p)'
            o == output[p].bytes
            x == <<i, 1>>
            y == <<i + 1, 1>>
            B == Bytes(p, i)
            q == Owed(p)
            w == wire[p]
            A == Ahead(p)
<1>1. Sent(p) \subseteq T /\ Counted(p)' /\ Len(given'[p]) = i
  BY SentGrows DEF Sound
<1>2. Stop(p) = <<x>> /\ Stop(p)' = <<y>> /\ Ahead(p)' = A
  BY <1>1 DEF Stop, Ahead
<1>3. o \in Seq(T) /\ w \in Seq(T \cup {Flight})
      /\ input[Other(p)].bytes \in Seq(T) /\ reading[Other(p)] \in Seq(T)
  <2>1. Sent(p) \cup {Flight} \subseteq T \cup {Flight}
    BY <1>1
  <2>. HIDE DEF T
  <2>. QED  BY <1>1, <2>1, SeqMonotonic DEF Sound, Carried
<1>4. Carried(p)'
  <2>. HIDE DEF T
  <2>1. output'[p].bytes \in Seq(T)
    BY <1>3, ConcatProperties DEF T
  <2>2. queue'[p] \in Seq(T)
    BY DEF T
  <2>. QED  BY <1>3, <2>1, <2>2 DEF Carried, T
<1>5. /\ o \in Seq(Pair) /\ q \in Seq(Pair) /\ w \in Seq(Pair) /\ A \in Seq(Pair)
      /\ B \in Seq(Pair) /\ <<x>> \in Seq(Pair) /\ <<y>> \in Seq(Pair)
  <2>1. x \in Pair /\ y \in Pair
    BY SMTT(30), Constants DEF Pair
  <2>2. <<x>> \in Seq(Pair) /\ <<y>> \in Seq(Pair)
    BY <2>1
  <2>3. B \in Seq(Pair)
    BY ChainedBytes
  <2>. QED  BY <2>2, <2>3, Pieces DEF Sound
<1>6. Behind(p) = o \o (q \o <<x>>) /\ Behind(p)' = (o \o X) \o (Y \o <<y>>)
  BY <1>2 DEF Behind
<1>7. q \o B = X \o Y
  OBVIOUS
<1>8. ASSUME NEW R \in Seq(Pair), Chained(p, R \o <<x>>) PROVE Chained(p, R \o (B \o <<y>>))
  BY <1>8, ChainedGive
<1>. HIDE DEF o, q, w, A, B, x, y
<1>9. InOrder(p)'
  <2>1. Ahead(p)' \o (wire'[p] \o Behind(p)') = A \o (w \o ((o \o X) \o (Y \o <<y>>)))
    BY <1>2, <1>6 DEF w
  <2>2. ASSUME phase[Other(p)] # "closed"
        PROVE  Chained(p, A \o (w \o ((o \o X) \o (Y \o <<y>>))))
    <3>1. Chained(p, A \o (w \o (o \o (q \o <<x>>))))
      BY <1>6, <2>2 DEF Sound, InOrder, A, w
    <3>. DEFINE R == Cat(A, Cat(w, Cat(o, q)))
                x1 == <<x>>
                y1 == <<y>>
    <3>2. R \in Seq(Pair)
      BY <1>5, Catted
    <3>3. x1 \in Seq(Pair) /\ y1 \in Seq(Pair)
      BY <1>5
    <3>. HIDE DEF x1, y1
    <3>4. Cat(A, Cat(w, Cat(o, Cat(q, x1)))) = Cat(R, x1)
      BY <1>5, <3>3, Catted
    <3>5. Cat(A, Cat(w, Cat(Cat(o, X), Cat(Y, y1)))) = Cat(R, Cat(B, y1))
      <4>1. Cat(q, B) = Cat(X, Y)
        BY <1>7 DEF Cat
      <4>2. Cat(o, Cat(q, Cat(B, y1))) = Cat(Cat(o, X), Cat(Y, y1))
        BY <1>5, <3>3, <4>1, Catted
      <4>3. Cat(A, Cat(w, Cat(o, Cat(q, Cat(B, y1))))) = Cat(R, Cat(B, y1))
        BY <1>5, <3>3, Catted
      <4>. QED  BY <4>2, <4>3
    <3>. HIDE DEF R
    <3>6. Chained(p, R \o x1)
      BY <3>1, <3>4 DEF Cat, x1
    <3>7. Chained(p, R \o (B \o y1))
      BY <1>8, <3>2, <3>6 DEF x1, y1
    <3>. QED  BY <3>5, <3>7 DEF Cat, y1
  <2>. QED  BY <2>1, <2>2, InOrderNext
<1>. QED  BY <1>1, <1>4, <1>9 DEF Sound

(* A peer puts X into its output.                                          *)
LEMMA Filled ==
    ASSUME ChannelInv, NEW p \in Peer, ChannelType', Sound(p)',
           NEW X \in Seq(Pair), Len(X) <= Room(output[p]), output'[p] = Put(output[p], X),
           phase[p] = "ready", UNCHANGED <<phase, input, wire, reading, arrived>>,
           \A q \in Peer \ {p} :
             /\ queue'[q] = queue[q] /\ output'[q] = output[q] /\ given'[q] = given[q]
    PROVE  ChannelInv'
<1>. SUFFICES ASSUME NEW q \in Peer
              PROVE  (Fits(output[q]) /\ Fits(input[q]) /\ Begun(q) /\ Sound(q))'
  BY DEF ChannelInv
<1>1. Fits(output[q]) /\ Fits(input[q]) /\ Begun(q) /\ Sound(q) /\ Fits(output[p])
  BY DEF ChannelInv
<1>2. Fits(output'[q]) /\ Fits(input'[q])
  <2>1. CASE q = p
    BY <1>1, <2>1, PutFits
  <2>2. CASE q # p
    BY <1>1, <2>2
  <2>. QED  BY <2>1, <2>2
<1>3. Begun(q)'
  BY <1>1 DEF Begun
<1>4. Sound(q)'
  <2>1. CASE q # p
    <3>1. queue'[q] = queue[q] /\ output'[q] = output[q] /\ given'[q] = given[q]
      BY <2>1
    <3>. QED  BY <1>1, <3>1, SameDirection
  <2>. QED  BY <2>1
<1>. QED  BY <1>2, <1>3, <1>4 DEF Fits

(* There is a next message to give.                                        *)
LEMMA NextGiven ==
    ASSUME NEW p \in Peer, Counted(p), Gives(p)
    PROVE  Len(given[p]) + 1 \in 1 .. Len(Script[p])
<1>. DEFINE g == given[p]
            s == Script[p]
<1>1. /\ g \in Seq(Message) /\ Len(g) <= Len(s) /\ s \in Seq(Message)
      /\ \A i \in 1 .. Len(g) : g[i] = s[i]
  BY Constants DEF Counted, OfScript
<1>2. g # s
  BY DEF Gives
<1>. HIDE DEF g, s
<1>3. Len(g) # Len(s)
  BY <1>1, <1>2, SeqEqual
<1>4. Len(g) \in Nat /\ Len(s) \in Nat
  BY <1>1
<1>5. Len(g) + 1 \in 1 .. Len(s)
  BY <1>1, <1>3, <1>4
<1>. QED  BY <1>5 DEF g, s

LEMMA RoomNat ==
    ASSUME NEW b, Fits(b)
    PROVE  Room(b) \in Nat
  BY Constants DEF Fits, Room

LEMMA ClientStep ==
    ASSUME ChannelInv, Send \/ Flush
    PROVE  ChannelInv'
<1>. DEFINE p == "client"
            g == given[p]
            i == Len(g) + 1
            s == IF Send THEN queue[p] \o Bytes(p, i) ELSE queue[p]
            n == Least(Room(output[p]), Len(s))
            X == SubSeq(s, 1, n)
            Y == SubSeq(s, n + 1, Len(s))
            T == Sent(p)'
<1>1. /\ p \in Peer /\ ChannelType /\ Sound(p) /\ Fits(output[p])
      /\ \A q \in Peer \ {p} : q # p
  BY DEF ChannelInv, Peer
<1>2. /\ phase[p] = "ready"
      /\ output' = [output EXCEPT ![p] = Put(@, X)]
      /\ queue' = [queue EXCEPT ![p] = Y]
      /\ UNCHANGED <<phase, input, wire, reading, arrived>>
      /\ \/ Send /\ Gives(p) /\ given' = [given EXCEPT ![p] = Append(@, Script[p][Len(@) + 1])]
         \/ ~Send /\ UNCHANGED given
  <2>1. CASE Send
    BY <2>1 DEF Send, SendAll, GetBuffer, Building, Giving
  <2>2. CASE ~Send
    BY <2>2 DEF Flush, SendAll
  <2>. QED  BY <2>1, <2>2
<1>3. ChannelType'
  BY <1>1, <1>2 DEF ChannelType
<1>4. Sent(p) \subseteq T
      /\ (Send => /\ i \in 1 .. Len(Script[p]) /\ Bytes(p, i) \in Seq(T)
                  /\ given'[p] = Append(g, Script[p][i]))
  <2>1. CASE Send
    <3>1. Counted(p) /\ i \in 1 .. Len(Script[p])
      BY <1>1, <1>2, <2>1, NextGiven DEF Sound
    <3>2. given'[p] = Append(g, Script[p][i]) /\ arrived'[p] = arrived[p]
      BY <1>1, <1>2, <2>1 DEF ChannelType
    <3>. QED  BY <1>1, <3>1, <3>2, SentGrows
  <2>2. CASE ~Send
    <3>1. given' = given
      BY <1>2, <2>2
    <3>. QED  BY <2>2, <3>1 DEF Sent
  <2>. QED  BY <2>1, <2>2
<1>5. s \in Seq(T) /\ T \subseteq Pair
  <2>1. queue[p] \in Seq(Sent(p))
    BY <1>1 DEF Sound, Carried
  <2>2. queue[p] \in Seq(T)
    BY <1>4, <2>1, SeqMonotonic
  <2>3. T \subseteq Pair
    BY DEF Sent
  <2>. HIDE DEF T
  <2>. QED  BY <1>4, <2>2, <2>3, ConcatProperties
<1>. HIDE DEF T
<1>6. n \in 0 .. Len(s) /\ n <= Room(output[p])
  <2>1. Room(output[p]) \in Nat
    BY <1>1, RoomNat
  <2>. HIDE DEF s
  <2>2. Len(s) \in Nat
    BY <1>5
  <2>. QED  BY <2>1, <2>2 DEF Least
<1>. HIDE DEF n, s
<1>7. X \in Seq(T) /\ Y \in Seq(T) /\ s = X \o Y /\ Len(X) = n
  BY ZenonT(60), <1>5, <1>6, SplitAt
<1>. HIDE DEF X, Y
<1>8. X \in Seq(Pair) /\ Y \in Seq(Pair)
  BY <1>5, <1>7, SeqMonotonic
<1>9. output'[p] = Put(output[p], X) /\ queue'[p] = Y
  BY <1>1, <1>2 DEF ChannelType
<1>10. output'[p].bytes = output[p].bytes \o X
  BY <1>1, <1>6, <1>7, <1>8, <1>9, PutFits
<1>11. Owed(p) = queue[p] /\ Owed(p)' = Y /\ Owing(p)'
  BY <1>9 DEF Owed, SizeOwed, Owing
<1>12. Sound(p)'
  <2>1. CASE Send
    <3>1. Owed(p) \o Bytes(p, i) = X \o Y
      BY <1>7, <1>11, <2>1 DEF s
    <3>2. i \in 1 .. Len(Script[p]) /\ i = Len(given[p]) + 1
          /\ given'[p] = Append(given[p], Script[p][i])
      BY <1>4, <2>1
    <3>3. X \in Seq(Sent(p)') /\ queue'[p] \in Seq(Sent(p)')
      BY <1>7, <1>9 DEF T
    <3>. HIDE DEF p, g, i
    <3>. QED  BY <1>1, <1>2, <1>8, <1>10, <1>11, <3>1, <3>2, <3>3, GiveDirection
  <2>2. CASE ~Send
    <3>1. Owed(p) = X \o Y
      BY <1>7, <1>11, <2>2 DEF s
    <3>2. UNCHANGED given
      BY <1>2, <2>2
    <3>3. Sent(p)' = Sent(p)
      BY <3>2 DEF Sent
    <3>4. X \in Seq(Sent(p)) /\ queue'[p] \in Seq(Sent(p))
      BY <1>7, <1>9, <3>3 DEF T
    <3>. HIDE DEF p, g, i
    <3>. QED  BY <1>1, <1>2, <1>8, <1>10, <1>11, <3>1, <3>2, <3>4, QueueDirection
  <2>. QED  BY <2>1, <2>2
<1>13. \A q \in Peer \ {p} :
         /\ queue'[q] = queue[q] /\ output'[q] = output[q] /\ given'[q] = given[q]
  BY <1>1, <1>2 DEF ChannelType
<1>. HIDE DEF p
<1>. QED  BY <1>1, <1>2, <1>3, <1>6, <1>7, <1>8, <1>9, <1>12, <1>13, Filled

(* What is left of a sequence, nothing at all included.                    *)
LEMMA RestOf ==
    ASSUME NEW S, NEW s \in Seq(S), NEW r \in 1 .. Len(s) + 1
    PROVE  SubSeq(s, r, Len(s)) \in Seq(S) /\ Len(SubSeq(s, r, Len(s))) = Len(s) - r + 1
<1>1. r \in Int /\ Len(s) \in Int /\ \A k \in r .. Len(s) : s[k] \in S
  OBVIOUS
<1>2. /\ SubSeq(s, r, Len(s)) \in Seq(S)
      /\ Len(SubSeq(s, r, Len(s))) = IF r <= Len(s) THEN Len(s) - r + 1 ELSE 0
  BY <1>1, SubSeqProperties
<1>3. r > Len(s) => Len(s) - r + 1 = 0
  OBVIOUS
<1>. QED  BY <1>1, <1>2, <1>3

LEMMA AnswerStep ==
    ASSUME ChannelInv, Answer
    PROVE  ChannelInv'
<1>. DEFINE p == "server"
            i == Len(given[p]) + 1
            M == Script[p][i]
            m == Bytes(p, i)
            rest == IF M.kind = "token" THEN 2 + Header ELSE 2
            X == SubSeq(m, 1, 1)
            Y == SubSeq(m, 2, Len(m))
            T == Sent(p)'
<1>1. /\ p \in Peer /\ ChannelType /\ Sound(p) /\ Fits(output[p])
      /\ \A q \in Peer \ {p} : q # p
  BY DEF ChannelInv, Peer
<1>2. /\ phase[p] = "ready" /\ queue[p] = <<>> /\ Gives(p) /\ Room(output[p]) >= 1
      /\ output' = [output EXCEPT ![p] = Put(@, X)]
      /\ queue' = [queue EXCEPT ![p] = SubSeq(m, rest, Len(m))]
      /\ UNCHANGED <<phase, input, wire, reading, arrived>>
      /\ given' = [given EXCEPT ![p] = Append(@, Script[p][Len(@) + 1])]
  BY DEF Answer, Building, Giving
<1>3. ChannelType'
  BY <1>1, <1>2 DEF ChannelType
<1>4. /\ output'[p] = Put(output[p], X) /\ queue'[p] = SubSeq(m, rest, Len(m))
      /\ given'[p] = Append(given[p], M) /\ arrived'[p] = arrived[p]
  BY <1>1, <1>2 DEF ChannelType
<1>5. i \in 1 .. Len(Script[p])
  BY <1>1, <1>2, NextGiven DEF Sound
<1>6. /\ M \in Message /\ Len(m) \in Nat \ {0} /\ Header \in Nat /\ m \in Seq(Pair)
      /\ M.kind = "token" => Len(m) = 1 + Header + M.size /\ M.size \in Nat \ {0}
  <2>1. Len(m) = Length(M) /\ m \in Seq(Pair)
    BY <1>1, <1>5, ChainedBytes
  <2>2. /\ M \in Message /\ Length(M) \in Nat \ {0} /\ Header \in Nat
        /\ M.kind = "token" => Length(M) = 1 + Header + M.size
        /\ M.size \in Nat \ {0}
    BY <1>1, <1>5, Constants
  <2>. QED  BY <2>1, <2>2
<1>7. m \in Seq(T) /\ Len(given'[p]) = i /\ given'[p] # <<>> /\ T \subseteq Pair
  <2>1. m \in Seq(T) /\ Len(given'[p]) = i /\ given'[p] # <<>>
    BY <1>1, <1>4, <1>5, SentGrows DEF Sound
  <2>. QED  BY <2>1 DEF Sent
<1>. HIDE DEF T, i, M, m, p
<1>8. /\ rest \in 2 .. Len(m) + 1 /\ rest \in Nat
      /\ M.kind = "token" => rest = 2 + Header /\ Len(m) - rest + 1 = M.size
  BY <1>6 DEF Message
<1>9. X \in Seq(T) /\ Len(X) = 1 /\ Y \in Seq(T) /\ m = X \o Y
  <2>1. 1 \in 0 .. Len(m)
    BY <1>6
  <2>. QED  BY <1>7, <2>1, SplitAt
<1>10. queue'[p] \in Seq(T) /\ Len(queue'[p]) = Len(m) - rest + 1
  <2>1. PICK r : r = rest
    OBVIOUS
  <2>2. r \in 2 .. Len(m) + 1
    BY <1>8, <2>1
  <2>3. r \in 1 .. Len(m) + 1
    BY SMTT(30), <1>6, <2>2
  <2>4. SubSeq(m, r, Len(m)) \in Seq(T) /\ Len(SubSeq(m, r, Len(m))) = Len(m) - r + 1
    BY <1>7, <2>3, RestOf
  <2>5. queue'[p] = SubSeq(m, r, Len(m))
    BY <1>4, <2>1
  <2>. QED  BY <2>1, <2>4, <2>5
<1>11. X \in Seq(Pair) /\ Y \in Seq(Pair)
  BY <1>7, <1>9, SeqMonotonic
<1>12. output'[p].bytes = output[p].bytes \o X /\ Len(X) <= Room(output[p])
  <2>1. Room(output[p]) \in Nat /\ Len(X) <= Room(output[p])
    BY <1>1, <1>2, <1>9, RoomNat
  <2>. QED  BY <1>1, <1>4, <1>11, <2>1, PutFits
<1>13. Script[p][Len(given'[p])] = M /\ Bytes(p, Len(given'[p])) = m
  BY <1>7 DEF M, m
<1>14. Owing(p)'
  BY <1>7, <1>8, <1>10, <1>13 DEF Owing
<1>15. Owed(p)' = Y
  <2>1. CASE M.kind = "token"
    <3>1. Len(queue'[p]) = M.size /\ queue'[p] # <<>>
      BY <1>6, <1>8, <1>10, <2>1
    <3>2. SizeOwed(p)'
      BY <1>13, <2>1, <3>1 DEF SizeOwed, p
    <3>3. Owed(p)' = SubSeq(m, 2, 1 + Header) \o SubSeq(m, 2 + Header, Len(m))
      BY <1>4, <1>8, <1>13, <2>1, <3>2 DEF Owed
    <3>4. Y = SubSeq(m, 2, 1 + Header) \o SubSeq(m, (1 + Header) + 1, Len(m))
      <4>1. 2 \in 1 .. Len(m) + 1 /\ 1 + Header \in 2 - 1 .. Len(m)
            /\ Len(m) \in 1 + Header .. Len(m)
        BY <1>6, <2>1
      <4>. QED  BY <1>6, <4>1, ConcatAdjacentSubSeq
    <3>5. (1 + Header) + 1 = 2 + Header
      BY <1>6
    <3>. QED  BY <3>3, <3>4, <3>5
  <2>2. CASE M.kind # "token"
    BY <1>4, <1>13, <2>2 DEF Owed, SizeOwed
  <2>. QED  BY <2>1, <2>2
<1>16. Sound(p)'
  <2>1. Owed(p) = <<>>
    BY <1>2 DEF Owed, SizeOwed
  <2>2. Owed(p) \o Bytes(p, i) = X \o Y
    BY <1>6, <1>9, <2>1, ConcatEmptySeq DEF m
  <2>3. i = Len(given[p]) + 1 /\ given'[p] = Append(given[p], Script[p][i])
    BY <1>4 DEF M, i
  <2>4. X \in Seq(Sent(p)') /\ queue'[p] \in Seq(Sent(p)')
    BY <1>9, <1>10 DEF T
  <2>. HIDE DEF X, Y
  <2>. QED  BY <1>1, <1>2, <1>5, <1>11, <1>12, <1>14, <1>15, <2>2, <2>3, <2>4, GiveDirection
<1>17. \A q \in Peer \ {p} :
         /\ queue'[q] = queue[q] /\ output'[q] = output[q] /\ given'[q] = given[q]
  BY <1>1, <1>2 DEF ChannelType
<1>. QED  BY <1>1, <1>2, <1>3, <1>4, <1>11, <1>12, <1>16, <1>17, Filled

LEMMA RestStep ==
    ASSUME ChannelInv, Rest
    PROVE  ChannelInv'
<1>. DEFINE p == "server"
            i == Len(given[p])
            M == Script[p][i]
            data == queue[p]
            room == Room(output[p])
            whole == M.kind = "token" /\ Len(data) = M.size
            size == IF whole THEN SubSeq(Bytes(p, i), 2, 1 + Header) ELSE <<>>
            n == Least(room - Len(size), Len(data))
            X == size \o SubSeq(data, 1, n)
            Y == SubSeq(data, n + 1, Len(data))
            T == Sent(p)
<1>1. /\ p \in Peer /\ ChannelType /\ Sound(p) /\ Fits(output[p])
      /\ \A q \in Peer \ {p} : q # p
  BY DEF ChannelInv, Peer
<1>2. /\ phase[p] = "ready" /\ data # <<>>
      /\ IF M.kind = "fixed" THEN room >= Len(data)
         ELSE IF whole THEN room >= Header + 1 ELSE room > 0
      /\ output' = [output EXCEPT ![p] = Put(@, X)]
      /\ queue' = [queue EXCEPT ![p] = SubSeq(@, n + 1, Len(@))]
      /\ UNCHANGED <<phase, input, wire, reading, given, arrived>>
  BY DEF Rest, RoomToBegin
<1>3. ChannelType'
  BY <1>1, <1>2 DEF ChannelType
<1>4. output'[p] = Put(output[p], X) /\ queue'[p] = Y
  BY <1>1, <1>2 DEF ChannelType
<1>5. /\ given[p] # <<>> /\ Owing(p)
      /\ M.kind = "token" => Len(data) <= M.size
  BY <1>1, <1>2 DEF Sound, Owing
<1>6. i \in 1 .. Len(Script[p])
  <2>1. given[p] \in Seq(Message) /\ Len(given[p]) <= Len(Script[p])
    BY <1>1 DEF Sound, Counted, OfScript
  <2>2. Len(Script[p]) \in Nat
    BY <1>1, Constants
  <2>. QED  BY <1>5, <2>1, <2>2, EmptySeq
<1>7. /\ M \in Message /\ Header \in Nat \ {0} /\ Bytes(p, i) \in Seq(Pair)
      /\ M.kind = "token" => Len(Bytes(p, i)) = 1 + Header + M.size /\ M.size \in Nat \ {0}
  BY <1>1, <1>6, ChainedBytes, Constants
<1>8. data \in Seq(T) /\ T \subseteq Pair /\ room \in Nat
  BY <1>1, RoomNat DEF Sound, Carried, Sent
<1>9. Bytes(p, i) \in Seq(T)
  <2>. DEFINE l == Length(M)
  <2>1. l \in Nat \ {0} /\ i \in 1 .. Len(given[p]) /\ i \in Nat
    BY <1>1, <1>6, Constants
  <2>2. \A k \in 1 .. l : <<i, k>> \in T
    BY <2>1 DEF Sent, Pair
  <2>. HIDE DEF l, T
  <2>3. [k \in 1 .. l |-> <<i, k>>] \in Seq(T)
    BY <2>1, <2>2
  <2>. QED  BY <2>3 DEF l, Bytes
<1>10. SizeOwed(p) <=> whole
  BY <1>2 DEF SizeOwed
<1>11. Owed(p) = size \o data
  <2>1. <<>> \o data = data
    BY <1>8, ConcatEmptySeq
  <2>. QED  BY <1>10, <2>1 DEF Owed
<1>. HIDE DEF T, i, M, p
<1>12. Len(data) \in Nat \ {0}
  <2>. HIDE DEF data
  <2>. QED  BY <1>2, <1>8, EmptySeq
<1>13. /\ size \in Seq(T) /\ Len(size) \in Nat /\ Len(size) <= room
       /\ whole => Len(size) = Header
       /\ ~whole => Len(size) = 0
  <2>1. CASE whole
    <3>1. SubSeq(Bytes(p, i), 2, 1 + Header) \in Seq(T)
          /\ Len(SubSeq(Bytes(p, i), 2, 1 + Header)) = Header
      BY <1>7, <1>9, <2>1
    <3>2. M.kind = "token" /\ room >= Header + 1
      BY <1>2, <2>1
    <3>3. size = SubSeq(Bytes(p, i), 2, 1 + Header)
      BY <2>1
    <3>. HIDE DEF size
    <3>. QED  BY <1>7, <1>8, <2>1, <3>1, <3>2, <3>3
  <2>2. CASE ~whole
    <3>1. size = <<>> /\ <<>> \in Seq(T)
      BY <2>2
    <3>. HIDE DEF size, whole
    <3>. QED  BY <1>8, <2>2, <3>1
  <2>. QED  BY <2>1, <2>2
<1>14. /\ n \in 0 .. Len(data) /\ Len(size) + n <= room
       /\ M.kind = "token" => n > 0
       /\ M.kind = "fixed" => n = Len(data)
  <2>1. M.kind \in {"fixed", "token"}
    BY <1>7 DEF Message
  <2>2. /\ M.kind = "fixed" => room >= Len(data) /\ Len(size) = 0
        /\ M.kind = "token" => room > Len(size)
    BY <1>2, <1>7, <1>8, <1>13, <2>1
  <2>. HIDE DEF size, data, room, whole
  <2>. QED  BY <1>8, <1>12, <1>13, <2>1, <2>2 DEF Least
<1>. HIDE DEF n
<1>15. /\ SubSeq(data, 1, n) \in Seq(T) /\ Y \in Seq(T)
       /\ data = SubSeq(data, 1, n) \o Y /\ Len(Y) = Len(data) - n
       /\ Len(SubSeq(data, 1, n)) = n
  BY ZenonT(60), <1>8, <1>14, SplitAt
<1>. HIDE DEF size, Y
<1>16. X \in Seq(T) /\ Len(X) <= room
  <2>1. X \in Seq(T) /\ Len(X) = Len(size) + n
    BY <1>13, <1>15, ConcatProperties
  <2>. QED  BY <1>14, <2>1
<1>17. X \in Seq(Pair) /\ Y \in Seq(Pair) /\ size \in Seq(Pair)
       /\ SubSeq(data, 1, n) \in Seq(Pair)
  BY <1>8, <1>13, <1>15, <1>16, SeqMonotonic
<1>18. Owed(p) = X \o Y
  <2>. DEFINE d1 == SubSeq(data, 1, n)
  <2>1. Owed(p) = Cat(size, Cat(d1, Y)) /\ X = Cat(size, d1)
    BY <1>11, <1>15 DEF Cat
  <2>2. d1 \in Seq(Pair)
    BY <1>17
  <2>. HIDE DEF d1, X
  <2>3. Owed(p) = Cat(X, Y)
    BY <1>17, <2>1, <2>2, Catted
  <2>. QED  BY <2>3 DEF Cat
<1>. HIDE DEF X
<1>19. Owed(p)' = Y /\ Owing(p)'
  <2>1. given'[p] = given[p] /\ Script[p][Len(given'[p])] = M
    BY <1>2 DEF M, i
  <2>2. Len(queue'[p]) = Len(data) - n
    BY <1>4, <1>15
  <2>3. M.kind = "token" => Len(queue'[p]) < M.size
    BY <1>5, <1>7, <1>12, <1>14, <2>2
  <2>4. ~SizeOwed(p)'
    BY <1>7, <2>1, <2>3 DEF SizeOwed, p
  <2>5. Owed(p)' = Y
    BY <1>4, <2>4 DEF Owed
  <2>6. M.kind = "token" => Len(queue'[p]) <= M.size
    BY <1>7, <1>12, <1>14, <2>2, <2>3
  <2>. QED  BY <1>5, <2>1, <2>5, <2>6 DEF Owing
<1>20. output'[p].bytes = output[p].bytes \o X
  BY <1>1, <1>4, <1>16, <1>17, PutFits
<1>21. Sound(p)'
  <2>1. X \in Seq(Sent(p)) /\ queue'[p] \in Seq(Sent(p))
    BY <1>4, <1>15, <1>16 DEF T
  <2>. QED  BY <1>1, <1>2, <1>17, <1>18, <1>19, <1>20, <2>1, QueueDirection
<1>22. \A q \in Peer \ {p} :
         /\ queue'[q] = queue[q] /\ output'[q] = output[q] /\ given'[q] = given[q]
  BY <1>1, <1>2 DEF ChannelType
<1>. QED  BY <1>1, <1>2, <1>3, <1>4, <1>16, <1>17, <1>21, <1>22, Filled

-----------------------------------------------------------------------------
(* The parser.                                                             *)

Taken(p) == reading[p] \o SubSeq(input[p].bytes, 1, Chunk(p))
Left(p) == SubSeq(input[p].bytes, Chunk(p) + 1, Len(input[p].bytes))

LEMMA TakeBound ==
    ASSUME NEW t \in Nat, NEW n \in Int, NEW c, c > 0,
           c = (IF t < n THEN 0 ELSE n) \/ c = Least(t, n)
    PROVE  c \in 1 .. t
  BY DEF Least

LEMMA ChunkBounds ==
    ASSUME NEW p \in Peer, Sound(Other(p)), Chunk(p) > 0
    PROVE  Chunk(p) \in 1 .. Len(input[p].bytes)
<1>. DEFINE d == Other(p)
            r == reading[p]
            there == Len(input[p].bytes)
            m == Script[d][r[1][1]]
            left == Length(m) - Len(r)
            take(n) == IF there < n THEN 0 ELSE n
<1>1. /\ d \in Peer /\ Other(d) = p
      /\ r \in Seq(Sent(d)) /\ input[p].bytes \in Seq(Sent(d)) /\ Header \in Nat
  BY Others, Constants DEF Sound, Carried
<1>2. there \in Nat /\ Len(r) \in Nat
  BY <1>1
<1>3. ASSUME r # <<>> PROVE left \in Int
  <2>1. r[1] \in Sent(d)
    <3>1. Len(r) \in Nat \ {0}
      BY <1>1, <1>3, EmptySeq
    <3>. QED  BY <1>1, <3>1, ElementOfSeq
  <2>2. r[1][1] \in 1 .. Len(Script[d])
    <3>1. r[1][1] \in 1 .. Len(given[d]) /\ Len(given[d]) \in 0 .. Len(Script[d])
      BY <1>1, <2>1, SentPairs DEF Sent, Sound
    <3>. QED  BY <3>1
  <2>3. Length(m) \in Nat
    BY <1>1, <2>2, Constants
  <2>. QED  BY <1>2, <2>3
<1>4. \/ \E n \in {1, Header} : Chunk(p) = take(n)
      \/ r # <<>> /\ (Chunk(p) = take(left) \/ Chunk(p) = Least(there, left))
  BY DEF Chunk
<1>. HIDE DEF left, m, r, d
<1>5. PICK n \in Int : Chunk(p) = (IF there < n THEN 0 ELSE n) \/ Chunk(p) = Least(there, n)
  <2>1. CASE \E n \in {1, Header} : Chunk(p) = take(n)
    BY <1>1, <2>1
  <2>2. CASE r # <<>> /\ (Chunk(p) = take(left) \/ Chunk(p) = Least(there, left))
    BY <1>3, <2>2
  <2>. QED  BY <1>4, <2>1, <2>2
<1>. HIDE DEF there, take
<1>6. Chunk(p) \in 1 .. there
  BY <1>2, <1>5, TakeBound
<1>. QED  BY <1>6 DEF there

(* The byte read first is the first of the message due.                    *)
LEMMA HeadDue ==
    ASSUME NEW p, NEW a \in Nat \ {0}, NEW R \in Seq(Pair), R # <<>>, R[1] # Flight,
           Chained(p, << <<a, 0>> >> \o R)
    PROVE  R[1] = <<a, 1>>
<1>. DEFINE x == <<a, 0>>
            V == <<x>> \o R
<1>1. x \in Pair /\ x # Flight /\ After(p, x) = <<a, 1>>
  BY DEF Pair, Flight, After
<1>2. Len(R) \in Nat \ {0}
  BY EmptySeq
<1>. HIDE DEF x
<1>3. V[1] = x /\ V[2] = R[1] /\ 1 \in DOMAIN V /\ 2 \in DOMAIN V
  BY <1>1, <1>2
<1>4. \A k \in 1 + 1 .. 2 - 1 : V[k] = Flight
  OBVIOUS
<1>5. Chained(p, V)
  BY DEF x
<1>. HIDE DEF V
<1>6. V[2] = After(p, V[1])
  BY <1>1, <1>3, <1>4, <1>5 DEF Chained
<1>. QED  BY <1>1, <1>3, <1>6

LEMMA Parsed ==
    ASSUME ChannelInv, NEW p \in Peer, Parse(p), NEW d, d = Other(p),
           NEW a, a = Len(arrived[d]) + 1
    PROVE  /\ Chunk(p) \in 1 .. Len(input[p].bytes)
           /\ a \in 1 .. Len(given[d])
           /\ Taken(p) \in Seq(Sent(d)) /\ Left(p) \in Seq(Sent(d))
           /\ Ahead(d) = << <<a, 0>> >> \o (Taken(p) \o Left(p))
           /\ Taken(p)[1][1] = a
           /\ Len(Taken(p)) = Length(Script[d][a]) =>
                /\ Taken(p) = Bytes(d, a)
                /\ Chained(d, << <<a + 1, 0>> >> \o (Left(p) \o (wire[d] \o Behind(d))))
<1>. DEFINE c == Chunk(p)
            b == input[p].bytes
            r == reading[p]
            X == SubSeq(b, 1, c)
            Y == Left(p)
            R == Taken(p)
            T == Sent(d)
            h == << <<a, 0>> >>
            Z == wire[d] \o Behind(d)
<1>1. d \in Peer /\ Other(d) = p /\ Sound(d) /\ phase[p] = "ready" /\ c > 0
  BY Others DEF ChannelInv, Parse
<1>2. c \in 1 .. Len(b)
  BY <1>1, ChunkBounds
<1>3. b \in Seq(T) /\ r \in Seq(T) /\ T \subseteq Pair /\ Flight \notin T
  BY <1>1, SentPairs DEF Sound, Carried
<1>. HIDE DEF T, c, b
<1>4. X \in Seq(T) /\ Y \in Seq(T) /\ b = X \o Y /\ Len(X) = c
  <2>1. c \in 0 .. Len(b)
    BY <1>2
  <2>2. Y = SubSeq(b, c + 1, Len(b))
    BY DEF Left, b, c
  <2>. HIDE DEF Y
  <2>. QED  BY ZenonT(60), <1>3, <2>1, <2>2, SplitAt
<1>5. R = r \o X
  BY DEF Taken, b, c
<1>. HIDE DEF X, Y, R, r
<1>6. R \in Seq(T) /\ Len(R) \in Nat \ {0}
  <2>1. R \in Seq(T) /\ Len(R) = Len(r) + Len(X) /\ Len(r) \in Nat
    BY <1>3, <1>4, <1>5, ConcatProperties
  <2>. QED  BY <1>2, <1>4, <2>1
<1>7. /\ X \in Seq(Pair) /\ Y \in Seq(Pair) /\ R \in Seq(Pair) /\ r \in Seq(Pair)
      /\ R[1] \in T /\ \A j \in 1 .. Len(R) : R[j] # Flight
  <2>1. \A j \in 1 .. Len(R) : R[j] \in T
    BY <1>6, ElementOfSeq
  <2>2. 1 \in 1 .. Len(R)
    BY <1>6
  <2>. QED  BY <1>3, <1>4, <1>6, <2>1, <2>2, SeqMonotonic
<1>8. h \in Seq(Pair) /\ Z \in Seq(Pair) /\ a \in Nat \ {0}
  <2>1. h \in Seq(Pair) /\ wire[d] \in Seq(Pair) /\ Behind(d) \in Seq(Pair)
    BY <1>1, Pieces DEF Sound
  <2>2. a \in Nat \ {0}
    BY <1>1, SentPairs DEF Sound
  <2>. QED  BY <2>1, <2>2, ConcatProperties
<1>9. Ahead(d) = h \o (r \o (X \o Y))
  BY <1>1, <1>4 DEF Ahead, r, b
<1>10. Chained(d, Ahead(d) \o Z)
  BY <1>1 DEF Sound, InOrder
<1>. HIDE DEF h, Z
<1>11. Ahead(d) = h \o (R \o Y)
  <2>1. Cat(h, Cat(r, Cat(X, Y))) = Cat(h, Cat(Cat(r, X), Y))
    BY <1>7, <1>8, Catted
  <2>. QED  BY <1>5, <1>9, <2>1 DEF Cat
<1>12. Chained(d, (h \o R) \o (Y \o Z)) /\ Y \o Z \in Seq(Pair)
  <2>1. Cat(Cat(h, R), Cat(Y, Z)) = Cat(Cat(h, Cat(R, Y)), Z) /\ Cat(Y, Z) \in Seq(Pair)
    BY <1>7, <1>8, Catted
  <2>. QED  BY <1>10, <1>11, <2>1 DEF Cat
<1>13. R[1] = <<a, 1>>
  <2>1. Chained(d, h \o R)
    <3>1. h \o R \in Seq(Pair)
      BY <1>7, <1>8, ConcatProperties
    <3>. QED  BY <1>12, <3>1, ChainedParts
  <2>2. R # <<>> /\ R[1] # Flight
    BY <1>6, <1>7
  <2>. QED  BY <1>7, <1>8, <2>1, <2>2, HeadDue DEF h
<1>14. R[1][1] = a /\ a \in 1 .. Len(given[d])
  BY <1>7, <1>13 DEF T, Sent
<1>15. ASSUME Len(R) = Length(Script[d][a])
       PROVE  R = Bytes(d, a) /\ Chained(d, << <<a + 1, 0>> >> \o (Y \o Z))
  <2>1. a \in 1 .. Len(Script[d])
    <3>1. Len(given[d]) \in 0 .. Len(Script[d])
      BY <1>1, SentPairs DEF Sound
    <3>. QED  BY <1>14, <3>1
  <2>2. PICK B \in Seq(Pair) : B = Y \o Z
    BY <1>12
  <2>3. Chained(d, (<< <<a, 0>> >> \o R) \o B)
    BY <1>12, <2>2 DEF h
  <2>4. R = Bytes(d, a) /\ Chained(d, << <<a + 1, 0>> >> \o B)
    BY <1>1, <1>7, <1>15, <2>1, <2>3, ChainedTake
  <2>. QED  BY <2>2, <2>4
<1>. QED  BY <1>2, <1>4, <1>6, <1>11, <1>14, <1>15 DEF c, b, T, R, Y, h, Z

LEMMA ParseStep ==
    ASSUME ChannelInv, NEW p \in Peer, Parse(p)
    PROVE  ChannelInv'
<1>. DEFINE d == Other(p)
            a == Len(arrived[d]) + 1
            R == Taken(p)
            Y == Left(p)
            Z == wire[d] \o Behind(d)
            whole == Len(R) = Length(Script[d][a])
<1>1. /\ ChannelType /\ d \in Peer /\ d # p /\ Other(d) = p
      /\ \A q \in Peer : /\ Fits(output[q]) /\ Fits(input[q]) /\ Begun(q) /\ Sound(q)
                         /\ q = p \/ q = d
  BY Others DEF ChannelInv
<1>. HIDE DEF d
<1>2. /\ Chunk(p) \in 1 .. Len(input[p].bytes) /\ a \in 1 .. Len(given[d])
      /\ R \in Seq(Sent(d)) /\ Y \in Seq(Sent(d))
      /\ Ahead(d) = << <<a, 0>> >> \o (R \o Y) /\ R[1][1] = a
      /\ whole => R = Bytes(d, a) /\ Chained(d, << <<a + 1, 0>> >> \o (Y \o Z))
  <2>1. d = Other(p) /\ a = Len(arrived[d]) + 1
    BY DEF d
  <2>. HIDE DEF a
  <2>. QED  BY <2>1, Parsed
<1>. HIDE DEF a
<1>3. /\ phase[p] = "ready"
      /\ \/ /\ whole /\ reading' = [reading EXCEPT ![p] = <<>>]
            /\ arrived' = [arrived EXCEPT ![d] = Append(@, Spelt(d, R))]
         \/ ~whole /\ reading' = [reading EXCEPT ![p] = R] /\ UNCHANGED arrived
      /\ input' = [input EXCEPT ![p] = Drop(@, Chunk(p))]
      /\ UNCHANGED <<phase, queue, output, wire, given>>
  BY <1>2 DEF Parse, Taken, d
<1>4. ChannelType'
  BY <1>1, <1>3 DEF ChannelType
<1>5. /\ input'[p] = Drop(input[p], Chunk(p)) /\ input'[d] = input[d]
      /\ reading'[d] = reading[d] /\ arrived'[p] = arrived[p]
      /\ whole => reading'[p] = <<>> /\ arrived'[d] = Append(arrived[d], Spelt(d, R))
      /\ ~whole => reading'[p] = R /\ arrived'[d] = arrived[d]
  BY <1>1, <1>3 DEF ChannelType
<1>6. Fits(input'[p]) /\ input'[p].bytes = Y
  <2>1. Chunk(p) \in 0 .. Len(input[p].bytes)
    BY <1>2
  <2>. QED  BY ZenonT(60), <1>1, <1>5, <2>1, DropFits DEF Left
<1>. HIDE DEF R, Y
<1>7. Sound(p)'
  <2>1. input'[Other(p)] = input[Other(p)] /\ reading'[Other(p)] = reading[Other(p)]
    BY <1>5 DEF d
  <2>. QED  BY <1>1, <1>3, <1>5, <2>1, SameDirection
<1>8. Sound(d)'
  <2>1. Sent(d)' = Sent(d) /\ Behind(d)' = Behind(d)
    <3>1. SizeOwed(d)' <=> SizeOwed(d)
      BY <1>3 DEF SizeOwed
    <3>2. Owed(d)' = Owed(d) /\ Stop(d)' = Stop(d)
      BY <1>3, <3>1 DEF Owed, Stop
    <3>. QED  BY <1>3, <3>2 DEF Sent, Behind
  <2>2. Carried(d) /\ Counted(d) /\ Owing(d) /\ Sent(d) \subseteq Pair
    BY <1>1, SentPairs DEF Sound
  <2>3. Carried(d)'
    <3>1. reading'[p] \in Seq(Sent(d))
      <4>1. <<>> \in Seq(Sent(d))
        OBVIOUS
      <4>. QED  BY <1>2, <1>5, <4>1
    <3>. QED  BY <1>1, <1>2, <1>3, <1>6, <2>1, <2>2, <3>1 DEF Carried
  <2>4. Owing(d)'
    BY <1>3, <2>2 DEF Owing
  <2>5. R \in Seq(Pair) /\ Y \in Seq(Pair) /\ Z \in Seq(Pair)
    <3>1. wire[d] \in Seq(Pair) /\ Behind(d) \in Seq(Pair)
      BY <1>1, Pieces DEF Sound
    <3>. QED  BY <1>2, <2>2, <3>1, SeqMonotonic, ConcatProperties
  <2>6. CASE ~whole
    <3>1. Counted(d)'
      BY <1>3, <1>5, <2>2, <2>6 DEF Counted, OfScript
    <3>2. Ahead(d)' = Ahead(d)
      BY <1>1, <1>2, <1>5, <1>6, <2>6 DEF Ahead, a
    <3>3. InOrder(d)'
      <4>1. Ahead(d)' \o (wire'[d] \o Behind(d)') = Ahead(d) \o (wire[d] \o Behind(d))
        BY <1>3, <2>1, <3>2
      <4>2. phase'[Other(d)] = "closed" \/ Chained(d, Ahead(d) \o (wire[d] \o Behind(d)))
        BY <1>1, <1>3 DEF InOrder, Sound
      <4>. QED  BY <1>1, <4>1, <4>2, InOrderNext
    <3>. QED  BY <2>3, <2>4, <3>1, <3>3 DEF Sound
  <2>7. CASE whole
    <3>1. arrived'[d] = Append(arrived[d], Script[d][a])
      BY <1>2, <1>5, <2>7 DEF Spelt
    <3>2. a \in 1 .. Len(Script[d]) /\ a = Len(arrived[d]) + 1
          /\ Script[d][a] \in Message
      <4>1. Len(given[d]) \in 0 .. Len(Script[d])
        BY <1>1, <2>2, SentPairs
      <4>2. a \in 1 .. Len(Script[d])
        BY <1>2, <4>1
      <4>. QED  BY <1>1, <4>2, Constants DEF a
    <3>3. Counted(d)' /\ Len(arrived'[d]) = a
      <4>. DEFINE s == arrived[d]
                  t == arrived'[d]
                  m == Script[d][a]
      <4>1. s \in Seq(Message) /\ \A i \in 1 .. Len(s) : s[i] = Script[d][i]
        BY <2>2 DEF Counted, OfScript
      <4>2. /\ t \in Seq(Message) /\ Len(t) = Len(s) + 1
            /\ \A i \in 1 .. Len(s) : t[i] = s[i]
            /\ t[Len(s) + 1] = m
        BY <3>1, <3>2, <4>1, AppendProperties
      <4>. HIDE DEF s, t
      <4>3. \A i \in 1 .. Len(t) : t[i] = Script[d][i]
        BY <3>2, <4>1, <4>2 DEF s
      <4>4. OfScript(t, d) /\ Len(t) = a /\ Len(t) <= Len(given[d])
        BY <1>2, <3>2, <4>2, <4>3 DEF OfScript, s
      <4>. QED  BY <1>3, <2>2, <4>4 DEF Counted, OfScript, t
    <3>4. Ahead(d)' = << <<a + 1, 0>> >> \o Y
      <4>1. <<>> \o Y = Y
        BY <2>5, ConcatEmptySeq
      <4>. QED  BY <1>1, <1>5, <1>6, <2>7, <3>3, <4>1 DEF Ahead
    <3>5. InOrder(d)'
      <4>. DEFINE h == << <<a + 1, 0>> >>
      <4>1. h \in Seq(Pair)
        <5>1. <<a + 1, 0>> \in Pair
          BY <1>2 DEF Pair
        <5>. QED  BY <5>1
      <4>2. Ahead(d)' \o (wire'[d] \o Behind(d)') = (h \o Y) \o Z
        BY <1>3, <2>1, <3>4
      <4>3. Chained(d, h \o (Y \o Z))
        BY <1>2, <2>7
      <4>. HIDE DEF h, Z
      <4>4. Cat(h, Cat(Y, Z)) = Cat(Cat(h, Y), Z)
        BY <2>5, <4>1, Catted
      <4>5. Chained(d, (h \o Y) \o Z)
        BY <4>3, <4>4 DEF Cat
      <4>. QED  BY <1>1, <4>2, <4>5, InOrderNext
    <3>. QED  BY <2>3, <2>4, <3>3, <3>5 DEF Sound
  <2>. QED  BY <2>6, <2>7
<1>9. \A q \in Peer : Fits(output[q])' /\ Fits(input[q])'
  <2>1. Fits(output'[p]) /\ Fits(output'[d]) /\ Fits(input'[p]) /\ Fits(input'[d])
    BY <1>1, <1>3, <1>5, <1>6
  <2>. QED  BY <1>1, <2>1 DEF Fits
<1>10. Begun(p)' /\ Begun(d)'
  <2>1. Begun(d)
    BY <1>1
  <2>. QED  BY <1>3, <1>5, <2>1 DEF Begun
<1>. QED  BY <1>1, <1>4, <1>7, <1>8, <1>9, <1>10 DEF ChannelInv

-----------------------------------------------------------------------------
LEMMA InitInv == Init => ChannelInv
<1>. SUFFICES ASSUME Init PROVE ChannelInv
  OBVIOUS
<1>1. ChannelType
  BY DEF Init, ChannelType
<1>2. ASSUME NEW p \in Peer
      PROVE  Fits(output[p]) /\ Fits(input[p]) /\ Begun(p) /\ Sound(p)
  <2>1. Other(p) \in Peer
    BY Others
  <2>2. /\ phase[p] = "none" /\ phase[Other(p)] = "none" /\ queue[p] = <<>>
        /\ output[p] = Empty /\ input[p] = Empty /\ input[Other(p)] = Empty
        /\ wire[p] = <<>> /\ reading[Other(p)] = <<>>
        /\ given[p] = <<>> /\ arrived[p] = <<>>
    BY <2>1 DEF Init
  <2>3. Fits(output[p]) /\ Fits(input[p]) /\ Begun(p)
    BY <2>2, EmptyFits DEF Begun
  <2>4. Carried(p)
    <3>1. <<>> \in Seq(Sent(p)) /\ <<>> \in Seq(Sent(p) \cup {Flight})
      OBVIOUS
    <3>. QED  BY <2>2, <3>1, EmptyFits DEF Carried
  <2>5. Counted(p)
    <3>1. <<>> \in Seq(Message) /\ Len(<<>>) = 0
      OBVIOUS
    <3>2. Script[p] \in Seq(Message)
      BY Constants
    <3>. QED  BY <2>2, <3>1, <3>2 DEF Counted, OfScript
  <2>6. Owing(p)
    BY <2>2 DEF Owing
  <2>7. InOrder(p)
    <3>. DEFINE x == <<1, 0>>
                y == <<1, 1>>
    <3>1. x \in Pair /\ y \in Pair /\ y = After(p, x)
      BY DEF Pair, After
    <3>2. Ahead(p) = <<x>> \o (<<>> \o <<>>) /\ Behind(p) = <<>> \o (<<>> \o <<y>>)
      <4>1. Len(<<>>) + 1 = 1
        OBVIOUS
      <4>2. Owed(p) = <<>> /\ Stop(p) = <<y>>
        BY <2>2, <4>1 DEF Owed, SizeOwed, Stop
      <4>. QED  BY <2>2, <4>1, <4>2, EmptyFits DEF Ahead, Behind
    <3>. HIDE DEF x, y
    <3>. DEFINE V == <<x>> \o <<y>>
    <3>3. Ahead(p) \o (wire[p] \o Behind(p)) = V
      <4>1. <<x>> \in Seq(Pair) /\ <<y>> \in Seq(Pair) /\ <<>> \in Seq(Pair)
        BY <3>1
      <4>2. \A s \in Seq(Pair) : <<>> \o s = s /\ s \o <<>> = s
        BY ConcatEmptySeq
      <4>3. Ahead(p) = <<x>> /\ Behind(p) = <<y>> /\ <<>> \o <<y>> = <<y>>
        BY <3>2, <4>1, <4>2
      <4>. QED  BY <2>2, <4>3
    <3>4. DOMAIN V = 1 .. 2 /\ V[1] = x /\ V[2] = y
      BY <3>1
    <3>. HIDE DEF V
    <3>5. Chained(p, V)
      BY <3>1, <3>4 DEF Chained
    <3>. QED  BY <3>3, <3>5 DEF InOrder
  <2>. QED  BY <2>3, <2>4, <2>5, <2>6, <2>7 DEF Sound
<1>. QED  BY <1>1, <1>2 DEF ChannelInv

LEMMA NextInv == ChannelInv /\ [Next]_vars => ChannelInv'
<1>. SUFFICES ASSUME ChannelInv, [Next]_vars PROVE ChannelInv'
  OBVIOUS
<1>1. CASE UNCHANGED vars
  <2>1. ChannelType' /\ \A p \in Peer : Fits(output[p]) /\ Fits(input[p])
    BY <1>1 DEF ChannelInv, ChannelType, vars
  <2>2. UNCHANGED <<phase, queue, output, input, wire, reading, given, arrived>>
    BY <1>1 DEF vars
  <2>. QED  BY <2>1, <2>2, Quiet
<1>2. CASE \E ok \in BOOLEAN : Create(ok) \/ Connect(ok)
  <2>1. "client" \in Peer
    BY DEF Peer
  <2>2. Create(TRUE) \/ Connect(TRUE) \/ Create(FALSE) \/ Connect(FALSE)
    BY <1>2, Zenon
  <2>. QED  BY <2>1, <2>2, QuietStep, ClosingStep
<1>3. CASE Accept
  BY <1>3, QuietStep DEF Peer
<1>4. ASSUME NEW p \in Peer,
             \/ Start(p) \/ Fail(p) \/ HangUp(p) \/ Handshake(p) \/ Renegotiate(p)
             \/ Receive(p) \/ Deliver(p) \/ Parse(p)
      PROVE  ChannelInv'
  <2>1. CASE Start(p) \/ Renegotiate(p) \/ ReadBlocks(p) \/ WriteBlocks(p)
    BY <2>1, QuietStep
  <2>2. CASE Fail(p) \/ HangUp(p) \/ WriteFails(p)
    BY <2>2, ClosingStep
  <2>3. CASE Handshake(p)
    BY <2>3, FlightStep DEF Handshake
  <2>4. ASSUME NEW n \in 1 .. Wire, Read(p, n) PROVE ChannelInv'
    BY <2>4, ReadStep
  <2>5. ASSUME NEW n \in 1 .. Wire, Write(p, n) PROVE ChannelInv'
    BY <2>5, WriteStep
  <2>6. CASE Parse(p)
    BY <2>6, ParseStep
  <2>. QED  BY <1>4, <2>1, <2>2, <2>3, <2>4, <2>5, <2>6 DEF Receive, Deliver
<1>5. CASE Send \/ Flush \/ Answer \/ Rest
  BY <1>5, ClientStep, AnswerStep, RestStep
<1>. QED  BY <1>1, <1>2, <1>3, <1>4, <1>5 DEF Next

(* A message that a peer gives is one of its own.                          *)
LEMMA GivenToPipe ==
    ASSUME ChannelInv, NEW p \in Peer, Gives(p), Giving(p), UNCHANGED arrived
    PROVE  ThePipe!PipeNext
<1>. DEFINE i == Len(given[p]) + 1
            m == Script[p][i]
<1>1. i \in 1 .. Len(Script[p])
  BY NextGiven DEF ChannelInv, Sound
<1>2. m \in Messages
  <2>1. Script[p] \in Seq(Message)
    BY Constants
  <2>2. i \in DOMAIN Script[p]
    BY <1>1, <2>1
  <2>3. m \in ToSet(Script[p])
    BY <2>2 DEF ToSet
  <2>. QED  BY <2>3 DEF Messages
<1>3. given' = [given EXCEPT ![p] = Append(@, m)]
  BY DEF Giving
<1>. HIDE DEF m
<1>4. ThePipe!Give(p, m)
  BY <1>3 DEF ThePipe!Give
<1>. QED  BY <1>2, <1>4 DEF ThePipe!PipeNext

(* A message that was read whole is the next the other has given.          *)
LEMMA ParsedToPipe ==
    ASSUME ChannelInv, NEW p \in Peer, Parse(p)
    PROVE  ThePipe!PipeNext \/ UNCHANGED <<given, arrived>>
<1>. DEFINE d == Other(p)
            a == Len(arrived[d]) + 1
            R == Taken(p)
<1>1. d \in Peer /\ Counted(d)
  BY Others DEF ChannelInv, Sound
<1>2. /\ a \in 1 .. Len(given[d]) /\ R[1][1] = a
      /\ Len(R) = Length(Script[d][a]) => R = Bytes(d, a)
  <2>1. d = Other(p) /\ a = Len(arrived[d]) + 1
    OBVIOUS
  <2>. HIDE DEF a, d
  <2>. QED  BY <2>1, Parsed
<1>3. /\ given' = given
      /\ \/ arrived' = [arrived EXCEPT ![d] = Append(@, Spelt(d, R))] /\ R = Bytes(d, a)
         \/ UNCHANGED arrived
  BY <1>2 DEF Parse, Taken
<1>4. CASE UNCHANGED arrived
  BY <1>3, <1>4
<1>5. CASE arrived' = [arrived EXCEPT ![d] = Append(@, Spelt(d, R))] /\ R = Bytes(d, a)
  <2>1. Spelt(d, R) = Script[d][a]
    BY <1>2, <1>5 DEF Spelt
  <2>2. Script[d][a] = given[d][a]
    BY <1>1, <1>2 DEF Counted, OfScript
  <2>3. Len(arrived[d]) < Len(given[d])
    BY <1>1, <1>2, SentPairs
  <2>4. arrived' = [arrived EXCEPT ![d] = Append(@, given[d][Len(@) + 1])]
    BY <1>5, <2>1, <2>2
  <2>. HIDE DEF d
  <2>5. ThePipe!Arrive(d)
    BY <1>3, <2>3, <2>4 DEF ThePipe!Arrive
  <2>. QED  BY <1>1, <2>5 DEF ThePipe!PipeNext
<1>. QED  BY <1>3, <1>4, <1>5

LEMMA StepToPipe == ChannelInv /\ [Next]_vars => [ThePipe!PipeNext]_<<given, arrived>>
<1>. SUFFICES ASSUME ChannelInv, [Next]_vars
              PROVE  ThePipe!PipeNext \/ UNCHANGED <<given, arrived>>
  OBVIOUS
<1>1. CASE UNCHANGED vars
  BY <1>1 DEF vars
<1>2. CASE Accept \/ \E ok \in BOOLEAN : Create(ok) \/ Connect(ok)
  BY <1>2 DEF Accept, Create, Connect
<1>3. ASSUME NEW p \in Peer,
             \/ Start(p) \/ Fail(p) \/ HangUp(p) \/ Handshake(p) \/ Renegotiate(p)
             \/ Receive(p) \/ Deliver(p)
      PROVE  UNCHANGED <<given, arrived>>
  BY <1>3 DEF Start, Fail, HangUp, Delete, Handshake, SendFlight, ReceiveFlight, Renegotiate,
              Receive, Read, ReadBlocks, Deliver, Write, WriteBlocks, WriteFails
<1>4. CASE Flush \/ Rest
  BY <1>4 DEF Flush, SendAll, Rest
<1>5. CASE Send
  BY <1>5, GivenToPipe DEF Send, SendAll, Peer
<1>6. CASE Answer
  BY <1>6, GivenToPipe DEF Answer, Peer
<1>7. ASSUME NEW p \in Peer, Parse(p)
      PROVE  ThePipe!PipeNext \/ UNCHANGED <<given, arrived>>
  BY <1>7, ParsedToPipe
<1>. QED  BY <1>1, <1>2, <1>3, <1>4, <1>5, <1>6, <1>7 DEF Next

(* No piece of a message is lost, doubled or moved on its way, at any time *)
(* and by whatever the buffers, the queues, the network and the handshakes *)
(* do.                                                                     *)
THEOREM ChannelSound == Spec => []ChannelInv
<1>. QED  BY InitInv, NextInv, PTL DEF Spec

(* The connection is a pipe: what one program sends through core_send_*    *)
(* and the loop of the server the other receives, message by message, each *)
(* whole, once and in order, until the connection ends.                    *)
THEOREM PipeCorrect == Spec => PipeSpec
<1>1. Init => ThePipe!PipeInit
  BY DEF Init, ThePipe!PipeInit
<1>. QED  BY <1>1, StepToPipe, ChannelSound, PTL DEF Spec, PipeSpec, ThePipe!PipeSpec

================================================================================
