---------------------------- MODULE CoderProofs ----------------------------
(***************************************************************************)
(* The arithmetic of the range coder for every width of byte and every     *)
(* rate: intervals are never empty, nothing overflows.                     *)
(***************************************************************************)
EXTENDS Coder, SequenceTheorems, WellFoundedInduction, TLAPS

(* Multiplying by a natural number keeps the order.                        *)
LEMMA TimesMonotone ==
    ASSUME NEW k \in Nat, NEW a \in Nat, NEW b \in Nat, a <= b
    PROVE  k * a <= k * b
  OBVIOUS

(* Quotient and remainder of an integer.                                   *)
LEMMA DivFacts ==
    ASSUME NEW n \in Int, NEW d \in Nat \ {0}
    PROVE  /\ n \div d \in Int /\ n % d \in 0 .. d - 1
           /\ n = (n \div d) * d + (n % d)
  OBVIOUS

(* The quotient of natural numbers is one.                                 *)
LEMMA DivNat ==
    ASSUME NEW n \in Nat, NEW d \in Nat \ {0}
    PROVE  n \div d \in Nat
  <1>1. n \div d \in Int /\ n % d \in 0 .. d - 1 /\ n = (n \div d) * d + (n % d)
    BY DivFacts
  <1>2. ASSUME n \div d < 0 PROVE FALSE
    <2>1. -(n \div d) - 1 \in Nat  BY <1>1, <1>2
    <2>2. \A e \in Nat : e * d \in Nat  OBVIOUS
    <2>3. (-(n \div d) - 1) * d = -((n \div d) * d) - d  BY <1>1
    <2> QED  BY <1>1, <2>1, <2>2, <2>3
  <1> QED  BY <1>1, <1>2

(* The quotient is the one number that leaves a remainder under d.         *)
LEMMA DivUnique ==
    ASSUME NEW d \in Nat \ {0}, NEW q \in Nat, NEW r \in 0 .. d - 1
    PROVE  (q * d + r) \div d = q /\ (q * d + r) % d = r
  OBVIOUS

(* The widths of a probability, of the first byte and of a word.           *)
LEMMA Widths ==
    /\ Byte \in Nat \ {0} /\ Prob \in Nat \ {0}
    /\ Top \in Nat \ {0} /\ Word \in Nat \ {0} /\ Word = Byte * Top
    /\ Prob > 1
  <1>1. Byte \in Nat \ {0} /\ Byte > 1  BY CoderAssumption
  <1>2. \A a, b \in Nat \ {0} : a * b \in Nat \ {0}  OBVIOUS
  <1>3. Prob \in Nat \ {0}  BY <1>1, <1>2 DEF Prob
  <1>4. Top \in Nat \ {0}  BY <1>1, <1>2, <1>3 DEF Top
  <1>5. Word \in Nat \ {0} /\ Word = Byte * Top  BY <1>1, <1>2, <1>4 DEF Word
  <1>6. Prob > 1
    <2>1. Byte * 1 <= Byte * Byte  BY <1>1, TimesMonotone
    <2> QED  BY <1>1, <2>1 DEF Prob
  <1> QED  BY <1>1, <1>3, <1>4, <1>5, <1>6

(* Both halves of an interval are left with something: no bit is lost.     *)
LEMMA MidInside ==
    ASSUME NEW a \in Nat, NEW b \in Nat, a < b, NEW q \in 0 .. Prob - 1
    PROVE  Mid(a, b, q) \in Nat /\ a <= Mid(a, b, q) /\ Mid(a, b, q) < b
  <1>1. b - a \in Nat  OBVIOUS
  <1>2. PICK k \in Nat : k = (b - a) \div Prob  BY <1>1, Widths, DivNat
  <1>3. k * Prob <= b - a /\ k * Prob \in Nat
    <2>1. b - a = k * Prob + ((b - a) % Prob) /\ (b - a) % Prob \in 0 .. Prob - 1
      BY <1>1, <1>2, Widths, DivFacts
    <2>2. k * Prob \in Nat  BY Widths
    <2> QED  BY <1>1, <2>1, <2>2, Widths
  <1>4. k * q \in Nat /\ k * q <= k * (Prob - 1)  BY Widths, TimesMonotone
  <1>5. k * (Prob - 1) = k * Prob - k  BY Widths
  <1>6. k = 0 => k * q = 0  BY Widths
  <1>7. Mid(a, b, q) = a + k * q  BY <1>2 DEF Mid
  <1> QED  BY <1>1, <1>3, <1>4, <1>5, <1>6, <1>7

(* A shift keeps the order of two limits with the same first byte.         *)
LEMMA ShiftInside ==
    ASSUME NEW a \in 0 .. Word - 1, NEW b \in 0 .. Word - 1, a <= b, SameTop(a, b)
    PROVE  /\ Shifted(a) \in 0 .. Word - 1
           /\ Shifted(b) + Byte - 1 \in 0 .. Word - 1
           /\ Shifted(a) <= Shifted(b) + Byte - 1
  <1>1. PICK t \in Nat : t = a \div Top /\ t = b \div Top
    BY Widths, DivNat DEF SameTop
  <1>2. PICK l \in 0 .. Top - 1 : a = t * Top + l
    <2>1. a \in Int  BY Widths
    <2> QED  BY <1>1, <2>1, Widths, DivFacts
  <1>3. PICK h \in 0 .. Top - 1 : b = t * Top + h
    <2>1. b \in Int  BY Widths
    <2> QED  BY <1>1, <2>1, Widths, DivFacts
  <1>4. t * Top \in Nat  BY Widths
  <1>5. l <= h  BY <1>2, <1>3, <1>4, Widths
  <1>6. ASSUME NEW n \in 0 .. Top - 1
        PROVE  /\ n * Byte \in 0 .. Word - Byte
               /\ Shifted(t * Top + n) = n * Byte
    <2>1. n * Byte \in Nat /\ n * Byte = Byte * n  BY Widths
    <2>2. Byte * n <= Byte * (Top - 1)  BY Widths, TimesMonotone
    <2>3. Byte * (Top - 1) = Word - Byte  BY Widths
    <2>4. n * Byte \in 0 .. Word - Byte /\ n * Byte \in 0 .. Word - 1
      BY <2>1, <2>2, <2>3, Widths
    <2>5. (t * Top + n) * Byte = t * (Byte * Top) + n * Byte  BY Widths
    <2>6. (t * Word + n * Byte) % Word = n * Byte  BY <2>4, Widths, DivUnique
    <2> QED  BY <2>4, <2>5, <2>6, Widths DEF Shifted
  <1>7. /\ Shifted(a) = l * Byte /\ Shifted(b) = h * Byte
        /\ l * Byte \in 0 .. Word - Byte /\ h * Byte \in 0 .. Word - Byte
    BY <1>2, <1>3, <1>6
  <1>8. l * Byte <= h * Byte
    <2>1. Byte * l <= Byte * h  BY <1>5, Widths, TimesMonotone
    <2> QED  BY <2>1, Widths
  <1> QED  BY <1>7, <1>8, Widths

(* A probability fits in its two bytes, whatever is coded.                 *)
LEMMA UpdateFits ==
    ASSUME NEW q \in 0 .. Prob - 1, NEW bit \in Bit
    PROVE  UpdateP(q, bit) \in 0 .. Prob - 1
  <1>1. Rate \in Nat \ {0} /\ Rate > 1 /\ q \in Nat  BY CoderAssumption, Widths
  <1>2. \A e \in Nat : e * Rate >= 2 * e /\ e * Rate \in Nat
    <2> TAKE e \in Nat
    <2>1. e * 2 <= e * Rate  BY <1>1, TimesMonotone
    <2> QED  BY <1>1, <2>1
  <1>3. CASE bit = 0
    <2>0. PICK n \in Int : n = -q  BY <1>1
    <2>1. PICK k \in Int : k = n \div Rate  BY <1>1, DivFacts
    <2>2. PICK r \in 0 .. Rate - 1 : -q = k * Rate + r
      BY <1>1, <2>0, <2>1, DivFacts
    <2>3. k <= 0
      <3>1. ASSUME k > 0 PROVE FALSE
        BY <1>1, <1>2, <2>2, <3>1
      <3> QED  BY <3>1
    <2>4. q + k >= 0
      <3>1. -k \in Nat /\ (-k) * Rate = -(k * Rate)  BY <1>1, <2>3
      <3>2. (-k) * Rate >= 2 * (-k)  BY <1>2, <3>1
      <3>3. q = (-k) * Rate - r  BY <1>1, <2>2, <3>1
      <3>4. ASSUME -k > q PROVE FALSE
        <4>1. -k - 1 \in Nat  BY <1>1, <2>3, <3>4
        <4>2. (-k - 1) * Rate >= 2 * (-k - 1)  BY <1>2, <4>1
        <4>3. (-k - 1) * Rate = (-k) * Rate - Rate  BY <1>1
        <4> QED  BY <1>1, <2>2, <3>1, <3>3, <3>4, <4>1, <4>2, <4>3
      <3> QED  BY <1>1, <3>1, <3>4
    <2>5. UpdateP(q, bit) = q + k
      <3>1. bit * Prob - q = n  BY <1>1, <1>3, <2>0, Widths
      <3> QED  BY <2>1, <3>1 DEF UpdateP
    <2> QED  BY <1>1, <2>1, <2>3, <2>4, <2>5, Widths
  <1>4. CASE bit = 1
    <2>1. Prob - q \in Nat \ {0}  BY Widths
    <2>2. PICK k \in Nat : k = (Prob - q) \div Rate  BY <1>1, <2>1, DivNat
    <2>3. PICK r \in 0 .. Rate - 1 : Prob - q = k * Rate + r
      <3>1. Prob - q \in Int  BY <2>1
      <3> QED  BY <1>1, <2>2, <3>1, DivFacts
    <2>4. k * Rate >= 2 * k /\ k * Rate \in Nat  BY <1>2
    <2>5. k < Prob - q  BY <1>1, <2>1, <2>3, <2>4
    <2>6. UpdateP(q, bit) = q + k
      <3>1. bit * Prob - q = Prob - q  BY <1>1, <1>4, Widths
      <3> QED  BY <2>2, <3>1 DEF UpdateP
    <2> QED  BY <1>1, <2>5, <2>6, Widths
  <1> QED  BY <1>3, <1>4 DEF Bit

(* A shifted word leaves room for a byte.                                  *)
LEMMA ShiftRoom ==
    ASSUME NEW a \in 0 .. Word - 1, NEW c \in 0 .. Byte - 1
    PROVE  Shifted(a) + c \in 0 .. Word - 1
  <1>1. PICK t \in Nat : t = a \div Top  BY Widths, DivNat
  <1>2. PICK l \in 0 .. Top - 1 : a = t * Top + l
    <2>1. a \in Int  BY Widths
    <2> QED  BY ZenonT(60), <1>1, <2>1, Widths, DivFacts
  <1>3. l * Byte \in Nat /\ l * Byte = Byte * l  BY Widths
  <1>4. Byte * l <= Byte * (Top - 1)  BY Widths, TimesMonotone
  <1>5. Byte * (Top - 1) = Word - Byte  BY Widths
  <1>6. l * Byte \in 0 .. Word - Byte /\ l * Byte \in 0 .. Word - 1
    BY <1>3, <1>4, <1>5, Widths
  <1>7. (t * Top + l) * Byte = t * (Byte * Top) + l * Byte  BY Widths
  <1>8. (t * Word + l * Byte) % Word = l * Byte  BY <1>6, Widths, DivUnique
  <1>9. Shifted(a) = l * Byte  BY <1>2, <1>7, <1>8, Widths DEF Shifted
  <1> QED  BY <1>6, <1>9, Widths

(* The four bytes of a word, and the word of four bytes.                   *)
LEMMA TopByte ==
    ASSUME NEW a \in 0 .. Word - 1
    PROVE  a \div Top \in 0 .. Byte - 1
  <1>1. PICK t \in Nat : t = a \div Top  BY Widths, DivNat
  <1>2. PICK l \in 0 .. Top - 1 : a = t * Top + l
    <2>1. a \in Int  BY Widths
    <2> QED  BY ZenonT(60), <1>1, <2>1, Widths, DivFacts
  <1>3. ASSUME t >= Byte PROVE FALSE
    <2>1. Top * Byte <= Top * t  BY <1>3, Widths, TimesMonotone
    <2>2. Top * Byte = Word /\ Top * t = t * Top /\ t * Top \in Nat  BY Widths
    <2> QED  BY <1>2, <2>1, <2>2, Widths
  <1> QED  BY <1>1, <1>3, Widths

LEMMA OtherBytes ==
    ASSUME NEW a \in 0 .. Word - 1
    PROVE  /\ (a \div Prob) % Byte \in 0 .. Byte - 1
           /\ (a \div Byte) % Byte \in 0 .. Byte - 1
           /\ a % Byte \in 0 .. Byte - 1
  <1>1. a \in Nat /\ a \in Int  BY Widths
  <1>2. PICK m \in Int : m = a \div Prob  BY <1>1, Widths, DivFacts
  <1>3. PICK n \in Int : n = a \div Byte  BY <1>1, Widths, DivFacts
  <1> QED  BY <1>1, <1>2, <1>3, Widths, DivFacts

LEMMA WordOf ==
    ASSUME NEW a \in 0 .. Byte - 1, NEW b \in 0 .. Byte - 1,
           NEW c \in 0 .. Byte - 1, NEW d \in 0 .. Byte - 1
    PROVE  a * Top + b * Prob + c * Byte + d \in 0 .. Word - 1
  <1>1. ASSUME NEW m \in Nat \ {0}, NEW n \in 0 .. Byte - 1
        PROVE  n * m \in Nat /\ n * m <= Byte * m - m
    <2>1. m * n <= m * (Byte - 1)  BY Widths, TimesMonotone
    <2>2. m * (Byte - 1) = Byte * m - m /\ m * n = n * m /\ n * m \in Nat  BY Widths
    <2> QED  BY <2>1, <2>2
  <1>2. a * Top \in Nat /\ a * Top <= Word - Top  BY <1>1, Widths
  <1>3. b * Prob \in Nat /\ b * Prob <= Top - Prob  BY <1>1, Widths DEF Top
  <1>4. c * Byte \in Nat /\ c * Byte <= Prob - Byte  BY <1>1, Widths DEF Prob
  <1> QED  BY <1>2, <1>3, <1>4, Widths

LEMMA ByteMessage ==
    ASSUME NEW v \in 0 .. Byte - 1
    PROVE  [kind |-> "byte", v |-> v] \in Message
  BY DEF Message

LEMMA Kinds ==
    ASSUME NEW m \in Message
    PROVE  /\ m.kind = "byte" => m.v \in 0 .. Byte - 1
           /\ m.kind = "image" => m.v \in Nat
  BY DEF Message

(* The node of a bit is one of the tree.                                   *)
LEMMA NodeIn ==
    ASSUME NEW bits \in Seq(Bit), NEW n \in 0 .. Len(bits)
    PROVE  NodeAt(bits, n) \in Node
  <1>1. Bits \in Nat \ {0} /\ n \in Nat /\ n \in Int  BY CoderAssumption
  <1>2. PICK r \in 0 .. Bits - 1 : r = n % Bits  BY <1>1, DivFacts
  <1>9. r \in Nat /\ r \in Int  BY <1>1
  <1>3. r <= n
    <2>1. PICK q \in Nat : q = n \div Bits  BY <1>1, DivNat
    <2>2. n = q * Bits + r /\ q * Bits \in Nat  BY <1>1, <1>2, <2>1, DivFacts
    <2> QED  BY <2>2, <1>1
  <1>4. NodeAt(bits, n) = SubSeq(bits, n - r + 1, n)  BY <1>2 DEF NodeAt
  <1>5. SubSeq(bits, n - r + 1, n) \in [1 .. r -> Bit]
    <2>1. \A i \in n - r + 1 .. n : bits[i] \in Bit  BY <1>1, <1>2, <1>3
    <2>2. PICK s : s = SubSeq(bits, n - r + 1, n)  OBVIOUS
    <2>3. s \in Seq(Bit) /\ Len(s) = r
      <3>1. PICK m \in Int : m = n - r + 1  BY <1>1, <1>9
      <3>2. \A i \in m .. n : bits[i] \in Bit  BY <2>1, <3>1
      <3>3. /\ SubSeq(bits, m, n) \in Seq(Bit)
            /\ Len(SubSeq(bits, m, n)) = IF m <= n THEN n - m + 1 ELSE 0
        BY <1>1, <3>2, SubSeqProperties
      <3> QED  BY <1>1, <1>3, <1>9, <2>2, <3>1, <3>3
    <2>4. s \in [1 .. Len(s) -> Bit]  BY <2>3, LenProperties
    <2> QED  BY <2>2, <2>3, <2>4
  <1> QED  BY <1>1, <1>4, <1>5 DEF Node, BitSeq

(* Type correctness; above all no interval is ever empty and no probability*)
(* leaves its two bytes.                                                   *)
THEOREM TypeCorrect == Spec => []TypeOK
  <1>1. Init => TypeOK
    <2> SUFFICES ASSUME Init PROVE TypeOK  OBVIOUS
    <2>1. Prob \div 2 \in 0 .. Prob - 1
      <3>1. PICK n \in Nat : n = Prob \div 2  BY Widths, DivNat
      <3>2. PICK r \in 0 .. 1 : Prob = n * 2 + r  BY <3>1, Widths, DivFacts
      <3> QED  BY <3>1, <3>2, Widths
    <2>2. source = <<>> /\ Len(source) = 0  BY DEF Init, source
    <2>3. p \in [Node -> 0 .. Prob - 1] /\ dp \in [Node -> 0 .. Prob - 1]
      BY <2>1 DEF Init
    <2>4. 0 \in 0 .. Word - 1  BY Widths
    <2>5. sources \in Seq(Source) /\ wire \in Seq(Message) /\ output \in Seq(Bit)
      BY DEF Init
    <2>6. coded \in 0 .. Len(source)  BY <2>2 DEF Init
    <2>7. /\ {lo, hi, dlo, dhi, x} \subseteq 0 .. Word - 1
          /\ lo <= hi /\ dlo <= dhi
      BY <2>4 DEF Init
    <2>8. flush \in BOOLEAN /\ dflush \in BOOLEAN /\ expected \in Nat /\ image \in Nat
      BY DEF Init
    <2> QED  BY <2>3, <2>5, <2>6, <2>7, <2>8 DEF TypeOK
  <1>2. TypeOK /\ [Next]_vars => TypeOK'
    <2> SUFFICES ASSUME TypeOK, [Next]_vars PROVE TypeOK'  OBVIOUS
    <2> USE Widths
    <2>0. source \in Seq(Bit) /\ Len(source) \in Nat
      <3>1. CASE sources = <<>>  BY <3>1 DEF source
      <3>2. CASE sources # <<>>
        <4>1. source = sources[Len(sources)] /\ sources[Len(sources)] \in Source
          BY <3>2 DEF source, TypeOK, Last
        <4>2. PICK n \in 1 .. Symbols : source \in [1 .. n * Bits -> Bit]
          BY <4>1 DEF Source, BitSeq
        <4>3. n * Bits \in Nat  BY CoderAssumption
        <4> QED  BY <4>2, <4>3
      <3> QED  BY <3>1, <3>2
    <2>1. ASSUME NEW s \in Source, BeginImage(s) PROVE TypeOK'
      <3>1. Len(s) \in Nat
        <4>1. PICK n \in 1 .. Symbols : s \in [1 .. n * Bits -> Bit]
          BY DEF Source, BitSeq
        <4>2. n * Bits \in Nat  BY CoderAssumption
        <4> QED  BY <4>1, <4>2
      <3>2. source' = s /\ sources' \in Seq(Source)
        <4>1. /\ sources' = Append(sources, s) /\ sources \in Seq(Source)
              /\ sources' \in Seq(Source)
          BY <2>1 DEF BeginImage, TypeOK
        <4>2. Len(sources') = Len(sources) + 1 /\ sources'[Len(sources')] = s
          BY <4>1
        <4>3. sources' # <<>>  BY <4>1, <4>2
        <4> QED  BY <4>1, <4>2, <4>3 DEF source, Last
      <3>3. wire' \in Seq(Message)  BY <2>1, <3>1 DEF BeginImage, TypeOK, Message
      <3> QED  BY <2>1, <3>1, <3>2, <3>3 DEF BeginImage, TypeOK, decoder
    <2>2. CASE EncodeByte
      <3>1. /\ lo' \in 0 .. Word - 1 /\ hi' \in 0 .. Word - 1 /\ lo' <= hi'
        BY <2>2, ShiftInside DEF EncodeByte, TypeOK
      <3>2. wire' \in Seq(Message)
        <4>1. hi \div Top \in 0 .. Byte - 1  BY TopByte DEF TypeOK
        <4> QED  BY SMTT(30), <2>2, <4>1, ByteMessage DEF EncodeByte, TypeOK
      <3>3. source' = source  BY <2>2 DEF EncodeByte, source
      <3> QED  BY <2>2, <3>1, <3>2, <3>3 DEF EncodeByte, TypeOK, decoder
    <2>3. CASE EncodeBit
      <3> DEFINE k == NodeAt(source, coded)
      <3>1. k \in Node /\ p[k] \in 0 .. Prob - 1  BY <2>0, NodeIn DEF TypeOK
      <3>2. lo < hi /\ lo \in Nat /\ hi \in Nat
        BY <2>3 DEF EncodeBit, TypeOK, SameTop
      <3>3. /\ Mid(lo, hi, p[k]) \in Nat
            /\ lo <= Mid(lo, hi, p[k]) /\ Mid(lo, hi, p[k]) < hi
        BY <3>1, <3>2, MidInside
      <3>4. source[coded + 1] \in Bit  BY <2>0, <2>3 DEF EncodeBit, TypeOK
      <3>5. p' \in [Node -> 0 .. Prob - 1]
        <4>1. p' = [p EXCEPT ![k] = UpdateP(@, source[coded + 1])]
          BY <2>3 DEF EncodeBit
        <4>2. UpdateP(p[k], source[coded + 1]) \in 0 .. Prob - 1
          BY <3>1, <3>4, UpdateFits
        <4>3. p \in [Node -> 0 .. Prob - 1]  BY DEF TypeOK
        <4> HIDE DEF k
        <4> QED  BY <3>1, <4>1, <4>2, <4>3
      <3>6. source' = source  BY <2>3 DEF EncodeBit, source
      <3>7. /\ lo' \in 0 .. Word - 1 /\ hi' \in 0 .. Word - 1 /\ lo' <= hi'
        <4>1. \/ lo' = lo /\ hi' = Mid(lo, hi, p[k])
              \/ lo' = Mid(lo, hi, p[k]) + 1 /\ hi' = hi
          BY <2>3 DEF EncodeBit
        <4>2. lo \in 0 .. Word - 1 /\ hi \in 0 .. Word - 1  BY DEF TypeOK
        <4> HIDE DEF k
        <4> QED  BY <3>3, <4>1, <4>2
      <3> QED
        <4>1. coded' \in 0 .. Len(source')
          BY <2>0, <2>3, <3>6 DEF EncodeBit, TypeOK
        <4> QED  BY <2>3, <3>5, <3>7, <4>1 DEF EncodeBit, TypeOK, decoder
    <2>4. CASE EncodeFlush
      <3>1. wire' \in Seq(Message)
        <4>1. PICK a, b, c, d \in 0 .. Byte - 1 :
                 /\ a = hi \div Top /\ b = (hi \div Prob) % Byte
                 /\ c = (hi \div Byte) % Byte /\ d = hi % Byte
          BY TopByte, OtherBytes DEF TypeOK
        <4>2. wire' = wire \o << [kind |-> "byte", v |-> a], [kind |-> "byte", v |-> b],
                                 [kind |-> "byte", v |-> c], [kind |-> "byte", v |-> d] >>
          BY <2>4, <4>1 DEF EncodeFlush
        <4>3. << [kind |-> "byte", v |-> a], [kind |-> "byte", v |-> b],
                 [kind |-> "byte", v |-> c], [kind |-> "byte", v |-> d] >> \in Seq(Message)
          BY ByteMessage
        <4> QED  BY <4>2, <4>3 DEF TypeOK
      <3>2. source' = source  BY <2>4 DEF EncodeFlush, source
      <3> QED  BY <2>4, <3>1, <3>2 DEF EncodeFlush, TypeOK, decoder
    <2> DEFINE Same == encoder' = encoder
    <2>5. Same => /\ source' = source
                  /\ coded' = coded /\ lo' = lo /\ hi' = hi /\ p' = p
                  /\ sources' = sources /\ flush' = flush
      BY DEF encoder, source
    <2>6. CASE DecodeBegin
      <3>1. Head(wire) \in Message /\ wire' \in Seq(Message)
        BY <2>6 DEF DecodeBegin, TypeOK
      <3>2. expected' \in Nat  BY <2>6, <3>1, Kinds DEF DecodeBegin
      <3>3. 0 \in 0 .. Word - 1 /\ Word - 1 \in 0 .. Word - 1 /\ 0 <= Word - 1  OBVIOUS
      <3>4. /\ dlo' \in 0 .. Word - 1 /\ dhi' \in 0 .. Word - 1 /\ dlo' <= dhi'
        BY <2>6, <3>3 DEF DecodeBegin
      <3>5. dflush' \in BOOLEAN /\ output' \in Seq(Bit) /\ image' \in Nat
        BY <2>6 DEF DecodeBegin, TypeOK
      <3>6. dp' = dp /\ x' = x /\ Same  BY <2>6 DEF DecodeBegin
      <3> HIDE DEF Same
      <3> QED  BY <2>5, <3>1, <3>2, <3>4, <3>5, <3>6 DEF TypeOK
    <2>7. CASE DecodeFlush
      <3>1. \A i \in 1 .. 4 : wire[i].v \in 0 .. Byte - 1
        <4>1. \A i \in 1 .. 4 : wire[i] \in Message /\ wire[i].kind = "byte"
          <5>1. \A i \in 1 .. 4 : wire[i].kind = "byte" /\ Len(wire) >= 4
            BY <2>7 DEF DecodeFlush, Bytes
          <5>2. \A i \in 1 .. 4 : i \in 1 .. Len(wire)  BY <5>1 DEF TypeOK
          <5>3. wire \in Seq(Message)  BY DEF TypeOK
          <5> QED  BY <5>1, <5>2, <5>3, ElementOfSeq
        <4> QED  BY <4>1, Kinds
      <3>2. x' \in 0 .. Word - 1
        <4>1. PICK a, b, c, d \in 0 .. Byte - 1 :
                 a = wire[1].v /\ b = wire[2].v /\ c = wire[3].v /\ d = wire[4].v
          BY <3>1
        <4>2. x' = a * Top + b * Prob + c * Byte + d  BY <2>7, <4>1 DEF DecodeFlush
        <4> QED  BY <4>2, WordOf
      <3>3. wire' \in Seq(Message)
        <4>1. \A i \in 5 .. Len(wire) : wire[i] \in Message  BY DEF TypeOK
        <4> QED  BY <2>7, <4>1, SubSeqProperties DEF DecodeFlush, TypeOK
      <3> QED  BY <2>5, <2>7, <3>2, <3>3 DEF DecodeFlush, TypeOK
    <2>8. CASE DecodeByte
      <3>1. Head(wire) \in Message /\ Head(wire).v \in 0 .. Byte - 1
            /\ wire' \in Seq(Message)
        <4>1. /\ Head(wire) \in Message /\ Head(wire).kind = "byte"
              /\ wire' \in Seq(Message)
          <5>1. /\ wire # <<>> /\ wire \in Seq(Message) /\ wire' = Tail(wire)
                /\ wire[1].kind = "byte"
            BY <2>8 DEF DecodeByte, Bytes, TypeOK
          <5> QED  BY <5>1, HeadTailProperties
        <4> QED  BY <4>1, Kinds
      <3>2. /\ dlo' \in 0 .. Word - 1 /\ dhi' \in 0 .. Word - 1 /\ dlo' <= dhi'
        BY <2>8, ShiftInside DEF DecodeByte, TypeOK
      <3>3. x' \in 0 .. Word - 1  BY <2>8, <3>1, ShiftRoom DEF DecodeByte, TypeOK
      <3> QED  BY <2>5, <2>8, <3>1, <3>2, <3>3 DEF DecodeByte, TypeOK
    <2>9. CASE DecodeBit
      <3> DEFINE k == NodeAt(output, Len(output))
                 bit == IF x <= Mid(dlo, dhi, dp[k]) THEN 1 ELSE 0
      <3>1. k \in Node /\ dp[k] \in 0 .. Prob - 1
        <4>1. Len(output) \in 0 .. Len(output)  BY DEF TypeOK
        <4> QED  BY <4>1, NodeIn DEF TypeOK
      <3>2. dlo < dhi /\ dlo \in Nat /\ dhi \in Nat
        BY <2>9 DEF DecodeBit, TypeOK, SameTop
      <3>3. /\ Mid(dlo, dhi, dp[k]) \in Nat
            /\ dlo <= Mid(dlo, dhi, dp[k]) /\ Mid(dlo, dhi, dp[k]) < dhi
        BY <3>1, <3>2, MidInside
      <3>4. bit \in Bit  BY DEF Bit
      <3>5. dp' = [dp EXCEPT ![k] = UpdateP(@, bit)] /\ output' = Append(output, bit)
        BY <2>9 DEF DecodeBit
      <3>6. dp' \in [Node -> 0 .. Prob - 1] /\ output' \in Seq(Bit)
        <4> HIDE DEF k, bit
        <4>1. UpdateP(dp[k], bit) \in 0 .. Prob - 1  BY <3>1, <3>4, UpdateFits
        <4>2. dp \in [Node -> 0 .. Prob - 1] /\ output \in Seq(Bit)  BY DEF TypeOK
        <4>3. dp' \in [Node -> 0 .. Prob - 1]  BY <3>1, <3>5, <4>1, <4>2
        <4>4. output' \in Seq(Bit)  BY <3>4, <3>5, <4>2
        <4> QED  BY <4>3, <4>4
      <3>7. /\ dlo' \in 0 .. Word - 1 /\ dhi' \in 0 .. Word - 1 /\ dlo' <= dhi'
        <4>1. \/ dlo' = dlo /\ dhi' = Mid(dlo, dhi, dp[k])
              \/ dlo' = Mid(dlo, dhi, dp[k]) + 1 /\ dhi' = dhi
          BY <2>9 DEF DecodeBit
        <4>2. dlo \in 0 .. Word - 1 /\ dhi \in 0 .. Word - 1  BY DEF TypeOK
        <4> HIDE DEF k
        <4> QED  BY <3>3, <4>1, <4>2
      <3> QED  BY <2>5, <2>9, <3>6, <3>7 DEF DecodeBit, TypeOK
    <2>10. CASE UNCHANGED vars
      BY <2>10 DEF vars, encoder, decoder, TypeOK, source
    <2> QED
      BY <2>1, <2>2, <2>3, <2>4, <2>6, <2>7, <2>8, <2>9, <2>10 DEF Next, Encode, Decode
  <1> QED  BY <1>1, <1>2, PTL DEF Spec

-----------------------------------------------------------------------------
(* Four bytes and their word.                                              *)

WordOf4(a, b, c, d) == a * Top + b * Prob + c * Byte + d

LEMMA Spread ==
    ASSUME NEW a \in Int, NEW b \in Int, NEW c \in Int, NEW d \in Int
    PROVE  (a * b + c) * d = a * (b * d) + c * d
  OBVIOUS

LEMMA LowPart ==
    ASSUME NEW m \in Nat \ {0}, NEW b \in 0 .. Byte - 1, NEW r \in 0 .. m - 1
    PROVE  b * m \in Nat /\ b * m + r \in 0 .. Byte * m - 1
<1>1. Byte - 1 \in Nat /\ Byte \in Nat
  BY Widths
<1>2. m * b <= m * (Byte - 1)
  BY <1>1, TimesMonotone
<1>3. m * (Byte - 1) = Byte * m - m /\ m * b = b * m /\ b * m \in Nat /\ Byte * m \in Nat
  BY <1>1
<1>. QED  BY <1>2, <1>3

LEMMA TopPart ==
    ASSUME NEW a \in 0 .. Byte - 1, NEW r \in 0 .. Top - 1
    PROVE  /\ a * Top + r \in 0 .. Word - 1
           /\ (a * Top + r) \div Top = a
           /\ Shifted(a * Top + r) = r * Byte
           /\ r * Byte \in 0 .. Word - Byte
<1>1. a * Top + r \in 0 .. Word - 1
  BY LowPart, Widths
<1>2. (a * Top + r) \div Top = a
  BY DivUnique, Widths
<1>3. r * Byte \in 0 .. Word - Byte
  <2>1. Byte * r <= Byte * (Top - 1)
    BY Widths, TimesMonotone
  <2>2. Byte * (Top - 1) = Word - Byte /\ Byte * r = r * Byte /\ r * Byte \in Nat
    BY Widths
  <2>. QED  BY <2>1, <2>2, Widths
<1>4. Shifted(a * Top + r) = r * Byte
  <2>1. (a * Top + r) * Byte = a * (Byte * Top) + r * Byte
    BY Widths
  <2>2. r * Byte \in 0 .. Word - 1
    BY <1>3, Widths
  <2>3. PICK q \in 0 .. Word - 1 : q = r * Byte
    BY <2>2
  <2>4. (a * Word + q) % Word = q
    BY SMTT(30), Widths, DivUnique
  <2>. QED  BY <2>1, <2>3, <2>4, Widths DEF Shifted
<1>. QED  BY <1>1, <1>2, <1>3, <1>4

LEMMA DigitsOf ==
    ASSUME NEW a \in 0 .. Byte - 1, NEW b \in 0 .. Byte - 1,
           NEW c \in 0 .. Byte - 1, NEW d \in 0 .. Byte - 1
    PROVE  LET w == WordOf4(a, b, c, d) IN
           /\ w \in 0 .. Word - 1
           /\ w \div Top = a /\ (w \div Prob) % Byte = b
           /\ (w \div Byte) % Byte = c /\ w % Byte = d
           /\ \E r \in 0 .. Top - 1 :
                /\ w = a * Top + r
                /\ \A e \in 0 .. Byte - 1 : WordOf4(b, c, d, e) = r * Byte + e
<1>1. PICK w : w = WordOf4(a, b, c, d)
  OBVIOUS
<1>2. PICK u \in 0 .. Prob - 1 : u = c * Byte + d
  BY LowPart, Widths DEF Prob
<1>3. PICK r \in 0 .. Top - 1 : r = b * Prob + u
  BY LowPart, Widths DEF Top
<1>4. w = a * Top + r
  BY <1>1, <1>2, <1>3, Widths DEF WordOf4
<1>5. w \in 0 .. Word - 1 /\ w \div Top = a
  BY <1>4, TopPart
<1>6. PICK m \in Nat : m = a * Byte + b
  BY Widths
<1>7. w = m * Prob + u
  BY <1>3, <1>4, <1>6, Widths DEF Top
<1>8. w \div Prob = m /\ m % Byte = b
  BY <1>6, <1>7, DivUnique, Widths
<1>9. PICK n \in Nat : n = m * Byte + c
  BY Widths
<1>10. w = n * Byte + d
  BY <1>2, <1>7, <1>9, Widths DEF Prob
<1>11. w \div Byte = n /\ n % Byte = c /\ w % Byte = d
  BY ZenonT(60), <1>9, <1>10, DivUnique, Widths
<1>12. ASSUME NEW e \in 0 .. Byte - 1 PROVE WordOf4(b, c, d, e) = r * Byte + e
  <2>1. r * Byte = b * (Byte * Prob) + c * (Byte * Byte) + d * Byte
    BY <1>2, <1>3, Widths
  <2>. QED  BY <2>1, Widths DEF WordOf4, Top, Prob
<1>. QED  BY <1>1, <1>4, <1>5, <1>8, <1>11, <1>12

LEMMA WordOfDigits ==
    ASSUME NEW w \in 0 .. Word - 1
    PROVE  w = WordOf4(w \div Top, (w \div Prob) % Byte, (w \div Byte) % Byte, w % Byte)
<1>1. w \in Int /\ w \in Nat
  BY Widths
<1>2. PICK n \in Nat, d \in 0 .. Byte - 1 :
          n = w \div Byte /\ d = w % Byte /\ w = n * Byte + d
  BY <1>1, DivFacts, DivNat, Widths
<1>3. PICK m \in Nat, c \in 0 .. Byte - 1 :
          m = n \div Byte /\ c = n % Byte /\ n = m * Byte + c
  BY SMTT(30), DivFacts, DivNat, Widths
<1>4. PICK a \in Nat, b \in 0 .. Byte - 1 :
          a = m \div Byte /\ b = m % Byte /\ m = a * Byte + b
  BY DivFacts, DivNat, Widths
<1>5. PICK u \in 0 .. Prob - 1 : u = c * Byte + d
  BY LowPart, Widths DEF Prob
<1>6. PICK r \in 0 .. Top - 1 : r = b * Prob + u
  BY LowPart, Widths DEF Top
<1>7. w = m * Prob + u
  <2>0. m \in Int /\ c \in Int /\ Byte \in Int
    BY <1>3, Widths
  <2>1. (m * Byte + c) * Byte = m * (Byte * Byte) + c * Byte
    BY <2>0, Spread
  <2>2. n * Byte = m * Prob + c * Byte
    BY <1>3, <2>1, Zenon DEF Prob
  <2>3. n \in Int /\ Prob \in Int
    BY <1>2, Widths
  <2>4. m * Prob \in Int /\ c * Byte \in Int /\ n * Byte \in Int
    BY <2>0, <2>3
  <2>. QED  BY <1>2, <1>5, <2>0, <2>2, <2>4
<1>8. w = a * Top + r
  <2>0. a \in Int /\ b \in Int /\ Byte \in Int /\ Prob \in Int
    BY <1>4, Widths
  <2>1. (a * Byte + b) * Prob = a * (Byte * Prob) + b * Prob
    BY <2>0, Spread
  <2>. QED  BY <1>4, <1>5, <1>6, <1>7, <2>0, <2>1 DEF Top
<1>9. w \div Prob = m /\ w \div Top = a
  BY <1>7, <1>8, DivUnique, Widths
<1>10. w = WordOf4(a, b, c, d)
  BY <1>5, <1>6, <1>8, Widths DEF WordOf4
<1>. QED  BY <1>2, <1>3, <1>4, <1>9, <1>10

-----------------------------------------------------------------------------
(* What the decoder is behind by: a trace of points through the images,    *)
(* from the place of the decoder to the place of the encoder.  All that    *)
(* was ever written, and the four bytes the encoder would write next, are  *)
(* the stream F; a point has four bytes of it as its word, behind at.      *)

Src(S, m) == IF m = 0 THEN <<>> ELSE S[m]

Point == [img : Nat, n : Nat, lo : 0 .. Word - 1, hi : 0 .. Word - 1,
          p : [Node -> 0 .. Prob - 1], at : Nat]

Val(F, a) == WordOf4(F[a + 1].v, F[a + 2].v, F[a + 3].v, F[a + 4].v)
AreBytes(F, a) == \A k \in 1 .. 4 : F[a + k].kind = "byte"

BitStep(S, s, t) ==
    LET bits == Src(S, s.img)
        k == NodeAt(bits, s.n)
        mid == Mid(s.lo, s.hi, s.p[k])
        bit == bits[s.n + 1]
    IN  /\ s.n < Len(bits) /\ ~SameTop(s.lo, s.hi)
        /\ t.img = s.img /\ t.n = s.n + 1 /\ t.at = s.at
        /\ t.lo = IF bit = 1 THEN s.lo ELSE mid + 1
        /\ t.hi = IF bit = 1 THEN mid ELSE s.hi
        /\ t.p = [s.p EXCEPT ![k] = UpdateP(@, bit)]

ByteStep(F, S, s, t) ==
    /\ s.n < Len(Src(S, s.img)) /\ SameTop(s.lo, s.hi)
    /\ F[s.at + 1].v = s.hi \div Top
    /\ t.img = s.img /\ t.n = s.n /\ t.at = s.at + 1 /\ t.p = s.p
    /\ t.lo = Shifted(s.lo) /\ t.hi = Shifted(s.hi) + Byte - 1

ImageStep(F, S, s, t) ==
    /\ s.n = Len(Src(S, s.img)) /\ s.img < Len(S)
    /\ Val(F, s.at) = s.hi
    /\ F[s.at + 5] = [kind |-> "image", v |-> Len(S[s.img + 1])]
    /\ t.img = s.img + 1 /\ t.n = 0 /\ t.at = s.at + 5 /\ t.p = s.p
    /\ t.lo = 0 /\ t.hi = Word - 1

Step(F, S, s, t) == BitStep(S, s, t) \/ ByteStep(F, S, s, t) \/ ImageStep(F, S, s, t)

Sound(F, L, S, t) ==
    /\ t.img <= Len(S) /\ t.n <= Len(Src(S, t.img)) /\ t.lo <= t.hi
    /\ t.at + 4 <= L /\ AreBytes(F, t.at)

Trace(F, T, N, L, S) ==
    /\ F \in [Nat -> Message] /\ T \in [1 .. N -> Point]
    /\ \A i \in 1 .. N : Sound(F, L, S, T[i])
    /\ \A i \in 1 .. N - 1 : Step(F, S, T[i], T[i + 1])

LEMMA SrcType ==
    ASSUME NEW S \in Seq(Source), NEW m \in 0 .. Len(S)
    PROVE  Src(S, m) \in Seq(Bit) /\ Len(Src(S, m)) \in Nat
<1>1. CASE m = 0
  BY <1>1 DEF Src
<1>2. CASE m # 0
  <2>1. Src(S, m) \in Source
    BY <1>2, ElementOfSeq DEF Src
  <2>2. PICK n \in 1 .. Symbols : Src(S, m) \in [1 .. n * Bits -> Bit]
    BY <2>1 DEF Source, BitSeq
  <2>3. n * Bits \in Nat
    BY CoderAssumption
  <2>. QED  BY <2>2, <2>3
<1>. QED  BY <1>1, <1>2

LEMMA SourceIs ==
    ASSUME NEW S \in Seq(Source), S = sources
    PROVE  source = Src(S, Len(S))
<1>1. CASE S = <<>>
  BY <1>1 DEF source, Src
<1>2. CASE S # <<>>
  BY <1>2, EmptySeq DEF source, Src, Last
<1>. QED  BY <1>1, <1>2

(* The smallest of some numbers, where an induction would begin to fail.   *)
LEMMA Smallest ==
    ASSUME NEW S \in SUBSET Nat, S # {}
    PROVE  \E n \in S : \A m \in S : n <= m
<1>. DEFINE R == {ss \in Nat \X Nat : ss[1] < ss[2]}
<1>1. IsWellFoundedOn(R, Nat)
  BY NatLessThanWellFounded, Zenon DEF OpToRel
<1>2. \A m \in Nat, n \in Nat : <<m, n>> \in R <=> m < n
  OBVIOUS
<1>. HIDE DEF R
<1>3. PICK n \in S : \A m \in S : <<m, n>> \notin R
  BY <1>1, WFMin
<1>4. ASSUME NEW m \in S PROVE n <= m
  <2>1. m \in Nat /\ n \in Nat /\ ~(m < n)
    BY <1>2, <1>3
  <2>. QED  BY <2>1
<1>. QED  BY <1>4

(* The word of four bytes is one, and so is the one a byte further on.     *)
LEMMA ValFacts ==
    ASSUME NEW F \in [Nat -> Message], NEW a \in Nat, AreBytes(F, a)
    PROVE  /\ Val(F, a) \in 0 .. Word - 1
           /\ Val(F, a) \div Top = F[a + 1].v
           /\ (Val(F, a) \div Prob) % Byte = F[a + 2].v
           /\ (Val(F, a) \div Byte) % Byte = F[a + 3].v
           /\ Val(F, a) % Byte = F[a + 4].v
           /\ F[a + 1].v \in 0 .. Byte - 1
           /\ \E r \in 0 .. Top - 1 :
                /\ Val(F, a) = F[a + 1].v * Top + r
                /\ F[a + 5].kind = "byte" =>
                     Val(F, a + 1) = r * Byte + F[a + 5].v /\ F[a + 5].v \in 0 .. Byte - 1
<1>1. \A k \in 1 .. 5 : a + k \in Nat /\ F[a + k] \in Message
  OBVIOUS
<1>2. \A k \in 1 .. 4 : F[a + k].v \in 0 .. Byte - 1
  BY <1>1, Kinds DEF AreBytes
<1>3. PICK b1, b2, b3, b4 \in 0 .. Byte - 1 :
          F[a + 1].v = b1 /\ F[a + 2].v = b2 /\ F[a + 3].v = b3 /\ F[a + 4].v = b4
  BY <1>2
<1>4. Val(F, a) = WordOf4(b1, b2, b3, b4)
  BY <1>3 DEF Val
<1>5. F[a + 5].kind = "byte" => F[a + 5].v \in 0 .. Byte - 1
  BY <1>1, Kinds
<1>6. \A e : F[a + 5].v = e => Val(F, a + 1) = WordOf4(b2, b3, b4, e)
  <2>1. /\ (a + 1) + 1 = a + 2 /\ (a + 1) + 2 = a + 3
        /\ (a + 1) + 3 = a + 4 /\ (a + 1) + 4 = a + 5
    OBVIOUS
  <2>. QED  BY <1>3, <2>1 DEF Val
<1>7. PICK w : w = Val(F, a)
  OBVIOUS
<1>8. /\ w \in 0 .. Word - 1
      /\ w \div Top = b1 /\ (w \div Prob) % Byte = b2
      /\ (w \div Byte) % Byte = b3 /\ w % Byte = b4
  BY SMTT(30), <1>4, <1>7, DigitsOf
<1>9. PICK r \in 0 .. Top - 1 :
          w = b1 * Top + r /\ \A e \in 0 .. Byte - 1 : WordOf4(b2, b3, b4, e) = r * Byte + e
  BY SMTT(30), <1>4, <1>7, DigitsOf
<1>10. F[a + 5].kind = "byte" =>
          Val(F, a + 1) = r * Byte + F[a + 5].v /\ F[a + 5].v \in 0 .. Byte - 1
  BY <1>5, <1>6, <1>9
<1>. QED  BY <1>3, <1>7, <1>8, <1>9, <1>10

(* The word of every point of a trace is within its interval.              *)
LEMMA Nested ==
    ASSUME NEW N \in Nat \ {0}, NEW L \in Nat, NEW F, NEW T, NEW S \in Seq(Source),
           Trace(F, T, N, L, S), Val(F, T[N].at) = T[N].hi,
           NEW i \in 1 .. N
    PROVE  Val(F, T[i].at) \in T[i].lo .. T[i].hi
<1>. DEFINE In(k) == Val(F, T[k].at) \in T[k].lo .. T[k].hi
            Wrong == {m \in 0 .. N - 1 : ~In(N - m)}
<1>0. /\ F \in [Nat -> Message]
      /\ \A k \in 1 .. N : T[k] \in Point /\ Sound(F, L, S, T[k])
  BY DEF Trace
<1>1. \A k \in 1 .. N : /\ T[k].lo \in 0 .. Word - 1 /\ T[k].hi \in 0 .. Word - 1
                        /\ T[k].lo <= T[k].hi /\ T[k].at \in Nat
                        /\ AreBytes(F, T[k].at) /\ T[k].img \in 0 .. Len(S) /\ T[k].n \in Nat
                        /\ T[k].p \in [Node -> 0 .. Prob - 1]
  <2>. SUFFICES ASSUME NEW k \in 1 .. N
                PROVE  /\ T[k].lo \in 0 .. Word - 1 /\ T[k].hi \in 0 .. Word - 1
                       /\ T[k].lo <= T[k].hi /\ T[k].at \in Nat
                       /\ AreBytes(F, T[k].at) /\ T[k].img \in 0 .. Len(S)
                       /\ T[k].n \in Nat /\ T[k].p \in [Node -> 0 .. Prob - 1]
    OBVIOUS
  <2>1. PICK t : t = T[k]
    OBVIOUS
  <2>2. t \in Point /\ Sound(F, L, S, t) /\ Len(S) \in Nat
    BY <1>0, <2>1
  <2>3. /\ t.img \in Nat /\ t.n \in Nat /\ t.at \in Nat
        /\ t.lo \in 0 .. Word - 1 /\ t.hi \in 0 .. Word - 1
        /\ t.p \in [Node -> 0 .. Prob - 1]
    BY <2>2 DEF Point
  <2>. QED  BY <2>1, <2>2, <2>3 DEF Sound
<1>2. In(N)
  BY <1>1, Widths
<1>3. ASSUME NEW k \in 1 .. N - 1, In(k + 1) PROVE In(k)
  <2>. PICK s, t : s = T[k] /\ t = T[k + 1]
    OBVIOUS
  <2>0. k \in 1 .. N /\ k + 1 \in 1 .. N
    OBVIOUS
  <2>1. Step(F, S, s, t)
    BY DEF Trace
  <2>2. /\ s.lo \in 0 .. Word - 1 /\ s.hi \in 0 .. Word - 1 /\ s.lo <= s.hi
        /\ s.at \in Nat /\ AreBytes(F, s.at) /\ s.img \in 0 .. Len(S) /\ s.n \in Nat
        /\ s.p \in [Node -> 0 .. Prob - 1]
    BY <1>1, <2>0
  <2>3. /\ t.lo \in 0 .. Word - 1 /\ t.hi \in 0 .. Word - 1 /\ AreBytes(F, t.at)
        /\ t.at \in Nat
    BY <1>1, <2>0
  <2>4. Val(F, t.at) \in t.lo .. t.hi
    BY <1>3
  <2>5. CASE BitStep(S, s, t)
    <3>1. PICK q : q = NodeAt(Src(S, s.img), s.n)
      OBVIOUS
    <3>2. q \in Node
      BY SMTT(30), <2>2, <2>5, <3>1, SrcType, NodeIn DEF BitStep
    <3>3. PICK m : m = Mid(s.lo, s.hi, s.p[q])
      OBVIOUS
    <3>4. s.lo < s.hi /\ s.lo \in Nat /\ s.hi \in Nat
      <4>1. s.lo # s.hi
        BY <2>5 DEF BitStep, SameTop
      <4>2. s.lo \in Nat /\ s.hi \in Nat /\ s.lo <= s.hi
        BY <2>2, Widths
      <4>. QED  BY <4>1, <4>2
    <3>5. m \in Nat /\ s.lo <= m /\ m < s.hi
      BY <2>2, <3>2, <3>3, <3>4, MidInside
    <3>6. t.at = s.at /\ (t.lo = s.lo \/ t.lo = m + 1) /\ (t.hi = s.hi \/ t.hi = m)
      BY <2>5, <3>1, <3>3 DEF BitStep
    <3>7. Val(F, s.at) \in s.lo .. s.hi
      <4>1. PICK w : w = Val(F, s.at)
        OBVIOUS
      <4>2. w \in t.lo .. t.hi
        BY <2>4, <3>6, <4>1
      <4>. QED  BY SMTT(30), <3>4, <3>5, <3>6, <4>1, <4>2
    <3>. QED  BY <3>7
  <2>6. CASE ByteStep(F, S, s, t)
    <3>1. PICK a \in 0 .. Byte - 1 : a = F[s.at + 1].v
      BY <1>0, <2>2, ValFacts
    <3>2. F[s.at + 5].kind = "byte"
      <4>1. t.at = s.at + 1 /\ s.at + 5 = t.at + 4
        BY <2>2, <2>6 DEF ByteStep
      <4>2. F[t.at + 4].kind = "byte"
        BY <2>3 DEF AreBytes
      <4>. QED  BY <4>1, <4>2
    <3>3. PICK r \in 0 .. Top - 1, e \in 0 .. Byte - 1 :
             Val(F, s.at) = a * Top + r /\ Val(F, s.at + 1) = r * Byte + e
      BY ZenonT(60), <1>0, <2>2, <3>1, <3>2, ValFacts
    <3>4. s.lo \div Top = a /\ s.hi \div Top = a
      BY <2>6, <3>1 DEF ByteStep, SameTop
    <3>5. PICK l \in 0 .. Top - 1 : s.lo = a * Top + l
      <4>1. PICK w \in Int : w = s.lo
        BY <2>2, Widths
      <4>2. w = (w \div Top) * Top + (w % Top) /\ w % Top \in 0 .. Top - 1
        BY <4>1, Widths, DivFacts
      <4>. QED  BY <3>4, <4>1, <4>2
    <3>6. PICK h \in 0 .. Top - 1 : s.hi = a * Top + h
      <4>1. PICK w \in Int : w = s.hi
        BY <2>2, Widths
      <4>2. w = (w \div Top) * Top + (w % Top) /\ w % Top \in 0 .. Top - 1
        BY <4>1, Widths, DivFacts
      <4>. QED  BY <3>4, <4>1, <4>2
    <3>7. t.lo = l * Byte /\ t.hi = h * Byte + Byte - 1
      BY <2>6, <3>5, <3>6, TopPart DEF ByteStep
    <3>8. l * Byte <= r * Byte + e /\ r * Byte + e <= h * Byte + Byte - 1
      BY <2>4, <2>6, <3>3, <3>7 DEF ByteStep
    <3>9. l <= r
      <4>1. ASSUME r + 1 <= l PROVE FALSE
        <5>1. Byte * (r + 1) <= Byte * l
          BY <4>1, Widths, TimesMonotone
        <5>2. Byte * (r + 1) = r * Byte + Byte /\ Byte * l = l * Byte
          BY Widths
        <5>3. r * Byte \in Int /\ l * Byte \in Int /\ Byte \in Int
          BY Widths
        <5>. QED  BY <3>8, <5>1, <5>2, <5>3
      <4>. QED  BY <4>1, Widths
    <3>10. r <= h
      <4>1. ASSUME h + 1 <= r PROVE FALSE
        <5>1. Byte * (h + 1) <= Byte * r
          BY <4>1, Widths, TimesMonotone
        <5>2. Byte * (h + 1) = h * Byte + Byte /\ Byte * r = r * Byte
          BY Widths
        <5>3. r * Byte \in Int /\ h * Byte \in Int /\ Byte \in Int
          BY Widths
        <5>. QED  BY <3>8, <5>1, <5>2, <5>3
      <4>. QED  BY <4>1, Widths
    <3>11. a * Top \in Int /\ Top \in Int
      BY Widths
    <3>12. Val(F, s.at) \in s.lo .. s.hi
      BY <2>2, <3>3, <3>5, <3>6, <3>9, <3>10, <3>11
    <3>. QED  BY <3>12
  <2>7. CASE ImageStep(F, S, s, t)
    <3>1. Val(F, s.at) \in s.lo .. s.hi
      BY SMTT(30), <2>2, <2>7, Widths DEF ImageStep
    <3>. QED  BY <3>1
  <2>. QED  BY <2>1, <2>5, <2>6, <2>7 DEF Step
<1>4. ASSUME Wrong # {} PROVE FALSE
  <2>1. PICK m \in Wrong : \A e \in Wrong : m <= e
    <3>1. Wrong \in SUBSET Nat
      OBVIOUS
    <3>. HIDE DEF Wrong
    <3>. QED  BY <1>4, <3>1, Smallest
  <2>2. m # 0
    BY <1>2, <2>1
  <2>3. In(N - m + 1)
    <3>1. m - 1 \notin Wrong
      <4>1. m \in Nat /\ Wrong \subseteq Nat
        OBVIOUS
      <4>. HIDE DEF Wrong
      <4>2. m - 1 \in Wrong => m <= m - 1
        BY <2>1
      <4>. QED  BY <4>1, <4>2
    <3>2. m - 1 \in 0 .. N - 1 /\ N - (m - 1) = N - m + 1
      BY <2>1, <2>2
    <3>. HIDE DEF In
    <3>. QED  BY <3>1, <3>2
  <2>4. N - m \in 1 .. N - 1
    BY <2>1, <2>2
  <2>. HIDE DEF In
  <2>5. In(N - m)
    BY <1>3, <2>3, <2>4
  <2>. QED  BY <2>1, <2>5
<1>5. N - i \in 0 .. N - 1 /\ N - (N - i) = i
  OBVIOUS
<1>6. N - i \notin Wrong
  BY <1>4
<1>. HIDE DEF In
<1>7. In(i)
  BY <1>5, <1>6
<1>. QED  BY <1>7 DEF In

(* The four bytes of a word put behind a place of the stream.              *)
ByteOf(v) == [kind |-> "byte", v |-> v]
PutWord(F, a, w) == [k \in Nat |-> IF k = a + 1 THEN ByteOf(w \div Top)
                                   ELSE IF k = a + 2 THEN ByteOf((w \div Prob) % Byte)
                                   ELSE IF k = a + 3 THEN ByteOf((w \div Byte) % Byte)
                                   ELSE IF k = a + 4 THEN ByteOf(w % Byte)
                                   ELSE F[k]]

LEMMA PutFacts ==
    ASSUME NEW F \in [Nat -> Message], NEW a \in Nat, NEW w \in 0 .. Word - 1,
           NEW G, G = PutWord(F, a, w)
    PROVE  /\ G \in [Nat -> Message] /\ AreBytes(G, a) /\ Val(G, a) = w
           /\ \A k \in Nat : k \notin a + 1 .. a + 4 => G[k] = F[k]
<1>1. PICK b1, b2, b3, b4 \in 0 .. Byte - 1 :
          b1 = w \div Top /\ b2 = (w \div Prob) % Byte /\ b3 = (w \div Byte) % Byte
          /\ b4 = w % Byte
  BY TopByte, OtherBytes
<1>2. \A v \in 0 .. Byte - 1 : ByteOf(v) \in Message
  BY ByteMessage DEF ByteOf
<1>3. G = [k \in Nat |-> IF k = a + 1 THEN ByteOf(b1) ELSE IF k = a + 2 THEN ByteOf(b2)
                         ELSE IF k = a + 3 THEN ByteOf(b3) ELSE IF k = a + 4 THEN ByteOf(b4)
                         ELSE F[k]]
  BY <1>1 DEF PutWord
<1>4. G \in [Nat -> Message]
  BY <1>2, <1>3
<1>5. \A k \in Nat : k \notin a + 1 .. a + 4 => G[k] = F[k]
  BY <1>3
<1>6. /\ G[a + 1] = ByteOf(b1) /\ G[a + 2] = ByteOf(b2)
      /\ G[a + 3] = ByteOf(b3) /\ G[a + 4] = ByteOf(b4)
  BY <1>3
<1>7. AreBytes(G, a)
  <2>1. \A k \in 1 .. 4 : k = 1 \/ k = 2 \/ k = 3 \/ k = 4
    OBVIOUS
  <2>. QED  BY <1>6, <2>1 DEF AreBytes, ByteOf
<1>8. Val(G, a) = WordOf4(b1, b2, b3, b4)
  BY <1>6 DEF Val, ByteOf
<1>9. WordOf4(b1, b2, b3, b4) = w
  BY <1>1, WordOfDigits
<1>. QED  BY <1>4, <1>5, <1>7, <1>8, <1>9

(* A step stays one while the stream changes only from its end, and more   *)
(* images are begun.                                                       *)
LEMMA StepStays ==
    ASSUME NEW S \in Seq(Source), NEW R \in Seq(Source), Len(S) <= Len(R),
           \A m \in 1 .. Len(S) : R[m] = S[m],
           NEW F, NEW G, NEW s \in Point, NEW t \in Point, s.img <= Len(S),
           \A k \in 0 .. t.at : G[k] = F[k],
           Step(F, S, s, t)
    PROVE  Step(G, R, s, t)
<1>1. Len(S) \in Nat /\ Len(R) \in Nat /\ s.img \in Nat /\ s.at \in Nat /\ t.at \in Nat
  BY DEF Point
<1>2. Src(R, s.img) = Src(S, s.img)
  BY <1>1 DEF Src
<1>3. CASE BitStep(S, s, t)
  BY <1>2, <1>3 DEF BitStep, Step
<1>4. CASE ByteStep(F, S, s, t)
  <2>1. G[s.at + 1] = F[s.at + 1]
    BY <1>1, <1>4 DEF ByteStep
  <2>. QED  BY <1>2, <1>4, <2>1 DEF ByteStep, Step
<1>5. CASE ImageStep(F, S, s, t)
  <2>1. t.at = s.at + 5 /\ s.img < Len(S)
    BY <1>5 DEF ImageStep
  <2>2. ASSUME NEW k \in 1 .. 5 PROVE G[s.at + k] = F[s.at + k]
    <3>1. s.at + k \in 0 .. t.at
      <4>. PICK a : a = s.at
        OBVIOUS
      <4>. QED  BY SMTT(30), <1>1, <2>1
    <3>. QED  BY <3>1
  <2>3. Val(G, s.at) = Val(F, s.at) /\ G[s.at + 5] = F[s.at + 5]
    BY <2>2 DEF Val
  <2>4. s.img < Len(R) /\ R[s.img + 1] = S[s.img + 1]
    <3>1. s.img + 1 \in 1 .. Len(S)
      BY <1>1, <2>1
    <3>. QED  BY <1>1, <2>1, <3>1
  <2>. QED  BY <1>2, <1>5, <2>3, <2>4 DEF ImageStep, Step
<1>. QED  BY <1>3, <1>4, <1>5 DEF Step

LEMMA StillBytes ==
    ASSUME NEW F, NEW G, NEW a \in Nat, NEW L \in Nat, a + 4 <= L,
           \A k \in 0 .. L : F[k].kind = "byte" => G[k].kind = "byte",
           AreBytes(F, a)
    PROVE  AreBytes(G, a)
<1>1. \A k \in 1 .. 4 : a + k \in 0 .. L
  OBVIOUS
<1>. QED  BY <1>1 DEF AreBytes

(* The encoder goes one step further.                                      *)
Longer(S, R) ==
    /\ S \in Seq(Source) /\ R \in Seq(Source) /\ Len(S) <= Len(R)
    /\ \A m \in 1 .. Len(S) : R[m] = S[m]

Grown(F, G, L, M) ==
    /\ L \in Nat /\ M \in Nat /\ 4 <= L /\ L <= M /\ G \in [Nat -> Message]
    /\ \A k \in 0 .. L - 4 : G[k] = F[k]
    /\ \A k \in 0 .. L : F[k].kind = "byte" => G[k].kind = "byte"

LEMMA Further ==
    ASSUME NEW S, NEW R, Longer(S, R), NEW N \in Nat \ {0}, NEW L, NEW M,
           NEW F, NEW G, Grown(F, G, L, M), NEW T, Trace(F, T, N, L, S),
           NEW t \in Point, Sound(G, M, R, t), Step(G, R, T[N], t)
    PROVE  \E U : Trace(G, U, N + 1, M, R) /\ U[1] = T[1] /\ U[N + 1] = t
<1>0. /\ S \in Seq(Source) /\ R \in Seq(Source) /\ Len(S) <= Len(R)
      /\ \A m \in 1 .. Len(S) : R[m] = S[m]
      /\ L \in Nat /\ M \in Nat /\ 4 <= L /\ L <= M /\ G \in [Nat -> Message]
      /\ \A k \in 0 .. L - 4 : G[k] = F[k]
      /\ \A k \in 0 .. L : F[k].kind = "byte" => G[k].kind = "byte"
  BY DEF Longer, Grown
<1>. PICK U : U = [i \in 1 .. N + 1 |-> IF i <= N THEN T[i] ELSE t]
  OBVIOUS
<1>1. /\ \A i \in 1 .. N : i \in 1 .. N + 1 /\ U[i] = T[i]
      /\ U[N + 1] = t
  OBVIOUS
<1>2. T \in [1 .. N -> Point] /\ U \in [1 .. N + 1 -> Point]
  BY DEF Trace
<1>3. ASSUME NEW i \in 1 .. N + 1 PROVE Sound(G, M, R, U[i])
  <2>1. CASE i = N + 1
    BY <1>1, <2>1
  <2>2. CASE i # N + 1
    <3>. PICK s : s = T[i]
      OBVIOUS
    <3>1. i \in 1 .. N /\ U[i] = s /\ s \in Point
      BY <1>1, <1>2, <2>2
    <3>2. Sound(F, L, S, s)
      BY <3>1 DEF Trace
    <3>3. /\ s.img \in Nat /\ s.at \in Nat /\ s.img <= Len(S) /\ s.at + 4 <= L
          /\ Len(S) \in Nat /\ Len(R) \in Nat
      <4>1. s.img \in Nat /\ s.at \in Nat
        BY <3>1 DEF Point
      <4>2. s.img <= Len(S) /\ s.at + 4 <= L
        BY <3>2 DEF Sound
      <4>. QED  BY <1>0, <4>1, <4>2
    <3>4. Src(R, s.img) = Src(S, s.img)
      BY <1>0, <3>3 DEF Src
    <3>5. AreBytes(G, s.at)
      <4>0. PICK a \in Nat : a = s.at /\ a + 4 <= L
        BY <3>3
      <4>1. AreBytes(F, a)
        BY <3>2, <4>0 DEF Sound
      <4>. QED  BY <1>0, <4>0, <4>1, StillBytes
    <3>6. s.at + 4 <= M /\ s.img <= Len(R)
      BY SMTT(30), <1>0, <3>3
    <3>. QED  BY <3>1, <3>2, <3>4, <3>5, <3>6 DEF Sound
  <2>. QED  BY <2>1, <2>2
<1>4. ASSUME NEW i \in 1 .. N PROVE Step(G, R, U[i], U[i + 1])
  <2>1. CASE i = N
    BY <1>1, <2>1
  <2>2. CASE i # N
    <3>1. i \in 1 .. N - 1 /\ i \in 1 .. N /\ i + 1 \in 1 .. N
      BY <2>2
    <3>2. U[i] = T[i] /\ U[i + 1] = T[i + 1] /\ T[i] \in Point /\ T[i + 1] \in Point
      BY <1>1, <1>2, <3>1
    <3>3. Step(F, S, T[i], T[i + 1]) /\ Sound(F, L, S, T[i]) /\ Sound(F, L, S, T[i + 1])
      BY <3>1 DEF Trace
    <3>4. T[i].img <= Len(S) /\ T[i + 1].at + 4 <= L /\ T[i + 1].at \in Nat
      BY <3>2, <3>3 DEF Sound, Point
    <3>5. \A k \in 0 .. T[i + 1].at : G[k] = F[k]
      <4>1. PICK a \in Nat : a = T[i + 1].at /\ a <= L - 4
        BY <1>0, <3>4
      <4>2. L - 4 \in Nat /\ \A k \in 0 .. L - 4 : G[k] = F[k]
        BY <1>0
      <4>3. 0 .. a \subseteq 0 .. L - 4
        BY <4>1, <4>2
      <4>. QED  BY <4>1, <4>2, <4>3
    <3>6. Step(G, R, T[i], T[i + 1])
      BY <1>0, <3>2, <3>3, <3>4, <3>5, StepStays
    <3>. QED  BY <3>2, <3>6
  <2>. QED  BY <2>1, <2>2
<1>5. N = (N + 1) - 1
  OBVIOUS
<1>6. Trace(G, U, N + 1, M, R)
  <2>1. \A i \in 1 .. (N + 1) - 1 : Step(G, R, U[i], U[i + 1])
    BY <1>4, <1>5
  <2>. QED  BY <1>0, <1>2, <1>3, <2>1 DEF Trace
<1>7. U[1] = T[1]
  BY <1>1
<1>. QED  BY <1>1, <1>6, <1>7

(* The decoder goes one step further.                                      *)
LEMMA Closer ==
    ASSUME NEW S, NEW N \in Nat, N > 1, NEW L, NEW F, NEW T, Trace(F, T, N, L, S)
    PROVE  \E U : Trace(F, U, N - 1, L, S) /\ U[1] = T[2] /\ U[N - 1] = T[N]
<1>. PICK U : U = [i \in 1 .. N - 1 |-> T[i + 1]]
  OBVIOUS
<1>1. \A i \in 1 .. N - 1 : i + 1 \in 1 .. N /\ U[i] = T[i + 1]
  OBVIOUS
<1>2. U \in [1 .. N - 1 -> Point] /\ F \in [Nat -> Message]
  BY DEF Trace
<1>3. \A i \in 1 .. N - 1 : Sound(F, L, S, U[i])
  BY <1>1 DEF Trace
<1>4. ASSUME NEW i \in 1 .. (N - 1) - 1 PROVE Step(F, S, U[i], U[i + 1])
  <2>1. i \in 1 .. N - 1 /\ i + 1 \in 1 .. N - 1
    OBVIOUS
  <2>2. U[i] = T[i + 1] /\ U[i + 1] = T[(i + 1) + 1]
    BY <1>1, <2>1
  <2>3. Step(F, S, T[i + 1], T[(i + 1) + 1])
    BY <2>1 DEF Trace
  <2>. QED  BY <2>2, <2>3
<1>5. U[1] = T[2] /\ U[N - 1] = T[N]
  <2>1. 1 \in 1 .. N - 1 /\ N - 1 \in 1 .. N - 1 /\ 1 + 1 = 2 /\ (N - 1) + 1 = N
    OBVIOUS
  <2>. QED  BY <1>1, <2>1
<1>. QED  BY <1>2, <1>3, <1>4, <1>5 DEF Trace

-----------------------------------------------------------------------------
(* The decoder is on the trace of the encoder: b is how much of the stream *)
(* is behind the decoder's word, L how long the stream is.                 *)

At(t, m, n, l, h, q, a) ==
    t.img = m /\ t.n = n /\ t.lo = l /\ t.hi = h /\ t.p = q /\ t.at = a

Ahead == IF dflush THEN 0 ELSE 4
Behind == IF flush THEN 4 ELSE 0

(* What is on its way is that of the stream which the decoder has not read *)
(* and the encoder has written.                                            *)
Carried(F, b, L) ==
    /\ L = b + Ahead + Len(wire) + Behind
    /\ \A i \in 1 .. Len(wire) : wire[i] = F[b + Ahead + i]
    /\ ~dflush => x = Val(F, b)

Sides ==
    /\ expected = Len(Src(sources, image)) /\ Len(output) <= expected
    /\ \A k \in 1 .. Len(output) : output[k] = Src(sources, image)[k]
    /\ coded < Len(source) => flush

OnTrace(F, T, N, b, L) ==
    /\ N \in Nat \ {0} /\ b \in Nat /\ L \in Nat
    /\ Trace(F, T, N, L, sources)
    /\ At(T[1], image, Len(output), dlo, dhi, dp, b)
    /\ At(T[N], Len(sources), coded, lo, hi, p, L - 4) /\ Val(F, L - 4) = hi
    /\ Carried(F, b, L)

Follows == Sides /\ \E F, T, N, b, L : OnTrace(F, T, N, b, L)

(* A decoder with something to read or to decode is behind.                *)
LEMMA First ==
    ASSUME TypeOK, Sides, NEW F, NEW T, NEW N, NEW b, NEW L, OnTrace(F, T, N, b, L),
           ~dflush, wire # <<>> \/ Len(output) < expected
    PROVE  N > 1 /\ Step(F, sources, T[1], T[2])
<1>1. ASSUME N = 1 PROVE FALSE
  <2>1. b = L - 4 /\ Len(output) = coded /\ image = Len(sources)
    BY <1>1 DEF OnTrace, At
  <2>2. L = b + 4 + Len(wire) + Behind /\ Len(wire) \in Nat /\ Behind \in {0, 4}
    BY DEF OnTrace, Carried, Ahead, Behind, TypeOK
  <2>3. Len(wire) = 0 /\ Behind = 0
    BY <2>1, <2>2 DEF OnTrace
  <2>4. wire = <<>> /\ ~flush
    BY <2>3, EmptySeq DEF Behind, TypeOK
  <2>5. expected = Len(source) /\ ~(coded < Len(source))
    BY <2>1, <2>4, SourceIs DEF Sides, TypeOK
  <2>. QED  BY <2>1, <2>4, <2>5 DEF Sides, TypeOK
<1>2. N \in Nat /\ N > 1
  BY <1>1 DEF OnTrace
<1>3. 1 \in 1 .. N - 1 /\ 1 + 1 = 2
  BY <1>2
<1>. QED  BY <1>2, <1>3 DEF OnTrace, Trace

LEMMA FirstPoint ==
    ASSUME TypeOK, NEW F, NEW T, NEW N, NEW b, NEW L, OnTrace(F, T, N, b, L)
    PROVE  /\ F \in [Nat -> Message] /\ b \in Nat /\ L \in Nat /\ N \in Nat \ {0}
           /\ sources \in Seq(Source) /\ image \in 0 .. Len(sources)
           /\ Src(sources, image) \in Seq(Bit) /\ Len(Src(sources, image)) \in Nat
           /\ T[1] \in Point /\ Sound(F, L, sources, T[1]) /\ AreBytes(F, b)
           /\ T[N] \in Point /\ Sound(F, L, sources, T[N]) /\ AreBytes(F, L - 4)
           /\ L - 4 \in Nat
<1>1. /\ F \in [Nat -> Message] /\ b \in Nat /\ L \in Nat /\ N \in Nat \ {0}
      /\ sources \in Seq(Source) /\ image \in Nat /\ Len(sources) \in Nat
      /\ T \in [1 .. N -> Point]
  BY SMTT(30) DEF OnTrace, Trace, TypeOK
<1>2. 1 \in 1 .. N /\ N \in 1 .. N
  BY <1>1
<1>3. /\ T[1] \in Point /\ Sound(F, L, sources, T[1])
      /\ T[N] \in Point /\ Sound(F, L, sources, T[N])
  BY <1>1, <1>2 DEF OnTrace, Trace
<1>4. AreBytes(F, b) /\ image <= Len(sources) /\ AreBytes(F, L - 4) /\ T[N].at = L - 4
  BY <1>3 DEF OnTrace, At, Sound
<1>5. L - 4 \in Nat
  BY <1>3, <1>4 DEF Point
<1>6. image \in 0 .. Len(sources)
  BY <1>1, <1>4
<1>. QED  BY <1>1, <1>3, <1>4, <1>5, <1>6, SrcType

LEMMA DecoderStep ==
    ASSUME Sides', NEW F, NEW T, NEW N, NEW b, NEW L, OnTrace(F, T, N, b, L), N > 1,
           encoder' = encoder, NEW c \in Nat,
           At(T[2], image, Len(output), dlo, dhi, dp, c)', Carried(F, c, L)'
    PROVE  Follows'
<1>1. N \in Nat /\ L \in Nat /\ Trace(F, T, N, L, sources)
  BY DEF OnTrace
<1>2. PICK U : Trace(F, U, N - 1, L, sources) /\ U[1] = T[2] /\ U[N - 1] = T[N]
  BY <1>1, Closer
<1>3. N - 1 \in Nat \ {0}
  BY <1>1
<1>4. sources' = sources /\ coded' = coded /\ lo' = lo /\ hi' = hi /\ p' = p
  BY DEF encoder
<1>5. OnTrace(F, U, N - 1, c, L)'
  BY <1>1, <1>2, <1>3, <1>4 DEF OnTrace, At
<1>. QED  BY <1>5 DEF Follows

LEMMA EncoderStep ==
    ASSUME Sides', NEW F, NEW T, NEW N, NEW b, NEW L, OnTrace(F, T, N, b, L),
           decoder' = decoder, Longer(sources, sources'),
           NEW G, NEW M \in Nat, Grown(F, G, L, M),
           NEW t \in Point, Sound(G, M, sources', t), Step(G, sources', T[N], t),
           At(t, Len(sources), coded, lo, hi, p, M - 4)', Val(G, M - 4) = hi',
           Carried(G, b, M)'
    PROVE  Follows'
<1>1. N \in Nat \ {0} /\ L \in Nat /\ b \in Nat /\ Trace(F, T, N, L, sources)
  BY DEF OnTrace
<1>2. PICK U : Trace(G, U, N + 1, M, sources') /\ U[1] = T[1] /\ U[N + 1] = t
  BY <1>1, Further
<1>3. N + 1 \in Nat \ {0}
  BY <1>1
<1>4. image' = image /\ output' = output /\ dlo' = dlo /\ dhi' = dhi /\ dp' = dp
  BY DEF decoder
<1>5. At(U[1], image, Len(output), dlo, dhi, dp, b)'
  BY <1>2, <1>4 DEF OnTrace, At
<1>6. At(U[N + 1], Len(sources), coded, lo, hi, p, M - 4)'
  BY <1>2
<1>7. OnTrace(G, U, N + 1, b, M)'
  BY <1>1, <1>2, <1>3, <1>5, <1>6 DEF OnTrace
<1>. QED  BY <1>7 DEF Follows

(* The decoder's node is the encoder's.                                    *)
LEMMA SameNode ==
    ASSUME NEW u \in Seq(Bit), NEW v \in Seq(Bit), Len(u) <= Len(v),
           \A k \in 1 .. Len(u) : u[k] = v[k]
    PROVE  NodeAt(u, Len(u)) = NodeAt(v, Len(u))
<1>1. PICK n \in Nat : n = Len(u)
  OBVIOUS
<1>2. PICK m \in 1 .. n + 1 : m = n - (n % Bits) + 1
  <2>1. Bits \in Nat \ {0}
    BY CoderAssumption
  <2>2. PICK r \in 0 .. Bits - 1 : r = n % Bits
    BY <2>1, DivFacts
  <2>3. PICK q \in Nat : q = n \div Bits
    BY <2>1, DivNat
  <2>4. n = q * Bits + r /\ q * Bits \in Nat
    BY <2>1, <2>2, <2>3, DivFacts
  <2>5. r \in Nat /\ r <= n
    BY <2>1, <2>2, <2>4
  <2>6. n - r + 1 \in 1 .. n + 1
    BY <2>5
  <2>. QED  BY <2>2, <2>6
<1>3. \A i \in m .. n : u[i] \in Bit /\ v[i] \in Bit /\ u[i] = v[i]
  BY <1>1, <1>2
<1>4. m \in Int /\ n \in Int
  BY <1>1, <1>2
<1>5. /\ SubSeq(u, m, n) \in Seq(Bit) /\ SubSeq(v, m, n) \in Seq(Bit)
      /\ Len(SubSeq(u, m, n)) = Len(SubSeq(v, m, n))
      /\ \A i \in 1 .. Len(SubSeq(u, m, n)) : SubSeq(u, m, n)[i] = SubSeq(v, m, n)[i]
  <2>1. /\ SubSeq(u, m, n) \in Seq(Bit)
        /\ Len(SubSeq(u, m, n)) = IF m <= n THEN n - m + 1 ELSE 0
        /\ \A i \in 1 .. n - m + 1 : SubSeq(u, m, n)[i] = u[m + i - 1]
    BY <1>3, <1>4, SubSeqProperties
  <2>2. /\ SubSeq(v, m, n) \in Seq(Bit)
        /\ Len(SubSeq(v, m, n)) = IF m <= n THEN n - m + 1 ELSE 0
        /\ \A i \in 1 .. n - m + 1 : SubSeq(v, m, n)[i] = v[m + i - 1]
    BY <1>3, <1>4, SubSeqProperties
  <2>3. \A i \in 1 .. n - m + 1 : m + i - 1 \in m .. n
    BY <1>1, <1>2
  <2>. QED  BY <1>1, <1>2, <1>3, <2>1, <2>2, <2>3
<1>6. SubSeq(u, m, n) = SubSeq(v, m, n)
  BY <1>5, SeqEqual
<1>. QED  BY <1>1, <1>2, <1>6 DEF NodeAt

LEMMA BeginFollows ==
    ASSUME TypeOK, Follows, DecodeBegin PROVE Follows'
<1>0. PICK F, T, N, b, L : OnTrace(F, T, N, b, L)
  BY DEF Follows
<1>. DEFINE bits == Src(sources, image)
<1>1. /\ ~dflush /\ wire # <<>> /\ wire \in Seq(Message) /\ Len(output) = expected
      /\ expected = Len(bits) /\ Sides
  BY DEF DecodeBegin, Idle, TypeOK, Follows, Sides
<1>2. N > 1 /\ Step(F, sources, T[1], T[2])
  BY <1>0, <1>1, First
<1>3. T[1].img = image /\ T[1].n = Len(bits) /\ T[1].at = b /\ T[1].p = dp
  BY <1>0, <1>1 DEF OnTrace, At
<1>4. ImageStep(F, sources, T[1], T[2])
  <2>1. Len(bits) \in Nat
    BY <1>0, FirstPoint
  <2>. QED  BY <1>2, <1>3, <2>1 DEF Step, BitStep, ByteStep
<1>5. /\ wire[1] = F[b + 5] /\ Head(wire) = wire[1] /\ Len(wire) \in Nat
      /\ L = b + 4 + Len(wire) + Behind
      /\ Len(wire') = Len(wire) - 1
      /\ \A i \in 1 .. Len(wire') : wire'[i] = wire[i + 1] /\ i + 1 \in 1 .. Len(wire)
  <2>1. /\ L = b + 4 + Len(wire) + Behind
        /\ \A i \in 1 .. Len(wire) : wire[i] = F[b + 4 + i]
    BY <1>0, <1>1 DEF OnTrace, Carried, Ahead
  <2>2. Len(wire) >= 1 /\ Len(wire) \in Nat
    BY <1>1, EmptySeq
  <2>3. b + 4 + 1 = b + 5
    BY <1>0 DEF OnTrace
  <2>4. wire' = Tail(wire)
    BY DEF DecodeBegin
  <2>. QED  BY <1>1, <2>1, <2>2, <2>3, <2>4, HeadTailProperties
<1>6. expected' = Len(sources[image + 1]) /\ image' = image + 1 /\ output' = <<>>
      /\ dlo' = 0 /\ dhi' = Word - 1 /\ dp' = dp /\ dflush' = TRUE /\ encoder' = encoder
  BY <1>3, <1>4, <1>5 DEF DecodeBegin, ImageStep
<1>7. sources' = sources /\ coded' = coded /\ flush' = flush /\ source' = source
  BY <1>6 DEF encoder, source
<1>8. image \in Nat /\ b \in Nat /\ L \in Nat /\ Behind \in Nat
  BY <1>0, FirstPoint DEF Behind
<1>9. Sides'
  <2>1. Src(sources', image') = sources[image + 1]
    BY <1>6, <1>7, <1>8 DEF Src
  <2>2. image < Len(sources)
    BY <1>3, <1>4 DEF ImageStep
  <2>3. sources[image + 1] \in Seq(Bit)
    <3>1. image + 1 \in 0 .. Len(sources) /\ image + 1 # 0 /\ sources \in Seq(Source)
      BY <1>8, <2>2 DEF TypeOK
    <3>. QED  BY <3>1, SrcType DEF Src
  <2>4. Len(output') = 0 /\ Len(output') <= expected'
    BY <1>6, <2>3
  <2>. QED  BY <1>1, <1>6, <1>7, <2>1, <2>4 DEF Sides
<1>10. At(T[2], image, Len(output), dlo, dhi, dp, b + 5)'
  BY <1>3, <1>4, <1>6 DEF At, ImageStep
<1>11. Carried(F, b + 5, L)'
  <2>1. Ahead' = 0 /\ Behind' = Behind
    BY <1>6, <1>7 DEF Ahead, Behind
  <2>2. L = b + 5 + 0 + Len(wire') + Behind
    BY <1>5, <1>8
  <2>3. ASSUME NEW i \in 1 .. Len(wire') PROVE wire'[i] = F[b + 5 + 0 + i]
    <3>1. wire'[i] = F[b + 4 + (i + 1)]
      BY <1>0, <1>1, <1>5 DEF OnTrace, Carried, Ahead
    <3>2. b + 4 + (i + 1) = b + 5 + 0 + i
      BY <1>5, <1>8
    <3>. QED  BY <3>1, <3>2
  <2>. QED  BY <1>6, <2>1, <2>2, <2>3 DEF Carried
<1>12. b + 5 \in Nat
  BY <1>8
<1>. QED  BY <1>0, <1>2, <1>6, <1>9, <1>10, <1>11, <1>12, DecoderStep

LEMMA DecodeFlushFollows ==
    ASSUME TypeOK, Follows, DecodeFlush PROVE Follows'
<1>0. PICK F, T, N, b, L : OnTrace(F, T, N, b, L)
  BY DEF Follows
<1>1. /\ b \in Nat /\ L \in Nat /\ Behind \in Nat /\ wire \in Seq(Message)
      /\ Len(wire) \in Nat /\ Len(wire) >= 4
  BY SMTT(30), <1>0, FirstPoint DEF Behind, DecodeFlush, Bytes, TypeOK
<1>2. /\ L = b + 0 + Len(wire) + Behind
      /\ \A i \in 1 .. Len(wire) : wire[i] = F[b + 0 + i]
  BY <1>0 DEF DecodeFlush, OnTrace, Carried, Ahead
<1>3. \A i \in 1 .. Len(wire) : wire[i] = F[b + i]
  BY <1>1, <1>2
<1>4. x' = Val(F, b)
  <2>1. 1 \in 1 .. Len(wire) /\ 2 \in 1 .. Len(wire) /\ 3 \in 1 .. Len(wire) /\ 4 \in 1 .. Len(wire)
    BY <1>1
  <2>2. wire[1] = F[b + 1] /\ wire[2] = F[b + 2] /\ wire[3] = F[b + 3] /\ wire[4] = F[b + 4]
    BY <1>3, <2>1
  <2>. QED  BY <2>2 DEF DecodeFlush, Val, WordOf4
<1>5. Len(wire') = Len(wire) - 4 /\ \A i \in 1 .. Len(wire') : wire'[i] = wire[i + 4]
  <2>1. \A i \in 5 .. Len(wire) : wire[i] \in Message
    BY <1>1
  <2>2. PICK n \in Nat : n = Len(wire)
    BY <1>1
  <2>3. wire' = SubSeq(wire, 5, n)
    BY <2>2 DEF DecodeFlush
  <2>4. /\ Len(wire') = IF 5 <= n THEN n - 5 + 1 ELSE 0
        /\ \A i \in 1 .. n - 5 + 1 : wire'[i] = wire[5 + i - 1]
    BY <2>1, <2>2, <2>3, SubSeqProperties
  <2>5. \A i \in 1 .. n - 4 : 5 + i - 1 = i + 4
    BY <2>2
  <2>6. Len(wire') = n - 4
    BY <1>1, <2>2, <2>4
  <2>. QED  BY <1>1, <2>2, <2>4, <2>5, <2>6
<1>6. encoder' = encoder /\ dflush' = FALSE /\ dlo' = dlo /\ dhi' = dhi /\ dp' = dp
      /\ output' = output /\ expected' = expected /\ image' = image
  BY DEF DecodeFlush
<1>7. /\ sources' = sources /\ coded' = coded /\ flush' = flush /\ source' = source
      /\ lo' = lo /\ hi' = hi /\ p' = p
  BY <1>6 DEF encoder, source
<1>8. Sides'
  BY <1>6, <1>7 DEF Sides, Follows
<1>9. Carried(F, b, L)'
  <2>1. Ahead' = 4 /\ Behind' = Behind
    BY <1>6, <1>7 DEF Ahead, Behind
  <2>2. L = b + 4 + Len(wire') + Behind
    BY <1>1, <1>2, <1>5
  <2>3. ASSUME NEW i \in 1 .. Len(wire') PROVE wire'[i] = F[b + 4 + i]
    <3>1. i + 4 \in 1 .. Len(wire) /\ b + 4 + i = b + (i + 4)
      BY <1>1, <1>5
    <3>. QED  BY <1>3, <1>5, <3>1
  <2>. QED  BY <1>4, <2>1, <2>2, <2>3 DEF Carried
<1>10. OnTrace(F, T, N, b, L)'
  BY <1>0, <1>6, <1>7, <1>9 DEF OnTrace
<1>. QED  BY <1>8, <1>10 DEF Follows

LEMMA DecodeByteFollows ==
    ASSUME TypeOK, Follows, DecodeByte PROVE Follows'
<1>0. PICK F, T, N, b, L : OnTrace(F, T, N, b, L)
  BY DEF Follows
<1>1. /\ ~dflush /\ wire \in Seq(Message) /\ Len(wire) \in Nat /\ Len(wire) >= 1
      /\ Sides /\ Len(output) < expected /\ SameTop(dlo, dhi)
  BY DEF DecodeByte, Bytes, TypeOK, Follows
<1>2. N > 1 /\ Step(F, sources, T[1], T[2])
  BY <1>0, <1>1, First
<1>3. T[1].img = image /\ T[1].n = Len(output) /\ T[1].at = b /\ T[1].p = dp
      /\ T[1].lo = dlo /\ T[1].hi = dhi
  BY <1>0 DEF OnTrace, At
<1>4. ByteStep(F, sources, T[1], T[2])
  <2>1. Len(output) < Len(Src(sources, image)) /\ Len(output) \in Nat
    BY <1>1 DEF Sides, TypeOK
  <2>2. Len(Src(sources, image)) \in Nat
    BY <1>0, FirstPoint
  <2>. QED  BY <1>1, <1>2, <1>3, <2>1, <2>2 DEF Step, BitStep, ImageStep
<1>5. /\ wire[1] = F[b + 5] /\ Head(wire) = wire[1] /\ wire[1].kind = "byte"
      /\ L = b + 4 + Len(wire) + Behind
      /\ Len(wire') = Len(wire) - 1
      /\ \A i \in 1 .. Len(wire') : wire'[i] = wire[i + 1] /\ i + 1 \in 1 .. Len(wire)
  <2>1. /\ L = b + 4 + Len(wire) + Behind
        /\ \A i \in 1 .. Len(wire) : wire[i] = F[b + 4 + i]
    BY <1>0, <1>1 DEF OnTrace, Carried, Ahead
  <2>2. wire # <<>> /\ wire[1].kind = "byte"
    BY <1>1 DEF DecodeByte, Bytes
  <2>3. b + 4 + 1 = b + 5
    BY <1>0 DEF OnTrace
  <2>4. wire' = Tail(wire)
    BY DEF DecodeByte
  <2>. QED  BY <1>1, <2>1, <2>2, <2>3, <2>4, HeadTailProperties
<1>6. /\ encoder' = encoder /\ dflush' = FALSE /\ dp' = dp
      /\ output' = output /\ expected' = expected /\ image' = image
      /\ dlo' = Shifted(dlo) /\ dhi' = Shifted(dhi) + Byte - 1
      /\ x' = Shifted(x) + F[b + 5].v
  BY <1>1, <1>5 DEF DecodeByte
<1>7. /\ sources' = sources /\ coded' = coded /\ flush' = flush /\ source' = source
  BY <1>6 DEF encoder, source
<1>8. b \in Nat /\ L \in Nat /\ Behind \in Nat /\ F \in [Nat -> Message] /\ AreBytes(F, b)
  BY <1>0, FirstPoint DEF Behind
<1>9. Sides'
  BY <1>1, <1>6, <1>7 DEF Sides
<1>10. At(T[2], image, Len(output), dlo, dhi, dp, b + 1)'
  BY <1>3, <1>4, <1>6 DEF At, ByteStep
<1>11. x' = Val(F, b + 1)
  <2>1. x = Val(F, b)
    BY <1>0, <1>1 DEF OnTrace, Carried
  <2>2. PICK a \in 0 .. Byte - 1 : a = F[b + 1].v
    BY <1>8, ValFacts
  <2>3. PICK r \in 0 .. Top - 1 : x = a * Top + r /\ Val(F, b + 1) = r * Byte + F[b + 5].v
    BY SMTT(30), <1>5, <1>8, <2>1, <2>2, ValFacts
  <2>4. Shifted(x) = r * Byte
    BY <2>3, TopPart
  <2>. QED  BY <1>6, <2>3, <2>4
<1>12. Carried(F, b + 1, L)'
  <2>1. Ahead' = 4 /\ Behind' = Behind
    BY <1>6, <1>7 DEF Ahead, Behind
  <2>2. L = b + 1 + 4 + Len(wire') + Behind
    BY <1>1, <1>5, <1>8
  <2>3. ASSUME NEW i \in 1 .. Len(wire') PROVE wire'[i] = F[b + 1 + 4 + i]
    <3>1. wire'[i] = F[b + 4 + (i + 1)]
      BY <1>0, <1>1, <1>5 DEF OnTrace, Carried, Ahead
    <3>2. b + 4 + (i + 1) = b + 1 + 4 + i
      BY <1>1, <1>5, <1>8
    <3>. QED  BY <3>1, <3>2
  <2>. QED  BY <1>11, <2>1, <2>2, <2>3 DEF Carried
<1>13. b + 1 \in Nat
  BY <1>8
<1>. QED  BY <1>0, <1>2, <1>6, <1>9, <1>10, <1>12, <1>13, DecoderStep

(* The bit decoded is the one encoded.                                     *)
LEMMA DecodeBitFollows ==
    ASSUME TypeOK, Follows, DecodeBit PROVE Follows'
<1>0. PICK F, T, N, b, L : OnTrace(F, T, N, b, L)
  BY DEF Follows
<1>. DEFINE bits == Src(sources, image)
            k == NodeAt(output, Len(output))
            mid == Mid(dlo, dhi, dp[k])
            bit == IF x <= mid THEN 1 ELSE 0
<1>1. /\ ~dflush /\ Sides /\ Len(output) < expected /\ ~SameTop(dlo, dhi)
      /\ output \in Seq(Bit) /\ Len(output) \in Nat
  BY DEF DecodeBit, TypeOK, Follows
<1>2. N > 1 /\ Step(F, sources, T[1], T[2])
  BY <1>0, <1>1, First
<1>3. T[1].img = image /\ T[1].n = Len(output) /\ T[1].at = b /\ T[1].p = dp
      /\ T[1].lo = dlo /\ T[1].hi = dhi
  BY <1>0 DEF OnTrace, At
<1>4. /\ bits \in Seq(Bit) /\ Len(bits) \in Nat /\ Len(bits) = expected
      /\ Len(output) + 1 \in 1 .. Len(bits)
      /\ \A i \in 1 .. Len(output) : output[i] = bits[i]
  BY <1>0, <1>1, FirstPoint DEF Sides
<1>5. BitStep(sources, T[1], T[2])
  BY <1>1, <1>2, <1>3, <1>4 DEF Step, ByteStep, ImageStep
<1>6. NodeAt(bits, Len(output)) = k
  <2>1. Len(output) <= Len(bits)
    BY <1>4, <1>1
  <2>. QED  BY <1>1, <1>4, <2>1, SameNode
<1>7. /\ T[2].img = image /\ T[2].n = Len(output) + 1 /\ T[2].at = b
      /\ T[2].lo = IF bits[Len(output) + 1] = 1 THEN dlo ELSE mid + 1
      /\ T[2].hi = IF bits[Len(output) + 1] = 1 THEN mid ELSE dhi
      /\ T[2].p = [dp EXCEPT ![k] = UpdateP(@, bits[Len(output) + 1])]
  <2>1. T[2].p = [T[1].p EXCEPT ![NodeAt(Src(sources, T[1].img), T[1].n)]
                     = UpdateP(@, Src(sources, T[1].img)[T[1].n + 1])]
    BY <1>5 DEF BitStep
  <2>2. T[2].p = [dp EXCEPT ![k] = UpdateP(@, bits[Len(output) + 1])]
    BY <1>3, <1>6, <2>1
  <2>. QED  BY <1>3, <1>5, <1>6, <2>2 DEF BitStep
<1>8. bit = bits[Len(output) + 1]
  <2>1. Val(F, b) \in T[2].lo .. T[2].hi
    <3>1. /\ N \in Nat \ {0} /\ L \in Nat /\ Trace(F, T, N, L, sources)
          /\ sources \in Seq(Source) /\ Val(F, T[N].at) = T[N].hi
      BY <1>0 DEF OnTrace, At, TypeOK
    <3>2. 2 \in 1 .. N
      BY <1>2, <3>1
    <3>. QED  BY <1>7, <3>1, <3>2, Nested
  <2>2. x = Val(F, b)
    BY <1>0, <1>1 DEF OnTrace, Carried
  <2>3. bits[Len(output) + 1] \in {0, 1}
    BY <1>4 DEF Bit
  <2>4. k \in Node
    BY <1>1, NodeIn
  <2>5. mid \in Nat /\ x \in Nat
    <3>1. dlo # dhi
      BY <1>1 DEF SameTop
    <3>2. dlo \in Nat /\ dhi \in Nat /\ dlo <= dhi /\ x \in Nat
      BY Widths DEF TypeOK
    <3>3. dp[k] \in 0 .. Prob - 1
      BY <2>4 DEF TypeOK
    <3>. HIDE DEF k
    <3>4. dlo < dhi
      BY <3>1, <3>2
    <3>. QED  BY <3>2, <3>3, <3>4, MidInside
  <2>. HIDE DEF mid, bits
  <2>6. CASE bits[Len(output) + 1] = 1
    BY <1>7, <2>1, <2>2, <2>5, <2>6
  <2>7. CASE bits[Len(output) + 1] = 0
    BY <1>7, <2>1, <2>2, <2>5, <2>7
  <2>. QED  BY <2>3, <2>6, <2>7
<1>9. /\ dlo' = T[2].lo /\ dhi' = T[2].hi /\ dp' = T[2].p /\ output' = Append(output, bit)
      /\ wire' = wire /\ x' = x /\ dflush' = FALSE
      /\ expected' = expected /\ image' = image /\ encoder' = encoder
  <2>1. /\ bit = 1 => dhi' = mid /\ dlo' = dlo
        /\ bit # 1 => dlo' = mid + 1 /\ dhi' = dhi
        /\ dp' = [dp EXCEPT ![k] = UpdateP(@, bit)]
        /\ output' = Append(output, bit)
        /\ wire' = wire /\ x' = x /\ dflush' = dflush
        /\ expected' = expected /\ image' = image /\ encoder' = encoder
    BY DEF DecodeBit
  <2>. HIDE DEF mid, bits, bit, k
  <2>. QED  BY <1>1, <1>7, <1>8, <2>1
<1>10. sources' = sources /\ coded' = coded /\ flush' = flush /\ source' = source
  BY <1>9 DEF encoder, source
<1>. HIDE DEF mid, bit, k
<1>11. /\ output' \in Seq(Bit) /\ Len(output') = Len(output) + 1
       /\ \A i \in 1 .. Len(output) : output'[i] = output[i]
       /\ output'[Len(output) + 1] = bit
  <2>1. bit \in Bit
    BY <1>4, <1>8
  <2>. QED  BY <1>1, <1>9, <2>1
<1>12. Sides'
  <2>1. Src(sources', image') = bits
    BY <1>9, <1>10
  <2>2. \A i \in 1 .. Len(output') : output'[i] = bits[i]
    <3>1. \A i \in 1 .. Len(output') : i = Len(output) + 1 \/ i \in 1 .. Len(output)
      BY <1>1, <1>11
    <3>. QED  BY <1>4, <1>8, <1>11, <3>1
  <2>3. Len(output') <= expected' /\ expected' = Len(bits)
    BY <1>1, <1>4, <1>9, <1>11
  <2>. QED  BY <1>1, <1>10, <2>1, <2>2, <2>3 DEF Sides
<1>13. At(T[2], image, Len(output), dlo, dhi, dp, b)'
  BY <1>7, <1>9, <1>11 DEF At
<1>14. Carried(F, b, L)'
  BY <1>0, <1>1, <1>9, <1>10 DEF OnTrace, Carried, Ahead, Behind
<1>. QED  BY <1>0, <1>2, <1>9, <1>12, <1>13, <1>14, FirstPoint, DecoderStep

(* A byte appended to the stream, or one read ahead, is as it is written.  *)
LEMMA SameMessage ==
    ASSUME NEW m \in Message, m.kind = "byte"
    PROVE  m = ByteOf(m.v)
  BY DEF Message, ByteOf

LEMMA LastPoint ==
    ASSUME TypeOK, NEW F, NEW T, NEW N, NEW b, NEW L, OnTrace(F, T, N, b, L)
    PROVE  /\ T[N].img = Len(sources) /\ T[N].n = coded /\ T[N].lo = lo /\ T[N].hi = hi
           /\ T[N].p = p /\ T[N].at = L - 4 /\ Val(F, L - 4) = hi
           /\ source = Src(sources, Len(sources)) /\ Longer(sources, sources)
           /\ Len(sources) \in Nat /\ source \in Seq(Bit)
<1>1. sources \in Seq(Source) /\ Len(sources) \in 0 .. Len(sources)
  BY DEF TypeOK
<1>2. source = Src(sources, Len(sources)) /\ source \in Seq(Bit)
  BY <1>1, SourceIs, SrcType
<1>. QED  BY <1>1, <1>2 DEF OnTrace, At, Longer

LEMMA EncodeFlushFollows ==
    ASSUME TypeOK, Follows, EncodeFlush PROVE Follows'
<1>0. PICK F, T, N, b, L : OnTrace(F, T, N, b, L)
  BY DEF Follows
<1>1. /\ b \in Nat /\ L \in Nat /\ Ahead \in Nat /\ wire \in Seq(Message)
      /\ Len(wire) \in Nat /\ L - 4 \in Nat /\ AreBytes(F, L - 4) /\ F \in [Nat -> Message]
      /\ Val(F, L - 4) = hi
  <2>1. /\ b \in Nat /\ L \in Nat /\ L - 4 \in Nat /\ AreBytes(F, L - 4)
        /\ F \in [Nat -> Message]
    BY <1>0, FirstPoint
  <2>2. Val(F, L - 4) = hi
    BY <1>0, LastPoint
  <2>3. Ahead \in Nat /\ wire \in Seq(Message) /\ Len(wire) \in Nat
    BY DEF Ahead, TypeOK
  <2>. QED  BY <2>1, <2>2, <2>3
<1>2. L = b + Ahead + Len(wire) + 4
  BY <1>0 DEF EncodeFlush, OnTrace, Carried, Behind
<1>3. PICK s : s = << ByteOf(hi \div Top), ByteOf((hi \div Prob) % Byte),
                      ByteOf((hi \div Byte) % Byte), ByteOf(hi % Byte) >>
  OBVIOUS
<1>4. wire' = wire \o s
  BY <1>3 DEF EncodeFlush, ByteOf
<1>5. /\ hi \div Top = F[(L - 4) + 1].v /\ (hi \div Prob) % Byte = F[(L - 4) + 2].v
      /\ (hi \div Byte) % Byte = F[(L - 4) + 3].v /\ hi % Byte = F[(L - 4) + 4].v
  BY <1>1, ValFacts
<1>6. \A k \in 1 .. 4 : F[(L - 4) + k] \in Message /\ F[(L - 4) + k] = ByteOf(F[(L - 4) + k].v)
  <2>1. \A k \in 1 .. 4 : (L - 4) + k \in Nat /\ F[(L - 4) + k].kind = "byte"
    BY SMTT(30), <1>1 DEF AreBytes
  <2>. QED  BY <1>1, <2>1, SameMessage
<1>7. s = << F[(L - 4) + 1], F[(L - 4) + 2], F[(L - 4) + 3], F[(L - 4) + 4] >>
  BY <1>3, <1>5, <1>6
<1>8. s \in Seq(Message) /\ Len(s) = 4 /\ \A k \in 1 .. 4 : s[k] = F[(L - 4) + k]
  <2>1. \A k \in 1 .. 4 : k = 1 \/ k = 2 \/ k = 3 \/ k = 4
    OBVIOUS
  <2>. QED  BY <1>6, <1>7, <2>1
<1>9. /\ Len(wire') = Len(wire) + 4
      /\ \A i \in 1 .. Len(wire) : wire'[i] = wire[i]
      /\ \A k \in 1 .. 4 : wire'[Len(wire) + k] = F[(L - 4) + k]
  <2>1. \A i \in 1 .. Len(wire) + Len(s) :
           wire'[i] = IF i <= Len(wire) THEN wire[i] ELSE s[i - Len(wire)]
    BY <1>1, <1>4, <1>8, ConcatProperties
  <2>2. Len(wire') = Len(wire) + 4
    <3>1. Len(wire \o s) = Len(wire) + Len(s)
      BY <1>1, <1>8, ConcatProperties
    <3>2. Len(wire') = Len(wire) + Len(s)
      BY <1>4, <3>1
    <3>. QED  BY <1>8, <3>2
  <2>3. ASSUME NEW k \in 1 .. 4 PROVE wire'[Len(wire) + k] = F[(L - 4) + k]
    <3>1. Len(wire) + k \in 1 .. Len(wire) + Len(s) /\ (Len(wire) + k) - Len(wire) = k
      BY <1>1, <1>8
    <3>2. ~(Len(wire) + k <= Len(wire))
      BY <1>1
    <3>. QED  BY <1>8, <2>1, <3>1, <3>2
  <2>4. ASSUME NEW i \in 1 .. Len(wire) PROVE wire'[i] = wire[i]
    <3>1. i \in 1 .. Len(wire) + Len(s) /\ i <= Len(wire)
      BY <1>1, <1>8
    <3>. QED  BY <2>1, <3>1
  <2>. QED  BY <2>2, <2>3, <2>4
<1>10. flush' = FALSE /\ lo' = lo /\ hi' = hi /\ p' = p /\ sources' = sources
       /\ coded' = coded /\ decoder' = decoder
  BY DEF EncodeFlush
<1>11. /\ dlo' = dlo /\ dhi' = dhi /\ dp' = dp /\ dflush' = dflush /\ x' = x
       /\ output' = output /\ expected' = expected /\ image' = image /\ source' = source
  BY <1>10 DEF decoder, source
<1>12. Sides'
  <2>1. coded = Len(source)
    BY DEF EncodeFlush
  <2>2. ~(coded' < Len(source'))
    BY <1>10, <1>11, <2>1 DEF TypeOK
  <2>. QED  BY <1>10, <1>11, <2>2 DEF Sides, Follows
<1>13. Carried(F, b, L)'
  <2>1. Ahead' = Ahead /\ Behind' = 0
    BY <1>10, <1>11 DEF Ahead, Behind
  <2>2. L = b + Ahead + Len(wire') + 0
    BY <1>1, <1>2, <1>9
  <2>3. ASSUME NEW i \in 1 .. Len(wire') PROVE wire'[i] = F[b + Ahead + i]
    <3>1. CASE i \in 1 .. Len(wire)
      BY <1>0, <1>9, <3>1 DEF OnTrace, Carried
    <3>2. CASE i \notin 1 .. Len(wire)
      <4>1. PICK k \in 1 .. 4 : i = Len(wire) + k
        <5>1. i - Len(wire) \in 1 .. 4
          BY <1>1, <1>9, <3>2
        <5>2. i = Len(wire) + (i - Len(wire))
          BY <1>1, <1>9
        <5>. QED  BY <5>1, <5>2
      <4>2. (L - 4) + k = b + Ahead + i
        BY <1>1, <1>2, <4>1
      <4>. QED  BY <1>9, <4>1, <4>2
    <3>. QED  BY <3>1, <3>2
  <2>4. ~dflush' => x' = Val(F, b)
    BY <1>0, <1>11 DEF OnTrace, Carried
  <2>. QED  BY <2>1, <2>2, <2>3, <2>4 DEF Carried
<1>14. OnTrace(F, T, N, b, L)'
  BY <1>0, <1>10, <1>11, <1>13 DEF OnTrace
<1>. QED  BY <1>12, <1>14 DEF Follows

(* What is on its way is the same of a stream that changes behind it.      *)
Alike(F, G, z) == \A k \in 0 .. z : G[k] = F[k]

LEMMA CarriedGrown ==
    ASSUME NEW F, NEW G, NEW b \in Nat, NEW L, NEW z \in Nat, Carried(F, b, L),
           wire \in Seq(Message), b + Ahead + Len(wire) <= z, Alike(F, G, z)
    PROVE  /\ \A i \in 1 .. Len(wire) : wire[i] = G[b + Ahead + i]
           /\ ~dflush => x = Val(G, b)
<1>1. Len(wire) \in Nat /\ Ahead \in {0, 4}
  BY DEF Ahead
<1>2. ASSUME NEW i \in 1 .. Len(wire) PROVE wire[i] = G[b + Ahead + i]
  <2>1. b + Ahead + i \in 0 .. z
    BY <1>1
  <2>. QED  BY <2>1 DEF Carried, Alike
<1>3. ASSUME ~dflush PROVE x = Val(G, b)
  <2>1. Ahead = 4
    BY <1>3 DEF Ahead
  <2>2. b + 1 \in 0 .. z /\ b + 2 \in 0 .. z /\ b + 3 \in 0 .. z /\ b + 4 \in 0 .. z
    BY <1>1, <2>1
  <2>. QED  BY <1>3, <2>2 DEF Carried, Val, Alike
<1>. QED  BY <1>2, <1>3

LEMMA PutGrown ==
    ASSUME NEW F \in [Nat -> Message], NEW G \in [Nat -> Message], NEW L \in Nat, NEW M \in Nat,
           4 <= L, L <= M, NEW a \in Nat, L - 4 <= a, AreBytes(G, a),
           \A k \in Nat : k \notin a + 1 .. a + 4 /\ k <= L => G[k] = F[k]
    PROVE  Grown(F, G, L, M)
<1>1. ASSUME NEW k \in 0 .. L - 4 PROVE G[k] = F[k]
  BY <1>1
<1>2. ASSUME NEW k \in 0 .. L, F[k].kind = "byte" PROVE G[k].kind = "byte"
  <2>1. CASE k \in a + 1 .. a + 4
    <3>1. k - a \in 1 .. 4 /\ k = a + (k - a)
      BY <2>1
    <3>. QED  BY <3>1 DEF AreBytes
  <2>2. CASE k \notin a + 1 .. a + 4
    BY <1>2, <2>2
  <2>. QED  BY <2>1, <2>2
<1>. QED  BY <1>1, <1>2 DEF Grown

LEMMA EncodeBitFollows ==
    ASSUME TypeOK, TypeOK', Follows, EncodeBit PROVE Follows'
<1>0. PICK F, T, N, b, L : OnTrace(F, T, N, b, L)
  BY DEF Follows
<1>1. /\ b \in Nat /\ L \in Nat /\ L - 4 \in Nat /\ F \in [Nat -> Message]
      /\ N \in Nat \ {0}
  BY <1>0, FirstPoint
<1>2. /\ T[N].img = Len(sources) /\ T[N].n = coded /\ T[N].lo = lo /\ T[N].hi = hi
      /\ T[N].p = p /\ T[N].at = L - 4
      /\ source = Src(sources, Len(sources)) /\ Longer(sources, sources)
      /\ Len(sources) \in Nat /\ source \in Seq(Bit) /\ Len(source) \in Nat
  BY <1>0, LastPoint
<1>. DEFINE k == NodeAt(source, coded)
            mid == Mid(lo, hi, p[k])
            bit == source[coded + 1]
<1>3. /\ coded < Len(source) /\ ~SameTop(lo, hi) /\ coded \in Nat
      /\ lo' = (IF bit = 1 THEN lo ELSE mid + 1) /\ hi' = (IF bit = 1 THEN mid ELSE hi)
      /\ p' = [p EXCEPT ![k] = UpdateP(@, bit)]
      /\ coded' = coded + 1 /\ sources' = sources /\ flush' = flush /\ wire' = wire
      /\ decoder' = decoder /\ source' = source
  <2>1. /\ coded < Len(source) /\ ~SameTop(lo, hi)
        /\ bit = 1 => hi' = mid /\ lo' = lo
        /\ bit # 1 => lo' = mid + 1 /\ hi' = hi
        /\ p' = [p EXCEPT ![k] = UpdateP(@, bit)]
        /\ coded' = coded + 1 /\ sources' = sources /\ flush' = flush /\ wire' = wire
        /\ decoder' = decoder
    BY DEF EncodeBit
  <2>2. coded \in Nat /\ source' = source
    BY <2>1 DEF TypeOK, source
  <2>. HIDE DEF mid, bit, k
  <2>. QED  BY <2>1, <2>2
<1>4. /\ dlo' = dlo /\ dhi' = dhi /\ dp' = dp /\ dflush' = dflush /\ x' = x
      /\ output' = output /\ expected' = expected /\ image' = image
  BY <1>3 DEF decoder
<1>5. flush /\ Sides /\ Behind = 4 /\ Behind' = 4 /\ Ahead' = Ahead
  BY <1>3, <1>4 DEF Sides, Follows, Behind, Ahead
<1>6. /\ hi' \in 0 .. Word - 1 /\ lo' \in 0 .. Word - 1 /\ lo' <= hi'
      /\ p' \in [Node -> 0 .. Prob - 1]
  BY DEF TypeOK
<1>7. PICK G : G = PutWord(F, L - 4, hi')
  OBVIOUS
<1>8. /\ G \in [Nat -> Message] /\ AreBytes(G, L - 4) /\ Val(G, L - 4) = hi'
      /\ \A j \in Nat : j \notin (L - 4) + 1 .. (L - 4) + 4 => G[j] = F[j]
  BY <1>1, <1>6, <1>7, PutFacts
<1>9. Grown(F, G, L, L)
  <2>1. 4 <= L /\ L <= L
    BY <1>1
  <2>. QED  BY <1>1, <1>8, <2>1, PutGrown
<1>10. PICK t : t = [img |-> Len(sources), n |-> coded + 1, lo |-> lo', hi |-> hi',
                     p |-> p', at |-> L - 4]
  OBVIOUS
<1>11. t \in Point
  BY SMTT(30), <1>1, <1>2, <1>3, <1>6, <1>10 DEF Point
<1>12. Sound(G, L, sources', t)
  <2>1. coded + 1 <= Len(source) /\ (L - 4) + 4 <= L
    BY <1>1, <1>2, <1>3
  <2>. QED  BY <1>2, <1>3, <1>6, <1>8, <1>10, <2>1 DEF Sound
<1>13. BitStep(sources', T[N], t)
  <2>1. t.lo = lo' /\ t.hi = hi' /\ t.p = p' /\ t.img = Len(sources) /\ t.n = coded + 1
        /\ t.at = L - 4
    BY <1>10
  <2>2. Src(sources', T[N].img) = source
    BY <1>2, <1>3
  <2>. QED  BY <1>2, <1>3, <2>1, <2>2 DEF BitStep
<1>14. Step(G, sources', T[N], t)
  BY <1>13 DEF Step
<1>15. At(t, Len(sources), coded, lo, hi, p, L - 4)'
  BY <1>3, <1>10 DEF At
<1>16. Carried(G, b, L)'
  <2>1. L = b + Ahead + Len(wire) + 4 /\ Carried(F, b, L) /\ Ahead \in Nat
    BY <1>0, <1>5 DEF OnTrace, Carried, Ahead
  <2>2. Alike(F, G, L - 4)
    BY <1>9 DEF Grown, Alike
  <2>3. b + Ahead + Len(wire) <= L - 4 /\ wire \in Seq(Message) /\ Len(wire) \in Nat
    <3>1. wire \in Seq(Message) /\ Len(wire) \in Nat
      BY DEF TypeOK
    <3>. QED  BY <1>1, <2>1, <3>1
  <2>4. /\ \A i \in 1 .. Len(wire) : wire[i] = G[b + Ahead + i]
        /\ ~dflush => x = Val(G, b)
    BY <1>1, <2>1, <2>2, <2>3, CarriedGrown
  <2>. QED  BY <1>3, <1>4, <1>5, <2>1, <2>4 DEF Carried
<1>17. Sides'
  BY <1>3, <1>4, <1>5 DEF Sides
<1>. QED  BY <1>0, <1>1, <1>2, <1>3, <1>8, <1>9, <1>11, <1>12, <1>14, <1>15, <1>16, <1>17, EncoderStep

LEMMA EncodeByteFollows ==
    ASSUME TypeOK, TypeOK', Follows, EncodeByte PROVE Follows'
<1>0. PICK F, T, N, b, L : OnTrace(F, T, N, b, L)
  BY DEF Follows
<1>1. /\ b \in Nat /\ L \in Nat /\ L - 4 \in Nat /\ F \in [Nat -> Message]
      /\ N \in Nat \ {0} /\ AreBytes(F, L - 4)
  BY <1>0, FirstPoint
<1>2. /\ T[N].img = Len(sources) /\ T[N].n = coded /\ T[N].lo = lo /\ T[N].hi = hi
      /\ T[N].p = p /\ T[N].at = L - 4 /\ Val(F, L - 4) = hi
      /\ source = Src(sources, Len(sources)) /\ Longer(sources, sources)
      /\ Len(sources) \in Nat /\ source \in Seq(Bit) /\ Len(source) \in Nat
  BY <1>0, LastPoint
<1>3. /\ coded < Len(source) /\ SameTop(lo, hi) /\ coded \in Nat
      /\ lo' = Shifted(lo) /\ hi' = Shifted(hi) + Byte - 1
      /\ wire' = Append(wire, ByteOf(hi \div Top))
      /\ p' = p /\ coded' = coded /\ sources' = sources /\ flush' = flush
      /\ decoder' = decoder /\ source' = source
  BY DEF EncodeByte, TypeOK, source, ByteOf
<1>4. /\ dlo' = dlo /\ dhi' = dhi /\ dp' = dp /\ dflush' = dflush /\ x' = x
      /\ output' = output /\ expected' = expected /\ image' = image
  BY <1>3 DEF decoder
<1>5. flush /\ Sides /\ Behind = 4 /\ Behind' = 4 /\ Ahead' = Ahead
  BY <1>3, <1>4 DEF Sides, Follows, Behind, Ahead
<1>6. /\ hi' \in 0 .. Word - 1 /\ lo' \in 0 .. Word - 1 /\ lo' <= hi'
      /\ p' \in [Node -> 0 .. Prob - 1]
  BY DEF TypeOK
<1>7. PICK G : G = PutWord(F, L - 3, hi')
  OBVIOUS
<1>8. /\ G \in [Nat -> Message] /\ AreBytes(G, L - 3) /\ Val(G, L - 3) = hi'
      /\ \A j \in Nat : j \notin (L - 3) + 1 .. (L - 3) + 4 => G[j] = F[j]
      /\ L - 3 \in Nat /\ L + 1 \in Nat /\ L - 3 = (L + 1) - 4
  <2>1. L - 3 \in Nat /\ L + 1 \in Nat /\ L - 3 = (L + 1) - 4
    BY <1>1
  <2>. QED  BY SMTT(30), <1>1, <1>6, <1>7, <2>1, PutFacts
<1>9. Grown(F, G, L, L + 1)
  <2>1. 4 <= L /\ L <= L + 1 /\ L - 4 <= L - 3
    BY <1>1
  <2>. QED  BY <1>1, <1>8, <2>1, PutGrown
<1>10. PICK t : t = [img |-> Len(sources), n |-> coded, lo |-> lo', hi |-> hi',
                     p |-> p', at |-> L - 3]
  OBVIOUS
<1>11. t \in Point
  BY <1>2, <1>3, <1>6, <1>8, <1>10 DEF Point
<1>12. Sound(G, L + 1, sources', t)
  <2>1. coded <= Len(source) /\ (L - 3) + 4 <= L + 1
    BY <1>1, <1>2, <1>3
  <2>. QED  BY <1>2, <1>3, <1>6, <1>8, <1>10, <2>1 DEF Sound
<1>13. F[L - 3] = ByteOf(hi \div Top) /\ G[L - 3] = F[L - 3] /\ L - 3 = (L - 4) + 1
  <2>1. L - 3 = (L - 4) + 1 /\ L - 3 \notin (L - 3) + 1 .. (L - 3) + 4
    BY <1>1
  <2>2. F[(L - 4) + 1].v = hi \div Top
    <3>1. Val(F, L - 4) \div Top = F[(L - 4) + 1].v
      BY <1>1, ValFacts
    <3>. QED  BY <1>2, <3>1
  <2>3. F[(L - 4) + 1].kind = "byte"
    BY <1>1 DEF AreBytes
  <2>4. F[L - 3] \in Message
    BY <1>1, <1>8
  <2>. QED  BY <1>8, <2>1, <2>2, <2>3, <2>4, SameMessage
<1>14. Step(G, sources', T[N], t)
  <2>1. t.lo = lo' /\ t.hi = hi' /\ t.p = p' /\ t.img = Len(sources) /\ t.n = coded
        /\ t.at = (L - 4) + 1
    BY <1>10, <1>13
  <2>2. Src(sources', T[N].img) = source
    BY <1>2, <1>3
  <2>3. G[(L - 4) + 1].v = hi \div Top
    BY <1>13 DEF ByteOf
  <2>. QED  BY <1>2, <1>3, <2>1, <2>2, <2>3 DEF ByteStep, Step
<1>15. At(t, Len(sources), coded, lo, hi, p, (L + 1) - 4)'
  BY <1>3, <1>8, <1>10 DEF At
<1>16. Carried(G, b, L + 1)'
  <2>1. L = b + Ahead + Len(wire) + 4 /\ Carried(F, b, L) /\ Ahead \in Nat
    BY <1>0, <1>5 DEF OnTrace, Carried, Ahead
  <2>2. Alike(F, G, L - 4)
    BY <1>9 DEF Grown, Alike
  <2>3. b + Ahead + Len(wire) <= L - 4 /\ wire \in Seq(Message) /\ Len(wire) \in Nat
    <3>1. wire \in Seq(Message) /\ Len(wire) \in Nat
      BY DEF TypeOK
    <3>. QED  BY <1>1, <2>1, <3>1
  <2>4. /\ \A i \in 1 .. Len(wire) : wire[i] = G[b + Ahead + i]
        /\ ~dflush => x = Val(G, b)
    BY <1>1, <2>1, <2>2, <2>3, CarriedGrown
  <2>5. /\ Len(wire') = Len(wire) + 1
        /\ \A i \in 1 .. Len(wire) : wire'[i] = wire[i]
        /\ wire'[Len(wire) + 1] = G[L - 3]
    <3>1. ByteOf(hi \div Top) \in Message
      BY <1>1, <1>8, <1>13
    <3>2. PICK m \in Message : m = ByteOf(hi \div Top)
      BY <3>1
    <3>3. wire' = Append(wire, m)
      BY <1>3, <3>2
    <3>. QED  BY <1>13, <2>3, <3>2, <3>3
  <2>6. L + 1 = b + Ahead + Len(wire') + 4
    BY <1>1, <2>1, <2>3, <2>5
  <2>7. ASSUME NEW i \in 1 .. Len(wire') PROVE wire'[i] = G[b + Ahead + i]
    <3>1. CASE i = Len(wire) + 1
      <4>1. b + Ahead + i = L - 3
        BY <1>1, <2>1, <2>3, <3>1
      <4>. QED  BY <2>5, <3>1, <4>1
    <3>2. CASE i # Len(wire) + 1
      <4>1. i \in 1 .. Len(wire)
        BY <2>3, <2>5, <3>2
      <4>. QED  BY <2>4, <2>5, <4>1
    <3>. QED  BY <3>1, <3>2
  <2>. QED  BY <1>4, <1>5, <2>4, <2>6, <2>7 DEF Carried
<1>17. Sides'
  BY <1>3, <1>4, <1>5 DEF Sides
<1>. QED  BY <1>0, <1>2, <1>3, <1>8, <1>9, <1>11, <1>12, <1>14, <1>15, <1>16, <1>17, EncoderStep

LEMMA BeginImageFollows ==
    ASSUME TypeOK, TypeOK', Follows, NEW s \in Source, BeginImage(s) PROVE Follows'
<1>0. PICK F, T, N, b, L : OnTrace(F, T, N, b, L)
  BY DEF Follows
<1>1. /\ b \in Nat /\ L \in Nat /\ L - 4 \in Nat /\ F \in [Nat -> Message]
      /\ N \in Nat \ {0} /\ AreBytes(F, L - 4) /\ sources \in Seq(Source)
  BY <1>0, FirstPoint
<1>2. /\ T[N].img = Len(sources) /\ T[N].n = coded /\ T[N].lo = lo /\ T[N].hi = hi
      /\ T[N].p = p /\ T[N].at = L - 4 /\ Val(F, L - 4) = hi
      /\ source = Src(sources, Len(sources))
      /\ Len(sources) \in Nat /\ source \in Seq(Bit) /\ Len(source) \in Nat
  BY <1>0, LastPoint
<1>3. /\ coded = Len(source) /\ ~flush
      /\ sources' = Append(sources, s) /\ coded' = 0 /\ flush' = TRUE
      /\ lo' = 0 /\ hi' = Word - 1 /\ p' = p /\ decoder' = decoder
      /\ wire' = Append(wire, [kind |-> "image", v |-> Len(s)])
  BY DEF BeginImage
<1>4. /\ dlo' = dlo /\ dhi' = dhi /\ dp' = dp /\ dflush' = dflush /\ x' = x
      /\ output' = output /\ expected' = expected /\ image' = image
  BY <1>3 DEF decoder
<1>5. Sides /\ Behind = 0 /\ Behind' = 4 /\ Ahead' = Ahead
  BY <1>3, <1>4 DEF Follows, Behind, Ahead
<1>6. /\ sources' \in Seq(Source) /\ Len(sources') = Len(sources) + 1
      /\ \A m \in 1 .. Len(sources) : sources'[m] = sources[m]
      /\ sources'[Len(sources) + 1] = s
  BY <1>1, <1>3
<1>7. Longer(sources, sources')
  BY <1>1, <1>2, <1>6 DEF Longer
<1>8. /\ \A m \in 0 .. Len(sources) : Src(sources', m) = Src(sources, m)
      /\ Src(sources', Len(sources) + 1) = s /\ Len(s) \in Nat
      /\ Len(sources') \in Nat
  <2>1. \A m \in 0 .. Len(sources) : Src(sources', m) = Src(sources, m)
    BY <1>2, <1>6 DEF Src
  <2>2. Src(sources', Len(sources) + 1) = s
    BY <1>2, <1>6 DEF Src
  <2>3. Len(sources) + 1 \in 0 .. Len(sources')
    BY <1>2, <1>6
  <2>. QED  BY <1>6, <2>1, <2>2, <2>3, SrcType
<1>9. PICK header : header = [kind |-> "image", v |-> Len(s)]
  OBVIOUS
<1>10. header \in Message
  BY <1>8, <1>9 DEF Message
<1>11. PICK H : H = [F EXCEPT ![L + 1] = header]
  OBVIOUS
<1>12. /\ H \in [Nat -> Message] /\ H[L + 1] = header
       /\ \A j \in Nat : j # L + 1 => H[j] = F[j]
       /\ L + 1 \in Nat /\ L + 5 \in Nat /\ L + 1 = (L + 5) - 4
  BY <1>1, <1>10, <1>11
<1>13. Word - 1 \in 0 .. Word - 1 /\ 0 \in 0 .. Word - 1 /\ 0 <= Word - 1
  BY Widths
<1>14. PICK G : G = PutWord(H, L + 1, Word - 1)
  OBVIOUS
<1>15. /\ G \in [Nat -> Message] /\ AreBytes(G, L + 1) /\ Val(G, L + 1) = Word - 1
       /\ \A j \in Nat : j \notin (L + 1) + 1 .. (L + 1) + 4 => G[j] = H[j]
  BY <1>12, <1>13, <1>14, PutFacts
<1>16. G[L + 1] = header /\ \A j \in 0 .. L : G[j] = F[j]
  <2>1. L + 1 \notin (L + 1) + 1 .. (L + 1) + 4
    BY <1>1
  <2>2. \A j \in 0 .. L : j \notin (L + 1) + 1 .. (L + 1) + 4 /\ j # L + 1 /\ j \in Nat
    BY <1>1
  <2>. QED  BY <1>12, <1>15, <2>1, <2>2
<1>17. Grown(F, G, L, L + 5)
  <2>1. 4 <= L /\ L <= L + 5 /\ \A j \in 0 .. L - 4 : j \in 0 .. L
    BY <1>1
  <2>. QED  BY <1>1, <1>12, <1>15, <1>16, <2>1 DEF Grown
<1>18. PICK t : t = [img |-> Len(sources) + 1, n |-> 0, lo |-> 0, hi |-> Word - 1,
                     p |-> p, at |-> L + 1]
  OBVIOUS
<1>19. t \in Point
  <2>1. p \in [Node -> 0 .. Prob - 1]
    BY DEF TypeOK
  <2>. QED  BY <1>2, <1>12, <1>13, <1>18, <2>1 DEF Point
<1>20. Sound(G, L + 5, sources', t)
  <2>1. (L + 1) + 4 <= L + 5 /\ 0 <= Len(s) /\ Len(sources) + 1 <= Len(sources')
    BY <1>1, <1>2, <1>6, <1>8
  <2>. QED  BY <1>8, <1>13, <1>15, <1>18, <2>1 DEF Sound
<1>21. ImageStep(G, sources', T[N], t)
  <2>1. Src(sources', Len(sources)) = source
    BY <1>2, <1>8
  <2>2. Len(sources) < Len(sources')
    BY <1>2, <1>6
  <2>3. Val(G, L - 4) = Val(F, L - 4)
    <3>1. /\ (L - 4) + 1 \in 0 .. L /\ (L - 4) + 2 \in 0 .. L
          /\ (L - 4) + 3 \in 0 .. L /\ (L - 4) + 4 \in 0 .. L
      BY <1>1
    <3>. QED  BY <1>16, <3>1 DEF Val
  <2>4. (L - 4) + 5 = L + 1
    BY <1>1
  <2>5. t.img = Len(sources) + 1 /\ t.n = 0 /\ t.lo = 0 /\ t.hi = Word - 1 /\ t.p = p
        /\ t.at = L + 1
    BY <1>18
  <2>. QED  BY <1>2, <1>3, <1>6, <1>9, <1>16, <2>1, <2>2, <2>3, <2>4, <2>5 DEF ImageStep
<1>22. Step(G, sources', T[N], t)
  BY <1>21 DEF Step
<1>23. At(t, Len(sources), coded, lo, hi, p, (L + 5) - 4)'
  BY <1>3, <1>6, <1>12, <1>18 DEF At
<1>24. Carried(G, b, L + 5)'
  <2>1. L = b + Ahead + Len(wire) + 0 /\ Carried(F, b, L) /\ Ahead \in Nat
    BY <1>0, <1>5 DEF OnTrace, Carried, Ahead
  <2>2. b + Ahead + Len(wire) <= L /\ wire \in Seq(Message) /\ Len(wire) \in Nat
    <3>1. wire \in Seq(Message) /\ Len(wire) \in Nat
      BY DEF TypeOK
    <3>. QED  BY <1>1, <2>1, <3>1
  <2>3. /\ \A i \in 1 .. Len(wire) : wire[i] = G[b + Ahead + i]
        /\ ~dflush => x = Val(G, b)
    <3>1. Alike(F, G, L)
      BY <1>16 DEF Alike
    <3>. QED  BY <1>1, <2>1, <2>2, <3>1, CarriedGrown
  <2>4. /\ Len(wire') = Len(wire) + 1
        /\ \A i \in 1 .. Len(wire) : wire'[i] = wire[i]
        /\ wire'[Len(wire) + 1] = G[L + 1]
    <3>1. wire' = Append(wire, header)
      BY <1>3, <1>9
    <3>. QED  BY <1>10, <1>16, <2>2, <3>1
  <2>5. L + 5 = b + Ahead + Len(wire') + 4
    BY <1>1, <2>1, <2>2, <2>4
  <2>6. ASSUME NEW i \in 1 .. Len(wire') PROVE wire'[i] = G[b + Ahead + i]
    <3>1. CASE i = Len(wire) + 1
      <4>1. b + Ahead + i = L + 1
        BY <1>1, <2>1, <2>2, <3>1
      <4>. QED  BY <2>4, <3>1, <4>1
    <3>2. CASE i # Len(wire) + 1
      <4>1. i \in 1 .. Len(wire)
        BY <2>2, <2>4, <3>2
      <4>. QED  BY <2>3, <2>4, <4>1
    <3>. QED  BY <3>1, <3>2
  <2>. QED  BY <1>4, <1>5, <2>3, <2>5, <2>6 DEF Carried
<1>25. Sides'
  <2>1. image \in 0 .. Len(sources)
    BY <1>0, FirstPoint
  <2>2. Src(sources', image') = Src(sources, image)
    BY <1>4, <1>8, <2>1
  <2>. QED  BY <1>3, <1>4, <1>5, <2>2 DEF Sides
<1>26. 4 <= L
  BY <1>1
<1>. QED  BY <1>0, <1>3, <1>7, <1>12, <1>15, <1>17, <1>19, <1>20, <1>22, <1>23, <1>24, <1>25, EncoderStep

LEMMA InitFollows ==
    ASSUME TypeOK, Init PROVE Follows
<1>1. PICK F, T : /\ F = [k \in Nat |-> ByteOf(0)]
                  /\ T = [i \in 1 .. 1 |-> [img |-> 0, n |-> 0, lo |-> 0, hi |-> 0,
                                            p |-> p, at |-> 0]]
  OBVIOUS
<1>2. /\ lo = 0 /\ hi = 0 /\ coded = 0 /\ flush = FALSE /\ dlo = 0 /\ dhi = 0
      /\ x = 0 /\ dflush = FALSE /\ sources = <<>> /\ wire = <<>> /\ output = <<>>
      /\ expected = 0 /\ image = 0 /\ dp = p /\ p \in [Node -> 0 .. Prob - 1]
      /\ 0 \in 0 .. Word - 1
  BY Widths DEF Init, TypeOK
<1>3. ByteOf(0) \in Message /\ ByteOf(0).kind = "byte" /\ ByteOf(0).v = 0
  <2>1. 0 \in 0 .. Byte - 1
    BY Widths
  <2>. QED  BY <2>1, ByteMessage DEF ByteOf
<1>4. /\ F \in [Nat -> Message]
      /\ F[0 + 1] = ByteOf(0) /\ F[0 + 2] = ByteOf(0) /\ F[0 + 3] = ByteOf(0)
      /\ F[0 + 4] = ByteOf(0)
  BY <1>1, <1>3
<1>5. AreBytes(F, 0) /\ Val(F, 0) = 0
  <2>1. Val(F, 0) = WordOf4(0, 0, 0, 0)
    BY <1>3, <1>4 DEF Val
  <2>2. WordOf4(0, 0, 0, 0) = 0
    BY Widths DEF WordOf4
  <2>3. \A k \in 1 .. 4 : F[0 + k].kind = "byte"
    BY <1>1, <1>3
  <2>. QED  BY <2>1, <2>2, <2>3 DEF AreBytes
<1>6. /\ T[1].img = 0 /\ T[1].n = 0 /\ T[1].lo = 0 /\ T[1].hi = 0 /\ T[1].p = p
      /\ T[1].at = 0
  BY <1>1
<1>7. T \in [1 .. 1 -> Point]
  BY <1>1, <1>2 DEF Point
<1>8. Src(sources, 0) = <<>> /\ Len(sources) = 0 /\ source = <<>>
  BY <1>2 DEF Src, source
<1>9. Trace(F, T, 1, 4, sources)
  <2>1. Sound(F, 4, sources, T[1])
    BY <1>2, <1>5, <1>6, <1>8 DEF Sound
  <2>2. \A i \in 1 .. 1 : Sound(F, 4, sources, T[i])
    BY <2>1
  <2>. QED  BY <1>4, <1>7, <2>2 DEF Trace
<1>10. Carried(F, 0, 4)
  BY <1>2, <1>5 DEF Carried, Ahead, Behind
<1>11. OnTrace(F, T, 1, 0, 4)
  BY <1>2, <1>5, <1>6, <1>8, <1>9, <1>10 DEF OnTrace, At
<1>12. Sides
  BY <1>2, <1>8 DEF Sides
<1>. QED  BY <1>11, <1>12 DEF Follows

(* The decoder follows the encoder, however its bytes are cut.             *)
THEOREM DecoderFollows == Spec => []Follows
<1>1. Init /\ TypeOK => Follows
  BY InitFollows
<1>2. TypeOK /\ TypeOK' /\ Follows /\ [Next]_vars => Follows'
  <2>. SUFFICES ASSUME TypeOK, TypeOK', Follows, [Next]_vars PROVE Follows'
    OBVIOUS
  <2>1. ASSUME NEW s \in Source, BeginImage(s) PROVE Follows'
    BY <2>1, BeginImageFollows
  <2>2. CASE Encode
    BY <2>2, EncodeByteFollows, EncodeBitFollows, EncodeFlushFollows DEF Encode
  <2>3. CASE Decode
    BY <2>3, BeginFollows, DecodeFlushFollows, DecodeByteFollows, DecodeBitFollows DEF Decode
  <2>4. CASE UNCHANGED vars
    <3>1. UNCHANGED <<lo, hi, p, sources, coded, flush, wire, dlo, dhi, dp, dflush, x,
                      output, expected, image, source>>
      BY <2>4 DEF vars, encoder, decoder, source
    <3>2. PICK F, T, N, b, L : OnTrace(F, T, N, b, L)
      BY DEF Follows
    <3>3. Carried(F, b, L)'
      BY <3>1, <3>2 DEF OnTrace, Carried, Ahead, Behind
    <3>4. OnTrace(F, T, N, b, L)'
      BY <3>1, <3>2, <3>3 DEF OnTrace
    <3>. QED  BY <3>1, <3>4 DEF Follows, Sides
  <2>. QED  BY <2>1, <2>2, <2>3, <2>4 DEF Next
<1>. QED  BY <1>1, <1>2, TypeCorrect, PTL DEF Spec

(* What is decoded is what was encoded, for every width, rate and room, at *)
(* every cut of the bytes; and the decoder takes the bytes of its image,   *)
(* all of them and no other.                                               *)
THEOREM DecodedCorrect == Spec => []Decoded
<1>1. TypeOK /\ Follows => Decoded
  <2>. SUFFICES ASSUME TypeOK, Follows PROVE Decoded
    OBVIOUS
  <2>0. PICK F, T, N, b, L : OnTrace(F, T, N, b, L)
    BY DEF Follows
  <2>. DEFINE bits == Src(sources, image)
  <2>1. /\ Sides /\ bits \in Seq(Bit) /\ Len(bits) = expected /\ output \in Seq(Bit)
        /\ Len(output) \in Nat /\ Len(bits) \in Nat /\ b \in Nat /\ AreBytes(F, b)
        /\ Len(output) <= Len(bits) /\ \A k \in 1 .. Len(output) : output[k] = bits[k]
    BY <2>0, FirstPoint DEF Follows, Sides, TypeOK
  <2>2. wire # <<>> => 1 \in 1 .. Len(wire)
    BY EmptySeq DEF TypeOK
  <2>3. wire # <<>> => Head(wire) = F[b + Ahead + 1]
    BY <2>0, <2>2 DEF OnTrace, Carried
  <2>4. T[1].img = image /\ T[1].n = Len(output) /\ T[1].at = b
        /\ T[1].lo = dlo /\ T[1].hi = dhi
    BY <2>0 DEF OnTrace, At
  <2>5. ASSUME image > 0 PROVE IsPrefix(output, sources[image])
    <3>1. bits = sources[image]
      BY <2>5 DEF Src, TypeOK
    <3>. PICK n \in Nat : n = Len(output)
      BY <2>1
    <3>2. /\ \A i \in 1 .. n : output[i] \in Bit /\ bits[i] \in Bit /\ bits[i] = output[i]
      BY <2>1
    <3>3. /\ SubSeq(output, 1, n) \in Seq(Bit) /\ SubSeq(bits, 1, n) \in Seq(Bit)
          /\ Len(SubSeq(output, 1, n)) = Len(SubSeq(bits, 1, n))
          /\ \A i \in 1 .. Len(SubSeq(output, 1, n)) :
                SubSeq(output, 1, n)[i] = SubSeq(bits, 1, n)[i]
      <4>1. /\ SubSeq(output, 1, n) \in Seq(Bit)
            /\ Len(SubSeq(output, 1, n)) = IF 1 <= n THEN n - 1 + 1 ELSE 0
            /\ \A i \in 1 .. n - 1 + 1 : SubSeq(output, 1, n)[i] = output[1 + i - 1]
        BY <3>2, SubSeqProperties
      <4>2. /\ SubSeq(bits, 1, n) \in Seq(Bit)
            /\ Len(SubSeq(bits, 1, n)) = IF 1 <= n THEN n - 1 + 1 ELSE 0
            /\ \A i \in 1 .. n - 1 + 1 : SubSeq(bits, 1, n)[i] = bits[1 + i - 1]
        BY <3>2, SubSeqProperties
      <4>. HIDE DEF bits
      <4>. QED  BY <3>2, <4>1, <4>2
    <3>4. SubSeq(output, 1, n) = SubSeq(bits, 1, n)
      BY <3>3, SeqEqual
    <3>. QED  BY <2>1, <3>1, <3>4 DEF IsPrefix
  <2>6. ASSUME Idle, wire # <<>> PROVE Head(wire).kind = "image"
    <3>1. Step(F, sources, T[1], T[2])
      BY <2>0, <2>1, <2>6, First DEF Idle
    <3>2. ImageStep(F, sources, T[1], T[2])
      BY <2>1, <2>4, <2>6, <3>1 DEF Idle, Step, BitStep, ByteStep
    <3>3. F[b + 5].kind = "image"
      BY <2>4, <3>2 DEF ImageStep
    <3>4. b + Ahead + 1 = b + 5
      BY <2>1, <2>6 DEF Idle, Ahead
    <3>. QED  BY <2>3, <2>6, <3>3, <3>4
  <2>7. ASSUME NeedsByte, wire # <<>> PROVE Head(wire).kind = "byte"
    <3>1. CASE dflush
      <4>1. F[b + 1].kind = "byte" /\ b + Ahead + 1 = b + 1
        BY <2>1, <3>1 DEF Ahead, AreBytes
      <4>. QED  BY <2>3, <2>7, <4>1
    <3>2. CASE ~dflush
      <4>1. Len(output) < expected /\ SameTop(dlo, dhi)
        BY <2>7, <3>2 DEF NeedsByte
      <4>2. N > 1 /\ Step(F, sources, T[1], T[2])
        BY <2>0, <2>1, <3>2, <4>1, First
      <4>3. ByteStep(F, sources, T[1], T[2])
        BY <2>1, <2>4, <4>1, <4>2 DEF Step, BitStep, ImageStep
      <4>4. T[2].at = b + 1
        BY <2>4, <4>3 DEF ByteStep
      <4>5. AreBytes(F, b + 1)
        <5>1. 2 \in 1 .. N
          BY <2>0, <4>2 DEF OnTrace
        <5>. QED  BY <2>0, <4>4, <5>1 DEF OnTrace, Trace, Sound
      <4>6. F[b + 5].kind = "byte" /\ b + Ahead + 1 = b + 5
        <5>1. F[(b + 1) + 4].kind = "byte"
          BY <4>5 DEF AreBytes
        <5>2. (b + 1) + 4 = b + 5 /\ b + Ahead + 1 = b + 5
          BY <2>1, <3>2 DEF Ahead
        <5>. QED  BY <5>1, <5>2
      <4>. QED  BY <2>3, <2>7, <4>6
    <3>. QED  BY <3>1, <3>2
  <2>. QED  BY <2>5, <2>6, <2>7 DEF Decoded
<1>. QED  BY <1>1, TypeCorrect, DecoderFollows, PTL

=============================================================================
