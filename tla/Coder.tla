------------------------------- MODULE Coder -------------------------------
(***************************************************************************)
(* The range coder of the image codec: encode and decode of                *)
(* src/src/tycho-static.h, with their flushes.  Each side keeps an         *)
(* interval and, for every node of a binary tree of bits, a probability    *)
(* that adapts to what it codes; both may stop between any two bits for    *)
(* want of room or of bytes, and go on in a later call.  The intervals     *)
(* start afresh with every image, the probabilities do not.                *)
(*                                                                         *)
(* The widths are parameters: a word has four bytes, a probability two.    *)
(***************************************************************************)
EXTENDS Integers, Sequences, SequencesExt

CONSTANTS
    Byte,     \* 2^8: how many values a byte has
    Rate,     \* 2^6: how slowly a probability adapts
    Bits,     \* the bits of a symbol: min in the code
    Symbols,  \* bound on the symbols of an image
    Images,   \* bound on the images
    Room      \* how much fits on its way

ASSUME CoderAssumption ==
    /\ {Byte, Rate} \subseteq Nat \ {0, 1}
    /\ {Bits, Symbols, Images} \subseteq Nat \ {0} /\ Room \in Nat
    /\ Room >= 7

Prob == Byte * Byte    \* 1 << 16
Top == Byte * Prob     \* 1 << 24
Word == Byte * Top     \* 2^32

VARIABLES
    lo, hi,    \* lim[0] and lim[1] of the encoder
    p,         \* the probabilities of its model
    sources,   \* the images so far, each as its bits
    coded,     \* how many bits of the last one are coded
    flush,     \* tycho->flush
    wire,      \* what is written and not read yet, oldest first
    dlo, dhi, dp, dflush,  \* the same of the decoder
    x,         \* the word of the decoder
    output,    \* the bits decoded of the present image
    expected,  \* how many there are
    image      \* which image it is

encoder == <<lo, hi, p, sources, coded, flush>>
decoder == <<dlo, dhi, dp, dflush, x, output, expected, image>>
vars == <<encoder, wire, decoder>>

Bit == {0, 1}
BitSeq(n) == [1 .. n -> Bit]
Node == UNION {BitSeq(n) : n \in 0 .. Bits - 1}
Source == UNION {BitSeq(n * Bits) : n \in 1 .. Symbols}
source == IF sources = <<>> THEN <<>> ELSE Last(sources)

Message == [kind : {"byte"}, v : 0 .. Byte - 1] \cup [kind : {"image"}, v : Nat]

TypeOK ==
    /\ {lo, hi, dlo, dhi, x} \subseteq 0 .. Word - 1
    /\ lo <= hi /\ dlo <= dhi
    /\ p \in [Node -> 0 .. Prob - 1] /\ dp \in [Node -> 0 .. Prob - 1]
    /\ sources \in Seq(Source) /\ coded \in 0 .. Len(source)
    /\ flush \in BOOLEAN /\ dflush \in BOOLEAN
    /\ wire \in Seq(Message)
    /\ output \in Seq(Bit) /\ expected \in Nat /\ image \in Nat

Init ==
    /\ lo = 0 /\ hi = 0 /\ coded = 0 /\ flush = FALSE
    /\ dlo = 0 /\ dhi = 0 /\ x = 0 /\ dflush = FALSE
    /\ sources = <<>> /\ wire = <<>>
    /\ output = <<>> /\ expected = 0 /\ image = 0
    /\ p = [k \in Node |-> Prob \div 2]
    /\ dp = p

-----------------------------------------------------------------------------
(* What both sides compute.                                                *)

SameTop(a, b) == a \div Top = b \div Top
Shifted(a) == (a * Byte) % Word

Mid(a, b, q) == a + ((b - a) \div Prob) * q

UpdateP(q, bit) == q + ((bit * Prob - q) \div Rate)

(* The node k after n bits: those of the symbol under way.                 *)
NodeAt(bits, n) == SubSeq(bits, n - (n % Bits) + 1, n)

-----------------------------------------------------------------------------
(* The encoder.                                                            *)

HasRoom(n) == Len(wire) + n <= Room

(* tycho_setup, and the header of the image.                               *)
BeginImage(s) ==
    /\ coded = Len(source) /\ ~flush
    /\ Len(sources) < Images /\ HasRoom(1)
    /\ sources' = Append(sources, s)
    /\ coded' = 0 /\ flush' = TRUE
    /\ lo' = 0 /\ hi' = Word - 1
    /\ wire' = Append(wire, [kind |-> "image", v |-> Len(s)])
    /\ UNCHANGED <<p, decoder>>

(* The first byte of both limits is the same: it is written.               *)
EncodeByte ==
    /\ coded < Len(source) /\ SameTop(lo, hi)
    /\ HasRoom(1)
    /\ wire' = Append(wire, [kind |-> "byte", v |-> hi \div Top])
    /\ lo' = Shifted(lo) /\ hi' = Shifted(hi) + Byte - 1
    /\ UNCHANGED <<p, sources, coded, flush, decoder>>

BadEncodeBit ==
    /\ coded < Len(source) /\ ~SameTop(lo, hi)
    /\ LET k == NodeAt(source, coded)
           mid == Mid(lo, hi, p[k])
           bit == source[coded + 1]
       IN  /\ IF bit = 1 THEN hi' = mid /\ UNCHANGED lo
                         ELSE lo' = mid /\ UNCHANGED hi
           /\ p' = [p EXCEPT ![k] = UpdateP(@, bit)]
    /\ coded' = coded + 1
    /\ UNCHANGED <<sources, flush, wire, decoder>>

EncodeBit ==
    /\ coded < Len(source) /\ ~SameTop(lo, hi)
    /\ LET k == NodeAt(source, coded)
           mid == Mid(lo, hi, p[k])
           bit == source[coded + 1]
       IN  /\ IF bit = 1 THEN hi' = mid /\ UNCHANGED lo
                         ELSE lo' = mid + 1 /\ UNCHANGED hi
           /\ p' = [p EXCEPT ![k] = UpdateP(@, bit)]
    /\ coded' = coded + 1
    /\ UNCHANGED <<sources, flush, wire, decoder>>

(* encoder_flush: the four bytes of the upper limit.                       *)
BadEncodeFlush ==
    /\ coded = Len(source) /\ flush
    /\ HasRoom(3)
    /\ wire' = wire \o << [kind |-> "byte", v |-> hi \div Top],
                          [kind |-> "byte", v |-> hi \div Prob % Byte],
                          [kind |-> "byte", v |-> hi \div Byte % Byte] >>
    /\ flush' = FALSE
    /\ UNCHANGED <<lo, hi, p, sources, coded, decoder>>

EncodeFlush ==
    /\ coded = Len(source) /\ flush
    /\ HasRoom(4)
    /\ wire' = wire \o << [kind |-> "byte", v |-> hi \div Top],
                          [kind |-> "byte", v |-> hi \div Prob % Byte],
                          [kind |-> "byte", v |-> hi \div Byte % Byte],
                          [kind |-> "byte", v |-> hi % Byte] >>
    /\ flush' = FALSE
    /\ UNCHANGED <<lo, hi, p, sources, coded, decoder>>

-----------------------------------------------------------------------------
(* The decoder.                                                            *)

Bytes(n) == Len(wire) >= n /\ \A i \in 1 .. n : wire[i].kind = "byte"
Idle == Len(output) = expected /\ ~dflush
NeedsByte == dflush \/ (Len(output) < expected /\ SameTop(dlo, dhi))

DecodeBegin ==
    /\ Idle /\ wire # <<>> /\ Head(wire).kind = "image"
    /\ wire' = Tail(wire)
    /\ expected' = Head(wire).v /\ output' = <<>> /\ image' = image + 1
    /\ dlo' = 0 /\ dhi' = Word - 1
    /\ dflush' = TRUE
    /\ UNCHANGED <<dp, x, encoder>>

DecodeFlush ==
    /\ dflush /\ Bytes(4)
    /\ x' = wire[1].v * Top + wire[2].v * Prob + wire[3].v * Byte + wire[4].v
    /\ wire' = SubSeq(wire, 5, Len(wire))
    /\ dflush' = FALSE
    /\ UNCHANGED <<dlo, dhi, dp, output, expected, image, encoder>>

DecodeByte ==
    /\ ~dflush /\ Len(output) < expected /\ SameTop(dlo, dhi)
    /\ Bytes(1)
    /\ wire' = Tail(wire)
    /\ x' = Shifted(x) + Head(wire).v
    /\ dlo' = Shifted(dlo) /\ dhi' = Shifted(dhi) + Byte - 1
    /\ UNCHANGED <<dp, dflush, output, expected, image, encoder>>

DecodeBit ==
    /\ ~dflush /\ Len(output) < expected /\ ~SameTop(dlo, dhi)
    /\ LET k == NodeAt(output, Len(output))
           mid == Mid(dlo, dhi, dp[k])
           bit == IF x <= mid THEN 1 ELSE 0
       IN  /\ IF bit = 1 THEN dhi' = mid /\ UNCHANGED dlo
                         ELSE dlo' = mid + 1 /\ UNCHANGED dhi
           /\ dp' = [dp EXCEPT ![k] = UpdateP(@, bit)]
           /\ output' = Append(output, bit)
    /\ UNCHANGED <<wire, x, dflush, expected, image, encoder>>

Encode == EncodeByte \/ EncodeBit \/ EncodeFlush
Decode == DecodeBegin \/ DecodeFlush \/ DecodeByte \/ DecodeBit
Next == (\E s \in Source : BeginImage(s)) \/ Encode \/ Decode

Spec == Init /\ [][Next]_vars

(* Both sides go on while they can.                                        *)
Fairness == WF_vars(Encode) /\ WF_vars(Decode)
LiveSpec == Spec /\ Fairness

-----------------------------------------------------------------------------
(* Properties.                                                             *)

(* What is decoded is what was encoded, at every cut of the bytes, and the *)
(* decoder takes the bytes of its image, all of them and no other: what    *)
(* follows the last one is a message.  "decode error" of                   *)
(* src/src/test-tycho.c:113 is the other case.                             *)
Decoded ==
    /\ image > 0 => IsPrefix(output, sources[image])
    /\ Idle /\ wire # <<>> => Head(wire).kind = "image"
    /\ NeedsByte /\ wire # <<>> => Head(wire).kind = "byte"

(* An image once begun gets through, on any room for the four bytes of a   *)
(* flush behind three that are not yet enough for the other side.          *)
GetsThrough == flush ~> Idle /\ image = Len(sources)
=============================================================================
