-------------------------------- MODULE Text --------------------------------
(* Characters and bytes: the line a user types at a prompt (terminal.c),   *)
(* and the conversions between bytes, characters and key symbols (utf8.c,  *)
(* base64.c, clipboard.c, storage.c, ucs_to_keysym.c).  A text is the      *)
(* sequence of its bytes.                                                  *)
EXTENDS KeySym

CONSTANTS
    Typed,    \* what the user types at once: characters, control keys, broken bytes
    MaxLine,  \* bound on the characters of a line
    Least     \* terminal_get_min: the fewest characters of an answer

VARIABLES
    line,     \* str, up to len
    pos,      \* how many places of the screen it takes
    tty,      \* whether it is typed at a terminal
    answer,   \* what terminal_get_min returned, <<>> if nothing yet
    asking,   \* whether it still asks
    kept      \* the characters typed and not taken back, which no code keeps

vars == <<line, pos, tty, answer, asking, kept>>

-----------------------------------------------------------------------------
(* utf8.c.                                                                 *)

Byte == 0 .. 255
Chain(b) == b \div 64 = 2

Utf8Count(b) ==
    CASE b < 128 -> 1
      [] b \in 194 .. 223 -> 2
      [] b \in 224 .. 239 -> 3
      [] b \in 240 .. 244 -> 4
      [] OTHER -> 0

Surrogate == 55296 .. 57343
CountUtf32(u) ==
    CASE u < 128 -> 1
      [] 128 <= u /\ u < 2048 -> 2
      [] 2048 <= u /\ u < 55296 -> 3
      [] 57344 <= u /\ u <= 1114111 -> 4
      [] OTHER -> 0

(* Where the character before place i begins, places counted from 0.       *)
AnyPrev(s, i) == IF i > 0 THEN i - 1 ELSE 0
Utf8Prev(s, i) == Max({0} \cup {j \in 0 .. i - 1 : ~Chain(s[j + 1])})
Utf8Len(s) == Cardinality({i \in DOMAIN s : ~Chain(s[i])})

(* The code of the character s, -1 if it is none; the character of a code. *)
Utf8ToUtf32(s) ==
    LET count == Utf8Count(s[1])
        code[i \in 1 .. Len(s)] ==
            IF i = 1 THEN s[1] % 2^(8 - count) ELSE code[i - 1] * 64 + (s[i] % 64)
    IN  IF count = Len(s) /\ (\A i \in 2 .. count : Chain(s[i])) /\ CountUtf32(code[count]) = count
        THEN code[count] ELSE -1

Utf8FromUtf32(u) ==
    LET count == CountUtf32(u)
    IN  IF count = 1 THEN <<u>>
        ELSE [i \in 1 .. count |->
                IF i = 1 THEN ((u \div 64^(count - 1)) % 2^(8 - count)) + 256 - 2^(8 - count)
                         ELSE ((u \div 64^(count - i)) % 64) + 128]

-----------------------------------------------------------------------------
(* clipboard.c: between texts of Latin-1 and of UTF-8.                     *)

LatinToUtf8(s) ==
    FlattenSeq([i \in DOMAIN s |->
        IF s[i] >= 128 THEN <<192 + (s[i] \div 64), 128 + (s[i] % 64)>> ELSE <<s[i]>>])

(* The characters past Latin-1 are left out, byte by byte.                 *)
LatinByte(st, b) ==
    IF st.lead >= 0 THEN [out |-> Append(st.out, ((st.lead * 64) % 256) + (b % 64)), lead |-> -1]
    ELSE IF b < 128 THEN [out |-> Append(st.out, b), lead |-> -1]
    ELSE IF b \in 192 .. 195 THEN [out |-> st.out, lead |-> b]
    ELSE st

Utf8ToLatin(s) ==
    LET done[n \in 0 .. Len(s)] ==
            IF n = 0 THEN [out |-> <<>>, lead |-> -1] ELSE LatinByte(done[n - 1], s[n])
    IN  done[Len(s)].out

-----------------------------------------------------------------------------
(* base64.c: dst has room for so many bytes, src is what is given.  A      *)
(* group is three bytes on one side and four letters on the other, the     *)
(* last one may be shorter; letters are their numbers.                     *)

At(s, i) == IF i \in DOMAIN s THEN s[i] ELSE 0
From(s, i, n) == SubSeq(s, i, IF i + n - 1 > Len(s) THEN Len(s) ELSE i + n - 1)
Lesser(a, b) == IF a < b THEN a ELSE b
UpTo(n) == [i \in 1 .. n |-> i]

Encode(r) == << At(r, 1) \div 4, (At(r, 1) % 4) * 16 + (At(r, 2) \div 16),
                (At(r, 2) % 16) * 4 + (At(r, 3) \div 64), At(r, 3) % 64 >>
Decode(r) == << At(r, 1) * 4 + (At(r, 2) \div 16),
                (At(r, 2) % 16) * 16 + (At(r, 3) \div 4),
                (At(r, 3) % 4) * 64 + At(r, 4) >>

(* What is written, and how much is read.  Letters that do not fit: Lost.  *)
EncodeTight(room, rest) == rest > 0 /\ room >= rest
EncodeTail(room, rest) == rest > 0 /\ room > rest
DecodeTail(room, rest) == rest > 1 /\ room >= rest - 1

Base64Encode(room, src) ==
    LET count == Lesser(Len(src) \div 3, room \div 4)
        whole == FlattenSeq([i \in 1 .. count |-> Encode(SubSeq(src, 3 * i - 2, 3 * i))])
        rest == SubSeq(src, 3 * count + 1, Len(src))
        left == room - 4 * count
    IN  IF EncodeTail(left, Len(rest))
        THEN [out |-> whole \o From(SubSeq(Encode(rest), 1, Lesser(left, 4)), 1, Len(rest) + 1),
              read |-> Len(src)]
        ELSE [out |-> whole, read |-> 3 * count]

Base64Decode(room, src) ==
    LET count == Lesser(Len(src) \div 4, room \div 3)
        whole == FlattenSeq([i \in 1 .. count |-> Decode(SubSeq(src, 4 * i - 3, 4 * i))])
        rest == SubSeq(src, 4 * count + 1, Len(src))
        left == room - 3 * count
    IN  IF DecodeTail(left, Len(rest))
        THEN [out |-> whole \o SubSeq(Decode(rest), 1, Len(rest) - 1), read |-> Len(src)]
        ELSE [out |-> whole, read |-> 4 * count]

-----------------------------------------------------------------------------
(* storage_load: the lines of a file, read by pieces of the buffer.  A     *)
(* piece is taken line by line, and what a line has so far is kept for the *)
(* next piece.                                                             *)

NewLine == 10

Pieces(file, size) ==
    LET runs == [i \in 1 .. (Len(file) + size - 1) \div size |-> From(file, size * (i - 1) + 1, size)]
        cut(piece) == LET ends == {i \in DOMAIN piece : piece[i] = NewLine \/ i = Len(piece)}
                          at == SetToSortSeq(ends, <)
                      IN  [k \in DOMAIN at |-> SubSeq(piece, (IF k = 1 THEN 0 ELSE at[k - 1]) + 1, at[k])]
    IN  FlattenSeq([i \in DOMAIN runs |-> cut(runs[i])])

StorageLoad(file, size) ==
    LET st == FoldLeft(LAMBDA acc, piece :
                LET nl == Last(piece) = NewLine
                    str == acc.str \o (IF nl THEN Front(piece) ELSE piece)
                IN  IF nl /\ str # <<>> THEN [lines |-> Append(acc.lines, str), str |-> <<>>]
                                        ELSE [acc EXCEPT !.str = str],
              [lines |-> <<>>, str |-> <<>>], Pieces(file, size))
    IN  st.lines \o (IF st.str = <<>> THEN <<>> ELSE <<st.str>>)

-----------------------------------------------------------------------------
(* terminal_get, called again by terminal_get_min while the answer is too  *)
(* short.                                                                  *)

CtrlC == 3
CtrlU == 21
Erase == {8, 127}

Whole(s) == Utf8Count(s[1]) = Len(s) /\ \A i \in 2 .. Len(s) : Chain(s[i])
Shown(b) == b \in 32 .. 126 \/ b >= 128

Init ==
    /\ tty \in BOOLEAN
    /\ line = <<>> /\ pos = 0 /\ kept = <<>>
    /\ answer = <<>> /\ asking = TRUE

TypeChar(s) ==
    /\ asking /\ Whole(s) /\ Shown(s[1])
    /\ Len(kept) < MaxLine
    /\ line' = line \o s /\ kept' = Append(kept, s)
    /\ pos' = pos + IF tty THEN 1 ELSE 0
    /\ UNCHANGED <<tty, answer, asking>>

Backspace(s) ==
    /\ asking /\ tty /\ s[1] \in Erase
    /\ pos' = IF pos > 0 THEN pos - 1 ELSE 0
    /\ line' = SubSeq(line, 1, Utf8Prev(line, Len(line)))
    /\ kept' = IF kept = <<>> THEN <<>> ELSE Front(kept)
    /\ UNCHANGED <<tty, answer, asking>>

Kill(s) ==
    /\ asking /\ tty /\ s[1] = CtrlU
    /\ pos' = 0 /\ line' = <<>> /\ kept' = <<>>
    /\ UNCHANGED <<tty, answer, asking>>

Cancel(s) ==
    /\ asking /\ tty /\ s[1] = CtrlC
    /\ asking' = FALSE
    /\ pos' = 0 /\ line' = <<>> /\ kept' = <<>>
    /\ UNCHANGED <<tty, answer>>

(* A line ends with Return, and also with bytes that are no character.     *)
EndLine(s) ==
    /\ asking /\ (s[1] \in {10, 13} \/ ~Whole(s))
    /\ IF Utf8Len(line) >= Least
       THEN answer' = line /\ asking' = FALSE /\ UNCHANGED <<line, pos, kept>>
       ELSE line' = <<>> /\ pos' = 0 /\ kept' = <<>> /\ UNCHANGED <<answer, asking>>
    /\ UNCHANGED tty

Next == \E s \in Typed : TypeChar(s) \/ Backspace(s) \/ Kill(s) \/ Cancel(s) \/ EndLine(s)

Spec == Init /\ [][Next]_vars

-----------------------------------------------------------------------------
(* Properties.                                                             *)

(* The line is always whole characters, those typed and not taken back;    *)
(* the screen shows one place for each, and an answer has as many as the   *)
(* prompt asks for.                                                        *)
LineEdited ==
    /\ line = FlattenSeq(kept)
    /\ tty => pos = Len(kept)
    /\ ~asking /\ kept # <<>> => answer = line /\ Len(kept) >= Least

(* Base64 needs four letters for three bytes, rounded up as in             *)
(* src/src/test-base64.c, and gives back what was encoded; with less room  *)
(* it encodes a part and says how much, and never writes past the room.    *)
Base64Agrees(s) ==
    \A room \in 0 .. (4 * Len(s) + 2) \div 3 :
        LET e == Base64Encode(room, s)
            d == Base64Decode(e.read, e.out)
        IN  /\ Len(e.out) <= room
            /\ d.out = SubSeq(s, 1, e.read) /\ d.read = Len(e.out)
            /\ room = (4 * Len(s) + 2) \div 3 => e.read = Len(s)

(* The Latin-1 characters of a text survive both conversions of the        *)
(* clipboard, the others are left out.                                     *)
LatinAgrees(chars) ==
    LET among[n \in 0 .. Len(chars)] ==
            IF n = 0 THEN <<>>
            ELSE among[n - 1] \o IF Utf8ToUtf32(chars[n]) \in 0 .. 255 THEN <<chars[n]>> ELSE <<>>
        latin == among[Len(chars)]
    IN  /\ Utf8ToLatin(FlattenSeq(chars)) = [i \in DOMAIN latin |-> Utf8ToUtf32(latin[i])]
        /\ LatinToUtf8(Utf8ToLatin(FlattenSeq(chars))) = FlattenSeq(latin)

(* Codes and characters are inverse, at every length; what is no character *)
(* is not written.                                                         *)
CodeInverse(u) ==
    LET s == Utf8FromUtf32(u)
    IN  IF u \in Surrogate \/ u > 1114111 THEN s = <<>>
        ELSE s \in Seq(Byte) /\ Utf8ToUtf32(s) = u

Boundary == UNION {{b - 1, b, b + 1} : b \in {1, 128, 2048, 55296, 57344, 65536, 1114111}}
CodesInverse == \A u \in Boundary : CodeInverse(u)

(* The lines of a file are those of its bytes, empty ones left out, for    *)
(* every size of the buffer.                                               *)
File == UNION {[1 .. n -> {NewLine, 97}] : n \in 0 .. 6}
LinesKept ==
    \A f \in File, size \in 1 .. 4 :
        LET starts == {i \in DOMAIN f : f[i] # NewLine /\ (i = 1 \/ f[i - 1] = NewLine)}
            end(i) == Max({j \in i .. Len(f) : \A k \in i .. j : f[k] # NewLine})
            at == SetToSortSeq(starts, <)
        IN  StorageLoad(f, size) = [k \in DOMAIN at |-> SubSeq(f, at[k], end(at[k]))]

(* The two conversions of a text, each undone by its second one, on every  *)
(* text that can be typed.                                                 *)
CodesAgree == Base64Agrees(line) /\ LatinAgrees(kept)

(* What does not depend on the line: the lengths of characters, the lines  *)
(* of a file and the table of key symbols.                                 *)
TablesAgree == line = <<>> => CodesInverse /\ LinesKept /\ SymbolsFound
=============================================================================
