------------------------------- MODULE KeySym -------------------------------
(* The X key symbol of a character (ucs_to_keysym.c), looked up in a table *)
(* that is generated in ascending order (ucs_to_keysym-static.h).  The     *)
(* model's table has the codes; a symbol is where it was found.            *)
EXTENDS Integers, SequencesExt, FiniteSetsExt

(* Latin letters past those of one byte, and their marks.                  *)
Latin ==
    << <<256,275>>, <<278,299>>, <<302,305>>, <<308,318>>, <<321,328>>,
    <<330,333>>, <<336,371>>, <<376,382>>, <<402,402>>, <<711,711>>,
    <<728,729>>, <<731,731>>, <<733,733>> >>

(* Greek.                                                                  *)
Greek ==
    << <<901,902>>, <<904,906>>, <<908,908>>, <<910,929>>, <<931,974>> >>

(* Cyrillic.                                                               *)
Cyrillic ==
    << <<1025,1036>>, <<1038,1103>>, <<1105,1116>>, <<1118,1119>>, <<1168,1169>>
    >>

(* Hebrew and Arabic.                                                      *)
Semitic ==
    << <<1488,1514>>, <<1548,1548>>, <<1563,1563>>, <<1567,1567>>,
    <<1569,1594>>, <<1600,1618>> >>

(* Thai.                                                                   *)
Thai ==
    << <<3585,3642>>, <<3647,3661>>, <<3664,3673>> >>

(* Punctuation, currencies, arrows, operators and boxes.                   *)
Sign ==
    << <<8194,8197>>, <<8199,8202>>, <<8210,8213>>, <<8215,8218>>,
    <<8220,8222>>, <<8224,8225>>, <<8229,8230>>, <<8240,8240>>, <<8242,8243>>,
    <<8248,8248>>, <<8254,8254>>, <<8364,8364>>, <<8453,8453>>, <<8470,8471>>,
    <<8478,8478>>, <<8482,8482>>, <<8531,8542>>, <<8592,8595>>, <<8658,8658>>,
    <<8660,8660>>, <<8706,8706>>, <<8711,8711>>, <<8728,8728>>, <<8730,8730>>,
    <<8733,8734>>, <<8743,8747>>, <<8756,8756>>, <<8764,8764>>, <<8771,8771>>,
    <<8800,8801>>, <<8804,8805>>, <<8834,8835>>, <<8866,8869>>, <<8968,8968>>,
    <<8970,8970>>, <<8981,8981>>, <<8992,8993>>, <<9109,9109>>, <<9115,9115>>,
    <<9117,9118>>, <<9120,9121>>, <<9123,9124>>, <<9126,9126>>, <<9128,9128>>,
    <<9132,9132>>, <<9143,9143>>, <<9146,9149>>, <<9225,9229>>, <<9252,9252>>,
    <<9472,9472>>, <<9474,9474>>, <<9484,9484>>, <<9488,9488>>, <<9492,9492>>,
    <<9496,9496>>, <<9500,9500>>, <<9508,9508>>, <<9516,9516>>, <<9524,9524>>,
    <<9532,9532>>, <<9618,9618>>, <<9670,9670>>, <<9675,9675>>, <<9742,9742>>,
    <<9792,9792>>, <<9794,9794>>, <<9827,9827>>, <<9829,9830>>, <<9837,9837>>,
    <<9839,9839>>, <<10003,10003>>, <<10007,10007>>, <<10013,10013>>,
    <<10016,10016>> >>

(* Japanese.                                                               *)
Katakana ==
    << <<12289,12290>>, <<12300,12301>>, <<12443,12444>>, <<12449,12459>>,
    <<12461,12461>>, <<12463,12463>>, <<12465,12465>>, <<12467,12467>>,
    <<12469,12469>>, <<12471,12471>>, <<12473,12473>>, <<12475,12475>>,
    <<12477,12477>>, <<12479,12479>>, <<12481,12481>>, <<12483,12484>>,
    <<12486,12486>>, <<12488,12488>>, <<12490,12495>>, <<12498,12498>>,
    <<12501,12501>>, <<12504,12504>>, <<12507,12507>>, <<12510,12525>>,
    <<12527,12527>>, <<12530,12531>>, <<12539,12540>> >>

Runs == Latin \o Greek \o Cyrillic \o Semitic \o Thai \o Sign \o Katakana

keysyms ==
    FlattenSeq([i \in DOMAIN Runs |-> [u \in 1 .. Runs[i][2] - Runs[i][1] + 1 |-> Runs[i][1] + u - 1]])

(* The characters of Latin-1 are their own symbols.                        *)
Direct(ucs) == ucs = 0 \/ ucs \in 32 .. 126 \/ ucs \in 160 .. 255
Unicode(ucs) == ucs \in 256 .. 1114111

(* Halving the table, places counted from 0; -1 when it is not there.      *)
Search(ucs) ==
    FoldLeft(LAMBDA st, n :
        LET mid == (st.max + st.min) \div 2
        IN  IF st.at >= 0 \/ st.min > st.max THEN st
            ELSE IF keysyms[mid + 1] < ucs THEN [st EXCEPT !.min = mid + 1]
            ELSE IF keysyms[mid + 1] > ucs THEN [st EXCEPT !.max = mid - 1]
            ELSE [st EXCEPT !.at = mid],
        [min |-> 0, max |-> Len(keysyms) - 1, at |-> -1], [n \in 1 .. 10 |-> n]).at

UcsToKeysym(ucs) ==
    IF Direct(ucs) THEN [as |-> "itself", of |-> ucs]
    ELSE IF Search(ucs) >= 0 THEN [as |-> "entry", of |-> keysyms[Search(ucs) + 1]]
    ELSE IF Unicode(ucs) THEN [as |-> "unicode", of |-> ucs]
    ELSE [as |-> "none", of |-> 0]

-----------------------------------------------------------------------------
(* Every code of the table finds its own entry, and no other code one.     *)
SymbolsFound ==
    \A ucs \in 0 .. 12600 :
        UcsToKeysym(ucs) =
            CASE ucs \in ToSet(keysyms) -> [as |-> "entry", of |-> ucs]
              [] ucs < 256 /\ Direct(ucs) -> [as |-> "itself", of |-> ucs]
              [] ucs < 256 /\ ~Direct(ucs) -> [as |-> "none", of |-> 0]
              [] OTHER -> [as |-> "unicode", of |-> ucs]
=============================================================================
