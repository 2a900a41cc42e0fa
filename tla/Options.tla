------------------------------- MODULE Options --------------------------------
(* How a word of the command line finds its option (option.c): the name    *)
(* itself, or the one name that is nearest to it, counted in letters too   *)
(* many, missing or exchanged with their neighbour.                        *)
EXTENDS Integers, SequencesExt, FiniteSetsExt

CONSTANTS
    Letter,   \* what names are written with
    MaxName,  \* bound on their length
    MaxOption \* bound on the options

VARIABLES
    options,  \* the options, in the order in which they were declared
    word,     \* what get_word takes of an argument
    steps     \* what the distance of two words should be, see Reference

vars == <<options, word, steps>>

Words(n) == UNION {[1 .. l -> Letter] : l \in 0 .. n}

UpTo(n) == [i \in 1 .. n |-> i]
Smallest(S) == Min(S)

(* What the distance means: how many letters to add, to take away or to    *)
(* exchange with their neighbour.                                          *)

Edits(s) ==
    LET without == {RemoveAt(s, i) : i \in DOMAIN s}
        with == {InsertAt(s, i, l) : i \in 1 .. Len(s) + 1, l \in Letter}
        swapped == {[s EXCEPT ![i] = s[i + 1], ![i + 1] = s[i]] : i \in 1 .. Len(s) - 1}
    IN  without \cup swapped \cup IF Len(s) > MaxName THEN {} ELSE with

Balls(s) ==
    FoldLeft(LAMBDA balls, n : Append(balls, Last(balls) \cup UNION {Edits(t) : t \in Last(balls)}),
             <<{s}>>, UpTo(2 * MaxName))

Reference ==
    [s \in Words(MaxName) |->
        LET balls == Balls(s)
        IN  [t \in Words(MaxName) |-> Smallest({n \in DOMAIN balls : t \in balls[n]}) - 1]]

Init == options = <<>> /\ word = <<>> /\ steps = Reference

(* option(); the hidden ones have no help.                                 *)
Declare(name, help) ==
    /\ Len(options) < MaxOption /\ word = <<>>
    /\ options' = Append(options, [name |-> name, help |-> help])
    /\ UNCHANGED <<word, steps>>

Type(l) ==
    /\ options # <<>> /\ Len(word) < MaxName
    /\ word' = Append(word, l)
    /\ UNCHANGED <<options, steps>>

Next ==
    \/ \E name \in Words(MaxName) \ {<<>>}, help \in BOOLEAN : Declare(name, help)
    \/ \E l \in Letter : Type(l)

Spec == Init /\ [][Next]_vars

-----------------------------------------------------------------------------
(* str_dist.  The table d, without the row and the column in front of it,  *)
(* whose sum of lengths no way is worth.                                   *)

FirstBefore(s, i, c) == Min({i} \cup {j \in 1 .. i - 1 : s[j] = c}) % i
LastBefore(s, i, c) == Max({0} \cup {j \in 1 .. i - 1 : s[j] = c})

(* One place of it: the letters are the same or one is taken away and one  *)
(* added, one is added, one is taken away, or two are exchanged when those *)
(* between them have been taken away, and others are added there.          *)
Place(rows, row, a, b, i, j) ==
    LET k == LastBefore(a, i, b[j])
        m == LastBefore(b, j, a[i])
    IN  Smallest({ rows[i][j] + (IF a[i] = b[j] THEN 0 ELSE 2), row[j] + 1, rows[i][j + 1] + 1 }
            \cup (IF k = 0 \/ m = 0 THEN {} ELSE {rows[k][m] + i - k + j - m - 1}))

NextRow(rows, a, b, i) ==
    LET upto[j \in 0 .. Len(b)] ==
            IF j = 0 THEN <<i>>
            ELSE LET row == upto[j - 1] IN Append(row, Place(rows, row, a, b, i, j))
    IN  upto[Len(b)]

(* The last row of the table: the word against what the name begins with.  *)
LastRow(a, b) ==
    LET upto[i \in 0 .. Len(a)] ==
            IF i = 0 THEN << [j \in 1 .. Len(b) + 1 |-> j - 1] >>
            ELSE LET rows == upto[i - 1] IN Append(rows, NextRow(rows, a, b, i))
    IN  upto[Len(a)][Len(a) + 1]

(* A name longer than the word may be cut short.                           *)
StrDist(a, b) ==
    LET d == LastRow(a, b)
    IN  Smallest({d[Len(b) + 1]} \cup {d[l + 1] : l \in Len(a) .. Len(b)})

(* option_search: one pass over the options, the nearest of them so far    *)
(* and whether it is the only one at that distance.                        *)
FirstFound(st, o, dist) == st
Tied(st, o, dist) == [st EXCEPT !.found = <<>>]

Consider(st, o, w) ==
    LET dist == StrDist(w, o.name)
    IN  IF st.done THEN st
        ELSE IF Len(o.name) = Len(w) /\ dist = 0 THEN [found |-> o.name, least |-> 0, done |-> TRUE]
        ELSE IF ~o.help \/ dist > (Len(w) + 1) \div 2 THEN st
        ELSE IF dist < st.least THEN [st EXCEPT !.found = o.name, !.least = dist]
        ELSE IF dist = st.least THEN Tied(st, o, dist) ELSE st

Far == 3 * MaxName  \* INT_MAX

OptionSearch(w) ==
    LET after[n \in 0 .. Len(options)] ==
            IF n = 0 THEN [found |-> <<>>, least |-> Far, done |-> FALSE]
            ELSE Consider(after[n - 1], options[n], w)
    IN  after[Len(options)].found

-----------------------------------------------------------------------------
(* How far a name is from the word, if as many of its last letters as the  *)
(* word is short of may be left out.                                       *)
Away(w, name) ==
    Smallest({steps[w][SubSeq(name, 1, l)] : l \in {Len(name)} \cup (Len(w) .. Len(name))})

(* The distance the program computes is the fewest letters to add, take    *)
(* away or exchange with their neighbour that lead from the word to the    *)
(* name.                                                                   *)
DistanceCounts ==
    \A i \in DOMAIN options : StrDist(word, options[i].name) = Away(word, options[i].name)

(* A word finds the option of that name, hidden or not; else the one that  *)
(* is nearest of those that are shown, no farther than half the letters of *)
(* the word; and none if two are as near.  The order in which the options  *)
(* were declared does not matter, but between two of one name.             *)
OptionFound ==
    word # <<>> =>
        LET names == {options[i].name : i \in DOMAIN options}
            open == {i \in DOMAIN options : options[i].help}
            dist == [i \in open |-> StrDist(word, options[i].name)]
            near == {i \in open : dist[i] <= (Len(word) + 1) \div 2}
            nearest == {i \in near : \A j \in near : dist[i] <= dist[j]}
        IN  OptionSearch(word) =
              IF word \in names THEN word
              ELSE IF Cardinality(nearest) = 1
                   THEN options[CHOOSE i \in nearest : TRUE].name
              ELSE <<>>
=============================================================================
