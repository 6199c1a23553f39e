------------------------------ MODULE WordText ------------------------------
(***************************************************************************)
(* The texts of the words of a dictionary and the strings they are made of *)
(* (src/Wnn/etc/bdic.c, src/Wnn/jserver/w_string.c).                       *)
(*                                                                         *)
(* A w_char string is a sequence of positive numbers, in the order in      *)
(* which the dictionary keeps it (the server stores readings and kanji     *)
(* backwards; Sreverse is left out).  The kanji area is a sequence of      *)
(* records: a pointer into it is an index, the length byte that leads to   *)
(* the next record is "plus one", maxkanji is the length of the sequence.  *)
(* A record whose comment grew is FORWARDED to a later one.                *)
(***************************************************************************)
EXTENDS Integers, Sequences, FiniteSets, SequencesExt

At(s, i) == IF i <= Len(s) THEN s[i] ELSE 0

\* Sign of the comparison of two strings, as Strcmp gives it.
Strcmp(s, t) ==
    IF s = t THEN 0
    ELSE LET i == CHOOSE n \in 1 .. Len(s) + 1 :
                    At(s, n) # At(t, n) /\ \A m \in 1 .. n - 1 : At(s, m) = At(t, m)
         IN IF At(s, i) > At(t, i) THEN 1 ELSE -1

\* The first n characters of both are the same.
Strncmp(s, t, n) == Strcmp(SubSeq(s, 1, IF n < Len(s) THEN n ELSE Len(s)),
                           SubSeq(t, 1, IF n < Len(t) THEN n ELSE Len(t)))

Text(yomi, kanji, comment) ==
    [forwarded |-> 0, yomi |-> yomi, kanji |-> kanji, comment |-> comment]

\* What lies behind maxkanji.
Garbage == Text(<<>>, <<>>, <<>>)

\* kptr follows a forwarded record.
Get_kanji_str_r(kanji, p) ==
    IF kanji[p].forwarded # 0 THEN kanji[p].forwarded ELSE p

get_kanji_str(kanji, p) ==
    IF p \in 1 .. Len(kanji) THEN kanji[Get_kanji_str_r(kanji, p)] ELSE Garbage

\* User dictionaries keep the reading in the index, reversible ones here.
kanjiadd(jt, kanji, yomi, comment) ==
    Append(jt.kanji, Text(IF jt.syurui = "UD" THEN <<>> ELSE yomi, kanji, comment))

\* A word goes: if its record is the last one the area gets shorter.
Shortened(kanji, p) == IF p + 1 > Len(kanji) THEN SubSeq(kanji, 1, p - 1) ELSE kanji

\* A shorter comment is written over the old one, a longer one needs a new
\* record, to which the old one is forwarded.
SetComment(jt, p, comment) ==
    LET old == get_kanji_str(jt.kanji, p)
        r   == Get_kanji_str_r(jt.kanji, p)
    IN IF Len(old.comment) > Len(comment)
       THEN [jt.kanji EXCEPT ![r].comment = comment]
       ELSE [kanjiadd(jt, old.kanji, old.yomi, comment)
                EXCEPT ![p].forwarded = Len(jt.kanji) + 1]
=============================================================================
