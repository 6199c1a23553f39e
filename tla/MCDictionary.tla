---------------------------- MODULE MCDictionary ----------------------------
(* A small dictionary for TLC.  The readings are prefixes of each other up to *)
(* and beyond the four characters that fit into an entry of the table.  The   *)
(* two loaded words share a cell and follow each other; clients do not add    *)
(* them again (their kanji is not in Kanjis).                                 *)
EXTENDS Dictionary

L(y, k, h) == [yomi |-> y, kanji |-> k, hinsi |-> h, comment |-> <<>>]
MCLoaded == <<L(<<1, 2>>, <<5>>, 1), L(<<1, 2>>, <<5, 6>>, 1)>>
MCByKanji == <<1, 2>>
MCYomis == {<<1>>, <<1, 2, 1, 1>>, <<1, 2, 1, 1, 1>>}
MCKanjis == {<<7>>}
MCComments == {<<>>, <<3>>}
NoWords == <<>>
TwoKanjis == {<<7>>, <<8>>}
SymDics == Permutations(Dics)
=============================================================================
