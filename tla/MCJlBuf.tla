------------------------------- MODULE MCJlBuf -------------------------------
(* The conversion buffer on a text of three characters, two of them alike.                    *)
EXTENDS JlBuf

MCText == <<"a", "b", "a">>

Sho(y, e, top, jn) == [yomi |-> y, entry |-> e, dai_top |-> top, joins |-> jn]

(* every cut into one or two phrases, as one run or as two *)
MCKanren(y) ==
    {<<Sho(y, 1, TRUE, FALSE)>>} \cup
    {<<Sho(SubSeq(y, 1, k), 1, TRUE, FALSE), Sho(SubSeq(y, k + 1, Len(y)), 1, top, FALSE)>> :
        k \in 1 .. Len(y) - 1, top \in BOOLEAN}

(* words 1 and 3 are written the same *)
MCKanzenSho(y) == <<Sho(y, 2, TRUE, TRUE), Sho(y, 1, TRUE, FALSE), Sho(y, 3, FALSE, FALSE)>>
MCKanjiOf(e) == e % 2

MCKanzenDai(y) ==
    <<<<Sho(y, 1, TRUE, FALSE)>>, <<Sho(y, 3, FALSE, TRUE)>>>>
    \o [k \in 1 .. Len(y) - 1 |->
          <<Sho(SubSeq(y, 1, k), 1, TRUE, FALSE), Sho(SubSeq(y, k + 1, Len(y)), 1, FALSE, FALSE)>>]

MCPseudo == {3}
MCRecent == {<<<<"a">>, 1>>, <<<<"a">>, 2>>, <<<<"a", "b">>, 2>>}
=============================================================================
