----------------------------- MODULE MCKaiseki -----------------------------
(* Readings of three characters for TLC.  A noun may be the head of a phrase  *)
(* and may be joined to, and so may a name, which has the noun's vector; a    *)
(* suffix is joined and is no head.  A compound is a noun that is a suffix    *)
(* too, another a noun that is a name too.  A particle may end a phrase, some *)
(* are longer than one character.  Parameters are those of jserverrc.         *)
EXTENDS Candidates

MCHinsi == {"noun", "name", "suffix", "sentou", "suuji", "toji_kakko", "katakanago", "eisuu", "kai_kakko",
            "kigou", "fuzokugo", "giji"}
MCFukugou == [h \in {"noun_suffix", "noun_name"} |->
    IF h = "noun_suffix" THEN <<"noun", "suffix">> ELSE <<"noun", "name">>]
Free == {"noun", "name", "suffix", "katakanago", "eisuu", "kigou", "wa"}
MCArea == [v \in 0 .. 6 |->
    CASE v = 0 -> Free                       \* WNN_VECT_KANREN
      [] v = 1 -> {"noun", "suuji", "giji"}  \* WNN_VECT_KANTAN
      [] v = 2 -> Free                       \* WNN_VECT_BUNSETSU
      [] v = 3 -> {"sentou", "suffix"}       \* of a noun
      [] v = 4 -> {"noun"}                   \* of a suffix
      [] v = 5 -> {"sentou"}                 \* of a pseudo part of speech
      [] v = 6 -> {"sentou", "noun"}]        \* of giji
MCHinsiVect == [h \in MCHinsi |-> CASE h \in {"noun", "name"} -> 3 [] h = "suffix" -> 4 [] h = "giji" -> 6 [] OTHER -> 5]
MCParam ==
    [hindo |-> 2, jiri |-> 100, len |-> 45, sbn |-> 1, sbn_cnt |-> -100, dbn_len |-> 40, deleted |-> -1,
     number |-> "NUM_KAN", eisuu |-> "ALP_HAN", kigou |-> "KIG_JIS", ascii |-> {"digit", "alpha", "space"},
     val |-> [suuji |-> 200, katakanago |-> -100, eisuu |-> 200, kigou |-> 80, toji_kakko |-> 200,
              fuzokugo |-> 200, kai_kakko |-> 200]]

Stem(i, j, h, v) == [i |-> i, j |-> j, hinsi |-> h, hindo |-> v]
Spans == {<<i, j>> \in (0 .. 2) \X (0 .. 2) : i <= j}
Rare(s) == Stem(s[1], s[2], "noun", 0)
Common(s) == Stem(s[1], s[2], "noun", 300)
Suffix(s) == Stem(s[1], s[2], "suffix", 700)
Entries(s, k) == CASE k = 1 -> {} [] k = 2 -> {Rare(s)} [] k = 3 -> {Common(s)} [] k = 4 -> {Rare(s), Suffix(s)}
                   [] k = 5 -> {Stem(s[1], s[2], "noun_suffix", 300)}
                   [] k = 6 -> {Common(s), Stem(s[1], s[2], "noun_name", 200)}
Dictionaries(ss, ks) == {UNION {Entries(s, f[s]) : s \in ss} : f \in [ss -> ks]}

Text(a, b, c) == [p \in 0 .. 2 |-> CASE p = 0 -> a [] p = 1 -> b [] p = 2 -> c]
wa(at, len) == [at |-> at, len |-> len, no |-> "wa", vector |-> {"noun", "katakanago", "suuji", "giji"}]
Yomi(bun, jiri, fzk) == [bun |-> bun, jiri |-> jiri, fzk |-> fzk]

Single == {<<0, 0>>, <<1, 1>>, <<2, 2>>}
Hira == Text("hira", "hira", "hira")
Mixed == {Text("hira", "kata", "kata"), Text("kata", "hira", "hira"), Text("digit", "alpha", "space"),
          Text("digit", "digit", "hira"), Text("digit", "digit", "digit"), Text("hira", "space", "open"), Text("hira", "touten", "hira"), Text("space", "kata", "close")}
MCYomis ==
    {Yomi(Hira, d, {}) : d \in Dictionaries(Spans, {1, 5}) \cup Dictionaries({<<0, 0>>, <<1, 1>>, <<1, 2>>}, {1, 5, 6})}
    \cup {Yomi(Hira, d, {wa(0, 1), wa(1, 1)}) : d \in Dictionaries(Single, {1, 5, 6})}
    \cup {Yomi(Hira, d, {}) : d \in Dictionaries(Spans, {1, 2, 4}) \cup Dictionaries(Spans, {1, 3})}
    \cup {Yomi(t, d, {}) : t \in Mixed, d \in Dictionaries(Single, {1, 2, 4})}
    \cup {Yomi(t, d, f) : t \in Mixed \cup {Hira}, f \in {{wa(0, 1)}, {wa(0, 2), wa(0, 3), wa(1, 1), wa(2, 1)}},
                          d \in Dictionaries(Single, {1, 4})}

Call(op, b, v, v1, n, nsho) ==
    [op |-> op, beginvect |-> b, endvect |-> v, endvect1 |-> v1, endvect2 |-> 2, kaidbno |-> n, kaisbno |-> nsho,
     fzk |-> TRUE]
Begin == {WNN_BUN_SENTOU, WNN_ALL_HINSI, "suffix"}
MCCalls ==
    {Call("renbn_kai", b, 0, -1, n[1], n[2]) : b \in Begin, n \in {<<1, 2>>, <<2, 1>>, <<2, 2>>, <<5, 2>>}}
    \cup {Call(op, b, 0, 1, 2, 2) : op \in {"renbn_kai", "tan_dai", "tan_syo"}, b \in Begin}
    \cup {Call("tan_dai", "noun_suffix", 0, 1, 2, 2)}
    \cup {[Call("renbn_kai", WNN_BUN_SENTOU, 0, -1, 2, 2) EXCEPT !.fzk = FALSE],
          Call("tan_dai", WNN_BUN_SENTOU, -1, -1, 1, 1), Call("tan_dai", WNN_BUN_SENTOU, 0, -1, 1, 2),
          Call("tan_syo", WNN_BUN_SENTOU, 0, -1, 1, 2)}
    \cup {Call("jkt_get_dai", b, 0, v1, 2, n) : b \in Begin, v1 \in {-1, 1}, n \in {1, 2}}
    \cup {Call("jkt_get_syo", b, 0, v1, 2, 2) : b \in Begin, v1 \in {-1, 1}}
    \cup {Call("jkt_get_dai", WNN_BUN_SENTOU, -1, -1, 2, 2),
          Call("jkt_get_dai", WNN_BUN_SENTOU, 0, -1, 2, 3)}
=============================================================================
