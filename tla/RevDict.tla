------------------------------- MODULE RevDict -------------------------------
(***************************************************************************)
(* The two indices of a reversible dictionary (WNN_REV_DICT) in memory:    *)
(* src/Wnn/jserver/rd_jishoop.c and jbiki.c, and src/Wnn/jutil/atorev.c,   *)
(* which makes such dictionaries from text.                                *)
(*                                                                         *)
(* jt.ri1[which] is sorted by reading (D_YOMI) or by kanji (D_KANJI).  An  *)
(* entry holds the serial number of its first word (pter) and the entry of *)
(* the longest proper prefix (pter1, 0 if none).  The chains go through    *)
(* jt.ri2[serial].next[which]; RD_ENDPTR ends them.  The strings that the  *)
(* indices are sorted by are those of the kanji area.                      *)
(***************************************************************************)
EXTENDS UserDict

RD_ENDPTR == -1
Which == {"yomi", "kanji"}

KANJI_str(jt, serial, which) == get_kanji_str(jt.kanji, jt.ri2[serial].kanjipter)[which]
KeyOf(jt, which, k) == KANJI_str(jt, jt.ri1[which][k].pter, which)

RECURSIVE RdBisect(_, _, _, _, _)
RdBisect(jt, which, s, start, end) ==
    IF start + 1 >= end THEN start
    ELSE LET key == (start + end - 2) \div 2 + 1
         IN IF Strcmp(KeyOf(jt, which, key), s) > 0
            THEN RdBisect(jt, which, s, start, key) ELSE RdBisect(jt, which, s, key, end)
rd_binary1(jt, which, s) == RdBisect(jt, which, s, 0, Len(jt.ri1[which]) + 1)

RECURSIVE RdPrefixFrom(_, _, _, _)
RdPrefixFrom(jt, which, s, key) ==
    IF key = 0 \/ IsPrefix(KeyOf(jt, which, key), s) THEN key
    ELSE RdPrefixFrom(jt, which, s, jt.ri1[which][key].pter1)
rd_binary(jt, which, s) == RdPrefixFrom(jt, which, s, rd_binary1(jt, which, s))

RECURSIVE RdSame(_, _, _, _)
RdSame(jt, which, s, key) ==
    IF key = 0 \/ KeyOf(jt, which, key) = s THEN key
    ELSE RdSame(jt, which, s, jt.ri1[which][key].pter1)
rd_binary_same(jt, which, s) == RdSame(jt, which, s, rd_binary1(jt, which, s))

RECURSIVE RdChain(_, _, _)
RdChain(jt, which, serial) ==
    IF serial = RD_ENDPTR THEN <<>>
    ELSE <<serial>> \o RdChain(jt, which, jt.ri2[serial].next[which])

RECURSIVE RdPrefixEntries(_, _, _)
RdPrefixEntries(jt, which, key) ==
    IF key = 0 THEN {} ELSE {key} \cup RdPrefixEntries(jt, which, jt.ri1[which][key].pter1)

\* Words of a chain whose serial numbers follow each other are handed out as
\* one group: their texts are read one after the other from the first.
GroupStart(chain, i) ==
    CHOOSE j \in 1 .. i : /\ \A m \in j + 1 .. i : chain[m] = chain[m - 1] + 1
                          /\ j = 1 \/ chain[j] # chain[j - 1] + 1
rd_biki(jt, which, s) ==
    UNION {LET chain == RdChain(jt, which, jt.ri1[which][k].pter)
           IN {[serial |-> chain[i], len |-> Len(KeyOf(jt, which, k)),
                hinsi |-> jt.hinsi[chain[i]],
                text |-> LET g == GroupStart(chain, i)
                         IN get_kanji_str(jt.kanji, jt.ri2[chain[g]].kanjipter + (i - g))] :
               i \in DOMAIN chain} :
           k \in RdPrefixEntries(jt, which, rd_binary(jt, which, s))}

inspect_rd(jt, serial) ==
    IF serial >= jt.maxserial \/ jt.hinsi[serial] = SAKUJO_HINSI THEN <<>>
    ELSE KANJI_str(jt, serial, "yomi")

\* The new word goes to the front of the chain of s, or into a new entry.
RdLink(jt, which, s) ==
    LET tary == jt.ri1[which]
        key  == rd_binary1(jt, which, s)
        old  == IF key = 0 THEN FALSE ELSE KeyOf(jt, which, key) = s
        new  == key + 1
        key0 == RdPrefixFrom(jt, which, s, key)
        Moved(e) == IF e.pter1 >= new THEN [e EXCEPT !.pter1 = @ + 1] ELSE e
        Extends(i) == \A j \in new .. i : IsPrefix(s, KeyOf(jt, which, j))
        room == [i \in 1 .. Len(tary) + 1 |->
                    IF i < new THEN tary[i]
                    ELSE IF i = new THEN [pter |-> jt.maxserial, pter1 |-> key0]
                    ELSE LET e == Moved(tary[i - 1])
                         IN IF Extends(i - 1) /\ e.pter1 = key0
                            THEN [e EXCEPT !.pter1 = new] ELSE e]
    IN IF old
       THEN [jt EXCEPT !.ri1[which][key].pter = jt.maxserial,
                       !.ri2[jt.maxserial].next[which] = tary[key].pter]
       ELSE [jt EXCEPT !.ri1[which] = room, !.ri2[jt.maxserial].next[which] = RD_ENDPTR]

rd_word_add1(jt, yomi, hinsi, kanji, comment) ==
    LET key   == rd_binary_same(jt, "yomi", yomi)
        chain == IF key = 0 THEN <<>> ELSE RdChain(jt, "yomi", jt.ri1["yomi"][key].pter)
        TextOf(i) == get_kanji_str(jt.kanji, jt.ri2[chain[i]].kanjipter)
        same  == {i \in DOMAIN chain : jt.hinsi[chain[i]] = hinsi /\ TextOf(i).kanji = kanji}
        added == kanjiadd(jt, kanji, yomi, comment)
    IN IF same # {}
       THEN LET i == CHOOSE n \in same : \A j \in same : n <= j
            IN [jt |-> IF TextOf(i).comment = comment THEN jt
                       ELSE [jt EXCEPT !.ri2[chain[i]].kanjipter = Len(added),
                                       !.kanji = added],
                serial |-> chain[i]]
       ELSE LET linked == RdLink(RdLink(jt, "yomi", yomi), "kanji", kanji)
            IN [jt |-> [linked EXCEPT
                          !.ri2[jt.maxserial].kanjipter = Len(added), !.kanji = added,
                          !.hinsi[jt.maxserial] = hinsi,
                          !.maxserial = @ + 1, !.gosuu = @ + 1],
                serial |-> jt.maxserial]

rd_remove_space(tary, key, newkey) == remove_space(tary, key, newkey)
RdUnlink(jt, which, serial) ==
    LET ind1   == rd_binary(jt, which, KANJI_str(jt, serial, which))
        chain  == RdChain(jt, which, jt.ri1[which][ind1].pter)
        i      == CHOOSE n \in DOMAIN chain : chain[n] = serial
        linked == IF i = 1
                  THEN [jt EXCEPT !.ri1[which][ind1].pter = jt.ri2[serial].next[which]]
                  ELSE [jt EXCEPT !.ri2[chain[i - 1]].next[which] = jt.ri2[serial].next[which]]
    IN IF linked.ri1[which][ind1].pter = RD_ENDPTR
       THEN [linked EXCEPT !.ri1[which] = rd_remove_space(@, ind1, @[ind1].pter1)]
       ELSE linked

rd_word_delete1_bug(jt, serial) ==     \* takes any number for the last one
    LET linked == RdUnlink(RdUnlink(jt, "yomi", serial), "kanji", serial)
    IN [linked EXCEPT
          !.maxserial = @ - 1,
          !.kanji = Shortened(@, jt.ri2[serial].kanjipter),
          !.hinsi[serial] = SAKUJO_HINSI, !.gosuu = @ - 1]
rd_word_delete1(jt, serial) ==
    LET linked == RdUnlink(RdUnlink(jt, "yomi", serial), "kanji", serial)
    IN [linked EXCEPT
          !.maxserial = IF serial = @ - 1 THEN @ - 1 ELSE @,
          !.kanji = Shortened(@, jt.ri2[serial].kanjipter),
          !.hinsi[serial] = SAKUJO_HINSI, !.gosuu = @ - 1]

\* A comment that needs a new record also spends a serial number, which is
\* never a word, so that its neighbours are not taken for one group.
rd_comment_set1(jt, serial, comment) ==
    LET set == SetComment(jt, jt.ri2[serial].kanjipter, comment)
    IN IF Len(set) = Len(jt.kanji) THEN [jt EXCEPT !.kanji = set]
       ELSE [jt EXCEPT !.kanji = set,
                       !.hinsi[jt.maxserial] = SAKUJO_HINSI,
                       !.ri2[jt.maxserial] = [kanjipter |-> 0,
                                              next |-> [w \in Which |-> RD_ENDPTR]],
                       !.maxserial = @ + 1]

\* atorev: ws is sorted by reading; perm lists its words sorted by kanji.
make_ri1(ws, order, which) ==
    LET firsts == SelectSeq([i \in DOMAIN order |-> i],
                     LAMBDA i : i = 1 \/ ws[order[i]][which] # ws[order[i - 1]][which])
        keys   == [k \in DOMAIN firsts |-> ws[order[firsts[k]]][which]]
    IN [k \in DOMAIN firsts |-> [pter |-> order[firsts[k]] - 1, pter1 |-> set_pter1(keys, k)]]
make_ri2(ws, order, which) ==
    [s \in 0 .. Len(ws) - 1 |->
        LET i == CHOOSE n \in DOMAIN order : order[n] = s + 1
        IN IF i = Len(order) THEN RD_ENDPTR
           ELSE IF ws[order[i + 1]][which] = ws[s + 1][which] THEN order[i + 1] - 1
           ELSE RD_ENDPTR]
create_rev_dict(jt, ws, perm) ==
    LET order == [w \in Which |-> IF w = "yomi" THEN [i \in DOMAIN ws |-> i] ELSE perm]
    IN [jt EXCEPT
          !.ri1 = [w \in Which |-> make_ri1(ws, order[w], w)],
          !.ri2 = [s \in DOMAIN @ |->
                     IF s < Len(ws)
                     THEN [kanjipter |-> s + 1,
                           next |-> [w \in Which |-> make_ri2(ws, order[w], w)[s]]]
                     ELSE @[s]]]
=============================================================================
