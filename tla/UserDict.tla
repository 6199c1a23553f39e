------------------------------ MODULE UserDict ------------------------------
(***************************************************************************)
(* The index of a user dictionary (WNN_UD_DICT) in memory:                 *)
(* src/Wnn/jserver/jishoop.c and jbiki.c, and src/Wnn/jutil/atod.c, which  *)
(* makes such dictionaries from text.                                      *)
(*                                                                         *)
(* jt.table is sorted by reading.  An entry holds the first four           *)
(* characters (yomi1, yomi2), the first cell of its chain in jt.hontai     *)
(* (pter) and the entry of the longest reading that is a proper prefix of  *)
(* its own (pter1).  A cell holds the rest of the reading and kosuu words  *)
(* with consecutive serial numbers whose texts are next to each other.     *)
(* Entries and cells are numbered from 1, and 0 is "none" (the code has -1 *)
(* for entries and address 0 for cells).                                   *)
(***************************************************************************)
EXTENDS WordText

SAKUJO_HINSI == 0

Rest(yomi, len) == SubSeq(yomi, 5, len)
Cell(next, serial, kosuu, kanjipter, yomi) ==
    [next |-> next, serial |-> serial, kosuu |-> kosuu, kanjipter |-> kanjipter,
     len |-> Len(yomi), rest |-> Rest(yomi, Len(yomi))]
Entry(yomi, pter, pter1) ==
    [yomi1 |-> <<At(yomi, 1), At(yomi, 2)>>, yomi2 |-> <<At(yomi, 3), At(yomi, 4)>>,
     pter |-> pter, pter1 |-> pter1]

\* The reading of an entry, as inspect_ud puts it together.
YomiOf(jt, e) ==
    SubSeq(e.yomi1 \o e.yomi2, 1, IF jt.hontai[e.pter].len < 4 THEN jt.hontai[e.pter].len ELSE 4)
        \o jt.hontai[e.pter].rest

Strcmpud(jt, e, yomi) ==
    LET y1  == <<At(yomi, 1), At(yomi, 2)>>
        y2  == <<At(yomi, 3), At(yomi, 4)>>
        hop == jt.hontai[e.pter]
        d   == Strncmp(hop.rest, Rest(yomi, Len(yomi)), hop.len - 4)
    IN IF yomi = <<>> THEN (IF e.yomi1 # <<0, 0>> THEN 1 ELSE 0)
       ELSE IF e.yomi1 # y1 THEN Strcmp(e.yomi1, y1)
       ELSE IF At(yomi, 2) = 0 THEN 0
       ELSE IF At(yomi, 3) = 0 THEN (IF e.yomi2 # <<0, 0>> THEN 1 ELSE 0)
       ELSE IF e.yomi2 # y2 THEN Strcmp(e.yomi2, y2)
       ELSE IF hop.len < 4 THEN 0
       ELSE IF d # 0 THEN d
       ELSE IF Len(yomi) > hop.len THEN -1 ELSE 0

\* The reading of the entry is a prefix of yomi.
Substrud(jt, e, yomi, len) ==
    /\ Strncmp(e.yomi1 \o e.yomi2, yomi, IF len < 4 THEN len ELSE 4) = 0
    /\ len > 4 => Strncmp(jt.hontai[e.pter].rest, Rest(yomi, Len(yomi)), len - 4) = 0

\* yomi is a prefix of the reading of the entry.
Substrstud(jt, yomi, e) ==
    /\ Len(yomi) > 4 => Len(yomi) <= jt.hontai[e.pter].len
    /\ Substrud(jt, e, yomi, Len(yomi))

\* Bisection: the last entry that does not come after yomi.
RECURSIVE Bisect(_, _, _, _)
Bisect(jt, yomi, start, end) ==
    IF start + 1 >= end THEN start
    ELSE LET key == (start + end - 2) \div 2 + 1
         IN IF Strcmpud(jt, jt.table[key], yomi) > 0 THEN Bisect(jt, yomi, start, key)
                                                     ELSE Bisect(jt, yomi, key, end)
binary1(jt, yomi) == Bisect(jt, yomi, 0, Len(jt.table) + 1)

\* Along pter1 to the first entry that is a prefix of yomi.
RECURSIVE PrefixFrom(_, _, _)
PrefixFrom(jt, yomi, key) ==
    IF key = 0 \/ Substrud(jt, jt.table[key], yomi, jt.hontai[jt.table[key].pter].len)
    THEN key
    ELSE PrefixFrom(jt, yomi, jt.table[key].pter1)
binary(jt, yomi) == PrefixFrom(jt, yomi, binary1(jt, yomi))

RECURSIVE Chain(_, _)
Chain(jt, p) == IF p = 0 THEN <<>> ELSE <<p>> \o Chain(jt, jt.hontai[p].next)

RECURSIVE PrefixEntries(_, _)
PrefixEntries(jt, key) ==
    IF key = 0 THEN {} ELSE {key} \cup PrefixEntries(jt, jt.table[key].pter1)

\* The words of a cell, texts read one after the other (get_knj_com).
WordsOfCell(jt, p) ==
    LET c == jt.hontai[p]
    IN {[serial |-> c.serial + t, len |-> c.len,
         hinsi |-> jt.hinsi[c.serial + t],
         text |-> get_kanji_str(jt.kanji, c.kanjipter + t)] : t \in 0 .. c.kosuu - 1}

\* Every word whose reading is yomi or a prefix of it.
ud_biki(jt, yomi) ==
    UNION {WordsOfCell(jt, p) :
              p \in UNION {Range(Chain(jt, jt.table[k].pter)) :
                              k \in PrefixEntries(jt, binary(jt, yomi))}}

\* The cell that holds a serial number, 0 if the word was deleted.
CellsWith(jt, serial) ==
    {p \in UNION {Range(Chain(jt, jt.table[k].pter)) : k \in DOMAIN jt.table} :
        jt.hontai[p].serial <= serial /\ serial < jt.hontai[p].serial + jt.hontai[p].kosuu}
inspect_ud(jt, serial) ==
    IF serial >= jt.maxserial \/ jt.hinsi[serial] = SAKUJO_HINSI \/ CellsWith(jt, serial) = {}
    THEN <<>>
    ELSE YomiOf(jt, CHOOSE e \in Range(jt.table) :
                        \E p \in CellsWith(jt, serial) : p \in Range(Chain(jt, e.pter)))

\* Room for an entry at key, and the other way round.
make_space(table, key) ==
    LET Moved(e) == IF e.pter1 >= key THEN [e EXCEPT !.pter1 = @ + 1] ELSE e
    IN [i \in 1 .. Len(table) + 1 |->
            IF i < key THEN table[i] ELSE IF i = key THEN Entry(<<>>, 0, 0)
            ELSE Moved(table[i - 1])]
remove_space_bug(table, key, newkey) ==  \* links to the entry that goes end there
    [i \in 1 .. Len(table) - 1 |-> IF i < key THEN table[i]
        ELSE [table[i + 1] EXCEPT !.pter1 = IF @ > key THEN @ - 1
                                            ELSE IF @ = key THEN 0 ELSE @]]
remove_space(table, key, newkey) ==
    LET Moved(e) == IF e.pter1 > key THEN [e EXCEPT !.pter1 = @ - 1]
                    ELSE IF e.pter1 = key THEN [e EXCEPT !.pter1 = newkey] ELSE e
    IN [i \in 1 .. Len(table) - 1 |-> IF i < key THEN table[i] ELSE Moved(table[i + 1])]

\* A new entry at key.  Entries that extend yomi and pointed where the new
\* entry points now point to the new entry; the loop ends with the first
\* entry that does not extend yomi.
NewEntry(jt, key, yomi) ==
    LET key0 == PrefixFrom(jt, yomi, key - 1)
        room == make_space(jt.table, key)
        ext  == {e \in key + 1 .. Len(room) :
                    \A i \in key + 1 .. e : Substrstud(jt, yomi, room[i])}
    IN [i \in DOMAIN room |->
            IF i = key THEN Entry(yomi, 0, key0)
            ELSE IF i \in ext /\ room[i].pter1 = key0 THEN [room[i] EXCEPT !.pter1 = key]
            ELSE room[i]]

\* A word that is there already (same reading, hinsi and kanji) only gets its
\* comment.  The old comment is read into the caller's buffer, and compared
\* with a buffer that was never filled: both outcomes are possible, and the
\* comment that is stored is the one of the last word with that hinsi.
word_add1(jt, yomi, hinsi, kanji, comment) ==
    LET key   == binary1(jt, yomi)
        fresh == IF key = 0 THEN TRUE ELSE Strcmpud(jt, jt.table[key], yomi) # 0
        chain == IF fresh THEN <<>> ELSE Chain(jt, jt.table[key].pter)
        TextOf(i) == get_kanji_str(jt.kanji, jt.hontai[chain[i]].kanjipter)
        alike == {i \in DOMAIN chain : jt.hinsi[jt.hontai[chain[i]].serial] = hinsi}
        same  == {i \in alike : TextOf(i).kanji = kanji}
        last  == IF same = {} THEN alike ELSE {i \in alike : \A j \in same : i <= j}
        kept  == IF last = {} THEN comment
                 ELSE TextOf(CHOOSE i \in last : \A j \in last : j <= i).comment
        table == IF fresh THEN NewEntry(jt, key + 1, yomi) ELSE jt.table
        at    == IF fresh THEN key + 1 ELSE key
        added == [jt EXCEPT !.kanji = kanjiadd(jt, kanji, yomi, kept)]
    IN IF same # {}
       THEN LET i == CHOOSE n \in same : \A j \in same : n <= j
            IN {[jt |-> j, serial |-> jt.hontai[chain[i]].serial] :
                    j \in {jt, [added EXCEPT !.hontai[chain[i]].kanjipter = Len(added.kanji)]}}
       ELSE {[jt |-> [added EXCEPT
                        !.hontai = Append(@, Cell(table[at].pter, jt.maxserial, 1,
                                                  Len(added.kanji), yomi)),
                        !.table = [table EXCEPT ![at].pter = Len(jt.hontai) + 1],
                        !.hinsi[jt.maxserial] = hinsi,
                        !.maxserial = @ + 1, !.gosuu = @ + 1],
              serial |-> jt.maxserial]}

\* The word with this serial number goes out of the chain of yomi.  A cell of
\* one word is unlinked, a cell of several gets shorter or is cut in two.
Unlinked(jt, ind1, p) ==
    LET q      == {c \in Range(Chain(jt, jt.table[ind1].pter)) : jt.hontai[c].next = p}
        linked == IF q = {} THEN [jt EXCEPT !.table[ind1].pter = jt.hontai[p].next]
                  ELSE [jt EXCEPT !.hontai[CHOOSE c \in q : TRUE].next = jt.hontai[p].next]
    IN [linked EXCEPT
          !.table = IF linked.table[ind1].pter = 0
                    THEN remove_space(@, ind1, @[ind1].pter1) ELSE @,
          !.maxserial = IF jt.hontai[p].serial = @ - 1 THEN @ - 1 ELSE @,
          !.kanji = Shortened(@, jt.hontai[p].kanjipter),
          !.hontai = IF p = Len(@) THEN SubSeq(@, 1, p - 1) ELSE @]

Split(jt, p, serial) ==
    LET c == jt.hontai[p]
        n == serial - c.serial
    IN [jt EXCEPT !.hontai = Append([@ EXCEPT ![p].next = Len(@) + 1, ![p].kosuu = n],
            [c EXCEPT !.serial = serial + 1, !.kosuu = c.kosuu - n - 1,
                      !.kanjipter = @ + n + 1])]

word_delete1(jt, yomi, serial) ==
    LET ind1 == binary(jt, yomi)
        p    == CHOOSE c \in CellsWith(jt, serial) : TRUE
        c    == jt.hontai[p]
        cut  == IF c.kosuu = 1 THEN Unlinked(jt, ind1, p)
                ELSE IF c.serial = serial
                THEN [jt EXCEPT !.hontai[p] = [c EXCEPT !.kosuu = @ - 1, !.serial = @ + 1,
                                                        !.kanjipter = @ + 1]]
                ELSE IF c.serial + c.kosuu - 1 = serial
                THEN [jt EXCEPT !.hontai[p].kosuu = @ - 1]
                ELSE Split(jt, p, serial)
    IN [cut EXCEPT !.hinsi[serial] = SAKUJO_HINSI, !.gosuu = @ - 1]

word_comment_set1(jt, serial, comment) ==
    LET c == jt.hontai[CHOOSE p \in CellsWith(jt, serial) : TRUE]
    IN [jt EXCEPT !.kanji = SetComment(jt, c.kanjipter + serial - c.serial, comment)]

\* atod: a dictionary made of a list of words sorted by reading.  All words
\* with one reading share a cell.
set_pter1(yomis, k) ==
    LET shorter == {j \in 1 .. k - 1 : IsPrefix(yomis[j], yomis[k])}
    IN IF shorter = {} THEN 0 ELSE CHOOSE j \in shorter : \A i \in shorter : i <= j
ujistoud(jt, ws) ==
    LET firsts == SelectSeq([i \in DOMAIN ws |-> i],
                            LAMBDA i : i = 1 \/ ws[i].yomi # ws[i - 1].yomi)
        yomis  == [k \in DOMAIN firsts |-> ws[firsts[k]].yomi]
        kosuu  == [k \in DOMAIN firsts |->
                      Cardinality({i \in DOMAIN ws : ws[i].yomi = yomis[k]})]
    IN [jt EXCEPT
          !.table = [k \in DOMAIN firsts |-> Entry(yomis[k], k, set_pter1(yomis, k))],
          !.hontai = [k \in DOMAIN firsts |->
                        Cell(0, firsts[k] - 1, kosuu[k], firsts[k], yomis[k])]]
=============================================================================
