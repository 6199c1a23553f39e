----------------------------- MODULE Dictionary -----------------------------
(***************************************************************************)
(* The words of one dictionary file in the server's memory and their       *)
(* frequencies: word_add, word_delete, word_comment_set of                 *)
(* src/Wnn/jserver/jishoop.c, and the frequency files that JS_DIC_ADD puts *)
(* beside the dictionary.                                                  *)
(*                                                                         *)
(* The file is the body of several entries of dic_table (one for each      *)
(* environment that uses it), each with its own frequency file or none     *)
(* (-1: the frequencies in the dictionary itself).  The file's kind is     *)
(* UserDict's or RevDict's.                                                *)
(*                                                                         *)
(* Of a frequency only its owner is kept: LIVE was written, by the server  *)
(* or for a client, for the word that has the serial number now, OLD for a *)
(* word that has been deleted since, JUNK was never written.               *)
(***************************************************************************)
EXTENDS RevDict

CONSTANTS
    Dics,         \* entries of dic_table whose body is this file
    HindoFiles,   \* frequency files that match it
    NONE,         \* no frequency file: the code's -1
    ReadOnly,     \* entries that were added read-only
    Kinds,        \* kinds of dictionary to look at: a subset of {"UD", "REV"}
    Loaded,       \* words the dictionary is made of, sorted by reading
    ByKanji,      \* the positions of Loaded, sorted by kanji
    Yomis, Kanjis, Hinsis, Comments,   \* what clients add
    MaxSerial, MaxTexts, MaxCalls      \* bounds: serial numbers, records, calls

VARIABLES jt, hjt, dic_table, words, missed, calls
vars == <<jt, hjt, dic_table, words, missed, calls>>

Serials == 0 .. MaxSerial
EmptyJT(kind) ==
    [syurui |-> kind, maxserial |-> 0, gosuu |-> 0, kanji |-> <<>>,
     hinsi |-> [s \in Serials |-> SAKUJO_HINSI], hindo |-> [s \in Serials |-> "JUNK"],
     table |-> <<>>, hontai |-> <<>>, ri1 |-> [w \in Which |-> <<>>],
     ri2 |-> [s \in Serials |-> [kanjipter |-> 0, next |-> [w \in Which |-> RD_ENDPTR]]]]

\* A dictionary as atod writes it and the server reads it.
LoadedJT(kind) ==
    LET n  == Len(Loaded)
        e  == EmptyJT(kind)
        jl == [e EXCEPT
                 !.maxserial = n, !.gosuu = n,
                 !.hinsi = [s \in Serials |-> IF s < n THEN Loaded[s + 1].hinsi ELSE @[s]],
                 !.hindo = [s \in Serials |-> IF s < n THEN "LIVE" ELSE @[s]],
                 !.kanji = [i \in 1 .. n |-> Text(IF kind = "UD" THEN <<>> ELSE Loaded[i].yomi,
                                                  Loaded[i].kanji, Loaded[i].comment)]]
    IN IF kind = "UD" THEN ujistoud(jl, Loaded) ELSE create_rev_dict(jl, Loaded, ByKanji)

Word(serial, yomi, kanji, hinsi, comment) ==
    [serial |-> serial, yomi |-> yomi, kanji |-> kanji, hinsi |-> hinsi, comment |-> comment]

Init ==
    /\ \E kind \in Kinds : jt = LoadedJT(kind)
    /\ hjt = [h \in HindoFiles |->
                [maxserial |-> Len(Loaded), hindo |-> LoadedJT("UD").hindo]]
    /\ dic_table = [d \in Dics |-> [hindo |-> NONE]]
    /\ words = {Word(i - 1, Loaded[i].yomi, Loaded[i].kanji, Loaded[i].hinsi, Loaded[i].comment) :
                   i \in DOMAIN Loaded}
    /\ missed = {}
    /\ calls = 0

Attached == {dic_table[d].hindo : d \in Dics} \ {NONE}

\* A frequency file is made as long as the dictionary.
hindo_file_size_justify(h) ==
    IF hjt[h].maxserial < jt.maxserial
    THEN [hjt EXCEPT ![h] = [maxserial |-> jt.maxserial,
                             hindo |-> [s \in Serials |->
                                IF s \in hjt[h].maxserial .. jt.maxserial - 1 THEN "LIVE"
                                ELSE hjt[h].hindo[s]]]]
    ELSE [hjt EXCEPT ![h].maxserial = jt.maxserial]

js_dic_add(d, h) ==
    /\ dic_table' = [dic_table EXCEPT ![d].hindo = h]
    /\ hjt' = IF h = NONE THEN hjt ELSE hindo_file_size_justify(h)
    /\ UNCHANGED <<jt, words, missed, calls>>

-----------------------------------------------------------------------------
\* After a word was added: the frequency file of the entry (mine) gets the
\* frequency, the others a zero if they have to get longer.
HindoOf_bug(h, new, serial, mine) ==     \* leaves what the deleted word had
    IF serial >= hjt[h].maxserial
    THEN [maxserial |-> new.maxserial,
          hindo |-> [hjt[h].hindo EXCEPT ![serial] = IF mine THEN "LIVE" ELSE @]]
    ELSE [hjt[h] EXCEPT !.hindo[serial] = IF mine THEN "LIVE" ELSE @]
HindoOf(h, new, serial, mine) ==
    IF serial >= hjt[h].maxserial
    THEN [maxserial |-> new.maxserial, hindo |-> [hjt[h].hindo EXCEPT ![serial] = "LIVE"]]
    ELSE [hjt[h] EXCEPT !.hindo[serial] = IF mine THEN "LIVE" ELSE @]

AddedTo(d, r) ==
    LET h   == dic_table[d].hindo
        new == r.serial = jt.maxserial
    IN /\ jt' = IF h = NONE \/ new THEN [r.jt EXCEPT !.hindo[r.serial] = "LIVE"] ELSE r.jt
       /\ hjt' = [f \in HindoFiles |->
                    IF f \in Attached THEN HindoOf(f, r.jt, r.serial, f = h) ELSE hjt[f]]
       /\ missed' = IF new THEN missed \cup (HindoFiles \ Attached) ELSE missed

word_add(d, yomi, kanji, hinsi, comment) ==
    /\ d \notin ReadOnly
    /\ jt.maxserial < MaxSerial /\ Len(jt.kanji) < MaxTexts
    /\ \E r \in IF jt.syurui = "UD" THEN word_add1(jt, yomi, hinsi, kanji, comment)
                ELSE {rd_word_add1(jt, yomi, hinsi, kanji, comment)} :
          /\ AddedTo(d, r)
          /\ words' = {w \in words : w.serial # r.serial}
                         \cup {Word(r.serial, yomi, kanji, hinsi, comment)}
    /\ UNCHANGED dic_table

get_yomi_from_serial(serial) ==
    IF jt.syurui = "UD" THEN inspect_ud(jt, serial) ELSE inspect_rd(jt, serial)

\* What the deleted word had is what a new word with its number would find.
Aged(hindo, serial) == [hindo EXCEPT ![serial] = IF @ = "LIVE" THEN "OLD" ELSE @]

word_delete(d, serial) ==
    /\ d \notin ReadOnly
    /\ serial < jt.maxserial
    /\ get_yomi_from_serial(serial) # <<>>
    /\ LET cut == IF jt.syurui = "UD"
                  THEN word_delete1(jt, get_yomi_from_serial(serial), serial)
                  ELSE rd_word_delete1(jt, serial)
       IN /\ jt' = [cut EXCEPT !.hindo = Aged(@, serial)]
          /\ hjt' = [h \in HindoFiles |->
                       [maxserial |-> IF h \in Attached THEN cut.maxserial
                                      ELSE hjt[h].maxserial,
                        hindo |-> Aged(hjt[h].hindo, serial)]]
    /\ missed' = missed \cup (HindoFiles \ Attached)
    /\ words' = {w \in words : w.serial # serial}
    /\ UNCHANGED dic_table

\* The result of get_yomi_from_serial is not looked at.  In a user dictionary
\* the empty reading is found nowhere; in a reversible one the record that
\* the number had is used.
word_comment_set(d, serial, comment) ==
    /\ d \notin ReadOnly
    /\ serial < jt.maxserial
    /\ jt.maxserial < MaxSerial /\ Len(jt.kanji) < MaxTexts
    /\ \E w \in words : w.serial = serial    \* clients name words that exist
    /\ jt' = IF jt.syurui = "UD" THEN word_comment_set1(jt, serial, comment)
             ELSE rd_comment_set1(jt, serial, comment)
    /\ words' = {[w EXCEPT !.comment = IF w.serial = serial THEN comment ELSE @] : w \in words}
    /\ UNCHANGED <<hjt, dic_table, missed>>

Called == calls < MaxCalls /\ calls' = calls + 1

Next ==
    \E d \in Dics :
        \/ \E h \in HindoFiles \cup {NONE} : js_dic_add(d, h)
        \/ Called /\ \E y \in Yomis, k \in Kanjis, h \in Hinsis, c \in Comments : word_add(d, y, k, h, c)
        \/ Called /\ \E s \in Serials : word_delete(d, s)
        \/ Called /\ \E s \in Serials, c \in Comments : word_comment_set(d, s, c)

Spec == Init /\ [][Next]_vars
-----------------------------------------------------------------------------
HindoBytes == {"LIVE", "OLD", "JUNK"}
TypeOK ==
    /\ jt.syurui \in Kinds /\ jt.maxserial \in Serials /\ jt.gosuu \in Nat
    /\ jt.hinsi \in [Serials -> Hinsis \cup {SAKUJO_HINSI}]
    /\ jt.hindo \in [Serials -> HindoBytes]
    /\ \A e \in Range(jt.table) : e.pter \in DOMAIN jt.hontai /\ e.pter1 \in 0 .. Len(jt.table)
    /\ \A t \in Range(jt.kanji) : t.forwarded \in 0 .. Len(jt.kanji)
    /\ \A w \in Which : \A e \in Range(jt.ri1[w]) :
          e.pter \in 0 .. jt.maxserial - 1 /\ e.pter1 \in 0 .. Len(jt.ri1[w])
    /\ hjt \in [HindoFiles -> [maxserial : Serials, hindo : [Serials -> HindoBytes]]]
    /\ missed \subseteq HindoFiles

\* What a search for s finds through the index `which'.
Found(which, s) ==
    {[serial |-> f.serial, len |-> f.len, hinsi |-> f.hinsi, kanji |-> f.text.kanji] :
        f \in IF jt.syurui = "UD" THEN ud_biki(jt, s) ELSE rd_biki(jt, which, s)}
Expected(which, s) ==
    {[serial |-> w.serial, len |-> Len(w[which]), hinsi |-> w.hinsi, kanji |-> w.kanji] :
        w \in {v \in words : IsPrefix(v[which], s)}}
Strings(which) ==
    {w[which] : w \in words} \cup (IF which = "yomi" THEN Yomis ELSE Kanjis)

(* Through a long sequence of additions, deletions and changed comments a    *)
(* search through either index finds exactly the words that were added and  *)
(* not deleted, with their kanji: the links between prefixes, the groups of *)
(* words that share a cell or follow each other, the shortened areas and    *)
(* the reused serial numbers never hide a word, show a deleted one or read  *)
(* another word's text.                                                     *)
FindsEveryWord ==
    /\ \A s \in Strings("yomi") : Found("yomi", s) = Expected("yomi", s)
    /\ jt.syurui = "REV" => \A s \in Strings("kanji") : Found("kanji", s) = Expected("kanji", s)

(* Every serial number in use belongs to one word, names its hinsi, and gosuu *)
(* counts the words: two words never share a number (js_word_delete and      *)
(* js_hindo_set name words by it).                                           *)
SerialsOnce ==
    /\ jt.gosuu = Cardinality(words)
    /\ Cardinality({w.serial : w \in words}) = Cardinality(words)
    /\ {s \in 0 .. jt.maxserial - 1 : jt.hinsi[s] # SAKUJO_HINSI} = {w.serial : w \in words}
    /\ \A w \in words : get_yomi_from_serial(w.serial) = w.yomi

(* The frequency of a word, in the dictionary or in a frequency file that    *)
(* was attached while words came and went, was never given for a word that   *)
(* had its serial number before, and was written at all.                     *)
FrequencyLives ==
    /\ \A w \in words : jt.hindo[w.serial] = "LIVE"
    /\ \A h \in Attached \ missed : \A w \in words :
          w.serial < hjt[h].maxserial /\ hjt[h].hindo[w.serial] = "LIVE"

(* So a frequency that is set or counted by serial number is that of one     *)
(* word, and of the word that has the number now.                            *)
FrequencyIsTheWords == SerialsOnce /\ FrequencyLives

(* js_word_add(3) says that the word is entered with the comment that the     *)
(* client gave.                                                               *)
CommentAsGiven ==
    \A w \in words : \A f \in IF jt.syurui = "UD" THEN ud_biki(jt, w.yomi)
                              ELSE rd_biki(jt, "yomi", w.yomi) :
        f.serial = w.serial => f.text.comment = w.comment
=============================================================================
