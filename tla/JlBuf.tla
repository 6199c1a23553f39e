-------------------------------- MODULE JlBuf --------------------------------
(***************************************************************************)
(* The conversion buffer of the jl level of the client library             *)
(* (Wnn/jlib/jl.c): the phrases on the screen (bun), the candidates of one *)
(* phrase or of one run of phrases (zenkouho), and for every phrase the    *)
(* chain of words whose "used just now" bit is to be dropped (down_bnst).  *)
(* Phrases are WNN_BUN blocks taken from a free list and counted in a      *)
(* 4 bit signed field; the same block may stand in several of these places.*)
(*                                                                         *)
(* A block and the continuation blocks its text needs are one block here.  *)
(* The server is what its answers are: Kanren, KanzenSho and KanzenDai     *)
(* give the answers a reading may have, and every call may fail.           *)
(***************************************************************************)
EXTENDS Integers, Sequences, SequencesExt, FiniteSets

CONSTANTS Text,           \* what the user types, a sequence of characters
          Kanren(_),      \* reading |-> the set of possible segmentations
          KanzenSho(_),   \* reading |-> the sequence of its words
          KanzenDai(_),   \* reading |-> the sequence of its runs of phrases
          KanjiOf(_),     \* word |-> what it is written as
          Pseudo,         \* the words of no dictionary (dic_no -1)
          Recent,         \* the words used just now, at the start
          Uniq,           \* does the client ask for each writing only once
          MaxCalls, MaxFail

VARIABLES buf,     \* struct wnn_buf, with the server's "used just now" bits
          typed,   \* what the phrases have to spell
          calls, fails

vars == <<buf, typed, calls, fails>>

BUN == 0
ZENKOUHO == 1
ZENKOUHO_DAI == 3
NULL == 0
FAIL == "fail"
DEAD == "dead"

bun_suu(b) == Len(b.bun)
Upto(b, j) == IF j >= bun_suu(b) \/ j < 0 THEN bun_suu(b) ELSE j

(* ref_cnt:4, a signed field of four bits *)
Ref4(n) == ((n + 8) % 16) - 8

BlankBun == [yomi |-> <<>>, entry |-> 0, ref |-> 0, down |-> NULL,
             ima |-> FALSE, hindo_updated |-> FALSE, nobi_top |-> FALSE,
             dai_top |-> FALSE, dai_end |-> FALSE, from |-> 0, bug |-> FALSE]

alloc_heap(b, len) ==
    LET n == Len(b.heap) IN
    [b EXCEPT !.heap = @ \o [i \in 1 .. len |-> BlankBun],
              !.free_heap = [i \in 1 .. len |-> n + i] \o @]

jl_open ==
    alloc_heap([bun |-> <<>>, down_bnst |-> <<>>, zenkouho |-> <<>>,
                zenkouho_dai |-> <<>>, c_zenkouho |-> -1, zenkouho_daip |-> FALSE,
                zenkouho_bun |-> -1, zenkouho_end_bun |-> -1, zenkouho_endvect |-> FALSE,
                heap |-> <<>>, free_heap |-> <<>>, env |-> TRUE, ret |-> 0,
                ima |-> Recent], 3)

Words(b, ids) == [k \in DOMAIN ids |-> b.heap[ids[k]].entry]
YomiOfAll(b, ids) == FlattenSeq([k \in DOMAIN ids |-> b.heap[ids[k]].yomi])

(* wnn_get_area: the reading of the phrases bun_no up to bun_no2 *)
jl_get_yomi(b, i, j) == YomiOfAll(b, SubSeq(b.bun, i + 1, j))

-----------------------------------------------------------------------------
(* Blocks: giving up a reference, taking a block *)

free_sho(b, p) ==
    LET r == Ref4(b.heap[p].ref - 1) IN
    [b EXCEPT !.heap[p].ref = r,
              !.free_heap = IF r <= 0 THEN <<p>> \o @ ELSE @]

free_all(b, ids) == FoldLeft(free_sho, b, ids)

free_zenkouho(b) ==
    [free_all(b, b.zenkouho) EXCEPT
        !.zenkouho = <<>>, !.zenkouho_dai = <<>>, !.c_zenkouho = -1,
        !.zenkouho_bun = -1, !.zenkouho_end_bun = -1]

free_bun(b, i, j) == free_all(b, SubSeq(b.bun, i + 1, j))

RECURSIVE free_chain(_, _)
free_chain(b, p) ==
    IF p = NULL THEN b
    ELSE free_chain([free_sho(b, p) EXCEPT !.heap[p].down = NULL], b.heap[p].down)

RECURSIVE free_down(_, _, _)
free_down(b, i, j) ==
    IF i >= j THEN b
    ELSE free_down(free_chain([b EXCEPT !.down_bnst[i + 1] = NULL], b.down_bnst[i + 1]),
                   i + 1, j)

get_new_bun(b) == IF b.free_heap = <<>> THEN alloc_heap(b, 2) ELSE b

(* get_sho: the block is the head of the free list, reset from the answer,  *)
(* but for dai_end, which only candidates are given. A word of no dictionary *)
(* comes with the bit -1, which is not 0.                                   *)
get_sho(b0, sp, from) ==
    LET b == get_new_bun(b0)
        p == Head(b.free_heap)
    IN  [b EXCEPT !.free_heap = Tail(@),
                  !.heap[p] = [BlankBun EXCEPT
                       !.yomi = sp.yomi, !.entry = sp.entry, !.ref = 1,
                       !.ima = sp.entry \in Pseudo \/ <<sp.yomi, sp.entry>> \in b.ima,
                       !.dai_top = sp.dai_top, !.dai_end = b.heap[p].dai_end,
                       !.from = from]]

(* mutant: the chain does not count as a holder *)
add_down_bnst_uncounted(b, k, p) ==
    IF b.heap[p].down # NULL \/ p = b.down_bnst[k + 1] THEN b
    ELSE [b EXCEPT !.heap[p].down = b.down_bnst[k + 1], !.down_bnst[k + 1] = p]

add_down_bnst(b, k, p) ==
    IF b.heap[p].down # NULL \/ p = b.down_bnst[k + 1] THEN b
    ELSE [b EXCEPT !.heap[p].down = b.down_bnst[k + 1],
                   !.heap[p].ref = Ref4(@ + 1),
                   !.down_bnst[k + 1] = p]

set_sho(b, p) == [b EXCEPT !.heap[p].ref = Ref4(@ + 1)]

-----------------------------------------------------------------------------
(* Making room in the phrases for cnt blocks in place of i .. j, and the    *)
(* chains that move along                                                  *)

(* mutant: the phrase behind the replaced ones goes with them *)
make_space_for_bun_wide(b, i, j, cnt) ==
    [b EXCEPT
      !.bun = SubSeq(@, 1, i) \o [k \in 1 .. cnt |-> NULL] \o SubSeq(@, j + 2, Len(@)),
      !.down_bnst = SubSeq(@, 1, i) \o [k \in 1 .. cnt |-> NULL] \o SubSeq(@, j + 2, Len(@))]

make_space_for_bun(b, i, j, cnt) ==
    LET newsize == bun_suu(b) + cnt - (j - i) IN
    [b EXCEPT
      !.bun = SubSeq(@, 1, i) \o [k \in 1 .. cnt |-> NULL] \o SubSeq(@, j + 1, Len(@)),
      !.down_bnst = [k \in 1 .. newsize |->
                        CASE k <= j /\ k <= i + cnt -> @[k]
                          [] k > j /\ k <= i + cnt  -> NULL
                          [] k > i + cnt            -> @[k - cnt + (j - i)]]]

(* insert_sho and insert_dai into the phrases: fill the room block by block *)
RECURSIVE fill_bun(_, _, _, _)
fill_bun(b, k, sps, from) ==
    IF sps = <<>> THEN b
    ELSE LET b1 == get_sho(b, Head(sps), from) IN
         LET p == Head(get_new_bun(b).free_heap) IN
         fill_bun([b1 EXCEPT !.bun[k + 1] = p], k + 1, Tail(sps), from)

insert_bun(b, i, j, sps, from) ==
    fill_bun(make_space_for_bun(b, i, j, Len(sps)), i, sps, from)

(* the same at the end of the candidates *)
append_zenkouho(b, sp, from, end) ==
    LET p == Head(get_new_bun(b).free_heap) IN
    [get_sho(b, sp, from) EXCEPT !.zenkouho = Append(@, p), !.heap[p].dai_end = end]

find_same_kouho(b, sp) ==
    \E k \in DOMAIN b.zenkouho :
        KanjiOf(b.heap[b.zenkouho[k]].entry) = KanjiOf(sp.entry)

insert_sho_zenkouho(b0, sps) ==
    FoldLeft(LAMBDA b, sp : IF Uniq /\ find_same_kouho(b, sp) THEN b
                            ELSE append_zenkouho(b, sp, ZENKOUHO, b.zenkouho_endvect => ~sp.joins),
             b0, sps)

(* the blocks of the candidate run k, counted from 0 *)
DaiOf(b, k) == SubSeq(b.zenkouho, b.zenkouho_dai[k + 1] + 1,
                      IF k + 2 <= Len(b.zenkouho_dai) THEN b.zenkouho_dai[k + 2]
                                                      ELSE Len(b.zenkouho))

find_same_kouho_dai(b, dp) ==
    \E k \in 0 .. Len(b.zenkouho_dai) - 1 :
        \A l \in 1 .. Len(dp) :
            LET q == b.zenkouho[b.zenkouho_dai[k + 1] + l] IN
            /\ Len(dp[l].yomi) = Len(b.heap[q].yomi)
            /\ KanjiOf(b.heap[q].entry) = KanjiOf(dp[l].entry)

insert_dai_zenkouho(b0, dps) ==
    FoldLeft(LAMBDA b, dp :
                IF Uniq /\ find_same_kouho_dai(b, dp) THEN b
                ELSE FoldLeft(LAMBDA c, l : append_zenkouho(c, dp[l], ZENKOUHO_DAI,
                                   l = Len(dp) /\ b.zenkouho_endvect /\ ~dp[l].joins),
                              [b EXCEPT !.zenkouho_dai = Append(@, Len(b.zenkouho))],
                              [l \in DOMAIN dp |-> l]),
             b0, dps)

dai_end(b, i) ==
    LET tops == {k \in i + 1 .. bun_suu(b) - 1 : b.heap[b.bun[k + 1]].dai_top} IN
    IF tops = {} THEN bun_suu(b) ELSE CHOOSE k \in tops : \A l \in tops : k <= l

dai_top_is(b, j, v) ==
    IF j < bun_suu(b) THEN [b EXCEPT !.heap[b.bun[j + 1]].dai_top = v] ELSE b

(* if_dead_disconnect_b *)
Failed(b, how) == [b EXCEPT !.ret = -1, !.env = @ /\ how # DEAD]

-----------------------------------------------------------------------------
(* Conversion. ans is the question's end and the server's answer: whether   *)
(* the phrase behind is to be looked at (use_maep & WNN_USE_ATO), how the   *)
(* call went, the phrases, and whether the last of them joins the one       *)
(* behind.                                                                  *)

(* mutant: moved by the number of new phrases *)
Zenkouho_moved_far(b, i, j, size) ==
    IF b.zenkouho_end_bun > i /\ b.zenkouho_bun < j THEN free_zenkouho(b)
    ELSE IF b.zenkouho_bun >= j
    THEN [b EXCEPT !.zenkouho_bun = @ + size - i, !.zenkouho_end_bun = @ + size - i]
    ELSE b

Zenkouho_moved(b, i, j, size) ==
    IF b.zenkouho_end_bun > i /\ b.zenkouho_bun < j THEN free_zenkouho(b)
    ELSE IF b.zenkouho_bun >= j
    THEN [b EXCEPT !.zenkouho_bun = @ + size - j, !.zenkouho_end_bun = @ + size - j]
    ELSE b

(* ren_conv1 and tan_conv1: they differ in the server's command *)
conv1(b, yomi, i, j0, ans, from) ==
    LET j  == Upto(b, j0)
        b1 == IF ans.ato THEN b ELSE dai_top_is(b, j, TRUE)
        b2 == insert_bun(free_bun(IF ans.ato THEN dai_top_is(b1, j, ~ans.joins) ELSE b1, i, j),
                         i, j, ans.sho, from)
        size == i + Len(ans.sho)
        b3 == Zenkouho_moved(b2, i, j, size)
    IN  IF yomi = <<>> THEN [b EXCEPT !.ret = 0]
        ELSE IF ans.how # "ok" THEN Failed(b1, ans.how)
        ELSE [b3 EXCEPT !.ret = size]

jl_ren_conv(b, yomi, i, j, ans) ==
    conv1(free_down(b, i, Upto(b, j)), yomi, i, Upto(b, j), ans, BUN)

need_down(b, i) == ~b.heap[b.bun[i + 1]].nobi_top

jl_nobi_conv(b, i, len, j0, ans1, ans2) ==
    LET j    == Upto(b, j0)
        yomi == jl_get_yomi(b, i, j)
        b1   == IF need_down(b, i) THEN add_down_bnst(b, i, b.bun[i + 1]) ELSE b
        b2   == IF need_down(b, i) /\ i + 1 < bun_suu(b)
                THEN add_down_bnst(b1, i, b.bun[i + 2]) ELSE b1
        kept == b2.down_bnst[i + 1]
        b3   == conv1(free_down([b2 EXCEPT !.down_bnst[i + 1] = NULL], i, j),
                      SubSeq(yomi, 1, len), i, j, ans1, BUN)
        b4   == IF len < Len(yomi)
                THEN conv1(b3, SubSeq(yomi, len + 1, Len(yomi)), b3.ret, b3.ret, ans2, BUN)
                ELSE b3
    IN  IF b3.ret = -1 \/ b4.ret = -1 THEN IF b3.ret = -1 THEN b3 ELSE b4
        ELSE [b4 EXCEPT !.heap[b4.bun[i + 1]].nobi_top = TRUE, !.down_bnst[i + 1] = kept]

(* jl_nobi_conv_e2: the chains stay, but for those it frees *)
jl_nobi_conv_e2(b, i, len, j0, ans1, ans2) ==
    LET j    == Upto(b, j0)
        yomi == jl_get_yomi(b, i, j)
        b1   == IF need_down(b, i) THEN add_down_bnst(b, i, b.bun[i + 1]) ELSE b
        k    == IF len < Len(b.heap[b.bun[i + 1]].yomi) THEN i + 1 ELSE i
        b2   == IF need_down(b, i) /\ i + 1 < bun_suu(b)
                THEN free_down(add_down_bnst(b1, k, b.bun[i + 2]), k + 1, j)
                ELSE b1
        b3   == conv1(b2, SubSeq(yomi, 1, len), i, j, ans1, BUN)
        b4   == IF len < Len(yomi)
                THEN conv1(b3, SubSeq(yomi, len + 1, Len(yomi)), b3.ret, b3.ret, ans2, BUN)
                ELSE b3
    IN  IF b3.ret = -1 \/ b4.ret = -1 THEN IF b3.ret = -1 THEN b3 ELSE b4
        ELSE [b4 EXCEPT !.heap[b4.bun[i + 1]].nobi_top = TRUE]

(* mutant: the candidates stay *)
jl_kill_keeping(b, i, j0) ==
    LET j  == IF j0 < i THEN bun_suu(b) ELSE j0
        b1 == free_bun(free_down(b, i, j), i, j)
        Cut(s) == SubSeq(s, 1, i) \o SubSeq(s, j + 1, Len(s))
    IN  [b1 EXCEPT !.bun = Cut(@), !.down_bnst = Cut(@), !.ret = 0]

jl_kill(b, i, j0) ==
    LET j  == IF j0 < i THEN bun_suu(b) ELSE j0
        b1 == free_bun(free_down(free_zenkouho(b), i, j), i, j)
        Cut(s) == SubSeq(s, 1, i) \o SubSeq(s, j + 1, Len(s))
    IN  [b1 EXCEPT !.bun = Cut(@), !.down_bnst = Cut(@), !.ret = 0]

-----------------------------------------------------------------------------
(* Candidates *)

(* the end of jl_zenkouho and jl_zenkouho_dai: where the list belongs, and  *)
(* the candidates used just now go to the chain of the phrase               *)
Zenkouho_taken(b, i, j, daip, c) ==
    FoldLeft(LAMBDA a, p : IF a.heap[p].ima /\ a.heap[p].entry \notin Pseudo
                           THEN add_down_bnst(a, i, p) ELSE a,
             [b EXCEPT !.zenkouho_bun = i, !.zenkouho_end_bun = j,
                       !.zenkouho_daip = daip, !.c_zenkouho = c, !.ret = c],
             b.zenkouho)

get_c_jikouho(sps, dest) ==
    LET ks == {k \in DOMAIN sps : sps[k].entry = dest.entry} IN
    IF ks = {} THEN 0 ELSE CHOOSE k \in ks : \A l \in ks : k <= l

(* mutant: the writing is compared, not the word *)
get_c_jikouho_by_kanji(b, dest) ==
    LET ks == {k \in DOMAIN b.zenkouho :
                  KanjiOf(b.heap[b.zenkouho[k]].entry) = KanjiOf(dest.entry)} IN
    IF ks = {} THEN -1 ELSE (CHOOSE k \in ks : \A l \in ks : k <= l) - 1

get_c_jikouho_from_zenkouho(b, dest) ==
    LET ks == {k \in DOMAIN b.zenkouho : b.heap[b.zenkouho[k]].entry = dest.entry} IN
    IF ks = {} THEN -1 ELSE (CHOOSE k \in ks : \A l \in ks : k <= l) - 1

(* use_maep & WNN_USE_ATO: may the phrase after the candidates be joined? *)
ends_with(b, j, ato) ==
    LET may == ato /\ j < bun_suu(b) IN
    [IF may THEN b ELSE dai_top_is(b, j, TRUE) EXCEPT !.zenkouho_endvect = may]

(* the candidate on the screen, put in front, takes the answer's connections *)
connected(b, first, last, k, sp1, sp2) ==
    IF k = 0 THEN b
    ELSE [b EXCEPT !.heap[first].dai_top = sp1.dai_top, !.heap[last].dai_end = ~sp2.joins]

Without(s, k) == SubSeq(s, 1, k - 1) \o SubSeq(s, k + 1, Len(s))
AtLeast0(k) == IF k < 0 THEN 0 ELSE k

jl_zenkouho(b, i, ato, how) ==
    LET p   == b.bun[i + 1]
        sps == KanzenSho(b.heap[p].yomi)
        b1  == ends_with(b, i + 1, ato)
        b2  == free_zenkouho(b1)
        k   == get_c_jikouho(sps, b.heap[p])
        b3  == insert_sho_zenkouho(
                 [connected(set_sho(b2, p), p, p, k, sps[k], sps[k]) EXCEPT !.zenkouho = <<p>>],
                 IF Uniq \/ k = 0 THEN sps ELSE Without(sps, k))
        b4  == insert_sho_zenkouho(b2, sps)
    IN  IF i = b.zenkouho_bun /\ ~b.zenkouho_daip THEN [b EXCEPT !.ret = b.c_zenkouho]
        ELSE IF how # "ok" THEN Failed(b1, how)
        ELSE IF b.heap[p].from % 2 = BUN THEN Zenkouho_taken(b3, i, i + 1, FALSE, 0)
        ELSE Zenkouho_taken(b4, i, i + 1, FALSE,
                            AtLeast0(get_c_jikouho_from_zenkouho(b4, b.heap[p])))

get_c_jikouho_dai(dps, b, i) ==
    LET ks == {k \in DOMAIN dps :
                  /\ i + Len(dps[k]) <= bun_suu(b)
                  /\ \A l \in DOMAIN dps[k] : dps[k][l].entry = b.heap[b.bun[i + l]].entry}
    IN  IF ks = {} THEN 0 ELSE CHOOSE k \in ks : \A l \in ks : k <= l

(* get_c_jikouho_from_zenkouho_dai counts up to zenkouho_dai[k + 1], not to *)
(* the length of the run, and steps from block to neighbouring block in     *)
(* memory: past the first comparison it may find anything. Its answers:     *)
get_c_jikouho_from_zenkouho_dai(b, dest) ==
    LET n == Len(b.zenkouho_dai)
        like == {k \in 0 .. n - 1 : b.heap[Head(DaiOf(b, k))].entry = dest.entry}
    IN  IF 0 \in like /\ Len(DaiOf(b, 0)) = 1 THEN {0} ELSE like \cup {-1}

jl_zenkouho_dai(b, i, j0, ato, how) ==
    LET j   == IF j0 > dai_end(b, i) \/ j0 < 0 THEN dai_end(b, i) ELSE j0
        dps == KanzenDai(jl_get_yomi(b, i, j))
        now == SubSeq(b.bun, i + 1, j)
        b1  == ends_with(b, j, ato)
        b2  == free_zenkouho(b1)
        k   == get_c_jikouho_dai(dps, b, i)
        b3  == insert_dai_zenkouho(
                 [connected(FoldLeft(set_sho, b2, now), now[1], now[Len(now)],
                            k, dps[k][1], dps[k][Len(dps[k])])
                    EXCEPT !.zenkouho = now, !.zenkouho_dai = <<0>>],
                 IF Uniq \/ k = 0 THEN dps ELSE Without(dps, k))
        b4  == insert_dai_zenkouho(b2, dps)
    IN  IF i = b.zenkouho_bun /\ b.zenkouho_daip THEN {[b EXCEPT !.ret = b.c_zenkouho]}
        ELSE IF how # "ok" THEN {Failed(b1, how)}
        ELSE IF \E l \in DOMAIN now : b.heap[now[l]].from # ZENKOUHO_DAI
        THEN {Zenkouho_taken(b3, i, j, TRUE, 0)}
        ELSE {Zenkouho_taken(b4, i, j, TRUE, AtLeast0(c)) :
                 c \in get_c_jikouho_from_zenkouho_dai(b4, b.heap[b.bun[i + 1]])}

jl_set_jikouho(b, offset) ==
    LET n == Len(b.zenkouho)
        o == (offset + n) % n
        i == b.zenkouho_bun
        p == b.zenkouho[o + 1]
        b1 == IF b.zenkouho_endvect THEN dai_top_is(b, i + 1, b.heap[p].dai_end) ELSE b
    IN  [set_sho(free_sho(b1, b.bun[i + 1]), p) EXCEPT
            !.bun[i + 1] = p, !.c_zenkouho = o, !.ret = o]

jl_set_jikouho_dai(b, offset) ==
    LET n   == Len(b.zenkouho_dai)
        o   == (offset + n) % n
        i   == b.zenkouho_bun
        new == DaiOf(b, o)
        b1  == IF b.zenkouho_endvect
               THEN dai_top_is(b, b.zenkouho_end_bun, b.heap[new[Len(new)]].dai_end) ELSE b
        b2  == make_space_for_bun(free_bun(b1, i, b.zenkouho_end_bun),
                                  i, b.zenkouho_end_bun, Len(new))
    IN  [FoldLeft(set_sho, b2, new) EXCEPT
            !.bun = SubSeq(@, 1, i) \o new \o SubSeq(@, i + Len(new) + 1, Len(@)),
            !.zenkouho_end_bun = i + Len(new), !.c_zenkouho = o, !.ret = o]

-----------------------------------------------------------------------------
(* jl_update_hindo: drop the "used just now" bit of the words in the chains, *)
(* then set it for the words on the screen. bad is the call of js_hindo_set  *)
(* that fails, if one does: only a dead server ends the function.            *)

Word(b, p) == <<b.heap[p].yomi, b.heap[p].entry>>

WNN_IMA_OFF == "off"
WNN_IMA_ON == "on"
NONE == <<>>

(* For a word of no dictionary the server does other things (giji_hindoup). *)
js_hindo_set(b, p, op, bad) ==
    CASE bad = <<op, p, DEAD>> -> Failed(b, DEAD)
      [] ~b.env \/ bad = <<op, p, FAIL>> \/ b.heap[p].entry \in Pseudo -> b
      [] OTHER -> [b EXCEPT !.ima = IF op = WNN_IMA_ON THEN @ \cup {Word(b, p)}
                                                       ELSE @ \ {Word(b, p)}]

RECURSIVE drop_chain(_, _, _)
drop_chain(b, p, bad) ==
    LET b1 == [b EXCEPT !.heap[p].bug = TRUE] IN
    IF p = NULL \/ b.ret = -1 THEN b
    ELSE IF b.heap[p].bug THEN b
    ELSE drop_chain(IF b.heap[p].entry \in Pseudo THEN b1
                    ELSE js_hindo_set(b1, p, WNN_IMA_OFF, bad),
                    b.heap[p].down, bad)

drop_ima(b, i, j, bad) ==
    FoldLeft(LAMBDA a, k : IF a.heap[a.bun[k]].hindo_updated THEN a
                           ELSE drop_chain(a, a.down_bnst[k], bad),
             b, [k \in 1 .. j - i |-> i + k])

(* the mark comes before the call, whatever becomes of that *)
set_ima(b, i, j, bad) ==
    FoldLeft(LAMBDA a, p : IF a.heap[p].hindo_updated \/ a.ret = -1 THEN a
                           ELSE js_hindo_set([a EXCEPT !.heap[p].hindo_updated = TRUE],
                                             p, WNN_IMA_ON, bad),
             b, SubSeq(b.bun, i + 1, j))

(* mutant: the words are set first *)
jl_update_hindo_swapped(b, i, j0, bad) ==
    LET j  == Upto(b, j0)
        b1 == set_ima([b EXCEPT !.ret = 0], i, j, bad)
        b2 == FoldLeft(LAMBDA a, k : drop_chain(a, a.down_bnst[k], bad), b1,
                       [k \in 1 .. j - i |-> i + k])
    IN  IF b2.ret = -1 THEN b2 ELSE free_down(b2, i, j)

jl_update_hindo(b, i, j0, bad) ==
    LET j  == Upto(b, j0)
        b1 == drop_ima([b EXCEPT !.ret = 0], i, j, bad)
    IN  IF b1.ret = -1 THEN b1 ELSE set_ima(free_down(b1, i, j), i, j, bad)

(* the calls of js_hindo_set on the way from b to after *)
HindoCalls(b, after) ==
    LET Marked(old, new) == {p \in DOMAIN b.heap : ~old[p] /\ new[p]}
        bug(c) == [p \in DOMAIN b.heap |-> c.heap[p].bug]
        hindo_updated(c) == [p \in DOMAIN b.heap |-> c.heap[p].hindo_updated]
    IN  {<<WNN_IMA_OFF, p>> : p \in {q \in Marked(bug(b), bug(after)) : b.heap[q].entry \notin Pseudo}}
        \cup {<<WNN_IMA_ON, p>> : p \in Marked(hindo_updated(b), hindo_updated(after))}

-----------------------------------------------------------------------------
(* The client: it types the text piece by piece at the end, converts again  *)
(* what it has, stretches and shrinks, chooses and confirms                 *)

Init == buf = jl_open /\ typed = <<>> /\ calls = 0 /\ fails = 0

(* how a call to the server goes; a buffer without environment always fails *)
Hows == IF ~buf.env THEN {FAIL}
        ELSE IF fails < MaxFail THEN {"ok", FAIL, DEAD} ELSE {"ok"}

(* A phrase behind that is looked at and not joined is a run of its own, as *)
(* one that is not looked at.                                               *)
Answers(yomi) ==
    {[how |-> "ok", sho |-> sps, ato |-> a, joins |-> a] :
        sps \in IF buf.env THEN Kanren(yomi) ELSE {}, a \in BOOLEAN}
    \cup {[how |-> h, sho |-> <<>>, ato |-> a, joins |-> FALSE] :
            h \in Hows \ {"ok"}, a \in BOOLEAN}

CalledFailing(b, n) == calls' = calls + 1 /\ buf' = b /\ fails' = fails + n
Called(b) == CalledFailing(b, IF b.ret = -1 THEN 1 ELSE 0)

More == calls < MaxCalls
Starts == 0 .. bun_suu(buf) - 1
Kept == typed' = typed

(* the next piece of the text, converted at the end of the phrases *)
TypeText ==
    More /\ \E n \in 1 .. Len(Text) - Len(typed) :
        LET piece == SubSeq(Text, Len(typed) + 1, Len(typed) + n) IN
        \E ans \in Answers(piece) :
            LET b == jl_ren_conv(buf, piece, bun_suu(buf), -1, ans) IN
            /\ Called(b)
            /\ typed' = IF b.ret = -1 THEN typed ELSE typed \o piece

Reconvert ==
    More /\ \E i \in Starts : \E j \in i + 1 .. bun_suu(buf) :
        LET yomi == jl_get_yomi(buf, i, j) IN
        \E ans \in Answers(yomi) :
            Called(jl_ren_conv(buf, yomi, i, j, ans)) /\ Kept

(* A stretch: the first phrase is converted without looking behind, the     *)
(* rest after it. What a failing second half leaves is what is there.       *)
Stretch(conv(_, _, _, _, _, _)) ==
    More /\ \E i \in Starts : \E j \in {-1} \cup i + 1 .. bun_suu(buf) :
        LET yomi == jl_get_yomi(buf, i, Upto(buf, j)) IN
        \E len \in 1 .. Len(yomi) :
            \E ans1 \in {a \in Answers(SubSeq(yomi, 1, len)) : ~a.ato} :
              \E ans2 \in IF len < Len(yomi) THEN Answers(SubSeq(yomi, len + 1, Len(yomi)))
                                             ELSE {ans1} :
                LET b == conv(buf, i, len, j, ans1, ans2) IN
                /\ Called(b)
                /\ typed' = IF b.ret = -1 THEN jl_get_yomi(b, 0, bun_suu(b)) ELSE typed

Nobi_conv == Stretch(jl_nobi_conv)
Nobi_conv_e2 == Stretch(jl_nobi_conv_e2)

Kill ==
    More /\ \E i \in Starts : \E j \in {-1} \cup i + 1 .. bun_suu(buf) :
        LET n == Len(jl_get_yomi(buf, 0, i))
            m == Len(jl_get_yomi(buf, i, IF j < i THEN bun_suu(buf) ELSE j))
        IN  /\ Called(jl_kill(buf, i, j))
            /\ typed' = SubSeq(typed, 1, n) \o SubSeq(typed, n + m + 1, Len(typed))

Zenkouho ==
    More /\ \E i \in Starts, ato \in BOOLEAN, how \in Hows :
        Called(jl_zenkouho(buf, i, ato, how)) /\ Kept

Zenkouho_dai ==
    More /\ \E i \in Starts, ato \in BOOLEAN, how \in Hows : \E j \in {-1} \cup i + 1 .. bun_suu(buf) :
        \E b \in jl_zenkouho_dai(buf, i, j, ato, how) : Called(b) /\ Kept

(* jl_next, jl_previous or any candidate of the list *)
Offsets(n) == {buf.c_zenkouho + 1, buf.c_zenkouho - 1} \cup 0 .. n - 1

Set_jikouho ==
    /\ More
    /\ Len(buf.zenkouho) > 0 /\ ~buf.zenkouho_daip
    /\ \E o \in Offsets(Len(buf.zenkouho)) : Called(jl_set_jikouho(buf, o))
    /\ Kept

Set_jikouho_dai ==
    /\ More
    /\ Len(buf.zenkouho) > 0 /\ buf.zenkouho_daip
    /\ \E o \in Offsets(Len(buf.zenkouho_dai)) : Called(jl_set_jikouho_dai(buf, o))
    /\ Kept

(* js_hindo_set fails for a dictionary that is read-only or gone, or with the *)
(* server.                                                                  *)
BadCalls(i, j) ==
    IF ~buf.env \/ fails >= MaxFail THEN {}
    ELSE {<<c[1], c[2], how>> : c \in HindoCalls(buf, jl_update_hindo(buf, i, j, NONE)),
                                how \in {FAIL, DEAD}}

Update_hindo ==
    More /\ \E i \in Starts : \E j \in {-1} \cup i + 1 .. bun_suu(buf) :
        /\ \/ CalledFailing(jl_update_hindo(buf, i, j, NONE), 0)
           \/ \E bad \in BadCalls(i, j) : CalledFailing(jl_update_hindo(buf, i, j, bad), 1)
        /\ Kept

Next == \/ TypeText \/ Reconvert \/ Nobi_conv \/ Nobi_conv_e2 \/ Kill
        \/ Zenkouho \/ Zenkouho_dai \/ Set_jikouho \/ Set_jikouho_dai
        \/ Update_hindo

Spec == Init /\ [][Next]_vars

-----------------------------------------------------------------------------
(* Properties *)

Ids == DOMAIN buf.heap

(* The buffer is well formed: as many chains as phrases, pointers to blocks, *)
(* and the candidate positions of a list that lies inside the phrases.       *)
TypeOK ==
    /\ \A p \in Ids : /\ buf.heap[p].ref \in -8 .. 7
                      /\ buf.heap[p].down \in {NULL} \cup Ids
                      /\ buf.heap[p].from \in 0 .. 3
    /\ buf.bun \in Seq(Ids) /\ buf.zenkouho \in Seq(Ids)
    /\ buf.down_bnst \in Seq({NULL} \cup Ids) /\ Len(buf.down_bnst) = Len(buf.bun)
    /\ buf.c_zenkouho \in -1 .. Len(buf.zenkouho) - 1
    /\ buf.zenkouho # <<>> => /\ buf.zenkouho_bun \in 0 .. Len(buf.bun) - 1
                              /\ buf.zenkouho_end_bun \in buf.zenkouho_bun + 1 .. Len(buf.bun)

(* the places that hold block p *)
Holders(p) ==
    Cardinality({k \in DOMAIN buf.bun : buf.bun[k] = p})
    + Cardinality({k \in DOMAIN buf.zenkouho : buf.zenkouho[k] = p})
    + Cardinality({k \in DOMAIN buf.down_bnst : buf.down_bnst[k] = p})
    + Cardinality({q \in Ids : buf.heap[q].ref > 0 /\ buf.heap[q].down = p})

(* A block is on the free list, once, exactly when its count is 0, and no    *)
(* place of the buffer holds a block that was given back: the count never    *)
(* falls below the holders, whatever is typed, stretched, chosen, killed,    *)
(* confirmed or refused by the server (free_sho, set_sho, add_down_bnst).    *)
BlocksCounted ==
    /\ IsInjective(buf.free_heap)
    /\ \A p \in Ids : /\ Holders(p) <= buf.heap[p].ref
                      /\ p \in Range(buf.free_heap) <=> buf.heap[p].ref = 0

(* The phrases spell what was typed, however they were cut anew.             *)
SpellsTheText == YomiOfAll(buf, buf.bun) = typed

(* Every candidate of the list spells the phrases it would replace, also     *)
(* after phrases before it were converted anew into more or fewer.           *)
CandidatesSpell ==
    LET here == jl_get_yomi(buf, buf.zenkouho_bun, buf.zenkouho_end_bun) IN
    buf.zenkouho # <<>> =>
        /\ buf.zenkouho_end_bun <= Len(buf.bun)
        /\ IF buf.zenkouho_daip
           THEN \A k \in 0 .. Len(buf.zenkouho_dai) - 1 : YomiOfAll(buf, DaiOf(buf, k)) = here
           ELSE \A k \in DOMAIN buf.zenkouho : buf.heap[buf.zenkouho[k]].yomi = here

(* c_zenkouho is the candidate on the screen (phrase by phrase).             *)
CurrentShown ==
    (buf.zenkouho # <<>> /\ ~buf.zenkouho_daip) =>
        buf.heap[buf.zenkouho[buf.c_zenkouho + 1]].entry
            = buf.heap[buf.bun[buf.zenkouho_bun + 1]].entry

(* The list belongs to the phrases on the screen, in both ways, whatever was *)
(* done between the calls that made it and those that use it.                *)
CandidatesFit == CandidatesSpell /\ CurrentShown

(* The same for runs of phrases: jl_zenkouho_dai returns the offset of what  *)
(* is chosen now.                                                            *)
CurrentDaiShown ==
    (buf.zenkouho # <<>> /\ buf.zenkouho_daip) =>
        Words(buf, DaiOf(buf, buf.c_zenkouho))
            = Words(buf, SubSeq(buf.bun, buf.zenkouho_bun + 1, buf.zenkouho_end_bun))

(* A word that is confirmed is "used just now" afterwards, also when it was  *)
(* passed over in another phrase that is confirmed with it: the chains of    *)
(* all the phrases are dropped before the first word is set. A word is marked *)
(* as confirmed before the server is asked, so a call that fails costs its   *)
(* own word the bit, though jl_update_hindo returns 0, and no other word.    *)
NotRecent(p) == buf.heap[p].entry \notin Pseudo /\ Word(buf, p) \notin buf'.ima
ConfirmedIsRecent ==
    [][buf.env =>
        Cardinality({p \in Ids : ~buf.heap[p].hindo_updated /\ buf'.heap[p].hindo_updated
                                 /\ NotRecent(p)}) <= fails' - fails]_vars
=============================================================================
