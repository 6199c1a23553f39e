----------------------------- MODULE Candidates -----------------------------
(***************************************************************************)
(* The lists of all candidates for a reading: jkt_get_syo of               *)
(* src/Wnn/jserver/jikouho.c for one small phrase, jkt_get_dai of          *)
(* jikouho_d.c for a large one, and their nodes (mknode2.c).               *)
(*                                                                         *)
(* A node (JKT_SBN) stands for the small phrases with one beginning, one   *)
(* end, one vector and one parent; its list sbn has their stems (JKT_SONE),*)
(* the best first.  Nothing is pruned.  A stem is a word of the            *)
(* dictionaries, or a pseudo phrase in one of its forms.                   *)
(***************************************************************************)
EXTENDS Kaiseki

VARIABLES
    jkt,         \* nodes JKT_SBN in use
    kouho        \* the candidates of the answer, the best first
cvars == <<vars, jkt, kouho>>

HIRA_HYOUKA == -2000
KATA_HYOUKA == -1000

(***************************************************************************)
(* e has what a search is done with: y, the reading; m, where the phrases  *)
(* begin; fzk, the auxiliary words; num and parent; past, whether what is  *)
(* read two places behind the reading looks like hiragana.                 *)
(* L is the nodes, heap, with list, the brothers found.                    *)
(***************************************************************************)
Sone(at, v, word, form, hinsi, bkwd) ==
    [i_jc |-> at, v_jc |-> v, word |-> word, form |-> form, hinsi |-> hinsi, status_bkwd |-> bkwd]

getjktsbn(L, e, at, j_c, v, sones) ==
    LET n == Min((1 .. Cardinality(DOMAIN L.heap) + 1) \ DOMAIN L.heap)
    IN  [heap |-> L.heap @@ (n :> [j_c |-> j_c, bend_m |-> e.m, kangovect |-> v, kbcnt |-> e.num,
                                   parent |-> e.parent, reference |-> 0, sbn |-> sones]),
         list |-> InsertAt(L.list, at, n)]

\* Behind those that are as good.
Ranked(sones, sone) ==
    InsertAt(sones, Min({k \in DOMAIN sones : sones[k].v_jc < sone.v_jc} \cup {Len(sones) + 1}), sone)

\* The stem goes to the brother of its length and vector, or to a new one in its place.
VectAt(L, k) == L.heap[L.list[k]].kangovect
find_jktsbn(L, e, sone, v, j_c) ==
    LET run == {k \in DOMAIN L.list : \A i \in 1 .. k : L.heap[L.list[i]].j_c = j_c}
        stop == Min({k \in run : VectAt(L, k) = v \/ k + 1 \notin run \/ VectAt(L, k + 1) > v})
    IN  IF run = {} \/ VectAt(L, 1) > v THEN getjktsbn(L, e, 1, j_c, v, <<sone>>)
        ELSE IF VectAt(L, stop) = v THEN [L EXCEPT !.heap[L.list[stop]].sbn = Ranked(@, sone)]
        ELSE getjktsbn(L, e, stop + 1, j_c, v, <<sone>>)

----------------------------------------------------------------------------
(* Stems behind the k-th auxiliary words. *)

Connects(e, k, c) == c \in e.fzk[k].vector \/ (e.num = 1 /\ c \in e.fzk[k].vector1)
Halved(L, e, bk) ==
    IF e.num = 1 THEN ~bk
    ELSE ~\E s \in DOMAIN L.heap[e.parent].sbn : L.heap[e.parent].sbn[s].status_bkwd
StemSone(L, e, k, w, bk) ==
    LET v == hyoka1(w.hindo, w.j - w.i + 1, w.j - e.m + 1)
    IN  Sone(w.i, IF Halved(L, e, bk) THEN DIVID(v, 2) ELSE v, <<w>>, "word", w.hinsi, bk)
AddStem(L, e, k, w, c) ==
    find_jktsbn(L, e, StemSone(L, e, k, w, c \in e.fzk[k].vector), HinsiVect[c], w.j)
\* Once for each component that connects, be it to the same node.
AddWord(L, e, k, w) ==
    FoldLeft(LAMBDA M, c : AddStem(M, e, k, w, c), L, SelectSeq(Body(w.hinsi), LAMBDA c : Connects(e, k, c)))
Stems(L, e, k, j) ==
    FoldLeft(LAMBDA M, w : AddWord(M, e, k, w), L,
             SetToSeq({w \in e.y.jiri : w.i = e.fzk[k].offset /\ w.j = j /\ w.hindo # Param.deleted}))

\* Katakana up to eno, whatever eno is to the offset of the auxiliary words.
maxchg(e) == Cardinality(DOMAIN e.y.bun)
HiraAt(e, p) == IF p < maxchg(e) THEN e.y.bun[p] = "hira" ELSE p > maxchg(e) /\ e.past
Touten(e, p) == p < maxchg(e) /\ e.y.bun[p] = "touten"
KataSone(at, eno, bk) == Sone(at, (eno - at) * KATA_HYOUKA, <<>>, "KATAKANA", "giji", bk)
KataPhrase(L, e, k, at, eno) ==
    IF \/ ~HiraAt(e, at) /\ (at + 1 = eno \/ ~HiraAt(e, at + 1))
       \/ at = eno \/ Touten(e, at)
       \/ "giji" \notin e.fzk[k].vector \cup e.fzk[k].vector1
    THEN L
    ELSE find_jktsbn(L, e, KataSone(at, eno, "giji" \in e.fzk[k].vector), HinsiVect["giji"], eno - 1)
get_kata_kouho(L, e, k, eno) == KataPhrase(L, e, k, e.fzk[k].offset, eno)

jkt_sbn_one(L, e, eno) ==
    FoldLeft(LAMBDA M, k : get_kata_kouho(Stems(M, e, k, eno - 1), e, k, eno), L, [k \in DOMAIN e.fzk |-> k])

get_hira_kouho(L, e, eno) ==
    find_jktsbn(L, e, Sone(e.m, (eno - e.m) * HIRA_HYOUKA, <<>>, "HIRAGANA", "giji", FALSE),
                HinsiVect["giji"], eno - 1)

----------------------------------------------------------------------------
(* Pseudo phrases in all their forms. *)

NumForms == <<"NUM_HAN", "NUM_ZEN", "NUM_KAN", "NUM_KANSUUJI", "NUM_KANOLD", "NUM_ZENCAN", "NUM_HANCAN">>
\* What is grouped in thousands only when it is longer than three digits.
NumList(first, len) ==
    SelectSeq(SubSeq(NumForms, 1, IF len < 3 THEN 5 ELSE 7), LAMBDA f : f # first)

Both(first, wide, narrow) == <<first, IF first = wide THEN narrow ELSE wide>>
Forms(e, g) ==
    CASE g.hinsi = "suuji" ->
            <<Param.number>> \o NumList(Param.number,
                                        g.j_c - g.i_jc - (IF e.y.bun[g.j_c] = "space" THEN 1 ELSE 0))
      [] g.hinsi # "suuji" /\ e.y.bun[g.i_jc] \in Param.ascii ->
            IF g.hinsi = "eisuu" THEN Both(Param.eisuu, "ALP_ZEN", "ALP_HAN") ELSE Both(Param.kigou, "KIG_JIS", "KIG_HAN")
      [] OTHER -> <<"as it is">>
\* The others are a little worse, old numerals more so.
FormSone(g, form, first) ==
    Sone(g.i_jc, g.v_jc - (IF first THEN 0 ELSE 10) - (IF ~first /\ form = "NUM_KANOLD" THEN 2 ELSE 0),
         <<>>, form, g.hinsi, g.status_bkwd)
get_zen_giji(L, e, g) ==
    LET forms == Forms(e, g)
    IN  getjktsbn(L, e, 1, g.j_c, g.kangovect, [f \in DOMAIN forms |-> FormSone(g, forms[f], f = 1)])

Offered(g) == g.ok /\ g.hinsi \notin {"katakanago", "giji", "fuzokugo"}

----------------------------------------------------------------------------
(* Small phrases as long as the reading. *)

WholePseudo(e, g) == Offered(g) /\ g.j_c = maxchg(e) - 1
SyoOf(e, L, g) ==
    IF WholePseudo(e, g) THEN jkt_sbn_one(get_zen_giji(L, e, g), e, maxchg(e))
    ELSE get_hira_kouho(jkt_sbn_one(L, e, maxchg(e)), e, maxchg(e))
jkt_sbn(e) ==
    IF e.fzk = <<>> THEN [heap |-> <<>>, list |-> <<>>]
    ELSE SyoOf(e, [heap |-> <<>>, list |-> <<>>], getgiji(e.y, 0, maxchg(e), e.fzk, 1, FALSE))

----------------------------------------------------------------------------
(* Small phrases of every length, the shortest first. *)

\* Only of the stems behind the first auxiliary words.
j_max_bug(e) == Max({-1} \cup {w.j : w \in {u \in e.y.jiri : u.i = e.fzk[1].offset}})
j_max(e) == Max({-1} \cup {w.j : w \in {u \in e.y.jiri : \E k \in DOMAIN e.fzk : u.i = e.fzk[k].offset}})
KataWhole(L, e) ==
    FoldLeft(LAMBDA M, k : get_kata_kouho(M, e, k, maxchg(e)), L, [k \in DOMAIN e.fzk |-> k])

\* Down from the longest; the pseudo phrase in its place.
RECURSIVE ByLength(_, _, _, _)
ByLength(L, e, g, j) ==
    IF j < e.m THEN L
    ELSE ByLength(jkt_sbn_one(IF Offered(g) /\ g.j_c = j THEN get_zen_giji(L, e, g) ELSE L, e, j + 1), e, g, j - 1)
ZenFrom(L, e, g, j) == ByLength(IF Offered(g) /\ g.j_c > j THEN get_zen_giji(L, e, g) ELSE L, e, g, j)
Zen(L, e, first, j) ==
    ZenFrom(IF first /\ j < maxchg(e) - 1 THEN KataWhole(L, e) ELSE L, e,
            getgiji(e.y, e.m, maxchg(e), e.fzk, e.num, FALSE), j)
zen_sbn(h, e, first) ==
    IF e.fzk = <<>> THEN [heap |-> h, list |-> <<>>]
    ELSE Zen([heap |-> h, list |-> <<>>], e, first, j_max(e))

Search(y, m, v, v1, num, parent, past) ==
    [y |-> y, m |-> m, num |-> num, parent |-> parent, past |-> past,
     fzk |-> IF m = Cardinality(DOMAIN y.bun) \/ ~(fzk_ckvt(v) \/ fzk_ckvt(v1)) THEN <<>>
             ELSE fzk_kai(y, m, Cardinality(DOMAIN y.bun), v, v1)]

----------------------------------------------------------------------------
(* Large phrases: small ones are joined until the reading is used up.  D is  *)
(* the nodes, the queue and the last small phrases of what was found.        *)

\* The node is given back and its parent keeps the reference.
freejktsbn_bug(h, n) == IF h[n].reference <= 1 THEN Without(h, n) ELSE [h EXCEPT ![n].reference = @ - 1]
RECURSIVE freejktsbn(_, _)
freejktsbn(h, n) ==
    IF n = 0 THEN h
    ELSE IF h[n].reference <= 1 THEN freejktsbn(Without(h, n), h[n].parent)
    ELSE [h EXCEPT ![n].reference = @ - 1]

jkt_que_reorder(h, que, new) ==
    InOrder(ToSet(que) \cup ToSet(new), LAMBDA a, b : Before(h[a], h[b]) \/ (Same(h[a], h[b]) /\ a < b))
JoinMore(D, n, s) ==
    IF s.list = <<>> THEN [D EXCEPT !.heap = freejktsbn(@, n)]
    ELSE LET h == [s.heap EXCEPT ![n].reference = @ + Len(s.list)]
         IN  [D EXCEPT !.heap = h, !.que = jkt_que_reorder(h, D.que, s.list)]
\* One at the limit that is too short is forgotten.
OneMore(D, n, y, nmax, past) ==
    LET node == D.heap[n]
        more == node.j_c + 1 < Cardinality(DOMAIN y.bun)
    IN  CASE more /\ nmax > node.kbcnt ->
                JoinMore(D, n, zen_sbn(D.heap, Search(y, node.j_c + 1, node.kangovect, WNN_VECT_NO,
                                                      node.kbcnt + 1, n, past), FALSE))
          [] more /\ nmax <= node.kbcnt -> D
          [] OTHER -> [D EXCEPT !.dbn = Append(@, n)]
RECURSIVE jkt_loop(_, _, _, _)
jkt_loop(D, y, nmax, past) ==
    IF D.que = <<>> THEN D
    ELSE jkt_loop(OneMore([D EXCEPT !.que = Tail(@)], Head(D.que), y, nmax, past), y, nmax, past)

WithHira(D, e, pseudo) ==
    IF pseudo THEN D
    ELSE LET s == get_hira_kouho([heap |-> D.heap, list |-> <<>>], e, maxchg(e))
         IN  [D EXCEPT !.heap = s.heap, !.dbn = Append(@, s.list[1])]
DbnOf(e, s, nmax) ==
    IF s.list = <<>> THEN [heap |-> s.heap, que |-> <<>>, dbn |-> <<>>]
    ELSE WithHira(jkt_loop([heap |-> s.heap, que |-> s.list, dbn |-> <<>>], e.y, nmax, e.past), e,
              WholePseudo(e, getgiji(e.y, 0, maxchg(e), e.fzk, 1, FALSE)))
jkt_dbn(e, nmax) == DbnOf(e, zen_sbn(<<>>, e, TRUE), nmax)

----------------------------------------------------------------------------
(* dbn_set: a chain of nodes stands for all the ways to take one stem of     *)
(* each; row r of them has at each place the stem counted off by the rows    *)
(* that differ behind it.                                                    *)

RECURSIVE Chain(_, _)
Chain(h, n) == IF n = 0 THEN <<>> ELSE <<h[n]>> \o Chain(h, h[n].parent)
cnt(chain, from, to) == FoldLeft(LAMBDA a, k : a * Len(chain[k].sbn), 1, [k \in 1 .. to - from + 1 |-> from + k - 1])
\* The places from this one on.
cnt_par_bug(chain, c) == cnt(chain, c, Len(chain))
cnt_par(chain, c) == cnt(chain, c + 1, Len(chain))

Dsd_sbn(node, sone) ==
    [bend_m |-> node.bend_m, j_c |-> node.j_c, kangovect |-> node.kangovect, i_jc |-> sone.i_jc,
     word |-> sone.word, form |-> sone.form, hinsi |-> sone.hinsi, v_jc |-> sone.v_jc,
     status_bkwd |-> sone.status_bkwd, status |-> "none"]
Row(chain, r) ==
    [c \in DOMAIN chain |->
        Dsd_sbn(chain[c], chain[c].sbn[((r \div cnt_par(chain, c)) % Len(chain[c].sbn)) + 1])]
Rows(chain) == [r \in 1 .. cnt(chain, 1, Len(chain)) |-> Row(chain, r - 1)]
dbn_set(D) == FlattenSeq([k \in DOMAIN D.dbn |-> Rows(Chain(D.heap, D.dbn[k]))])

SumV(row) == FoldLeft(LAMBDA a, s : a + s.v_jc, 0, row)
dsd_hyouka(row) == hyoka_dbn(SumV(row), Len(row), row[1].j_c + 1)
Dai(row, g) == [v_jc |-> DIVID_HYOUKA(dsd_hyouka(row), g.divid), sbn |-> [row EXCEPT ![1].status = g.status]]
Syo(s, g) ==
    [v_jc |-> DIVID_HYOUKA(s.v_jc, g.divid),
     sbn |-> <<[s EXCEPT !.status = IF s.word = <<>> /\ g.status = "NOT_CONNECT" THEN "GIJI" ELSE g.status]>>]

\* The best first; equal ones in any order.
Sorted(rows) ==
    LET order == InOrder(DOMAIN rows, LAMBDA a, b : rows[a].v_jc > rows[b].v_jc \/ (rows[a].v_jc = rows[b].v_jc /\ a < b))
    IN  [k \in DOMAIN rows |-> rows[order[k]]]
DaiList(rows) == Sorted([k \in DOMAIN rows |-> Dai(rows[k], get_status(rows[k][1].kangovect, call.beginvect, 0))])
SyoRows(L) ==
    FlattenSeq([k \in DOMAIN L.list |->
        [s \in DOMAIN L.heap[L.list[k]].sbn |-> Dsd_sbn(L.heap[L.list[k]], L.heap[L.list[k]].sbn[s])]])
SyoList(rows) == Sorted([k \in DOMAIN rows |-> Syo(rows[k], get_status(rows[k].kangovect, call.beginvect, 0))])

free_all(h, ns) == FoldLeft(LAMBDA g, n : freejktsbn(g, n), h, ns)

----------------------------------------------------------------------------
CInit == Init /\ jkt = <<>> /\ kouho = <<>>

\* Without a candidate the answer is empty, or an error if no list was ever made.
Listed(list, h) ==
    /\ kouho' = list /\ jkt' = h
    /\ \/ pc' = "listed"
       \/ list = <<>> /\ pc' = "refused"
    /\ UNCHANGED <<yomi, call, heap, dai, rbzd, decided, dicidyno, rtmknode, rounds, dsd>>

First(past) == Search(yomi, 0, call.endvect, call.endvect1, 1, 0, past)

jkt_get_syo ==
    /\ begin("jkt_get_syo")
    /\ \E L \in {jkt_sbn(First(FALSE))} : Listed(SyoList(SyoRows(L)), free_all(L.heap, L.list))

jkt_get_dai ==
    /\ begin("jkt_get_dai")
    /\ \E past \in BOOLEAN : \E D \in {jkt_dbn(First(past), call.kaisbno)} :
          Listed(DaiList(dbn_set(D)), free_all(D.heap, D.dbn))

CNext == (Next /\ UNCHANGED <<jkt, kouho>>) \/ jkt_get_syo \/ jkt_get_dai
CSpec == CInit /\ [][CNext]_cvars

----------------------------------------------------------------------------
\* Two components of a stem's part of speech lead to the vector it was found by.
Ambiguous(s) ==
    \E i, j \in DOMAIN Body(s.hinsi) :
        i # j /\ HinsiVect[Body(s.hinsi)[i]] = s.kangovect /\ HinsiVect[Body(s.hinsi)[j]] = s.kangovect

\* get_kata_kouho does not look whether the auxiliary words are longer than the phrase.
Beyond(s) == s.form = "KATAKANA" /\ s.i_jc > s.j_c + 1

(***************************************************************************)
(* Every candidate spells the reading: its small phrases follow each other *)
(* from the end to the beginning and each may be joined to the one it      *)
(* follows, and no candidate is listed twice, although all nodes share     *)
(* their parents and dbn_set fills the rows column by column (jkt_dbn,     *)
(* zen_sbn, dbn_set).  One kind does not: katakana that begins behind the  *)
(* end of its phrase (jikouho.c:274-296 from jikouho.c:244).  And a word   *)
(* of a compound part of speech is put into a node once for each component *)
(* that leads there (jikouho.c:183-239), so that with two of one vector    *)
(* the same candidate may be listed again.                                 *)
(***************************************************************************)
Spelled(p) ==
    /\ p[Len(p)].bend_m = 0 /\ p[1].j_c = yomi_eno - 1
    /\ \A i \in DOMAIN p :
          /\ p[i].bend_m <= p[i].i_jc
          /\ p[i].i_jc <= p[i].j_c + 1 \/ Beyond(p[i])
          /\ i < Len(p) => p[i].bend_m = p[i + 1].j_c + 1 /\ Joined(p[i + 1], p[i])
CandidatesSpell ==
    /\ \A k \in DOMAIN kouho : Spelled(kouho[k].sbn)
    /\ LET once == {k \in DOMAIN kouho : \A i \in DOMAIN kouho[k].sbn : ~Ambiguous(kouho[k].sbn[i])}
       IN  Cardinality({kouho[k].sbn : k \in once}) = Cardinality(once)

(***************************************************************************)
(* A small phrase of the candidates is given back when the last candidate  *)
(* that uses it is copied.  What is lost until the areas are set up again  *)
(* are small phrases at the limit nmax of the environment that are too     *)
(* short, and what they continue: jkt_dbn forgets them                     *)
(* (jikouho_d.c:202-236, freejktsbn).                                      *)
(***************************************************************************)
LostOnlyAtTheLimit ==
    \A n \in DOMAIN jkt :
        /\ jkt[n].reference = Cardinality({c \in DOMAIN jkt : jkt[c].parent = n})
        /\ jkt[n].reference = 0 => jkt[n].kbcnt = call.kaisbno /\ jkt[n].j_c + 1 < yomi_eno

(***************************************************************************)
(* What conversion answers is among the candidates: the phrases of words   *)
(* tan_dai and tan_syo find for the same call, with their own grammar,     *)
(* queue and pruning, are in the list of jkt_get_dai and jkt_get_syo, so   *)
(* that a user who asks for other candidates can come back to the first    *)
(* (renbn_kai.c, bnsetu_kai.c; jikouho.c, jikouho_d.c).                    *)
(***************************************************************************)
Offers(nodes) ==
    (\A i \in DOMAIN nodes : nodes[i].hinsi \notin Pseudo) =>
        \E k \in DOMAIN kouho :
            /\ Len(kouho[k].sbn) = Len(nodes)
            /\ \A i \in DOMAIN nodes :
                  \A f \in {"bend_m", "i_jc", "j_c", "hinsi"} : kouho[k].sbn[i][f] = nodes[i][f]
SyoFound ==
    \E a \in {Champion(sbn_kai(<<>>, yomi, 0, yomi_eno, call.endvect, call.endvect1, 1, 0))} :
        a.max = 0 \/ Offers(<<a.heap[a.max]>>)
DaiFound ==
    \E d \in {dbn_kai(<<>>, 0, yomi, 0, yomi_eno, call.beginvect, call.endvect, call.endvect1, call.kaisbno)} :
        \A k \in DOMAIN d.bzds : Whole(d.bzds[k].j_c) => Offers(dcdsbn_set(d.heap, d.bzds[k].sbn))
AnswerIsCandidate ==
    pc = "listed" => (call.op = "jkt_get_syo" => SyoFound) /\ (call.op = "jkt_get_dai" => DaiFound)

(* The list has the candidates it should: they spell the reading, once each,  *)
(* and what conversion answers is one of them.                                *)
CandidatesRight == CandidatesSpell /\ AnswerIsCandidate
=============================================================================
