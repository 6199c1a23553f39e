------------------------------ MODULE Phrases ------------------------------
(***************************************************************************)
(* Small phrases (syo-bunsetsu) of a reading: sbn_kai and getgiji of       *)
(* src/Wnn/jserver/bnsetu_kai.c with the analysis of auxiliary words of    *)
(* fzk.c, and the counted nodes of mknode1.c they are kept in.             *)
(*                                                                         *)
(* The reading is stored from its end, so that a phrase is auxiliary words *)
(* (bend_m .. i_jc - 1) followed by a stem (i_jc .. j_c).  A vector is a   *)
(* number, Area its set of parts of speech and auxiliary words.  A reading *)
(* is a record: bun, the class of each character; jiri, the stems the      *)
(* dictionaries have in it; fzk, the auxiliary words.                      *)
(***************************************************************************)
EXTENDS Integers, SequencesExt, FiniteSetsExt

CONSTANTS
    Hinsi,      \* simple parts of speech
    Fukugou,    \* compound part of speech -> the simple ones it stands for
    Area,       \* vector -> what it connects to (kango_vect_area)
    HinsiVect,  \* simple part of speech -> its vector (kango_hinsi_area)
    Param       \* the parameters of the environment

WNN_VECT_NO == -1

\* S in the order of a strict total order on it.
InOrder(S, before(_, _)) ==
    [k \in 1 .. Cardinality(S) |-> CHOOSE x \in S : Cardinality({y \in S : before(y, x)}) = k - 1]

\* C's division of integers.
CDiv(a, b) == IF a >= 0 THEN a \div b ELSE -((-a) \div b)
DIVID(val, div) == IF val > 0 THEN val \div div ELSE val * div

\* The value of a stem: what frequency, "recent" bit and dictionary add is one number.
hyoka1(hindo, len, bunlen) == hindo + Param.jiri * len + Param.len * bunlen

\* wnn_get_fukugou_component_body: the simple parts of speech a word is tried as, one after the other.
Body(h) == IF h \in Hinsi THEN <<h>> ELSE Fukugou[h]
Components(h) == ToSet(Body(h))

kan_ckvt(hinsi, v) == hinsi \in Area[v]
VectOf(v) == IF v = WNN_VECT_NO THEN {} ELSE Area[v]
fzk_ckvt(v) == VectOf(v) \ {"sentou"} # {}

(***************************************************************************)
(* The offsets auxiliary words from m on may end at, with the vectors that *)
(* are then open for the end vectors v and v1.                             *)
(***************************************************************************)
fzk_ken(y, m, p) == {f \in y.fzk : f.at \in m .. p - 1 /\ f.at + f.len = p}
fzkwk(y, m, eno, vect) ==
    LET wk[p \in m .. eno] ==
          IF p = m THEN vect ELSE UNION {f.vector : f \in {g \in fzk_ken(y, m, p) : g.no \in wk[g.at]}}
    IN  wk

Offsets(wk, wk1) == {p \in DOMAIN wk : (wk[p] \cup wk1[p]) \cap Hinsi # {}}
FzkOf(wk, wk1, at) ==
    [k \in DOMAIN at |-> [offset |-> at[k], vector |-> wk[at[k]], vector1 |-> wk1[at[k]]]]
Analysis(wk, wk1) == FzkOf(wk, wk1, InOrder(Offsets(wk, wk1), <))
fzk_kai(y, m, eno, v, v1) ==
    Analysis(fzkwk(y, m, eno, VectOf(v)), fzkwk(y, m, eno, VectOf(v1)))

----------------------------------------------------------------------------
(* Pseudo phrases, for what is no hiragana. *)

is_g_eisuu(c) == c \in {"digit", "alpha"}
RunOf(y, from, eno, P(_)) ==
    CHOOSE n \in 0 .. eno - from :
        /\ \A k \in 0 .. n - 1 : P(y.bun[from + k])
        /\ from + n < eno => ~P(y.bun[from + n])

Classify(c) ==
    CASE c = "digit" -> "suuji"
      [] c = "close" -> "toji_kakko"
      [] c = "kata"  -> "katakanago"
      [] c = "alpha" -> "eisuu"
      [] c = "open"  -> "kai_kakko"
      [] OTHER       -> "kigou"

\* The little by which one in ASCII is raised is left out of its value.
Giji(m, at, len, hinsi, val, bkwd) ==
    [ok |-> TRUE, j_c |-> at + len - 1, i_jc |-> at, hinsi |-> hinsi, kangovect |-> HinsiVect[hinsi],
     v_jc |-> hyoka1(Param.hindo * val, len, len + at - m), status_bkwd |-> bkwd]
NoGiji(bkwd) == [ok |-> FALSE, status_bkwd |-> bkwd]

\* Where the spaces before it end, which belong to it unless kana follows them.
IsSpace(c) == c = "space"
IsDigit(c) == c = "digit"
IsKata(c) == c = "kata"
Skipped(y, eno, last) == last.offset + RunOf(y, last.offset, eno, IsSpace)

GijiLen(y, at, eno, hinsi) ==
    CASE hinsi = "eisuu"      -> RunOf(y, at, eno, is_g_eisuu)
      [] hinsi = "suuji"      -> RunOf(y, at, eno, IsDigit)
      [] hinsi = "katakanago" -> RunOf(y, at, eno, IsKata)
      [] OTHER                -> 1
WithSpaces(y, at, eno, hinsi, len) ==
    IF hinsi \in {"eisuu", "suuji"} THEN len + RunOf(y, at + len, eno, IsSpace) ELSE len

\* At at, of the part of speech hinsi; digits mixed with letters are eisuu, with the value of suuji.
GijiAs(y, m, eno, last, num, at, hinsi) ==
    LET mixed == hinsi = "suuji" /\ GijiLen(y, at, eno, "eisuu") > GijiLen(y, at, eno, "suuji")
        connects == Classify(y.bun[at]) \in last.vector
        as == IF mixed THEN "eisuu" ELSE hinsi
    IN  IF mixed /\ "eisuu" \notin last.vector /\ (num # 1 \/ "eisuu" \in last.vector1)
        THEN NoGiji(connects)
        ELSE Giji(m, at, WithSpaces(y, at, eno, as, GijiLen(y, at, eno, as)), as, Param.val[hinsi], connects)

GijiAt(y, m, eno, last, num, at, class) ==
    IF class \in last.vector THEN GijiAs(y, m, eno, last, num, at, class)
    ELSE IF num = 1 /\ class \in last.vector1 THEN GijiAs(y, m, eno, last, num, at, class)
    ELSE IF num = 1 /\ class = "suuji" /\ "eisuu" \in last.vector1 THEN GijiAs(y, m, eno, last, num, at, "eisuu")
    ELSE NoGiji(FALSE)

GijiAfter(y, m, eno, last, num, bkwd, skipped) ==
    IF last.offset >= eno THEN Giji(m, last.offset, 0, "fuzokugo", Param.val["fuzokugo"], bkwd)
    ELSE IF y.bun[last.offset] = "hira" THEN NoGiji(bkwd)
    ELSE IF skipped >= eno THEN Giji(m, eno, 0, "fuzokugo", Param.val["fuzokugo"], bkwd)
    ELSE LET at == IF y.bun[skipped] \in {"kata", "hira"} THEN last.offset ELSE skipped
         IN  GijiAt(y, m, eno, last, num, at, Classify(y.bun[at]))

\* The pseudo phrase behind the last auxiliary words of fzk.  bkwd is what the node's status_bkwd was.
getgiji(y, m, eno, fzk, num, bkwd) ==
    GijiAfter(y, m, eno, Last(fzk), num, bkwd, Skipped(y, eno, Last(fzk)))

\* One character, when there is nothing else.
getgiji_f(m, bkwd) ==
    [ok |-> TRUE, j_c |-> m, i_jc |-> m, hinsi |-> "giji", kangovect |-> HinsiVect["kigou"],
     v_jc |-> hyoka1(0, 1, 1), status_bkwd |-> bkwd]

----------------------------------------------------------------------------
(* The nodes: a function from the addresses in use. *)

Without(heap, n) == [k \in DOMAIN heap \ {n} |-> heap[k]]
freesbn(heap, n) ==
    IF heap[n].reference <= 1 THEN Without(heap, n)
    ELSE [heap EXCEPT ![n].reference = @ - 1]

\* The parent keeps the reference of a node that is gone.
clr_sbn_node_bug(heap, n) == IF n = 0 THEN heap ELSE freesbn(heap, n)
RECURSIVE clr_sbn_node(_, _)
clr_sbn_node(heap, n) ==
    IF n = 0 THEN heap
    ELSE IF heap[n].reference <= 1 THEN clr_sbn_node(freesbn(heap, n), heap[n].parent)
    ELSE [heap EXCEPT ![n].reference = @ - 1]

clr_sbn_nodes(heap, ns) == FoldSeq(LAMBDA n, h : clr_sbn_node(h, n), heap, ns)

\* getsbnsp for each of cands: the nodes and the heap with them.
getsbnsp(heap, cands, m, num, parent) ==
    LET free(k) == InOrder((1 .. Cardinality(DOMAIN heap) + Len(cands)) \ DOMAIN heap, <)[k]
        ids == [k \in DOMAIN cands |-> free(k)]
        node(c) == [j_c |-> c.j_c, i_jc |-> c.i_jc, bend_m |-> m, hinsi |-> c.hinsi,
                    kangovect |-> c.kangovect, v_jc |-> c.v_jc, kbcnt |-> num, parent |-> parent,
                    son_v |-> 0, reference |-> 0, status |-> "none", status_bkwd |-> c.status_bkwd]
        of(n) == node(cands[CHOOSE k \in DOMAIN ids : ids[k] = n])
    IN  [heap |-> [n \in DOMAIN heap \cup ToSet(ids) |-> IF n \in DOMAIN heap THEN heap[n] ELSE of(n)],
         list |-> ids]

----------------------------------------------------------------------------
(* The stems behind the auxiliary words fzk, as candidates. *)
(* A word is one candidate for each component that connects.               *)
Kango(y, m, fzk, num, halved) ==
    LET words(k) == {w \in y.jiri : w.i = fzk[k].offset /\ w.hindo # Param.deleted}
        open(k) == fzk[k].vector \cup (IF num = 1 THEN fzk[k].vector1 ELSE {})
        cand(k, w, c) ==
          LET bk == c \in fzk[k].vector
              v  == hyoka1(w.hindo, w.j - w.i + 1, w.j - m + 1)
          IN  [ok |-> TRUE, j_c |-> w.j, i_jc |-> w.i, hinsi |-> w.hinsi, kangovect |-> HinsiVect[c],
               v_jc |-> IF (num = 1 /\ ~bk) \/ (num # 1 /\ halved) THEN DIVID(v, 2) ELSE v,
               status_bkwd |-> bk]
    IN  UNION {{cand(k, w, c) : c \in Components(w.hinsi) \cap open(k)} :
               <<k, w>> \in UNION {{k} \X words(k) : k \in DOMAIN fzk}}

\* Of two candidates of one length and vector the better one stays; of two equal ones the first,
\* which is any where only the order of the dictionaries tells.
Beats(a, b, giji) ==
    \/ a.v_jc > b.v_jc
    \/ a.v_jc = b.v_jc /\ (a = giji \/ (b # giji /\ a.i_jc < b.i_jc))
Before(a, b) == a.j_c < b.j_c \/ (a.j_c = b.j_c /\ a.kangovect < b.kangovect)
Same(a, b) == a.j_c = b.j_c /\ a.kangovect = b.kangovect

BestOfClass(class, giji) == CHOOSE c \in class : \A d \in class \ {c} : ~Beats(d, c, giji)
Best(all, giji) == {BestOfClass({d \in all : Same(c, d)}, giji) : c \in all}

\* Without a stem: the auxiliary words that katakana may follow are tried, then one character.
Forced(m, num, giji) ==
    IF giji.ok THEN <<giji>> ELSE IF num = 1 THEN <<getgiji_f(m, giji.status_bkwd)>> ELSE <<>>
KataAfter(fzk) == {k \in DOMAIN fzk : "katakanago" \in fzk[k].vector}
NoStem(y, m, eno, fzk, num, giji) ==
    IF KataAfter(fzk) = {} THEN Forced(m, num, giji)
    ELSE Forced(m, num, getgiji(y, m, eno, SubSeq(fzk, 1, Max(KataAfter(fzk))), num, giji.status_bkwd))

StemsOrGiji(y, m, eno, fzk, num, kango, giji) ==
    IF kango = {} /\ ~giji.ok THEN NoStem(y, m, eno, fzk, num, giji)
    ELSE InOrder(Best(kango \cup {g \in {giji} : g.ok}, giji), Before)

SbnsAfter(heap, y, m, eno, fzk, num, parent) ==
    IF fzk = <<>> THEN [heap |-> heap, list |-> <<>>]
    ELSE getsbnsp(heap, StemsOrGiji(y, m, eno, fzk, num,
                                    Kango(y, m, fzk, num, parent # 0 /\ ~heap[parent].status_bkwd),
                                    getgiji(y, m, eno, fzk, num, FALSE)), m, num, parent)

\* The small phrases that begin at m, the shortest first, as new nodes.
sbn_kai(heap, y, m, eno, v, v1, num, parent) ==
    IF m = eno \/ ~(fzk_ckvt(v) \/ fzk_ckvt(v1)) THEN [heap |-> heap, list |-> <<>>]
    ELSE SbnsAfter(heap, y, m, eno, fzk_kai(y, m, eno, v, v1), num, parent)
=============================================================================
