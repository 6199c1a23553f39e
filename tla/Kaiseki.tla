------------------------------ MODULE Kaiseki ------------------------------
(***************************************************************************)
(* Conversion of a reading: renbn_kai, tan_dai and tan_syo of              *)
(* src/Wnn/jserver/renbn_kai.c with dbn_kai (daibn_kai.c) and mknode       *)
(* (mknode0.c).                                                            *)
(*                                                                         *)
(* A large phrase (struct BZD) is a chain of small ones, held by its last; *)
(* a list of large phrases of different lengths that begin at one place is *)
(* a sequence (lnk_br), each with the list of what may follow it in son    *)
(* (lnk_son).  The steps are the rounds of renbn_kai's loops.              *)
(***************************************************************************)
EXTENDS Phrases

CONSTANTS
    Yomis,       \* readings to convert
    Calls        \* calls: op, beginvect, endvect, endvect1, endvect2, kaidbno, kaisbno

VARIABLES
    yomi, call,  \* the reading and the call
    pc,          \* "idle", "loop" in renbn_kai, "done", "refused"; "listed" in Candidates
    heap,        \* nodes of small phrases in use
    dai,         \* _status of daibn_kai.c
    rbzd,        \* the list to decide on
    decided,     \* large phrases decided on
    dicidyno,    \* where the last of them ends
    rtmknode,    \* the answer of the last mknode
    rounds,      \* rounds of mknode for this decision
    dsd          \* the result
vars == <<yomi, call, pc, heap, dai, rbzd, decided, dicidyno, rtmknode, rounds, dsd>>

\* Below every value and thrice every value that occurs.
MININT == -1000000
yomi_eno == Cardinality(DOMAIN yomi.bun)

hyoka_dbn(son_v, cnt, len) == CDiv(Param.sbn * son_v, cnt) + Param.sbn_cnt * cnt + Param.dbn_len * len
DIVID_HYOUKA(hyouka, divid) ==
    CASE divid = 0 -> hyouka [] divid > 0 -> 2 * hyouka [] OTHER -> hyouka \div 2

----------------------------------------------------------------------------
(* The front end of the sentence: beginvect is -2 for anything, -1 for the  *)
(* head of a phrase, or a part of speech.                                    *)

WNN_BUN_SENTOU == "-1"
WNN_ALL_HINSI == "-2"

zentan_able(v, hinsi) ==
    CASE hinsi = WNN_ALL_HINSI  -> TRUE
      [] hinsi = WNN_BUN_SENTOU -> kan_ckvt("sentou", v)
      [] OTHER                  -> \E c \in Components(hinsi) : kan_ckvt(c, v)

\* What get_status finds: the status of the phrase, divid, and the new value of _status.
get_status(v, beginvect, st) ==
    LET sentou == kan_ckvt("sentou", v)
        able == zentan_able(v, beginvect)
        as(status, divid, s) == [status |-> status, divid |-> divid, dai |-> s]
    IN  CASE able /\ beginvect = WNN_ALL_HINSI /\ sentou  -> as("SENTOU", 0, 2)
          [] able /\ beginvect = WNN_ALL_HINSI /\ ~sentou -> as("NOT_CONNECT", -1, 2)
          [] able /\ beginvect \in {WNN_BUN_SENTOU, "sentou"} -> as("SENTOU", 0, 2)
          [] able /\ beginvect \notin {WNN_ALL_HINSI, WNN_BUN_SENTOU, "sentou"} -> as("CONNECT", 1, 2)
          [] ~able /\ st < 2 /\ sentou -> as("SENTOU", 0, 1)
          [] OTHER -> as("NOT_CONNECT", -1, st)

----------------------------------------------------------------------------
(* dbn_kai: D is its state, with the queue que of small phrases, the list   *)
(* bzds found so far, and the best values of large and small phrases.        *)

sum_hyouka(h, n) == h[n].v_jc + (IF h[n].parent = 0 THEN 0 ELSE h[h[n].parent].son_v)
Summed(h, ns) == [n \in DOMAIN h |-> IF n \in ToSet(ns) THEN [h[n] EXCEPT !.son_v = sum_hyouka(h, n)] ELSE h[n]]
ave_hyouka(h, n, m) == hyoka_dbn(h[n].son_v, h[n].kbcnt, h[n].j_c - m + 1)

BZD(h, n, m, hyouka) ==
    [j_c |-> h[n].j_c, bend_m |-> m, v_jc |-> hyouka, sbn_cnt |-> h[n].kbcnt, sbn |-> n,
     kbcnt |-> 1, son_v |-> 0, son |-> <<>>]

Rate(D, m, n, divid) == DIVID_HYOUKA(ave_hyouka(D.heap, n, m), divid)
SetBzd(D, m, n, hyouka, top) ==
    LET bzd == BZD(D.heap, n, m, hyouka)
        same == D.bzds # <<>> /\ Last(D.bzds).j_c = D.heap[n].j_c
        held == [D.heap EXCEPT ![n].reference = @ + 1]
    IN  IF same /\ Last(D.bzds).v_jc >= hyouka THEN [D EXCEPT !.set = FALSE, !.top = top]
        ELSE IF same THEN [D EXCEPT !.set = TRUE, !.top = top, !.bzds = Append(Front(@), bzd),
                                    !.heap = clr_sbn_node(held, Last(D.bzds).sbn)]
        ELSE [D EXCEPT !.set = TRUE, !.top = top, !.bzds = Append(@, bzd), !.heap = held]
set_daibnsetu(D, m, n, hyouka) ==
    IF hyouka <= D.top /\ hyouka < DIVID(D.top, 2) THEN [D EXCEPT !.set = FALSE]
    ELSE SetBzd(D, m, n, hyouka, IF hyouka > D.top THEN hyouka ELSE D.top)

\* Both lists sorted by length and vector: of two small phrases with the same the better stays.
Beaten(h, m, que, new) ==
    {q \in ToSet(que) : \E n \in ToSet(new) : Same(h[q], h[n]) /\ ave_hyouka(h, n, m) > ave_hyouka(h, q, m)}
Lost(h, que, new, beaten) ==
    beaten \cup {n \in ToSet(new) : \E q \in ToSet(que) \ beaten : Same(h[q], h[n])}
Merge(h, que, new, lost) ==
    LET order(a, b) == Before(h[a], h[b])
    IN  [que |-> InOrder((ToSet(que) \cup ToSet(new)) \ lost, order), heap |-> clr_sbn_nodes(h, InOrder(lost, <))]
que_reorder(h, m, que, new) == Merge(h, que, new, Lost(h, que, new, Beaten(h, m, que, new)))

OrDrop(D, n) == IF D.set THEN D ELSE [D EXCEPT !.heap = clr_sbn_node(@, n)]

\* A small phrase that reaches the end of the reading.
Poorer(D, n, beginvect, status) ==
    /\ beginvect # WNN_ALL_HINSI /\ D.bzds # <<>> /\ Last(D.bzds).j_c = D.heap[n].j_c
    /\ status \in {"SENTOU", "CONNECT"} /\ D.heap[Last(D.bzds).sbn].status # status
Connected(D, n, beginvect, g) ==
    [D EXCEPT !.dai = g.dai, !.heap[n].status = g.status,
              !.bzds = IF Poorer(D, n, beginvect, g.status)
                       THEN Append(Front(@), [Last(@) EXCEPT !.v_jc = 0]) ELSE @]
AtEnd(D, m, n, beginvect, g) ==
    OrDrop(set_daibnsetu(Connected(D, n, beginvect, g), m, n, Rate(D, m, n, g.divid)), n)

\* One that does not: it is a large phrase itself, and others may join it.
Join(D, m, n, h, new) ==
    IF D.que = <<>> THEN [D EXCEPT !.que = new, !.heap = h]
    ELSE LET q == que_reorder(h, m, D.que, new) IN [D EXCEPT !.que = q.que, !.heap = q.heap]
Joining(D, m, n, s) ==
    IF s.list = <<>> THEN OrDrop(D, n)
    ELSE Join(D, m, n, Summed([s.heap EXCEPT ![n].reference = @ + Len(s.list)], s.list), s.list)
Grow(D, y, m, eno, n, node, nmax) ==
    IF nmax > node.kbcnt /\ DIVID(D.top_sbn, 3) < node.son_v
    THEN Joining([D EXCEPT !.top_sbn = IF @ < node.son_v THEN node.son_v ELSE @], m, n,
                 sbn_kai(D.heap, y, node.j_c + 1, eno, node.kangovect, WNN_VECT_NO, node.kbcnt + 1, n))
    ELSE OrDrop(D, n)
Within(D, y, m, eno, n, nmax, sentou) ==
    Grow(set_daibnsetu([D EXCEPT !.heap[n].status = IF sentou THEN "SENTOU" ELSE "GIJI"], m, n,
                       Rate(D, m, n, IF sentou THEN 0 ELSE -1)),
         y, m, eno, n, D.heap[n], nmax)

One(D, y, m, eno, beginvect, nmax, n) ==
    IF eno <= D.heap[n].j_c + 1 THEN AtEnd(D, m, n, beginvect, get_status(D.heap[n].kangovect, beginvect, D.dai))
    ELSE Within(D, y, m, eno, n, nmax, kan_ckvt("sentou", D.heap[n].kangovect))
RECURSIVE dbn_loop(_, _, _, _, _, _)
dbn_loop(D, y, m, eno, beginvect, nmax) ==
    IF D.que = <<>> THEN D
    ELSE dbn_loop(One([D EXCEPT !.que = Tail(@), !.heap = Summed(@, <<Head(D.que)>>)],
                      y, m, eno, beginvect, nmax, Head(D.que)),
                  y, m, eno, beginvect, nmax)

\* The poor ones at the front go, then those behind a good one; the one behind such is not looked at.
RECURSIVE Kept(_, _)
Kept(bzds, least) ==
    IF Len(bzds) <= 1 THEN bzds
    ELSE IF bzds[2].v_jc < least THEN <<bzds[1]>> \o Kept(SubSeq(bzds, 3, Len(bzds)), least)
    ELSE <<bzds[1]>> \o Kept(Tail(bzds), least)
Pruned(bzds, least) ==
    LET good == {k \in DOMAIN bzds : bzds[k].v_jc >= least}
    IN  IF good = {} THEN <<>> ELSE Kept(SubSeq(bzds, Min(good), Len(bzds)), least)

SbnsOf(bzds) == [k \in DOMAIN bzds |-> bzds[k].sbn]

Found(D, kept) ==
    [heap |-> clr_sbn_nodes(D.heap, SbnsOf(SelectSeq(D.bzds, LAMBDA b : b \notin ToSet(kept)))),
     dai |-> D.dai, bzds |-> kept]
Prune(D) == Found(D, Pruned(D.bzds, DIVID(D.top, 2)))
Queue(s, st) ==
    [heap |-> Summed(s.heap, s.list), dai |-> st, que |-> s.list, bzds |-> <<>>,
     top |-> MININT, top_sbn |-> MININT, set |-> FALSE]
dbn_kai(h, st, y, m, eno, beginvect, v, v1, nmax) ==
    Prune(dbn_loop(Queue(sbn_kai(h, y, m, eno, v, v1, 1, 0), st), y, m, eno, beginvect, nmax))

----------------------------------------------------------------------------
(* mknode: one more level of large phrases below ptr, unless a branch has    *)
(* reached the end of the reading.  A is the heap and _status with the       *)
(* answer; in a fold over brothers also the brothers done, flg and keep_v.   *)

Sons(ptr, B) ==
    [heap |-> B.heap, dai |-> B.dai, ret |-> B.flg,
     ptr |-> [ptr EXCEPT !.son = B.done, !.son_v = IF B.keep_v # 0 THEN B.keep_v + ptr.v_jc ELSE @]]
NewSons(ptr, new) ==
    [heap |-> new.heap, dai |-> new.dai, ret |-> 1,
     ptr |-> [ptr EXCEPT !.son = new.bzds,
                         !.son_v = Max({0} \cup {new.bzds[k].v_jc : k \in DOMAIN new.bzds}) + ptr.v_jc]]
Weigh(B, r) ==
    LET b == r.ptr
        larger == IF b.son_v > B.keep_v THEN b.son_v ELSE B.keep_v
        one == [b EXCEPT !.kbcnt = @ + 1, !.son_v = CDiv(@, b.kbcnt + 1)]
        end == [b EXCEPT !.son_v = @ + b.v_jc]
        C == [B EXCEPT !.heap = r.heap, !.dai = r.dai]
    IN  CASE r.ret = 1 /\ B.flg = 1 -> [C EXCEPT !.done = Append(@, one), !.keep_v = larger]
          [] r.ret = 1 /\ B.flg = 0 -> [C EXCEPT !.done = Append(@, b)]
          [] r.ret = 0 /\ B.flg = 1 -> [C EXCEPT !.done = Append(@, end), !.keep_v = b.son_v, !.flg = 0]
          [] r.ret = 0 /\ B.flg = 0 -> [C EXCEPT !.done = Append(@, end), !.keep_v = larger]
\* The end of the reading is not told.
NoSons_bug(A, ptr, env) == [heap |-> A.heap, dai |-> A.dai, ret |-> 1, ptr |-> ptr]
NoSons(A, ptr, env) ==
    [heap |-> A.heap, dai |-> A.dai, ret |-> IF ptr.j_c + 1 < env.eno THEN 1 ELSE 0, ptr |-> ptr]
RECURSIVE mknd_sub(_, _, _, _), Brothers(_, _, _, _)
mknd_sub(A, ptr, flg, env) ==
    IF ptr.son # <<>>
    THEN Sons(ptr, Brothers([heap |-> A.heap, dai |-> A.dai, done |-> <<>>, flg |-> flg, keep_v |-> 0], ptr.son, 1, env))
    ELSE IF ptr.j_c + 1 < env.eno /\ flg = 1
    THEN NewSons(ptr, dbn_kai(A.heap, A.dai, env.y, ptr.j_c + 1, env.eno, env.c.beginvect, env.c.endvect2,
                              WNN_VECT_NO, env.c.kaisbno))
    ELSE NoSons(A, ptr, env)
Brothers(B, sons, k, env) ==
    IF k > Len(sons) THEN B
    ELSE Brothers(Weigh(B, mknd_sub(B, sons[k], B.flg, env)), sons, k + 1, env)

Counted(r) == IF r.ret = 1 THEN [r EXCEPT !.ptr.kbcnt = @ + 1] ELSE r
mknode(A, ptr, env) == Counted(mknd_sub(A, ptr, 1, env))

\* clr_node: what a large phrase and all that may follow it hold is given back.
RECURSIVE SbnsBelow(_)
SbnsBelow(bzds) == FlattenSeq([k \in DOMAIN bzds |-> <<bzds[k].sbn>> \o SbnsBelow(bzds[k].son)])
\* Without what follows.
clr_node_bug(h, bzds) == clr_sbn_nodes(h, SbnsOf(bzds))
clr_node(h, bzds) == clr_sbn_nodes(h, SbnsBelow(bzds))

----------------------------------------------------------------------------
(* The result: dcdbn_set turns the chain round, and gives it back. *)

RECURSIVE dcdsbn_set(_, _)
dcdsbn_set(h, n) == IF n = 0 THEN <<>> ELSE <<h[n]>> \o dcdsbn_set(h, h[n].parent)
Dsd(h, bzd) ==
    [bun_m |-> bzd.bend_m, bun_jc |-> bzd.j_c, sbncnt |-> bzd.sbn_cnt, sbn |-> dcdsbn_set(h, bzd.sbn)]
dcdbn_set(h, bzds) ==
    [dsd |-> Reverse([k \in DOMAIN bzds |-> Dsd(h, bzds[k])]), heap |-> clr_sbn_nodes(h, SbnsOf(bzds))]

chk_yomi_endvect(m, eno, c) == m # eno /\ (fzk_ckvt(c.endvect) \/ fzk_ckvt(c.endvect1))

\* Katakana for the rest of the reading: the node has no reference, its large phrase counts for one.
GijiAllowed(fzk, open) == {k \in DOMAIN fzk : "giji" \in fzk[k][open]}
KataNode(eno, at, bkwd) ==
    [j_c |-> eno - 1, i_jc |-> at, hinsi |-> "giji", kangovect |-> HinsiVect["giji"], v_jc |-> 0, status_bkwd |-> bkwd]
KataAt(h, m, node) == [getsbnsp(h, <<node>>, m, 1, 0) EXCEPT !.heap = [n \in DOMAIN @ |->
                          IF n \in DOMAIN h THEN h[n] ELSE [@[n] EXCEPT !.status = "GIJI"]]]
KataFzk(h, m, eno, fzk, by, by1) ==
    CASE by # {}              -> KataAt(h, m, KataNode(eno, fzk[Max(by)].offset, TRUE))
      [] by = {} /\ by1 # {} -> KataAt(h, m, KataNode(eno, fzk[Max(by1)].offset, FALSE))
      [] OTHER -> [heap |-> IF fzk = <<>> THEN <<>> ELSE h, list |-> <<>>]
Kata(h, m, eno, fzk) == KataFzk(h, m, eno, fzk, GijiAllowed(fzk, "vector"), GijiAllowed(fzk, "vector1"))
\* Refused without a place for it: the areas are then set up again, or not.
set_kata_giji_sbn(h, y, m, eno, c) == Kata(h, m, eno, fzk_kai(y, m, eno, c.endvect, c.endvect1))

KataBzd(s, m) ==
    [ok |-> s.list # <<>>, heap |-> s.heap, list |-> s.list,
     bzd |-> IF s.list = <<>> THEN <<>> ELSE [BZD(s.heap, s.list[1], m, 0) EXCEPT !.sbn_cnt = 1]]
set_kata_giji_bzd(h, y, m, eno, c) == KataBzd(set_kata_giji_sbn(h, y, m, eno, c), m)

----------------------------------------------------------------------------
Init ==
    /\ yomi \in Yomis
    /\ call \in Calls
    /\ pc = "idle" /\ heap = <<>> /\ dai = 0 /\ rbzd = <<>> /\ decided = <<>>
    /\ dicidyno = -1 /\ rtmknode = 1 /\ rounds = 0 /\ dsd = <<>>

Analyses == {"renbn_kai", "tan_dai", "tan_syo"}
Refused == ~call.fzk \/ (call.op \in Analyses /\ ~chk_yomi_endvect(0, yomi_eno, call))

\* The call reaches a conversion that can be done, or is refused.
begin(op) == pc = "idle" /\ call.op = op /\ ~Refused
refuse ==
    /\ pc = "idle" /\ Refused
    /\ pc' = "refused"
    /\ UNCHANGED <<yomi, call, heap, dai, rbzd, decided, dicidyno, rtmknode, rounds, dsd>>

renbn_kai ==
    /\ begin("renbn_kai")
    /\ pc' = "loop"
    /\ UNCHANGED <<yomi, call, heap, dai, rbzd, decided, dicidyno, rtmknode, rounds, dsd>>

Undecided == pc = "loop" /\ dicidyno + 1 < yomi_eno

\* Without a list to decide on, one is made; if there is none, the rest becomes katakana.
analyse ==
    /\ Undecided /\ rbzd = <<>>
    /\ \E d \in {dbn_kai(heap, dai, yomi, dicidyno + 1, yomi_eno,
                         call.beginvect, call.endvect, call.endvect1, call.kaisbno)} :
          /\ dai' = d.dai
          /\ \/ /\ d.bzds # <<>>
                /\ rbzd' = d.bzds /\ heap' = d.heap
                /\ UNCHANGED <<pc, decided, dicidyno, rtmknode>>
             \/ /\ d.bzds = <<>>
                /\ \E k \in {set_kata_giji_bzd(d.heap, yomi, dicidyno + 1, yomi_eno, call)} :
                      IF k.ok
                      THEN /\ heap' = k.heap /\ decided' = Append(decided, k.bzd)
                           /\ dicidyno' = yomi_eno - 1 /\ rtmknode' = 0
                           /\ UNCHANGED <<pc, rbzd>>
                      ELSE /\ pc' = "refused" /\ heap' = k.heap
                           /\ UNCHANGED <<rbzd, decided, dicidyno, rtmknode>>
    /\ UNCHANGED <<yomi, call, rounds, dsd>>

\* One round over the brothers of the list.
RECURSIVE Round(_, _, _)
Average(A, k, r) ==
    LET mean == CDiv(r.ptr.son_v, r.ptr.kbcnt)
    IN  [heap |-> r.heap, dai |-> r.dai, ret |-> r.ret,
         list |-> [A.list EXCEPT ![k] = [r.ptr EXCEPT !.son_v = IF r.ret = 0 THEN mean + r.ptr.v_jc ELSE mean]]]
Round(A, k, env) ==
    IF k > Len(A.list) THEN A
    ELSE Round(Average(A, k, mknode(A, A.list[k], env)), k + 1, env)

NodesWanted == call.kaidbno # 1 /\ rbzd[1].kbcnt < call.kaidbno /\ rtmknode > 0

\* Bound: yomi_eno + 1 rounds for a decision.
make_nodes ==
    /\ Undecided /\ rbzd # <<>> /\ NodesWanted
    /\ rounds <= yomi_eno
    /\ \E A \in {Round([heap |-> heap, dai |-> dai, ret |-> 1, list |-> rbzd], 1,
                       [y |-> yomi, eno |-> yomi_eno, c |-> call])} :
          rbzd' = A.list /\ heap' = A.heap /\ dai' = A.dai /\ rtmknode' = A.ret
    /\ rounds' = rounds + 1
    /\ UNCHANGED <<yomi, call, pc, decided, dicidyno, dsd>>

\* With one phrase at a time the values of all but the first are taken from v_jc.
Rated == IF call.kaidbno # 1 THEN rbzd
         ELSE [k \in DOMAIN rbzd |-> IF k = 1 THEN rbzd[k] ELSE [rbzd[k] EXCEPT !.son_v = rbzd[k].v_jc]]
BestOf(bzds) ==
    CHOOSE k \in DOMAIN bzds : \A i \in DOMAIN bzds :
        bzds[i].son_v <= bzds[k].son_v /\ (i > k => bzds[i].son_v < bzds[k].son_v)

decide ==
    /\ Undecided /\ rbzd # <<>> /\ ~NodesWanted
    /\ \E best \in {BestOf(Rated)} :
          /\ heap' = clr_node(heap, Remove(rbzd, rbzd[best]))
          /\ decided' = Append(decided, [Rated[best] EXCEPT !.son = <<>>])
          /\ dicidyno' = rbzd[best].j_c
          /\ rbzd' = rbzd[best].son
    /\ rounds' = 0
    /\ UNCHANGED <<yomi, call, pc, dai, rtmknode, dsd>>

Answer(h, bzds) ==
    \E r \in {dcdbn_set(h, bzds)} : dsd' = r.dsd /\ heap' = r.heap /\ pc' = "done"

finish ==
    /\ pc = "loop" /\ ~Undecided
    /\ Answer(heap, decided)
    /\ decided' = <<>>
    /\ UNCHANGED <<yomi, call, dai, rbzd, dicidyno, rtmknode, rounds>>

----------------------------------------------------------------------------
(* A single phrase, as long as the reading. *)

\* Any of them.
Whole_bug(j_c) == j_c \in 0 .. yomi_eno - 1
Whole(j_c) == j_c = yomi_eno - 1
refuse_with(h) == pc' = "refused" /\ heap' = h /\ UNCHANGED dsd

tan_dai ==
    /\ begin("tan_dai")
    /\ \E d \in {dbn_kai(heap, 0, yomi, 0, yomi_eno, call.beginvect, call.endvect, call.endvect1, call.kaisbno)} :
       \E whole \in {SelectSeq(d.bzds, LAMBDA b : Whole(b.j_c))},
          h \in {clr_node(d.heap, SelectSeq(d.bzds, LAMBDA b : ~Whole(b.j_c)))} :
          /\ dai' = d.dai
          /\ \/ whole # <<>> /\ Answer(h, whole)
             \/ /\ whole = <<>>
                /\ \E k \in {set_kata_giji_bzd(h, yomi, 0, yomi_eno, call)} :
                      IF k.ok THEN Answer(k.heap, <<k.bzd>>) ELSE refuse_with(k.heap)
    /\ UNCHANGED <<yomi, call, rbzd, decided, dicidyno, rtmknode, rounds>>

\* The next of the small phrases of full length against the best so far.
Wins(h, max, n, beginvect) ==
    \/ /\ beginvect # WNN_ALL_HINSI
       /\ h[n].status \in {"SENTOU", "CONNECT"} /\ h[max].status # h[n].status
    \/ h[max].v_jc < h[n].v_jc
Duel(a, h, dai1, n) ==
    IF a.max = 0 THEN [heap |-> h, dai |-> dai1, max |-> n]
    ELSE IF Wins(h, a.max, n, call.beginvect) THEN [heap |-> freesbn(h, a.max), dai |-> dai1, max |-> n]
    ELSE [heap |-> freesbn(h, n), dai |-> dai1, max |-> a.max]
Better(a, n) ==
    LET g == get_status(a.heap[n].kangovect, call.beginvect, a.dai)
    IN  IF ~Whole(a.heap[n].j_c) THEN [a EXCEPT !.heap = freesbn(a.heap, n)]
        ELSE Duel(a, [a.heap EXCEPT ![n].status = g.status, ![n].v_jc = DIVID_HYOUKA(@, g.divid)], g.dai, n)
Champion(s) == FoldLeft(Better, [heap |-> s.heap, dai |-> 0, max |-> 0], s.list)

Pseudo == {"suuji", "toji_kakko", "katakanago", "eisuu", "kai_kakko", "kigou", "fuzokugo", "giji"}
Shown(node) == IF node.hinsi \in Pseudo /\ node.status = "NOT_CONNECT" THEN [node EXCEPT !.status = "GIJI"] ELSE node
answer(n, h) ==
    /\ dsd' = <<[bun_m |-> 0, bun_jc |-> h[n].j_c, sbncnt |-> 1, sbn |-> <<Shown(h[n])>>]>>
    /\ heap' = freesbn(h, n) /\ pc' = "done"
tan_syo ==
    /\ begin("tan_syo")
    /\ \E a \in {Champion(sbn_kai(heap, yomi, 0, yomi_eno, call.endvect, call.endvect1, 1, 0))} :
          /\ dai' = a.dai
          /\ \/ a.max # 0 /\ answer(a.max, a.heap)
             \/ /\ a.max = 0
                /\ \E k \in {set_kata_giji_sbn(a.heap, yomi, 0, yomi_eno, call)} :
                      IF k.list # <<>> THEN answer(k.list[1], k.heap) ELSE refuse_with(k.heap)
    /\ UNCHANGED <<yomi, call, rbzd, decided, dicidyno, rtmknode, rounds>>

Next == \/ refuse \/ renbn_kai \/ analyse \/ make_nodes \/ decide \/ finish
        \/ tan_dai \/ tan_syo
Spec == Init /\ [][Next]_vars

----------------------------------------------------------------------------
Nat0 == 0 .. 9999
Node == [j_c : Nat0, i_jc : Nat0, bend_m : Nat0, hinsi : Hinsi \cup DOMAIN Fukugou, kangovect : DOMAIN Area, v_jc : Int,
         kbcnt : Nat0, parent : Nat0, son_v : Int, reference : Nat0,
         status : {"none", "SENTOU", "CONNECT", "NOT_CONNECT", "GIJI"}, status_bkwd : BOOLEAN]
TypeOK ==
    /\ call \in Calls
    /\ pc \in {"idle", "loop", "done", "refused", "listed"}
    /\ \A n \in DOMAIN heap : heap[n] \in Node
    /\ dai \in 0 .. 2 /\ dicidyno \in -1 .. yomi_eno - 1 /\ rtmknode \in {0, 1}
    /\ rounds \in 0 .. yomi_eno + 1

Children(n) == {c \in DOMAIN heap : heap[c].parent = n}
Held == SbnsBelow(rbzd) \o SbnsOf(decided)
Holders(n) == Cardinality({k \in DOMAIN Held : Held[k] = n})

(***************************************************************************)
(* reference of a small phrase is the number of large phrases and of small *)
(* phrases that use it (the katakana phrase, which is not counted, is used *)
(* once), through joining, replacing, pruning and dropping whole branches: *)
(* nothing in use is given back to the free list, and nothing is left when *)
(* the conversion is answered (freesbn, clr_sbn_node, clr_node).           *)
(***************************************************************************)
NodesCounted ==
    /\ ToSet(Held) \subseteq DOMAIN heap
    /\ pc = "loop" => \A n \in DOMAIN heap :
          /\ heap[n].parent \in {0} \cup DOMAIN heap
          /\ \/ heap[n].reference = Holders(n) + Cardinality(Children(n)) /\ heap[n].reference > 0
             \/ heap[n].reference = 0 /\ Holders(n) = 1 /\ Children(n) = {} /\ heap[n].hinsi = "giji"
    /\ pc = "done" => DOMAIN heap = {}

RECURSIVE Ascending(_, _)
Ascending(bzds, from) ==
    \A k \in DOMAIN bzds :
        /\ bzds[k].bend_m = from /\ bzds[k].j_c \in from .. yomi_eno - 1
        /\ k > 1 => bzds[k - 1].j_c < bzds[k].j_c
        /\ Ascending(bzds[k].son, bzds[k].j_c + 1)

\* b's stem may follow a, which stands before it in the stored reading, over b's auxiliary words.
Joined(a, b) ==
    LET fzk == fzk_kai(yomi, b.bend_m, yomi_eno, a.kangovect, WNN_VECT_NO)
    IN  \E k \in DOMAIN fzk :
          /\ fzk[k].offset = b.i_jc \/ (b.hinsi \in Pseudo /\ fzk[k].offset <= b.i_jc)
          /\ \E c \in Components(b.hinsi) :
                HinsiVect[c] = b.kangovect /\ c \in fzk[k].vector \cup {"fuzokugo"}

(***************************************************************************)
(* In the tree brothers begin where the phrase before them ends, one for   *)
(* each length and the shorter first, which set_daibnsetu needs: it only   *)
(* compares with the last one.  So the answer covers the reading: the      *)
(* large phrases follow each other from its end to its beginning, each is  *)
(* made of the small phrases it counts, they follow each other too, and    *)
(* each can be joined to the one it follows (renbn_kai, tan_dai, tan_syo;  *)
(* sbn_kai for the joints).                                                *)
(***************************************************************************)
OnePerLength == rbzd # <<>> => Ascending(rbzd, dicidyno + 1)
AnswerWhole ==
    pc = "done" =>
        /\ dsd # <<>> /\ dsd[Len(dsd)].bun_m = 0 /\ dsd[1].bun_jc = yomi_eno - 1
        /\ \A k \in DOMAIN dsd :
              LET p == dsd[k] IN
              /\ k < Len(dsd) => p.bun_m = dsd[k + 1].bun_jc + 1
              /\ p.sbncnt = Len(p.sbn) /\ p.sbn[p.sbncnt].bend_m = p.bun_m /\ p.sbn[1].j_c = p.bun_jc
              /\ \A i \in DOMAIN p.sbn :
                    /\ p.sbn[i].bend_m <= p.sbn[i].i_jc /\ p.sbn[i].i_jc <= p.sbn[i].j_c + 1
                    /\ i < p.sbncnt => p.sbn[i].bend_m = p.sbn[i + 1].j_c + 1 /\ Joined(p.sbn[i + 1], p.sbn[i])
AnswerCovers == OnePerLength /\ AnswerWhole

RECURSIVE Emptied(_)
Emptied(bzds) ==
    \E k \in DOMAIN bzds :
        \/ bzds[k].son = <<>> /\ bzds[k].kbcnt > 1 /\ bzds[k].j_c + 1 < yomi_eno
        \/ Emptied(bzds[k].son)

(***************************************************************************)
(* Making nodes ends: every round of mknode takes the last brother one     *)
(* phrase further, so a decision needs no more rounds than the reading has *)
(* characters -- unless dbn_kai found nothing behind one of the phrases:   *)
(* mknd_sub then answers 1 again and again (mknode0.c:346-360).            *)
(***************************************************************************)
NodesEndUnlessEmptied == rounds <= yomi_eno \/ Emptied(rbzd)

(***************************************************************************)
(* The comment of renbn_kai.c:119 says nodes are made "until one phrase    *)
(* can be decided".                                                        *)
(***************************************************************************)
NodesEnd == rounds <= yomi_eno
=============================================================================
