------------------------------- MODULE Romkan -------------------------------
(***************************************************************************)
(* The automaton that makes kana of keys: Wnn/romkan/rk_main.c, and the    *)
(* modes that choose its tables (rk_modread.c).                            *)
(*                                                                         *)
(* Keys that do not yet make a kana wait in keybuf.  romkan_henkan takes   *)
(* one key and answers with what the program is to do with its line:       *)
(* letters to insert, DELs, and "fake" (NISE) letters and DELs that show   *)
(* and take back what waits.  A row of a table has a left side to match    *)
(* with keybuf, what comes out, and what stays in keybuf.                  *)
(*                                                                         *)
(* Letters are names.  An automaton is a record; romkan_henkan is a        *)
(* function from one to the next and to the answer.  Tables are constants: *)
(* reading them (rk_read.c) is not modelled.  Letters are given one by one *)
(* (uum and xwnmo do that), so LTREOF and romkan_getc are left out.        *)
(***************************************************************************)
EXTENDS Integers, Sequences, SequencesExt, TLC

CONSTANTS
    Hyo,        \* tables: hyoshu ("mae", "hon", "ato"), data (rows), hensudef (range of each variable)
    Naibu,      \* the mode table
    moderng,    \* of each mode: number of values, 0 for 256
    Initial,    \* the modes as the mode table defines them
    Convert,    \* rk_bltinfn.c: of a function and letters, what they become
    delchr      \* the key DEL

SpecialCodes == {"CHMSIG", "NISEBP", "REDRAW", "URBFCL", "ERRCOD", "REASIG", "UNUSDC"}
isSPCL(c) == c \in SpecialCodes

Real(cs) == [i \in DOMAIN cs |-> [nise |-> FALSE, c |-> cs[i]]]
toNISE(cs) == [i \in DOMAIN cs |-> [nise |-> TRUE, c |-> cs[i]]]
nisedl == [nise |-> TRUE, c |-> delchr]
Rubout(n, del) == [i \in 1 .. n |-> del]

----------------------------------------------------------------------------
(* Modes and the tables they choose.                                        *)

RECURSIVE evlcond(_, _)
evlcond(curmode, cond) ==
    LET arg(i) == evlcond(curmode, cond.args[i])
        truth(b) == IF b THEN 1 ELSE 0
    IN  CASE cond.is = "num" -> cond.v
          [] cond.is = "mode" -> curmode[cond.m]
          [] cond.is = "true" -> 1
          [] cond.is = "false" -> 0
          [] cond.is = "not" -> truth(arg(1) = 0)
          [] cond.is = "and" -> truth(arg(1) # 0 /\ arg(2) # 0)
          [] cond.is = "or" -> truth(arg(1) # 0 \/ arg(2) # 0)
          [] cond.is = "=" -> truth(arg(1) = arg(2))
          [] cond.is = "!=" -> truth(arg(1) # arg(2))
          [] cond.is = "<" -> truth(arg(1) < arg(2))
          [] cond.is = ">" -> truth(arg(1) > arg(2))

hyouse(use, name) ==
    LET kind == Hyo[name].hyoshu
    IN  IF Contains(use[kind], name) THEN use ELSE [use EXCEPT ![kind] = Append(@, name)]

\* After an if that holds the rest of the list is skipped, after a when it is not.
RECURSIVE look_choose(_, _, _)
look_choose(naibu, R, old) ==
    IF naibu = <<>> THEN R
    ELSE LET n == Head(naibu)
             rest(S) == look_choose(Tail(naibu), S, old)
             holds == evlcond(R.curmode, n.cond) # 0
         IN  CASE n.is = "hyo" -> rest([R EXCEPT !.use = hyouse(@, n.name)])
               [] n.is = "dispmode" -> rest([R EXCEPT !.dspmod = n.s])
               [] n.is = "unchg" -> rest([R EXCEPT !.dspmod = old])
               [] n.is = "if" /\ holds -> look_choose(n.then, R, old)
               [] n.is = "when" /\ holds -> rest(look_choose(n.then, R, old))
               [] n.is \in {"if", "when"} /\ ~holds -> rest(R)

choosehyo(R) ==
    look_choose(Naibu, [R EXCEPT !.use = [mae |-> <<>>, hon |-> <<>>, ato |-> <<>>], !.dspmod = ""], R.dspmod)

modu1(mode, range) == IF range = 0 THEN mode ELSE mode % range

\* modetyp is an unsigned char.
chgmod(R, num, mode) == choosehyo([R EXCEPT !.curmode[num] = modu1(mode, moderng[num])])
allchgmod(R, mode) ==
    choosehyo([R EXCEPT !.curmode = [num \in DOMAIN @ |-> modu1(mode, moderng[num])]])
incmod(R, num, dmode) ==
    LET newmod == (R.curmode[num] + dmode) % 256
    IN  chgmod(R, num, IF R.curmode[num] > newmod THEN (newmod - moderng[num]) % 256 ELSE newmod)
decmod(R, num, dmode) ==
    LET newmod == (R.curmode[num] - dmode) % 256
    IN  chgmod(R, num, IF R.curmode[num] < newmod THEN (newmod + moderng[num]) % 256 ELSE newmod)

Changed(R, item) ==
    CASE item.how = "set" -> chgmod(R, item.num, item.mode)
      [] item.how = "all" -> allchgmod(R, item.mode)
      [] item.how = "inc" -> incmod(R, item.num, item.mode)
      [] item.how = "dec" -> decmod(R, item.num, item.mode)
      [] item.how = "none" -> R

\* What the program shows, RK_CHMOUT and RK_REDRAW being set; SIMPLD is its option.
Start(flags) ==
    choosehyo([flags |-> flags, keybuf |-> <<>>, urabuf |-> <<>>, lastoutlen |-> 0, lastkbflen |-> 0,
               curmode |-> Initial, use |-> [mae |-> <<>>, hon |-> <<>>, ato |-> <<>>], dspmod |-> ""])

romkan_clear(R) ==
    [R EXCEPT !.keybuf = <<>>, !.urabuf = <<>>, !.lastoutlen = 0, !.lastkbflen = 0]

----------------------------------------------------------------------------
(* Evaluation and matching.  b binds the variables of a row (henmatch).     *)

Code(c) == [c |-> c, how |-> "none", num |-> "", mode |-> 0]
CodesOf(items) == [i \in DOMAIN items |-> items[i].c]
lastmch(R) == IF R.urabuf = <<>> THEN "EOLTTR" ELSE Last(R.urabuf)

Compare(x, rel, y) ==
    CASE rel = "=" -> x = y [] rel = "!=" -> x # y [] rel = "<" -> x < y [] rel = ">" -> x > y
Unless(holds) == IF holds THEN <<>> ELSE <<Code("UNUSDC")>>

RECURSIVE mchevl(_, _, _)
mchevl(R, b, u) ==
    LET arg(i) == Head(mchevl(R, b, u.args[i])).c
    IN  CASE u.is = "letter" -> <<Code(u.c)>>
          [] u.is = "var" -> <<Code(b[u.n])>>
          [] u.is = "conv" -> LET l == Convert[u.f][arg(1)]
                              IN  [i \in DOMAIN l |-> Code(l[i])]
          [] u.is = "last=" -> Unless(lastmch(R) = arg(1))
          [] u.is = "test" -> Unless(Compare(R.curmode[u.num], u.rel, u.mode))
          [] u.is = "change" -> <<[c |-> "CHMSIG", how |-> u.how, num |-> u.num, mode |-> u.mode]>>
ltrevlcpy(R, b, code) == FlattenSeq([i \in DOMAIN code |-> mchevl(R, b, code[i])])

Unbound == [n \in {} |-> ""]
mchsrc(hensudef, b, n, l) == l \in hensudef[n] /\ (n \in DOMAIN b => b[n] = l)

\* The length of the match; -1 if keys is shorter than what the row wants, -2 if it differs.
RECURSIVE prefixp(_, _, _, _, _, _)
prefixp(R, hensudef, keys, code, len, b) ==
    IF code = <<>> THEN [len |-> len, b |-> b]
    ELSE IF keys = <<>> THEN [len |-> -1]
    ELSE IF Head(code).is = "var"
    THEN IF mchsrc(hensudef, b, Head(code).n, Head(keys))
         THEN prefixp(R, hensudef, Tail(keys), Tail(code), len + 1, (Head(code).n :> Head(keys)) @@ b)
         ELSE [len |-> -2]
    ELSE IF Head(code).is = "letter"
    THEN IF Head(code).c = Head(keys)
         THEN prefixp(R, hensudef, Tail(keys), Tail(code), len + 1, b)
         ELSE [len |-> -2]
    ELSE LET cs == CodesOf(mchevl(R, b, Head(code)))
             n == Len(cs)
         IN  IF IsPrefix(cs, keys)
             THEN prefixp(R, hensudef, SubSeq(keys, n + 1, Len(keys)), Tail(code), len + n, b)
             ELSE [len |-> IF IsPrefix(keys, cs) THEN -1 ELSE -2]

\* All rows of the tables in use, in order.
Rows == [name \in DOMAIN Hyo |->
    [k \in DOMAIN Hyo[name].data |-> [row |-> Hyo[name].data[k], hensudef |-> Hyo[name].hensudef]]]
RowsOf(tables) == FlattenSeq([i \in DOMAIN tables |-> Rows[tables[i]]])

\* A row that keys may still become the left side of lets them wait; else the longest match, the
\* first of several; else the first key as it is.
Found(ok, R, len, out, rest) == [ok |-> ok, R |-> R, len |-> len, out |-> out, rest |-> rest]

\* The error is looked for among the codes, after the modes.
Applied(R, out, len, rest) ==
    LET S == FoldLeft(Changed, R, out)
        codes == SelectSeq(CodesOf(out), LAMBDA c : c # "URBFCL")
    IN  CASE codes # <<>> /\ codes[1] = "ERRCOD" -> Found(0, S, 0, <<>>, <<>>)
          [] codes # <<>> /\ codes[1] = "REASIG" ->
                Found(2, choosehyo([S EXCEPT !.curmode = Initial]), len, <<"CHMSIG">>, rest)
          [] OTHER -> Found(IF \E i \in DOMAIN out : out[i].c \in {"CHMSIG", "URBFCL"} THEN 2 ELSE 1,
                            S, len, codes, rest)

henkan_ok(R) ==
    LET rows == RowsOf(R.use["hon"])
        tried == {[i |-> i, m |-> prefixp(R, rows[i].hensudef, R.keybuf, rows[i].row.in, 0, Unbound)]
                    : i \in DOMAIN rows}
        full == {x \in tried : x.m.len >= 0}
        best == CHOOSE x \in full : \A y \in full : y.m.len < x.m.len \/ (y.m.len = x.m.len /\ x.i <= y.i)
        row == rows[best.i].row
    IN  CASE R.keybuf = <<>> \/ \E x \in tried : x.m.len = -1 -> Found(-1, R, 0, <<>>, <<>>)
          [] full = {} -> Found(1, R, 1, <<Head(R.keybuf)>>, <<>>)
          [] OTHER -> Applied(R, ltrevlcpy(R, best.m.b, row.out), best.m.len,
                              CodesOf(ltrevlcpy(R, best.m.b, row.rest)))

\* Before and after: one letter, by the first row that has it.
Equals(R, hensudef, u, l) ==
    IF u.is = "var" THEN mchsrc(hensudef, Unbound, u.n, l) ELSE CodesOf(mchevl(R, Unbound, u)) = <<l>>
maeato_henkan(R, l, tables) ==
    LET rows == RowsOf(tables)
        fits == {i \in DOMAIN rows : Equals(R, rows[i].hensudef, Head(rows[i].row.in), l)}
        row == rows[CHOOSE i \in fits : \A k \in fits : i <= k].row
        u == Head(row.in)
    IN  IF isSPCL(l) \/ fits = {} THEN <<l>>
        ELSE CodesOf(ltrevlcpy(R, IF u.is = "var" THEN u.n :> l ELSE Unbound, row.out))
codeout_chg(R, out) == FlattenSeq([i \in DOMAIN out |-> maeato_henkan(R, out[i], R.use["ato"])])

----------------------------------------------------------------------------
(* One key.                                                                 *)

\* A is the automaton with the output so far, where the part that a DEL takes back begins (cut),
\* and the keys it was made of (ura).  A change of mode begins a new part.
RECURSIVE conversions(_)
Taken(A, h) ==
    LET out == A.out \o codeout_chg(h.R, h.out)
        keybuf == h.rest \o SubSeq(h.R.keybuf, h.len + 1, Len(h.R.keybuf))
    IN  [R |-> [h.R EXCEPT !.keybuf = keybuf], done |-> TRUE, error |-> FALSE, out |-> out,
         cut |-> IF h.ok = 2 THEN Len(out) ELSE A.cut, ura |-> IF h.ok = 2 THEN keybuf ELSE A.ura]
conversions(A) ==
    LET h == henkan_ok(A.R)
    IN  CASE h.ok > 0 -> conversions(Taken(A, h))
          [] h.ok = 0 -> [A EXCEPT !.R = h.R, !.error = TRUE]
          [] h.ok = -1 -> A

Letters(out) == SelectSeq(out, LAMBDA c : c # "CHMSIG")
Signal_bug(out) == <<>>  \* faulty: the program is not told of the mode
Signal(out) == IF Contains(out, "CHMSIG") THEN <<"CHMSIG">> ELSE <<>>

\* The fakes of the keys that waited go; the new one was not shown yet.
TakenBack_bug(orgkeybuf) == Rubout(Len(orgkeybuf), nisedl)  \* faulty: one too many
TakenBack(orgkeybuf) == Rubout(Len(orgkeybuf) - 1, nisedl)

\* disout was set to the fake of the new key.
Answer(R, disout) == [R |-> R, disout |-> disout]
Converted(A, key) ==
    LET orgkeybuf == key.keybuf
        R == A.R
    IN  CASE A.error -> Answer([R EXCEPT !.keybuf = Front(orgkeybuf)], Real(<<"NISEBP">>))
          [] ~A.error /\ A.done ->
                Answer([R EXCEPT !.urabuf = A.ura, !.lastkbflen = Len(R.keybuf),
                                 !.lastoutlen = Len(Letters(SubSeq(A.out, A.cut + 1, Len(A.out))))],
                       TakenBack(orgkeybuf) \o Real(Letters(A.out) \o Signal(A.out))
                           \o toNISE(R.keybuf))
          [] ~A.error /\ ~A.done -> Answer(R, toNISE(<<Last(orgkeybuf)>>))
match(R) ==
    Converted(conversions([R |-> R, done |-> FALSE, error |-> FALSE, out |-> <<>>, cut |-> 0,
                           ura |-> R.keybuf]), R)

\* The last letter that waits goes, or the last conversion is undone, or DEL goes to the program.
Typed_bug(R) == R.keybuf # <<>>  \* faulty: takes what a conversion left for typed
Typed(R) == Len(R.keybuf) > (IF "SIMPLD" \in R.flags THEN 0 ELSE R.lastkbflen)
rk_delete(R) ==
    LET undo == R.urabuf # <<>> /\ "SIMPLD" \notin R.flags
    IN  CASE Typed(R) -> Answer([R EXCEPT !.keybuf = Front(@)], <<nisedl>>)
          [] ~Typed(R) /\ undo ->
                Answer([R EXCEPT !.keybuf = Front(R.urabuf), !.urabuf = <<>>, !.lastkbflen = 0, !.lastoutlen = 0],
                       Rubout(R.lastkbflen, nisedl) \o Real(Rubout(R.lastoutlen, delchr))
                           \o toNISE(Front(R.urabuf)))
          [] ~Typed(R) /\ ~undo -> Answer(R, Real(<<delchr>>))

\* RK_REDRAW: when nothing but special codes follows the last fake DEL.
Redrawn(disout) ==
    LET dels == {i \in DOMAIN disout : disout[i] = nisedl}
        last == CHOOSE i \in dels : \A k \in dels : k <= i
    IN  IF dels # {} /\ \A i \in last + 1 .. Len(disout) : isSPCL(disout[i].c)
        THEN disout \o Real(<<"REDRAW">>) ELSE disout

romkan_henkan(R, mae_in) ==
    LET rk_input == Head(maeato_henkan(R, mae_in, R.use["mae"]))
        a == IF rk_input = delchr THEN rk_delete(R)
             ELSE match([R EXCEPT !.keybuf = Append(@, rk_input)])
    IN  [a EXCEPT !.disout = Redrawn(@)]
=============================================================================
