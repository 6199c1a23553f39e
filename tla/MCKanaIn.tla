------------------------------ MODULE MCKanaIn ------------------------------
(***************************************************************************)
(* KanaIn for TLC, with a part of the tables of Wnn/jd/rk: mode.hankata,   *)
(* 2A_CTRL, 1B_newTOUPPER, 2B_ROMKANA and 3B_KATAKANA, and a table of the  *)
(* user's own with what those do not have and rk_read.c allows: a control  *)
(* character that waits for a letter, and (restart).  h- and k- are         *)
(* hiragana and katakana letters.                                          *)
(***************************************************************************)
EXTENDS KanaIn

L(c) == [is |-> "letter", c |-> c]
V(n) == [is |-> "var", n |-> n]
Call(f, args) == [is |-> "conv", f |-> f, args |-> args]
Test(num, mode) == [is |-> "test", num |-> num, rel |-> "=", mode |-> mode]
on(num) == [is |-> "change", how |-> "set", num |-> num, mode |-> 1]
off(num) == [is |-> "change", how |-> "set", num |-> num, mode |-> 0]
switch(num) == [is |-> "change", how |-> "inc", num |-> num, mode |-> 1]
Row(in, out, rest) == [in |-> in, out |-> out, rest |-> rest]

MCControl == {"ESC", "PF1", "^A", "^B", "^D", "^E", "^F", "^G", "^O", "^Q", "^R", "CR"}
MCKeys == {"k", "n", "a", "q", "^", "DEL", "ESC", "PF1", "^B", "^F", "^D", "^G", "^O", "^Q", "^R", "CR"}

roma == {"k", "n", "a"}
ROMA == {"K", "N", "A"}
kana == {"h-a", "h-ka", "h-na", "h-n", "h-tsu"}
ascii == roma \cup ROMA \cup {"q", "^"}

Tables == (
    "2A_CTRL" :>
        [hyoshu |-> "hon",
         hensudef |-> [esc |-> {"ESC"}, char |-> MCKeys, cont |-> {"^G"}],
         data |-> <<
            Row(<<Test("esc", 0), L("PF1")>>, <<switch("katakana")>>, <<>>),
            Row(<<Test("romkan", 1), Test("quote", 0), V("esc")>>, <<on("esc"), off("romkan"), V("esc")>>, <<>>),
            Row(<<Test("esc", 1), V("char")>>, <<off("esc"), on("romkan"), V("char")>>, <<>>),
            Row(<<Test("romkan", 1), L("q")>>, <<on("quote"), off("romkan"), off("zenkaku")>>, <<>>),
            Row(<<Test("quote", 1), V("cont")>>, <<off("quote"), on("romkan")>>, <<>>)>>]
    @@ "1B_newTOUPPER" :>
        [hyoshu |-> "mae", hensudef |-> [low |-> MCKeys],
         data |-> <<
            Row(<<L("q")>>, <<L("q")>>, <<>>),
            Row(<<V("low")>>, <<Call("toupper", <<V("low")>>)>>, <<>>)>>]
    @@ "2B_ROMKANA" :>
        [hyoshu |-> "hon",
         hensudef |-> [aa |-> {"K"}, chouon |-> {"^"}, alpha |-> ROMA],
         data |-> <<
            Row(<<L("A")>>, <<L("h-a")>>, <<>>),
            Row(<<L("K"), L("A")>>, <<L("h-ka")>>, <<>>),
            Row(<<L("N"), L("A")>>, <<L("h-na")>>, <<>>),
            Row(<<V("aa"), V("aa")>>, <<L("h-tsu")>>, <<V("aa")>>),
            Row(<<L("N")>>, <<L("h-n")>>, <<>>),
            Row(<<[is |-> "last=", args |-> <<L("A")>>], V("chouon")>>, <<L("h-a")>>, <<>>),
            Row(<<V("alpha")>>, <<L("ERRCOD")>>, <<>>)>>]
    @@ "3B_KATAKANA" :>
        [hyoshu |-> "ato", hensudef |-> [a |-> kana \cup ascii \cup MCControl],
         data |-> <<Row(<<V("a")>>, <<Call("tokata", <<V("a")>>)>>, <<>>)>>]
    @@ "2_OWN" :>
        [hyoshu |-> "hon", hensudef |-> [n \in {} |-> {}],
         data |-> <<
            Row(<<L("^O"), L("A")>>, <<L("one")>>, <<>>),
            Row(<<L("^R")>>, <<L("REASIG")>>, <<>>)>>])

Mode(m) == [is |-> "mode", m |-> m]
If(cond, then) == [is |-> "if", cond |-> cond, then |-> then]
Use(name) == [is |-> "hyo", name |-> name]
Disp(s) == [is |-> "dispmode", s |-> s]
Not(cond) == [is |-> "not", args |-> <<cond>>]

mode_hankata == <<
    Use("2A_CTRL"), Use("2_OWN"),
    If(Mode("esc"), <<Disp("[ESC]")>>),
    If(Mode("quote"), <<Disp("[ q ]")>>),
    If(Mode("romkan"), <<
        Use("1B_newTOUPPER"), Use("2B_ROMKANA"),
        If(Not(Mode("katakana")), <<Disp("[a r]")>>),
        Use("3B_KATAKANA"), Disp("[A r]")>>)>>

Ranges == [m \in {"romkan", "katakana", "zenkaku", "esc", "quote"} |-> 2]
AtFirst == [m \in DOMAIN Ranges |-> IF m = "romkan" THEN 1 ELSE 0]

upper == "k" :> "K" @@ "n" :> "N" @@ "a" :> "A"
kata == "h-a" :> "k-a" @@ "h-ka" :> "k-ka" @@ "h-na" :> "k-na" @@ "h-n" :> "k-n" @@ "h-tsu" :> "k-tsu"
Functions ==
    LET by(f) == [c \in kana \cup ascii \cup MCKeys \cup MCControl |->
                    <<IF c \in DOMAIN f THEN f[c] ELSE c>>]
    IN  [toupper |-> by(upper), tokata |-> by(kata)]

uumkey ==
    "DEL" :> "t_rubout" @@ "^B" :> "backward_char" @@ "^F" :> "forward_char" @@ "^A" :> "c_top"
        @@ "^E" :> "c_end" @@ "^D" :> "t_delete_char" @@ "CR" :> "t_ret" @@ "^G" :> "t_quit"

Starts == {<<>>, <<"h-a", "h-i">>}
Options == {{}, {"SIMPLD"}}
=============================================================================
