------------------------------- MODULE KanaIn -------------------------------
(***************************************************************************)
(* Reading a line of kana: kana_in and buffer_in of Wnn/uum/basic_op.c,    *)
(* with the automaton of module Romkan.  uum asks one line after another   *)
(* (jutil.c asks five for one dictionary), and the automaton is the same   *)
(* for all of them: nothing clears it between two lines.                   *)
(*                                                                         *)
(* What the automaton answers to a key is a list of letters, and each of   *)
(* them is treated like a key of its own: a command, a letter to insert,   *)
(* a control character nobody knows.  The terminal is left out but for     *)
(* the line and the mode it shows.  t_kill and t_yank, the characters      *)
(* uum sends unchanged (tmp_send), and henkan_on_kuten are left out.       *)
(***************************************************************************)
EXTENDS Romkan

CONSTANTS
    Keys,       \* what is typed
    Control,    \* ESCAPE_CHAR and NOT_NORMAL_CHAR, DEL excepted
    key_table,  \* main_table[6]: of some letters, the function
    buflen,     \* the longest line
    Texts,      \* what a line may begin with
    Flags,      \* {} or {"SIMPLD"}: excellent_delete or simple_delete of uumrc
    MaxKeys     \* bound: keys typed

ASSUME KanaInAssumption ==
    /\ delchr \in Keys \ Control
    /\ key_table[delchr] = "t_rubout"
    /\ \A text \in Texts : Len(text) <= buflen

VARIABLES
    rk,         \* the automaton
    asked,      \* whether a line is asked for
    line,       \* buffer, t_c_p (the cursor), ignored (letters that wait and are not shown)
    mode_line,  \* the mode the screen shows
    keys,       \* how many keys were typed
    left,       \* history: what the last line left behind: "keys" that wait, a "mode" not shown
    did,        \* history: what the last key did: "typed", "rubout", "command", "asked"
    before      \* history: the line before the last conversion, None, or Unsure

vars == <<rk, asked, line, mode_line, keys, left, did, before>>

None == [is |-> "none"]
Unsure == [is |-> "unsure"]

----------------------------------------------------------------------------
(* The functions of main_table[6].  L is line, rk, mode_line and ret, the  *)
(* value the loop ends with unless it is 0.  t_m_start is -2.              *)

insert_char(l, c) == [l EXCEPT !.buffer = InsertAt(@, l.t_c_p + 1, c), !.t_c_p = @ + 1]
t_delete_char(l) ==
    IF l.t_c_p < Len(l.buffer) THEN [l EXCEPT !.buffer = RemoveAt(@, l.t_c_p + 1)] ELSE l
backward(l) == [l EXCEPT !.t_c_p = IF @ >= 1 THEN @ - 1 ELSE @]
t_rubout(l) == IF l.t_c_p # 0 THEN t_delete_char(backward(l)) ELSE l
forward_char(l) == [l EXCEPT !.t_c_p = IF @ < Len(l.buffer) THEN @ + 1 ELSE @]
c_top(l) == [l EXCEPT !.t_c_p = 0]
c_end(l) == [l EXCEPT !.t_c_p = Len(l.buffer)]

\* The romkan_flag of kansuu_hyo: which functions clear the automaton first.
rk_clear_tbl == {"forward_char", "backward_char", "c_top", "c_end", "t_delete_char"}

Command(L, f) ==
    LET cleared == IF f \in rk_clear_tbl THEN [L EXCEPT !.rk = romkan_clear(@)] ELSE L
    IN  CASE f = "t_rubout" -> [cleared EXCEPT !.line = t_rubout(@)]
          [] f = "t_delete_char" -> [cleared EXCEPT !.line = t_delete_char(@)]
          [] f = "forward_char" -> [cleared EXCEPT !.line = forward_char(@)]
          [] f = "backward_char" -> [cleared EXCEPT !.line = backward(@)]
          [] f = "c_top" -> [cleared EXCEPT !.line = c_top(@)]
          [] f = "c_end" -> [cleared EXCEPT !.line = c_end(@)]
          [] f = "t_ret" -> [cleared EXCEPT !.ret = 1]
          [] f = "t_quit" -> [cleared EXCEPT !.ret = -1]

Entered(L, c) ==
    IF Len(L.line.buffer) < buflen THEN [L EXCEPT !.line = insert_char(@, c)]
    ELSE [L EXCEPT !.rk = romkan_clear(@)]

\* A real letter after fakes that were not shown is swallowed.
Ignored(l, o) ==
    [l EXCEPT !.ignored = IF ~o.nise THEN 0 ELSE IF o.c = delchr THEN @ - 1 ELSE @ + 1]

\* One round of the inner loop of buffer_in.
Output(L, o) ==
    CASE L.ret # 0 -> L
      [] L.ret = 0 /\ o.c = "CHMSIG" -> [L EXCEPT !.mode_line = L.rk.dspmod]
      [] L.ret = 0 /\ isSPCL(o.c) /\ o.c # "CHMSIG" -> L
      [] L.ret = 0 /\ ~isSPCL(o.c) /\ (L.line.ignored > 0 \/ (o.nise /\ o.c \in Control)) ->
            [L EXCEPT !.line = Ignored(@, o)]
      [] OTHER -> IF o.c \in DOMAIN key_table THEN Command(L, key_table[o.c])
                  ELSE IF o.c \in Control THEN L ELSE Entered(L, o.c)

\* Letters that came out, and those of them nobody knows.
Out(disout) == {disout[i].c : i \in {k \in DOMAIN disout : ~disout[k].nise /\ ~isSPCL(disout[k].c)}}
Refused(disout) == {c \in Out(disout) : c \in Control /\ c \notin DOMAIN key_table}

\* The automaton can undo what came out unless the mode changed or the automaton was cleared.
UndoAfter(a, L) ==
    CASE L.rk # a.R \/ Contains(a.disout, [nise |-> FALSE, c |-> "CHMSIG"]) -> None
      [] OTHER -> IF Out(a.disout) = {} THEN before
                  ELSE IF Refused(a.disout) # {} THEN Unsure
                  ELSE [is |-> "line", line |-> line, keybuf |-> rk.keybuf, waits |-> Len(a.R.keybuf)]

\* What this line leaves behind when it ends; while it goes on, what is left of the last line's.
LeftBehind(L) ==
    LET waits == IF L.rk.keybuf = <<>> /\ L.rk.urabuf = <<>> THEN {} ELSE {"keys"}
        unshown == IF L.mode_line = L.rk.dspmod THEN {} ELSE {"mode"}
    IN  IF L.ret = 0 THEN left \cap (waits \cup unshown) ELSE waits \cup unshown

----------------------------------------------------------------------------
kana_in(text) ==
    /\ ~asked
    /\ asked' = TRUE
    /\ line' = [buffer |-> text, t_c_p |-> Len(text), ignored |-> 0]
    /\ did' = "asked"
    /\ before' = None
    /\ UNCHANGED <<rk, mode_line, keys, left>>

\* A key, with everything that comes out of it.
key(k) ==
    /\ asked /\ keys < MaxKeys
    /\ \E a \in {romkan_henkan(rk, k)} :
       \E L \in {FoldLeft(Output, [line |-> line, rk |-> a.R, mode_line |-> mode_line, ret |-> 0], a.disout)} :
          /\ rk' = L.rk
          /\ asked' = (L.ret = 0)
          /\ line' = L.line
          /\ mode_line' = L.mode_line
          /\ left' = LeftBehind(L)
          /\ did' = IF k = delchr THEN "rubout"
                    ELSE IF Out(a.disout) \cap (DOMAIN key_table \ {delchr}) # {} THEN "command" ELSE "typed"
          /\ before' = IF k = delchr THEN (IF a.R.urabuf = <<>> THEN None ELSE before) ELSE UndoAfter(a, L)
    /\ keys' = keys + 1

Init ==
    /\ \E flags \in Flags : rk = Start(flags)
    /\ mode_line = rk.dspmod
    /\ asked = FALSE
    /\ line = [buffer |-> <<>>, t_c_p |-> 0, ignored |-> 0]
    /\ keys = 0
    /\ left = {}
    /\ did = "asked"
    /\ before = None

Next ==
    \/ \E text \in Texts : kana_in(text)
    \/ \E k \in Keys : key(k)

Spec == Init /\ [][Next]_vars

----------------------------------------------------------------------------
\* The waiting keys that are shown: those before the first control character.
Visible(keybuf) ==
    LET n == SelectInSeq(keybuf, LAMBDA c : c \in Control)
    IN  IF n = 0 THEN Len(keybuf) ELSE n - 1
Waiting == Visible(rk.keybuf)

PendingShown ==
    LET v == Visible(rk.keybuf)
    IN  asked /\ "keys" \notin left =>
        /\ line.t_c_p >= v
        /\ SubSeq(line.buffer, line.t_c_p - v + 1, line.t_c_p) = SubSeq(rk.keybuf, 1, v)
        /\ line.ignored = Len(rk.keybuf) - v
LineFits == line.t_c_p \in 0 .. Len(line.buffer) /\ Len(line.buffer) <= buflen

ModeShown == asked /\ "mode" \notin left => mode_line = rk.dspmod

(***************************************************************************)
(* The screen tells the truth: the line fits and the cursor stands in it,  *)
(* the keys that wait for more are exactly the letters before the cursor   *)
(* (from a control character on they are only counted), and the mode shown *)
(* is the one the tables were chosen for; through full lines, commands     *)
(* that clear the automaton, changes of mode in the middle of a            *)
(* conversion, errors and DELs.  What the line before left is excepted.    *)
(***************************************************************************)
ScreenTrue == LineFits /\ PendingShown /\ ModeShown

(***************************************************************************)
(* Typing keeps what stands in the line: the text before the keys that     *)
(* wait stays before the cursor and the text behind the cursor stays       *)
(* behind it, whatever the conversion takes back, puts out and shows.      *)
(***************************************************************************)
Before(l, n) == SubSeq(l.buffer, 1, l.t_c_p - n)
Behind(l) == SubSeq(l.buffer, l.t_c_p + 1, Len(l.buffer))
TextKept == [][did' = "typed" /\ "keys" \notin left =>
    /\ IsPrefix(Before(line, Waiting), Before(line', 0))
    /\ Behind(line') = Behind(line)]_vars

(***************************************************************************)
(* DEL takes back one key (uumrc: excellent_delete): the last one that     *)
(* waits; else, if that completed a conversion, the line and the keys that *)
(* waited are what they were before it; else one character of the line.    *)
(* With simple_delete nothing is undone.  After a control character that   *)
(* is bound to nothing it does not hold: see the README.                   *)
(***************************************************************************)
Undoable ==
    before.is = "line" /\ Len(rk.keybuf) <= before.waits /\ "SIMPLD" \notin rk.flags
DeleteUndoes == [][did' = "rubout" /\ "keys" \notin left /\ before # Unsure =>
    CASE Undoable -> line' = before.line /\ rk'.keybuf = before.keybuf
      [] ~Undoable /\ rk.keybuf # <<>> ->
            /\ rk'.keybuf = Front(rk.keybuf)
            /\ Before(line', Visible(Front(rk.keybuf))) = Before(line, Waiting)
            /\ Behind(line') = Behind(line)
      [] ~Undoable /\ rk.keybuf = <<>> ->
            /\ rk'.keybuf = <<>>
            /\ Behind(line') = Behind(line)
            /\ line'.buffer = (IF line.t_c_p = 0 THEN line.buffer ELSE RemoveAt(line.buffer, line.t_c_p))]_vars

=============================================================================
