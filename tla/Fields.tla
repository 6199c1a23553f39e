------------------------------- MODULE Fields -------------------------------
(***************************************************************************)
(* The fields a request or an answer is made of.  The protocol has four    *)
(* types: 4-byte integers, byte strings ended by 0, strings of 16-bit      *)
(* characters ended by 0, and the fixed array of WNN_HOSTLEN bytes that    *)
(* holds the name of a host.  No field says on the wire what it is: what   *)
(* the writer means by it (f) is here only to compare it with what the     *)
(* reader takes it for.                                                    *)
(***************************************************************************)
EXTENDS Integers, Sequences, FiniteSets

INT(f)   == [k |-> "int", f |-> f]
Str(f)   == [k |-> "str", f |-> f]
Text(f)  == [k |-> "text", f |-> f]
Bytes(f) == [k |-> "bytes", f |-> f]

Ints(names) == [i \in DOMAIN names |-> INT(names[i])]

\* The fields of n items one after the other.
Times(n, fields) == [i \in 1 .. n * Len(fields) |-> fields[1 + ((i - 1) % Len(fields))]]

\* How many short phrases long phrases have that say they have dai[i] each.
ShortPhrases(dai) == Cardinality(UNION {{i} \X (1 .. dai[i]) : i \in DOMAIN dai})

\* The arguments of js_param_set, in the order of struct wnn_param.
Params == Ints(<<"n", "nsho", "hindo", "len", "jiri", "flag", "jisho", "sbn", "dbn_len",
                 "sbn_cnt", "suuji", "kana", "eisuu", "kigou", "toji_kakko", "fuzokugo",
                 "kaikakko">>)

\* struct wnn_file_uniq.
FileUniq == Ints(<<"time", "dev", "inode">>) \o <<Bytes("createhost")>>
=============================================================================
