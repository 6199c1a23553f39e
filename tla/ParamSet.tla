------------------------------ MODULE ParamSet ------------------------------
(***************************************************************************)
(* The conversion parameters of an environment several clients share, and  *)
(* JS_PARAM_SET (js_param_set in Wnn/jserver/do_env.c), which stores each  *)
(* parameter in the environment as it is read from the client, checks the  *)
(* result at the end and puts the old environment back if it is refused.   *)
(* The client may die at any parameter: getc_cur leaves the handler by     *)
(* longjmp and the environment, if another client uses it or if it is      *)
(* sticky, stays.                                                          *)
(***************************************************************************)
EXTENDS Integers, Sequences

CONSTANTS
    Clients,      \* the clients that use the environment
    None,
    Fields,       \* the parameters in the order they are sent: nbun, nshobun, ...
    MaxValue      \* bound: values of a parameter are 0 .. MaxValue

FieldsAssumption ==
    /\ None \notin Clients
    /\ Fields \in Seq(STRING)
    /\ Len(Fields) >= 2 /\ Fields[1] = "nbun" /\ Fields[2] = "nshobun"
    /\ MaxValue \in Nat \ {0}

Field  == {Fields[i] : i \in DOMAIN Fields}
Params == [Field -> 0 .. MaxValue]

VARIABLES
    users,     \* the clients still there
    para,      \* the parameters in env[eid]
    s_env,     \* the copy js_param_set makes of them
    sender,    \* the client whose JS_PARAM_SET is executed, or None
    sent,      \* the parameters it sends
    got,       \* how many of them were read
    agreed     \* the parameters of the last JS_PARAM_SET that was answered 0

vars == <<users, para, s_env, sender, sent, got, agreed>>

TypeOK ==
    /\ users \subseteq Clients
    /\ para \in Params /\ s_env \in Params /\ sent \in Params /\ agreed \in Params
    /\ sender \in users \cup {None}
    /\ got \in 0 .. Len(Fields)

----------------------------------------------------------------------------
\* default_para, from jserverrc, is valid.
Defaults == [f \in Field |-> 1]

Valid(p) == p["nbun"] >= 1 /\ p["nshobun"] >= 1

Init ==
    /\ users = Clients
    /\ para = Defaults /\ s_env = Defaults /\ sent = Defaults /\ agreed = Defaults
    /\ sender = None
    /\ got = 0

\* The command arrives and the environment is copied.
js_param_set(c, p) ==
    /\ sender = None /\ c \in users
    /\ sender' = c
    /\ sent' = p
    /\ got' = 0
    /\ s_env' = para
    /\ UNCHANGED <<users, para, agreed>>

\* env[eid]->... = get4_cur ().
get4_cur ==
    /\ sender # None /\ got < Len(Fields)
    /\ got' = got + 1
    /\ para' = [para EXCEPT ![Fields[got + 1]] = sent[Fields[got + 1]]]
    /\ UNCHANGED <<users, s_env, sender, sent, agreed>>

\* The test at the end.
refused ==
    /\ sender # None /\ got = Len(Fields) /\ ~Valid(para)
    /\ para' = s_env
    /\ sender' = None
    /\ UNCHANGED <<users, s_env, sent, got, agreed>>

accepted ==
    /\ sender # None /\ got = Len(Fields) /\ Valid(para)
    /\ agreed' = para
    /\ sender' = None
    /\ UNCHANGED <<users, para, s_env, sent, got>>

\* longjmp (client_dead): nothing is put back.
sender_dies ==
    /\ sender # None
    /\ users' = users \ {sender}
    /\ sender' = None
    /\ UNCHANGED <<para, s_env, sent, got, agreed>>

Next ==
    \/ \E c \in Clients, p \in Params : js_param_set(c, p)
    \/ get4_cur \/ refused \/ accepted \/ sender_dies

Spec == Init /\ [][Next]_vars

----------------------------------------------------------------------------
(***************************************************************************)
(* Between commands the environment has exactly the parameters of the last *)
(* JS_PARAM_SET that succeeded, and its nbun and nshobun are at least 1:   *)
(* no mixture of two sets, whichever way the last command ended.           *)
(***************************************************************************)
ParamsWhole == sender = None => para = agreed /\ Valid(para)

(***************************************************************************)
(* As long as no client has died while it sent parameters, that is so: a   *)
(* refused set leaves no trace, whichever client sent it.                  *)
(***************************************************************************)
RefusalLeavesNoTrace == users = Clients => ParamsWhole

=============================================================================
