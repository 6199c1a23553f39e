------------------------------ MODULE Commands ------------------------------
(***************************************************************************)
(* The server's side of the protocol (jserver/do_*.c): for each command    *)
(* the fields it reads after the command number (takes) and the answers it *)
(* may write (gives).  A course of a command is one way through its code;  *)
(* which one is taken depends on the tables of the server, which are not   *)
(* here.  The value of a text is its length.                               *)
(***************************************************************************)
EXTENDS Fields

CONSTANTS
    MaxItems,          \* bound: length of a list in an answer
    MaxEnvOfClient,    \* WNN_MAX_ENV_OF_A_CLIENT
    MaxJishoOfEnv,     \* WNN_MAX_JISHO_OF_AN_ENV
    MaxFileOfEnv       \* WNN_MAX_FILE_OF_AN_ENV

\* A field that is written, with its value.
Put(field, v) == [k |-> field.k, f |-> field.f, v |-> v]
Puts(fields) == [i \in DOMAIN fields |-> Put(fields[i], 0)]
put4(f, v) == <<Put(INT(f), v)>>

error_ret_bug(f) == put4(f, -1)  \* forgets the error number
error_ret(f) == put4(f, -1) \o put4("errno", 1)

Courses(takes, answers) == {[takes |-> takes, gives |-> g] : g \in answers}

\* The command is executed or refused.
Either(takes, f, rest) == Courses(takes, {error_ret(f), put4(f, 0) \o Puts(rest)})
Done(takes) == Either(takes, "status", <<>>)
\* A list of at most MaxItems items.
Listed(takes, item) ==
    Courses(takes, {put4("count", n) \o Puts(Times(n, item)) : n \in 0 .. MaxItems})

envhandle(args) == <<INT("env")>> \o args
----------------------------------------------------------------------------
js_open    == Done(<<INT("version"), Str("host"), Str("user")>>)
js_close   == Courses(<<>>, {put4("status", 0)})
js_version == Courses(<<>>, {put4("version", 1)})
js_kill    == Courses(<<>>, {put4("clients", n) : n \in 0 .. 1})

js_connect       == Either(<<Str("env_name")>>, "env", <<>>)
js_env_exist     == Courses(<<Str("env_name")>>, {put4("exist", x) : x \in 0 .. 1})
js_env_sticky    == Courses(envhandle(<<>>), {put4("status", 0)})
js_env_un_sticky == Courses(envhandle(<<>>), {put4("status", 0)})
\* An environment the client does not have: put4_cur (-1), and then error_ret.
js_disconnect ==
    Courses(envhandle(<<>>), {put4("status", 0), put4("status", -1) \o error_ret("status")})

\* The parameters are taken from the wire one by one, refused or not.
js_param_set_bug == Courses(envhandle(<<>>), {error_ret("status")}) \cup Done(envhandle(Params))
js_param_set == Done(envhandle(Params))
js_param_get == Courses(envhandle(<<>>), {put4("status", 0) \o Puts(Params)})

js_mkdir     == Done(envhandle(<<Str("path")>>))
js_access    == Courses(envhandle(<<INT("amode"), Str("path")>>), {put4("access", x) : x \in -1 .. 0})
js_file_stat == Courses(envhandle(<<Str("path")>>), {put4("stat", x) : x \in -1 .. 1})

FileItem == Ints(<<"fid", "localf", "ref_count", "type">>) \o <<Str("name")>>
js_file_list_all == Listed(<<>>, FileItem)
js_file_list     == Listed(envhandle(<<>>), FileItem)
js_file_info ==
    Either(envhandle(<<INT("fid")>>), "status", <<Str("name")>> \o Ints(<<"localf", "ref_count", "type">>))
js_file_loaded == Courses(<<Str("path")>>, {put4("loaded", x) : x \in -1 .. 1})
js_file_loaded_local == Courses(FileUniq, {put4("loaded", x) : x \in -1 .. 1})

js_hindo_file_create == Done(envhandle(<<INT("fid"), Str("path"), Text("comment"), Str("hpasswd")>>))
js_hindo_file_create_client ==
    Either(envhandle(<<INT("fid")>>), "status", <<INT("serial")>> \o FileUniq)
js_dic_file_create ==
    Done(envhandle(<<Str("path"), Text("comment"), Str("passwd"), Str("hpasswd"), INT("type")>>))
js_file_discard == Done(envhandle(<<INT("fid")>>))
js_file_read    == Either(envhandle(<<Str("path")>>), "fid", <<>>)
js_file_write   == Either(envhandle(<<INT("fid"), Str("path")>>), "fid", <<>>)
js_file_remove  == Done(<<Str("path"), Str("passwd")>>)
js_file_comment_set  == Done(envhandle(<<INT("fid"), Text("comment")>>))
js_file_password_set == Done(envhandle(<<INT("fid"), INT("which"), Str("old"), Str("new")>>))
----------------------------------------------------------------------------
js_dic_add ==
    Either(envhandle(Ints(<<"fid", "hfid", "nice", "rw", "hrw">>)
                     \o <<Str("passwd"), Str("hpasswd"), INT("rev")>>), "dic_no", <<>>)
js_dic_delete   == Done(envhandle(<<INT("dic_no")>>))
js_dic_use      == Done(envhandle(<<INT("dic_no"), INT("enablef")>>))
js_fuzokugo_set == Done(envhandle(<<INT("fid")>>))
js_fuzokugo_get == Either(envhandle(<<>>), "fid", <<>>)

put_dic_info ==
    Ints(<<"dic_no", "fid", "hfid", "rw", "hrw", "enablef", "nice", "rev">>)
    \o <<Text("comment"), Str("name"), Str("hname"), Str("passwd"), Str("hpasswd")>>
    \o Ints(<<"type", "gosuu", "localf", "hlocalf">>)
js_dic_list_all == Listed(<<>>, put_dic_info)
js_dic_list     == Listed(envhandle(<<>>), put_dic_info)
js_dic_info     == Either(envhandle(<<INT("dic_no")>>), "status", put_dic_info)

js_word_add ==
    Done(envhandle(<<INT("dic_no"), Text("yomi"), Text("kanji"), Text("comment"),
                     INT("hinsi"), INT("hindo")>>))
js_word_delete == Done(envhandle(Ints(<<"dic_no", "entry">>)))
js_word_comment_set == Done(envhandle(<<INT("dic_no"), INT("entry"), Text("comment")>>))
js_hindo_set == Done(envhandle(Ints(<<"dic_no", "entry", "ima", "hindo">>)))

\* The sum of the lengths, without the ends of the strings: n words, each with
\* a kanji of length k and a comment of length c.
count_jdata_kanji(n, k, c) == n * (k + c)
WordRecord == Ints(<<"dic_no", "serial", "hinsi", "hindo", "ima", "int_hindo", "int_ima">>)
return_jbiki(n, k, c) ==
    put4("words", n) \o put4("kanji_sum", count_jdata_kanji(n, k, c))
    \o Puts(Times(n, WordRecord)) \o put4("dic_no", -1)
    \o Times(n, <<Put(Text("kanji"), k), Put(Text("comment"), c)>>)

WordLists == {return_jbiki(n, k, c) : n \in 0 .. MaxItems, k \in 1 .. 2, c \in 0 .. 1}
js_word_search == Courses(envhandle(<<INT("dic_no"), Text("yomi")>>), WordLists)
js_word_search_by_env == Courses(envhandle(<<Text("yomi")>>), WordLists)
js_word_info ==
    Courses(envhandle(Ints(<<"dic_no", "entry">>)),
            {error_ret("status")} \cup
            {put4("status", 0) \o <<Put(Text("yomi"), y)>> \o return_jbiki(1, 1, 1) : y \in 1 .. 2})

js_who == Listed(<<>>, <<INT("sd"), Str("user"), Str("host")>> \o Times(MaxEnvOfClient, <<INT("env")>>))
js_env_list ==
    Listed(<<>>, <<INT("env"), Str("env_name"), INT("ref_count"), INT("fid"), INT("jishomax")>>
                 \o Times(MaxJishoOfEnv, <<INT("dic_no")>>) \o Times(MaxFileOfEnv, <<INT("fid")>>))

js_hinsi_name ==
    Courses(<<INT("hinsi")>>,
            {error_ret("size"), put4("size", 2) \o <<Put(Text("hinsi_name"), 2)>>})
js_hinsi_number == Either(<<Text("hinsi_name")>>, "hinsi", <<>>)
\* The lengths of the names with the ends of the strings.
HinsiSizes(n) == 2 * n
js_hinsi_list ==
    Courses(envhandle(<<INT("dic_no"), Text("hinsi_name")>>),
            {error_ret("count")} \cup
            {put4("count", n) \o put4("size", HinsiSizes(n))
             \o [i \in 1 .. n |-> Put(Text("hinsi_name"), 1)] : n \in 0 .. MaxItems})
js_hinsi_dicts ==
    Courses(envhandle(<<INT("hinsi")>>), {error_ret("count")})
    \cup Listed(envhandle(<<INT("hinsi")>>), <<INT("dic_no")>>)
js_hinsi_table_set == Done(envhandle(<<INT("dic_no"), Text("hinsi_table")>>))
----------------------------------------------------------------------------
get_fzk_vec == <<INT("hinsi"), Text("fzk"), INT("vec"), INT("vec1")>>

\* A short phrase has a reading of two characters, of which the last f are the
\* attached word, and a kanji of length k.  The sum counts ends of strings too.
count_kanji_bug(k, f) == k + 2 + 2  \* without the end of the attached word
count_kanji(k, f) == (k + 1) + (2 - f) + 1 + f + 1
ret_sho_x == Ints(<<"end", "start", "jiriend", "dic_no", "entry", "hindo", "ima", "hinsi",
                    "status", "status_bkwd", "kangovect", "hyoka">>)
ret_kanji(k, f) == <<Put(Text("kanji"), k), Put(Text("yomi"), 2 - f), Put(Text("fuzoku"), f)>>

\* n short phrases.
ret_sho(n, k, f) ==
    put4("count", n) \o put4("kanji_sum", n * count_kanji(k, f))
    \o Puts(Times(n, ret_sho_x)) \o Times(n, ret_kanji(k, f))

ret_dai_x == Ints(<<"end", "start", "sbncnt", "hyoka">>)

\* One long phrase for each member of dai, which says of how many short ones.
ret_dai(dai, k, f) ==
    LET n == ShortPhrases(dai)
    IN  put4("count", Len(dai)) \o put4("sho_sum", n) \o put4("kanji_sum", n * count_kanji(k, f))
        \o [j \in 1 .. 4 * Len(dai) |->
                Put(ret_dai_x[1 + ((j - 1) % 4)], IF j % 4 = 3 THEN dai[(j + 1) \div 4] ELSE 0)]
        \o Puts(Times(n, ret_sho_x)) \o Times(n, ret_kanji(k, f))

DaiAnswers ==
    {error_ret("count")} \cup
    {ret_dai(dai, 1, f) : dai \in {<<>>, <<1>>, <<2>>, <<2, 1>>}, f \in 0 .. 1}
ShoAnswers == {error_ret("count")} \cup {ret_sho(n, 1, f) : n \in 0 .. MaxItems, f \in 0 .. 1}

do_kanren == Courses(envhandle(<<Text("reading")>> \o get_fzk_vec \o <<INT("vec2")>>), DaiAnswers)
do_kantan_dai == Courses(envhandle(<<Text("reading")>> \o get_fzk_vec), DaiAnswers)
do_kantan_sho == Courses(envhandle(<<Text("reading")>> \o get_fzk_vec), ShoAnswers)
do_kanzen_dai == Courses(envhandle(<<Text("reading")>> \o get_fzk_vec), DaiAnswers)
do_kanzen_sho == Courses(envhandle(<<Text("reading")>> \o get_fzk_vec), ShoAnswers)
----------------------------------------------------------------------------
\* do_command: what is done for each command but JS_FILE_SEND and JS_FILE_RECEIVE.
Table ==
    [JS_OPEN |-> js_open, JS_CLOSE |-> js_close, JS_VERSION |-> js_version, JS_KILL |-> js_kill,
     JS_CONNECT |-> js_connect, JS_ENV_EXIST |-> js_env_exist, JS_ENV_STICKY |-> js_env_sticky,
     JS_ENV_UN_STICKY |-> js_env_un_sticky, JS_DISCONNECT |-> js_disconnect,
     JS_PARAM_SET |-> js_param_set, JS_PARAM_GET |-> js_param_get, JS_MKDIR |-> js_mkdir,
     JS_ACCESS |-> js_access, JS_FILE_STAT |-> js_file_stat, JS_FILE_LIST_ALL |-> js_file_list_all,
     JS_FILE_LIST |-> js_file_list, JS_FILE_INFO |-> js_file_info, JS_FILE_LOADED |-> js_file_loaded,
     JS_FILE_LOADED_LOCAL |-> js_file_loaded_local, JS_HINDO_FILE_CREATE |-> js_hindo_file_create,
     JS_HINDO_FILE_CREATE_CLIENT |-> js_hindo_file_create_client,
     JS_DIC_FILE_CREATE |-> js_dic_file_create, JS_FILE_DISCARD |-> js_file_discard,
     JS_FILE_READ |-> js_file_read, JS_FILE_WRITE |-> js_file_write, JS_FILE_REMOVE |-> js_file_remove,
     JS_FILE_COMMENT_SET |-> js_file_comment_set, JS_FILE_PASSWORD_SET |-> js_file_password_set,
     JS_DIC_ADD |-> js_dic_add, JS_DIC_DELETE |-> js_dic_delete, JS_DIC_USE |-> js_dic_use,
     JS_FUZOKUGO_SET |-> js_fuzokugo_set, JS_FUZOKUGO_GET |-> js_fuzokugo_get,
     JS_DIC_LIST_ALL |-> js_dic_list_all, JS_DIC_LIST |-> js_dic_list, JS_DIC_INFO |-> js_dic_info,
     JS_WORD_ADD |-> js_word_add, JS_WORD_DELETE |-> js_word_delete,
     JS_WORD_COMMENT_SET |-> js_word_comment_set, JS_WORD_SEARCH |-> js_word_search,
     JS_WORD_SEARCH_BY_ENV |-> js_word_search_by_env, JS_WORD_INFO |-> js_word_info,
     JS_HINDO_SET |-> js_hindo_set, JS_WHO |-> js_who, JS_ENV_LIST |-> js_env_list,
     JS_HINSI_NAME |-> js_hinsi_name, JS_HINSI_NUMBER |-> js_hinsi_number,
     JS_HINSI_LIST |-> js_hinsi_list, JS_HINSI_DICTS |-> js_hinsi_dicts,
     JS_HINSI_TABLE_SET |-> js_hinsi_table_set, JS_KANREN |-> do_kanren,
     JS_KANTAN_DAI |-> do_kantan_dai, JS_KANTAN_SHO |-> do_kantan_sho,
     JS_KANZEN_DAI |-> do_kanzen_dai, JS_KANZEN_SHO |-> do_kanzen_sho]
=============================================================================
