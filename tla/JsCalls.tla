------------------------------ MODULE JsCalls -------------------------------
(***************************************************************************)
(* The client's side of the protocol (jlib/js.c): what each js_* function  *)
(* writes after the command number (asks) and which fields it reads from   *)
(* the answer (reads).  What it reads depends on what it has read: a is    *)
(* the sequence of the values it has got so far, and reads is right up to  *)
(* the field after those.                                                  *)
(***************************************************************************)
EXTENDS Fields

CONSTANTS
    MaxEnvOfClient,    \* WNN_MAX_ENV_OF_A_CLIENT
    MaxJishoOfEnv,     \* WNN_MAX_JISHO_OF_AN_ENV
    MaxFileOfEnv       \* WNN_MAX_FILE_OF_AN_ENV

Call(asks, reads) == [asks |-> asks, reads |-> reads]

\* The i-th value got; 0 stands for one that is not there yet.
Val(a, i) == IF i <= Len(a) THEN a[i] ELSE 0

env_head(args) == <<INT("env")>> \o args

\* x = get4com (); if (x == -1) { wnn_errorno = get4com (); return } and the rest.
checked_bug(a, f, rest) ==  \* leaves the error number
    <<INT(f)>> \o (IF Val(a, 1) = -1 THEN <<>> ELSE rest)
checked(a, f, rest) ==
    <<INT(f)>> \o (IF Val(a, 1) = -1 THEN <<INT("errno")>> ELSE rest)
status(a) == checked(a, "status", <<>>)

\* count = get4com (); for (i = 0; i < count; i++)
counted(a, item) == <<INT("count")>> \o Times(Val(a, 1), item)
----------------------------------------------------------------------------
js_open_lang(a) == Call(<<INT("version"), Str("host"), Str("user")>>, status(a))
js_close(a)     == Call(<<>>, status(a))
js_version(a)   == Call(<<>>, <<INT("version")>>)
js_kill(a)      == Call(<<>>, <<INT("clients")>>)

js_connect_lang(a)  == Call(<<Str("env_name")>>, checked(a, "env", <<>>))
js_env_exist(a)     == Call(<<Str("env_name")>>, <<INT("exist")>>)
js_env_sticky(a)    == Call(env_head(<<>>), <<INT("status")>>)
js_env_un_sticky(a) == Call(env_head(<<>>), <<INT("status")>>)
js_disconnect(a)    == Call(env_head(<<>>), status(a))

js_param_set(a) == Call(env_head(Params), status(a))
js_param_get(a) == Call(env_head(<<>>), checked(a, "status", Params))

js_mkdir(a)     == Call(env_head(<<Str("path")>>), status(a))
js_access(a)    == Call(env_head(<<INT("amode"), Str("path")>>), <<INT("access")>>)
js_file_stat(a) == Call(env_head(<<Str("path")>>), <<INT("stat")>>)

rcv_file_list(a) == counted(a, Ints(<<"fid", "localf", "ref_count", "type">>) \o <<Str("name")>>)
js_file_list_all(a) == Call(<<>>, rcv_file_list(a))
js_file_list(a)     == Call(env_head(<<>>), rcv_file_list(a))
js_file_info(a) ==
    Call(env_head(<<INT("fid")>>),
         checked(a, "status", <<Str("name")>> \o Ints(<<"localf", "ref_count", "type">>)))
js_file_loaded(a)       == Call(<<Str("path")>>, <<INT("loaded")>>)
js_file_loaded_local(a) == Call(FileUniq, <<INT("loaded")>>)

js_hindo_file_create(a) ==
    Call(env_head(<<INT("fid"), Str("path"), Text("comment"), Str("hpasswd")>>), status(a))
js_hindo_file_create_client(a) ==
    Call(env_head(<<INT("fid")>>), checked(a, "status", <<INT("serial")>> \o FileUniq))
js_dic_file_create(a) ==
    Call(env_head(<<Str("path"), Text("comment"), Str("passwd"), Str("hpasswd"), INT("type")>>),
         status(a))
js_file_discard(a) == Call(env_head(<<INT("fid")>>), status(a))
js_file_read(a)    == Call(env_head(<<Str("path")>>), checked(a, "fid", <<>>))
js_file_write(a)   == Call(env_head(<<INT("fid"), Str("path")>>), checked(a, "fid", <<>>))
js_file_remove(a)  == Call(<<Str("path"), Str("passwd")>>, status(a))
js_file_comment_set(a) == Call(env_head(<<INT("fid"), Text("comment")>>), status(a))
js_file_password_set(a) ==
    Call(env_head(<<INT("fid"), INT("which"), Str("old"), Str("new")>>), status(a))
----------------------------------------------------------------------------
js_dic_add(a) ==
    Call(env_head(Ints(<<"fid", "hfid", "nice", "rw", "hrw">>)
                  \o <<Str("passwd"), Str("hpasswd"), INT("rev")>>),
         checked(a, "dic_no", <<>>))
js_dic_delete(a)   == Call(env_head(<<INT("dic_no")>>), status(a))
js_dic_use(a)      == Call(env_head(<<INT("dic_no"), INT("enablef")>>), status(a))
js_fuzokugo_set(a) == Call(env_head(<<INT("fid")>>), status(a))
js_fuzokugo_get(a) == Call(env_head(<<>>), checked(a, "fid", <<>>))

get_dic_info ==
    Ints(<<"dic_no", "fid", "hfid", "rw", "hrw", "enablef", "nice", "rev">>)
    \o <<Text("comment"), Str("name"), Str("hname"), Str("passwd"), Str("hpasswd")>>
    \o Ints(<<"type", "gosuu", "localf", "hlocalf">>)
js_dic_list_all(a) == Call(<<>>, counted(a, get_dic_info))
js_dic_list(a)     == Call(env_head(<<>>), counted(a, get_dic_info))
js_dic_info(a)     == Call(env_head(<<INT("dic_no")>>), checked(a, "status", get_dic_info))

js_word_add(a) ==
    Call(env_head(<<INT("dic_no"), Text("yomi"), Text("kanji"), Text("comment"),
                    INT("hinsi"), INT("hindo")>>), status(a))
js_word_delete(a) == Call(env_head(Ints(<<"dic_no", "entry">>)), status(a))
js_word_comment_set(a) ==
    Call(env_head(<<INT("dic_no"), INT("entry"), Text("comment")>>), status(a))
js_hindo_set(a) == Call(env_head(Ints(<<"dic_no", "entry", "ima", "hindo">>)), status(a))

\* Two sums, one record of seven integers for each word, -1, and then kanji and
\* comment of each word.  The reader counts the records; a is what follows the
\* fields read before.
WordRecord == Ints(<<"dic_no", "serial", "hinsi", "hindo", "ima", "int_hindo", "int_ima">>)
rcv_word_data(a) ==
    LET ends == {n \in 0 .. Len(a) : 7 * n + 3 <= Len(a) /\ a[7 * n + 3] = -1}
        words == IF ends = {} THEN Len(a) ELSE CHOOSE n \in ends : \A m \in ends : n <= m
    IN  Ints(<<"words", "kanji_sum">>) \o Times(words, WordRecord) \o <<INT("dic_no")>>
        \o Times(words, <<Text("kanji"), Text("comment")>>)
js_word_search(a) == Call(env_head(<<INT("dic_no"), Text("yomi")>>), rcv_word_data(a))
js_word_search_by_env(a) == Call(env_head(<<Text("yomi")>>), rcv_word_data(a))
js_word_info(a) ==
    Call(env_head(Ints(<<"dic_no", "entry">>)),
         checked(a, "status", <<Text("yomi")>> \o rcv_word_data(SubSeq(a, 3, Len(a)))))

js_who(a) ==
    Call(<<>>, checked(a, "count",
               Times(Val(a, 1), <<INT("sd"), Str("user"), Str("host")>>
                                \o Times(MaxEnvOfClient, <<INT("env")>>))))
js_env_list(a) ==
    Call(<<>>, checked(a, "count",
               Times(Val(a, 1), <<INT("env"), Str("env_name"), INT("ref_count"), INT("fid"),
                                  INT("jishomax")>>
                                \o Times(MaxJishoOfEnv, <<INT("dic_no")>>)
                                \o Times(MaxFileOfEnv, <<INT("fid")>>))))

js_hinsi_name(a)   == Call(<<INT("hinsi")>>, checked(a, "size", <<Text("hinsi_name")>>))
js_hinsi_number(a) == Call(<<Text("hinsi_name")>>, checked(a, "hinsi", <<>>))
js_hinsi_list(a) ==
    Call(env_head(<<INT("dic_no"), Text("hinsi_name")>>),
         checked(a, "count", <<INT("size")>> \o Times(Val(a, 1), <<Text("hinsi_name")>>)))
js_hinsi_dicts(a) ==
    Call(env_head(<<INT("hinsi")>>), checked(a, "count", Times(Val(a, 1), <<INT("dic_no")>>)))
js_hinsi_table_set(a) == Call(env_head(<<INT("dic_no"), Text("hinsi_table")>>), status(a))
----------------------------------------------------------------------------
put_fzk_vec == <<INT("hinsi"), Text("fzk"), INT("vec"), INT("vec1")>>

rcv_sho_x == Ints(<<"end", "start", "jiriend", "dic_no", "entry", "hindo", "ima", "hinsi",
                    "status", "status_bkwd", "kangovect", "hyoka">>)
rcv_sho_kanji == <<Text("kanji"), Text("yomi"), Text("fuzoku")>>
rcv_sho(a) ==
    checked(a, "count", <<INT("kanji_sum")>> \o Times(Val(a, 1), rcv_sho_x)
                        \o Times(Val(a, 1), rcv_sho_kanji))

\* sbncnt of every long phrase says how many short phrases it has.
DaiRecord == Ints(<<"end", "start", "sbncnt", "hyoka">>)
rcv_dai(a) ==
    LET sho == ShortPhrases([i \in 1 .. Val(a, 1) |-> Val(a, 4 * i + 2)])
    IN  checked(a, "count", Ints(<<"sho_sum", "kanji_sum">>) \o Times(Val(a, 1), DaiRecord)
                            \o Times(sho, rcv_sho_x) \o Times(sho, rcv_sho_kanji))

js_kanren(a) == Call(env_head(<<Text("reading")>> \o put_fzk_vec \o <<INT("vec2")>>), rcv_dai(a))
js_kantan_dai(a) == Call(env_head(<<Text("reading")>> \o put_fzk_vec), rcv_dai(a))
js_kantan_sho(a) == Call(env_head(<<Text("reading")>> \o put_fzk_vec), rcv_sho(a))
js_kanzen_dai(a) == Call(env_head(<<Text("reading")>> \o put_fzk_vec), rcv_dai(a))
js_kanzen_sho(a) == Call(env_head(<<Text("reading")>> \o put_fzk_vec), rcv_sho(a))
----------------------------------------------------------------------------
\* The function that sends a command.  JS_FILE_SEND and JS_FILE_RECEIVE are
\* conversations of several turns and not here.
Js(c, a) ==
    CASE c = "JS_OPEN" -> js_open_lang(a)            [] c = "JS_CLOSE" -> js_close(a)
      [] c = "JS_VERSION" -> js_version(a)           [] c = "JS_KILL" -> js_kill(a)
      [] c = "JS_CONNECT" -> js_connect_lang(a)      [] c = "JS_ENV_EXIST" -> js_env_exist(a)
      [] c = "JS_ENV_STICKY" -> js_env_sticky(a)     [] c = "JS_ENV_UN_STICKY" -> js_env_un_sticky(a)
      [] c = "JS_DISCONNECT" -> js_disconnect(a)     [] c = "JS_PARAM_SET" -> js_param_set(a)
      [] c = "JS_PARAM_GET" -> js_param_get(a)       [] c = "JS_MKDIR" -> js_mkdir(a)
      [] c = "JS_ACCESS" -> js_access(a)             [] c = "JS_FILE_STAT" -> js_file_stat(a)
      [] c = "JS_FILE_LIST_ALL" -> js_file_list_all(a) [] c = "JS_FILE_LIST" -> js_file_list(a)
      [] c = "JS_FILE_INFO" -> js_file_info(a)       [] c = "JS_FILE_LOADED" -> js_file_loaded(a)
      [] c = "JS_FILE_LOADED_LOCAL" -> js_file_loaded_local(a)
      [] c = "JS_HINDO_FILE_CREATE" -> js_hindo_file_create(a)
      [] c = "JS_HINDO_FILE_CREATE_CLIENT" -> js_hindo_file_create_client(a)
      [] c = "JS_DIC_FILE_CREATE" -> js_dic_file_create(a)
      [] c = "JS_FILE_DISCARD" -> js_file_discard(a) [] c = "JS_FILE_READ" -> js_file_read(a)
      [] c = "JS_FILE_WRITE" -> js_file_write(a)     [] c = "JS_FILE_REMOVE" -> js_file_remove(a)
      [] c = "JS_FILE_COMMENT_SET" -> js_file_comment_set(a)
      [] c = "JS_FILE_PASSWORD_SET" -> js_file_password_set(a)
      [] c = "JS_DIC_ADD" -> js_dic_add(a)           [] c = "JS_DIC_DELETE" -> js_dic_delete(a)
      [] c = "JS_DIC_USE" -> js_dic_use(a)           [] c = "JS_FUZOKUGO_SET" -> js_fuzokugo_set(a)
      [] c = "JS_FUZOKUGO_GET" -> js_fuzokugo_get(a) [] c = "JS_DIC_LIST_ALL" -> js_dic_list_all(a)
      [] c = "JS_DIC_LIST" -> js_dic_list(a)         [] c = "JS_DIC_INFO" -> js_dic_info(a)
      [] c = "JS_WORD_ADD" -> js_word_add(a)         [] c = "JS_WORD_DELETE" -> js_word_delete(a)
      [] c = "JS_WORD_COMMENT_SET" -> js_word_comment_set(a)
      [] c = "JS_WORD_SEARCH" -> js_word_search(a)
      [] c = "JS_WORD_SEARCH_BY_ENV" -> js_word_search_by_env(a)
      [] c = "JS_WORD_INFO" -> js_word_info(a)       [] c = "JS_HINDO_SET" -> js_hindo_set(a)
      [] c = "JS_WHO" -> js_who(a)                   [] c = "JS_ENV_LIST" -> js_env_list(a)
      [] c = "JS_HINSI_NAME" -> js_hinsi_name(a)     [] c = "JS_HINSI_NUMBER" -> js_hinsi_number(a)
      [] c = "JS_HINSI_LIST" -> js_hinsi_list(a)     [] c = "JS_HINSI_DICTS" -> js_hinsi_dicts(a)
      [] c = "JS_HINSI_TABLE_SET" -> js_hinsi_table_set(a)
      [] c = "JS_KANREN" -> js_kanren(a)             [] c = "JS_KANTAN_DAI" -> js_kantan_dai(a)
      [] c = "JS_KANTAN_SHO" -> js_kantan_sho(a)     [] c = "JS_KANZEN_DAI" -> js_kanzen_dai(a)
      [] c = "JS_KANZEN_SHO" -> js_kanzen_sho(a)
----------------------------------------------------------------------------
DaiCalls == {"JS_KANREN", "JS_KANTAN_DAI", "JS_KANZEN_DAI"}
ShoCalls == {"JS_KANTAN_SHO", "JS_KANZEN_SHO"}
WordCalls == {"JS_WORD_SEARCH", "JS_WORD_SEARCH_BY_ENV", "JS_WORD_INFO"}

\* The characters for which re_alloc makes room, from the sums the server sent.
\* The reading is copied to each word: that of js_word_info came with the answer,
\* the ones the caller searches for have one character.
WordData(c, a) == IF c = "JS_WORD_INFO" THEN SubSeq(a, 3, Len(a)) ELSE a
YomiLen(c, a) == IF c = "JS_WORD_INFO" THEN Val(a, 2) ELSE 1
re_alloc(c, a) ==
    LET w == WordData(c, a)
    IN  CASE c \in DaiCalls -> Val(a, 3)
          [] c \in ShoCalls -> Val(a, 2)
          [] c \in WordCalls -> Val(w, 2) + Val(w, 1) * 3 + Val(w, 1) * YomiLen(c, a)
          [] c = "JS_HINSI_NAME" -> Val(a, 1) + 1
          [] c = "JS_HINSI_LIST" -> Val(a, 2) + 1

\* The characters getwscom and wnn_Strcpy store there, ends included.  The value
\* of a text is its length.
Stored(c, a) ==
    LET texts == {i \in DOMAIN a : Js(c, a).reads[i] \in
                    {Text(f) : f \in {"kanji", "comment", "yomi", "fuzoku", "hinsi_name"}}}
        into == IF c = "JS_WORD_INFO" THEN texts \ {2} ELSE texts
        copies == IF c \in WordCalls THEN Val(WordData(c, a), 1) * (YomiLen(c, a) + 1) ELSE 0
    IN  copies + Cardinality(UNION {{i} \X (0 .. a[i]) : i \in into})
=============================================================================
