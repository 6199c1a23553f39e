-------------------------------- MODULE Wire --------------------------------
(***************************************************************************)
(* The conversation of one client (jlib/js.c) with the server (jserver):   *)
(* what each js_* function writes and reads (JsCalls), what the command of *)
(* the same name reads and answers (Commands), and the buffers between     *)
(* them.  Neither side sends lengths: the two stay in step only because    *)
(* each reads exactly what the other wrote, and because each forgets what  *)
(* is left in its receive buffer before it starts on the next command      *)
(* (rbc = -1 in snd_head, rbc = 0 in daemon_main).                         *)
(*                                                                         *)
(* A field of the protocol is one token, marked with the call that it      *)
(* belongs to.  A recv takes any non-empty prefix of what the kernel       *)
(* holds.  JS_FILE_SEND and JS_FILE_RECEIVE are conversations of several   *)
(* turns and have actions of their own; the other commands are one request *)
(* and one answer.                                                         *)
(*                                                                         *)
(* Six events of the code lose step (LeftBehind, SleptTooShort, TextCut,   *)
(* StreamUnread, put_file_fails, file_loaded_local_fails).  The model ends *)
(* with them: what follows is a matter of bytes, not of fields.            *)
(***************************************************************************)
EXTENDS Fields

CONSTANTS
    Called,            \* the commands the client may call
    MaxCalls,          \* bound: calls of the client, js_open included
    MaxItems,          \* bound: length of a list in an answer
    MaxContents,       \* bound: tokens of the contents of a file
    MaxEnvOfClient,    \* WNN_MAX_ENV_OF_A_CLIENT
    MaxJishoOfEnv,     \* WNN_MAX_JISHO_OF_AN_ENV
    MaxFileOfEnv       \* WNN_MAX_FILE_OF_AN_ENV

VARIABLES
    cl,           \* the client: js_* function, values read, calls made
    wnn_errorno,  \* of the client: NoToken is 0
    sb,           \* snd_buf[0 .. sbp-1] of js.c
    cr,           \* what is unread in rcv_buf of js.c (rbc)
    up, down,     \* the socket, from and to the client
    srv,          \* the server: command, the way it takes through it
    sr,           \* what is unread in rcv_buf of de.c (rbc)
    alive,        \* the server runs
    astray        \* an event happened after which bytes are read as other fields
                  \* than they were written as, or not at all

vars == <<cl, wnn_errorno, sb, cr, up, down, srv, sr, alive, astray>>

Client == INSTANCE JsCalls
Server == INSTANCE Commands

Transfers == {"JS_FILE_SEND", "JS_FILE_RECEIVE"}
CommandNames == DOMAIN Server!Table \cup Transfers

ASSUME CalledAssumption == Called \subseteq CommandNames \ {"JS_OPEN"}
ASSUME BoundsAssumption == /\ MaxCalls \in Nat
                           /\ {MaxItems, MaxContents} \subseteq Nat \ {0}
                           /\ {MaxEnvOfClient, MaxJishoOfEnv, MaxFileOfEnv} \subseteq Nat

\* The fields a js_* function reads, given the values it has read.  The last
\* turn of a transfer is a status.
Reads(c, got) == IF c \in Transfers THEN Client!status(got) ELSE Client!Js(c, got).reads
HasReadAll == cl.pc = "answer" /\ Len(cl.got) = Len(Reads(cl.cmd, cl.got))

IsToken(t) ==
    /\ t.call \in 0 .. MaxCalls
    /\ t.k \in {"hdr", "int", "str", "text", "bytes", "file", "eof"}
    /\ IF t.k = "hdr" THEN t.v \in CommandNames ELSE t.v >= -1
OnlyTokens(buf) == \A i \in DOMAIN buf : IsToken(buf[i])
NoToken == [call |-> 0, k |-> "int", f |-> "none", v |-> 0]

ClientReads == {"idle", "answer", "loaded", "may_send", "put_file", "name", "mode", "body"}
ServerReads == {"top", "command", "args", "uniq", "name", "file", "fid", "ack", "to_uniq", "go"}

TypeOK ==
    /\ cl.pc \in ClientReads /\ cl.cmd \in CommandNames \cup {"none"} /\ cl.call \in 0 .. MaxCalls
    /\ cl.pc = "answer" => Len(cl.got) <= Len(Reads(cl.cmd, cl.got))
    /\ cl.pc # "answer" => cl.got = <<>>
    /\ cl.dead \in BOOLEAN /\ alive \in BOOLEAN /\ astray \in BOOLEAN
    /\ srv.pc \in ServerReads /\ srv.call \in 0 .. MaxCalls
    /\ IsToken(wnn_errorno)
    /\ OnlyTokens(sb) /\ OnlyTokens(cr) /\ OnlyTokens(up) /\ OnlyTokens(down) /\ OnlyTokens(sr)

----------------------------------------------------------------------------
\* Fields as they are written by the n-th call or for it.
Token(n, put) == [call |-> n, k |-> put.k, f |-> put.f, v |-> put.v]
Of(n, puts) == [i \in DOMAIN puts |-> Token(n, puts[i])]
Asks(n, fields) == Of(n, Server!Puts(fields))
Header(n, c) == [call |-> n, k |-> "hdr", f |-> "command", v |-> c]

\* fwrite_cur or the loop of js_file_send; v = 1 marks the last piece, which a
\* reader of a dictionary knows from the counts in its header.
Piece(n, kind, v) == [call |-> n, k |-> kind, f |-> "contents", v |-> v]
Contents(n, len) == [i \in 1 .. len |-> Piece(n, "file", IF i = len THEN 1 ELSE 0)]
FileStream(n, len) == Contents(n, len) \o <<Piece(n, "eof", 0)>>

\* The error numbers that do not come from an answer: the server is dead, and
\* the ones js.c sets itself for a file (WNN_OPENF_ERR, WNN_NOT_A_FILE, ...).
WNN_JSERVER_DEAD == [call |-> 0, k |-> "int", f |-> "errno", v |-> 2]
FileError == [call |-> 0, k |-> "int", f |-> "errno", v |-> 3]

\* recv: some of what the socket holds, the rest stays there.
Taken(socket, k) == SubSeq(socket, 1, k)
Rest(socket, k) == SubSeq(socket, k + 1, Len(socket))

\* A server that is gone reads nothing.
Sent(tokens) == IF alive THEN up \o tokens ELSE up
----------------------------------------------------------------------------
Init ==
    /\ cl = [pc |-> "idle", cmd |-> "none", call |-> 0, got |-> <<>>, dead |-> FALSE]
    /\ wnn_errorno = NoToken
    /\ sb = <<>> /\ cr = <<>> /\ up = <<>> /\ down = <<>> /\ sr = <<>>
    /\ srv = [pc |-> "top", call |-> 0, takes |-> <<>>, gives |-> <<>>]
    /\ alive = TRUE
    /\ astray = FALSE

(* ------------------------------ the client ----------------------------- *)
\* snd_head: both buffers of the library are emptied.
snd_head_bug == cr' = cr  \* keeps what the previous call left unread
snd_head == cr' = <<>>

Starts_bug(c, next) ==  \* goes on where the previous call stopped
    cl' = [pc |-> next, cmd |-> c, call |-> cl.call + 1, dead |-> FALSE,
           got |-> IF wnn_errorno = NoToken THEN <<>> ELSE <<-1, 1>>]
Starts(c, next) == cl' = [pc |-> next, cmd |-> c, call |-> cl.call + 1, got |-> <<>>, dead |-> FALSE]

\* sleep(1) after a refusal gives the server time to read it: the request of
\* the next call must not reach the server's buffer together with it.
SleptTooShort == up # <<>>

\* js_open_lang makes the connection, and closes it when the server refuses.
MayCall(c) ==
    /\ cl.pc = "idle" /\ ~cl.dead /\ cl.call < MaxCalls
    /\ \/ cl.cmd = "none" /\ c = "JS_OPEN"
       \/ cl.cmd = "JS_OPEN" /\ wnn_errorno # NoToken /\ c = "JS_CLOSE"
       \/ cl.cmd # "none" /\ (cl.cmd = "JS_OPEN" => wnn_errorno = NoToken) /\ c \in Called

\* A js_* function up to its first snd_flush.
Calls(c, asks, first_read) ==
    /\ MayCall(c)
    /\ Starts(c, first_read)
    /\ snd_head
    /\ sb' = <<>> /\ wnn_errorno' = NoToken
    /\ up' = Sent(<<Header(cl.call + 1, c)>> \o Asks(cl.call + 1, asks))
    /\ astray' = (astray \/ SleptTooShort)
    /\ UNCHANGED <<down, srv, sr, alive>>

js_call(c) == c \notin Transfers /\ Calls(c, Client!Js(c, <<>>).asks, "answer")
js_file_send == Calls("JS_FILE_SEND", <<INT("env")>> \o FileUniq, "loaded")
js_file_receive == Calls("JS_FILE_RECEIVE", Ints(<<"env", "fid">>), "name")

\* js_file_send after check_local_file, when the file has gone meanwhile:
\* file_loaded_local returns -1 with the header still in snd_buf, which is also
\* its value for "not loaded", and js_file_send waits for an answer to it.
file_loaded_local_fails ==
    /\ MayCall("JS_FILE_SEND")
    /\ Starts("JS_FILE_SEND", "may_send")
    /\ snd_head
    /\ sb' = <<Header(cl.call + 1, "JS_FILE_SEND")>>
    /\ wnn_errorno' = FileError
    /\ astray' = TRUE
    /\ UNCHANGED <<up, down, srv, sr, alive>>

Waiting == cl.pc \notin {"idle", "put_file"} /\ ~HasReadAll

\* get1com finds rcv_buf empty.
recv ==
    /\ Waiting
    /\ cr = <<>>
    /\ \E k \in 1 .. Len(down) : cr' = Taken(down, k) /\ down' = Rest(down, k)
    /\ UNCHANGED <<cl, wnn_errorno, sb, up, srv, sr, alive, astray>>

\* recv returned 0 or an error: every later call fails at once.
daemon_dead ==
    /\ Waiting
    /\ ~alive /\ cr = <<>> /\ down = <<>>
    /\ cl' = [cl EXCEPT !.pc = "idle", !.got = <<>>, !.dead = TRUE]
    /\ wnn_errorno' = WNN_JSERVER_DEAD
    /\ UNCHANGED <<sb, cr, up, down, srv, sr, alive, astray>>

Reading(pc) == cl.pc = pc /\ Waiting /\ cr # <<>> /\ cr' = Tail(cr)
Got == Head(cr)
Next_read(pc) == cl' = [cl EXCEPT !.pc = pc]
\* The last turn of a transfer, of which got is read.
Last_turn(got) == cl' = [cl EXCEPT !.pc = "answer", !.got = got]
OnlyReads == UNCHANGED <<wnn_errorno, sb, up, down, srv, sr, alive, astray>>

\* js_dic_info returns the error number and does not store it.
StoresErrno(field) == field = INT("errno") /\ cl.cmd # "JS_DIC_INFO"

\* get4com, getscom, getwscom or get1com, as the function says.
get_field ==
    /\ Reading("answer")
    /\ cl' = [cl EXCEPT !.got = Append(@, Got.v)]
    /\ wnn_errorno' = IF StoresErrno(Reads(cl.cmd, cl.got)[Len(cl.got) + 1]) THEN Got ELSE wnn_errorno
    /\ UNCHANGED <<sb, up, down, srv, sr, alive, astray>>

\* An answer of three INTs to JS_DISCONNECT is read as two.
LeftBehind == cl.cmd = "JS_DISCONNECT" /\ down # <<>>

\* The function returns; js_close closes the socket.
js_return ==
    /\ HasReadAll
    /\ cl' = [cl EXCEPT !.pc = "idle", !.got = <<>>, !.dead = (cl.cmd = "JS_CLOSE")]
    /\ astray' = (astray \/ LeftBehind)
    /\ UNCHANGED <<wnn_errorno, sb, cr, up, down, srv, sr, alive>>

\* js_file_send: is the file loaded, and if not, may it be sent?
get_loaded ==
    /\ Reading("loaded")
    /\ IF Got.v = -1 THEN Next_read("may_send") ELSE Last_turn(<<>>)
    /\ OnlyReads

get_may_send ==
    /\ Reading("may_send")
    /\ IF Got.v = -1 THEN Last_turn(<<-1>>) ELSE Next_read("put_file")
    /\ OnlyReads

\* The name and the contents of the file, escaped and ended by EOF.
put_file ==
    /\ cl.pc = "put_file"
    /\ \E len \in 1 .. MaxContents :
        up' = Sent(Asks(cl.call, <<Str("name")>>) \o FileStream(cl.call, len))
    /\ Last_turn(<<>>)
    /\ UNCHANGED <<wnn_errorno, sb, cr, down, srv, sr, alive, astray>>

\* The file is gone by now: its name and EOF stay in snd_buf, and js_file_send
\* returns while the server waits for them.
put_file_fails ==
    /\ cl.pc = "put_file"
    /\ sb' = Asks(cl.call, <<Str("name")>>) \o <<Piece(cl.call, "eof", 0)>>
    /\ Next_read("idle")
    /\ astray' = TRUE
    /\ UNCHANGED <<wnn_errorno, cr, up, down, srv, sr, alive>>

\* js_file_receive: where to write the file is known from its name.  A file
\* that is there and not Wnn's, or cannot be written, is refused by -1.
Ack(v) == Of(cl.call, Server!put4("ack", v))
Refuses ==
    /\ up' = Sent(Ack(-1))
    /\ Next_read("idle")
    /\ wnn_errorno' = FileError

get_name ==
    /\ Reading("name")
    /\ \/ Refuses
       \/ /\ up' = Sent(Ack(0) \o Asks(cl.call, FileUniq))
          /\ Next_read("mode")
          /\ UNCHANGED wnn_errorno
    /\ UNCHANGED <<sb, down, srv, sr, alive, astray>>

get_mode ==
    /\ Reading("mode")
    /\ \/ Got.v \in {-1, 0} /\ Last_turn(<<Got.v>>) /\ UNCHANGED <<up, wnn_errorno>>
       \/ Got.v > 0 /\ Refuses
       \/ /\ Got.v > 0
          /\ up' = Sent(Ack(0))
          /\ Next_read("body")
          /\ UNCHANGED wnn_errorno
    /\ UNCHANGED <<sb, down, srv, sr, alive, astray>>

get_body ==
    /\ Reading("body")
    /\ IF Got.k = "eof" THEN Last_turn(<<>>) ELSE Next_read("body")
    /\ OnlyReads

(* ------------------------------ the server ----------------------------- *)
\* daemon_main: the socket is readable; what was left of the previous command
\* in rcv_buf is forgotten (rbc = 0).
forget_rest_bug(buf) == buf
forget_rest(buf) == <<>>

get_client ==
    /\ alive /\ srv.pc = "top"
    /\ \E k \in 1 .. Len(up) :
        sr' = forget_rest(sr) \o Taken(up, k) /\ up' = Rest(up, k)
    /\ srv' = [srv EXCEPT !.pc = "command"]
    /\ UNCHANGED <<cl, wnn_errorno, sb, cr, down, alive, astray>>

\* getc_cur finds rcv_buf empty in the middle of a command.
rcv_1_client ==
    /\ alive /\ srv.pc # "top"
    /\ sr = <<>>
    /\ \E k \in 1 .. Len(up) : sr' = Taken(up, k) /\ up' = Rest(up, k)
    /\ UNCHANGED <<cl, wnn_errorno, sb, cr, down, srv, alive, astray>>

ServerReading(pc) == alive /\ srv.pc = pc /\ sr # <<>> /\ sr' = Tail(sr)
SGot == Head(sr)
Top == [pc |-> "top", call |-> srv.call, takes |-> <<>>, gives |-> <<>>]
Goes(pc, takes) == srv' = [pc |-> pc, call |-> srv.call, takes |-> takes, gives |-> <<>>]
Puts(puts) == down' = down \o Of(srv.call, puts)
ClientWaits == UNCHANGED <<cl, wnn_errorno, sb, cr, up, alive>>

\* A command with nothing more to read answers at once.
Follows(n, course) ==
    IF course.takes = <<>>
    THEN srv' = [Top EXCEPT !.call = n] /\ down' = down \o Of(n, course.gives)
    ELSE /\ srv' = [pc |-> "args", call |-> n, takes |-> course.takes, gives |-> course.gives]
         /\ UNCHANGED down

\* do_command; what is not a command is logged and not answered.
do_command ==
    /\ ServerReading("command")
    /\ \/ SGot.k # "hdr" /\ srv' = Top /\ UNCHANGED down
       \/ /\ SGot.k = "hdr" /\ SGot.v \notin Transfers
          /\ \E course \in Server!Table[SGot.v] : Follows(SGot.call, course)
       \/ /\ SGot.k = "hdr" /\ SGot.v = "JS_FILE_SEND"
          /\ srv' = [pc |-> "uniq", call |-> SGot.call, takes |-> <<INT("env")>> \o FileUniq, gives |-> <<>>]
          /\ UNCHANGED down
       \/ /\ SGot.k = "hdr" /\ SGot.v = "JS_FILE_RECEIVE"
          /\ srv' = [pc |-> "fid", call |-> SGot.call, takes |-> Ints(<<"env", "fid">>), gives |-> <<>>]
          /\ UNCHANGED down
    /\ ClientWaits /\ UNCHANGED astray

\* getws_cur cuts a text that does not fit into the array of the command, and
\* skips the rest of it byte by byte up to the first zero byte: at least one byte
\* of the text is left before the next argument.  The length that fits is not
\* here: any text may be too long, but the reading to convert, for which
\* henkan_setup has no array.
TextCut == SGot.k = "text" /\ SGot.f # "reading"

\* get4_cur, gets_cur, getws_cur or getc_cur: the next argument, not the last.
get_arg ==
    /\ \E pc \in {"args", "uniq", "fid", "to_uniq"} : ServerReading(pc)
    /\ Len(srv.takes) > 1
    /\ srv' = [srv EXCEPT !.takes = Tail(@)]
    /\ UNCHANGED astray \/ (TextCut /\ astray' = TRUE)
    /\ ClientWaits /\ UNCHANGED down

GetsLast(pc) == ServerReading(pc) /\ Len(srv.takes) = 1

\* What is left of a text that was cut is forgotten with rcv_buf, or is in the
\* socket still and taken for the next command.
answer ==
    /\ GetsLast("args")
    /\ Puts(srv.gives)
    /\ srv' = Top
    /\ UNCHANGED astray \/ (TextCut /\ astray' = TRUE)
    /\ ClientWaits

\* js_file_send: the file is loaded already (and may not fit into env[]), or
\* no entry of files[] is free, or the client may send it.
file_send ==
    /\ GetsLast("uniq")
    /\ \/ \E r \in {Server!put4("status", 0), Server!error_ret("status")} :
            Puts(Server!put4("loaded", 1) \o r) /\ srv' = Top
       \/ Puts(Server!put4("loaded", -1) \o Server!error_ret("status")) /\ srv' = Top
       \/ Puts(Server!put4("loaded", -1) \o Server!put4("status", 1)) /\ Goes("name", <<Str("name")>>)
    /\ ClientWaits /\ UNCHANGED astray

file_send_name ==
    /\ ServerReading("name")
    /\ Goes("file", <<>>)
    /\ ClientWaits /\ UNCHANGED <<down, astray>>

\* read_file has read what it needs or failed.  Of the contents, EOF or more
\* may be unread; what is in rcv_buf is forgotten with it, the rest is not.
StreamUnread ==
    /\ SGot.k # "eof"
    /\ \A i \in 2 .. Len(sr) : sr[i].k # "eof"

AnswersSend(r) == Puts(r) /\ srv' = Top /\ astray' = (astray \/ StreamUnread)

read_file ==
    /\ ServerReading("file")
    /\ \/ \* more is needed
          SGot.k # "eof" /\ UNCHANGED <<srv, down, astray>>
       \/ \* readdict and readhindo stop at the last byte they need, fzk_read at EOF
          (SGot.v = 1 \/ SGot.k = "eof") /\ AnswersSend(Server!put4("status", 1))
       \/ \* a truncated file, a wrong header, no memory
          AnswersSend(Server!error_ret("status"))
    /\ ClientWaits

\* js_file_receive: the name of the file (or "!"), then the client's consent.
file_receive ==
    /\ GetsLast("fid")
    /\ Puts(Server!Puts(<<Str("name")>>))
    /\ Goes("ack", <<INT("ack")>>)
    /\ ClientWaits /\ UNCHANGED astray

file_receive_ack ==
    /\ ServerReading("ack")
    /\ IF SGot.v = -1 THEN srv' = Top ELSE Goes("to_uniq", FileUniq)
    /\ ClientWaits /\ UNCHANGED <<down, astray>>

file_receive_mode ==
    /\ GetsLast("to_uniq")
    /\ \/ Puts(Server!error_ret("mode")) /\ srv' = Top
       \/ Puts(Server!put4("mode", 0)) /\ srv' = Top
       \/ \E mode \in 1 .. 3 : Puts(Server!put4("mode", mode)) /\ Goes("go", <<INT("ack")>>)
    /\ ClientWaits /\ UNCHANGED astray

\* rcv_file: EOF follows also what could not be written to its end.
rcv_file ==
    /\ ServerReading("go")
    /\ \/ SGot.v = -1 /\ UNCHANGED down
       \/ /\ SGot.v # -1
          /\ \E len \in 1 .. MaxContents, r \in {Server!put4("status", 0), Server!error_ret("status")} :
                down' = down \o FileStream(srv.call, len) \o Of(srv.call, r)
    /\ srv' = Top
    /\ ClientWaits /\ UNCHANGED astray

server_dies ==
    /\ alive
    /\ alive' = FALSE
    /\ up' = <<>> /\ sr' = <<>>
    /\ UNCHANGED <<cl, wnn_errorno, sb, cr, down, srv, astray>>
----------------------------------------------------------------------------
ClientStep ==
    /\ ~astray
    /\ \/ recv \/ daemon_dead \/ get_field \/ js_return
       \/ get_loaded \/ get_may_send \/ put_file \/ put_file_fails
       \/ get_name \/ get_mode \/ get_body

ServerStep ==
    /\ ~astray
    /\ \/ get_client \/ rcv_1_client \/ do_command \/ get_arg \/ answer
       \/ file_send \/ file_send_name \/ read_file
       \/ file_receive \/ file_receive_ack \/ file_receive_mode \/ rcv_file

Call ==
    /\ ~astray
    /\ \/ \E c \in CommandNames : js_call(c)
       \/ js_file_send \/ js_file_receive \/ file_loaded_local_fails

Next == Call \/ ClientStep \/ ServerStep \/ (~astray /\ server_dies)

\* Both programs go on while they have something to read; nobody has to call.
Fairness == WF_vars(ClientStep) /\ WF_vars(ServerStep)

Spec == Init /\ [][Next]_vars /\ Fairness
----------------------------------------------------------------------------
\* What a token says it is.
Is(token, field) == token.k = field.k /\ token.f = field.f

\* What the client takes the next token for.
Wants(token) ==
    CASE cl.pc = "answer" ->
            LET field == Reads(cl.cmd, cl.got)[Len(cl.got) + 1]
            IN  Is(token, field) \/ (cl.cmd = "JS_DISCONNECT" /\ field = INT("errno"))
      [] cl.pc = "loaded" -> Is(token, INT("loaded"))
      [] cl.pc = "may_send" -> Is(token, INT("status"))
      [] cl.pc = "name" -> Is(token, Str("name"))
      [] cl.pc = "mode" -> Is(token, INT("mode"))
      [] cl.pc = "body" -> token.k \in {"file", "eof"}

\* However the answers are cut into packets, a js_* function that waits reads
\* fields of its own answer only, each with the type and the meaning that the
\* server gave it: the replies of jserver/do_*.c and the reads of js.c match
\* field by field, list by list, in every course of every command, and what an
\* earlier call left unread in rcv_buf is gone (rbc = -1 in snd_head).  The error
\* number of JS_DISCONNECT is the exception DisconnectSaysWhy is about.
ClientInStep ==
    LET unread == cr \o down
    IN  ~astray /\ Waiting /\ unread # <<>> => unread[1].call = cl.call /\ Wants(unread[1])

\* A js_* function that has read what it reads has read the whole answer: nothing
\* stays in rcv_buf or in the socket for the next call to trip over.  (Only the
\* refusal of JS_DISCONNECT is longer than js_disconnect believes.)
AnswerReadWhole ==
    ~astray /\ HasReadAll /\ ~(cl.cmd = "JS_DISCONNECT" /\ cl.got[1] = -1) => cr \o down = <<>>

\* The sums that the server sends ahead of an answer (count_kanji, count_jdata,
\* the sizes of js_hinsi_list) are enough room for all that the client then
\* copies to the buffer it allocated by them: getwscom and wnn_Strcpy know no end.
AnswerFits ==
    HasReadAll /\ wnn_errorno = NoToken
    /\ cl.cmd \in Client!DaiCalls \cup Client!ShoCalls \cup Client!WordCalls
                 \cup {"JS_HINSI_NAME", "JS_HINSI_LIST"} =>
        Client!Stored(cl.cmd, cl.got) <= Client!re_alloc(cl.cmd, cl.got)

\* However the requests are cut into packets, the server takes for a command
\* only what a snd_head wrote, and reads every argument, file contents and
\* acknowledgement of the command that it executes as what the client wrote it
\* as: what read_file leaves of an upload in rcv_buf is never taken for a command
\* (rbc = 0 in daemon_main).
ServerInStep ==
    LET unread == sr \o up
    IN  ~astray /\ alive =>
            /\ srv.pc = "top" /\ up # <<>> => up[1].k = "hdr"
            /\ srv.pc # "top" /\ unread # <<>> =>
                 CASE srv.pc = "command" -> unread[1].k = "hdr"
                   [] srv.pc = "file" -> unread[1].k \in {"file", "eof"} /\ unread[1].call = srv.call
                   [] OTHER -> Is(unread[1], Head(srv.takes)) /\ unread[1].call = srv.call

\* Every call of the library returns, with the answer or because the server is
\* dead: client and server never wait for each other.  js.c has no timeout on
\* an answer, so one field too few from either side would block the caller.
CallReturns == cl.pc # "idle" ~> (cl.pc = "idle" \/ astray)

\* KKTP 4.7: the reply to JS_DISCONNECT is a status and, when the status is
\* ERROR, the error number.  What js_disconnect stores in wnn_errorno is the
\* error number that error_ret sent.
DisconnectSaysWhy == wnn_errorno # NoToken => wnn_errorno.f = "errno"

\* KKTP 4.24: a client that does not send the file after all tells the server so
\* (by an empty one).  A client that has returned from js_file_send leaves no
\* server behind that waits for the file.
NotSendingIsTold == alive /\ cl.pc = "idle" /\ ~cl.dead => srv.pc \notin {"name", "file"}
=============================================================================
