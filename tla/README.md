# FreeWnn in TLA+

FreeWnn is a kana-kanji conversion system. A server (`jserver`, with `cserver`,
`kserver` built from the same sources) holds dictionaries and frequency files in
memory and converts readings for the clients connected to it over UNIX and INET
sockets; a client library (`Wnn/jlib`), a roman-kana automaton (`Wnn/romkan`), a
terminal front end (`Wnn/uum`), an X front end (`Xwnmo`) and utilities
(`Wnn/jutil`) surround it.

This directory models the server, from its main loop to the search of the
conversion engine, the two levels of the client library that talk to it, and the
roman-kana automaton with the line editor of `uum` that obeys it. TLC checks small
instances; TLAPS proves the properties of the tables of environments, files and
dictionaries, alone and together, of the client table of the main loop, and of the
parameters for every instance.

## The parts of the system

| part | state | operations | hard behaviour | correct means |
|---|---|---|---|---|
| environments (`do_env.c`) | `env[]`, `client[].env[]`, `sticky_cnt`, `sticky_time` | connect, disconnect, sticky, un-sticky, close | shared by clients that leave in any order or die; reuse of idle environments; full tables | no id of a freed environment, exact counts, one environment per name, oldest idle one dropped first |
| files and dictionaries (`do_filecom.c`, `do_dic_env.c`, `initjserv.c`) | `files[]`, `file[]` and `jisho[]` of each environment, `dic_table[]`, `fzk_fid` | read, send, discard, dic add and delete, fuzokugo set | sharing by `f_uniq`; a client that dies while it sends a file | exact counts, dictionaries use listed, whole files |
| main loop (`de.c`) | `cblk[]`, `client[]`, `ready_socks`, `cur_clp`, descriptors | select, accept, serve, close, kill | readiness read once and used through a round; entries that move; numbers reused; blocking reads; signals | the table is the set of connections; everybody is served; only JS_KILL stops the server |
| files on disk (`readfile.c`, `etc/bdic.c`, `jlib/js.c`) | `n`, `n~`, `n#`, inodes, headers, dirty bits | read, write, send, receive, check_backup, change of identity | a death between any two system calls, of the server or of the client that saves; disk errors | what was answered as saved is found again, and is still the same file |
| parameters (`do_env.c`) | the 17 parameters of an environment | set, get | a sender that dies between two parameters of a shared environment | the parameters are those of one accepted command |
| words (`jishoop.c`, `rd_jishoop.c`, `jbiki.c`, `jutil/atod.c`, `atorev.c`) | sorted tables, chains, two indices, the kanji area | add, delete, comment, search | index shifts, shared texts, several indices over one word, prefix links | every search finds exactly the words that are there |
| frequencies (`jishoop.c`, `do_dic_env.c`) | a byte per serial number, in the dictionary and in each frequency file | set, attach | several files beside one dictionary; a number that a new word gets | a frequency belongs to the word that has the number |
| conversion (`renbn_kai.c`, `daibn_kai.c`, `bnsetu_kai.c`, `fzk.c`, `jikouho*.c`, `mknode*.c`) | lists and trees of small and large phrases that share counted nodes | convert a sentence, a large phrase, a small phrase; list all candidates | pruning while the tree is built; nodes shared between branches; an end that depends on the data | the answer covers the reading, the search ends, the nodes come back, the candidates spell the reading and have the answer among them |
| protocol (`dispatch.c`, `de.c`, `do_*.c`, `jlib/js.c`) | send and receive buffers, the client's result areas | 57 commands | no lengths and no framing: what one side leaves unread is the other's next answer | the client reads what the server wrote |
| conversion buffer (`jlib/jl.c`) | phrases, candidates, chains of words to drop, a heap of counted blocks | convert, stretch, kill, list and choose candidates, confirm | one block in several places, every call to the server may fail | exact counts, the phrases spell the text, the list belongs to its phrases |
| roman-kana automaton (`romkan/rk_main.c`, `rk_modread.c`) | `keybuf`, `urabuf`, `lastoutlen`, `lastkbflen`, the modes and the tables they choose | one key, clear, change of mode, restart | what it answers is a difference to a line it does not see | the program that obeys it shows the keys that wait; DEL undoes one step |
| reading a line (`uum/basic_op.c`) | buffer, cursor, `ignored`, the mode line | insert, DEL, move, end | a full line and commands in the middle of an answer; nothing resets the automaton between lines | the line is what was typed |
| the rest of `uum`, `jutil`, `Xwnmo` | buffers | screens, file tools | mostly terminal and file I/O | |

The parts meet as follows. `daemon_main` (de.c) selects, accepts and calls one
handler of `dispatch.c` per command of a ready client. Handlers read their
arguments from the client as they go; when the client is gone, `getc_cur` or
`putc_cur` leaves the handler by `longjmp` and `daemon_main` calls `del_client`,
which releases the client's environments. Freeing an environment releases its
dictionaries and files. A conversion command runs the engine over the
dictionaries of the environment; the client library keeps the answer in the
buffer of `jl.c`, asks for candidates, and reports what the user chose as new
frequencies. The server is single threaded, so a command is atomic except for
the places where it reads more from the client or calls the operating system;
these are the steps of the models.

## Modules

| module | models | checked by |
|---|---|---|
| `EnvTable` | environments and the clients that use them | run `server`, proofs |
| `Leases` | what environments promise the clients, without the tables and counters: the abstract specification `EnvTable` implements | `server`, proofs |
| `EnvTableProofs` | theorems about `EnvTable`; `EnvTable` implements `Leases` | TLAPS |
| `FileTable` | files and dictionaries in memory | `file_table`, `file_table_sender_dies`, `server`, proofs |
| `FileTableProofs` | theorems about `FileTable` | TLAPS |
| `Server` | `EnvTable` and `FileTable` composed | `server`, proofs |
| `ServerProofs` | `Server` implements `EnvTable` and `FileTable`; theorems about the whole | TLAPS |
| `SearchLemmas` | that a search for the first entry finds one | TLAPS |
| `Daemon` | the main loop, descriptors and client processes | `daemon`, `daemon_two_listeners` |
| `DaemonProofs` | theorems about `Daemon` | TLAPS |
| `FileStore` | one file on disk and in memory, the server's or a client's | `file_store`, proofs |
| `FileStoreProofs` | theorems about `FileStore` | TLAPS |
| `ParamSet` | JS_PARAM_SET on a shared environment | proofs |
| `ParamSetProofs` | theorems about `ParamSet` | TLAPS |
| `Fields`, `JsCalls`, `Commands`, `Wire` | the protocol: its fields, the client's side, the server's side, the conversation | `wire`, proofs |
| `WireProofs` | theorems about `Wire` | TLAPS |
| `WordText`, `UserDict`, `RevDict`, `Dictionary` | the words of a dictionary: texts, the index of a user dictionary, the two of a reversible one, the operations and the frequencies | `dictionary` |
| `JlBuf` | the conversion buffer of `jl.c` | `jl_buf` |
| `Phrases`, `Kaiseki` | the conversion engine: small phrases, large phrases and the search | `conversion`, `conversion_hangs` |
| `Candidates` | the lists of all candidates for a reading, on `Kaiseki` | `conversion` |
| `Romkan`, `KanaIn` | the roman-kana automaton, and the line editor that obeys it | `kana_in` |
| `MCServer`, `MCFileTable`, `MCDaemon`, `MCDictionary`, `MCJlBuf`, `MCKaiseki`, `MCKanaIn` | constants and symmetry for TLC | |

Actions keep the names of the C functions. Operators whose names end in `_bug`,
`_early`, `_late`, `_evict`, `_link`, `_nomove`, `_noclear`, `_keeping`,
`_uncounted`, `_wide`, `_far`, `_by_kanji` or `_swapped` are faulty
variants, each next to the operator it would replace; replacing that operator
makes TLC report the property listed with it in `PROJECT.json`. `TypeOK` of a
module documents the types of its variables.

### EnvTable

`client[c]` is the table of environment ids of a client, `env` the table of
environments (name, `ref_count`, `sticky`), `NULL` the free entry. `js_connect_old`
and `js_connect_new` are the two halves of `conn1`; the second includes the
eviction of the oldest idle environment and the failure of `malloc` or of
`add_env_to_client` after it. `disconnect` includes `disconnect_last_sticky`.
`del_client` is taken apart into one step per environment it releases
(`disconnect_next_env`), with `closing` naming the client. Commands are given ids
the client holds; only `js_disconnect` tests that, and the test in `envhandle` is
compiled out.

`Leases` is what all this is for. Its state is who holds which environment, what they are called,
which are to be kept, which are kept and in what order they were given back; it has no table of a
client, no reference count, no count of sticky environments, no clock and no `del_client`. In
`EnvTable`, `Holders` says who holds an environment, `Idle` which are kept, and of two idle ones
the one with the smaller stamp was given back first (`ReleasedBefore`). Under this mapping
`js_connect_old` is `Join`; `js_connect_new` is `Make`, or `Drop` when an idle environment made room
for one that could not be made; the four outcomes of `disconnect` are `Return`, `ReturnLast`,
`Keep` and `Replace`, and a client that dies returns its environments one by one.

### FileTable

A file is its `f_uniq`; `files[f].area` is what is really in memory, so a file that
was received in part shows. JS_FILE_SEND is three steps (the entry is taken, the
header arrives, the body arrives) and may be broken off after the first and the
second (`sender_dies`, which also sets the history variable `broken`). The files
`jserverrc` lists are loaded in the initial state with one reference that no
environment has. Passwords, `rw`, `nice` and `enablef` are left out; `Match` says
which frequency file fits which dictionary, by `f_uniq_org`, which copies of a dictionary share
(readfile.c:977). `twice` is a second history variable: whether a frequency file was discarded that two
dictionaries of the environment use. `ConstantsFit` is what the module assumes of its constants.
`del_env` frees what an environment has; the entry may be that of a new environment in the
same step, since `conn1` drops an idle environment to make room for another.

### Server

`EnvStep` is a step of `EnvTable` that, if it frees an environment, also releases
its dictionaries and files; `FileStep` is a command of `FileTable` by a client that
holds the environment; `SenderDies` joins the broken upload with `del_client`.

### Daemon

`fd` maps descriptor numbers to what they are; accept takes the lowest free number.
`options` is the command line: which sockets are opened (`-u`, `-4`) and whether the
server forks (no `-D`), which closes stdin and stdout. A command is only how much of
it has arrived; serving one blocks until it is whole or the connection is closed. The
handlers themselves are in the other modules.

### FileStore

`Program` is the sequence of system calls of each command, put together from those of the
functions of `bdic.c`; `todo` says which program is executed and how far. A failed call goes
on where the code does (`Skip`, `Undo`), `crash` ends the program at any point, and `half_done`
stops in the middle of a copy. `wf` says whether the file is a dictionary or a frequency file
(`file_type`) and whether it is on the server's disk or on a client's (`localf`). A client
reads its file with `js_file_send` and saves it with `js_file_receive`: the same calls on
its own disk, but the server sends the contents (`rcv_file`), marks them clean and goes on,
so that `change` may come between the client's calls, and either side may die alone. The
contents of a file are a version, the two identities of its header, the length of the comment
the header announces and what there is of it; `Torn` is a file without a header, one of version
-1 is cut short. `mem` is the file in memory. Up to `MaxErrors` calls fail or clients die, and
`failed` keeps of which function the calls were a part. One client at a time saves the file.

### ParamSet

`got` counts the parameters read so far; each is stored in `para` at once, as the code
does, `s_env` is the copy that is put back when the set is refused. The module has no
run: its properties are proved.

### Fields, JsCalls, Commands and Wire

A field of the protocol (an INT, a string, a text, a host name) is one token: its type,
what the writer means by it, its value (of a text, the length) and the call it was written
for. `JsCalls` says for each `js_*` function what it asks and which fields it reads, as a
function of the values it has already got, since that is how the code decides what
to read next. `Commands` says for each handler what it takes and, for each course
through its code, what it gives; which course is taken depends on the other tables of the
server and is left free. In `Wire` the two meet: `cl.pc` and `srv.pc` say which field
each side reads next, `sb`, `cr` and `sr` are the buffers of the two programs, `up` and `down`
the socket, and a `recv` takes any non-empty prefix of what has arrived. The areas that
an answer is unpacked into have their size from the request, as the code computes it.
JS_FILE_SEND and JS_FILE_RECEIVE, conversations of several turns, have actions of their own.

Six events lose step, and the model ends with them, with `astray` set: a third
INT of a refused JS_DISCONNECT that has not arrived when js_disconnect returns
(`LeftBehind`), a text that is too long for the array of its command, of which the server
reads a part as the next arguments or as the next command (`TextCut`; any text may be, but the
reading to convert), a part of an upload that arrives after the server has answered it
(`StreamUnread`), a `sleep(1)` after a refusal that was too short (`SleptTooShort`), and a
file that disappears during js_file_send, before or after the server was asked
(`file_loaded_local_fails`, `put_file_fails`).

### WordText, UserDict, RevDict and Dictionary

`WordText` has the comparison of strings and the kanji area: a sequence of texts to which
words point, with the forwarding record a longer comment leaves behind. `UserDict` is the
table of readings of a user dictionary with its link to the longest proper prefix and the
chains of cells of words with consecutive serial numbers; `RevDict` is `ri1` and `ri2` of a
reversible dictionary, one index by reading and one by kanji over the same words. Both have
the way the utility builds them from text, which gives the initial states, and the server's
insertion, deletion and search. `Dictionary` has the commands (`word_add`, `word_delete`,
`word_comment_set`), whose duplicate test, search and index changes are the whole handler.
The same body may stand in two entries of `dic_table`, with and without a frequency file.
Of a frequency only its owner is kept: `LIVE`, written for the word that has the number
now, `OLD`, for a deleted one, `JUNK`, never written. `words` is the abstract set the
searches are compared with; `missed` are the frequency files an addition did not reach.

### JlBuf

`buf` is `struct wnn_buf`: `bun`, `zenkouho` with its ends, `down_bnst`, the heap of counted
blocks with its free list, and the bits "used just now" the server keeps per word. The jl_
functions are operators from a buffer to a buffer with a return value, and an action is one
call of a client with everything it does, also its `jl_disconnect_if_server_dead` exits.
`Pseudo` are the words of no dictionary (`dic_no` -1), which `jl_update_hindo` asks for in its second round
only. It goes on after any js_hindo_set that fails, unless the server is dead.
`Kanren`, `KanzenSho` and `KanzenDai` are the answers the server may give. A call may fail
with an error or because the server is gone, at each place where one is made. `typed` is
what the phrases have to spell.

### Phrases, Kaiseki and Candidates

`Phrases` has the analysis of auxiliary words (`fzk_kai`) between two offsets of the reading
as a recursive function, the pseudo phrases for what is no hiragana (`getgiji`), `sbn_kai`,
which puts the two and the dictionary's stems together, and the counted nodes of small
phrases. A word of a compound part of speech is tried as each of its components (`Components`,
`wnn_get_fukugou_component_body`) in all three modules.

`Kaiseki` has `dbn_kai`, which extends, evaluates, orders and prunes the list of large
phrases that start at one place, `mknode`, which grows the tree of them by one level, and
the callers `renbn_kai`, `tan_dai` and `tan_syo`. Its steps are the rounds of their loops, since the
question is whether they end. Vectors of connections are numbers with a set of
parts of speech; stems, parameters and evaluations are numbers as in the code, with the
frequency's contribution one number.

`Candidates` has `jkt_get_syo` and `jkt_get_dai`, which list everything the reading may be: nodes
with all stems of one beginning, end and vector (`find_jktsbn`), joined by a queue without
pruning (`jkt_dbn`), then multiplied out (`dbn_set`). Each is one action on top of the
specification of `Kaiseki`; `jkt` is the nodes that are not given back. `past` is what the code reads
behind the reading, which may be anything. The last properties compare the two programs.

### Romkan and KanaIn

`Romkan` is `romkan_henkan` as a function of the automaton and a letter. Letters are names;
a row of a table is its left side, its output and what stays in `keybuf`, made of letters,
variables and calls as the reader of the tables stores them. `prefixp` answers -1 when
`keybuf` may still become the left side, which lets the key wait, as in the code.
`conversions` is the loop of `match`: after a change of mode (`henkan_ok` answers 2) the part
that a later DEL can take back begins again. The answer is a list of letters, real or "fake"
(NISE); the fake ones show what waits and take it away again.

`KanaIn` is `kana_in` with the loop of `buffer_in` and the functions bound in
`main_table[6]`. An action is one key with everything that comes out of it; `Output` is a round of
the inner loop, which may end the line, clear the automaton or refuse the letter. Lines
follow each other. `left`, `did` and `before` are history variables: what the last line left
behind, what the last key was, and the line and `keybuf` before the last conversion, against
which `DeleteUndoes` compares.

## Runs

| run | bounds | what it shows |
|---|---|---|
| `server` | 2 clients, one name and the empty one, 2 environments, 2 per client, 1 sticky place, 2 releases; 2 dictionaries, one of them a default file | `NoDanglingEnv`, `RefCountExact`, `StickyAccounting`, `ImplementsLeases`, `EvictsOldest`, `NothingLeaks`, `StickyKeepsFiles`. An idle environment is dropped in both places where the code does it: with one environment idle and one in use `env[]` is full, and with one sticky place the second environment that is released makes `disconnect_last_sticky` choose between two. The proofs lift the bounds, for `NothingLeaks` where the lists have room |
| `daemon` | 2 clients, a table of 1 or 2, either or both listening sockets, with and without fork | `TableExact`, `OneListenerFindsOne`, `OnlyKillStops`; under fairness `Served`, `Accepted`, `DeadRemoved`. A table of one is full with one client, one of two has an entry that moves when the other goes |
| `wire` | js_open and any two of the 57 commands, lists of up to 2 items, files of up to 3 pieces | `ClientInStep`, `AnswerReadWhole`, `AnswerFits`, `ServerInStep`, `CallReturns`. What can go wrong in a call is what an earlier one left behind, so pairs of calls are enough; two items show that a loop repeats the right fields |
| `file_table` | 2 environments, 5 places for files, 3 entries, 3 files and 2 dictionaries per environment; two dictionaries, one of them and the fuzokugo file loaded by default, and one frequency file that fits both | `FileRefCount`, `DicOwned`, `DicFilesListed`, `LoadedWholeUnlessBroken`; `files[]`, `file[]`, `jisho[]` and `dic_table[]` all get full |
| `file_store` | both types of file, with and without comment, on the server and on a client; 7 inodes, 2 changes, 1 disk error or death of a client | `SavedSurvives`, `BackupWhole`, `StillTheSameFile`, `CleanIsSaved`; a save takes at most three inodes, so that seven, the first included, are enough for two saves, or a save after a new identity; a call that needs an inode the bound does not leave is not made. The proofs lift the bounds |
| `dictionary` | both kinds of dictionary, 2 loaded words, 3 readings that are prefixes of each other of 1, 4 and 5 characters, 2 entries of `dic_table`, one frequency file, 4 calls | `FindsEveryWord`, `FrequencyIsTheWords`. Four characters fit into an entry of the table and the fifth does not; four calls add a word, delete one, add again and search a link that has to be corrected twice |
| `jl_buf` | a text of 3 characters typed in pieces, 4 calls, one request that fails or finds the server dead, also any one js_hindo_set | `BlocksCounted`, `SpellsTheText`, `CandidatesFit`, `ConfirmedIsRecent`. Four calls type, list, choose and confirm, or stretch before a list, with three phrases to shift |
| `conversion` | readings of 3 characters: hiragana with every choice of no, a rare, a common noun, or a noun with a suffix for each of the six spans, eight mixtures with digits, katakana, letters, signs, punctuation and spaces, particles of one to three characters, nouns that are suffixes too, and nouns that are names too with the same vector; `kaidbno` 1, 2 and 5, `kaisbno` 1 and 2; the parameters of `jserverrc` | `NodesCounted`, `AnswerCovers`, `NodesEndUnlessEmptied`, `CandidatesRight`, `LostOnlyAtTheLimit`. Three characters give a large phrase of three small ones, brothers of three lengths and trees of three levels |
| `kana_in` | a line of 4 characters that begins empty or with 2, 5 keys of 16, `excellent_delete` and `simple_delete`; a part of 2A_CTRL, 1B_newTOUPPER, 2B_ROMKANA, 3B_KATAKANA and mode.hankata of jd/rk, and a table with a control character that waits and a `(restart)` | `ScreenTrue`, `TextKept`, `DeleteUndoes`. Two characters fill the line, a third overflows it; four keys are enough for a doubled consonant that becomes kana and is taken back, the fifth for a mode, a command or a new line in between |
| `daemon_two_listeners` | 2 clients, both sockets | violates `GetClientFindsOne` |
| `file_table_sender_dies` | as `file_table`, 3 files per environment | violates `LoadedWhole` |
| `conversion_hangs` | as `conversion` | violates `NodesEnd` |

Deadlock is not checked where the system may stop or a bound stops the model: after
JS_KILL (`daemon*`), when the clock or the
inodes of a bound are used up (`server`, `file_store`), when no more calls are made
(`wire`, `dictionary`, `jl_buf`), no more keys are typed (`kana_in`), when the conversion has its answer (`conversion*`). The
runs of `FileTable` do check it. Symmetry is used for clients, names, environments and
entries of `dic_table`, never with a liveness property.

Fairness (`daemon`): the server process runs (`WF_vars(Server)`), and a client that
has connected or has begun a command sends the rest of it. The client library writes a
command into a buffer and flushes it, so a half-sent command is completed unless the
client dies; nothing in the server enforces it, and without it one client stops all the
others in `recv`. No fairness is assumed of connecting, of new commands or of dying.
Fairness (`wire`): client and server run while they have something to read or to write
(`WF_vars(ClientStep)`, `WF_vars(ServerStep)`); nothing is assumed of new calls. That the
conversion ends needs no fairness: `NodesEnd` bounds the rounds of one decision.

## Where code and documentation part

Three findings have a run that shows them.

* `daemon_two_listeners`: `new_client` accepts on one listening socket per `select`, but
  `no_of_ready_socks` counts both when both are ready. `get_client` then looks for ever
  for a ready client (de.c:413-434).
* `file_table_sender_dies`: a client that dies in the middle of JS_FILE_SEND leaves the
  entry taken without contents; the next JS_FILE_SEND or JS_FILE_READ of that file is
  answered with it (do_filecom.c:735-745).
* `conversion_hangs`: `dbn_kai` sets the value of a large phrase to 0 when a small phrase
  connects better (daibn_kai.c:112); `set_daibnsetu` (549) may refuse that small phrase, and
  the pruning (184-191) then empties the list. `mknd_sub` calls `dbn_kai` for such a phrase
  in every round and answers 1 (mknode0.c:344-360). With `kaidbno` of 3 or more the loop of
  renbn_kai.c:129 does not end, where the comment at line 119 says that nodes are made until a
  phrase can be decided. The default of `n` is 2; JS_PARAM_SET may raise it.

The conditions in the properties mark other places where the unconditional statement
does not hold; dropping the condition gives the trace. Some statements that fail are in
the modules with their comment and are checked by no run.

* `DisconnectSaysWhy` (Wire): JS_DISCONNECT of an environment the client does not have is
  answered by three INTs (do_env.c:382-384) where the protocol description (KKTP 4.7) and
  js_disconnect of the client have two: `wnn_errorno` becomes -1.
* `NotSendingIsTold` (Wire): js_file_send of the client, when it cannot open the file any
  more, puts an empty file into its buffer as KKTP 4.24 says and returns without flushing it
  (js.c:1702-1706): the server waits for a file that never comes.
* `CommentAsGiven` (Dictionary): word_add of a word that is there already reads its old
  comment over the one given and compares that with an array it never set
  (jishoop.c:374); the manual (js_lib/word_add:28-29) has the given one stored.
* `CandidatesSpell` excludes katakana that begins behind the end of its phrase: get_kata_kouho is
  called for auxiliary words of any length (jikouho.c:244), where the stems have a guard (170).
  The value, a negative constant times the length, is then positive, so such a candidate comes first.
  It also excludes phrases that a compound part of speech leads to twice (`Ambiguous`): jkt_sbn_one puts the
  word into the node once for each component that connects (jikouho.c:183-239), so two components
  with one vector list the same candidate twice.
* `ConfirmedIsRecent` excludes the word whose js_hindo_set failed: jl_update_hindo marks it as confirmed
  before it asks, looks for nothing but a dead server afterwards and returns 0 (jl.c:1356-1372), so it is
  not asked again.
* `LostOnlyAtTheLimit` says what is lost: jkt_dbn forgets small phrases at the limit `nshobun` that do
  not reach the end of the reading (jikouho_d.c:204-235), with the phrases they continue, until the
  areas are set up again.
* `Listed` (Candidates): a list without candidates is answered as an error if no list was ever
  made (get_dsd_dbn returns its NULL, jikouho_d.c:574), and as an empty list later.
* `CurrentDaiShown` (JlBuf): after jl_zenkouho_dai the current candidate of a list of long
  phrases may be another than the phrases shown (jl.c:2407; manual jl_lib/zenkouho_dai:52).
* `OnlyKillStops`: SIGPIPE is ignored only where the UNIX socket is opened (de.c:995), so
  a server started with `-4` dies when a client has gone before its answer. With `-u` or
  `-4` and without `-D`, descriptor 0 is free and `accept_blk[].sd` of the other socket
  is 0, so the first client is taken for a listening socket (de.c:474).
* `NoStaleUser` says nothing of an entry used for the first time: it shows what `malloc`
  left in `user_name` (de.c:592).
* `DicFilesListed` excludes what happens after a frequency file is discarded that two dictionaries of
  the environment use: copies of one, or one that was loaded twice because a client died while it
  sent it. Discarding ends its use in the first only (do_dic_env.c:484), and the second goes on with a
  freed area.
* `NothingLeaks` needs room in the environment's list: js_file_read ignores that add_fid_to_env
  failed (do_filecom.c:792), and a file that nobody lists is never discarded. It also leaves out the
  area of a fuzokugo file, which discardfile does not free.
* `SavedSurvives` and `BackupWhole` exclude a backup or a move that failed: write_file goes on
  when make_backup_file gave up, and move_tmp_to_org reports no error, so that JS_FILE_WRITE
  answers success (readfile.c:660, 698). The client compares the result of fwrite with -1
  (js.c:1611), which it never is, and moves what it could not write to n. A file cut short
  keeps its header, so the next save makes it the backup.
* `SavedSurvives` excludes reading a frequency file with a comment: writehindo omits the comment
  that readhindo reads before the frequencies (readfile.c:918, 945), so such a file, made by
  JS_HINDO_FILE_CREATE or JS_FILE_COMMENT_SET, cannot be read any more once it was saved. jl.c does
  not offer to set one (jl.c:3645).
* `SavedSurvives`, `CleanIsSaved` and `StillTheSameFile` exclude a client that dies while it saves:
  the server has marked the file clean when it was sent (do_filecom.c:939), so the next save is
  answered without being made although the client's disk has the old version; and what check_backup
  then restores is in another inode than the one the server knows.
* `RefusalLeavesNoTrace` excludes a sender that dies: the parameters read so far stay
  (do_env.c:517).
* `ClientInStep`, `ServerInStep` and `CallReturns` exclude the six events that set
  `astray` in `Wire`. A text that is too long is skipped byte by byte up to the first zero byte, which the
  high half of a character may be (de.c:765-770): the arguments after it are read shifted. Most
  of these arrays have 64 to 1024 characters (LENGTHYOMI 256, WNN_COMMENT_LEN 512); js.c writes a
  text of any length (js.c:547). Another event hangs the client: file_loaded_local returns -1 both for
  "not loaded" and for "cannot be opened", and in the second case js_file_send waits for
  an answer to a request it has not sent (js.c:1675-1686).
* `FrequencyIsTheWords` excludes the frequency files in `missed`, those that belonged to no
  entry of `dic_table` while a word was added or deleted: attached later they are made
  to fit in length only (do_dic_env.c:165), and a new word has what they held for the
  number.
* `SpellsTheText` compares, after a stretch whose second half failed, with what is left:
  the rest of the reading is lost (jl.c:940).
* `NodesEndUnlessEmptied` excludes the lists that `conversion_hangs` is about.
* `DeleteUndoes` excludes a conversion after which a control character that is bound to nothing
  came out (`Unsure`): `buffer_in` refuses it, but `lastoutlen` counts it (rk_main.c:1315), so
  DEL takes back one character too many. After N ^Q, for example, DEL deletes the kana and
  the character before it (uumrc.man:171 has the last character deleted).
* `ScreenTrue`, `TextKept` and `DeleteUndoes` except a line that begins with what the last
  one left (`left`). Nothing clears the automaton between two calls of kana_in: after N CR the
  first DEL in the next line deletes two characters of it and shows the N again. After ESC CR
  `t_ret` ends the loop before it sees CHMSIG, and the mode on the screen is stale.
* Not stated as properties, in `uum`: t_yank compares the length of what it inserts with
  `buflen - t_c_p` and not with `buflen - maxlen`, so that in the middle of a line it may write
  behind the buffer (basic_op.c:439); the loop of `buffer_in` goes on with the rest of an answer
  after a full line made it clear the automaton (basic_op.c:322).
* Not stated as properties, in the engine: with `kaidbno` 1 the head's `son_v` stays 0
  (renbn_kai.c:124, comments at 122 and 153); the loop at daibn_kai.c:192-202 skips the
  element after one it removes; `init_work_areas` frees areas a second time when it is
  called again (get_kaiarea.c:111, mknode1.c:57-58, 78); getsbnsp and getbzdsp return -1
  where their callers test for 0; the nodes of phrases already decided are not given back when
  the conversion is refused (renbn_kai.c:108-109); bnsetu_kai.c:662 refuses when the second vector
  connects, and not when it does not; bnsetu_kai.c:714 tests `c` and not the character
  the loop is at.
* Not stated as a property: `file_uniq_org` becomes the previous `file_uniq`
  (bdic.c:750), so that a dictionary recovered twice no longer matches its frequency file.

## Proofs

`EnvTableProofs` proves, for any finite set of clients, any names and any table sizes
(assumption `ConstAssumption` of `EnvTable`), the theorems `TypeCorrect`,
`NoUseAfterFree`, `ReferenceCounting`, `StickyCounting`, `UniqueNames` and
`OldestIsEvicted`: the type invariant, and the invariants and the action property about
environments (`NamesUnique` is checked in `server` as a part of `ImplementsLeases`: a client that makes
an environment under a name another one has is no step of `Leases`).

None of the invariants is inductive alone. `NoDanglingEnv` needs exact counts (an
environment is freed when its count reaches 0), exact counts need that a client holds an
environment in one slot only (`OneSlotPerEnv`: else clearing one slot does not remove the
client from the holders) and that the table of a client that is not connected is empty
(`TablesReset`: new_client would lose references otherwise). `StickyAccounting` is about
the environments with count 0, so it needs `RefCountExact` too, and `EvictsOldest` and the
choice in `last_sticky` need that stamps of idle environments are distinct and not in the
future (`StampsOrdered`): then the one that is released just now is the newest (`NewestIsKept`).
`IInv` is the conjunction; the proof has one lemma per action
and, under it, a step per conjunct the action can disturb. The lemmas about cardinality
(a client joins or leaves the holders, an environment joins or leaves the idle ones) rest
on `FiniteSetTheorems`.

`EnvironmentsAreLeases` proves `ImplementsLeases`, and `ServesLeases` in `ServerProofs` the same of
the whole server, which is what `server` checks. There is a lemma for each command
(`ConnectJoins`, `ConnectMakes`, `StickyMarks`, `DisconnectReturns`, which `JS_DISCONNECT` and each round of
`del_client` use), and under it one step for each variable of `Leases`. The counters become sets by
`RefCountExact` (the last client is the only holder) and `StickyAccounting` (`sticky_cnt` says when the
sticky places are taken). The stamps become an order: of what stays idle it stays as it was
(`OrderOfFewer`), what is released comes after all the others because its stamp is the newest
(`OrderOfMore`), and what `disconnect_last_sticky` picks is the first (`LastStickyIsFirst`), for all of which
`StampsOrdered` is needed. `SameEnvironments` says that what exists in `env[]` is what is held or kept.

`FileTableProofs` proves, for any finite set of environments, any files and any table
sizes (`ConstantsFit`), `Typed`, `CountsExact` (`FileRefCount`), `EntriesOwned` (`DicOwned`),
`FilesWhole` (`LoadedWholeUnlessBroken`) and `FilesListed` (`DicFilesListed`). The invariant
`IInv` has five parts, each proved inductive with those before it:

* `TypeOK`;
* `Counted`: the counts, with the facts that an environment that does not exist lists nothing
  (else it would come into being with files nobody counted) and that the entry of an upload has
  count 0 and an environment that exists (else the end of the upload would overwrite a listed file);
* `Owned`: no number stands twice in the `jisho[]` of all environments, and the numbers there are
  those of the entries in use. `DicOwned` counts the places; the proof turns "exactly one" into
  "no two and at least one", which the deletions and their moving up of entries preserve one by one;
* `Whole`: every settled file is what its `f_uniq` says, no two have the same, and none has the
  `f_uniq` of the upload in progress, so that the upload does not make a second copy;
* `Listed`: the dictionaries of an environment are made of files it lists *and* of the right type,
  and no two have one body. So a body is used by one dictionary at most, and so is a
  frequency file that is discarded (`~twice`): it is enough that `used_dic_fuzoku_delete` stops at the
  first. This part does not rest on `Whole`.

`ServerProofs` proves that a behaviour of `Server` is one of `EnvTable` (`ImplementsEnvTable`)
and, with `alive` mapped to the entries of `env[]` that are not `NULL`, one of `FileTable`
(`ImplementsFileTable`). The work is in `LiveChanges`: a command of `do_env.c` drops at most one
environment, or makes one and drops none, or drops one and makes one in its entry. So
`FileTable`'s invariant holds of the server (`CountsFiles`), and `StickyKept` proves
`StickyKeepsFiles` from both invariants: nobody holds an idle environment, a command is for one its
client holds, and an upload is for one its sender holds (`SenderHolds`, which is what the death of
the sender must not break).

`NothingIsLeft` proves `NothingLeaks` in the behaviours in which every environment either has room in
its list or lists all files (`RoomToList`). In the run `server` the constants give
that room; `jserver` has 600 files and 60 places in a list, so there it is a
condition on the clients. The part about the tables is `FreedWhenUnlisted` of `FileTableProofs`:
`AreasFreed` says that what no environment lists has been freed, unless it is a default or a fuzokugo file.
It needs `Counted`, by which the count of a file is 1 just when its last environment gives it up;
the entries of `dic_table[]` are free because of `Owned`.

`DaemonProofs` proves, for any finite number of clients, any acceptors that are distinct and any
length of the client table (`ConfigurationFits`), `TableIsExact` (`TableExact`), `GetClientReturns`
(`OneListenerFindsOne`), `NothingElseStops` (`OnlyKillStops`) and `UsersOwn` (`NoStaleUser`). The
invariant adds to these:

* `Sockets`: a client has one descriptor at most, and the descriptors after those of the acceptors
  are clients' or free. There is one more than clients, so accept finds a free one (`DescriptorLeft`,
  by counting), which may be 0 or that of an acceptor not opened;
* `Queues`: a connection waits at one socket, once, and is not in the table, so that accept does not
  give a client a second descriptor;
* `Round`: `no_of_ready_socks` is the size of `ready_socks`, whose descriptors are open, and the
  client being served is in the table and no longer ready. Hence what `del_client` removes is not
  reported, and with one listening socket a count that is not 0 means a ready client (with two the
  second socket may be what is left, the run `daemon_two_listeners`);
* `Users`: entries that are not in use carry no client's name, so the entry moved by `del_client`
  brings its own name and a new client finds none.

`FileStoreProofs` proves, for any bounds (`BoundsAssumption`), `SavedSurvivesDeaths`
(`SavedSurvives`), `BackupIsWhole` (`BackupWhole`), `FileKeepsItsIdentity` (`StillTheSameFile`),
`CleanFileIsOnDisk` (`CleanIsSaved`) and `TypeCorrect`. All four are about the file check_backup would
find, which may be n or n#, so the invariant has to say at each place of the programs which of
the three names exist, which are links to one inode, and what is in it. It is stated by place
(`Checking`, `BackingUp`, `Changing`, `Saving`), the same for all commands that pass there:

* `Control`: which programs run when, and that the client has contents of its own just while it
  writes them; `Fresh`: inodes and versions not yet given out are not in use, so a new n~ is
  none of the others;
* `Disk`: after make_backup_file, n# is another inode with the contents of n or there is no
  backup, because it failed or there was nothing to copy; n~ is neither n nor n#;
* `Safe`: what check_backup would find is fine, and so is what stands behind it: the new
  n~ before n# is removed, the file in memory, what was sent. Where n is written over there is an n#;
* `Moved`: from write_file_real to the answer n~, then n, is what was to be written, if no call of
  the move failed. Only this connects the file in memory with the one on disk;
* `InMemory`: n is the file in memory up to its changes, and those are marked. This needs
  the mode of a save (else a file replaced on disk would be marked clean) and that a
  client that saves has the version the server marked clean.

`PlaceOfCall` says which place each call has, from the lists of calls (`BackupCalls` and others),
`GoesOn` where a program goes on; then there is one lemma per action and one case per place.
The invariant was checked by TLC first, also with two failures.

`ParamSetProofs` proves, for any clients, any list of parameters that begins with `nbun` and
`nshobun`, and any values, `ParametersTyped` and `RefusedSetUndone`
(`RefusalLeavesNoTrace`). The latter says nothing of the time while a command is
executed, so it is not inductive; `CopyIsAgreed` adds that the copy is then what was
agreed on last, and that what was agreed on is valid.

`WireProofs` proves, for any number of calls, any lengths of lists and files and any sizes of
the tables that are sent (`BoundsAssumption`), however `recv` cuts what was written, `ServerStaysInStep`
(`ServerInStep`), `ClientStaysInStep` (`ClientInStep`) and `AnswersReadWhole`
(`AnswerReadWhole`). There are two halves.

* The tables of commands. `Agrees(c, g)` says of one answer that the function of js.c which has
  read k values of it wants as its next field the one that comes next, for each k, and
  stops at the end; `Right(c)`, that the handler takes what the function asks and all its answers
  agree. `EveryCommandRight` proves it for all commands. Most are of a few patterns (executed or
  refused, one number, a list, users and environments, short phrases); three depend on what has been
  read farther back: long phrases, whose records say how many short ones follow
  (`DaiAgrees`), words, whose records end with a -1 (`WordsAgree`), and the names
  of word classes. js_disconnect reads less than its refusal, and `Agrees` says so
  (`ReadOf`, `Fits`). Long phrases agree for any list of counts, of which the model gives four.
* The conversation. `ClientInStep` says what the first unread token is and nothing of those
  behind it, or of who may write next, so it is not inductive. `InStep` gives, for each place of the
  server, the places where the client can be and the whole of what is on the way in both
  directions: the header and the arguments not yet read, nothing, what is left of an answer after k
  fields, what is left of a file. `recv` moves tokens between the socket and a buffer and leaves
  their sequence (`RecvKeeps`), so the invariant speaks of the two together, but for what is behind a
  whole request in `sr`, which the server forgets. The hard cases are those where both sides move: a file
  the client refuses, whose acknowledgement may still be unread when the next request is written,
  and a server that dies, of whose answer the client finds all or none. There is one lemma
  for each action. TLC checked `InStep` first.

`InStep` holds until step is lost (`astray`) by one of the six events listed under `Wire` above,
with which the model ends. `Typed`, proved together with `InStep`, is the type invariant for
all bounds; `TypeOK` only adds the limits that `MaxCalls` sets on numbers.

`AnswersFit` proves `AnswerFits`: what `js.c` copies of an answer fits into the buffer it
allocates by the sums the server sends ahead, for any number of words, phrases and class names.

* What is stored is the set of characters of the texts (`Stored`), each with its number, so
  that it can be counted by a map into places instead of added up. An answer is a head and n
  items of the same fields; if the texts of an item have places in w characters (`Texts`), those
  of the answer have places in n * w, each in its item (`RoomFor`, `TextsFit`).
* What is announced is read back from where the server put it (`Announced`, `NumbersAhead`, `ValueAt`),
  and is n * w (`SumIsRoom`). There is one lemma for each kind of answer: `ShoFits`, `DaiFits`, whose
  large phrases have no fixed length, `WordsFit` and `WordInfoFits`, `HinsiNameFits`,
  `HinsiListFits`. `AnswerHasRoom` joins them for all commands that allocate.
* What the client has read when it has read all is a whole answer of the server, by `InStep`;
  `Fitting` keeps what follows from it when step is lost afterwards (`AstrayFits`).

The bounds of the buffers that are not allocated by an answer are not the subject of `AnswerFits`.

Only model-checked: everything about the other modules, and all liveness (`CallReturns`, `Served`,
`Accepted`, `DeadRemoved`), which is outside what the prover handles. The conversion engine, the dictionary indices, the conversion
buffer and the automaton are written with RECURSIVE operators (a depth-first walk of a tree, a
bisection, a match), which the prover does not take, so they stay with TLC.

## Not modelled

* Conversion engine: the search
  of a reading in the dictionaries (`jmt0.c`; a reading comes with its stems), auxiliary words
  given with `beginvect`, the little by which a pseudo phrase in ASCII is
raised in value, and want of memory.
* Frequencies: the probabilistic increment and the packing of the value in a byte.
* Files: the sections but for the comment, byte order, files written under another
  name, creation and removal of files, static dictionaries.
* Client library: opening connections, `serverdefs`, the table of environments of `jl.c`
  and `wnnenvrc`, and the calls of jl that only pass through.
* Automaton: reading the tables, end of file (LTREOF, romkan_getc), the arithmetic functions.
  `uum`: all screens but the line of `kana_in`, and in it kill, yank, quoted characters and the
  conversion at a full stop.
* The rest of `uum`, key conversion, the batch utilities, `Xwnmo`, the data of dictionaries: see
  "components" in `PROJECT.json` for each. Most of the source lines are there, and most
  of those are terminal, X and file I/O.
* Overflow: of `sticky_time` it is excluded by `StickyTimeBound`.

## Plan

1. Files written under another name, created and removed (`do_filecom.c`), and what the
   identities are good for then: which frequency file belongs to which dictionary.
2. The conversion buffer without recursion along its chains, so that what `jl_buf` checks of the
   blocks (`BlocksCounted`) can be proved as long as no count reaches the limit of its four bits.
