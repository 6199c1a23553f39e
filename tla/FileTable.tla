------------------------------ MODULE FileTable ------------------------------
(***************************************************************************)
(* The files jserver has in memory (Wnn/jserver/do_filecom.c) and the      *)
(* dictionaries the environments make of them (do_dic_env.c).  A file is   *)
(* loaded once, found again by its f_uniq, and counted in ref_count by the *)
(* environments that list it; a dictionary pairs a body file with an       *)
(* optional frequency (hindo) file; an environment may also have one file  *)
(* of particles (fuzokugo).                                                *)
(*                                                                         *)
(* A command is one step, except JS_FILE_SEND of a file that is not loaded *)
(* yet: the server reads it from the client, which may die at any point    *)
(* (getc_cur then leaves the handler by longjmp to daemon_main).           *)
(***************************************************************************)
EXTENDS Integers, Sequences, FiniteSets

CONSTANTS
    Envs,            \* the indices of env[]
    Dicts, Hindos, Fzks,  \* the files, as their f_uniq, by file_type
    Match,           \* the pairs of a dictionary and a hindo file that fits it
    Null,            \* no f_uniq, or a NULL area
    DefaultFiles,    \* the files jserverrc has the server read when it starts
    MaxFiles,        \* MAX_FILES, the length of files[]; entry 0 is not used
    MaxFileOfEnv,    \* WNN_MAX_FILE_OF_AN_ENV
    MaxDic,          \* MAX_DIC, the length of dic_table[]
    MaxJishoOfEnv    \* WNN_MAX_JISHO_OF_AN_ENV

Uniqs == Dicts \cup Hindos \cup Fzks
Fid   == 1 .. MaxFiles - 1
DicNo == 0 .. MaxDic - 1

\* The fids of the default files: they are read before any other.
Resident == DOMAIN DefaultFiles

ASSUME ConstantsFit ==
    /\ IsFiniteSet(Envs)
    /\ Dicts \cap Hindos = {} /\ Dicts \cap Fzks = {} /\ Hindos \cap Fzks = {}
    /\ Match \subseteq Dicts \X Hindos
    /\ Null \notin Uniqs
    /\ DefaultFiles \in Seq(Uniqs) /\ Len(DefaultFiles) < MaxFiles
    /\ \A f, g \in Resident : DefaultFiles[f] = DefaultFiles[g] => f = g
    /\ MaxFiles \in Nat /\ MaxFileOfEnv \in Nat
    /\ MaxDic \in Nat /\ MaxJishoOfEnv \in Nat

VARIABLES
    alive,       \* the environments that exist
    files,       \* files[]: reference count, f_uniq and area (what it holds)
    file,        \* file[e]: the fids environment e lists
    jisho,       \* jisho[e]: the dictionaries of e, in search order
    dic_table,   \* dic_table[]: body and hindo fids, -1 for none
    fzk_fid,     \* fzk_fid[e]: the fuzokugo file of e, or -1
    sending,     \* the JS_FILE_SEND in progress, or NotSending
    broken,      \* whether a JS_FILE_SEND was ever broken off
    twice        \* whether a hindo file two dictionaries use was ever discarded

filevars == <<files, file, jisho, dic_table, fzk_fid, sending, broken, twice>>
vars == <<alive, filevars>>

NotSending == [stage |-> "no"]

FileEntry == [ref_count : Int, uniq : Uniqs \cup {Null}, area : Uniqs \cup {Null}]
DicEntry  == [body : Fid \cup {-1}, hindo : Fid \cup {-1}]
Upload    == [stage : {"header", "body"}, env : Envs, fid : Fid, uniq : Uniqs]

TypeOK ==
    /\ alive \subseteq Envs
    /\ files \in [Fid -> FileEntry]
    /\ file \in [Envs -> SUBSET Fid]
    /\ jisho \in [Envs -> Seq(DicNo)]
    /\ dic_table \in [DicNo -> DicEntry]
    /\ fzk_fid \in [Envs -> Fid \cup {-1}]
    /\ sending \in {NotSending} \cup Upload
    /\ broken \in BOOLEAN /\ twice \in BOOLEAN

----------------------------------------------------------------------------
Loaded == {f \in Fid : files[f].ref_count # -1}

\* find_file_by_uniq and get_new_fid return the first fid that fits.
WithUniq(u) == {f \in Loaded : files[f].uniq = u}
find_file_by_uniq(u) == CHOOSE f \in WithUniq(u) : \A g \in WithUniq(u) : f <= g
get_new_fid_bug == 0  \* faulty: does not skip the unused entry 0
get_new_fid == CHOOSE f \in Fid \ Loaded : \A g \in Fid \ Loaded : f <= g

\* new_fid_in_env: whether file[] of the environment has a free entry.
HasRoom(e) == Cardinality(file[e]) < MaxFileOfEnv

Using_bug(e, f) ==  \* faulty: overlooks the hindo files
    {i \in DOMAIN jisho[e] : dic_table[jisho[e][i]].body = f}

\* chk_dic, chk_hindo, find_dic_in_env: positions in jisho[e], and the first.
Using(e, f) == {i \in DOMAIN jisho[e] :
    dic_table[jisho[e][i]].body = f \/ dic_table[jisho[e][i]].hindo = f}
WithBody(e, f) == {i \in DOMAIN jisho[e] : dic_table[jisho[e][i]].body = f}
First(S) == CHOOSE i \in S : \A j \in S : i <= j

FreeDics == {d \in DicNo : dic_table[d].body = -1}
NoDic == [body |-> -1, hindo |-> -1]

del_dic_from_env_bug(e, i) ==  \* faulty: the wrong entry goes
    SubSeq(jisho[e], 1, i) \o SubSeq(jisho[e], i + 2, Len(jisho[e]))

\* del_dic_from_env: the entries after the deleted one move up.
del_dic_from_env(e, i) ==
    SubSeq(jisho[e], 1, i - 1) \o SubSeq(jisho[e], i + 1, Len(jisho[e]))

\* discardfile and the reset of ref_count.  f_uniq stays in the entry, and so
\* does the area of a fuzokugo file, which is never freed.
discarded(x) == [ref_count |-> -1, uniq |-> x.uniq,
                 area |-> IF x.uniq \in Fzks THEN x.area ELSE Null]
released_early(x) == discarded(x)  \* faulty: does not count
released(x) ==
    IF x.ref_count = 1 THEN discarded(x) ELSE [x EXCEPT !.ref_count = @ - 1]

Idling == sending = NotSending
MayUse(e) == Idling /\ e \in alive

----------------------------------------------------------------------------
\* file_init and read_default_files: a default file has ref_count 1 though no
\* environment lists it, which keeps it in memory.
Init ==
    /\ alive = {}
    /\ files = [f \in Fid |->
         IF f \in Resident
         THEN [ref_count |-> 1, uniq |-> DefaultFiles[f], area |-> DefaultFiles[f]]
         ELSE [ref_count |-> -1, uniq |-> Null, area |-> Null]]
    /\ file = [e \in Envs |-> {}]
    /\ jisho = [e \in Envs |-> <<>>]
    /\ dic_table = [d \in DicNo |-> NoDic]
    /\ fzk_fid = [e \in Envs |-> -1]
    /\ sending = NotSending
    /\ broken = FALSE /\ twice = FALSE

\* del_all_dic_in_env and del_all_file_in_env, when do_env.c frees e.
free_env_files(e) ==
    /\ Idling
    /\ files' = [f \in Fid |-> IF f \in file[e] THEN released(files[f]) ELSE files[f]]
    /\ dic_table' = [d \in DicNo |->
         IF \E i \in DOMAIN jisho[e] : jisho[e][i] = d THEN NoDic ELSE dic_table[d]]
    /\ file' = [file EXCEPT ![e] = {}]
    /\ jisho' = [jisho EXCEPT ![e] = <<>>]
    /\ fzk_fid' = [fzk_fid EXCEPT ![e] = -1]
    /\ UNCHANGED <<sending, broken, twice>>

new_env(e) ==
    /\ Idling /\ e \notin alive
    /\ alive' = alive \cup {e}
    /\ UNCHANGED filevars

\* conn1 may give the entry of a dropped environment to a new one at once.
del_env(e) ==
    /\ e \in alive
    /\ alive' \in {alive, alive \ {e}}
    /\ free_env_files(e)

\* JS_FILE_READ and JS_FILE_SEND of a file that is loaded: file_already_read,
\* x_file_already_read.  Nothing changes when file[] of e is full.
file_already_read(e, u) ==
    /\ MayUse(e) /\ WithUniq(u) # {}
    /\ LET f == find_file_by_uniq(u) IN
        /\ f \notin file[e] /\ HasRoom(e)
        /\ file' = [file EXCEPT ![e] = @ \cup {f}]
        /\ files' = [files EXCEPT ![f].ref_count = @ + 1]
    /\ UNCHANGED <<alive, jisho, dic_table, fzk_fid, sending, broken, twice>>

\* The end of a successful read_file: the file is listed in e when e has
\* room, and answered to the client whether it is listed or not.
add_read_file(e, f, u) ==
    /\ files' = [files EXCEPT ![f] =
         [ref_count |-> IF HasRoom(e) THEN 1 ELSE 0, uniq |-> u, area |-> u]]
    /\ file' = IF HasRoom(e) THEN [file EXCEPT ![e] = @ \cup {f}] ELSE file

fail_read_file_bug(f, u) ==  \* faulty: the entry is not given back
    /\ files' = [files EXCEPT ![f] = [ref_count |-> 0, uniq |-> u, area |-> Null]]
    /\ UNCHANGED file

\* The end of a read_file that failed after the header.
fail_read_file(f, u) ==
    /\ files' = [files EXCEPT ![f] = [ref_count |-> -1, uniq |-> u, area |-> Null]]
    /\ UNCHANGED file

\* JS_FILE_READ of a file that is not loaded, from the server's disk.
js_file_read(e, u) ==
    /\ MayUse(e) /\ WithUniq(u) = {}
    /\ Fid \ Loaded # {}
    /\ add_read_file(e, get_new_fid, u) \/ fail_read_file(get_new_fid, u)
    /\ UNCHANGED <<alive, jisho, dic_table, fzk_fid, sending, broken, twice>>

\* JS_FILE_SEND of a file that is not loaded.  The entry is taken, with the
\* f_uniq of the file it held before, and the client is asked for the file.
js_file_send(e, u) ==
    /\ MayUse(e) /\ WithUniq(u) = {}
    /\ Fid \ Loaded # {}
    /\ files' = [files EXCEPT ![get_new_fid].ref_count = 0]
    /\ sending' = [stage |-> "header", env |-> e, fid |-> get_new_fid, uniq |-> u]
    /\ UNCHANGED <<alive, file, jisho, dic_table, fzk_fid, broken, twice>>

\* The header of the file arrives: f_uniq, file_type, and ref_count again.
send_header ==
    /\ sending.stage = "header"
    /\ files' = [files EXCEPT ![sending.fid].uniq = sending.uniq]
    /\ sending' = [sending EXCEPT !.stage = "body"]
    /\ UNCHANGED <<alive, file, jisho, dic_table, fzk_fid, broken, twice>>

\* The header is not one of a Wnn file.
send_bad_header ==
    /\ sending.stage = "header"
    /\ files' = [files EXCEPT ![sending.fid].ref_count = -1]
    /\ sending' = NotSending
    /\ UNCHANGED <<alive, file, jisho, dic_table, fzk_fid, broken, twice>>

\* The rest of the file arrives, whole or not.
send_body ==
    /\ sending.stage = "body"
    /\ \/ add_read_file(sending.env, sending.fid, sending.uniq)
       \/ fail_read_file(sending.fid, sending.uniq)
    /\ sending' = NotSending
    /\ UNCHANGED <<alive, jisho, dic_table, fzk_fid, broken, twice>>

\* The client dies: longjmp (client_dead) skips the rest of js_file_send.
sender_dies ==
    /\ ~Idling
    /\ sending' = NotSending
    /\ broken' = TRUE
    /\ UNCHANGED <<alive, files, file, jisho, dic_table, fzk_fid, twice>>

\* used_dic_fuzoku_delete: the file stops being the fuzokugo file of e, or
\* else the first dictionary of e that uses it is deleted.
used_dic_fuzoku_delete(e, f) ==
    IF fzk_fid[e] = f
    THEN /\ fzk_fid' = [fzk_fid EXCEPT ![e] = -1]
         /\ UNCHANGED <<jisho, dic_table>>
    ELSE /\ UNCHANGED fzk_fid
         /\ IF Using(e, f) = {} THEN UNCHANGED <<jisho, dic_table>>
            ELSE LET i == First(Using(e, f)) IN
                 /\ dic_table' = [dic_table EXCEPT ![jisho[e][i]] = NoDic]
                 /\ jisho' = [jisho EXCEPT ![e] = del_dic_from_env(e, i)]

\* One hindo file may have been made for several dictionaries (copies of one).
HindoOfTwo(e, f) == \E i, j \in DOMAIN jisho[e] :
    i # j /\ dic_table[jisho[e][i]].hindo = f /\ dic_table[jisho[e][j]].hindo = f

\* JS_FILE_DISCARD of a file e lists.
js_file_discard(e, f) ==
    /\ MayUse(e) /\ f \in file[e]
    /\ file' = [file EXCEPT ![e] = @ \ {f}]
    /\ used_dic_fuzoku_delete(e, f)
    /\ files' = [files EXCEPT ![f] = released(@)]
    /\ twice' = (twice \/ HindoOfTwo(e, f))
    /\ UNCHANGED <<alive, sending, broken>>

\* JS_DIC_ADD: a dictionary file e lists, with its own frequencies (h = -1) or
\* those of a hindo file e lists that was made for it.  A file that is a
\* dictionary of e already gets the new hindo file; passwords are not modelled.
MayAdd(e, f, h) ==
    /\ f \in file[e] /\ files[f].uniq \in Dicts
    /\ h # -1 => /\ h \in file[e] /\ files[h].uniq \in Hindos
                 /\ <<files[f].uniq, files[h].area>> \in Match

js_dic_add(e, f, h) ==
    /\ MayUse(e) /\ MayAdd(e, f, h)
    /\ \/ /\ WithBody(e, f) # {}
          /\ dic_table' = [dic_table EXCEPT
                             ![jisho[e][First(WithBody(e, f))]].hindo = h]
          /\ UNCHANGED jisho
       \/ /\ WithBody(e, f) = {}
          /\ FreeDics # {} /\ Len(jisho[e]) < MaxJishoOfEnv
          /\ dic_table' = [dic_table EXCEPT ![First(FreeDics)] = [body |-> f, hindo |-> h]]
          /\ jisho' = [jisho EXCEPT ![e] = Append(@, First(FreeDics))]
    /\ UNCHANGED <<alive, files, file, fzk_fid, sending, broken, twice>>

\* JS_DIC_DELETE of a dictionary of e.
js_dic_delete(e, i) ==
    /\ MayUse(e) /\ i \in DOMAIN jisho[e]
    /\ dic_table' = [dic_table EXCEPT ![jisho[e][i]] = NoDic]
    /\ jisho' = [jisho EXCEPT ![e] = del_dic_from_env(e, i)]
    /\ UNCHANGED <<alive, files, file, fzk_fid, sending, broken, twice>>

\* JS_FUZOKUGO_SET.
js_fuzokugo_set(e, f) ==
    /\ MayUse(e) /\ f \in file[e] /\ files[f].uniq \in Fzks
    /\ fzk_fid' = [fzk_fid EXCEPT ![e] = f]
    /\ UNCHANGED <<alive, files, file, jisho, dic_table, sending, broken, twice>>

Command(e) ==
    \/ \E u \in Uniqs : file_already_read(e, u) \/ js_file_read(e, u) \/ js_file_send(e, u)
    \/ \E f \in Fid :
        \/ js_file_discard(e, f)
        \/ js_fuzokugo_set(e, f)
        \/ \E h \in Fid \cup {-1} : js_dic_add(e, f, h)
    \/ \E i \in 1 .. MaxJishoOfEnv : js_dic_delete(e, i)

Transfer == send_header \/ send_bad_header \/ send_body \/ sender_dies

Next ==
    \/ \E e \in Envs : new_env(e) \/ del_env(e) \/ Command(e)
    \/ Transfer

Spec == Init /\ [][Next]_vars

----------------------------------------------------------------------------
Users(f) == {e \in alive : f \in file[e]}

(***************************************************************************)
(* ref_count of a loaded file is the number of environments that list it,  *)
(* and one more if it is a default file; every listed file is loaded: no   *)
(* environment keeps the fid of a file that was discarded through another  *)
(* one, and the default files are never discarded.                         *)
(***************************************************************************)
FileRefCount ==
    /\ \A f \in Loaded : files[f].ref_count =
         Cardinality(Users(f)) + (IF f \in Resident THEN 1 ELSE 0)
    /\ \A e \in alive : file[e] \subseteq Loaded
    /\ Resident \subseteq Loaded

(***************************************************************************)
(* dic_table[] and the jisho[] of the environments agree: an entry in use  *)
(* belongs to one environment, at one position, and no position names a    *)
(* free entry, through all the deletions and re-additions.                 *)
(***************************************************************************)
Owners(d) == {o \in alive \X (1 .. MaxJishoOfEnv) :
                o[2] \in DOMAIN jisho[o[1]] /\ jisho[o[1]][o[2]] = d}

DicOwned == \A d \in DicNo :
    Cardinality(Owners(d)) = IF dic_table[d].body = -1 THEN 0 ELSE 1

(***************************************************************************)
(* A dictionary of an environment, its frequencies and the fuzokugo file   *)
(* are files the environment lists, so that conversion never reaches one   *)
(* that was discarded (henkan uses files[].area without a check) -- until  *)
(* a hindo file is discarded that two dictionaries of an environment use:  *)
(* used_dic_fuzoku_delete deletes the first of them and returns            *)
(* (do_dic_env.c:484).  They may be copies of one dictionary, or one that  *)
(* was loaded twice after a client died in the middle of JS_FILE_SEND.     *)
(***************************************************************************)
DicFilesListed == ~twice => \A e \in alive :
    /\ fzk_fid[e] \in file[e] \cup {-1}
    /\ \A i \in DOMAIN jisho[e] :
        /\ dic_table[jisho[e][i]].body \in file[e]
        /\ dic_table[jisho[e][i]].hindo \in file[e] \cup {-1}

(***************************************************************************)
(* A file an environment lists is the whole file its f_uniq names, and no  *)
(* file is loaded twice: what file_already_read attaches to an environment *)
(* is what js_file_read would have read.  (A free entry keeps the f_uniq   *)
(* of its last file and shows it again while js_file_send waits for a new  *)
(* header; the entry of a transfer in progress is not counted.)            *)
(***************************************************************************)
Settled == {f \in Loaded : Idling \/ f # sending.fid}

LoadedWhole ==
    /\ \A e \in alive : \A f \in file[e] : files[f].area = files[f].uniq
    /\ \A u \in Uniqs : Cardinality(Settled \cap WithUniq(u)) <= 1

(***************************************************************************)
(* That is so as long as no client has died in the middle of JS_FILE_SEND, *)
(* though files are sent, read, discarded and sent again and though one of *)
(* them fails half way.                                                    *)
(***************************************************************************)
LoadedWholeUnlessBroken == ~broken => LoadedWhole

==============================================================================
