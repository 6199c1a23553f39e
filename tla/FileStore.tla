----------------------------- MODULE FileStore -----------------------------
(***************************************************************************)
(* How a dictionary or frequency file is kept on disk: by jserver, with    *)
(* write_file (Wnn/jserver/readfile.c) and file_loaded (do_filecom.c), or  *)
(* by a client that sends and receives it (Wnn/jlib/js.c), and the backup  *)
(* scheme they share (Wnn/etc/bdic.c).  The file n is copied to n#, the    *)
(* new contents are written to n~ and then moved to n, and n# is removed;  *)
(* check_backup, before every use of n, removes a left n~ and puts a left  *)
(* n# back in the place of n.                                              *)
(*                                                                         *)
(* A command is the sequence of its system calls; the server or the client *)
(* may die between any two of them and in the middle of a copy.  The       *)
(* contents of a file are a version, the two identities of its header      *)
(* (file_uniq, which holds the inode it was made in, and file_uniq_org),   *)
(* whether its header announces a comment and whether it has one.          *)
(***************************************************************************)
EXTENDS Integers, Sequences

CONSTANTS
    MaxIno,       \* bound: inodes the run may allocate
    MaxEdits,     \* bound: changes to the file in memory
    MaxErrors     \* bound: calls of fopen and fwrite that fail, and deaths of clients

ASSUME BoundsAssumption ==
    /\ MaxIno \in Nat \ {0}
    /\ MaxEdits \in Nat
    /\ MaxErrors \in Nat

VARIABLES
    wf,       \* the type of the file, and whether it is the server's or a client's
    dir,      \* the inode each name is linked to, 0 if there is no such file
    data,     \* the contents of each inode
    ino,      \* the inode allocated last
    mem,      \* the file in memory, or NotLoaded
    edits,    \* the number of changes made so far: each one is a version
    saved,    \* the last version js_file_write or js_file_receive called saved
    todo,     \* the system call that comes next: the program, the position in it, and
              \* the mode of the save, 1 (or 2) for a changed file over itself, 3 for any other
    sent,     \* what the server has sent of its file to the client that saves it
    errors,   \* the number of calls that failed so far
    failed    \* what they were part of

vars == <<wf, dir, data, ino, mem, edits, saved, todo, sent, errors, failed>>

Names == {"n", "n~", "n#"}
Ino   == 1 .. MaxIno
Torn  == [ver |-> -1, uniq |-> 0, org |-> 0, maxcomment |-> 0, comment |-> 0]
NotSent   == Torn
NotLoaded == [ver |-> -1, uniq |-> 0, org |-> 0, maxcomment |-> 0, dirty |-> FALSE]

\* A file that is not whole may have a header (it was cut short) or none (Torn).
Whole(d) == d.ver # -1
CutShort(d) == [d EXCEPT !.ver = -1]

\* Both take the comment the header announces and then the rest; readdict wants
\* the file to end there, readhindo does not look.
readdict(d)  == Whole(d) /\ d.comment = d.maxcomment
readhindo(d) == Whole(d) /\ d.comment >= d.maxcomment
Readable(d)  == IF wf.file_type = "DICT" THEN readdict(d) ELSE readhindo(d)

Contents == [ver : -1 .. MaxEdits, uniq : Ino, org : Ino, maxcomment : 0 .. 1, comment : 0 .. 1]

----------------------------------------------------------------------------
\* The functions of bdic.c as the calls they make.  Those that may fail name the
\* function: the backup of n, the temporary file, or its move to n.
check_backup     == << <<"unlink", "n~">>, <<"restore", "n#">>,
                       <<"unlink", "n">>, <<"link", "n#", "n">>, <<"unlink", "n#">> >>
make_backup_file_bug ==  \* faulty: n# is linked before it is copied
    << <<"creat", "n~", "backup">>, <<"unlink", "n#">>, <<"link", "n~", "n#">>,
       <<"copy", "n", "n~", "backup">>, <<"unlink", "n~">> >>
make_backup_file == << <<"creat", "n~", "backup">>, <<"copy", "n", "n~", "backup">>,
                       <<"unlink", "n#">>, <<"link", "n~", "n#">>, <<"unlink", "n~">> >>
make_tmp_file    == << <<"creat", "n~", "tmp">> >>
move_by_copy     == << <<"creat", "n", "move">>, <<"copy", "n~", "n", "move">>,
                       <<"unlink", "n~">> >>
move_by_link     == << <<"unlink", "n">>, <<"link", "n~", "n">>, <<"unlink", "n~">> >>

\* Faulty: the backup is removed before n is written, or n is replaced by link.
write_file_early ==
    make_backup_file \o make_tmp_file \o << <<"write">>, <<"unlink", "n#">> >>
        \o move_by_copy \o << <<"answer">> >>
write_file_link ==
    make_backup_file \o make_tmp_file \o << <<"write">> >> \o move_by_link
        \o << <<"unlink", "n#">>, <<"answer">> >>

\* write_file once it is known what is to be done.
write_file ==
    make_backup_file \o make_tmp_file \o << <<"write">> >> \o move_by_copy
        \o << <<"unlink", "n#">>, <<"answer">> >>

\* The same in js_file_receive: the server sends what the client writes.
receive_file ==
    make_backup_file \o make_tmp_file \o << <<"send">>, <<"write">> >>
        \o move_by_copy \o << <<"unlink", "n#">>, <<"answer">> >>

\* change_file_uniq, after which the file is looked at again.
change_file_uniq ==
    make_backup_file \o make_tmp_file \o << <<"new_uniq">> >> \o move_by_link
        \o << <<"unlink", "n#">> >> \o check_backup \o << <<"file_loaded">> >>

\* A command looks at the file first and then goes on with another program, or
\* with undo, where n~ and the backup are removed.
Program ==
    [read    |-> check_backup \o << <<"file_loaded">> >>,
     change  |-> change_file_uniq,
     look    |-> check_backup \o << <<"must_write_file">> >>,
     write   |-> write_file,
     receive |-> receive_file,
     keep    |-> << <<"answer">> >>,
     undo    |-> << <<"unlink", "n~">>, <<"unlink", "n#">> >>]

None == [op |-> "none", at |-> 0, m |-> 0]
Start(op, m) == [op |-> op, at |-> 1, m |-> m]
Undo(k) == [op |-> "undo", at |-> k, m |-> 0]

Idle == todo = None
Loaded == mem # NotLoaded
Next1 == Program[todo.op][todo.at]   \* the next call, when there is one
Skip(k) == IF todo.at + k > Len(Program[todo.op]) THEN None ELSE [todo EXCEPT !.at = @ + k]
Is(call) == ~Idle /\ Next1[1] = call

TypeOK ==
    /\ wf \in [file_type : {"DICT", "HINDO"}, localf : {"LOCAL", "REMOTE"}]
    /\ dir \in [Names -> Ino \cup {0}]
    /\ data \in [Ino -> {Torn} \cup Contents]
    /\ ino \in Ino
    /\ mem \in {NotLoaded} \cup
         [ver : 0 .. MaxEdits, uniq : Ino, org : Ino, maxcomment : 0 .. 1, dirty : BOOLEAN]
    /\ edits \in 0 .. MaxEdits
    /\ saved \in 0 .. MaxEdits
    /\ sent \in {NotSent} \cup Contents
    /\ errors \in 0 .. MaxErrors
    /\ todo \in [op : DOMAIN Program \cup {"none"}, at : 0 .. 17, m : {0, 1, 3}]
    /\ failed \subseteq {"backup", "tmp", "move", "client"}

\* Whose file it is.  While a client saves what it was sent the server goes on.
Servers == wf.localf = "LOCAL"
ServerFree == Idle \/ sent # NotSent

\* A call of the function part fails.
Fails(part) ==
    /\ errors < MaxErrors /\ errors' = errors + 1
    /\ failed' = failed \cup {part}

\* Whether a name can get a file: it has one, or the bound leaves an inode.
InodeFor(x) == dir[x] # 0 \/ ino < MaxIno

----------------------------------------------------------------------------
\* The file was made in inode 1, with a comment or without, and was never moved.
Init ==
    /\ wf \in [file_type : {"DICT", "HINDO"}, localf : {"LOCAL", "REMOTE"}]
    /\ dir = [x \in Names |-> IF x = "n" THEN 1 ELSE 0]
    /\ \E c \in 0 .. 1 : data = [i \in Ino |->
         IF i = 1 THEN [ver |-> 0, uniq |-> 1, org |-> 1, maxcomment |-> c, comment |-> c]
         ELSE Torn]
    /\ ino = 1
    /\ mem = NotLoaded
    /\ edits = 0 /\ saved = 0
    /\ todo = None /\ sent = NotSent
    /\ errors = 0 /\ failed = {}

\* A command begins.
Begin(op) ==
    /\ Idle
    /\ todo' = Start(op, 0)
    /\ UNCHANGED <<wf, dir, data, ino, mem, edits, saved, sent, errors, failed>>

js_file_read == Servers /\ ~Loaded /\ Begin("read")

\* The client looks at its file as file_loaded does before it sends the contents.
js_file_send == ~Servers /\ ~Loaded /\ Begin("read")

js_file_write == Servers /\ Loaded /\ Begin("look")

\* The client sends the header of the file it is going to replace.
js_file_receive == ~Servers /\ Loaded /\ Begin("look")

\* A command that changes a word or a frequency, or the comment of the file.
edit(maxcomment) ==
    /\ ServerFree /\ Loaded /\ edits < MaxEdits
    /\ edits' = edits + 1
    /\ mem' = [mem EXCEPT !.ver = edits + 1, !.maxcomment = maxcomment, !.dirty = TRUE]
    /\ UNCHANGED <<wf, dir, data, ino, saved, todo, sent, errors, failed>>

js_file_comment_set == edit(1)
change == edit(mem.maxcomment)

\* The server dies, or the file is discarded without being saved.  A client that
\* has all the contents goes on until it waits for the answer.
crash ==
    /\ Loaded \/ (~Idle /\ sent = NotSent)
    /\ \/ todo' = None /\ sent' = NotSent
       \/ sent # NotSent /\ UNCHANGED <<todo, sent>>
    /\ mem' = NotLoaded
    /\ UNCHANGED <<wf, dir, data, ino, edits, saved, errors, failed>>

\* The client dies.  That the server sent it the file is all the server knows.
client_dies ==
    /\ ~Servers /\ ~Idle
    /\ Fails("client")
    /\ todo' = None /\ sent' = NotSent
    /\ UNCHANGED <<wf, dir, data, ino, mem, edits, saved>>

----------------------------------------------------------------------------
\* input_file_header of n; a file that is missing or torn has none.
header == IF dir["n"] = 0 THEN Torn ELSE data[dir["n"]]

\* write_file_real: the file in memory under its own identities.  writehindo
\* leaves the comment out.
writedict  == mem.maxcomment
writehindo == 0
in_memory ==
    [ver |-> mem.ver, uniq |-> mem.uniq, org |-> mem.org, maxcomment |-> mem.maxcomment,
     comment |-> IF wf.file_type = "DICT" THEN writedict ELSE writehindo]
written == IF Servers THEN in_memory ELSE sent

\* file_loaded and read_file: the header is read; a file that is not in the
\* inode its header names (it was copied or restored) gets a new identity.
file_loaded ==
    /\ Is("file_loaded")
    /\ \/ /\ header.uniq = dir["n"] /\ Readable(header)
          /\ todo' = None
          /\ mem' = [ver |-> header.ver, uniq |-> header.uniq, org |-> header.org,
                     maxcomment |-> header.maxcomment, dirty |-> FALSE]
       \/ /\ header = Torn \/ (header.uniq = dir["n"] /\ ~Readable(header))
          /\ todo' = None /\ UNCHANGED mem
       \/ /\ header # Torn /\ header.uniq # dir["n"]
          /\ todo' = Start("change", 0) /\ UNCHANGED mem
    /\ UNCHANGED <<wf, dir, data, ino, edits, saved, sent, errors, failed>>

\* The header of the file that is going to be replaced says what is to be done.
mode == CASE dir["n"] = 0           -> IF Servers THEN 3 ELSE 1
          [] header.uniq # mem.uniq -> 3
          [] OTHER                  -> IF mem.dirty THEN 1 ELSE 0

must_write_file ==
    /\ Is("must_write_file")
    /\ \/ /\ dir["n"] # 0 /\ header = Torn
          /\ todo' = None
       \/ /\ dir["n"] = 0 \/ header # Torn
          /\ todo' = IF mode = 0 THEN Start("keep", 0)
                     ELSE IF Servers THEN Start("write", mode) ELSE Start("receive", mode)
    /\ UNCHANGED <<wf, dir, data, ino, mem, edits, saved, sent, errors, failed>>

restore ==
    /\ Is("restore")
    /\ todo' = IF dir["n#"] = 0 THEN Skip(4) ELSE Skip(1)
    /\ UNCHANGED <<wf, dir, data, ino, mem, edits, saved, sent, errors, failed>>

unlink ==
    /\ Is("unlink")
    /\ dir' = [dir EXCEPT ![Next1[2]] = 0]
    /\ todo' = Skip(1)
    /\ UNCHANGED <<wf, data, ino, mem, edits, saved, sent, errors, failed>>

\* link does nothing when the new name exists.
link ==
    /\ Is("link")
    /\ dir' = [dir EXCEPT ![Next1[3]] = IF @ = 0 THEN dir[Next1[2]] ELSE @]
    /\ todo' = Skip(1)
    /\ UNCHANGED <<wf, data, ino, mem, edits, saved, sent, errors, failed>>

\* fopen "w+" truncates a file that exists.
creat ==
    /\ Is("creat")
    /\ LET x == Next1[2] IN
        /\ InodeFor(x)
        /\ dir' = [dir EXCEPT ![x] = IF @ = 0 THEN ino + 1 ELSE @]
        /\ ino' = IF dir[x] = 0 THEN ino + 1 ELSE ino
        /\ data' = [data EXCEPT ![dir'[x]] = Torn]
    /\ todo' = Skip(1)
    /\ UNCHANGED <<wf, mem, edits, saved, sent, errors, failed>>

\* The file cannot be opened.  make_backup_file gives up, and the callers go on
\* without a backup; without a temporary file they stop; move_tmp_to_org returns
\* and leaves n~.
creat_fails ==
    /\ Is("creat") /\ Fails(Next1[3])
    /\ todo' = CASE Next1[3] = "backup" -> Skip(5)
                 [] Next1[3] = "tmp"    -> Undo(2)
                 [] Next1[3] = "move"   -> Skip(3)
    /\ UNCHANGED <<wf, dir, data, ino, mem, edits, saved, sent>>

\* The header is on disk and not all of what follows.
half_written ==
    \/ /\ Is("copy") /\ dir[Next1[2]] # 0
       /\ data' = [data EXCEPT ![dir[Next1[3]]] = CutShort(data[dir[Next1[2]]])]
    \/ /\ Is("write")
       /\ data' = [data EXCEPT ![dir["n~"]] = CutShort(written)]

half_done ==
    /\ half_written /\ data' # data
    /\ UNCHANGED <<wf, dir, ino, mem, edits, saved, todo, sent, errors, failed>>

\* copy_file_to_file.  When there is no file to copy make_backup_file gives up.
copy ==
    /\ Is("copy")
    /\ LET from == dir[Next1[2]]  to == dir[Next1[3]] IN
        \/ from = 0 /\ todo' = Skip(4) /\ UNCHANGED data
        \/ from # 0 /\ todo' = Skip(1) /\ data' = [data EXCEPT ![to] = data[from]]
    /\ UNCHANGED <<wf, dir, ino, mem, edits, saved, sent, errors, failed>>

\* A failed copy: make_backup_file returns NULL and its caller goes on without
\* a backup; move_tmp_to_org does not look at the result.
copy_fails ==
    /\ Is("copy") /\ Fails(Next1[4])
    /\ todo' = IF Next1[4] = "backup" THEN Skip(4) ELSE Skip(1)
    /\ UNCHANGED <<wf, dir, data, ino, mem, edits, saved, sent>>

\* The server has sent the file: from then on it is saved, as far as the server
\* knows, and other clients are served.
rcv_file ==
    /\ Is("send")
    /\ sent' = in_memory
    /\ mem' = IF todo.m = 1 THEN [mem EXCEPT !.dirty = FALSE] ELSE mem
    /\ todo' = Skip(1)
    /\ UNCHANGED <<wf, dir, data, ino, edits, saved, errors, failed>>

write_file_real ==
    /\ Is("write")
    /\ data' = [data EXCEPT ![dir["n~"]] = written]
    /\ todo' = Skip(1)
    /\ UNCHANGED <<wf, dir, ino, mem, edits, saved, sent, errors, failed>>

\* The server finds that it cannot write n~, and removes it and the backup.  The
\* client compares what fwrite returns with -1, which it never is, and goes on.
write_fails ==
    /\ Is("write")
    /\ \/ Servers /\ Fails("tmp") /\ todo' = Undo(1)
       \/ ~Servers /\ Fails("move") /\ todo' = Skip(1)
    /\ UNCHANGED <<wf, dir, data, ino, mem, edits, saved, sent>>

\* make_tmp_file copies n, change_file_uniq1 writes the header: the identity is
\* the inode of n~, the original identity the one n had.
new_file_uniq ==
    /\ Is("new_uniq")
    /\ LET old == data[dir["n"]] IN
        data' = [data EXCEPT ![dir["n~"]] = [old EXCEPT !.uniq = dir["n~"], !.org = old.uniq]]
    /\ todo' = Skip(1)
    /\ UNCHANGED <<wf, dir, ino, mem, edits, saved, sent, errors, failed>>

\* When the copy fails n~ is left, when the header does it is removed.
new_file_uniq_fails ==
    /\ Is("new_uniq") /\ Fails("tmp")
    /\ todo' \in {Undo(1), Undo(2)}
    /\ UNCHANGED <<wf, dir, data, ino, mem, edits, saved, sent>>

\* Faulty: a file the client has saved is marked clean by the answer.
answer_bug ==
    /\ Is("answer") /\ Loaded
    /\ saved' = IF sent = NotSent THEN mem.ver ELSE sent.ver
    /\ mem' = IF todo.m = 1 THEN [mem EXCEPT !.dirty = FALSE] ELSE mem
    /\ todo' = Skip(1) /\ sent' = NotSent
    /\ UNCHANGED <<wf, dir, data, ino, edits, errors, failed>>

\* The file is saved, says the answer; what the server wrote itself is clean now.
answer ==
    /\ Is("answer") /\ Loaded
    /\ saved' = IF sent = NotSent THEN mem.ver ELSE sent.ver
    /\ mem' = IF Servers /\ todo.m = 1 THEN [mem EXCEPT !.dirty = FALSE] ELSE mem
    /\ todo' = Skip(1) /\ sent' = NotSent
    /\ UNCHANGED <<wf, dir, data, ino, edits, errors, failed>>

\* js_file_receive finds that the server is dead.
no_answer ==
    /\ Is("answer") /\ ~Loaded
    /\ todo' = Skip(1) /\ sent' = NotSent
    /\ UNCHANGED <<wf, dir, data, ino, mem, edits, saved, errors, failed>>

Next ==
    \/ js_file_read \/ js_file_send \/ js_file_write \/ js_file_receive \/ change \/ js_file_comment_set
    \/ crash \/ client_dies
    \/ file_loaded \/ must_write_file
    \/ restore \/ unlink \/ link
    \/ creat \/ creat_fails \/ half_done \/ copy \/ copy_fails
    \/ rcv_file \/ write_file_real \/ write_fails
    \/ new_file_uniq \/ new_file_uniq_fails \/ answer \/ no_answer

Spec == Init /\ [][Next]_vars

----------------------------------------------------------------------------
\* What check_backup would leave under the name n.
Recovered ==
    IF dir["n#"] # 0 THEN data[dir["n#"]] ELSE header

(***************************************************************************)
(* A death at any point leaves a whole file for check_backup to find,      *)
(* which can be read, and which is never an older version than the last    *)
(* one that was called saved.  Not so without a backup, or when the move   *)
(* of n~ to n failed, whose result nobody looks at; a frequency file with  *)
(* a comment cannot be read once it was saved; and the server takes a file *)
(* for saved that it sent to a client that died.                           *)
(***************************************************************************)
SavedSurvives == failed \cap {"backup", "move"} = {} =>
    /\ Whole(Recovered)
    /\ wf.file_type = "DICT" \/ Recovered.maxcomment = 0 => Readable(Recovered)
    /\ "client" \notin failed => Recovered.ver >= saved

(***************************************************************************)
(* A backup is a whole file whenever it exists, unless a backup or a move  *)
(* has failed before: check_backup never puts a file that was cut short in *)
(* the place of n.                                                         *)
(***************************************************************************)
BackupWhole == failed \cap {"backup", "move"} = {} /\ dir["n#"] # 0 =>
    Whole(data[dir["n#"]])

(***************************************************************************)
(* Between commands the file under its name is the one in memory: it is in *)
(* the inode its header names and has the identity file_loaded looks for,  *)
(* so a second js_file_read finds it loaded and does not load a copy.      *)
(***************************************************************************)
StillTheSameFile == failed \cap {"move", "client"} = {} /\ Idle /\ Loaded =>
    /\ dir["n"] = mem.uniq
    /\ header.uniq = mem.uniq /\ header.org = mem.org

(***************************************************************************)
(* A file in memory that has changes to save is marked so, also when they  *)
(* were made while a client was saving it: a file that is not dirty is     *)
(* called saved without being written.                                     *)
(***************************************************************************)
CleanIsSaved == failed \cap {"move", "client"} = {} /\ Idle /\ Loaded /\ ~mem.dirty =>
    Recovered.ver = mem.ver

=============================================================================
