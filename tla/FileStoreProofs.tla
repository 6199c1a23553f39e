--------------------------- MODULE FileStoreProofs ---------------------------
(***************************************************************************)
(* Proofs about FileStore, for every bound on inodes, edits and errors.    *)
(*                                                                         *)
(* The inductive invariant says, for each place in the sequence of system  *)
(* calls, which of n, n~ and n# exist, which of them are the same file and *)
(* what is in them.  The places are those of bdic.c: a file is looked at,  *)
(* backed up, changed or saved.                                            *)
(***************************************************************************)
EXTENDS FileStore, TLAPS

N == dir["n"]
B == dir["n~"]
H == dir["n#"]

\* The call from a to b of check_backup (or the one after it), of the backup
\* and the temporary file, of change_file_uniq, and of write_file, whose calls
\* js_file_receive makes one later because it sends the file first.
Checking(a, b)  == \/ todo.op \in {"read", "look"} /\ todo.at \in a .. b
                   \/ todo.op = "change" /\ todo.at \in a + 11 .. b + 11
BackingUp(a, b) == todo.op \in {"change", "write", "receive"} /\ todo.at \in a .. b
Changing(a, b)  == todo.op = "change" /\ todo.at \in a .. b
Saving(a, b)    == \/ todo.op = "write" /\ todo.at \in a .. b
                   \/ todo.op = "receive" /\ todo.at \in a + 1 .. b + 1

\* Which commands are given when, and when the client has something to save.
Control ==
    /\ \/ todo = None
       \/ todo.op \in {"read", "look"} /\ todo.at \in 1 .. 6
       \/ todo.op = "change" /\ todo.at \in 1 .. 17
       \/ todo.op = "write" /\ todo.at \in 1 .. 12
       \/ todo.op = "receive" /\ todo.at \in 1 .. 13
       \/ todo.op = "keep" /\ todo.at = 1
       \/ todo.op = "undo" /\ todo.at \in 1 .. 2
    /\ todo.op \in {"read", "change"} => ~Loaded
    /\ todo.op \in {"look", "write", "keep"} => Loaded
    /\ todo.op = "receive" /\ todo.at \in 1 .. 7 => Loaded
    /\ todo.op = "write" => Servers
    /\ todo.op = "receive" => ~Servers
    /\ sent # NotSent <=> todo.op = "receive" /\ todo.at \in 8 .. 13

\* Inodes and versions that were not allocated yet are not in use, and the
\* client is never ahead of the server.
Fresh ==
    /\ N <= ino /\ B <= ino /\ H <= ino
    /\ \A i \in Ino : data[i].ver <= edits
    /\ mem.ver <= edits /\ sent.ver <= edits /\ saved <= edits
    /\ sent # NotSent => Whole(sent) /\ (Loaded => sent.ver <= mem.ver)

\* The backup is a copy of n, or there is none.
Kept == H # 0 /\ N # 0 /\ H # N /\ data[H] = data[N]
NoBackup == H = 0 /\ (N = 0 \/ "backup" \in failed)
Apart == B # N /\ B # H

Disk ==
    /\ Checking(2, 6) => B = 0
    /\ Checking(3, 5) => H # 0
    /\ Checking(4, 4) => N = 0
    /\ Checking(5, 5) => N = H
    /\ Checking(6, 6) => H = 0
    /\ BackingUp(1, 1) => B = 0
    /\ BackingUp(1, 4) => H = 0
    /\ BackingUp(2, 4) => B # 0 /\ B # N
    /\ BackingUp(3, 4) => N # 0 /\ data[B] = data[N]
    /\ BackingUp(5, 5) => H = B /\ Kept
    /\ BackingUp(6, 6) => (B # 0 => Apart) /\ (Kept \/ NoBackup)
    /\ BackingUp(7, 7) \/ Saving(7, 8) \/ Changing(8, 8) =>
         B # 0 /\ Apart /\ (Kept \/ NoBackup)
    /\ Changing(1, 8) => N # 0 /\ data[N] # Torn
    /\ Changing(9, 9) => N = 0 /\ B # 0
    /\ Changing(10, 10) => N = B
    /\ Changing(10, 11) => N # 0
    /\ Saving(9, 9) => N # 0 /\ B # 0 /\ Apart /\ N # H
    /\ Saving(12, 12) => H = 0
    /\ todo.op = "undo" => Kept \/ H = 0

\* A file that can be read and is no older than the last one called saved.
Fine(d) ==
    /\ Whole(d)
    /\ wf.file_type = "DICT" => d.comment = d.maxcomment
    /\ "client" \notin failed => d.ver >= saved

\* Every copy that check_backup may come to find is fine.
Safe == "backup" \notin failed /\ "move" \notin failed =>
    /\ Fine(Recovered)
    /\ Loaded /\ "client" \notin failed => mem.ver >= saved
    /\ sent # NotSent => Fine(sent)
    /\ Changing(8, 9) => Fine(data[B])
    /\ Changing(10, 11) => Fine(data[N])
    /\ Saving(9, 9) => H # 0

\* What is written to n~ gets to n.
Moved == "move" \notin failed =>
    /\ Saving(8, 9) => data[B] = written
    /\ Saving(10, 12) => N # 0 /\ data[N] = written

\* The file in memory is the one on disk but for the changes it is marked to have.
Settled == todo.op \in {"none", "look", "keep"}
InMemory == "move" \notin failed /\ "client" \notin failed /\ Loaded =>
    /\ N = mem.uniq
    /\ ~Saving(9, 9) => data[N].uniq = mem.uniq /\ data[N].org = mem.org
    /\ sent # NotSent => sent.uniq = mem.uniq /\ sent.org = mem.org
    /\ Settled => H = 0 /\ (~mem.dirty => data[N].ver = mem.ver)
    /\ todo.op \in {"write", "undo"} => mem.dirty
    /\ todo.op = "receive" /\ todo.at \in 1 .. 7 => mem.dirty /\ todo.m = 1
    /\ sent # NotSent /\ ~mem.dirty => sent.ver = mem.ver

KeepsClean == todo.op = "keep" => ~mem.dirty

IInv ==
    /\ TypeOK /\ Control /\ Fresh
    /\ Disk /\ Safe /\ Moved /\ InMemory /\ KeepsClean

----------------------------------------------------------------------------
(***************************************************************************)
(* The calls of the programs, one by one.                                  *)
(***************************************************************************)
LEMMA LookingCalls ==
    /\ Len(Program["read"]) = 6 /\ Len(Program["look"]) = 6
    /\ \A p \in {"read", "look"} :
         /\ Program[p][1] = <<"unlink", "n~">>
         /\ Program[p][2] = <<"restore", "n#">>
         /\ Program[p][3] = <<"unlink", "n">>
         /\ Program[p][4] = <<"link", "n#", "n">>
         /\ Program[p][5] = <<"unlink", "n#">>
    /\ Program["read"][6] = <<"file_loaded">>
    /\ Program["look"][6] = <<"must_write_file">>
BY DEF Program, check_backup

\* The calls that make the backup are the same in the three programs that have one.
LEMMA BackupCalls ==
    \A p \in {"change", "write", "receive"} :
         /\ Program[p][1] = <<"creat", "n~", "backup">>
         /\ Program[p][2] = <<"copy", "n", "n~", "backup">>
         /\ Program[p][3] = <<"unlink", "n#">>
         /\ Program[p][4] = <<"link", "n~", "n#">>
         /\ Program[p][5] = <<"unlink", "n~">>
         /\ Program[p][6] = <<"creat", "n~", "tmp">>
BY DEF Program, change_file_uniq, write_file, receive_file, make_backup_file, make_tmp_file,
       move_by_copy, move_by_link, check_backup

\* The calls that change a comment or a password, after the backup.
LEMMA ChangeCalls ==
    /\ Len(Program["change"]) = 17
    /\ Program["change"][7] = <<"new_uniq">>
    /\ Program["change"][8] = <<"unlink", "n">>
    /\ Program["change"][9] = <<"link", "n~", "n">>
    /\ Program["change"][10] = <<"unlink", "n~">>
    /\ Program["change"][11] = <<"unlink", "n#">>
    /\ Program["change"][12] = <<"unlink", "n~">>
    /\ Program["change"][13] = <<"restore", "n#">>
    /\ Program["change"][14] = <<"unlink", "n">>
    /\ Program["change"][15] = <<"link", "n#", "n">>
    /\ Program["change"][16] = <<"unlink", "n#">>
    /\ Program["change"][17] = <<"file_loaded">>
BY DEF Program, change_file_uniq, make_backup_file, make_tmp_file, move_by_link, check_backup

\* The calls that save a file, after the backup.
LEMMA SaveCalls ==
    /\ Len(Program["write"]) = 12 /\ Len(Program["receive"]) = 13
    /\ Program["receive"][7] = <<"send">>
    /\ Program["write"][7] = <<"write">> /\ Program["receive"][8] = <<"write">>
    /\ Program["write"][8] = <<"creat", "n", "move">>
    /\ Program["receive"][9] = <<"creat", "n", "move">>
    /\ Program["write"][9] = <<"copy", "n~", "n", "move">>
    /\ Program["receive"][10] = <<"copy", "n~", "n", "move">>
    /\ Program["write"][10] = <<"unlink", "n~">> /\ Program["receive"][11] = <<"unlink", "n~">>
    /\ Program["write"][11] = <<"unlink", "n#">> /\ Program["receive"][12] = <<"unlink", "n#">>
    /\ Program["write"][12] = <<"answer">> /\ Program["receive"][13] = <<"answer">>
BY DEF Program, write_file, receive_file, make_backup_file, make_tmp_file, move_by_copy

\* The programs that leave the files alone, or only take the copies away.
LEMMA OtherCalls ==
    /\ DOMAIN Program = {"read", "change", "look", "write", "receive", "keep", "undo"}
    /\ Len(Program["keep"]) = 1 /\ Len(Program["undo"]) = 2
    /\ Program["keep"][1] = <<"answer">>
    /\ Program["undo"][1] = <<"unlink", "n~">>
    /\ Program["undo"][2] = <<"unlink", "n#">>
BY DEF Program

(***************************************************************************)
(* Which call comes next says where the command is.                        *)
(***************************************************************************)
LEMMA PlaceOfCall ==
    ASSUME Control, ~Idle
    PROVE  \/ Checking(1, 1) /\ Next1 = <<"unlink", "n~">>
           \/ Checking(2, 2) /\ Next1 = <<"restore", "n#">>
           \/ Checking(3, 3) /\ Next1 = <<"unlink", "n">>
           \/ Checking(4, 4) /\ Next1 = <<"link", "n#", "n">>
           \/ Checking(5, 5) /\ Next1 = <<"unlink", "n#">>
           \/ Checking(6, 6) /\ todo.op # "look" /\ Next1 = <<"file_loaded">>
           \/ Checking(6, 6) /\ todo.op = "look" /\ Next1 = <<"must_write_file">>
           \/ BackingUp(1, 1) /\ Next1 = <<"creat", "n~", "backup">>
           \/ BackingUp(2, 2) /\ Next1 = <<"copy", "n", "n~", "backup">>
           \/ BackingUp(3, 3) /\ Next1 = <<"unlink", "n#">>
           \/ BackingUp(4, 4) /\ Next1 = <<"link", "n~", "n#">>
           \/ BackingUp(5, 5) /\ Next1 = <<"unlink", "n~">>
           \/ BackingUp(6, 6) /\ Next1 = <<"creat", "n~", "tmp">>
           \/ Changing(7, 7) /\ Next1 = <<"new_uniq">>
           \/ Changing(8, 8) /\ Next1 = <<"unlink", "n">>
           \/ Changing(9, 9) /\ Next1 = <<"link", "n~", "n">>
           \/ Changing(10, 10) /\ Next1 = <<"unlink", "n~">>
           \/ Changing(11, 11) /\ Next1 = <<"unlink", "n#">>
           \/ todo.op = "receive" /\ todo.at = 7 /\ Next1 = <<"send">>
           \/ Saving(7, 7) /\ Next1 = <<"write">>
           \/ Saving(8, 8) /\ Next1 = <<"creat", "n", "move">>
           \/ Saving(9, 9) /\ Next1 = <<"copy", "n~", "n", "move">>
           \/ Saving(10, 10) /\ Next1 = <<"unlink", "n~">>
           \/ Saving(11, 11) /\ Next1 = <<"unlink", "n#">>
           \/ (Saving(12, 12) \/ todo.op = "keep") /\ Next1 = <<"answer">>
           \/ todo.op = "undo" /\ todo.at = 1 /\ Next1 = <<"unlink", "n~">>
           \/ todo.op = "undo" /\ todo.at = 2 /\ Next1 = <<"unlink", "n#">>
<1> USE DEF Control, Idle, Next1
<1>1. CASE todo.op \in {"read", "look"} /\ todo.at \in 1 .. 6
  <2>1. \/ todo.at = 1 \/ todo.at = 2 \/ todo.at = 3
        \/ todo.at = 4 \/ todo.at = 5 \/ todo.at = 6
    BY <1>1
  <2> QED
    BY <1>1, <2>1, LookingCalls DEF Checking
<1>2. CASE todo.op = "change" /\ todo.at \in 1 .. 17
  <2>1. CASE todo.at \in 1 .. 6
    <3>1. \/ todo.at = 1 \/ todo.at = 2 \/ todo.at = 3
          \/ todo.at = 4 \/ todo.at = 5 \/ todo.at = 6
      BY <2>1
    <3> QED
      BY <1>2, <3>1, BackupCalls DEF BackingUp
  <2>2. CASE todo.at \in 7 .. 11
    <3>1. todo.at = 7 \/ todo.at = 8 \/ todo.at = 9 \/ todo.at = 10 \/ todo.at = 11
      BY <2>2
    <3> QED
      BY <1>2, <3>1, ChangeCalls DEF Changing
  <2>3. CASE todo.at \in 12 .. 17
    <3>1. \/ todo.at = 12 \/ todo.at = 13 \/ todo.at = 14
          \/ todo.at = 15 \/ todo.at = 16 \/ todo.at = 17
      BY <2>3
    <3> QED
      BY <1>2, <3>1, ChangeCalls DEF Checking
  <2> QED
    BY <1>2, <2>1, <2>2, <2>3
<1>3. CASE todo.op = "write" /\ todo.at \in 1 .. 12
  <2>1. CASE todo.at \in 1 .. 6
    <3>1. \/ todo.at = 1 \/ todo.at = 2 \/ todo.at = 3
          \/ todo.at = 4 \/ todo.at = 5 \/ todo.at = 6
      BY <2>1
    <3> QED
      BY <1>3, <3>1, BackupCalls DEF BackingUp
  <2>2. CASE todo.at \in 7 .. 12
    <3>1. \/ todo.at = 7 \/ todo.at = 8 \/ todo.at = 9
          \/ todo.at = 10 \/ todo.at = 11 \/ todo.at = 12
      BY <2>2
    <3> QED
      BY <1>3, <3>1, SaveCalls DEF Saving
  <2> QED
    BY <1>3, <2>1, <2>2
<1>4. CASE todo.op = "receive" /\ todo.at \in 1 .. 13
  <2>1. CASE todo.at \in 1 .. 6
    <3>1. \/ todo.at = 1 \/ todo.at = 2 \/ todo.at = 3
          \/ todo.at = 4 \/ todo.at = 5 \/ todo.at = 6
      BY <2>1
    <3> QED
      BY <1>4, <3>1, BackupCalls DEF BackingUp
  <2>2. CASE todo.at \in 7 .. 13
    <3>1. \/ todo.at = 7 \/ todo.at = 8 \/ todo.at = 9 \/ todo.at = 10
          \/ todo.at = 11 \/ todo.at = 12 \/ todo.at = 13
      BY <2>2
    <3> QED
      BY <1>4, <3>1, SaveCalls DEF Saving
  <2> QED
    BY <1>4, <2>1, <2>2
<1>5. CASE todo.op \in {"keep", "undo"}
  <2>1. \/ todo.op = "keep" /\ todo.at = 1
        \/ todo.op = "undo" /\ (todo.at = 1 \/ todo.at = 2)
    BY <1>5 DEF None
  <2> QED
    BY <2>1, OtherCalls
<1> QED
  BY <1>1, <1>2, <1>3, <1>4, <1>5

(***************************************************************************)
(* Where a program goes on, and where it ends.                             *)
(***************************************************************************)
Last(op) == CASE op \in {"read", "look"} -> 6
              [] op = "change"  -> 17
              [] op = "write"   -> 12
              [] op = "receive" -> 13
              [] op = "keep"    -> 1
              [] op = "undo"    -> 2

\* Going on with the program after k calls, or leaving it after the last.
LEMMA SkipGoesOn ==
    ASSUME TypeOK, Control, ~Idle, NEW k \in 1 .. 5
    PROVE  Skip(k) = IF todo.at + k > Last(todo.op) THEN None
                     ELSE [op |-> todo.op, at |-> todo.at + k, m |-> todo.m]
<1>1. Len(Program[todo.op]) = Last(todo.op)
  BY LookingCalls, ChangeCalls, SaveCalls, OtherCalls DEF Control, Idle, Last, None
<1>2. [todo EXCEPT !.at = @ + k] = [op |-> todo.op, at |-> todo.at + k, m |-> todo.m]
  BY DEF TypeOK
<1> QED
  BY <1>1, <1>2 DEF Skip

----------------------------------------------------------------------------
(***************************************************************************)
(* At first there is n, whole, and no command.                             *)
(***************************************************************************)
LEMMA InitInv == Init => IInv
<1> SUFFICES ASSUME Init PROVE IInv
  OBVIOUS
<1>1. 1 \in Ino /\ 0 \notin Ino /\ Ino \subseteq Int
  BY BoundsAssumption DEF Ino
<1>2. N = 1 /\ B = 0 /\ H = 0
  BY DEF Init, Names, N, B, H
<1>3. data[1] # Torn /\ data[1].ver = 0 /\ data[1].comment = data[1].maxcomment
      /\ data[1].uniq = 1 /\ \A i \in Ino : data[i].ver <= 0
  BY <1>1 DEF Init, Torn
<1>4. TypeOK
  <2>1. data \in [Ino -> {Torn} \cup Contents]
    BY <1>1, BoundsAssumption DEF Init, Contents
  <2>2. dir \in [Names -> Ino \cup {0}]
    BY <1>1 DEF Init
  <2> QED
    BY <1>1, <2>1, <2>2, BoundsAssumption, OtherCalls DEF Init, TypeOK, None
<1>5. Control /\ KeepsClean
  BY DEF Init, Control, Loaded, None, KeepsClean
<1>6. Fresh
  BY <1>1, <1>2, <1>3 DEF Init, Fresh, NotLoaded, NotSent, Torn
<1>7. Disk
  BY DEF Init, None, Disk, Checking, BackingUp, Changing, Saving
<1>8. Safe
  BY <1>1, <1>2, <1>3 DEF Init, None, Safe, Fine, Whole, Recovered, header, N, H, Loaded, Changing, Saving
<1>9. Moved /\ InMemory
  BY DEF Init, None, Moved, InMemory, Saving, Loaded
<1> QED
  BY <1>4, <1>5, <1>6, <1>7, <1>8, <1>9 DEF IInv

(***************************************************************************)
(* The four properties in terms of the places.                             *)
(***************************************************************************)
LEMMA InvImplies ==
    IInv => SavedSurvives /\ BackupWhole /\ StillTheSameFile /\ CleanIsSaved
<1> SUFFICES ASSUME IInv PROVE SavedSurvives /\ BackupWhole /\ StillTheSameFile /\ CleanIsSaved
  OBVIOUS
<1>1. SavedSurvives
  <2> SUFFICES ASSUME failed \cap {"backup", "move"} = {} 
               PROVE  /\ Whole(Recovered)
                      /\ wf.file_type = "DICT" \/ Recovered.maxcomment = 0 => Readable(Recovered)
                      /\ "client" \notin failed => Recovered.ver >= saved
    BY DEF SavedSurvives
  <2>1. Fine(Recovered)
    BY DEF IInv, Safe
  <2>2. Recovered = Torn \/ Recovered \in Contents
    BY DEF IInv, TypeOK, Recovered, header, Names
  <2>3. Recovered \in Contents
    BY <2>1, <2>2 DEF Fine, Whole, Torn
  <2> QED
    BY <2>1, <2>3 DEF Fine, Readable, readdict, readhindo, Contents
<1>2. BackupWhole
  BY DEF IInv, Safe, Fine, Recovered, BackupWhole
<1>3. ASSUME failed \cap {"move", "client"} = {}, Idle, Loaded
      PROVE  /\ N # 0 /\ N = mem.uniq /\ H = 0
             /\ data[N].uniq = mem.uniq /\ data[N].org = mem.org
             /\ ~mem.dirty => data[N].ver = mem.ver
  <2>1. mem.uniq # 0
    BY <1>3 DEF IInv, TypeOK, Loaded, Ino
  <2> QED
    BY <1>3, <2>1 DEF IInv, InMemory, Idle, None, Settled, Saving
<1>4. StillTheSameFile
  BY <1>3 DEF StillTheSameFile, header, N
<1>5. CleanIsSaved
  BY <1>3 DEF CleanIsSaved, Recovered, header, N, H
<1> QED
  BY <1>1, <1>2, <1>4, <1>5

----------------------------------------------------------------------------
(***************************************************************************)
(* A call after which the program goes on and which leaves the file in     *)
(* memory and what was sent of it alone.                                   *)
(***************************************************************************)
LEMMA GoesOn ==
    ASSUME IInv, ~Idle, NEW k \in 1 .. 5, todo' = Skip(k),
           todo.op = "receive" => (todo.at <= 7 <=> todo.at + k <= 7) /\ todo.at + k <= 13,
           UNCHANGED <<wf, mem, sent>>
    PROVE  /\ todo' = IF todo.at + k > Last(todo.op) THEN None
                      ELSE [op |-> todo.op, at |-> todo.at + k, m |-> todo.m]
           /\ todo' \in [op : DOMAIN Program \cup {"none"}, at : 0 .. 17, m : {0, 1, 3}]
           /\ Control' /\ KeepsClean'
<1>1. todo' = IF todo.at + k > Last(todo.op) THEN None
              ELSE [op |-> todo.op, at |-> todo.at + k, m |-> todo.m]
  BY SkipGoesOn DEF IInv
<1>2. /\ todo.op \in DOMAIN Program /\ todo.op # "none"
      /\ todo.at \in Nat /\ todo.at >= 1 /\ todo.m \in {0, 1, 3}
      /\ \/ todo.op \in {"read", "look"} /\ Last(todo.op) = 6
         \/ todo.op = "change" /\ Last(todo.op) = 17
         \/ todo.op = "write" /\ Last(todo.op) = 12
         \/ todo.op = "receive" /\ Last(todo.op) = 13
         \/ todo.op = "keep" /\ Last(todo.op) = 1
         \/ todo.op = "undo" /\ Last(todo.op) = 2
  BY OtherCalls DEF IInv, TypeOK, Control, Idle, Last
<1>3. CASE todo.at + k > Last(todo.op) /\ todo' = None
  <2>1. todo.op # "receive"
    BY <1>2, <1>3
  <2>2. todo' \in [op : DOMAIN Program \cup {"none"}, at : 0 .. 17, m : {0, 1, 3}]
    BY <1>3 DEF None
  <2> QED
    BY <1>1, <1>3, <2>1, <2>2 DEF IInv, Control, KeepsClean, None
<1>4. CASE todo.at + k <= Last(todo.op)
           /\ todo' = [op |-> todo.op, at |-> todo.at + k, m |-> todo.m]
  <2>1. todo' \in [op : DOMAIN Program \cup {"none"}, at : 0 .. 17, m : {0, 1, 3}]
    <3>1. todo.at + k \in 0 .. 17
      BY <1>2, <1>4
    <3> QED
      BY <1>2, <1>4, <3>1
  <2>2. Control'
    BY <1>2, <1>4 DEF IInv, Control, Loaded, Servers
  <2> QED
    BY <1>1, <1>4, <2>1, <2>2 DEF IInv, KeepsClean
<1> QED
  BY <1>1, <1>2, <1>3, <1>4

(***************************************************************************)
(* What is written is not read again from a file in memory that changed.   *)
(***************************************************************************)
LEMMA WrittenKept == UNCHANGED <<wf, mem, sent>> => written' = written
BY DEF written, in_memory, Servers, writedict, writehindo

(***************************************************************************)
(* unlink: the name is gone, the files are as they were.                   *)
(***************************************************************************)
LEMMA UnlinkInv == IInv /\ unlink => IInv'
<1> SUFFICES ASSUME IInv, unlink PROVE IInv'
  OBVIOUS
<1> USE DEF Checking, BackingUp, Changing, Saving, Settled
<1>1. /\ UNCHANGED <<wf, data, ino, mem, edits, saved, sent, errors, failed>>
      /\ todo' = Skip(1) /\ dir' = [dir EXCEPT ![Next1[2]] = 0]
      /\ ~Idle /\ Next1[1] = "unlink"
  BY DEF unlink, Is
<1>p. \/ Checking(1, 1) /\ Next1 = <<"unlink", "n~">>
      \/ Checking(3, 3) /\ Next1 = <<"unlink", "n">>
      \/ Checking(5, 5) /\ Next1 = <<"unlink", "n#">>
      \/ BackingUp(3, 3) /\ Next1 = <<"unlink", "n#">>
      \/ BackingUp(5, 5) /\ Next1 = <<"unlink", "n~">>
      \/ Changing(8, 8) /\ Next1 = <<"unlink", "n">>
      \/ Changing(10, 10) /\ Next1 = <<"unlink", "n~">>
      \/ Changing(11, 11) /\ Next1 = <<"unlink", "n#">>
      \/ Saving(10, 10) /\ Next1 = <<"unlink", "n~">>
      \/ Saving(11, 11) /\ Next1 = <<"unlink", "n#">>
      \/ todo.op = "undo" /\ todo.at = 1 /\ Next1 = <<"unlink", "n~">>
      \/ todo.op = "undo" /\ todo.at = 2 /\ Next1 = <<"unlink", "n#">>
  <2>1. Control
    BY DEF IInv
  <2> HIDE DEF Checking, BackingUp, Changing, Saving
  <2> QED 
    BY <1>1, <2>1, PlaceOfCall
<1>2. /\ todo' = IF todo.at + 1 > Last(todo.op) THEN None
                 ELSE [op |-> todo.op, at |-> todo.at + 1, m |-> todo.m]
      /\ todo' \in [op : DOMAIN Program \cup {"none"}, at : 0 .. 17, m : {0, 1, 3}]
      /\ Control' /\ KeepsClean'
  BY <1>1, <1>p, GoesOn
<1>3. TypeOK'
  BY <1>1, <1>2 DEF IInv, TypeOK
<1>5. \A x \in Names : dir'[x] = IF x = Next1[2] THEN 0 ELSE dir[x]
  BY <1>1 DEF IInv, TypeOK
<1>6. Fresh'
  BY <1>1, <1>5 DEF IInv, TypeOK, Fresh, Loaded, N, B, H, Names, Ino
<1>7. CASE Checking(1, 1) /\ Next1 = <<"unlink", "n~">>
  <2>1. N' = N /\ B' = 0 /\ H' = H /\ Checking(2, 2)'
    BY <1>2, <1>5, <1>7 DEF N, B, H, Names, Last
  <2>2. Disk'
    BY <1>2, <1>7, <2>1 DEF IInv, Disk, Last
  <2>3. Safe'
    BY <1>1, <1>2, <1>7, <2>1 DEF IInv, Safe, Fine, Recovered, header, Loaded, N, H, Last
  <2>4. Moved' /\ InMemory'
    BY <1>1, <1>2, <1>7, <2>1 DEF IInv, Control, Moved, InMemory, Loaded, Last
  <2> QED
    BY <1>2, <1>3, <1>6, <2>2, <2>3, <2>4 DEF IInv
<1>8. CASE Checking(3, 3) /\ Next1 = <<"unlink", "n">>
  <2>1. N' = 0 /\ B' = B /\ H' = H /\ Checking(4, 4)'
    BY <1>2, <1>5, <1>8 DEF N, B, H, Names, Last
  <2>2. Disk'
    BY <1>2, <1>8, <2>1 DEF IInv, Disk, Last
  <2>3. Safe'
    BY <1>1, <1>2, <1>8, <2>1 DEF IInv, Disk, Safe, Fine, Recovered, header, Loaded, N, H, Last
  <2>4. Moved' /\ InMemory'
    BY <1>1, <1>2, <1>8, <2>1 DEF IInv, Disk, Control, Moved, InMemory, Loaded, Last
  <2> QED
    BY <1>2, <1>3, <1>6, <2>2, <2>3, <2>4 DEF IInv
<1>9. CASE Checking(5, 5) /\ Next1 = <<"unlink", "n#">>
  <2>1. N' = N /\ B' = B /\ H' = 0 /\ Checking(6, 6)'
    BY <1>2, <1>5, <1>9 DEF N, B, H, Names, Last
  <2>2. Disk'
    BY <1>2, <1>9, <2>1 DEF IInv, Disk, Last
  <2>3. Safe'
    BY <1>1, <1>2, <1>9, <2>1 DEF IInv, Disk, Safe, Fine, Recovered, header, Loaded, N, H, Last
  <2>4. Moved' /\ InMemory'
    BY <1>1, <1>2, <1>9, <2>1 DEF IInv, Disk, Control, Moved, InMemory, Loaded, Last
  <2> QED
    BY <1>2, <1>3, <1>6, <2>2, <2>3, <2>4 DEF IInv
<1>10. CASE BackingUp(3, 3) /\ Next1 = <<"unlink", "n#">>
  <2>1. N' = N /\ B' = B /\ H' = H /\ BackingUp(4, 4)'
    BY <1>2, <1>5, <1>10 DEF IInv, Disk, N, B, H, Names, Last
  <2>2. Disk'
    BY <1>1, <1>2, <1>10, <2>1 DEF IInv, Disk, Last
  <2>3. Safe'
    BY <1>1, <1>2, <1>10, <2>1 DEF IInv, Disk, Safe, Fine, Recovered, header, Loaded, N, H, Last
  <2>4. Moved' /\ InMemory'
    BY <1>1, <1>2, <1>10, <2>1 DEF IInv, Disk, Control, Moved, InMemory, Loaded, Last
  <2> QED
    BY <1>2, <1>3, <1>6, <2>2, <2>3, <2>4 DEF IInv
<1>11. CASE BackingUp(5, 5) /\ Next1 = <<"unlink", "n~">>
  <2>1. N' = N /\ B' = 0 /\ H' = H /\ BackingUp(6, 6)'
    BY <1>2, <1>5, <1>11 DEF IInv, Disk, N, B, H, Names, Last
  <2>2. Disk'
    BY <1>1, <1>2, <1>11, <2>1 DEF IInv, Disk, Kept, Last
  <2>3. Safe'
    BY <1>1, <1>2, <1>11, <2>1 DEF IInv, Disk, Safe, Fine, Recovered, header, Loaded, N, H, Last
  <2>4. Moved' /\ InMemory'
    BY <1>1, <1>2, <1>11, <2>1 DEF IInv, Disk, Control, Moved, InMemory, Loaded, Last
  <2> QED
    BY <1>2, <1>3, <1>6, <2>2, <2>3, <2>4 DEF IInv
<1>12. CASE Changing(8, 8) /\ Next1 = <<"unlink", "n">>
  <2>1. N' = 0 /\ B' = B /\ H' = H /\ Changing(9, 9)'
    BY <1>2, <1>5, <1>12 DEF IInv, Disk, N, B, H, Names, Last
  <2>2. Disk'
    BY <1>1, <1>2, <1>12, <2>1 DEF IInv, Disk, Last
  <2>3. Safe'
    BY <1>1, <1>2, <1>12, <2>1 DEF IInv, Disk, Kept, NoBackup, Safe, Fine, Recovered, header, Loaded, N, H, Last
  <2>4. Moved' /\ InMemory'
    BY <1>1, <1>2, <1>12, <2>1 DEF IInv, Disk, Control, Moved, InMemory, Loaded, Last
  <2> QED
    BY <1>2, <1>3, <1>6, <2>2, <2>3, <2>4 DEF IInv
<1>13. CASE Changing(10, 10) /\ Next1 = <<"unlink", "n~">>
  <2>1. N' = N /\ B' = 0 /\ H' = H /\ Changing(11, 11)'
    BY <1>2, <1>5, <1>13 DEF IInv, Disk, N, B, H, Names, Last
  <2>2. Disk'
    BY <1>1, <1>2, <1>13, <2>1 DEF IInv, Disk, Last
  <2>3. Safe'
    BY <1>1, <1>2, <1>13, <2>1 DEF IInv, Disk, Safe, Fine, Recovered, header, Loaded, N, H, Last
  <2>4. Moved' /\ InMemory'
    BY <1>1, <1>2, <1>13, <2>1 DEF IInv, Disk, Control, Moved, InMemory, Loaded, Last
  <2> QED
    BY <1>2, <1>3, <1>6, <2>2, <2>3, <2>4 DEF IInv
<1>14. CASE Changing(11, 11) /\ Next1 = <<"unlink", "n#">>
  <2>1. N' = N /\ B' = B /\ H' = 0 /\ Checking(1, 1)'
    BY <1>2, <1>5, <1>14 DEF IInv, Disk, N, B, H, Names, Last
  <2>2. Disk'
    BY <1>1, <1>2, <1>14, <2>1 DEF IInv, Disk, Last
  <2>3. Safe'
    BY <1>1, <1>2, <1>14, <2>1 DEF IInv, Disk, Safe, Fine, Recovered, header, Loaded, N, H, Last
  <2>4. Moved' /\ InMemory'
    BY <1>1, <1>2, <1>14, <2>1 DEF IInv, Disk, Control, Moved, InMemory, Loaded, Last
  <2> QED
    BY <1>2, <1>3, <1>6, <2>2, <2>3, <2>4 DEF IInv
<1>15. CASE Saving(10, 10) /\ Next1 = <<"unlink", "n~">>
  <2>1. N' = N /\ B' = 0 /\ H' = H /\ Saving(11, 11)'
    BY <1>2, <1>5, <1>15 DEF IInv, Disk, N, B, H, Names, Last
  <2>2. Disk'
    BY <1>1, <1>2, <1>15, <2>1 DEF IInv, Disk, Last
  <2>3. Safe'
    BY <1>1, <1>2, <1>15, <2>1 DEF IInv, Disk, Safe, Fine, Recovered, header, Loaded, N, H, Last
  <2>4. Moved'
    BY <1>1, <1>2, <1>15, <2>1, WrittenKept DEF IInv, Moved, Last
  <2>5. InMemory'
    BY <1>1, <1>2, <1>15, <2>1 DEF IInv, Disk, Control, InMemory, Loaded, Last
  <2> QED
    BY <1>2, <1>3, <1>6, <2>2, <2>3, <2>4, <2>5 DEF IInv
<1>16. CASE Saving(11, 11) /\ Next1 = <<"unlink", "n#">>
  <2>1. N' = N /\ B' = B /\ H' = 0 /\ Saving(12, 12)'
    BY <1>2, <1>5, <1>16 DEF IInv, Disk, N, B, H, Names, Last
  <2>2. Disk'
    BY <1>1, <1>2, <1>16, <2>1 DEF IInv, Disk, Last
  <2>3. Safe'
    <3>1. "backup" \notin failed /\ "move" \notin failed => Fine(written)
      BY <1>16 DEF IInv, Control, Safe, Fine, written, in_memory, TypeOK, Contents, Torn, NotLoaded, Loaded, Whole, writedict
    <3> QED
      BY <1>1, <1>2, <1>16, <2>1, <3>1 DEF IInv, Safe, Moved, Fine, Recovered, header, Loaded, N, H, Last
  <2>4. Moved'
    BY <1>1, <1>2, <1>16, <2>1, WrittenKept DEF IInv, Moved, Last
  <2>5. InMemory'
    BY <1>1, <1>2, <1>16, <2>1 DEF IInv, Disk, Control, InMemory, Loaded, Last
  <2> QED
    BY <1>2, <1>3, <1>6, <2>2, <2>3, <2>4, <2>5 DEF IInv
<1>17. CASE todo.op = "undo" /\ todo.at = 1 /\ Next1 = <<"unlink", "n~">>
  <2>1. N' = N /\ B' = 0 /\ H' = H /\ todo'.op = "undo"
    BY <1>2, <1>5, <1>17 DEF IInv, Disk, N, B, H, Names, Last
  <2>2. Disk'
    BY <1>1, <1>2, <1>17, <2>1 DEF IInv, Disk, Kept, Last
  <2>3. Safe'
    BY <1>1, <1>2, <1>17, <2>1 DEF IInv, Disk, Safe, Fine, Recovered, header, Loaded, N, H, Last
  <2>4. Moved' /\ InMemory'
    BY <1>1, <1>2, <1>17, <2>1 DEF IInv, Disk, Control, Moved, InMemory, Loaded, Last
  <2> QED
    BY <1>2, <1>3, <1>6, <2>2, <2>3, <2>4 DEF IInv
<1>18. CASE todo.op = "undo" /\ todo.at = 2 /\ Next1 = <<"unlink", "n#">>
  <2>1. N' = N /\ B' = B /\ H' = 0 /\ todo' = None
    BY <1>2, <1>5, <1>18 DEF IInv, Disk, N, B, H, Names, Last
  <2>2. Disk'
    BY <1>1, <1>2, <1>18, <2>1 DEF IInv, Disk, Kept, Last, None
  <2>3. Safe'
    BY <1>1, <1>2, <1>18, <2>1 DEF IInv, Disk, Kept, Safe, Fine, Recovered, header, Loaded, N, H, Last, None
  <2>4. Moved' /\ InMemory'
    BY <1>1, <1>2, <1>18, <2>1 DEF IInv, Disk, Control, Moved, InMemory, Loaded, Last, None
  <2> QED
    BY <1>2, <1>3, <1>6, <2>2, <2>3, <2>4 DEF IInv
<1> QED
  BY <1>p, <1>7, <1>8, <1>9, <1>10, <1>11, <1>12, <1>13, <1>14, <1>15, <1>16, <1>17, <1>18

(***************************************************************************)
(* link: n# becomes n again, n~ becomes the backup, or n~ becomes n; the   *)
(* new name is never in use.                                               *)
(***************************************************************************)
LEMMA LinkInv == IInv /\ link => IInv'
<1> SUFFICES ASSUME IInv, link PROVE IInv'
  OBVIOUS
<1> USE DEF Checking, BackingUp, Changing, Saving, Settled
<1>1. /\ UNCHANGED <<wf, data, ino, mem, edits, saved, sent, errors, failed>>
      /\ todo' = Skip(1)
      /\ dir' = [dir EXCEPT ![Next1[3]] = IF @ = 0 THEN dir[Next1[2]] ELSE @]
      /\ ~Idle /\ Next1[1] = "link"
  BY DEF link, Is
<1>2. \/ Checking(4, 4) /\ Next1 = <<"link", "n#", "n">>
      \/ BackingUp(4, 4) /\ Next1 = <<"link", "n~", "n#">>
      \/ Changing(9, 9) /\ Next1 = <<"link", "n~", "n">>
  <2> HIDE DEF Checking, BackingUp, Changing, Saving
  <2> QED
    BY <1>1, PlaceOfCall DEF IInv
<1>3. /\ todo' = IF todo.at + 1 > Last(todo.op) THEN None
                 ELSE [op |-> todo.op, at |-> todo.at + 1, m |-> todo.m]
      /\ todo' \in [op : DOMAIN Program \cup {"none"}, at : 0 .. 17, m : {0, 1, 3}]
      /\ Control' /\ KeepsClean'
  BY <1>1, <1>2, GoesOn
<1>4. TypeOK'
  BY <1>1, <1>2, <1>3 DEF IInv, TypeOK, Names
<1>5. CASE Checking(4, 4) /\ Next1 = <<"link", "n#", "n">>
  <2>1. N' = H /\ B' = B /\ H' = H /\ Checking(5, 5)'
    BY <1>1, <1>3, <1>5 DEF IInv, TypeOK, Disk, N, B, H, Names, Last
  <2>2. Fresh'
    BY <1>1, <2>1 DEF IInv, Fresh, Loaded
  <2>3. Disk'
    BY <1>3, <1>5, <2>1 DEF IInv, Disk, Last
  <2>4. Safe'
    BY <1>1, <1>3, <1>5, <2>1 DEF IInv, Disk, Safe, Fine, Recovered, header, Loaded, N, H, Last
  <2>5. Moved' /\ InMemory'
    BY <1>1, <1>3, <1>5, <2>1 DEF IInv, Disk, Control, Moved, InMemory, Loaded, Last
  <2> QED
    BY <1>3, <1>4, <2>2, <2>3, <2>4, <2>5 DEF IInv
<1>6. CASE BackingUp(4, 4) /\ Next1 = <<"link", "n~", "n#">>
  <2>1. N' = N /\ B' = B /\ H' = B /\ BackingUp(5, 5)'
    BY <1>1, <1>3, <1>6 DEF IInv, TypeOK, Disk, N, B, H, Names, Last
  <2>2. Fresh'
    BY <1>1, <2>1 DEF IInv, Fresh, Loaded
  <2>3. Disk'
    BY <1>1, <1>3, <1>6, <2>1 DEF IInv, Disk, Kept, Last
  <2>4. Safe'
    BY <1>1, <1>3, <1>6, <2>1 DEF IInv, Disk, Safe, Fine, Recovered, header, Loaded, N, H, Last
  <2>5. Moved' /\ InMemory'
    BY <1>1, <1>3, <1>6, <2>1 DEF IInv, Disk, Control, Moved, InMemory, Loaded, Last
  <2> QED
    BY <1>3, <1>4, <2>2, <2>3, <2>4, <2>5 DEF IInv
<1>7. CASE Changing(9, 9) /\ Next1 = <<"link", "n~", "n">>
  <2>1. N' = B /\ B' = B /\ H' = H /\ Changing(10, 10)'
    BY <1>1, <1>3, <1>7 DEF IInv, TypeOK, Disk, N, B, H, Names, Last
  <2>2. Fresh'
    BY <1>1, <2>1 DEF IInv, Fresh, Loaded
  <2>3. Disk'
    BY <1>1, <1>3, <1>7, <2>1 DEF IInv, Disk, Last
  <2>4. Safe'
    BY <1>1, <1>3, <1>7, <2>1 DEF IInv, Disk, Safe, Fine, Recovered, header, Loaded, N, H, Last
  <2>5. Moved' /\ InMemory'
    BY <1>1, <1>3, <1>7, <2>1 DEF IInv, Disk, Control, Moved, InMemory, Loaded, Last
  <2> QED
    BY <1>3, <1>4, <2>2, <2>3, <2>4, <2>5 DEF IInv
<1> QED
  BY <1>2, <1>5, <1>6, <1>7

(***************************************************************************)
(* fopen "w+": n~ is a file of its own, or n is truncated when the backup  *)
(* and n~ are other files.                                                 *)
(***************************************************************************)
LEMMA CreatInv == IInv /\ creat => IInv'
<1> SUFFICES ASSUME IInv, creat PROVE IInv'
  OBVIOUS
<1> USE DEF Checking, BackingUp, Changing, Saving, Settled
<1>1. /\ UNCHANGED <<wf, mem, edits, saved, sent, errors, failed>>
      /\ todo' = Skip(1)
      /\ ~Idle /\ Next1[1] = "creat" /\ InodeFor(Next1[2])
      /\ dir' = [dir EXCEPT ![Next1[2]] = IF @ = 0 THEN ino + 1 ELSE @]
      /\ ino' = IF dir[Next1[2]] = 0 THEN ino + 1 ELSE ino
      /\ data' = [data EXCEPT ![dir'[Next1[2]]] = Torn]
  BY DEF creat, Is
<1>2. \/ BackingUp(1, 1) /\ Next1 = <<"creat", "n~", "backup">>
      \/ BackingUp(6, 6) /\ Next1 = <<"creat", "n~", "tmp">>
      \/ Saving(8, 8) /\ Next1 = <<"creat", "n", "move">>
  <2> HIDE DEF Checking, BackingUp, Changing, Saving
  <2> QED
    BY <1>1, PlaceOfCall DEF IInv
<1>3. /\ todo' = IF todo.at + 1 > Last(todo.op) THEN None
                 ELSE [op |-> todo.op, at |-> todo.at + 1, m |-> todo.m]
      /\ todo' \in [op : DOMAIN Program \cup {"none"}, at : 0 .. 17, m : {0, 1, 3}]
      /\ Control' /\ KeepsClean'
  BY <1>1, <1>2, GoesOn
<1>4. /\ N \in Ino \cup {0} /\ B \in Ino \cup {0} /\ H \in Ino \cup {0}
      /\ ino \in Ino /\ ino' \in Ino /\ ino <= ino'
      /\ Ino \subseteq Nat /\ 0 \notin Ino
  <2>1. dir[Next1[2]] = 0 => ino < MaxIno
    BY <1>1 DEF InodeFor
  <2> QED
    BY <1>1, <2>1, BoundsAssumption DEF IInv, TypeOK, Names, Ino, N, B, H
<1>5. \A x \in Names : dir'[x] = IF x = Next1[2] /\ dir[x] = 0 THEN ino + 1 ELSE dir[x]
  BY <1>1 DEF IInv, TypeOK
<1>6. \E t \in Ino : /\ dir'[Next1[2]] = t /\ t <= ino'
                     /\ (dir[Next1[2]] = 0 /\ t = ino + 1) \/ t = dir[Next1[2]]
                     /\ \A i \in Ino : data'[i] = IF i = t THEN Torn ELSE data[i]
                     /\ data' \in [Ino -> {Torn} \cup Contents]
  <2>1. /\ dir'[Next1[2]] \in Ino /\ dir'[Next1[2]] <= ino'
        /\ \/ dir[Next1[2]] = 0 /\ dir'[Next1[2]] = ino + 1
           \/ dir'[Next1[2]] = dir[Next1[2]]
    BY <1>1, <1>2, <1>4, <1>5 DEF IInv, TypeOK, Fresh, Names, Ino, InodeFor, N, B
  <2> QED
    BY <1>1, <2>1 DEF IInv, TypeOK
<1>7. TypeOK'
  BY <1>1, <1>2, <1>3, <1>4, <1>6 DEF IInv, TypeOK, Names
<1>8. ASSUME N' <= ino', B' <= ino', H' <= ino' PROVE Fresh'
  <2>1. \A i \in Ino : data'[i].ver <= edits
    BY <1>6 DEF IInv, Fresh, TypeOK, Torn
  <2> QED
    BY <1>1, <1>8, <2>1 DEF IInv, Fresh, Loaded
<1>9. CASE BackingUp(1, 1) /\ Next1 = <<"creat", "n~", "backup">>
  <2>1. /\ N' = N /\ H' = H /\ BackingUp(2, 2)'
        /\ B' \in Ino /\ B' = ino + 1 /\ B' <= ino' /\ B' # N /\ B' # H
    BY <1>3, <1>4, <1>5, <1>6, <1>9 DEF IInv, Disk, Fresh, N, B, H, Names, Last
  <2>2. \A i \in Ino : i # B' => data'[i] = data[i]
    BY <1>6, <1>9 DEF B
  <2>3. Fresh'
    BY <1>4, <1>8, <2>1 DEF IInv, Fresh
  <2>4. Disk'
    BY <1>3, <1>4, <1>9, <2>1, <2>2 DEF IInv, Disk, Last
  <2>5. Safe'
    BY <1>1, <1>3, <1>4, <1>9, <2>1, <2>2
       DEF IInv, Disk, Safe, Fine, Recovered, header, Loaded, N, H, Last
  <2>6. Moved' /\ InMemory'
    BY <1>1, <1>3, <1>4, <1>9, <2>1, <2>2
       DEF IInv, TypeOK, Control, Moved, InMemory, Loaded, Last
  <2> QED
    BY <1>3, <1>7, <2>3, <2>4, <2>5, <2>6 DEF IInv
<1>10. CASE BackingUp(6, 6) /\ Next1 = <<"creat", "n~", "tmp">>
  <2>1. /\ N' = N /\ H' = H /\ B' \in Ino /\ B' <= ino' /\ B' # N /\ B' # H
        /\ todo'.op = todo.op /\ todo'.at = 7
    BY <1>3, <1>4, <1>5, <1>6, <1>10 DEF IInv, Disk, Apart, Fresh, N, B, H, Names, Last
  <2>2. \A i \in Ino : i # B' => data'[i] = data[i]
    BY <1>6, <1>10 DEF B
  <2>3. Fresh'
    BY <1>4, <1>8, <2>1 DEF IInv, Fresh
  <2>4. Disk'
    BY <1>1, <1>3, <1>4, <1>10, <2>1, <2>2 DEF IInv, Disk, Kept, NoBackup, Apart
  <2>5. Safe'
    BY <1>1, <1>3, <1>4, <1>10, <2>1, <2>2
       DEF IInv, Disk, Kept, NoBackup, Safe, Fine, Recovered, header, Loaded, N, H, Last
  <2>6. Moved' /\ InMemory'
    BY <1>1, <1>3, <1>4, <1>10, <2>1, <2>2
       DEF IInv, TypeOK, Control, Moved, InMemory, Loaded, Last
  <2> QED
    BY <1>3, <1>7, <2>3, <2>4, <2>5, <2>6 DEF IInv
<1>11. CASE Saving(8, 8) /\ Next1 = <<"creat", "n", "move">>
  <2>1. /\ B' = B /\ H' = H /\ N' \in Ino /\ N' <= ino' /\ N' # B /\ N' # H
        /\ N # 0 => N' = N
        /\ B \in Ino /\ Saving(9, 9)'
    BY <1>3, <1>4, <1>5, <1>6, <1>11 DEF IInv, Disk, Apart, Kept, NoBackup, Fresh, N, B, H, Names, Last
  <2>2. \A i \in Ino : i # N' => data'[i] = data[i]
    BY <1>6, <1>11 DEF N
  <2>3. Fresh'
    <3>1. B <= ino /\ H <= ino
      BY DEF IInv, Fresh
    <3>2. B' <= ino' /\ H' <= ino'
      BY <1>4, <2>1, <3>1
    <3> QED
      BY <1>8, <2>1, <3>2
  <2>4. Disk'
    BY <1>1, <1>3, <1>4, <1>11, <2>1, <2>2 DEF IInv, Disk, Apart, Last
  <2>5. Safe'
    <3>1. "backup" \notin failed /\ "move" \notin failed => H # 0
      BY <1>11 DEF IInv, Disk, Kept, NoBackup, Safe, Fine, Whole, Torn, Recovered, header, N, H
    <3> QED
      BY <1>1, <1>3, <1>4, <1>11, <2>1, <2>2, <3>1
         DEF IInv, Safe, Fine, Recovered, Loaded, H, Last
  <2>6. Moved'
    BY <1>1, <1>3, <1>11, <2>1, <2>2, WrittenKept DEF IInv, Moved, Last
  <2>7. InMemory'
    BY <1>1, <1>3, <1>4, <1>11, <2>1, <2>2 DEF IInv, TypeOK, Control, InMemory, Loaded, NotLoaded, Last
  <2> QED
    BY <1>3, <1>7, <2>3, <2>4, <2>5, <2>6, <2>7 DEF IInv
<1> QED
  BY <1>2, <1>9, <1>10, <1>11

(***************************************************************************)
(* restore_backup is called when there is a backup, and skipped otherwise. *)
(***************************************************************************)
LEMMA RestoreInv == IInv /\ restore => IInv'
<1> SUFFICES ASSUME IInv, restore PROVE IInv'
  OBVIOUS
<1> USE DEF Checking, BackingUp, Changing, Saving, Settled
<1>1. /\ UNCHANGED <<wf, dir, data, ino, mem, edits, saved, sent, errors, failed>>
      /\ todo' = IF H = 0 THEN Skip(4) ELSE Skip(1)
      /\ ~Idle /\ Next1[1] = "restore"
  BY DEF restore, Is, H
<1>2. Checking(2, 2)
  <2> HIDE DEF Checking, BackingUp, Changing, Saving
  <2> QED
    BY <1>1, PlaceOfCall DEF IInv
<1>3. \E k \in {1, 4} :
        /\ k = IF H = 0 THEN 4 ELSE 1
        /\ todo' = IF todo.at + k > Last(todo.op) THEN None
                   ELSE [op |-> todo.op, at |-> todo.at + k, m |-> todo.m]
        /\ todo' \in [op : DOMAIN Program \cup {"none"}, at : 0 .. 17, m : {0, 1, 3}]
        /\ Control' /\ KeepsClean'
  <2>1. CASE H = 0
    BY <1>1, <1>2, <2>1, GoesOn
  <2>2. CASE H # 0
    BY <1>1, <1>2, <2>2, GoesOn
  <2> QED
    BY <2>1, <2>2
<1>4. N' = N /\ B' = B /\ H' = H
  BY <1>1 DEF N, B, H
<1>5. /\ todo'.op = todo.op /\ todo'.op # "none"
      /\ H = 0 => Checking(6, 6)'
      /\ H # 0 => Checking(3, 3)'
  BY <1>2, <1>3 DEF Last
<1>6. TypeOK' /\ Fresh'
  BY <1>1, <1>3, <1>4 DEF IInv, TypeOK, Fresh, Loaded
<1>7. Disk'
  BY <1>1, <1>2, <1>4, <1>5 DEF IInv, Disk
<1>8. Safe' /\ Moved'
  BY <1>1, <1>2, <1>4, <1>5 DEF IInv, Safe, Fine, Recovered, header, Loaded, N, H, Moved
<1>9. InMemory'
  BY <1>1, <1>2, <1>4, <1>5 DEF IInv, InMemory, Loaded
<1> QED
  BY <1>3, <1>6, <1>7, <1>8, <1>9 DEF IInv

(***************************************************************************)
(* Without a backup the callers go on, without n~ they undo, and n is left *)
(* alone when it cannot be opened.                                         *)
(***************************************************************************)
LEMMA CreatFailsInv == IInv /\ creat_fails => IInv'
<1> SUFFICES ASSUME IInv, creat_fails PROVE IInv'
  OBVIOUS
<1> USE DEF Checking, BackingUp, Changing, Saving, Settled
<1>1. /\ UNCHANGED <<wf, dir, data, ino, mem, edits, saved, sent>>
      /\ ~Idle /\ Next1[1] = "creat"
      /\ errors' \in 0 .. MaxErrors /\ failed' = failed \cup {Next1[3]}
      /\ Next1[3] = "backup" => todo' = Skip(5)
      /\ Next1[3] = "tmp" => todo' = Undo(2)
      /\ Next1[3] = "move" => todo' = Skip(3)
  BY BoundsAssumption DEF creat_fails, Is, Fails, IInv, TypeOK
<1>2. \/ BackingUp(1, 1) /\ Next1 = <<"creat", "n~", "backup">>
      \/ BackingUp(6, 6) /\ Next1 = <<"creat", "n~", "tmp">>
      \/ Saving(8, 8) /\ Next1 = <<"creat", "n", "move">>
  <2> HIDE DEF Checking, BackingUp, Changing, Saving
  <2> QED
    BY <1>1, PlaceOfCall DEF IInv
<1>3. N' = N /\ B' = B /\ H' = H /\ Fresh'
  BY <1>1 DEF N, B, H, IInv, Fresh, Loaded
<1>4. ASSUME todo' \in [op : DOMAIN Program \cup {"none"}, at : 0 .. 17, m : {0, 1, 3}],
             failed' \subseteq {"backup", "tmp", "move", "client"}
      PROVE  TypeOK'
  BY <1>1, <1>4 DEF IInv, TypeOK
<1>5. CASE BackingUp(1, 1) /\ Next1 = <<"creat", "n~", "backup">>
  <2>1. /\ todo' = IF todo.at + 5 > Last(todo.op) THEN None
                   ELSE [op |-> todo.op, at |-> todo.at + 5, m |-> todo.m]
        /\ todo' \in [op : DOMAIN Program \cup {"none"}, at : 0 .. 17, m : {0, 1, 3}]
        /\ Control' /\ KeepsClean'
    BY <1>1, <1>5, GoesOn
  <2>2. todo'.op = todo.op /\ todo'.at = 6 /\ todo'.m = todo.m
    BY <1>5, <2>1 DEF Last
  <2>3. "backup" \in failed' /\ failed' = failed \cup {"backup"}
    BY <1>1, <1>5
  <2>4. TypeOK'
    BY <1>4, <2>1, <2>3 DEF IInv, TypeOK
  <2>5. Disk'
    BY <1>1, <1>3, <1>5, <2>2, <2>3 DEF IInv, Disk, NoBackup
  <2>6. Safe' /\ Moved' /\ InMemory'
    BY <1>1, <1>3, <1>5, <2>2, <2>3 DEF IInv, Safe, Moved, InMemory, Loaded
  <2> QED
    BY <1>3, <2>1, <2>4, <2>5, <2>6 DEF IInv
<1>6. CASE BackingUp(6, 6) /\ Next1 = <<"creat", "n~", "tmp">>
  <2>1. todo' = [op |-> "undo", at |-> 2, m |-> 0] /\ failed' = failed \cup {"tmp"}
    BY <1>1, <1>6 DEF Undo
  <2>2. TypeOK'
    BY <1>4, <2>1, OtherCalls DEF IInv, TypeOK
  <2>3. Control' /\ KeepsClean'
    BY <1>1, <1>6, <2>1 DEF IInv, Control, KeepsClean
  <2>4. Disk'
    BY <1>1, <1>3, <1>6, <2>1 DEF IInv, Disk, Kept, NoBackup
  <2>5. Safe' /\ Moved'
    BY <1>1, <1>3, <1>6, <2>1
       DEF IInv, Safe, Fine, Recovered, header, N, H, Loaded, Moved
  <2>6. InMemory'
    BY <1>1, <1>3, <1>6, <2>1 DEF IInv, Control, InMemory, Loaded
  <2> QED
    BY <1>3, <2>2, <2>3, <2>4, <2>5, <2>6 DEF IInv
<1>7. CASE Saving(8, 8) /\ Next1 = <<"creat", "n", "move">>
  <2>1. /\ todo' = IF todo.at + 3 > Last(todo.op) THEN None
                   ELSE [op |-> todo.op, at |-> todo.at + 3, m |-> todo.m]
        /\ todo' \in [op : DOMAIN Program \cup {"none"}, at : 0 .. 17, m : {0, 1, 3}]
        /\ Control' /\ KeepsClean'
    BY <1>1, <1>7, GoesOn
  <2>2. Saving(11, 11)'
    BY <1>7, <2>1 DEF Last
  <2>3. "move" \in failed' /\ failed' = failed \cup {"move"}
    BY <1>1, <1>7
  <2>4. TypeOK'
    BY <1>4, <2>1, <2>3 DEF IInv, TypeOK
  <2>5. Disk' /\ Safe' /\ Moved' /\ InMemory'
    BY <2>2, <2>3 DEF Disk, Safe, Moved, InMemory
  <2> QED
    BY <1>3, <2>1, <2>4, <2>5 DEF IInv
<1> QED
  BY <1>2, <1>5, <1>6, <1>7

(***************************************************************************)
(* What is written is a file of the type of the others, not newer than the *)
(* last change, fine, and under the identity of the file in memory.        *)
(***************************************************************************)
LEMMA WrittenFits ==
    ASSUME IInv, todo.op = "write" \/ sent # NotSent
    PROVE  /\ written \in Contents /\ written.ver <= edits
           /\ "backup" \notin failed /\ "move" \notin failed => Fine(written)
           /\ "move" \notin failed /\ "client" \notin failed /\ Loaded =>
                written.uniq = mem.uniq /\ written.org = mem.org
<1>1. CASE todo.op = "write"
  <2>1. Loaded /\ Servers
    BY <1>1 DEF IInv, Control
  <2>2. /\ mem.ver \in 0 .. MaxEdits /\ mem.uniq \in Ino /\ mem.org \in Ino
        /\ mem.maxcomment \in 0 .. 1
    BY <2>1 DEF IInv, TypeOK, Loaded
  <2>3. /\ written = in_memory
        /\ written.ver = mem.ver /\ written.uniq = mem.uniq /\ written.org = mem.org
        /\ written.maxcomment = mem.maxcomment /\ written.comment \in 0 .. 1
        /\ wf.file_type = "DICT" => written.comment = written.maxcomment
    BY <2>1, <2>2 DEF written, in_memory, writedict, writehindo
  <2>4. written \in Contents /\ written.ver # -1
    BY <2>2, <2>3, BoundsAssumption DEF in_memory, Contents
  <2> QED
    BY <2>1, <2>3, <2>4 DEF IInv, Fresh, Safe, Fine, Whole
<1>2. CASE sent # NotSent
  <2>1. ~Servers /\ written = sent /\ sent \in Contents
    BY <1>2 DEF IInv, Control, written, TypeOK
  <2> QED
    BY <1>2, <2>1 DEF IInv, Fresh, Safe, InMemory
<1> QED
  BY <1>1, <1>2

(***************************************************************************)
(* A death in the middle of a copy or of the writing of n~: the file that  *)
(* is cut short is n~, or n while there is a backup.                       *)
(***************************************************************************)
LEMMA HalfDoneInv == IInv /\ half_done => IInv'
<1> SUFFICES ASSUME IInv, half_done PROVE IInv'
  OBVIOUS
<1> USE DEF Checking, BackingUp, Changing, Saving, Settled
<1>1. UNCHANGED <<wf, dir, ino, mem, edits, saved, todo, sent, errors, failed>>
  BY DEF half_done
<1>2. N' = N /\ B' = B /\ H' = H /\ written' = written
  BY <1>1, WrittenKept DEF N, B, H
<1>3. \E t \in Ino, v \in {Torn} \cup Contents :
        /\ data' = [data EXCEPT ![t] = v] /\ v.ver = -1
        /\ \/ BackingUp(2, 2) /\ N # 0 /\ t = B
           \/ Saving(7, 7) /\ t = B
           \/ Saving(9, 9) /\ t = N
  <2>1. ASSUME NEW d \in {Torn} \cup Contents
        PROVE  CutShort(d) \in {Torn} \cup Contents /\ CutShort(d).ver = -1
    BY BoundsAssumption DEF CutShort, Torn, Contents
  <2>2. N \in Ino \cup {0} /\ B \in Ino \cup {0} /\ 0 \notin Ino
    BY DEF IInv, TypeOK, Names, N, B, Ino
  <2>3. CASE Is("copy") /\ dir[Next1[2]] # 0
             /\ data' = [data EXCEPT ![dir[Next1[3]]] = CutShort(data[dir[Next1[2]]])]
    <3>1. \/ BackingUp(2, 2) /\ Next1 = <<"copy", "n", "n~", "backup">>
          \/ Saving(9, 9) /\ Next1 = <<"copy", "n~", "n", "move">>
      <4> HIDE DEF Checking, BackingUp, Changing, Saving
      <4> QED
        BY <2>3, PlaceOfCall DEF IInv, Is
    <3>2. \/ BackingUp(2, 2) /\ N \in Ino /\ B \in Ino /\ N # 0
             /\ data' = [data EXCEPT ![B] = CutShort(data[N])]
          \/ Saving(9, 9) /\ N \in Ino /\ B \in Ino
             /\ data' = [data EXCEPT ![N] = CutShort(data[B])]
      <4>1. /\ BackingUp(2, 2) => B # 0
            /\ Saving(9, 9) => B # 0 /\ N # 0
        BY DEF IInv, Disk
      <4>2. CASE BackingUp(2, 2) /\ Next1 = <<"copy", "n", "n~", "backup">>
        <5>1. N # 0 /\ data' = [data EXCEPT ![B] = CutShort(data[N])]
          BY <2>3, <4>2 DEF N, B
        <5> QED
          BY <2>2, <4>1, <4>2, <5>1
      <4>3. CASE Saving(9, 9) /\ Next1 = <<"copy", "n~", "n", "move">>
        <5>1. data' = [data EXCEPT ![N] = CutShort(data[B])]
          BY <2>3, <4>3 DEF N, B
        <5> QED
          BY <2>2, <4>1, <4>3, <5>1
      <4> QED
        BY <3>1, <4>2, <4>3
    <3>3. \A i \in Ino : data[i] \in {Torn} \cup Contents
      BY DEF IInv, TypeOK
    <3> QED
      BY <2>1, <3>2, <3>3
  <2>4. CASE Is("write") /\ data' = [data EXCEPT ![dir["n~"]] = CutShort(written)]
    <3>1. Saving(7, 7)
      <4> HIDE DEF Checking, BackingUp, Changing, Saving
      <4> QED
        BY <2>4, PlaceOfCall DEF IInv, Is
    <3>2. B \in Ino /\ written \in Contents
      BY <2>2, <3>1, WrittenFits DEF IInv, Disk, Control
    <3> QED
      BY <2>1, <2>4, <3>1, <3>2 DEF B
  <2> QED
    BY <2>3, <2>4 DEF half_done, half_written
<1>4. PICK t \in Ino, v \in {Torn} \cup Contents :
        /\ data' = [data EXCEPT ![t] = v] /\ v.ver = -1
        /\ \/ BackingUp(2, 2) /\ N # 0 /\ t = B
           \/ Saving(7, 7) /\ t = B
           \/ Saving(9, 9) /\ t = N
  BY <1>3
<1>5. /\ data' \in [Ino -> {Torn} \cup Contents]
      /\ \A i \in Ino : data'[i] = IF i = t THEN v ELSE data[i]
  BY <1>4 DEF IInv, TypeOK
<1>6. N \in Ino \cup {0} /\ B \in Ino \cup {0} /\ H \in Ino \cup {0}
  BY DEF IInv, TypeOK, Names, N, B, H
<1>7. TypeOK' /\ Control' /\ KeepsClean'
  BY <1>1, <1>5 DEF IInv, TypeOK, Control, KeepsClean, Loaded, Servers
<1>8. Fresh'
  BY <1>1, <1>2, <1>4, <1>5 DEF IInv, TypeOK, Fresh, Loaded
<1>9. CASE BackingUp(2, 2) /\ N # 0 /\ t = B
  <2>1. H = 0 /\ B # N
    BY <1>9 DEF IInv, Disk
  <2>2. Disk'
    BY <1>1, <1>2, <1>5, <1>6, <1>9, <2>1 DEF IInv, Disk
  <2>3. Safe' /\ Moved'
    BY <1>1, <1>2, <1>5, <1>6, <1>9, <2>1
       DEF IInv, Safe, Fine, Recovered, header, N, H, Loaded, Moved
  <2>4. InMemory'
    BY <1>1, <1>2, <1>5, <1>6, <1>9, <2>1 DEF IInv, TypeOK, Control, InMemory, Loaded
  <2> QED
    BY <1>7, <1>8, <2>2, <2>3, <2>4 DEF IInv
<1>10. CASE Saving(7, 7) /\ t = B
  <2>1. B # N /\ B # H
    BY <1>10 DEF IInv, Disk, Apart
  <2>2. Disk'
    BY <1>1, <1>2, <1>5, <1>6, <1>10, <2>1 DEF IInv, Disk, Kept, NoBackup, Apart
  <2>3. Safe' /\ Moved'
    BY <1>1, <1>2, <1>5, <1>6, <1>10, <2>1
       DEF IInv, Safe, Fine, Recovered, header, N, H, Loaded, Moved
  <2>4. InMemory'
    BY <1>1, <1>2, <1>5, <1>6, <1>10, <2>1 DEF IInv, TypeOK, InMemory, Loaded
  <2> QED
    BY <1>7, <1>8, <2>2, <2>3, <2>4 DEF IInv
<1>11. CASE Saving(9, 9) /\ t = N
  <2>1. B # N /\ B # H /\ N # H
    BY <1>11 DEF IInv, Disk, Apart
  <2>2. Disk'
    BY <1>1, <1>2, <1>5, <1>6, <1>11, <2>1 DEF IInv, Disk, Apart
  <2>3. Safe'
    BY <1>1, <1>2, <1>5, <1>6, <1>11, <2>1 DEF IInv, Safe, Fine, Recovered, H, Loaded
  <2>5. Moved'
    <3>1. B \in Ino
      BY <1>6, <1>11 DEF IInv, Disk
    <3> QED
      BY <1>1, <1>2, <1>5, <1>11, <2>1, <3>1 DEF IInv, Moved
  <2>4. InMemory'
    BY <1>1, <1>2, <1>5, <1>6, <1>11, <2>1 DEF IInv, TypeOK, InMemory, Loaded
  <2> QED
    BY <1>7, <1>8, <2>2, <2>3, <2>4, <2>5 DEF IInv
<1> QED
  BY <1>4, <1>9, <1>10, <1>11

(***************************************************************************)
(* The copy of n to its backup, and of n~ to n.                            *)
(***************************************************************************)
LEMMA CopyInv == IInv /\ copy => IInv'
<1> SUFFICES ASSUME IInv, copy PROVE IInv'
  OBVIOUS
<1> USE DEF Checking, BackingUp, Changing, Saving, Settled
<1>1. /\ UNCHANGED <<wf, dir, ino, mem, edits, saved, sent, errors, failed>>
      /\ ~Idle /\ Next1[1] = "copy"
      /\ \/ dir[Next1[2]] = 0 /\ todo' = Skip(4) /\ UNCHANGED data
         \/ dir[Next1[2]] # 0 /\ todo' = Skip(1)
            /\ data' = [data EXCEPT ![dir[Next1[3]]] = data[dir[Next1[2]]]]
  BY DEF copy, Is
<1>2. \/ BackingUp(2, 2) /\ Next1 = <<"copy", "n", "n~", "backup">>
      \/ Saving(9, 9) /\ Next1 = <<"copy", "n~", "n", "move">>
  <2> HIDE DEF Checking, BackingUp, Changing, Saving
  <2> QED
    BY <1>1, PlaceOfCall DEF IInv
<1>3. N' = N /\ B' = B /\ H' = H /\ written' = written
  BY <1>1, WrittenKept DEF N, B, H
<1>4. N \in Ino \cup {0} /\ B \in Ino \cup {0} /\ H \in Ino \cup {0} /\ 0 \notin Ino
  BY DEF IInv, TypeOK, Names, N, B, H, Ino
<1>5. CASE BackingUp(2, 2) /\ N = 0 /\ todo' = Skip(4) /\ UNCHANGED data
  <2>1. /\ todo' = IF todo.at + 4 > Last(todo.op) THEN None
                   ELSE [op |-> todo.op, at |-> todo.at + 4, m |-> todo.m]
        /\ todo' \in [op : DOMAIN Program \cup {"none"}, at : 0 .. 17, m : {0, 1, 3}]
        /\ Control' /\ KeepsClean'
    BY <1>1, <1>5, GoesOn
  <2>2. todo'.op = todo.op /\ todo'.at = 6 /\ todo'.m = todo.m
    BY <1>5, <2>1 DEF Last
  <2>3. TypeOK' /\ Fresh'
    BY <1>1, <1>3, <1>5, <2>1 DEF IInv, TypeOK, Fresh, Loaded
  <2>4. Disk'
    BY <1>1, <1>3, <1>5, <2>2 DEF IInv, Disk, NoBackup, Apart
  <2>5. Safe' /\ Moved'
    BY <1>1, <1>3, <1>5, <2>2 DEF IInv, Safe, Fine, Recovered, header, N, H, Loaded, Moved
  <2>6. InMemory'
    BY <1>1, <1>3, <1>5, <2>2 DEF IInv, Control, InMemory, Loaded
  <2> QED
    BY <2>1, <2>3, <2>4, <2>5, <2>6 DEF IInv
<1>6. CASE BackingUp(2, 2) /\ N # 0 /\ todo' = Skip(1) /\ data' = [data EXCEPT ![B] = data[N]]
  <2>1. /\ todo' = IF todo.at + 1 > Last(todo.op) THEN None
                   ELSE [op |-> todo.op, at |-> todo.at + 1, m |-> todo.m]
        /\ todo' \in [op : DOMAIN Program \cup {"none"}, at : 0 .. 17, m : {0, 1, 3}]
        /\ Control' /\ KeepsClean'
    BY <1>1, <1>6, GoesOn
  <2>2. todo'.op = todo.op /\ todo'.at = 3 /\ todo'.m = todo.m
    BY <1>6, <2>1 DEF Last
  <2>3. H = 0 /\ B # N /\ B \in Ino /\ N \in Ino
    BY <1>4, <1>6 DEF IInv, Disk
  <2>4. /\ data' \in [Ino -> {Torn} \cup Contents]
        /\ \A i \in Ino : data'[i] = IF i = B THEN data[N] ELSE data[i]
    BY <1>6, <2>3 DEF IInv, TypeOK
  <2>5. TypeOK' /\ Fresh'
    BY <1>1, <1>3, <2>1, <2>3, <2>4 DEF IInv, TypeOK, Fresh, Loaded
  <2>6. Disk'
    BY <1>1, <1>3, <1>6, <2>2, <2>3, <2>4 DEF IInv, Disk
  <2>7. Safe' /\ Moved'
    BY <1>1, <1>3, <1>6, <2>2, <2>3, <2>4
       DEF IInv, Safe, Fine, Recovered, header, N, H, Loaded, Moved
  <2>8. InMemory'
    BY <1>1, <1>3, <1>4, <1>6, <2>2, <2>3, <2>4 DEF IInv, TypeOK, Control, InMemory, Loaded
  <2> QED
    BY <2>1, <2>5, <2>6, <2>7, <2>8 DEF IInv
<1>7. CASE Saving(9, 9) /\ todo' = Skip(1) /\ data' = [data EXCEPT ![N] = data[B]]
  <2>1. /\ todo' = IF todo.at + 1 > Last(todo.op) THEN None
                   ELSE [op |-> todo.op, at |-> todo.at + 1, m |-> todo.m]
        /\ todo' \in [op : DOMAIN Program \cup {"none"}, at : 0 .. 17, m : {0, 1, 3}]
        /\ Control' /\ KeepsClean'
    BY <1>1, <1>7, GoesOn
  <2>2. todo'.op = todo.op /\ todo'.at = todo.at + 1 /\ Saving(10, 10)'
    BY <1>7, <2>1 DEF Last
  <2>3. B # N /\ N # H /\ B \in Ino /\ N \in Ino
    BY <1>4, <1>7 DEF IInv, Disk, Apart
  <2>4. /\ data' \in [Ino -> {Torn} \cup Contents]
        /\ \A i \in Ino : data'[i] = IF i = N THEN data[B] ELSE data[i]
    BY <1>7, <2>3 DEF IInv, TypeOK
  <2>5. TypeOK' /\ Fresh'
    BY <1>1, <1>3, <2>1, <2>3, <2>4 DEF IInv, TypeOK, Fresh, Loaded
  <2>6. Disk'
    BY <1>1, <1>3, <1>7, <2>2, <2>3, <2>4 DEF IInv, Disk
  <2>7. Safe'
    BY <1>1, <1>3, <1>4, <1>7, <2>2, <2>3, <2>4 DEF IInv, Safe, Fine, Recovered, H, Loaded
  <2>8. "move" \notin failed => N' # 0 /\ data'[N'] = written'
    <3>1. "move" \notin failed => data[B] = written
      BY <1>7 DEF IInv, Moved
    <3> QED
      BY <1>3, <1>4, <2>3, <2>4, <3>1
  <2>9. Moved'
    BY <1>1, <1>7, <2>2, <2>8 DEF Moved
  <2>10. InMemory'
    BY <1>1, <1>3, <1>7, <2>2, <2>8, WrittenFits DEF IInv, Control, InMemory, Loaded
  <2> QED
    BY <2>1, <2>5, <2>6, <2>7, <2>9, <2>10 DEF IInv
<1>8. Saving(9, 9) => B # 0
  BY DEF IInv, Disk
<1> QED
  BY <1>1, <1>2, <1>5, <1>6, <1>7, <1>8 DEF N, B

(***************************************************************************)
(* A copy that fails: n~ is no backup, or n is not what was saved, which   *)
(* nobody notices.                                                         *)
(***************************************************************************)
LEMMA CopyFailsInv == IInv /\ copy_fails => IInv'
<1> SUFFICES ASSUME IInv, copy_fails PROVE IInv'
  OBVIOUS
<1> USE DEF Checking, BackingUp, Changing, Saving, Settled
<1>1. /\ UNCHANGED <<wf, dir, data, ino, mem, edits, saved, sent>>
      /\ ~Idle /\ Next1[1] = "copy"
      /\ errors' \in 0 .. MaxErrors /\ failed' = failed \cup {Next1[4]}
      /\ todo' = IF Next1[4] = "backup" THEN Skip(4) ELSE Skip(1)
  BY BoundsAssumption DEF copy_fails, Is, Fails, IInv, TypeOK
<1>2. \/ BackingUp(2, 2) /\ Next1 = <<"copy", "n", "n~", "backup">>
      \/ Saving(9, 9) /\ Next1 = <<"copy", "n~", "n", "move">>
  <2> HIDE DEF Checking, BackingUp, Changing, Saving
  <2> QED
    BY <1>1, PlaceOfCall DEF IInv
<1>3. N' = N /\ B' = B /\ H' = H /\ Fresh'
  BY <1>1 DEF N, B, H, IInv, Fresh, Loaded
<1>4. CASE BackingUp(2, 2) /\ Next1 = <<"copy", "n", "n~", "backup">>
  <2>1. todo' = Skip(4) /\ failed' = failed \cup {"backup"}
    BY <1>1, <1>4
  <2>2. /\ todo' = IF todo.at + 4 > Last(todo.op) THEN None
                   ELSE [op |-> todo.op, at |-> todo.at + 4, m |-> todo.m]
        /\ todo' \in [op : DOMAIN Program \cup {"none"}, at : 0 .. 17, m : {0, 1, 3}]
        /\ Control' /\ KeepsClean'
    BY <1>1, <1>4, <2>1, GoesOn
  <2>3. todo'.op = todo.op /\ todo'.at = 6 /\ todo'.m = todo.m
    BY <1>4, <2>2 DEF Last
  <2>4. TypeOK'
    BY <1>1, <2>1, <2>2 DEF IInv, TypeOK
  <2>5. Disk'
    BY <1>1, <1>3, <1>4, <2>1, <2>3 DEF IInv, Disk, NoBackup, Apart
  <2>6. Safe' /\ Moved' /\ InMemory'
    BY <1>1, <1>3, <1>4, <2>1, <2>3 DEF IInv, Safe, Moved, InMemory, Loaded
  <2> QED
    BY <1>3, <2>2, <2>4, <2>5, <2>6 DEF IInv
<1>5. CASE Saving(9, 9) /\ Next1 = <<"copy", "n~", "n", "move">>
  <2>1. todo' = Skip(1) /\ failed' = failed \cup {"move"}
    BY <1>1, <1>5
  <2>2. /\ todo' = IF todo.at + 1 > Last(todo.op) THEN None
                   ELSE [op |-> todo.op, at |-> todo.at + 1, m |-> todo.m]
        /\ todo' \in [op : DOMAIN Program \cup {"none"}, at : 0 .. 17, m : {0, 1, 3}]
        /\ Control' /\ KeepsClean'
    BY <1>1, <1>5, <2>1, GoesOn
  <2>3. Saving(10, 10)'
    BY <1>5, <2>2 DEF Last
  <2>4. TypeOK'
    BY <1>1, <2>1, <2>2 DEF IInv, TypeOK
  <2>5. Disk' /\ Safe' /\ Moved' /\ InMemory'
    BY <2>1, <2>3 DEF Disk, Safe, Moved, InMemory
  <2> QED
    BY <1>3, <2>2, <2>4, <2>5 DEF IInv
<1> QED
  BY <1>2, <1>4, <1>5

(***************************************************************************)
(* The server has sent the file and takes it for saved.                    *)
(***************************************************************************)
LEMMA RcvFileInv == IInv /\ rcv_file => IInv'
<1> SUFFICES ASSUME IInv, rcv_file PROVE IInv'
  OBVIOUS
<1> USE DEF Checking, BackingUp, Changing, Saving, Settled
<1>1. /\ UNCHANGED <<wf, dir, data, ino, edits, saved, errors, failed>>
      /\ sent' = in_memory /\ todo' = Skip(1)
      /\ mem' = IF todo.m = 1 THEN [mem EXCEPT !.dirty = FALSE] ELSE mem
      /\ ~Idle /\ Next1[1] = "send"
  BY DEF rcv_file, Is
<1>2. todo.op = "receive" /\ todo.at = 7
  <2> HIDE DEF Checking, BackingUp, Changing, Saving
  <2> QED
    BY <1>1, PlaceOfCall DEF IInv
<1>3. todo' = [op |-> "receive", at |-> 8, m |-> todo.m]
  BY <1>1, <1>2, SkipGoesOn DEF IInv, Last
<1>4. Loaded /\ ~Servers /\ sent = NotSent
  BY <1>2 DEF IInv, Control
<1>5. /\ mem.ver \in 0 .. MaxEdits /\ mem.uniq \in Ino /\ mem.org \in Ino
      /\ mem.maxcomment \in 0 .. 1 /\ mem.dirty \in BOOLEAN
      /\ mem \in [ver : 0 .. MaxEdits, uniq : Ino, org : Ino, maxcomment : 0 .. 1, dirty : BOOLEAN]
  BY <1>4 DEF IInv, TypeOK, Loaded
<1>6. /\ mem' \in [ver : 0 .. MaxEdits, uniq : Ino, org : Ino, maxcomment : 0 .. 1, dirty : BOOLEAN]
      /\ mem'.ver = mem.ver /\ mem'.uniq = mem.uniq /\ mem'.org = mem.org
      /\ mem' # NotLoaded
      /\ todo.m # 1 => mem' = mem
  <2>1. /\ mem' \in [ver : 0 .. MaxEdits, uniq : Ino, org : Ino, maxcomment : 0 .. 1, dirty : BOOLEAN]
        /\ mem'.ver = mem.ver /\ mem'.uniq = mem.uniq /\ mem'.org = mem.org
    BY <1>1, <1>5
  <2>2. mem'.ver # NotLoaded.ver
    BY <1>5, <2>1 DEF NotLoaded
  <2> QED
    BY <1>1, <2>1, <2>2
<1>7. /\ sent'.ver = mem.ver /\ sent'.uniq = mem.uniq /\ sent'.org = mem.org
      /\ sent' \in Contents /\ sent' # NotSent
      /\ wf.file_type = "DICT" => sent'.comment = sent'.maxcomment
  <2>1. /\ sent'.ver = mem.ver /\ sent'.uniq = mem.uniq /\ sent'.org = mem.org
        /\ sent'.maxcomment = mem.maxcomment /\ sent'.comment \in 0 .. 1
        /\ wf.file_type = "DICT" => sent'.comment = sent'.maxcomment
    BY <1>1, <1>5 DEF in_memory, writedict, writehindo
  <2>2. sent' \in Contents
    BY <1>1, <1>5, <2>1, BoundsAssumption DEF in_memory, Contents
  <2> QED
    BY <1>5, <2>1, <2>2, BoundsAssumption DEF NotSent, Torn
<1>8. N' = N /\ B' = B /\ H' = H
  BY <1>1 DEF N, B, H
<1>9. TypeOK'
  BY <1>1, <1>2, <1>3, <1>6, <1>7, OtherCalls DEF IInv, TypeOK
<1>10. Control' /\ KeepsClean'
  BY <1>1, <1>3, <1>4, <1>6, <1>7 DEF Control, KeepsClean, Loaded, Servers
<1>11. Fresh'
  BY <1>1, <1>4, <1>5, <1>6, <1>7, <1>8 DEF IInv, TypeOK, Fresh, Loaded, Whole
<1>12. Disk'
  BY <1>1, <1>2, <1>3, <1>8 DEF IInv, Disk, Kept, NoBackup, Apart
<1>13. Safe'
  <2>1. \A d : Fine(d)' <=> Fine(d)
    BY <1>1 DEF Fine
  <2>2. Recovered' = Recovered
    BY <1>1 DEF Recovered, header
  <2>3. "backup" \notin failed /\ "move" \notin failed => Fine(sent')
    BY <1>4, <1>5, <1>7 DEF IInv, Safe, Fine, Whole
  <2> QED
    BY <1>1, <1>2, <1>3, <1>4, <1>6, <2>1, <2>2, <2>3 DEF IInv, Safe
<1>14. Moved'
  BY <1>3 DEF Moved
<1>15. InMemory'
  BY <1>1, <1>2, <1>3, <1>4, <1>6, <1>7, <1>8 DEF IInv, InMemory
<1> QED
  BY <1>9, <1>10, <1>11, <1>12, <1>13, <1>14, <1>15 DEF IInv

(***************************************************************************)
(* n~ is written, or cannot be.                                            *)
(***************************************************************************)
LEMMA WriteInv == IInv /\ write_file_real => IInv'
<1> SUFFICES ASSUME IInv, write_file_real PROVE IInv'
  OBVIOUS
<1> USE DEF Checking, BackingUp, Changing, Saving, Settled
<1>1. /\ UNCHANGED <<wf, dir, ino, mem, edits, saved, sent, errors, failed>>
      /\ ~Idle /\ Next1[1] = "write" /\ todo' = Skip(1)
      /\ data' = [data EXCEPT ![B] = written]
  BY DEF write_file_real, Is, B
<1>2. Saving(7, 7)
  <2> HIDE DEF Checking, BackingUp, Changing, Saving
  <2> QED
    BY <1>1, PlaceOfCall DEF IInv
<1>3. /\ todo' = IF todo.at + 1 > Last(todo.op) THEN None
                 ELSE [op |-> todo.op, at |-> todo.at + 1, m |-> todo.m]
      /\ todo' \in [op : DOMAIN Program \cup {"none"}, at : 0 .. 17, m : {0, 1, 3}]
      /\ Control' /\ KeepsClean'
  BY <1>1, <1>2, GoesOn
<1>4. todo'.op = todo.op /\ Saving(8, 8)'
  BY <1>2, <1>3 DEF Last
<1>5. N' = N /\ B' = B /\ H' = H /\ written' = written
  BY <1>1, WrittenKept DEF N, B, H
<1>6. N \in Ino \cup {0} /\ B \in Ino /\ H \in Ino \cup {0} /\ B # N /\ B # H
  BY <1>2 DEF IInv, TypeOK, Names, Disk, Apart, N, B, H
<1>7. written \in Contents /\ written.ver <= edits
  BY <1>2, WrittenFits DEF IInv, Control
<1>8. /\ data' \in [Ino -> {Torn} \cup Contents]
      /\ \A i \in Ino : data'[i] = IF i = B THEN written ELSE data[i]
  BY <1>1, <1>6, <1>7 DEF IInv, TypeOK
<1>9. TypeOK' /\ Fresh'
  BY <1>1, <1>3, <1>5, <1>7, <1>8 DEF IInv, TypeOK, Fresh, Loaded
<1>10. Disk'
  BY <1>1, <1>2, <1>4, <1>5, <1>6, <1>8 DEF IInv, Disk, Kept, NoBackup, Apart
<1>11. Safe'
  BY <1>1, <1>2, <1>4, <1>5, <1>6, <1>8 DEF IInv, Safe, Fine, Recovered, header, N, H, Loaded
<1>12. Moved'
  BY <1>2, <1>4, <1>5, <1>6, <1>8 DEF Moved
<1>13. InMemory'
  BY <1>1, <1>2, <1>4, <1>5, <1>6, <1>8 DEF IInv, TypeOK, InMemory, Loaded
<1> QED
  BY <1>3, <1>9, <1>10, <1>11, <1>12, <1>13 DEF IInv

\* The file cannot be written.
LEMMA WriteFailsInv == IInv /\ write_fails => IInv'
<1> SUFFICES ASSUME IInv, write_fails PROVE IInv'
  OBVIOUS
<1> USE DEF Checking, BackingUp, Changing, Saving, Settled
<1>1. /\ UNCHANGED <<wf, dir, data, ino, mem, edits, saved, sent>>
      /\ ~Idle /\ Next1[1] = "write" /\ errors' \in 0 .. MaxErrors
      /\ \/ Servers /\ failed' = failed \cup {"tmp"} /\ todo' = Undo(1)
         \/ ~Servers /\ failed' = failed \cup {"move"} /\ todo' = Skip(1)
  BY BoundsAssumption DEF write_fails, Is, Fails, IInv, TypeOK
<1>2. Saving(7, 7)
  <2> HIDE DEF Checking, BackingUp, Changing, Saving
  <2> QED
    BY <1>1, PlaceOfCall DEF IInv
<1>3. N' = N /\ B' = B /\ H' = H /\ Fresh'
  BY <1>1 DEF N, B, H, IInv, Fresh, Loaded
<1>4. CASE Servers /\ failed' = failed \cup {"tmp"} /\ todo' = Undo(1)
  <2>1. todo' = [op |-> "undo", at |-> 1, m |-> 0]
    BY <1>4 DEF Undo
  <2>2. todo.op = "write"
    BY <1>2, <1>4 DEF IInv, Control
  <2>3. TypeOK'
    BY <1>1, <1>4, <2>1, OtherCalls DEF IInv, TypeOK
  <2>4. Control' /\ KeepsClean'
    BY <1>1, <2>1, <2>2 DEF IInv, Control, KeepsClean
  <2>5. Disk'
    BY <1>1, <1>2, <1>3, <2>1 DEF IInv, Disk, Kept, NoBackup
  <2>6. Safe' /\ Moved'
    BY <1>1, <1>2, <1>3, <1>4, <2>1
       DEF IInv, Safe, Fine, Recovered, header, N, H, Loaded, Moved
  <2>7. InMemory'
    BY <1>1, <1>2, <1>3, <1>4, <2>1, <2>2 DEF IInv, Control, InMemory, Loaded
  <2> QED
    BY <1>3, <2>3, <2>4, <2>5, <2>6, <2>7 DEF IInv
<1>5. CASE ~Servers /\ failed' = failed \cup {"move"} /\ todo' = Skip(1)
  <2>1. /\ todo' = IF todo.at + 1 > Last(todo.op) THEN None
                   ELSE [op |-> todo.op, at |-> todo.at + 1, m |-> todo.m]
        /\ todo' \in [op : DOMAIN Program \cup {"none"}, at : 0 .. 17, m : {0, 1, 3}]
        /\ Control' /\ KeepsClean'
    BY <1>1, <1>2, <1>5, GoesOn
  <2>2. todo'.op = todo.op /\ Saving(8, 8)'
    BY <1>2, <2>1 DEF Last
  <2>3. TypeOK'
    BY <1>1, <1>5, <2>1 DEF IInv, TypeOK
  <2>4. Disk'
    BY <1>1, <1>2, <1>3, <1>5, <2>2 DEF IInv, Disk, Kept, NoBackup, Apart
  <2>5. Safe' /\ Moved' /\ InMemory'
    BY <1>5 DEF Safe, Moved, InMemory
  <2> QED
    BY <1>3, <2>1, <2>3, <2>4, <2>5 DEF IInv
<1> QED
  BY <1>1, <1>4, <1>5

(***************************************************************************)
(* The copy of n with a new identity, or the failure to make it.           *)
(***************************************************************************)
LEMMA NewFileUniqInv == IInv /\ new_file_uniq => IInv'
<1> SUFFICES ASSUME IInv, new_file_uniq PROVE IInv'
  OBVIOUS
<1> USE DEF Checking, BackingUp, Changing, Saving, Settled
<1>1. /\ UNCHANGED <<wf, dir, ino, mem, edits, saved, sent, errors, failed>>
      /\ ~Idle /\ Next1[1] = "new_uniq" /\ todo' = Skip(1)
      /\ data' = [data EXCEPT ![B] = [data[N] EXCEPT !.uniq = B, !.org = data[N].uniq]]
  BY DEF new_file_uniq, Is, N, B
<1>2. Changing(7, 7)
  <2> HIDE DEF Checking, BackingUp, Changing, Saving
  <2> QED
    BY <1>1, PlaceOfCall DEF IInv
<1>3. /\ todo' = IF todo.at + 1 > Last(todo.op) THEN None
                 ELSE [op |-> todo.op, at |-> todo.at + 1, m |-> todo.m]
      /\ todo' \in [op : DOMAIN Program \cup {"none"}, at : 0 .. 17, m : {0, 1, 3}]
      /\ Control' /\ KeepsClean'
  BY <1>1, <1>2, GoesOn
<1>4. Changing(8, 8)'
  BY <1>2, <1>3 DEF Last
<1>5. N' = N /\ B' = B /\ H' = H
  BY <1>1 DEF N, B, H
<1>6. N \in Ino /\ B \in Ino /\ H \in Ino \cup {0} /\ B # N /\ B # H /\ data[N] \in Contents
  <2>1. N \in Ino \cup {0} /\ B \in Ino \cup {0} /\ H \in Ino \cup {0}
    BY DEF IInv, TypeOK, Names, N, B, H
  <2>2. N # 0 /\ B # 0 /\ B # N /\ B # H /\ data[N] # Torn
    BY <1>2 DEF IInv, Disk, Apart
  <2> QED
    BY <2>1, <2>2 DEF IInv, TypeOK
<1>7. \E v \in Contents : /\ v.ver = data[N].ver /\ v.comment = data[N].comment
                          /\ v.maxcomment = data[N].maxcomment
                          /\ data' = [data EXCEPT ![B] = v]
  BY <1>1, <1>6 DEF Contents
<1>8. PICK v \in Contents : /\ v.ver = data[N].ver /\ v.comment = data[N].comment
                            /\ v.maxcomment = data[N].maxcomment
                            /\ data' = [data EXCEPT ![B] = v]
  BY <1>7
<1>9. /\ data' \in [Ino -> {Torn} \cup Contents]
      /\ \A i \in Ino : data'[i] = IF i = B THEN v ELSE data[i]
  BY <1>6, <1>8 DEF IInv, TypeOK
<1>10. TypeOK' /\ Fresh'
  BY <1>1, <1>3, <1>5, <1>6, <1>8, <1>9 DEF IInv, TypeOK, Fresh, Loaded
<1>11. Disk'
  BY <1>1, <1>2, <1>4, <1>5, <1>6, <1>9 DEF IInv, Disk, Kept, NoBackup, Apart
<1>12. Safe'
  <2>1. "backup" \notin failed /\ "move" \notin failed => Fine(data[N]) /\ Fine(v)
    BY <1>2, <1>8 DEF IInv, Safe, Disk, Kept, NoBackup, Fine, Whole, Recovered, header, N, H
  <2>2. Recovered' = Recovered
    BY <1>1, <1>5, <1>6, <1>9 DEF Recovered, header, N, H
  <2>3. \A d : Fine(d)' <=> Fine(d)
    BY <1>1 DEF Fine
  <2> QED
    BY <1>1, <1>4, <1>5, <1>6, <1>9, <2>1, <2>2, <2>3 DEF IInv, Safe, Loaded
<1>13. Moved' /\ InMemory'
  BY <1>3, <1>4 DEF Control, Moved, InMemory
<1> QED
  BY <1>3, <1>10, <1>11, <1>12, <1>13 DEF IInv

\* The copy with the new header cannot be made.
LEMMA NewFileUniqFailsInv == IInv /\ new_file_uniq_fails => IInv'
<1> SUFFICES ASSUME IInv, new_file_uniq_fails PROVE IInv'
  OBVIOUS
<1> USE DEF Checking, BackingUp, Changing, Saving, Settled
<1>1. /\ UNCHANGED <<wf, dir, data, ino, mem, edits, saved, sent>>
      /\ ~Idle /\ Next1[1] = "new_uniq" /\ errors' \in 0 .. MaxErrors
      /\ failed' = failed \cup {"tmp"} /\ todo' \in {Undo(1), Undo(2)}
  BY BoundsAssumption DEF new_file_uniq_fails, Is, Fails, IInv, TypeOK
<1>2. Changing(7, 7)
  <2> HIDE DEF Checking, BackingUp, Changing, Saving
  <2> QED
    BY <1>1, PlaceOfCall DEF IInv
<1>3. N' = N /\ B' = B /\ H' = H /\ Fresh'
  BY <1>1 DEF N, B, H, IInv, Fresh, Loaded
<1>4. todo'.op = "undo" /\ todo'.at \in 1 .. 2 /\ todo' \in {Undo(1), Undo(2)}
  BY <1>1 DEF Undo
<1>5. TypeOK'
  BY <1>1, <1>4, OtherCalls DEF IInv, TypeOK, Undo
<1>6. ~Loaded /\ sent = NotSent
  BY <1>2 DEF IInv, Control
<1>7. Control' /\ KeepsClean' /\ Moved' /\ InMemory'
  BY <1>1, <1>4, <1>6 DEF Control, KeepsClean, Moved, InMemory, Loaded
<1>8. Disk'
  BY <1>1, <1>2, <1>3, <1>4 DEF IInv, Disk, Kept, NoBackup
<1>9. Safe'
  BY <1>1, <1>2, <1>3, <1>4 DEF IInv, Safe, Fine, Recovered, header, N, H, Loaded
<1> QED
  BY <1>3, <1>5, <1>7, <1>8, <1>9 DEF IInv

----------------------------------------------------------------------------
(***************************************************************************)
(* A command begins by looking at the file.                                *)
(***************************************************************************)
LEMMA BeginInv ==
    IInv /\ (js_file_read \/ js_file_send \/ js_file_write \/ js_file_receive) => IInv'
<1> SUFFICES ASSUME IInv, js_file_read \/ js_file_send \/ js_file_write \/ js_file_receive
             PROVE  IInv'
  OBVIOUS
<1> USE DEF Checking, BackingUp, Changing, Saving, Settled
<1>1. /\ UNCHANGED <<wf, dir, data, ino, mem, edits, saved, sent, errors, failed>>
      /\ todo = None
      /\ \/ ~Loaded /\ todo' = [op |-> "read", at |-> 1, m |-> 0]
         \/ Loaded /\ todo' = [op |-> "look", at |-> 1, m |-> 0]
  BY DEF js_file_read, js_file_send, js_file_write, js_file_receive, Begin, Start, Idle
<1>2. N' = N /\ B' = B /\ H' = H
  BY <1>1 DEF N, B, H
<1>3. TypeOK' /\ Control' /\ KeepsClean' /\ Fresh'
  BY <1>1, <1>2, OtherCalls DEF IInv, TypeOK, Control, KeepsClean, Fresh, Loaded, None
<1>4. Disk' /\ Moved'
  BY <1>1 DEF Disk, Moved
<1>5. Safe'
  BY <1>1, <1>2 DEF IInv, Safe, Fine, Recovered, header, N, H, Loaded, None
<1>6. InMemory'
  BY <1>1, <1>2 DEF IInv, InMemory, Loaded, None
<1> QED
  BY <1>3, <1>4, <1>5, <1>6 DEF IInv

(***************************************************************************)
(* A change in memory, between commands or while a client saves the file.  *)
(***************************************************************************)
LEMMA EditInv == IInv /\ (change \/ js_file_comment_set) => IInv'
<1> SUFFICES ASSUME IInv, change \/ js_file_comment_set PROVE IInv'
  OBVIOUS
<1>c. PICK c \in 0 .. 1 : edit(c)
  <2>1. CASE change
    <3>1. Loaded
      BY <2>1 DEF change, edit
    <3>2. mem.maxcomment \in 0 .. 1
      BY <3>1 DEF IInv, TypeOK, Loaded
    <3> QED
      BY <2>1, <3>2 DEF change
  <2>2. CASE js_file_comment_set
    BY <2>2 DEF js_file_comment_set
  <2> QED
    BY <2>1, <2>2
<1> USE DEF Checking, BackingUp, Changing, Saving, Settled
<1>1. /\ UNCHANGED <<wf, dir, data, ino, saved, todo, sent, errors, failed>>
      /\ todo = None \/ sent # NotSent
      /\ Loaded /\ edits < MaxEdits /\ edits' = edits + 1
      /\ mem' = [mem EXCEPT !.ver = edits + 1, !.maxcomment = c, !.dirty = TRUE]
  BY <1>c DEF edit, ServerFree, Idle
<1>2. N' = N /\ B' = B /\ H' = H
  BY <1>1 DEF N, B, H
<1>3. /\ edits \in Nat /\ edits' \in 0 .. MaxEdits
      /\ mem \in [ver : 0 .. MaxEdits, uniq : Ino, org : Ino, maxcomment : 0 .. 1, dirty : BOOLEAN]
  BY <1>1, BoundsAssumption DEF IInv, TypeOK, Loaded
<1>4. /\ mem' \in [ver : 0 .. MaxEdits, uniq : Ino, org : Ino, maxcomment : 0 .. 1, dirty : BOOLEAN]
      /\ mem'.ver = edits + 1 /\ mem'.uniq = mem.uniq /\ mem'.org = mem.org /\ mem'.dirty = TRUE
  BY <1>1, <1>3
<1>5. mem' # NotLoaded
  <2>1. mem'.ver # NotLoaded.ver
    BY <1>3, <1>4 DEF NotLoaded
  <2> QED
    BY <2>1
<1>6. TypeOK'
  BY <1>1, <1>3, <1>4 DEF IInv, TypeOK
<1>7. Control' /\ KeepsClean'
  BY <1>1, <1>5 DEF IInv, Control, KeepsClean, Loaded, Servers, None
<1>8. Fresh'
  <2>1. /\ \A i \in Ino : data[i].ver \in Int /\ data[i].ver <= edits
        /\ sent.ver \in Int /\ saved \in Int
    BY BoundsAssumption DEF IInv, TypeOK, Fresh, Contents, Torn, NotSent
  <2> QED
    BY <1>1, <1>2, <1>3, <1>4, <2>1 DEF IInv, Fresh
<1>9. Disk'
  BY <1>1, <1>2 DEF IInv, Disk, Kept, NoBackup, Apart
<1>10. Safe'
  <2>1. saved \in Int /\ saved <= edits /\ mem'.ver >= saved
    BY <1>3, <1>4, BoundsAssumption DEF IInv, TypeOK, Fresh
  <2>2. \A d : Fine(d)' <=> Fine(d)
    BY <1>1 DEF Fine
  <2>3. Recovered' = Recovered
    BY <1>1 DEF Recovered, header
  <2> QED
    BY <1>1, <1>2, <2>1, <2>2, <2>3 DEF IInv, Safe
<1>11. Moved'
  <2>1. CASE todo = None
    BY <1>1, <2>1 DEF Moved, None
  <2>2. CASE sent # NotSent
    <3>1. ~Servers /\ written' = written
      BY <1>1, <2>2 DEF IInv, Control, written, Servers
    <3> QED
      BY <1>1, <1>2, <3>1 DEF IInv, Moved
  <2> QED
    BY <1>1, <2>1, <2>2
<1>12. InMemory'
  BY <1>1, <1>2, <1>4 DEF IInv, Control, InMemory, None
<1> QED
  BY <1>6, <1>7, <1>8, <1>9, <1>10, <1>11, <1>12 DEF IInv

(***************************************************************************)
(* Deaths: of the server, which leaves the file, of a client, which the    *)
(* server does not see.                                                    *)
(***************************************************************************)
LEMMA CrashInv == IInv /\ crash => IInv'
<1> SUFFICES ASSUME IInv, crash PROVE IInv'
  OBVIOUS
<1> USE DEF Checking, BackingUp, Changing, Saving, Settled
<1>1. /\ UNCHANGED <<wf, dir, data, ino, edits, saved, errors, failed>>
      /\ mem' = NotLoaded
      /\ \/ todo' = None /\ sent' = NotSent
         \/ sent # NotSent /\ UNCHANGED <<todo, sent>>
  BY DEF crash
<1>2. N' = N /\ B' = B /\ H' = H
  BY <1>1 DEF N, B, H
<1>3. TypeOK'
  BY <1>1 DEF IInv, TypeOK, None
<1>4. Control' /\ KeepsClean'
  BY <1>1 DEF IInv, Control, KeepsClean, Loaded, Servers, None
<1>5. Fresh'
  BY <1>1, <1>2 DEF IInv, TypeOK, Fresh, Loaded, NotLoaded, NotSent, Torn
<1>6. Disk'
  BY <1>1, <1>2 DEF IInv, Disk, Kept, NoBackup, Apart, None
<1>7. Safe'
  BY <1>1, <1>2 DEF IInv, Safe, Fine, Recovered, header, N, H, Loaded, None
<1>8. Moved'
  <2>1. CASE todo' = None
    BY <2>1 DEF Moved, None
  <2>2. CASE sent # NotSent /\ UNCHANGED <<todo, sent>>
    <3>1. ~Servers /\ written' = written
      BY <1>1, <2>2 DEF IInv, Control, written, Servers
    <3> QED
      BY <1>1, <1>2, <2>2, <3>1 DEF IInv, Moved
  <2> QED
    BY <1>1, <2>1, <2>2
<1>9. InMemory'
  BY <1>1 DEF InMemory, Loaded
<1> QED
  BY <1>3, <1>4, <1>5, <1>6, <1>7, <1>8, <1>9 DEF IInv

\* The client dies in the middle of what it does to its file.
LEMMA ClientDiesInv == IInv /\ client_dies => IInv'
<1> SUFFICES ASSUME IInv, client_dies PROVE IInv'
  OBVIOUS
<1> USE DEF Checking, BackingUp, Changing, Saving, Settled
<1>1. /\ UNCHANGED <<wf, dir, data, ino, mem, edits, saved>>
      /\ errors' \in 0 .. MaxErrors /\ failed' = failed \cup {"client"}
      /\ todo' = None /\ sent' = NotSent
  BY BoundsAssumption DEF client_dies, Fails, IInv, TypeOK
<1>2. N' = N /\ B' = B /\ H' = H
  BY <1>1 DEF N, B, H
<1>3. TypeOK' /\ Control' /\ KeepsClean'
  BY <1>1 DEF IInv, TypeOK, Control, KeepsClean, None
<1>4. Fresh'
  BY <1>1, <1>2 DEF IInv, TypeOK, Fresh, Loaded, NotSent, Torn
<1>5. Disk' /\ Moved' /\ InMemory'
  BY <1>1 DEF Disk, Moved, InMemory, None
<1>6. Safe'
  BY <1>1, <1>2 DEF IInv, Safe, Fine, Recovered, header, N, H, None
<1> QED
  BY <1>3, <1>4, <1>5, <1>6 DEF IInv

(***************************************************************************)
(* The file is loaded, is not, or gets a new identity first.               *)
(***************************************************************************)
LEMMA FileLoadedInv == IInv /\ file_loaded => IInv'
<1> SUFFICES ASSUME IInv, file_loaded PROVE IInv'
  OBVIOUS
<1> USE DEF Checking, BackingUp, Changing, Saving, Settled
<1>1. /\ UNCHANGED <<wf, dir, data, ino, edits, saved, sent, errors, failed>>
      /\ ~Idle /\ Next1[1] = "file_loaded"
  BY DEF file_loaded, Is
<1>2. Checking(6, 6) /\ todo.op # "look"
  <2> HIDE DEF Checking, BackingUp, Changing, Saving
  <2> QED
    BY <1>1, PlaceOfCall DEF IInv
<1>3. B = 0 /\ H = 0 /\ ~Loaded /\ sent = NotSent
  BY <1>2 DEF IInv, Disk, Control
<1>4. N' = N /\ B' = B /\ H' = H /\ header' = header /\ Recovered = header /\ Recovered' = header
  BY <1>1, <1>3 DEF N, B, H, header, Recovered
<1>5. CASE /\ header.uniq = N /\ Readable(header) /\ todo' = None
           /\ mem' = [ver |-> header.ver, uniq |-> header.uniq, org |-> header.org,
                      maxcomment |-> header.maxcomment, dirty |-> FALSE]
  <2>1. header \in Contents /\ header.ver # -1 /\ N \in Ino /\ header = data[N]
    <3>1. Whole(header)
      BY <1>5 DEF Readable, readdict, readhindo
    <3>2. N \in Ino /\ header = data[N]
      BY <3>1 DEF IInv, TypeOK, Whole, header, Torn, N, Names
    <3> QED
      BY <3>1, <3>2 DEF IInv, TypeOK, Whole, Torn
  <2>2. /\ mem' \in [ver : 0 .. MaxEdits, uniq : Ino, org : Ino, maxcomment : 0 .. 1, dirty : BOOLEAN]
        /\ mem'.ver = header.ver /\ mem'.uniq = N /\ mem'.org = header.org /\ mem'.dirty = FALSE
    <3>1. header.ver \in 0 .. MaxEdits
      BY <2>1, BoundsAssumption DEF Contents
    <3> QED
      BY <1>5, <2>1, <3>1 DEF Contents
  <2>3. TypeOK' /\ Control' /\ KeepsClean'
    BY <1>1, <1>3, <1>5, <2>2 DEF IInv, TypeOK, Control, KeepsClean, None
  <2>4. Fresh'
    BY <1>1, <1>3, <1>4, <2>1, <2>2 DEF IInv, Fresh
  <2>5. Disk' /\ Moved'
    BY <1>5 DEF Disk, Moved, None
  <2>6. Safe'
    BY <1>1, <1>3, <1>4, <1>5, <2>2 DEF IInv, Safe, Fine, None
  <2>7. InMemory'
    BY <1>1, <1>3, <1>4, <1>5, <2>1, <2>2 DEF InMemory, None
  <2> QED
    BY <2>3, <2>4, <2>5, <2>6, <2>7 DEF IInv
<1>6. CASE todo' = None /\ UNCHANGED mem
  <2>1. TypeOK' /\ Control' /\ KeepsClean' /\ Fresh'
    BY <1>1, <1>3, <1>4, <1>6 DEF IInv, TypeOK, Control, KeepsClean, Fresh, Loaded, None
  <2>2. Disk' /\ Moved' /\ InMemory'
    BY <1>3, <1>6 DEF Disk, Moved, InMemory, Loaded, None
  <2>3. Safe'
    BY <1>1, <1>3, <1>4, <1>6 DEF IInv, Safe, Fine, Loaded, None
  <2> QED
    BY <2>1, <2>2, <2>3 DEF IInv
<1>7. CASE header # Torn /\ todo' = [op |-> "change", at |-> 1, m |-> 0] /\ UNCHANGED mem
  <2>1. N # 0 /\ data[N] # Torn
    BY <1>7 DEF header, N
  <2>2. TypeOK' /\ Control' /\ KeepsClean' /\ Fresh'
    BY <1>1, <1>3, <1>4, <1>7, OtherCalls
       DEF IInv, TypeOK, Control, KeepsClean, Fresh, Loaded, None
  <2>3. Disk' /\ Moved' /\ InMemory'
    BY <1>1, <1>3, <1>4, <1>7, <2>1 DEF Disk, Moved, InMemory, Loaded
  <2>4. Safe'
    BY <1>1, <1>3, <1>4, <1>7 DEF IInv, Safe, Fine, Loaded
  <2> QED
    BY <2>2, <2>3, <2>4 DEF IInv
<1> QED
  BY <1>5, <1>6, <1>7 DEF file_loaded, Start, N

(***************************************************************************)
(* write_file finds out whether there is anything to be written.           *)
(***************************************************************************)
LEMMA MustWriteInv == IInv /\ must_write_file => IInv'
<1> SUFFICES ASSUME IInv, must_write_file PROVE IInv'
  OBVIOUS
<1> USE DEF Checking, BackingUp, Changing, Saving, Settled
<1>1. /\ UNCHANGED <<wf, dir, data, ino, mem, edits, saved, sent, errors, failed>>
      /\ ~Idle /\ Next1[1] = "must_write_file"
  BY DEF must_write_file, Is
<1>2. todo.op = "look" /\ todo.at = 6
  <2> HIDE DEF BackingUp, Changing, Saving
  <2> QED
    BY <1>1, PlaceOfCall DEF IInv
<1>3. B = 0 /\ H = 0 /\ Loaded /\ sent = NotSent
  BY <1>2 DEF IInv, Disk, Control
<1>4. N' = N /\ B' = B /\ H' = H /\ Recovered' = Recovered
  BY <1>1 DEF N, B, H, header, Recovered
<1>5. /\ mode \in {0, 1, 3}
      /\ mode = 0 => ~mem.dirty
      /\ mode # 0 /\ "move" \notin failed /\ "client" \notin failed => mem.dirty /\ mode = 1
  <2>1. mem.uniq # 0 /\ mem.dirty \in BOOLEAN
    BY <1>3 DEF IInv, TypeOK, Loaded, Ino
  <2>2. "move" \notin failed /\ "client" \notin failed => N # 0 /\ header.uniq = mem.uniq
    BY <1>2, <1>3, <2>1 DEF IInv, InMemory, header, N
  <2> QED
    BY <2>1, <2>2 DEF mode, N
<1>6. \/ todo' = None
      \/ mode = 0 /\ todo' = [op |-> "keep", at |-> 1, m |-> 0]
      \/ mode # 0 /\ Servers /\ todo' = [op |-> "write", at |-> 1, m |-> mode]
      \/ mode # 0 /\ ~Servers /\ todo' = [op |-> "receive", at |-> 1, m |-> mode]
  BY <1>5 DEF must_write_file, Start
<1>7. TypeOK'
  BY <1>1, <1>5, <1>6, OtherCalls DEF IInv, TypeOK, None
<1>8. Control' /\ KeepsClean'
  BY <1>1, <1>3, <1>5, <1>6 DEF Control, KeepsClean, Loaded, Servers, None
<1>9. Fresh'
  BY <1>1, <1>4 DEF IInv, Fresh, Loaded
<1>10. Disk' /\ Moved'
  BY <1>3, <1>4, <1>6 DEF Disk, Moved, None
<1>11. Safe'
  BY <1>1, <1>3, <1>4, <1>6 DEF IInv, Safe, Fine, Loaded, None
<1>12. InMemory'
  BY <1>1, <1>2, <1>3, <1>4, <1>5, <1>6 DEF IInv, InMemory, Loaded, None
<1> QED
  BY <1>7, <1>8, <1>9, <1>10, <1>11, <1>12 DEF IInv

(***************************************************************************)
(* The answer that the file is saved.                                      *)
(***************************************************************************)
LEMMA AnswerInv == IInv /\ answer => IInv'
<1> SUFFICES ASSUME IInv, answer PROVE IInv'
  OBVIOUS
<1> USE DEF Checking, BackingUp, Changing, Saving, Settled
<1>1. /\ UNCHANGED <<wf, dir, data, ino, edits, errors, failed>>
      /\ ~Idle /\ Next1[1] = "answer" /\ Loaded
      /\ saved' = IF sent = NotSent THEN mem.ver ELSE sent.ver
      /\ mem' = IF Servers /\ todo.m = 1 THEN [mem EXCEPT !.dirty = FALSE] ELSE mem
      /\ todo' = Skip(1) /\ sent' = NotSent
  BY DEF answer, Is
<1>2. Saving(12, 12) \/ (todo.op = "keep" /\ todo.at = 1)
  <2> HIDE DEF Checking, BackingUp, Changing, Saving
  <2> QED
    BY <1>1, PlaceOfCall DEF IInv, Control, None
<1>3. todo' = None
  BY <1>1, <1>2, SkipGoesOn DEF IInv, Last
<1>4. N' = N /\ B' = B /\ H' = H /\ Recovered' = Recovered
  BY <1>1 DEF N, B, H, header, Recovered
<1>5. mem \in [ver : 0 .. MaxEdits, uniq : Ino, org : Ino, maxcomment : 0 .. 1, dirty : BOOLEAN]
  BY <1>1 DEF IInv, TypeOK, Loaded
<1>6. /\ mem' \in [ver : 0 .. MaxEdits, uniq : Ino, org : Ino, maxcomment : 0 .. 1, dirty : BOOLEAN]
      /\ mem'.ver = mem.ver /\ mem'.uniq = mem.uniq /\ mem'.org = mem.org
      /\ ~Servers => mem' = mem
  BY <1>1, <1>5
<1>7. mem' # NotLoaded
  <2>1. mem'.ver # NotLoaded.ver
    BY <1>5, <1>6 DEF NotLoaded
  <2> QED
    BY <2>1
<1>8. saved' \in 0 .. MaxEdits /\ saved' <= edits /\ saved' <= mem.ver
  <2>1. CASE sent = NotSent
    BY <1>1, <1>5, <2>1 DEF IInv, Fresh
  <2>2. CASE sent # NotSent
    <3>1. sent \in Contents /\ sent.ver \in -1 .. MaxEdits
      BY <2>2 DEF IInv, TypeOK, Contents
    <3>2. sent.ver # -1
      BY <2>2, <3>1 DEF IInv, Fresh, Whole
    <3> QED
      BY <1>1, <2>2, <3>1, <3>2, BoundsAssumption DEF IInv, Fresh
  <2> QED
    BY <2>1, <2>2
<1>9. TypeOK' /\ Control' /\ KeepsClean'
  BY <1>1, <1>3, <1>6, <1>8, OtherCalls DEF IInv, TypeOK, Control, KeepsClean, None
<1>10. Fresh'
  <2>1. mem'.ver <= edits /\ sent'.ver <= edits
    BY <1>1, <1>6, BoundsAssumption DEF IInv, Fresh, TypeOK, NotSent, Torn
  <2> QED
    BY <1>1, <1>4, <1>8, <2>1 DEF IInv, Fresh
<1>11. Disk' /\ Moved'
  BY <1>3 DEF Disk, Moved, None
<1>12. ASSUME "move" \notin failed, "client" \notin failed
       PROVE  /\ H = 0 /\ N = mem.uniq /\ N # 0
              /\ data[N].uniq = mem.uniq /\ data[N].org = mem.org
              /\ data[N].ver = saved'
              /\ ~mem'.dirty => data[N].ver = mem.ver
  <2>1. N = mem.uniq /\ N # 0 /\ data[N].uniq = mem.uniq /\ data[N].org = mem.org
    BY <1>1, <1>2, <1>5, <1>12 DEF IInv, InMemory, Ino
  <2>2. CASE todo.op = "keep"
    <3>1. H = 0 /\ ~mem.dirty /\ data[N].ver = mem.ver /\ sent = NotSent
      BY <1>1, <1>12, <2>2 DEF IInv, InMemory, KeepsClean, Control
    <3> QED
      BY <1>1, <1>6, <2>1, <3>1
  <2>3. CASE Saving(12, 12)
    <3>1. H = 0 /\ data[N] = written
      BY <1>12, <2>3 DEF IInv, Disk, Moved
    <3>2. CASE todo.op = "write"
      <4>1. sent = NotSent /\ written.ver = mem.ver
        BY <3>2 DEF IInv, Control, written, in_memory
      <4> QED
        BY <1>1, <2>1, <3>1, <4>1
    <3>3. CASE todo.op = "receive"
      <4>1. sent # NotSent /\ written = sent /\ mem' = mem
        BY <1>6, <2>3, <3>3 DEF IInv, Control, written
      <4>2. ~mem.dirty => sent.ver = mem.ver
        BY <1>1, <1>12, <4>1 DEF IInv, InMemory
      <4> QED
        BY <1>1, <2>1, <3>1, <4>1, <4>2
    <3> QED
      BY <2>3, <3>2, <3>3
  <2> QED
    BY <1>2, <2>2, <2>3
<1>13. Safe'
  <2> SUFFICES ASSUME "backup" \notin failed, "move" \notin failed
               PROVE  /\ Fine(Recovered)'
                      /\ "client" \notin failed => mem'.ver >= saved'
    BY <1>1, <1>3, <1>4 DEF Safe, None
  <2>1. Fine(Recovered)
    BY DEF IInv, Safe
  <2>2. "client" \notin failed => Recovered.ver = saved'
    BY <1>12 DEF Recovered, header, N, H
  <2>3. saved' >= saved'
    BY <1>8
  <2>4. Fine(Recovered)'
    BY <1>1, <1>4, <2>1, <2>2, <2>3 DEF Fine
  <2> QED
    BY <1>5, <1>6, <1>8, <2>4
<1>14. InMemory'
  BY <1>1, <1>3, <1>4, <1>6, <1>12 DEF InMemory, None
<1> QED
  BY <1>9, <1>10, <1>11, <1>13, <1>14 DEF IInv

\* There is nothing to mark clean: the file is not in memory.
LEMMA NoAnswerInv == IInv /\ no_answer => IInv'
<1> SUFFICES ASSUME IInv, no_answer PROVE IInv'
  OBVIOUS
<1> USE DEF Checking, BackingUp, Changing, Saving, Settled
<1>1. /\ UNCHANGED <<wf, dir, data, ino, mem, edits, saved, errors, failed>>
      /\ ~Idle /\ Next1[1] = "answer" /\ ~Loaded
      /\ todo' = Skip(1) /\ sent' = NotSent
  BY DEF no_answer, Is
<1>2. Saving(12, 12) \/ (todo.op = "keep" /\ todo.at = 1)
  <2> HIDE DEF Checking, BackingUp, Changing, Saving
  <2> QED
    BY <1>1, PlaceOfCall DEF IInv, Control, None
<1>3. todo' = None
  BY <1>1, <1>2, SkipGoesOn DEF IInv, Last
<1>4. N' = N /\ B' = B /\ H' = H
  BY <1>1 DEF N, B, H
<1>5. TypeOK' /\ Control' /\ KeepsClean'
  BY <1>1, <1>3 DEF IInv, TypeOK, Control, KeepsClean, Loaded, None
<1>6. Fresh'
  BY <1>1, <1>4 DEF IInv, TypeOK, Fresh, Loaded, NotSent, Torn
<1>7. Disk' /\ Moved' /\ InMemory'
  BY <1>1, <1>3 DEF Disk, Moved, InMemory, Loaded, None
<1>8. Safe'
  BY <1>1, <1>3, <1>4 DEF IInv, Safe, Fine, Recovered, header, N, H, Loaded, None
<1> QED
  BY <1>5, <1>6, <1>7, <1>8 DEF IInv

(***************************************************************************)
(* Every step keeps the invariant.                                         *)
(***************************************************************************)
LEMMA NextInv == IInv /\ [Next]_vars => IInv'
<1> SUFFICES ASSUME IInv, [Next]_vars PROVE IInv'
  OBVIOUS
<1>1. CASE js_file_read \/ js_file_send \/ js_file_write \/ js_file_receive
  BY <1>1, BeginInv
<1>2. CASE change \/ js_file_comment_set
  BY <1>2, EditInv
<1>3. CASE crash \/ client_dies
  BY <1>3, CrashInv, ClientDiesInv
<1>4. CASE file_loaded \/ must_write_file \/ restore
  BY <1>4, FileLoadedInv, MustWriteInv, RestoreInv
<1>5. CASE unlink \/ link
  BY <1>5, UnlinkInv, LinkInv
<1>6. CASE creat \/ creat_fails
  BY <1>6, CreatInv, CreatFailsInv
<1>7. CASE half_done \/ copy \/ copy_fails
  BY <1>7, HalfDoneInv, CopyInv, CopyFailsInv
<1>8. CASE rcv_file \/ write_file_real \/ write_fails
  BY <1>8, RcvFileInv, WriteInv, WriteFailsInv
<1>9. CASE new_file_uniq \/ new_file_uniq_fails
  BY <1>9, NewFileUniqInv, NewFileUniqFailsInv
<1>10. CASE answer \/ no_answer
  BY <1>10, AnswerInv, NoAnswerInv
<1>11. CASE UNCHANGED vars
  <2>1. UNCHANGED <<wf, dir, data, ino, mem, edits, saved, todo, sent, errors, failed>>
    BY <1>11 DEF vars
  <2>2. N' = N /\ B' = B /\ H' = H /\ written' = written /\ Recovered' = Recovered
    BY <2>1, WrittenKept DEF N, B, H, Recovered, header
  <2>3. TypeOK' /\ Control' /\ Fresh' /\ KeepsClean'
    BY <2>1, <2>2 DEF IInv, TypeOK, Control, Fresh, KeepsClean, Loaded, Servers
  <2>4. Disk' /\ Moved'
    BY <2>1, <2>2 DEF IInv, Disk, Moved, Kept, NoBackup, Apart, Checking, BackingUp, Changing, Saving
  <2>5. Safe' /\ InMemory'
    BY <2>1, <2>2 DEF IInv, Safe, Fine, InMemory, Loaded, Settled, Changing, Saving
  <2> QED
    BY <2>3, <2>4, <2>5 DEF IInv
<1> QED
  BY <1>1, <1>2, <1>3, <1>4, <1>5, <1>6, <1>7, <1>8, <1>9, <1>10, <1>11 DEF Next

----------------------------------------------------------------------------
(***************************************************************************)
(* The invariant holds in every run.                                       *)
(***************************************************************************)
LEMMA Invariance == Spec => []IInv
<1> QED
  BY InitInv, NextInv, PTL DEF Spec

(***************************************************************************)
(* The file, the inodes and the program stay what they are declared to be, *)
(* so no call is made at a place where its command has none.               *)
(***************************************************************************)
THEOREM TypeCorrect == Spec => []TypeOK
<1>1. IInv => TypeOK
  BY DEF IInv
<1> QED
  BY Invariance, <1>1, PTL

(***************************************************************************)
(* A death between any two calls, or in the middle of one, leaves a whole  *)
(* file for check_backup to find, no older than the last one called saved. *)
(***************************************************************************)
THEOREM SavedSurvivesDeaths == Spec => []SavedSurvives
BY Invariance, InvImplies, PTL

(***************************************************************************)
(* check_backup never puts a file that was cut short in the place of n.    *)
(***************************************************************************)
THEOREM BackupIsWhole == Spec => []BackupWhole
BY Invariance, InvImplies, PTL

(***************************************************************************)
(* file_loaded finds a file that is in memory.                             *)
(***************************************************************************)
THEOREM FileKeepsItsIdentity == Spec => []StillTheSameFile
BY Invariance, InvImplies, PTL

(***************************************************************************)
(* A file that is not written because it is not marked changed is the one  *)
(* on disk.                                                                *)
(***************************************************************************)
THEOREM CleanFileIsOnDisk == Spec => []CleanIsSaved
BY Invariance, InvImplies, PTL

=============================================================================
