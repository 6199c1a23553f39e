--------------------------- MODULE FileTableProofs ---------------------------
(***************************************************************************)
(* Proofs about FileTable, for every number of environments, files and     *)
(* dictionaries.                                                           *)
(***************************************************************************)
EXTENDS FileTable, SearchLemmas, FiniteSetTheorems,
        SequenceTheorems, TLAPS

(***************************************************************************)
(* -1, the free entry, is no index.                                        *)
(***************************************************************************)
LEMMA IndicesAreNaturals ==
    /\ Fid \in SUBSET Nat /\ DicNo \in SUBSET Nat
    /\ -1 \notin Fid
    /\ Resident \subseteq Fid
    /\ \A f \in Resident : DefaultFiles[f] \in Uniqs
<1>1. /\ Fid \in SUBSET Nat /\ DicNo \in SUBSET Nat
      /\ -1 \notin Fid
  BY ConstantsFit DEF Fid, DicNo
<1>2. Resident = 1 .. Len(DefaultFiles)
  BY ConstantsFit DEF Resident
<1>3. Resident \subseteq Fid
  BY <1>2, ConstantsFit DEF Fid
<1>4. \A f \in Resident : DefaultFiles[f] \in Uniqs
  BY <1>2, ConstantsFit
<1> QED
  BY <1>1, <1>3, <1>4

(***************************************************************************)
(* get_new_fid, find_file_by_uniq and the searches of do_dic_env.c return  *)
(* an index that has what was searched for.                                *)
(***************************************************************************)
LEMMA SearchesFind ==
    /\ Fid \ Loaded # {} => get_new_fid \in Fid \ Loaded
    /\ \A u : WithUniq(u) # {} => find_file_by_uniq(u) \in WithUniq(u)
    /\ \A S \in SUBSET Nat : S # {} => First(S) \in S
<1>1. /\ Fid \ Loaded \in SUBSET Nat
      /\ \A u : WithUniq(u) \in SUBSET Nat
  BY IndicesAreNaturals DEF WithUniq, Loaded
<1>2. ASSUME NEW S \in SUBSET Nat, S # {}
      PROVE  (CHOOSE x \in S : \A y \in S : x <= y) \in S
  BY <1>2, SmallestExists
<1>3. Fid \ Loaded # {} => get_new_fid \in Fid \ Loaded
  BY <1>1, <1>2 DEF get_new_fid
<1>4. \A u : WithUniq(u) # {} => find_file_by_uniq(u) \in WithUniq(u)
  BY <1>1, <1>2 DEF find_file_by_uniq
<1>5. \A S \in SUBSET Nat : S # {} => First(S) \in S
  BY <1>2 DEF First
<1> QED
  BY <1>3, <1>4, <1>5

(***************************************************************************)
(* The dictionaries of an environment, without their order.                *)
(***************************************************************************)
DicsOf(e) == {jisho[e][i] : i \in DOMAIN jisho[e]}

(***************************************************************************)
(* del_dic_from_env takes the dictionary at i out of jisho[e] and keeps    *)
(* the others.                                                             *)
(***************************************************************************)
LEMMA DeletedMovesUp ==
    ASSUME NEW e \in Envs, jisho[e] \in Seq(DicNo), NEW i \in DOMAIN jisho[e]
    PROVE  LET s == jisho[e]
               t == del_dic_from_env(e, i)
           IN  /\ t \in Seq(DicNo)
               /\ Len(t) = Len(s) - 1
               /\ \A j \in 1 .. Len(s) - 1 : t[j] = s[IF j < i THEN j ELSE j + 1]
<1> DEFINE s == jisho[e]
           t == del_dic_from_env(e, i)
           a == SubSeq(s, 1, i - 1)
           b == SubSeq(s, i + 1, Len(s))
<1>1. Len(s) \in Nat /\ i \in 1 .. Len(s) /\ DOMAIN s = 1 .. Len(s)
  OBVIOUS
<1>2. a \in Seq(DicNo) /\ Len(a) = i - 1 /\ \A j \in 1 .. i - 1 : a[j] = s[j]
  BY <1>1
<1>3. /\ b \in Seq(DicNo) /\ Len(b) = Len(s) - i
      /\ \A j \in 1 .. Len(s) - i : b[j] = s[i + j]
  BY <1>1
<1>4. t = a \o b
  BY DEF del_dic_from_env
<1> HIDE DEF s, t, a, b
<1>5. /\ t \in Seq(DicNo)
      /\ Len(t) = Len(a) + Len(b)
      /\ \A j \in 1 .. Len(a) + Len(b) :
            t[j] = IF j <= Len(a) THEN a[j] ELSE b[j - Len(a)]
  BY <1>2, <1>3, <1>4, ConcatProperties
<1>6. Len(t) = Len(s) - 1
  BY <1>1, <1>2, <1>3, <1>5
<1>7. ASSUME NEW j \in 1 .. Len(s) - 1
      PROVE  t[j] = s[IF j < i THEN j ELSE j + 1]
  <2>1. CASE j < i
    BY <2>1, <1>1, <1>2, <1>3, <1>5
  <2>2. CASE ~ (j < i)
    <3>1. j - (i - 1) \in 1 .. Len(s) - i /\ j \in 1 .. (i - 1) + (Len(s) - i)
      BY <2>2, <1>1
    <3>2. t[j] = b[j - (i - 1)]
      BY <2>2, <3>1, <1>1, <1>2, <1>3, <1>5
    <3>3. i + (j - (i - 1)) = j + 1
      BY <1>1
    <3>4. b[j - (i - 1)] = s[i + (j - (i - 1))]
      BY <3>1, <1>3
    <3> QED
      BY <2>2, <3>2, <3>3, <3>4
  <2> QED
    BY <2>1, <2>2
<1> QED
  BY <1>5, <1>6, <1>7 DEF s, t

(***************************************************************************)
(* The records: the free entries are entries, releasing a file leaves an   *)
(* entry, and a transfer in progress has an environment, an entry and the  *)
(* f_uniq of a file.                                                       *)
(***************************************************************************)
LEMMA RecordsTyped ==
    /\ NoDic \in DicEntry
    /\ \A x \in FileEntry : \A n \in Int : [x EXCEPT !.ref_count = n] \in FileEntry
    /\ \A x \in FileEntry : released(x) \in FileEntry
    /\ NotSending \notin Upload
<1>1. NoDic \in DicEntry
  BY DEF NoDic, DicEntry
<1>2. \A x \in FileEntry : \A n \in Int : [x EXCEPT !.ref_count = n] \in FileEntry
  BY DEF FileEntry
<1>3. ASSUME NEW x \in FileEntry
      PROVE  released(x) \in FileEntry
  <2>1. discarded(x) \in FileEntry
    BY DEF discarded, FileEntry
  <2>2. x.ref_count - 1 \in Int
    BY DEF FileEntry
  <2> QED
    BY <1>2, <2>1, <2>2 DEF released
<1>4. NotSending \notin Upload
  BY DEF NotSending, Upload
<1> QED
  BY <1>1, <1>2, <1>3, <1>4

\* A transfer is going on exactly when the state says what it sends.
LEMMA TransferTyped ==
    ASSUME TypeOK
    PROVE  /\ ~Idling => sending \in Upload /\ sending.stage # "no"
           /\ Idling => sending.stage = "no"
           /\ sending \in Upload => /\ sending.env \in Envs
                                    /\ sending.fid \in Fid
                                    /\ sending.uniq \in Uniqs
<1>1. ~Idling => sending \in Upload
  BY DEF TypeOK, Idling
<1>2. sending \in Upload => /\ sending.stage # "no"
                            /\ sending.env \in Envs
                            /\ sending.fid \in Fid
                            /\ sending.uniq \in Uniqs
  BY DEF Upload
<1>3. Idling => sending.stage = "no"
  BY DEF Idling, NotSending
<1> QED
  BY <1>1, <1>2, <1>3

(***************************************************************************)
(* Type correctness: every step of the commands and of a transfer keeps    *)
(* the tables of do_filecom.c and do_dic_env.c within their ranges.        *)
(***************************************************************************)
LEMMA TypeInit == Init => TypeOK
<1> SUFFICES ASSUME Init PROVE TypeOK
  OBVIOUS
<1>1. files \in [Fid -> FileEntry]
  BY IndicesAreNaturals DEF Init, FileEntry
<1>2. jisho \in [Envs -> Seq(DicNo)]
  BY DEF Init
<1> QED
  BY <1>1, <1>2, RecordsTyped DEF Init, TypeOK

\* Every step keeps the types.
LEMMA TypeNext ==
    ASSUME TypeOK, [Next]_vars
    PROVE  TypeOK'
<1> USE DEF TypeOK
<1>1. ASSUME NEW e \in Envs, new_env(e)
      PROVE  TypeOK'
  BY <1>1 DEF new_env, filevars
<1>2. ASSUME NEW e \in Envs, del_env(e)
      PROVE  TypeOK'
  BY <1>2, RecordsTyped DEF del_env, free_env_files
<1>3. \A f \in Fid : files[f].ref_count \in Int
  BY DEF FileEntry
<1>4. ASSUME NEW e \in Envs, NEW u \in Uniqs, file_already_read(e, u)
      PROVE  TypeOK'
  <2>1. PICK f \in Fid : f = find_file_by_uniq(u)
    BY <1>4, SearchesFind DEF file_already_read, WithUniq, Loaded
  <2>2. files[f].ref_count + 1 \in Int
    BY <1>3
  <2> QED
    BY <1>4, <2>1, <2>2, RecordsTyped DEF file_already_read
<1>5. ASSUME NEW e \in Envs, NEW f \in Fid, NEW u \in Uniqs,
             add_read_file(e, f, u) \/ fail_read_file(f, u)
      PROVE  /\ files' \in [Fid -> FileEntry]
             /\ file' \in [Envs -> SUBSET Fid]
  <2>1. /\ [ref_count |-> IF HasRoom(e) THEN 1 ELSE 0, uniq |-> u, area |-> u] \in FileEntry
        /\ [ref_count |-> -1, uniq |-> u, area |-> Null] \in FileEntry
    BY DEF FileEntry
  <2>2. files' \in [Fid -> FileEntry]
    BY <1>5, <2>1 DEF add_read_file, fail_read_file
  <2>3. file' = file \/ file' = [file EXCEPT ![e] = @ \cup {f}]
    BY <1>5 DEF add_read_file, fail_read_file
  <2> QED
    BY <2>2, <2>3
<1>6. ASSUME NEW e \in Envs, NEW u \in Uniqs, js_file_read(e, u)
      PROVE  TypeOK'
  <2>1. get_new_fid \in Fid
    BY <1>6, SearchesFind DEF js_file_read
  <2> QED
    BY <1>5, <1>6, <2>1 DEF js_file_read
<1>7. ASSUME NEW e \in Envs, NEW u \in Uniqs, js_file_send(e, u)
      PROVE  TypeOK'
  <2>1. PICK f \in Fid : f = get_new_fid
    BY <1>7, SearchesFind DEF js_file_send
  <2>2. sending' \in Upload
    BY <1>7, <2>1 DEF js_file_send, Upload
  <2>3. [files[f] EXCEPT !.ref_count = 0] \in FileEntry
    <3>1. files[f] \in FileEntry
      OBVIOUS
    <3> HIDE DEF TypeOK
    <3> QED
      BY <3>1, RecordsTyped
  <2> QED
    BY <1>7, <2>1, <2>2, <2>3 DEF js_file_send
<1>8. ASSUME send_header
      PROVE  TypeOK'
  <2>1. sending \in Upload /\ sending.fid \in Fid /\ sending.uniq \in Uniqs
    BY <1>8, TransferTyped DEF send_header
  <2>2. sending' \in Upload
    BY <1>8, <2>1 DEF send_header, Upload
  <2>3. [files[sending.fid] EXCEPT !.uniq = sending.uniq] \in FileEntry
    <3>1. files[sending.fid] \in FileEntry
      BY <2>1
    <3> HIDE DEF TypeOK
    <3> QED
      BY <2>1, <3>1 DEF FileEntry
  <2> QED
    BY <1>8, <2>1, <2>2, <2>3 DEF send_header
<1>9. ASSUME send_bad_header
      PROVE  TypeOK'
  <2>1. sending.fid \in Fid
    BY <1>9, TransferTyped DEF send_bad_header
  <2>2. [files[sending.fid] EXCEPT !.ref_count = -1] \in FileEntry
    <3>1. files[sending.fid] \in FileEntry /\ -1 \in Int
      BY <2>1
    <3> HIDE DEF TypeOK
    <3> QED
      BY <3>1, RecordsTyped
  <2> QED
    BY <1>9, <2>1, <2>2 DEF send_bad_header
<1>10. ASSUME send_body
       PROVE  TypeOK'
  <2>1. sending.env \in Envs /\ sending.fid \in Fid /\ sending.uniq \in Uniqs
    BY <1>10, TransferTyped DEF send_body
  <2> QED
    BY <1>5, <1>10, <2>1 DEF send_body
<1>11. ASSUME sender_dies
       PROVE  TypeOK'
  BY <1>11 DEF sender_dies
<1>12. ASSUME NEW e \in Envs, NEW i \in DOMAIN jisho[e],
              dic_table' = [dic_table EXCEPT ![jisho[e][i]] = NoDic],
              jisho' = [jisho EXCEPT ![e] = del_dic_from_env(e, i)]
       PROVE  /\ dic_table' \in [DicNo -> DicEntry]
              /\ jisho' \in [Envs -> Seq(DicNo)]
  BY <1>12, DeletedMovesUp, RecordsTyped
<1>13. ASSUME NEW e \in Envs, NEW f \in Fid, js_file_discard(e, f)
       PROVE  TypeOK'
  <2>1. /\ fzk_fid' \in [Envs -> Fid \cup {-1}]
        /\ dic_table' \in [DicNo -> DicEntry]
        /\ jisho' \in [Envs -> Seq(DicNo)]
    <3>1. Using(e, f) # {} => First(Using(e, f)) \in DOMAIN jisho[e]
      <4>1. Using(e, f) \in SUBSET Nat
        BY DEF Using
      <4> QED
        BY <4>1, SearchesFind DEF Using
    <3> QED
      BY <3>1, <1>12, <1>13 DEF js_file_discard, used_dic_fuzoku_delete
  <2> QED
    BY <1>13, <2>1, RecordsTyped DEF js_file_discard
<1>14. ASSUME NEW e \in Envs, NEW f \in Fid, NEW h \in Fid \cup {-1}, js_dic_add(e, f, h)
       PROVE  TypeOK'
  <2>1. CASE /\ WithBody(e, f) # {}
             /\ dic_table' = [dic_table EXCEPT
                                ![jisho[e][First(WithBody(e, f))]].hindo = h]
             /\ UNCHANGED jisho
    <3>1. \A d \in DicNo : [dic_table[d] EXCEPT !.hindo = h] \in DicEntry
      BY DEF DicEntry
    <3> QED
      BY <1>14, <2>1, <3>1 DEF js_dic_add
  <2>2. CASE /\ FreeDics # {}
             /\ dic_table' = [dic_table EXCEPT
                                ![First(FreeDics)] = [body |-> f, hindo |-> h]]
             /\ jisho' = [jisho EXCEPT ![e] = Append(@, First(FreeDics))]
    <3>1. First(FreeDics) \in DicNo
      <4>1. FreeDics \in SUBSET Nat
        BY IndicesAreNaturals DEF FreeDics
      <4> QED
        BY <2>2, <4>1, SearchesFind DEF FreeDics
    <3>2. [body |-> f, hindo |-> h] \in DicEntry
      BY DEF DicEntry
    <3>3. dic_table' \in [DicNo -> DicEntry]
      BY <2>2, <3>1, <3>2
    <3>4. jisho' \in [Envs -> Seq(DicNo)]
      BY <2>2, <3>1
    <3> QED
      BY <1>14, <3>3, <3>4 DEF js_dic_add
  <2> QED
    BY <1>14, <2>1, <2>2 DEF js_dic_add
<1>15. ASSUME NEW e \in Envs, NEW i \in 1 .. MaxJishoOfEnv, js_dic_delete(e, i)
       PROVE  TypeOK'
  BY <1>12, <1>15 DEF js_dic_delete
<1>16. ASSUME NEW e \in Envs, NEW f \in Fid, js_fuzokugo_set(e, f)
       PROVE  TypeOK'
  BY <1>16 DEF js_fuzokugo_set
<1>17. CASE UNCHANGED vars
  BY <1>17 DEF vars, filevars
<1> QED
  BY <1>1, <1>2, <1>4, <1>6, <1>7, <1>8, <1>9, <1>10, <1>11, <1>13, <1>14,
     <1>15, <1>16, <1>17 DEF Next, Command, Transfer

(***************************************************************************)
(* Type correctness of the tables, for every instance.                     *)
(***************************************************************************)
THEOREM Typed == Spec => []TypeOK
<1> QED
  BY TypeInit, TypeNext, PTL DEF Spec

----------------------------------------------------------------------------
(***************************************************************************)
(* The strengthened invariant.  Counted: the counts are exact, and an      *)
(* environment that does not exist has nothing, so that only the existing  *)
(* ones need counting; the entry of an upload in progress has count 0, so  *)
(* no environment lists it.                                                *)
(***************************************************************************)
NothingWhenDead == \A e \in Envs \ alive :
    file[e] = {} /\ jisho[e] = <<>> /\ fzk_fid[e] = -1

UploadUnlisted == ~Idling =>
    sending.env \in alive /\ files[sending.fid].ref_count = 0

Counted == FileRefCount /\ NothingWhenDead /\ UploadUnlisted

(***************************************************************************)
(* Owned: no dictionary stands twice in the environments, and those that   *)
(* stand in one are the entries of dic_table[] in use.                     *)
(***************************************************************************)
Owned ==
    /\ \A e \in Envs : Len(jisho[e]) <= MaxJishoOfEnv
    /\ \A e \in Envs : \A i, j \in DOMAIN jisho[e] : jisho[e][i] = jisho[e][j] => i = j
    /\ \A e, g \in Envs : e # g => DicsOf(e) \cap DicsOf(g) = {}
    /\ \A d \in DicNo : dic_table[d].body # -1 <=> \E e \in Envs : d \in DicsOf(e)

(***************************************************************************)
(* Whole: every loaded file, listed or not, is the file of its f_uniq, the *)
(* only one of that f_uniq, and none has the f_uniq of an upload.          *)
(***************************************************************************)
Whole == ~broken =>
    /\ \A f \in Settled : files[f].uniq \in Uniqs /\ files[f].area = files[f].uniq
    /\ \A f, g \in Settled : files[f].uniq = files[g].uniq => f = g
    /\ ~Idling => \A f \in Settled : files[f].uniq # sending.uniq

(***************************************************************************)
(* Listed: the files an environment uses are files it lists, of the right  *)
(* type, and no two of its dictionaries have the same body, so that a      *)
(* discarded file is used in one dictionary at most, unless it holds the   *)
(* frequencies of two.                                                     *)
(***************************************************************************)
DicListed(e, d) ==
    /\ dic_table[d].body \in file[e]
    /\ files[dic_table[d].body].uniq \in Dicts
    /\ dic_table[d].hindo # -1 =>
         /\ dic_table[d].hindo \in file[e]
         /\ files[dic_table[d].hindo].uniq \in Hindos

ListedIn(e) ==
    /\ fzk_fid[e] # -1 => fzk_fid[e] \in file[e] /\ files[fzk_fid[e]].uniq \in Fzks
    /\ \A d \in DicsOf(e) : DicListed(e, d)
    /\ \A c, d \in DicsOf(e) : dic_table[c].body = dic_table[d].body => c = d

Listed == ~twice => \A e \in Envs : ListedIn(e)

IInv == TypeOK /\ Counted /\ Owned /\ Whole /\ Listed

(***************************************************************************)
(* A file nobody counts is listed nowhere and is no default file; a listed *)
(* one is counted.                                                         *)
(***************************************************************************)
LEMMA UsersFinite ==
    ASSUME TypeOK, NEW f
    PROVE  /\ IsFiniteSet(Users(f)) /\ Cardinality(Users(f)) \in Nat
           /\ Cardinality(Users(f)) = 0 <=> Users(f) = {}
<1>1. IsFiniteSet(Envs) /\ Users(f) \in SUBSET Envs
  BY ConstantsFit DEF Users, TypeOK
<1> QED
  BY <1>1, FS_Subset, FS_CardinalityType, FS_EmptySet

\* A file that nobody counts is in no list.
LEMMA Unlisted ==
    ASSUME TypeOK, FileRefCount, NothingWhenDead,
           NEW f \in Fid, files[f].ref_count \in {-1, 0}
    PROVE  Users(f) = {} /\ f \notin Resident /\ \A e \in Envs : f \notin file[e]
<1>1. CASE files[f].ref_count = -1
  BY <1>1 DEF FileRefCount, Loaded, Users, NothingWhenDead
<1>2. CASE files[f].ref_count = 0
  <2>1. Cardinality(Users(f)) + (IF f \in Resident THEN 1 ELSE 0) = 0
    BY <1>2 DEF FileRefCount, Loaded
  <2>2. Users(f) = {} /\ f \notin Resident
    BY <2>1, UsersFinite
  <2> QED
    BY <2>2 DEF Users, NothingWhenDead
<1> QED
  BY <1>1, <1>2

(***************************************************************************)
(* The four ways the counts change.  A file is read: it is listed once, or *)
(* not at all.                                                             *)
(***************************************************************************)
LEMMA CountedWhenRead ==
    ASSUME TypeOK, FileRefCount, NothingWhenDead,
           NEW f \in Fid, files[f].ref_count \in {-1, 0},
           NEW e \in alive, NEW u,
           add_read_file(e, f, u) \/ fail_read_file(f, u), alive' = alive
    PROVE  FileRefCount'
<1>1. Users(f) = {} /\ f \notin Resident /\ \A g \in Envs : f \notin file[g]
  BY Unlisted
<1>2. alive \subseteq Envs /\ file \in [Envs -> SUBSET Fid]
  BY DEF TypeOK
<1>3. \A g \in Fid \ {f} : files'[g] = files[g]
  BY DEF add_read_file, fail_read_file, TypeOK
<1>4. \A g \in Fid \ {f} : Users(g)' = Users(g)
  BY <1>2 DEF add_read_file, fail_read_file, Users
<1>5. CASE add_read_file(e, f, u) /\ HasRoom(e)
  <2>1. files'[f].ref_count = 1 /\ file' = [file EXCEPT ![e] = @ \cup {f}]
    BY <1>5 DEF add_read_file, TypeOK
  <2>2. Users(f)' = {e}
    BY <1>1, <1>2, <2>1 DEF Users
  <2>3. Cardinality(Users(f)') = 1
    BY <2>2, FS_Singleton
  <2>4. \A g \in alive : file'[g] \subseteq Loaded \cup {f}
    BY <1>2, <2>1 DEF FileRefCount
  <2> QED
    BY <1>1, <1>3, <1>4, <2>1, <2>3, <2>4 DEF FileRefCount, Loaded
<1>6. CASE ~(add_read_file(e, f, u) /\ HasRoom(e))
  <2>1. files'[f].ref_count \in {-1, 0} /\ file' = file
    BY <1>6 DEF add_read_file, fail_read_file, TypeOK
  <2>2. Users(f)' = {}
    BY <1>1, <2>1 DEF Users
  <2>3. Cardinality(Users(f)') = 0
    BY <2>2, FS_EmptySet
  <2>4. \A g \in alive : file'[g] \subseteq Loaded \ {f}
    BY <1>1, <1>2, <2>1 DEF FileRefCount
  <2> QED
    BY <1>1, <1>3, <1>4, <2>1, <2>3, <2>4 DEF FileRefCount, Loaded
<1> QED
  BY <1>5, <1>6

(***************************************************************************)
(* A loaded file is listed once more.                                      *)
(***************************************************************************)
LEMMA CountedWhenShared ==
    ASSUME TypeOK, FileRefCount, NEW f \in Loaded,
           NEW e \in alive, f \notin file[e],
           file' = [file EXCEPT ![e] = @ \cup {f}],
           files' = [files EXCEPT ![f].ref_count = @ + 1], alive' = alive
    PROVE  FileRefCount'
<1>1. alive \subseteq Envs /\ file \in [Envs -> SUBSET Fid] /\ f \in Fid
  BY DEF TypeOK, Loaded
<1>2. \A g \in Fid \ {f} : files'[g] = files[g]
  BY DEF TypeOK
<1>3. files'[f].ref_count = files[f].ref_count + 1
  BY <1>1 DEF TypeOK
<1>4. \A g \in Fid \ {f} : Users(g)' = Users(g)
  BY <1>1 DEF Users
<1>5. Users(f)' = Users(f) \cup {e} /\ e \notin Users(f)
  BY <1>1 DEF Users
<1>6. Cardinality(Users(f)') = Cardinality(Users(f)) + 1
  BY <1>5, UsersFinite, FS_AddElement
<1>7. Cardinality(Users(f)) \in Nat
  BY UsersFinite
<1>8. Loaded' = Loaded
  BY <1>1, <1>2, <1>3, <1>7 DEF FileRefCount, Loaded
<1>9. \A g \in Loaded : files'[g].ref_count =
        Cardinality(Users(g)') + (IF g \in Resident THEN 1 ELSE 0)
  BY <1>2, <1>3, <1>4, <1>6, <1>7 DEF FileRefCount, Loaded
<1>10. \A g \in alive : file'[g] \subseteq Loaded
  BY <1>1 DEF FileRefCount
<1> QED
  BY <1>8, <1>9, <1>10 DEF FileRefCount

(***************************************************************************)
(* An environment stops listing some files (del_all_file_in_env,           *)
(* JS_FILE_DISCARD): those nobody else lists are discarded.                *)
(***************************************************************************)
LEMMA CountedWhenReleased ==
    ASSUME TypeOK, FileRefCount,
           NEW e \in alive, NEW S \in SUBSET file[e],
           files' = [f \in Fid |-> IF f \in S THEN released(files[f]) ELSE files[f]],
           \A f \in Fid : Users(f)' = Users(f) \ (IF f \in S THEN {e} ELSE {}),
           file' \in [Envs -> SUBSET Fid], alive' \subseteq Envs
    PROVE  FileRefCount'
<1>1. S \subseteq Loaded /\ \A f \in S : e \in Users(f)
  BY DEF FileRefCount, Users
<1>2. \A f \in S : /\ Cardinality(Users(f)') = Cardinality(Users(f)) - 1
                   /\ Cardinality(Users(f)) \in Nat /\ Cardinality(Users(f)') \in Nat
  <2> TAKE f \in S
  <2>1. Users(f)' = Users(f) \ {e} /\ f \in Fid
    BY <1>1 DEF Loaded
  <2>2. IsFiniteSet(Users(f)) /\ Cardinality(Users(f)) \in Nat
    BY UsersFinite
  <2> QED
    BY <1>1, <2>1, <2>2, FS_RemoveElement, FS_CardinalityType
<1>3. \A f \in S : files[f].ref_count =
        Cardinality(Users(f)') + 1 + (IF f \in Resident THEN 1 ELSE 0)
  BY <1>1, <1>2 DEF FileRefCount
<1>4. \A f \in S : files'[f].ref_count =
        IF files[f].ref_count = 1 THEN -1 ELSE files[f].ref_count - 1
  <2> TAKE f \in S
  <2>1. f \in Fid /\ files[f] \in FileEntry
    BY <1>1 DEF Loaded, TypeOK
  <2>2. files'[f] = released(files[f])
    BY <2>1
  <2> QED
    BY <2>1, <2>2 DEF released, discarded, FileEntry
<1>5. \A f \in Fid \ S : files'[f] = files[f] /\ Users(f)' = Users(f)
  OBVIOUS
<1>6. \A f \in Fid : f \in Loaded' <=> f \in Loaded /\ ~(f \in S /\ files[f].ref_count = 1)
  <2> TAKE f \in Fid
  <2>1. CASE f \in S
    BY <1>1, <1>2, <1>3, <1>4, <2>1 DEF Loaded
  <2>2. CASE f \notin S
    BY <1>5, <2>2 DEF Loaded
  <2> QED
    BY <2>1, <2>2
<1>7. \A f \in Loaded' : files'[f].ref_count =
        Cardinality(Users(f)') + (IF f \in Resident THEN 1 ELSE 0)
  <2> TAKE f \in Loaded'
  <2>1. f \in Loaded /\ f \in Fid
    BY <1>6 DEF Loaded
  <2>2. CASE f \in S
    BY <1>2, <1>3, <1>4, <1>6, <2>1, <2>2
  <2>3. CASE f \notin S
    BY <1>5, <2>1, <2>3 DEF FileRefCount
  <2> QED
    BY <2>2, <2>3
<1>8. \A f \in Fid \ Loaded' : Users(f)' = {}
  <2> TAKE f \in Fid \ Loaded'
  <2>1. CASE f \in S
    <3>1. Cardinality(Users(f)') = 0
      BY <1>1, <1>2, <1>3, <1>6, <2>1
    <3>2. IsFiniteSet(Users(f)')
      BY <2>1, UsersFinite, FS_RemoveElement
    <3> QED
      BY <3>1, <3>2, FS_EmptySet
  <2>2. CASE f \notin S
    <3>1. f \notin Loaded
      BY <1>6, <2>2
    <3> QED
      BY <1>5, <2>2, <3>1 DEF FileRefCount, Users
  <2> QED
    BY <2>1, <2>2
<1>9. \A g \in alive' : file'[g] \subseteq Loaded'
  BY <1>8 DEF Users
<1>10. Resident \subseteq Loaded'
  <2> SUFFICES ASSUME NEW f \in Resident PROVE f \in Loaded'
    OBVIOUS
  <2>1. f \in Loaded /\ f \in Fid
    BY DEF FileRefCount, Loaded
  <2> QED
    BY <1>2, <1>3, <1>6, <2>1
<1> QED
  BY <1>7, <1>9, <1>10 DEF FileRefCount

(***************************************************************************)
(* Nothing the counts depend on changes.                                   *)
(***************************************************************************)
LEMMA CountedOtherwise ==
    ASSUME TypeOK, FileRefCount, alive' = alive, file' = file,
           \A f \in Fid : files'[f].ref_count = files[f].ref_count
    PROVE  FileRefCount'
<1>1. Loaded' = Loaded
  BY DEF Loaded
<1>2. \A f : Users(f)' = Users(f)
  BY DEF Users
<1>3. \A f \in Loaded : files'[f].ref_count = files[f].ref_count
  BY DEF Loaded
<1> QED
  BY <1>1, <1>2, <1>3 DEF FileRefCount

(***************************************************************************)
(* The counts are exact initially and after every step.                    *)
(***************************************************************************)
LEMMA CountedInit == Init => Counted
<1> SUFFICES ASSUME Init PROVE Counted
  OBVIOUS
<1>1. \A f : Users(f) = {} /\ Cardinality(Users(f)) = 0
  BY FS_EmptySet DEF Init, Users
<1>2. \A f \in Loaded : files[f].ref_count = 1 /\ f \in Resident
  BY DEF Init, Loaded
<1>3. Resident \subseteq Loaded
  BY IndicesAreNaturals DEF Init, Loaded
<1>4. FileRefCount
  BY <1>1, <1>2, <1>3 DEF Init, FileRefCount
<1>5. NothingWhenDead /\ UploadUnlisted
  BY DEF Init, NothingWhenDead, UploadUnlisted, Idling
<1> QED
  BY <1>4, <1>5 DEF Counted

\* Every step keeps the reference counts right.
LEMMA CountedNext ==
    ASSUME TypeOK, Counted, [Next]_vars
    PROVE  Counted'
<1> USE DEF Counted
<1>1. alive \subseteq Envs /\ file \in [Envs -> SUBSET Fid]
  BY DEF TypeOK
<1>2. ASSUME NEW e \in Envs, new_env(e)
      PROVE  Counted'
  <2>1. files' = files /\ file' = file /\ alive' = alive \cup {e} /\ file[e] = {}
    BY <1>2 DEF new_env, filevars, NothingWhenDead
  <2>2. \A f : Users(f)' = Users(f)
    BY <2>1 DEF Users
  <2>3. FileRefCount'
    BY <2>1, <2>2 DEF FileRefCount, Loaded
  <2>4. NothingWhenDead' /\ UploadUnlisted'
    BY <1>2 DEF new_env, filevars, NothingWhenDead, UploadUnlisted, Idling
  <2> QED
    BY <2>3, <2>4
<1>3. ASSUME NEW e \in Envs, del_env(e)
      PROVE  Counted'
  <2>1. /\ e \in alive /\ alive' \in {alive, alive \ {e}}
        /\ file' = [file EXCEPT ![e] = {}]
        /\ files' = [f \in Fid |-> IF f \in file[e] THEN released(files[f]) ELSE files[f]]
    BY <1>3 DEF del_env, free_env_files
  <2>2. \A f \in Fid : Users(f)' = Users(f) \ (IF f \in file[e] THEN {e} ELSE {})
    BY <1>1, <2>1 DEF Users
  <2>3. file' \in [Envs -> SUBSET Fid] /\ alive' \subseteq Envs
    BY <1>1, <2>1
  <2>4. FileRefCount'
    BY <2>1, <2>2, <2>3, CountedWhenReleased
  <2>5. NothingWhenDead'
    BY <1>3 DEF del_env, free_env_files, NothingWhenDead, TypeOK
  <2>6. UploadUnlisted'
    BY <1>3 DEF del_env, free_env_files, UploadUnlisted, Idling
  <2> QED
    BY <2>4, <2>5, <2>6
<1>4. ASSUME NEW e \in Envs, NEW u \in Uniqs, file_already_read(e, u)
      PROVE  Counted'
  <2>1. PICK f \in Loaded : f = find_file_by_uniq(u)
    BY <1>4, SearchesFind DEF file_already_read, WithUniq
  <2>2. FileRefCount'
    BY <1>4, <2>1, CountedWhenShared DEF file_already_read, MayUse
  <2>3. NothingWhenDead' /\ UploadUnlisted'
    BY <1>4 DEF file_already_read, MayUse, Idling, NothingWhenDead, UploadUnlisted, TypeOK
  <2> QED
    BY <2>2, <2>3
<1>5. ASSUME NEW e \in Envs, NEW u \in Uniqs, js_file_read(e, u)
      PROVE  Counted'
  <2>1. PICK f \in Fid : f = get_new_fid /\ files[f].ref_count = -1
    BY <1>5, SearchesFind DEF js_file_read, Loaded
  <2>2. FileRefCount'
    BY <1>5, <2>1, CountedWhenRead DEF js_file_read, MayUse
  <2>3. NothingWhenDead' /\ UploadUnlisted'
    BY <1>5, <2>1 DEF js_file_read, MayUse, Idling, NothingWhenDead, UploadUnlisted,
          add_read_file, fail_read_file, TypeOK
  <2> QED
    BY <2>2, <2>3
<1>6. ASSUME NEW e \in Envs, NEW u \in Uniqs, js_file_send(e, u)
      PROVE  Counted'
  <2>1. PICK f \in Fid : f = get_new_fid /\ files[f].ref_count = -1
    BY <1>6, SearchesFind DEF js_file_send, Loaded
  <2>2. /\ files' = [files EXCEPT ![f].ref_count = 0]
        /\ alive' = alive /\ file' = file /\ e \in alive
        /\ sending'.env = e /\ sending'.fid = f
    BY <1>6, <2>1 DEF js_file_send, MayUse
  <2>3. Users(f) = {} /\ f \notin Resident
    BY <2>1, Unlisted
  <2>4. /\ \A g : Users(g)' = Users(g)
        /\ files'[f].ref_count = 0
        /\ \A g \in Fid \ {f} : files'[g] = files[g]
    BY <2>2 DEF Users, TypeOK
  <2>5. Loaded' = Loaded \cup {f}
    BY <2>4 DEF Loaded
  <2>6. Cardinality(Users(f)') = 0
    BY <2>3, <2>4, FS_EmptySet
  <2>7. FileRefCount'
    BY <2>2, <2>3, <2>4, <2>5, <2>6 DEF FileRefCount, Loaded
  <2>8. NothingWhenDead' /\ UploadUnlisted'
    BY <1>6, <2>2, <2>4 DEF js_file_send, NothingWhenDead, UploadUnlisted
  <2> QED
    BY <2>7, <2>8
<1>7. ASSUME send_header
      PROVE  Counted'
  <2>1. sending.fid \in Fid /\ sending.env \in alive /\ ~Idling
    BY <1>7, TransferTyped DEF send_header, UploadUnlisted
  <2>2. \A f \in Fid : files'[f].ref_count = files[f].ref_count
    BY <1>7, <2>1 DEF send_header, TypeOK, FileEntry
  <2>3. FileRefCount'
    BY <1>7, <2>2, CountedOtherwise DEF send_header
  <2>4. sending'.env = sending.env /\ sending'.fid = sending.fid
    BY <1>7, <2>1, TransferTyped DEF send_header, Upload
  <2>5. NothingWhenDead' /\ UploadUnlisted'
    BY <1>7, <2>1, <2>2, <2>4 DEF send_header, NothingWhenDead, UploadUnlisted
  <2> QED
    BY <2>3, <2>5
<1>8. ASSUME send_bad_header
      PROVE  Counted'
  <2>1. PICK f \in Fid : f = sending.fid /\ files[f].ref_count = 0
    BY <1>8, TransferTyped DEF send_bad_header, UploadUnlisted
  <2>2. files' = [files EXCEPT ![f].ref_count = -1] /\ alive' = alive /\ file' = file
    BY <1>8, <2>1 DEF send_bad_header
  <2>3. f \notin Resident /\ \A g \in Envs : f \notin file[g]
    BY <2>1, Unlisted
  <2>4. /\ \A g : Users(g)' = Users(g)
        /\ files'[f].ref_count = -1
        /\ \A g \in Fid \ {f} : files'[g] = files[g]
    BY <2>2 DEF Users, TypeOK
  <2>5. Loaded' = Loaded \ {f}
    BY <2>4 DEF Loaded
  <2>6. FileRefCount'
    BY <1>1, <2>2, <2>3, <2>4, <2>5 DEF FileRefCount, Loaded
  <2>7. NothingWhenDead' /\ UploadUnlisted'
    BY <1>8 DEF send_bad_header, NothingWhenDead, UploadUnlisted, Idling
  <2> QED
    BY <2>6, <2>7
<1>9. ASSUME send_body
      PROVE  Counted'
  <2>1. PICK f \in Fid : f = sending.fid /\ files[f].ref_count = 0
    BY <1>9, TransferTyped DEF send_body, UploadUnlisted
  <2>2. PICK e \in alive : e = sending.env
    BY <1>9, TransferTyped DEF send_body, UploadUnlisted
  <2>3. FileRefCount'
    BY <1>9, <2>1, <2>2, CountedWhenRead DEF send_body
  <2>4. NothingWhenDead'
    BY <1>9, <2>1, <2>2 DEF send_body, NothingWhenDead, add_read_file, fail_read_file, TypeOK
  <2>5. UploadUnlisted'
    BY <1>9 DEF send_body, UploadUnlisted, Idling
  <2> QED
    BY <2>3, <2>4, <2>5
<1>10. ASSUME sender_dies
       PROVE  Counted'
  <2>1. FileRefCount'
    BY <1>10, CountedOtherwise DEF sender_dies
  <2>2. NothingWhenDead' /\ UploadUnlisted'
    BY <1>10 DEF sender_dies, NothingWhenDead, UploadUnlisted, Idling
  <2> QED
    BY <2>1, <2>2
<1>11. ASSUME NEW e \in Envs, NEW f \in Fid, js_file_discard(e, f)
       PROVE  Counted'
  <2>1. /\ e \in alive /\ alive' = alive /\ f \in file[e] /\ Idling /\ sending' = sending
        /\ file' = [file EXCEPT ![e] = @ \ {f}]
        /\ files' = [files EXCEPT ![f] = released(@)]
    BY <1>11 DEF js_file_discard, MayUse
  <2>2. files' = [g \in Fid |-> IF g \in {f} THEN released(files[g]) ELSE files[g]]
    BY <2>1 DEF TypeOK
  <2>3. \A g \in Fid : Users(g)' = Users(g) \ (IF g \in {f} THEN {e} ELSE {})
    BY <1>1, <2>1 DEF Users
  <2>4. file' \in [Envs -> SUBSET Fid] /\ alive' \subseteq Envs
    BY <1>1, <2>1
  <2>5. {f} \in SUBSET file[e]
    BY <2>1
  <2>6. FileRefCount'
    BY <2>1, <2>2, <2>3, <2>4, <2>5, CountedWhenReleased
  <2>7. \A g \in Envs \ {e} : jisho'[g] = jisho[g] /\ fzk_fid'[g] = fzk_fid[g]
    BY <1>11 DEF js_file_discard, used_dic_fuzoku_delete, TypeOK
  <2>8. NothingWhenDead' /\ UploadUnlisted'
    BY <2>1, <2>7, <1>1 DEF NothingWhenDead, UploadUnlisted, Idling
  <2> QED
    BY <2>6, <2>8
<1>12. ASSUME NEW e \in alive, Idling, UNCHANGED <<alive, files, file, sending>>,
              \A g \in Envs \ {e} : jisho'[g] = jisho[g] /\ fzk_fid'[g] = fzk_fid[g]
       PROVE  Counted'
  <2>1. FileRefCount'
    BY <1>12, CountedOtherwise
  <2>2. NothingWhenDead' /\ UploadUnlisted'
    BY <1>12 DEF NothingWhenDead, UploadUnlisted, Idling
  <2> QED
    BY <2>1, <2>2
<1>13. ASSUME NEW e \in Envs, NEW f \in Fid, NEW h \in Fid \cup {-1}, js_dic_add(e, f, h)
       PROVE  Counted'
  BY <1>12, <1>13 DEF js_dic_add, MayUse, TypeOK
<1>14. ASSUME NEW e \in Envs, NEW i \in 1 .. MaxJishoOfEnv, js_dic_delete(e, i)
       PROVE  Counted'
  BY <1>12, <1>14 DEF js_dic_delete, MayUse, TypeOK
<1>15. ASSUME NEW e \in Envs, NEW f \in Fid, js_fuzokugo_set(e, f)
       PROVE  Counted'
  <2>1. /\ e \in alive /\ Idling /\ UNCHANGED <<alive, files, file, sending, jisho>>
        /\ fzk_fid' = [fzk_fid EXCEPT ![e] = f]
    BY <1>15 DEF js_fuzokugo_set, MayUse
  <2>2. \A g \in Envs \ {e} : jisho'[g] = jisho[g] /\ fzk_fid'[g] = fzk_fid[g]
    BY <2>1 DEF TypeOK
  <2> QED
    BY <1>12, <2>1, <2>2
<1>16. CASE UNCHANGED vars
  <2>1. FileRefCount'
    BY <1>16, CountedOtherwise DEF vars, filevars
  <2>2. NothingWhenDead' /\ UploadUnlisted'
    BY <1>16 DEF vars, filevars, NothingWhenDead, UploadUnlisted, Idling
  <2> QED
    BY <2>1, <2>2
<1> QED
  BY <1>2, <1>3, <1>4, <1>5, <1>6, <1>7, <1>8, <1>9, <1>10, <1>11, <1>13, <1>14,
     <1>15, <1>16 DEF Next, Command, Transfer

(***************************************************************************)
(* The counts of files[] are exact, no environment lists a file that was   *)
(* discarded and the default files stay, for every instance.               *)
(***************************************************************************)
THEOREM CountsExact == Spec => []FileRefCount
<1>1. Init => TypeOK /\ Counted
  BY TypeInit, CountedInit
<1>2. TypeOK /\ Counted /\ [Next]_vars => (TypeOK /\ Counted)'
  BY TypeNext, CountedNext
<1>3. Counted => FileRefCount
  BY DEF Counted
<1> QED
  BY <1>1, <1>2, <1>3, PTL DEF Spec

----------------------------------------------------------------------------
(***************************************************************************)
(* The ways jisho[] and dic_table[] change.  A dictionary is deleted.      *)
(***************************************************************************)
LEMMA DicsTyped ==
    ASSUME TypeOK, NEW e \in Envs
    PROVE  /\ jisho[e] \in Seq(DicNo) /\ DOMAIN jisho[e] = 1 .. Len(jisho[e])
           /\ Len(jisho[e]) \in Nat
           /\ DicsOf(e) \subseteq DicNo
<1>1. jisho[e] \in Seq(DicNo)
  BY DEF TypeOK
<1> QED
  BY <1>1 DEF DicsOf

\* Taking one dictionary out of an environment.
LEMMA DicDeleted ==
    ASSUME TypeOK, Owned, NEW e \in Envs, NEW i \in DOMAIN jisho[e],
           dic_table' = [dic_table EXCEPT ![jisho[e][i]] = NoDic],
           jisho' = [jisho EXCEPT ![e] = del_dic_from_env(e, i)]
    PROVE  /\ Owned'
           /\ DicsOf(e)' = DicsOf(e) \ {jisho[e][i]}
           /\ \A g \in Envs \ {e} : DicsOf(g)' = DicsOf(g)
<1> DEFINE s == jisho[e]
           t == del_dic_from_env(e, i)
           n == Len(s)
           From(j) == IF j < i THEN j ELSE j + 1
<1>1. s \in Seq(DicNo) /\ DOMAIN s = 1 .. n /\ n \in Nat /\ i \in 1 .. n
  BY DicsTyped
<1>2. /\ t \in Seq(DicNo) /\ Len(t) = n - 1
      /\ \A j \in 1 .. n - 1 : t[j] = s[From(j)]
  BY <1>1, DeletedMovesUp
<1>3. DOMAIN t = 1 .. n - 1
  BY <1>1, <1>2
<1>4. /\ \A j \in 1 .. n - 1 : From(j) \in (1 .. n) \ {i}
      /\ \A j, k \in 1 .. n - 1 : From(j) = From(k) => j = k
      /\ \A k \in (1 .. n) \ {i} : \E j \in 1 .. n - 1 : From(j) = k
  <2>1. \A j \in 1 .. n - 1 : From(j) \in (1 .. n) \ {i}
    BY <1>1
  <2>2. \A j, k \in 1 .. n - 1 : From(j) = From(k) => j = k
    BY <1>1
  <2>3. ASSUME NEW k \in (1 .. n) \ {i}
        PROVE  \E j \in 1 .. n - 1 : From(j) = k
    <3>1. CASE k < i
      <4>1. k \in 1 .. n - 1 /\ From(k) = k
        BY <1>1, <3>1
      <4> QED
        BY <4>1
    <3>2. CASE ~(k < i)
      <4>1. k - 1 \in 1 .. n - 1 /\ From(k - 1) = k
        BY <1>1, <3>2
      <4> QED
        BY <4>1
    <3> QED
      BY <3>1, <3>2
  <2> QED
    BY <2>1, <2>2, <2>3
<1>5. jisho'[e] = t /\ \A g \in Envs \ {e} : jisho'[g] = jisho[g]
  BY DEF TypeOK
<1> HIDE DEF s, t, n, From
<1>6. DicsOf(e)' = {t[j] : j \in 1 .. n - 1}
  BY <1>3, <1>5 DEF DicsOf
<1>7. DicsOf(e) = {s[j] : j \in 1 .. n}
  BY <1>1 DEF DicsOf, s
<1>8. \A j, k \in 1 .. n : s[j] = s[k] => j = k
  BY <1>1 DEF Owned, s
<1>9. DicsOf(e)' = DicsOf(e) \ {s[i]}
  <2>1. ASSUME NEW d \in DicsOf(e)'
        PROVE  d \in DicsOf(e) \ {s[i]}
    BY <1>1, <1>2, <1>4, <1>6, <1>7, <1>8, <2>1
  <2>2. ASSUME NEW d \in DicsOf(e) \ {s[i]}
        PROVE  d \in DicsOf(e)'
    <3>1. PICK k \in (1 .. n) \ {i} : d = s[k]
      BY <1>7
    <3>2. PICK j \in 1 .. n - 1 : From(j) = k
      BY <1>4
    <3> QED
      BY <1>2, <1>6, <3>1, <3>2
  <2> QED
    BY <2>1, <2>2
<1>10. \A g \in Envs \ {e} : DicsOf(g)' = DicsOf(g)
  BY <1>5 DEF DicsOf
<1>11. Owned'
  <2>1. \A g \in Envs : Len(jisho'[g]) <= MaxJishoOfEnv
    <3>1. Len(jisho'[e]) <= MaxJishoOfEnv
      <4>1. Len(s) <= MaxJishoOfEnv
        BY DEF Owned, s
      <4> QED
        BY <1>1, <1>2, <1>5, <4>1, ConstantsFit DEF n
    <3> QED
      BY <1>5, <3>1 DEF Owned
  <2>2. \A g \in Envs : \A j, k \in DOMAIN jisho'[g] : jisho'[g][j] = jisho'[g][k] => j = k
    <3>1. \A j, k \in 1 .. n - 1 : t[j] = t[k] => j = k
      BY <1>2, <1>4, <1>8
    <3>2. \A j, k \in DOMAIN jisho'[e] : jisho'[e][j] = jisho'[e][k] => j = k
      BY <1>3, <1>5, <3>1, ZenonT(40)
    <3> QED
      BY <1>5, <3>2 DEF Owned
  <2>3. \A g, h \in Envs : g # h => DicsOf(g)' \cap DicsOf(h)' = {}
    BY <1>9, <1>10 DEF Owned
  <2>4. ASSUME NEW d \in DicNo
        PROVE  dic_table'[d].body # -1 <=> \E g \in Envs : d \in DicsOf(g)'
    <3>1. s[i] \in DicsOf(e) /\ s[i] \in DicNo
      BY <1>1, <1>7
    <3>2. CASE d = s[i]
      <4>1. dic_table'[d].body = -1
        BY <3>1, <3>2 DEF TypeOK, NoDic, s
      <4>2. \A g \in Envs : d \notin DicsOf(g)'
        BY <1>9, <1>10, <3>1, <3>2 DEF Owned
      <4> QED
        BY <4>1, <4>2
    <3>3. CASE d # s[i]
      <4>1. dic_table'[d] = dic_table[d]
        BY <3>3 DEF TypeOK, s
      <4>2. \A g \in Envs : d \in DicsOf(g)' <=> d \in DicsOf(g)
        BY <1>9, <1>10, <3>3
      <4> QED
        BY <4>1, <4>2 DEF Owned
    <3> QED
      BY <3>2, <3>3
  <2> QED
    BY <2>1, <2>2, <2>3, <2>4 DEF Owned
<1> QED
  BY <1>9, <1>10, <1>11 DEF s

(***************************************************************************)
(* A free entry of dic_table[] becomes the last dictionary of e.           *)
(***************************************************************************)
LEMMA DicAdded ==
    ASSUME TypeOK, Owned, NEW e \in Envs, Len(jisho[e]) < MaxJishoOfEnv,
           NEW d \in DicNo, dic_table[d].body = -1,
           NEW f \in Fid, NEW h,
           dic_table' = [dic_table EXCEPT ![d] = [body |-> f, hindo |-> h]],
           jisho' = [jisho EXCEPT ![e] = Append(@, d)]
    PROVE  /\ Owned'
           /\ DicsOf(e)' = DicsOf(e) \cup {d}
           /\ \A g \in Envs \ {e} : DicsOf(g)' = DicsOf(g)
<1> DEFINE s == jisho[e]
           t == Append(s, d)
           n == Len(s)
<1>1. s \in Seq(DicNo) /\ DOMAIN s = 1 .. n /\ n \in Nat
  BY DicsTyped
<1>2. /\ t \in Seq(DicNo) /\ Len(t) = n + 1 /\ t[n + 1] = d
      /\ \A j \in 1 .. n : t[j] = s[j]
  BY <1>1, AppendProperties
<1>3. DOMAIN t = 1 .. n + 1
  BY <1>2
<1>4. jisho'[e] = t /\ \A g \in Envs \ {e} : jisho'[g] = jisho[g]
  BY DEF TypeOK
<1>5. n < MaxJishoOfEnv
  OBVIOUS
<1> HIDE DEF s, t, n
<1>6. DicsOf(e)' = {t[j] : j \in 1 .. n + 1}
  BY <1>3, <1>4 DEF DicsOf
<1>7. DicsOf(e) = {s[j] : j \in 1 .. n}
  BY <1>1 DEF DicsOf, s
<1>8. DicsOf(e)' = DicsOf(e) \cup {d}
  <2>1. ASSUME NEW x \in DicsOf(e)'
        PROVE  x \in DicsOf(e) \cup {d}
    <3>1. PICK j \in 1 .. n + 1 : x = t[j]
      BY <1>6, <2>1
    <3>2. j \in 1 .. n \/ j = n + 1
      BY <1>1
    <3> QED
      BY <1>2, <1>7, <3>1, <3>2
  <2>2. ASSUME NEW x \in DicsOf(e) \cup {d}
        PROVE  x \in DicsOf(e)'
    <3>1. PICK j \in 1 .. n + 1 : x = t[j]
      <4>1. 1 .. n + 1 = (1 .. n) \cup {n + 1}
        BY <1>1
      <4> QED
        BY <1>2, <1>7, <2>2, <4>1
    <3> QED
      BY <1>6, <3>1
  <2> QED
    BY <2>1, <2>2
<1>9. \A g \in Envs \ {e} : DicsOf(g)' = DicsOf(g)
  BY <1>4 DEF DicsOf
<1>10. \A g \in Envs : d \notin DicsOf(g)
  BY DEF Owned
<1>11. Owned'
  <2>1. \A g \in Envs : Len(jisho'[g]) <= MaxJishoOfEnv
    <3>1. Len(jisho'[e]) <= MaxJishoOfEnv
      BY <1>1, <1>2, <1>4, <1>5, ConstantsFit
    <3> QED
      BY <1>4, <3>1 DEF Owned
  <2>2. \A g \in Envs : \A j, k \in DOMAIN jisho'[g] : jisho'[g][j] = jisho'[g][k] => j = k
    <3>1. \A j, k \in 1 .. n : s[j] = s[k] => j = k
      BY <1>1 DEF Owned, s
    <3>2. \A j \in 1 .. n : s[j] # d
      BY <1>7, <1>10
    <3>3. \A j \in 1 .. n + 1 : j \in 1 .. n \/ j = n + 1
      BY <1>1
    <3>4. \A j, k \in 1 .. n + 1 : t[j] = t[k] => j = k
      BY <1>2, <3>1, <3>2, <3>3
    <3>5. \A j, k \in DOMAIN jisho'[e] : jisho'[e][j] = jisho'[e][k] => j = k
      BY <1>3, <1>4, <3>4, ZenonT(40)
    <3> QED
      BY <1>4, <3>5 DEF Owned
  <2>3. \A g, k \in Envs : g # k => DicsOf(g)' \cap DicsOf(k)' = {}
    BY <1>8, <1>9, <1>10 DEF Owned
  <2>4. ASSUME NEW c \in DicNo
        PROVE  dic_table'[c].body # -1 <=> \E g \in Envs : c \in DicsOf(g)'
    <3>1. CASE c = d
      <4>1. dic_table'[c].body = f /\ f # -1
        BY <3>1, IndicesAreNaturals DEF TypeOK
      <4>2. c \in DicsOf(e)'
        BY <1>8, <3>1
      <4> QED
        BY <4>1, <4>2
    <3>2. CASE c # d
      <4>1. dic_table'[c] = dic_table[c]
        BY <3>2 DEF TypeOK
      <4>2. \A g \in Envs : c \in DicsOf(g)' <=> c \in DicsOf(g)
        BY <1>8, <1>9, <3>2
      <4> QED
        BY <4>1, <4>2 DEF Owned
    <3> QED
      BY <3>1, <3>2
  <2> QED
    BY <2>1, <2>2, <2>3, <2>4 DEF Owned
<1> QED
  BY <1>8, <1>9, <1>11

(***************************************************************************)
(* All the dictionaries of e are deleted (del_all_dic_in_env).             *)
(***************************************************************************)
LEMMA DicsCleared ==
    ASSUME TypeOK, Owned, NEW e \in Envs,
           dic_table' = [d \in DicNo |->
             IF \E i \in DOMAIN jisho[e] : jisho[e][i] = d THEN NoDic ELSE dic_table[d]],
           jisho' = [jisho EXCEPT ![e] = <<>>]
    PROVE  /\ Owned'
           /\ DicsOf(e)' = {}
           /\ \A g \in Envs \ {e} : DicsOf(g)' = DicsOf(g)
<1>1. jisho'[e] = <<>> /\ \A g \in Envs \ {e} : jisho'[g] = jisho[g]
  BY DEF TypeOK
<1>2. /\ DicsOf(e)' = {}
      /\ \A g \in Envs \ {e} : DicsOf(g)' = DicsOf(g)
  BY <1>1 DEF DicsOf
<1>3. \A g \in Envs : Len(jisho'[g]) <= MaxJishoOfEnv
  BY <1>1, ConstantsFit DEF Owned
<1>4. \A g \in Envs : \A j, k \in DOMAIN jisho'[g] : jisho'[g][j] = jisho'[g][k] => j = k
  BY <1>1 DEF Owned
<1>5. \A g, h \in Envs : g # h => DicsOf(g)' \cap DicsOf(h)' = {}
  BY <1>2 DEF Owned
<1>6. ASSUME NEW d \in DicNo
      PROVE  dic_table'[d].body # -1 <=> \E g \in Envs : d \in DicsOf(g)'
  <2>1. dic_table'[d] = IF d \in DicsOf(e) THEN NoDic ELSE dic_table[d]
    BY DEF DicsOf
  <2>2. CASE d \in DicsOf(e)
    BY <1>2, <2>1, <2>2 DEF Owned, NoDic
  <2>3. CASE d \notin DicsOf(e)
    BY <1>2, <2>1, <2>3 DEF Owned
  <2> QED
    BY <2>2, <2>3
<1> QED
  BY <1>2, <1>3, <1>4, <1>5, <1>6 DEF Owned

(***************************************************************************)
(* No dictionary comes or goes.                                            *)
(***************************************************************************)
LEMMA OwnedOtherwise ==
    ASSUME Owned, jisho' = jisho,
           \A d \in DicNo : dic_table'[d].body = dic_table[d].body
    PROVE  Owned' /\ \A e : DicsOf(e)' = DicsOf(e)
<1>1. \A e : DicsOf(e)' = DicsOf(e)
  BY DEF DicsOf
<1> QED
  BY <1>1 DEF Owned

(***************************************************************************)
(* The tables of dictionaries agree initially and after every step.        *)
(***************************************************************************)
LEMMA OwnedInit == Init => Owned
<1> SUFFICES ASSUME Init PROVE Owned
  OBVIOUS
<1>1. \A e \in Envs : jisho[e] = <<>> /\ DicsOf(e) = {}
  BY DEF Init, DicsOf
<1>2. \A d \in DicNo : dic_table[d].body = -1
  BY DEF Init, NoDic
<1> QED
  BY <1>1, <1>2, ConstantsFit DEF Owned

\* The dictionaries a loop of the server looks for, and the first of them.
LEMMA UsingFirst ==
    ASSUME TypeOK, NEW e \in Envs, NEW f
    PROVE  /\ Using(e, f) \subseteq DOMAIN jisho[e]
           /\ Using(e, f) # {} => First(Using(e, f)) \in Using(e, f)
           /\ WithBody(e, f) \subseteq DOMAIN jisho[e]
           /\ WithBody(e, f) # {} => First(WithBody(e, f)) \in WithBody(e, f)
           /\ FreeDics # {} => First(FreeDics) \in FreeDics
<1>1. /\ Using(e, f) \subseteq DOMAIN jisho[e]
      /\ WithBody(e, f) \subseteq DOMAIN jisho[e]
  BY DEF Using, WithBody
<1>2. DOMAIN jisho[e] \subseteq Nat
  BY DicsTyped
<1>3. FreeDics \in SUBSET Nat
  BY IndicesAreNaturals DEF FreeDics
<1> QED
  BY <1>1, <1>2, <1>3, SearchesFind

(***************************************************************************)
(* What JS_FILE_DISCARD does to the dictionaries of e: nothing, when the   *)
(* file is its fuzokugo file or no dictionary uses it, or else it deletes  *)
(* one that does.                                                          *)
(***************************************************************************)
LEMMA DiscardDeletes ==
    ASSUME TypeOK, Owned, NEW e \in Envs, NEW f \in Fid, used_dic_fuzoku_delete(e, f)
    PROVE  /\ Owned'
           /\ \A g \in Envs \ {e} : DicsOf(g)' = DicsOf(g)
           /\ \/ /\ fzk_fid[e] = f \/ Using(e, f) = {}
                 /\ dic_table' = dic_table /\ DicsOf(e)' = DicsOf(e)
              \/ \E d \in DicsOf(e) :
                    /\ dic_table[d].body = f \/ dic_table[d].hindo = f
                    /\ dic_table' = [dic_table EXCEPT ![d] = NoDic]
                    /\ DicsOf(e)' = DicsOf(e) \ {d}
<1>1. CASE fzk_fid[e] = f \/ Using(e, f) = {}
  <2>1. jisho' = jisho /\ dic_table' = dic_table
    BY <1>1 DEF used_dic_fuzoku_delete
  <2> QED
    BY <1>1, <2>1, OwnedOtherwise
<1>2. CASE fzk_fid[e] # f /\ Using(e, f) # {}
  <2>1. PICK i \in Using(e, f) :
          /\ dic_table' = [dic_table EXCEPT ![jisho[e][i]] = NoDic]
          /\ jisho' = [jisho EXCEPT ![e] = del_dic_from_env(e, i)]
    BY <1>2, UsingFirst DEF used_dic_fuzoku_delete
  <2>2. i \in DOMAIN jisho[e]
    BY UsingFirst
  <2>3. jisho[e][i] \in DicsOf(e)
    BY <2>2 DEF DicsOf
  <2>4. dic_table[jisho[e][i]].body = f \/ dic_table[jisho[e][i]].hindo = f
    BY DEF Using
  <2> QED
    BY <2>1, <2>2, <2>3, <2>4, DicDeleted
<1> QED
  BY <1>1, <1>2

(***************************************************************************)
(* What JS_DIC_ADD does: a dictionary of e with that body has its hindo    *)
(* file changed, or a free entry is taken.                                 *)
(***************************************************************************)
LEMMA AddChanges ==
    ASSUME TypeOK, Owned, NEW e \in Envs, NEW f \in Fid, NEW h \in Fid \cup {-1},
           js_dic_add(e, f, h)
    PROVE  /\ Owned'
           /\ \A g \in Envs \ {e} : DicsOf(g)' = DicsOf(g)
           /\ \/ \E d \in DicsOf(e) :
                    /\ dic_table[d].body = f
                    /\ dic_table' = [dic_table EXCEPT ![d].hindo = h]
                    /\ DicsOf(e)' = DicsOf(e)
              \/ /\ \A d \in DicsOf(e) : dic_table[d].body # f
                 /\ \E d \in DicNo :
                      /\ dic_table[d].body = -1
                      /\ dic_table' = [dic_table EXCEPT ![d] = [body |-> f, hindo |-> h]]
                      /\ DicsOf(e)' = DicsOf(e) \cup {d}
<1>1. CASE /\ WithBody(e, f) # {}
           /\ dic_table' = [dic_table EXCEPT
                              ![jisho[e][First(WithBody(e, f))]].hindo = h]
           /\ UNCHANGED jisho
  <2>1. PICK i \in DOMAIN jisho[e] : /\ i = First(WithBody(e, f))
                                     /\ dic_table[jisho[e][i]].body = f
    BY <1>1, UsingFirst DEF WithBody
  <2>2. PICK d \in DicsOf(e) : /\ dic_table[d].body = f
                               /\ dic_table' = [dic_table EXCEPT ![d].hindo = h]
    BY <1>1, <2>1 DEF DicsOf
  <2>3. \A c \in DicNo : dic_table'[c].body = dic_table[c].body
    BY <2>2, DicsTyped DEF TypeOK, DicEntry
  <2> QED
    BY <1>1, <2>2, <2>3, OwnedOtherwise
<1>2. CASE /\ WithBody(e, f) = {}
           /\ FreeDics # {} /\ Len(jisho[e]) < MaxJishoOfEnv
           /\ dic_table' = [dic_table EXCEPT ![First(FreeDics)] = [body |-> f, hindo |-> h]]
           /\ jisho' = [jisho EXCEPT ![e] = Append(@, First(FreeDics))]
  <2>1. PICK d \in DicNo : d = First(FreeDics) /\ dic_table[d].body = -1
    BY <1>2, UsingFirst DEF FreeDics
  <2>2. \A c \in DicsOf(e) : dic_table[c].body # f
    BY <1>2 DEF WithBody, DicsOf
  <2>3. /\ dic_table' = [dic_table EXCEPT ![d] = [body |-> f, hindo |-> h]]
        /\ jisho' = [jisho EXCEPT ![e] = Append(@, d)]
    BY <1>2, <2>1
  <2>4. Len(jisho[e]) < MaxJishoOfEnv /\ dic_table[d].body = -1
    BY <1>2, <2>1
  <2>5. /\ Owned' /\ DicsOf(e)' = DicsOf(e) \cup {d}
        /\ \A g \in Envs \ {e} : DicsOf(g)' = DicsOf(g)
    BY <2>3, <2>4, DicAdded
  <2> QED
    BY <2>2, <2>3, <2>4, <2>5
<1> QED
  BY <1>1, <1>2 DEF js_dic_add

\* Every step keeps every dictionary in one environment.
LEMMA OwnedNext ==
    ASSUME TypeOK, Owned, [Next]_vars
    PROVE  Owned'
<1>1. ASSUME NEW e \in Envs, del_env(e)
      PROVE  Owned'
  BY <1>1, DicsCleared DEF del_env, free_env_files
<1>2. ASSUME NEW e \in Envs, NEW f \in Fid, js_file_discard(e, f)
      PROVE  Owned'
  BY <1>2, DiscardDeletes DEF js_file_discard
<1>3. ASSUME NEW e \in Envs, NEW f \in Fid, NEW h \in Fid \cup {-1}, js_dic_add(e, f, h)
      PROVE  Owned'
  BY <1>3, AddChanges
<1>4. ASSUME NEW e \in Envs, NEW i \in 1 .. MaxJishoOfEnv, js_dic_delete(e, i)
      PROVE  Owned'
  BY <1>4, DicDeleted DEF js_dic_delete
<1>5. CASE \/ \E e \in Envs : \/ new_env(e)
                              \/ \E u \in Uniqs : \/ file_already_read(e, u)
                                                  \/ js_file_read(e, u)
                                                  \/ js_file_send(e, u)
                              \/ \E f \in Fid : js_fuzokugo_set(e, f)
           \/ Transfer \/ UNCHANGED vars
  <2>1. jisho' = jisho /\ dic_table' = dic_table
    BY <1>5 DEF new_env, file_already_read, js_file_read, js_file_send, js_fuzokugo_set,
          Transfer, send_header, send_bad_header, send_body, sender_dies, vars, filevars
  <2> QED
    BY <2>1, OwnedOtherwise
<1> QED
  BY <1>1, <1>2, <1>3, <1>4, <1>5 DEF Next, Command

(***************************************************************************)
(* An entry of dic_table[] in use belongs to one environment at one        *)
(* position, and no position names a free entry, for every instance.       *)
(***************************************************************************)
THEOREM EntriesOwned == Spec => []DicOwned
<1>1. Init => TypeOK /\ Counted /\ Owned
  BY TypeInit, CountedInit, OwnedInit
<1>2. TypeOK /\ Counted /\ Owned /\ [Next]_vars => (TypeOK /\ Counted /\ Owned)'
  BY TypeNext, CountedNext, OwnedNext
<1>3. TypeOK /\ Counted /\ Owned => DicOwned
  <2> SUFFICES ASSUME TypeOK, Counted, Owned, NEW d \in DicNo
               PROVE  Cardinality(Owners(d)) = IF dic_table[d].body = -1 THEN 0 ELSE 1
    BY DEF DicOwned
  <2>1. \A e \in Envs : \A i \in DOMAIN jisho[e] :
          /\ i \in 1 .. MaxJishoOfEnv /\ e \in alive
          /\ jisho[e][i] \in DicsOf(e)
    <3> TAKE e \in Envs
    <3> TAKE i \in DOMAIN jisho[e]
    <3>1. i \in 1 .. Len(jisho[e]) /\ Len(jisho[e]) \in Nat /\ Len(jisho[e]) <= MaxJishoOfEnv
      BY DicsTyped DEF Owned
    <3>2. i \in 1 .. MaxJishoOfEnv
      BY <3>1, ConstantsFit
    <3>3. e \in alive
      BY <3>1 DEF Counted, NothingWhenDead
    <3> QED
      BY <3>2, <3>3 DEF DicsOf
  <2>2. CASE dic_table[d].body = -1
    <3>1. \A e \in Envs : d \notin DicsOf(e)
      BY <2>2 DEF Owned
    <3>2. Owners(d) = {}
      BY <2>1, <3>1 DEF Owners, TypeOK
    <3> QED
      BY <2>2, <3>2, FS_EmptySet
  <2>3. CASE dic_table[d].body # -1
    <3>1. PICK e \in Envs : d \in DicsOf(e)
      BY <2>3 DEF Owned
    <3>2. PICK i \in DOMAIN jisho[e] : jisho[e][i] = d
      BY <3>1 DEF DicsOf
    <3>3. \A g \in Envs : \A j \in DOMAIN jisho[g] : jisho[g][j] = d => g = e /\ j = i
      BY <2>1, <3>1, <3>2 DEF Owned
    <3>4. <<e, i>> \in Owners(d)
      BY <2>1, <3>2 DEF Owners
    <3>5. \A o \in Owners(d) : o = <<e, i>>
      <4> TAKE o \in Owners(d)
      <4>1. o = <<o[1], o[2]>> /\ o[1] \in Envs
        BY DEF Owners, TypeOK
      <4>2. o[2] \in DOMAIN jisho[o[1]] /\ jisho[o[1]][o[2]] = d
        BY DEF Owners
      <4> QED
        BY <3>3, <4>1, <4>2
    <3>6. Owners(d) = {<<e, i>>}
      BY <3>4, <3>5
    <3> QED
      BY <2>3, <3>6, FS_Singleton
  <2> QED
    BY <2>2, <2>3
<1> QED
  BY <1>1, <1>2, <1>3, PTL DEF Spec

----------------------------------------------------------------------------
(***************************************************************************)
(* The ways the settled files change while no sender has died: they stay,  *)
(* or go; or one is added whose f_uniq none of them had.                   *)
(***************************************************************************)
LEMMA WholeKept ==
    ASSUME Whole, ~broken,
           \A f \in Settled' : /\ f \in Settled
                               /\ files'[f].uniq = files[f].uniq
                               /\ files'[f].area = files[f].area,
           Idling' \/ (~Idling /\ sending'.uniq = sending.uniq)
    PROVE  Whole'
<1>1. /\ \A f \in Settled : files[f].uniq \in Uniqs /\ files[f].area = files[f].uniq
      /\ \A f, g \in Settled : files[f].uniq = files[g].uniq => f = g
      /\ ~Idling => \A f \in Settled : files[f].uniq # sending.uniq
  BY DEF Whole
<1>2. \A f \in Settled' : files'[f].uniq \in Uniqs /\ files'[f].area = files'[f].uniq
  BY <1>1
<1>3. \A f, g \in Settled' : files'[f].uniq = files'[g].uniq => f = g
  BY <1>1
<1>4. ~Idling' => \A f \in Settled' : files'[f].uniq # sending'.uniq
  BY <1>1
<1> QED
  BY <1>2, <1>3, <1>4 DEF Whole

\* One file more, read from the disk or from a client.
LEMMA WholeAdded ==
    ASSUME Whole, ~broken, NEW g, NEW u \in Uniqs,
           \A f \in Settled' \ {g} : /\ f \in Settled
                                     /\ files'[f].uniq = files[f].uniq
                                     /\ files'[f].area = files[f].area,
           g \in Settled' => files'[g].uniq = u /\ files'[g].area = u,
           \A f \in Settled : files[f].uniq # u,
           Idling'
    PROVE  Whole'
<1>1. /\ \A f \in Settled : files[f].uniq \in Uniqs /\ files[f].area = files[f].uniq
      /\ \A f, h \in Settled : files[f].uniq = files[h].uniq => f = h
  BY DEF Whole
<1>2. \A f \in Settled' : files'[f].uniq \in Uniqs /\ files'[f].area = files'[f].uniq
  BY <1>1
<1>3. \A f, h \in Settled' : files'[f].uniq = files'[h].uniq => f = h
  BY <1>1
<1> QED
  BY <1>2, <1>3 DEF Whole

\* No file is loaded at the start.
LEMMA WholeInit == Init => Whole
<1> SUFFICES ASSUME Init PROVE Whole
  OBVIOUS
<1>1. Idling /\ \A f \in Loaded : /\ f \in Resident
                                  /\ files[f].uniq = DefaultFiles[f]
                                  /\ files[f].area = DefaultFiles[f]
  BY DEF Init, Loaded, Idling
<1>2. Settled = Loaded
  BY <1>1 DEF Settled
<1>3. \A f, g \in Resident : DefaultFiles[f] = DefaultFiles[g] => f = g
  BY ConstantsFit
<1>4. \A f \in Resident : DefaultFiles[f] \in Uniqs
  BY IndicesAreNaturals
<1> QED
  BY <1>1, <1>2, <1>3, <1>4 DEF Whole

(***************************************************************************)
(* What a released file leaves.                                            *)
(***************************************************************************)
LEMMA ReleasedKeeps ==
    ASSUME NEW x \in FileEntry, released(x).ref_count # -1, x.ref_count # -1
    PROVE  released(x).uniq = x.uniq /\ released(x).area = x.area
<1>1. CASE x.ref_count = 1
  BY <1>1 DEF released, discarded
<1>2. CASE x.ref_count # 1
  BY <1>2 DEF released, FileEntry
<1> QED
  BY <1>1, <1>2

\* Every step keeps loaded files whole.
LEMMA WholeNext ==
    ASSUME TypeOK, Counted, Whole, [Next]_vars
    PROVE  Whole'
<1> SUFFICES ASSUME ~broken, ~broken'
             PROVE  Whole'
  <2>1. broken' = broken \/ broken'
    BY DEF Next, Command, Transfer, new_env, del_env, free_env_files, file_already_read,
       js_file_read, js_file_send, send_header, send_bad_header, send_body, sender_dies,
       js_file_discard, js_dic_add, js_dic_delete, js_fuzokugo_set, vars, filevars
  <2> QED
    BY <2>1 DEF Whole
<1>1. ASSUME NEW e \in Envs, del_env(e)
      PROVE  Whole'
  <2>1. /\ files' = [f \in Fid |-> IF f \in file[e] THEN released(files[f]) ELSE files[f]]
        /\ Idling /\ sending' = sending
        /\ file[e] \subseteq Loaded
    BY <1>1 DEF del_env, free_env_files, Counted, FileRefCount
  <2>2. \A f \in Loaded' : /\ f \in Loaded
                           /\ files'[f].uniq = files[f].uniq
                           /\ files'[f].area = files[f].area
    BY <2>1, ReleasedKeeps DEF Loaded, TypeOK
  <2> QED
    BY <2>1, <2>2, WholeKept DEF Settled, Idling
<1>2. ASSUME NEW e \in Envs, NEW u \in Uniqs, file_already_read(e, u)
      PROVE  Whole'
  <2>1. PICK f \in Loaded : files' = [files EXCEPT ![f].ref_count = @ + 1]
    BY <1>2, SearchesFind DEF file_already_read, WithUniq
  <2>2. \A g \in Fid : files'[g].uniq = files[g].uniq /\ files'[g].area = files[g].area
    BY <2>1 DEF TypeOK, FileEntry
  <2>3. \A g \in Fid \ {f} : files'[g].ref_count = files[g].ref_count
    BY <2>1 DEF TypeOK
  <2>4. Idling /\ sending' = sending
    BY <1>2 DEF file_already_read, MayUse
  <2>5. \A g \in Loaded' : g \in Loaded /\ g \in Fid
    BY <2>1, <2>3 DEF Loaded
  <2> QED
    BY <2>2, <2>4, <2>5, WholeKept DEF Settled, Idling
<1>3. ASSUME NEW e, NEW f \in Fid, Idling \/ f = sending.fid, NEW u \in Uniqs,
             add_read_file(e, f, u) \/ fail_read_file(f, u),
             \A g \in Settled : files[g].uniq # u,
             sending' = NotSending
      PROVE  Whole'
  <2>1. /\ \A g \in Fid \ {f} : files'[g] = files[g]
        /\ files'[f].ref_count = -1 \/ (files'[f].uniq = u /\ files'[f].area = u)
    BY <1>3 DEF add_read_file, fail_read_file, TypeOK
  <2>2. Idling' /\ Settled' = Loaded'
    BY <1>3 DEF Idling, Settled
  <2>3. \A g \in Settled' \ {f} : /\ g \in Settled
                                  /\ files'[g].uniq = files[g].uniq
                                  /\ files'[g].area = files[g].area
    <3> TAKE g \in Settled' \ {f}
    <3>1. g \in Loaded /\ files'[g] = files[g]
      BY <2>1, <2>2 DEF Loaded
    <3>2. g \in Settled
      BY <1>3, <3>1 DEF Settled
    <3> QED
      BY <3>1, <3>2
  <2>4. f \in Settled' => files'[f].uniq = u /\ files'[f].area = u
    BY <2>1, <2>2 DEF Loaded
  <2> QED
    BY <1>3, <2>2, <2>3, <2>4, WholeAdded
<1>4. ASSUME NEW e \in Envs, NEW u \in Uniqs, js_file_read(e, u)
      PROVE  Whole'
  <2>1. PICK f \in Fid : f = get_new_fid
    BY <1>4, SearchesFind DEF js_file_read
  <2>2. \A g \in Settled : files[g].uniq # u
    BY <1>4 DEF js_file_read, Settled, WithUniq
  <2> QED
    BY <1>3, <1>4, <2>1, <2>2 DEF js_file_read, MayUse, Idling
<1>5. ASSUME NEW e \in Envs, NEW u \in Uniqs, js_file_send(e, u)
      PROVE  Whole'
  <2>1. PICK f \in Fid : f = get_new_fid /\ f \notin Loaded
    BY <1>5, SearchesFind DEF js_file_send
  <2>2. /\ files' = [files EXCEPT ![f].ref_count = 0]
        /\ sending' = [stage |-> "header", env |-> e, fid |-> f, uniq |-> u]
        /\ Idling /\ WithUniq(u) = {}
    BY <1>5, <2>1 DEF js_file_send, MayUse
  <2>3. \A g \in Fid \ {f} : files'[g] = files[g]
    BY <2>2 DEF TypeOK
  <2>4. ~Idling' /\ sending'.fid = f /\ sending'.uniq = u
    BY <2>2 DEF Idling, NotSending
  <2>5. \A g \in Settled' : g \in Settled /\ files'[g] = files[g] /\ files[g].uniq # u
    BY <2>2, <2>3, <2>4 DEF Settled, Loaded, WithUniq
  <2> QED
    BY <2>4, <2>5 DEF Whole
<1>6. ASSUME send_header
      PROVE  Whole'
  <2>1. sending \in Upload /\ sending.fid \in Fid /\ ~Idling
    BY <1>6, TransferTyped DEF send_header
  <2>2. /\ sending' = [sending EXCEPT !.stage = "body"]
        /\ files' = [files EXCEPT ![sending.fid].uniq = sending.uniq]
    BY <1>6 DEF send_header
  <2>3. sending'.uniq = sending.uniq /\ sending'.fid = sending.fid /\ sending'.stage # "no"
    BY <2>1, <2>2 DEF Upload
  <2>4. ~Idling'
    BY <2>3 DEF Idling, NotSending
  <2>5. \A g \in Fid \ {sending.fid} : files'[g] = files[g]
    BY <2>2 DEF TypeOK
  <2>6. \A g \in Settled' : g \in Settled /\ files'[g] = files[g]
    BY <2>1, <2>3, <2>4, <2>5 DEF Settled, Loaded
  <2> QED
    BY <2>1, <2>3, <2>6, WholeKept
<1>7. ASSUME send_bad_header
      PROVE  Whole'
  <2>1. PICK f \in Fid : f = sending.fid /\ ~Idling
    BY <1>7, TransferTyped DEF send_bad_header
  <2>2. files' = [files EXCEPT ![f].ref_count = -1] /\ Idling'
    BY <1>7, <2>1 DEF send_bad_header, Idling
  <2>3. files'[f].ref_count = -1 /\ \A g \in Fid \ {f} : files'[g] = files[g]
    BY <2>2 DEF TypeOK
  <2>4. \A g \in Settled' : g \in Settled /\ files'[g] = files[g]
    BY <2>1, <2>3 DEF Settled, Loaded
  <2> QED
    BY <2>2, <2>4, WholeKept
<1>8. ASSUME send_body
      PROVE  Whole'
  <2>1. /\ ~Idling /\ sending' = NotSending
        /\ sending.fid \in Fid /\ sending.uniq \in Uniqs
    BY <1>8, TransferTyped DEF send_body
  <2>2. \A g \in Settled : files[g].uniq # sending.uniq
    BY <2>1 DEF Whole
  <2> QED
    BY <1>3, <1>8, <2>1, <2>2 DEF send_body
<1>9. ASSUME sender_dies
      PROVE  Whole'
  BY <1>9 DEF sender_dies
<1>10. ASSUME NEW e \in Envs, NEW f \in Fid, js_file_discard(e, f)
       PROVE  Whole'
  <2>1. /\ files' = [files EXCEPT ![f] = released(@)]
        /\ Idling /\ sending' = sending /\ f \in Loaded
    BY <1>10 DEF js_file_discard, MayUse, Counted, FileRefCount
  <2>2. files'[f] = released(files[f]) /\ \A g \in Fid \ {f} : files'[g] = files[g]
    BY <2>1 DEF TypeOK
  <2>3. \A g \in Loaded' : /\ g \in Loaded
                           /\ files'[g].uniq = files[g].uniq
                           /\ files'[g].area = files[g].area
    BY <2>1, <2>2, ReleasedKeeps DEF Loaded, TypeOK
  <2> QED
    BY <2>1, <2>3, WholeKept DEF Settled, Idling
<1>11. CASE files' = files /\ sending' = sending
  <2>1. Settled' = Settled
    BY <1>11 DEF Settled, Loaded, Idling
  <2> QED
    BY <1>11, <2>1, WholeKept DEF Idling
<1>12. CASE \/ \E e \in Envs : \/ new_env(e)
                               \/ \E f \in Fid :
                                    \/ js_fuzokugo_set(e, f)
                                    \/ \E h \in Fid \cup {-1} : js_dic_add(e, f, h)
                               \/ \E i \in 1 .. MaxJishoOfEnv : js_dic_delete(e, i)
            \/ UNCHANGED vars
  BY <1>11, <1>12 DEF new_env, js_fuzokugo_set, js_dic_add, js_dic_delete, vars, filevars
<1> QED
  BY <1>1, <1>2, <1>4, <1>5, <1>6, <1>7, <1>8, <1>9, <1>10, <1>12
     DEF Next, Command, Transfer

(***************************************************************************)
(* As long as no client has died in the middle of JS_FILE_SEND, a listed   *)
(* file is the whole file of its f_uniq and no file is loaded twice, for   *)
(* every instance.                                                         *)
(***************************************************************************)
THEOREM FilesWhole == Spec => []LoadedWholeUnlessBroken
<1>1. Init => TypeOK /\ Counted /\ Whole
  BY TypeInit, CountedInit, WholeInit
<1>2. TypeOK /\ Counted /\ Whole /\ [Next]_vars => (TypeOK /\ Counted /\ Whole)'
  BY TypeNext, CountedNext, WholeNext
<1>3. TypeOK /\ Counted /\ Whole => LoadedWholeUnlessBroken
  <2> SUFFICES ASSUME TypeOK, Counted, Whole, ~broken
               PROVE  LoadedWhole
    BY DEF LoadedWholeUnlessBroken
  <2>1. \A e \in alive : \A f \in file[e] : files[f].area = files[f].uniq
    <3> TAKE e \in alive
    <3> TAKE f \in file[e]
    <3>1. f \in Loaded /\ f \in Fid
      BY DEF Counted, FileRefCount, Loaded
    <3>2. Idling \/ f # sending.fid
      <4> SUFFICES ASSUME ~Idling, f = sending.fid
                   PROVE  FALSE
        OBVIOUS
      <4>1. files[f].ref_count = 0 /\ e \in Envs
        BY DEF Counted, UploadUnlisted, TypeOK
      <4> QED
        BY <3>1, <4>1, Unlisted DEF Counted
    <3> QED
      BY <3>1, <3>2 DEF Whole, Settled
  <2>2. ASSUME NEW u \in Uniqs
        PROVE  Cardinality(Settled \cap WithUniq(u)) <= 1
    <3>1. \A f, g \in Settled \cap WithUniq(u) : f = g
      BY DEF Whole, WithUniq
    <3>2. CASE Settled \cap WithUniq(u) = {}
      BY <3>2, FS_EmptySet
    <3>3. CASE Settled \cap WithUniq(u) # {}
      <4>1. PICK f : Settled \cap WithUniq(u) = {f}
        BY <3>1, <3>3
      <4> QED
        BY <4>1, FS_Singleton
    <3> QED
      BY <3>2, <3>3
  <2> QED
    BY <2>1, <2>2 DEF LoadedWhole
<1> QED
  BY <1>1, <1>2, <1>3, PTL DEF Spec

----------------------------------------------------------------------------
(***************************************************************************)
(* An environment that keeps its files, dictionaries and fuzokugo file     *)
(* still has its files listed.                                             *)
(***************************************************************************)
LEMMA ListedInKept ==
    ASSUME NEW g \in Envs, ListedIn(g),
           file[g] \subseteq file'[g], fzk_fid'[g] = fzk_fid[g],
           DicsOf(g)' = DicsOf(g),
           \A d \in DicsOf(g) : dic_table'[d] = dic_table[d],
           \A f \in file[g] : files'[f].uniq = files[f].uniq
    PROVE  ListedIn(g)'
<1>1. fzk_fid'[g] # -1 => fzk_fid'[g] \in file'[g] /\ files'[fzk_fid'[g]].uniq \in Fzks
  BY DEF ListedIn
<1>2. \A d \in DicsOf(g) : DicListed(g, d)'
  BY DEF ListedIn, DicListed
<1>3. \A c, d \in DicsOf(g) : dic_table'[c].body = dic_table'[d].body => c = d
  BY DEF ListedIn
<1> QED
  BY <1>1, <1>2, <1>3 DEF ListedIn

(***************************************************************************)
(* The f_uniq of a listed file does not change, nor does what it holds     *)
(* unless it is discarded: the entry a file is read into is listed nowhere *)
(* before.                                                                 *)
(***************************************************************************)
LEMMA EntryKept ==
    ASSUME TypeOK, Counted, [Next]_vars
    PROVE  \A e \in Envs : \A f \in file[e] :
             /\ files'[f].uniq = files[f].uniq
             /\ files'[f].ref_count = -1 \/ files'[f].area = files[f].area
<1> DEFINE Kept(f) == /\ files'[f].uniq = files[f].uniq
                      /\ files'[f].ref_count = -1 \/ files'[f].area = files[f].area
           Free(f) == files[f].ref_count \in {-1, 0}
<1>1. SUFFICES \A f \in Fid : Kept(f) \/ Free(f)
  <2>1. \A f \in Fid : Free(f) => \A e \in Envs : f \notin file[e]
    BY Unlisted DEF Counted
  <2>2. \A e \in Envs : file[e] \subseteq Fid
    BY DEF TypeOK
  <2> HIDE DEF Free
  <2> QED
    BY <2>1, <2>2
<1>2. \A x \in FileEntry : /\ released(x).uniq = x.uniq
                           /\ released(x).ref_count = -1 \/ released(x).area = x.area
  BY DEF FileEntry, released, discarded
<1>3. ASSUME NEW g \in Fid, NEW n, files' = [files EXCEPT ![g].ref_count = n]
      PROVE  \A f \in Fid : Kept(f)
  BY <1>3 DEF TypeOK, FileEntry
<1>4. ASSUME NEW e, NEW g \in Fid, NEW u, add_read_file(e, g, u) \/ fail_read_file(g, u)
      PROVE  \A f \in Fid \ {g} : Kept(f)
  BY <1>4 DEF add_read_file, fail_read_file, TypeOK
<1>5. ASSUME NEW e \in Envs, del_env(e)
      PROVE  \A f \in Fid : Kept(f)
  BY <1>2, <1>5 DEF del_env, free_env_files, TypeOK
<1>6. ASSUME NEW e \in Envs, NEW u \in Uniqs, file_already_read(e, u)
      PROVE  \A f \in Fid : Kept(f)
  <2>1. PICK f \in Loaded : files' = [files EXCEPT ![f].ref_count = @ + 1]
    BY <1>6, SearchesFind DEF file_already_read, WithUniq
  <2>2. f \in Fid
    BY DEF Loaded
  <2> QED
    BY <1>3, <2>1, <2>2
<1>7. ASSUME NEW e \in Envs, NEW u \in Uniqs, js_file_read(e, u)
      PROVE  \A f \in Fid : Kept(f) \/ Free(f)
  <2>1. PICK f \in Fid : f = get_new_fid /\ Free(f)
    BY <1>7, SearchesFind DEF js_file_read, Loaded
  <2> QED
    BY <1>4, <1>7, <2>1 DEF js_file_read
<1>8. ASSUME NEW e \in Envs, NEW u \in Uniqs, js_file_send(e, u)
      PROVE  \A f \in Fid : Kept(f)
  <2>1. PICK f \in Fid : f = get_new_fid
    BY <1>8, SearchesFind DEF js_file_send
  <2> QED
    BY <1>3, <1>8, <2>1 DEF js_file_send
<1>9. ASSUME send_header
      PROVE  \A f \in Fid : Kept(f) \/ Free(f)
  <2>1. sending.fid \in Fid /\ Free(sending.fid)
    BY <1>9, TransferTyped DEF send_header, Counted, UploadUnlisted
  <2>2. \A f \in Fid \ {sending.fid} : files'[f] = files[f]
    BY <1>9, <2>1 DEF send_header, TypeOK
  <2> QED
    BY <2>1, <2>2
<1>10. ASSUME send_bad_header
       PROVE  \A f \in Fid : Kept(f)
  <2>1. sending.fid \in Fid
    BY <1>10, TransferTyped DEF send_bad_header
  <2> QED
    BY <1>3, <1>10, <2>1 DEF send_bad_header
<1>11. ASSUME send_body
       PROVE  \A f \in Fid : Kept(f) \/ Free(f)
  <2>1. sending.fid \in Fid /\ Free(sending.fid)
    BY <1>11, TransferTyped DEF send_body, Counted, UploadUnlisted
  <2> QED
    BY <1>4, <1>11, <2>1 DEF send_body
<1>12. ASSUME NEW e \in Envs, NEW f \in Fid, js_file_discard(e, f)
       PROVE  \A g \in Fid : Kept(g)
  BY <1>2, <1>12 DEF js_file_discard, TypeOK
<1>13. CASE \/ sender_dies
            \/ \E e \in Envs : \/ new_env(e)
                               \/ \E f \in Fid :
                                    \/ js_fuzokugo_set(e, f)
                                    \/ \E h \in Fid \cup {-1} : js_dic_add(e, f, h)
                               \/ \E i \in 1 .. MaxJishoOfEnv : js_dic_delete(e, i)
            \/ UNCHANGED vars
  BY <1>13 DEF sender_dies, new_env, js_fuzokugo_set, js_dic_add, js_dic_delete,
               vars, filevars
<1> HIDE DEF Kept, Free
<1> QED
  BY <1>5, <1>6, <1>7, <1>8, <1>9, <1>10, <1>11, <1>12, <1>13
     DEF Next, Command, Transfer

\* Dictionaries, frequencies and grammars are different files.
LEMMA KindsDiffer ==
    /\ \A u : ~(u \in Dicts /\ u \in Fzks) /\ ~(u \in Dicts /\ u \in Hindos)
    /\ \A u : ~(u \in Hindos /\ u \in Fzks)
  BY ConstantsFit

\* Nothing is listed at the start.
LEMMA ListedInit == Init => Listed
<1> SUFFICES ASSUME Init, NEW e \in Envs
             PROVE  ListedIn(e)
  BY DEF Listed
<1>1. DicsOf(e) = {} /\ fzk_fid[e] = -1
  BY DEF Init, DicsOf
<1> QED
  BY <1>1 DEF ListedIn

(***************************************************************************)
(* JS_FILE_DISCARD of f: the fuzokugo file that was f is none; else the    *)
(* one dictionary that used f is gone.                                     *)
(***************************************************************************)
LEMMA DiscardListed ==
    ASSUME TypeOK, Counted, Owned, ~twice',
           NEW e \in Envs, NEW f \in Fid, ListedIn(e), js_file_discard(e, f),
           \A g \in file[e] : files'[g].uniq = files[g].uniq
    PROVE  ListedIn(e)'
<1>1. f \in file[e] /\ file'[e] = file[e] \ {f}
  BY DEF js_file_discard, TypeOK
<1>2. used_dic_fuzoku_delete(e, f)
  BY DEF js_file_discard
<1>3. fzk_fid'[e] = IF fzk_fid[e] = f THEN -1 ELSE fzk_fid[e]
  BY <1>2 DEF used_dic_fuzoku_delete, TypeOK
<1>4. fzk_fid'[e] # -1 => fzk_fid'[e] \in file'[e] /\ files'[fzk_fid'[e]].uniq \in Fzks
  BY <1>1, <1>3 DEF ListedIn
<1>5. /\ DicsOf(e)' \subseteq DicsOf(e)
      /\ \A d \in DicsOf(e)' : /\ dic_table'[d] = dic_table[d]
                               /\ dic_table[d].body # f /\ dic_table[d].hindo # f
  <2>1. CASE /\ fzk_fid[e] = f \/ Using(e, f) = {}
             /\ dic_table' = dic_table /\ DicsOf(e)' = DicsOf(e)
    <3>1. CASE fzk_fid[e] = f
      <4>1. files[f].uniq \in Fzks
        BY <3>1, IndicesAreNaturals DEF ListedIn
      <4>2. \A d \in DicsOf(e) : DicListed(e, d)
        BY DEF ListedIn
      <4>3. \A d \in DicsOf(e) : dic_table[d].body # f
        BY <4>1, <4>2, KindsDiffer DEF DicListed
      <4>4. \A d \in DicsOf(e) : dic_table[d].hindo # f
        BY <4>1, <4>2, KindsDiffer, IndicesAreNaturals DEF DicListed
      <4> QED
        BY <2>1, <4>3, <4>4
    <3>2. CASE Using(e, f) = {}
      BY <2>1, <3>2 DEF Using, DicsOf
    <3> QED
      BY <2>1, <3>1, <3>2
  <2>2. ASSUME NEW d \in DicsOf(e),
               dic_table[d].body = f \/ dic_table[d].hindo = f,
               dic_table' = [dic_table EXCEPT ![d] = NoDic],
               DicsOf(e)' = DicsOf(e) \ {d}
        PROVE  /\ DicsOf(e)' \subseteq DicsOf(e)
               /\ \A c \in DicsOf(e)' : /\ dic_table'[c] = dic_table[c]
                                        /\ dic_table[c].body # f /\ dic_table[c].hindo # f
    <3>1. \A c \in DicsOf(e)' : c \in DicsOf(e) /\ c # d /\ dic_table'[c] = dic_table[c]
      BY <2>2, DicsTyped DEF TypeOK
    <3>2. \A c \in DicsOf(e) : DicListed(e, c)
      BY DEF ListedIn
    <3>3. \A c \in DicsOf(e) : dic_table[c].body = dic_table[d].body => c = d
      BY DEF ListedIn
    <3>4. CASE dic_table[d].body = f
      <4>1. files[f].uniq \in Dicts
        BY <3>2, <3>4 DEF DicListed
      <4>2. \A c \in DicsOf(e) : dic_table[c].hindo # f
        BY <3>2, <4>1, KindsDiffer, IndicesAreNaturals DEF DicListed
      <4> QED
        BY <3>1, <3>3, <3>4, <4>2
    <3>5. CASE dic_table[d].hindo = f
      <4>1. files[f].uniq \in Hindos
        BY <3>2, <3>5, IndicesAreNaturals DEF DicListed
      <4>2. \A c \in DicsOf(e) : dic_table[c].body # f
        BY <3>2, <4>1, KindsDiffer DEF DicListed
      <4>3. ASSUME NEW c \in DicsOf(e), dic_table[c].hindo = f
            PROVE  c = d
        <5>1. PICK i \in DOMAIN jisho[e], j \in DOMAIN jisho[e] : c = jisho[e][i] /\ d = jisho[e][j]
          BY <4>3 DEF DicsOf
        <5>2. ~HindoOfTwo(e, f)
          BY DEF js_file_discard
        <5> QED
          BY <3>5, <4>3, <5>1, <5>2 DEF HindoOfTwo
      <4> QED
        BY <3>1, <4>2, <4>3
    <3> QED
      BY <2>2, <3>1, <3>4, <3>5
  <2> QED
    BY <1>2, <2>1, <2>2, DiscardDeletes
<1>6. \A d \in DicsOf(e)' : DicListed(e, d)'
  <2> TAKE d \in DicsOf(e)'
  <2>1. /\ DicListed(e, d) /\ dic_table'[d] = dic_table[d]
        /\ dic_table[d].body # f /\ dic_table[d].hindo # f
    BY <1>5 DEF ListedIn
  <2> QED
    BY <1>1, <2>1 DEF DicListed
<1>7. \A c, d \in DicsOf(e)' : dic_table'[c].body = dic_table'[d].body => c = d
  BY <1>5 DEF ListedIn
<1> QED
  BY <1>4, <1>6, <1>7 DEF ListedIn

(***************************************************************************)
(* JS_DIC_ADD of a listed dictionary file, with a listed hindo file made   *)
(* for it or none.                                                         *)
(***************************************************************************)
LEMMA AddListed ==
    ASSUME TypeOK, Counted, Owned,
           NEW e \in Envs, NEW f \in Fid, NEW h \in Fid \cup {-1}, ListedIn(e),
           js_dic_add(e, f, h)
    PROVE  ListedIn(e)'
<1>1. files' = files /\ file' = file /\ fzk_fid' = fzk_fid /\ MayAdd(e, f, h)
  BY DEF js_dic_add
<1>2. /\ f \in file[e] /\ files[f].uniq \in Dicts
      /\ h # -1 => h \in file[e] /\ files[h].uniq \in Hindos
  BY <1>1 DEF MayAdd
<1>3. /\ \A d \in DicsOf(e) : DicListed(e, d)
      /\ \A c, d \in DicsOf(e) : dic_table[c].body = dic_table[d].body => c = d
  BY DEF ListedIn
<1>4. ASSUME NEW d \in DicsOf(e),
             dic_table[d].body = f,
             dic_table' = [dic_table EXCEPT ![d].hindo = h],
             DicsOf(e)' = DicsOf(e)
      PROVE  ListedIn(e)'
  <2>1. d \in DicNo /\ dic_table[d] \in DicEntry
    BY DicsTyped DEF TypeOK
  <2>2. /\ dic_table'[d].body = f /\ dic_table'[d].hindo = h
        /\ \A c \in DicsOf(e) \ {d} : dic_table'[c] = dic_table[c]
    BY <1>4, <2>1, DicsTyped DEF TypeOK, DicEntry
  <2>3. \A c \in DicsOf(e)' : DicListed(e, c)'
    BY <1>1, <1>2, <1>3, <1>4, <2>2 DEF DicListed
  <2>4. \A c, b \in DicsOf(e)' : dic_table'[c].body = dic_table'[b].body => c = b
    BY <1>3, <1>4, <2>2
  <2> QED
    BY <1>1, <2>3, <2>4 DEF ListedIn
<1>5. ASSUME NEW d \in DicNo,
             dic_table[d].body = -1,
             \A c \in DicsOf(e) : dic_table[c].body # f,
             dic_table' = [dic_table EXCEPT ![d] = [body |-> f, hindo |-> h]],
             DicsOf(e)' = DicsOf(e) \cup {d}
      PROVE  ListedIn(e)'
  <2>1. d \notin DicsOf(e)
    BY <1>5 DEF Owned
  <2>2. /\ dic_table'[d].body = f /\ dic_table'[d].hindo = h
        /\ \A c \in DicsOf(e) : dic_table'[c] = dic_table[c]
    BY <1>5, <2>1, DicsTyped DEF TypeOK
  <2>3. \A c \in DicsOf(e)' : DicListed(e, c)'
    BY <1>1, <1>2, <1>3, <1>5, <2>2 DEF DicListed
  <2>4. \A c, b \in DicsOf(e)' : dic_table'[c].body = dic_table'[b].body => c = b
    BY <1>3, <1>5, <2>2
  <2> QED
    BY <1>1, <2>3, <2>4 DEF ListedIn
<1> QED
  BY <1>4, <1>5, AddChanges

\* Every step keeps every file listed that a dictionary uses.
LEMMA ListedNext ==
    ASSUME TypeOK, Counted, Owned, Listed, [Next]_vars
    PROVE  Listed'
<1> SUFFICES ASSUME ~twice, ~twice', NEW g \in Envs
             PROVE  ListedIn(g)'
  <2>1. twice => twice'
    <3>1. CASE \E e \in Envs, f \in Fid : js_file_discard(e, f)
      BY <3>1 DEF js_file_discard
    <3>2. CASE ~\E e \in Envs, f \in Fid : js_file_discard(e, f)
      <4>1. UNCHANGED twice
        BY <3>2 DEF Next, Command, Transfer, new_env, del_env, free_env_files,
           file_already_read, js_file_read, js_file_send, send_header, send_bad_header,
           send_body, sender_dies, js_dic_add, js_dic_delete, js_fuzokugo_set, vars, filevars
      <4> QED
        BY <4>1
    <3> QED
      BY <3>1, <3>2
  <2> QED
    BY <2>1 DEF Listed
<1>1. /\ ListedIn(g)
      /\ \A e \in Envs : \A f \in file[e] : files'[f].uniq = files[f].uniq
  BY EntryKept DEF Listed
<1>2. ASSUME dic_table' = dic_table, jisho' = jisho, fzk_fid'[g] = fzk_fid[g],
             file[g] \subseteq file'[g]
      PROVE  ListedIn(g)'
  <2>1. DicsOf(g)' = DicsOf(g)
    BY <1>2 DEF DicsOf
  <2> QED
    BY <1>1, <1>2, <2>1, ListedInKept
<1>3. ASSUME NEW e \in Envs, del_env(e)
      PROVE  ListedIn(g)'
  <2>1. /\ DicsOf(e)' = {}
        /\ \A k \in Envs \ {e} : DicsOf(k)' = DicsOf(k)
    BY <1>3, DicsCleared DEF del_env, free_env_files
  <2>2. CASE g = e
    <3>1. fzk_fid'[g] = -1
      BY <1>3, <2>2 DEF del_env, free_env_files, TypeOK
    <3> QED
      BY <2>1, <2>2, <3>1 DEF ListedIn
  <2>3. CASE g # e
    <3>1. fzk_fid'[g] = fzk_fid[g] /\ file'[g] = file[g]
      BY <1>3, <2>3 DEF del_env, free_env_files, TypeOK
    <3>2. ASSUME NEW d \in DicsOf(g)
          PROVE  dic_table'[d] = dic_table[d]
      <4>1. d \in DicNo /\ d \notin DicsOf(e)
        BY <2>3, DicsTyped DEF Owned
      <4> QED
        BY <1>3, <4>1 DEF del_env, free_env_files, DicsOf
    <3> QED
      BY <1>1, <2>1, <2>3, <3>1, <3>2, ListedInKept
  <2> QED
    BY <2>2, <2>3
<1>4. ASSUME NEW e \in Envs, g # e, \A k \in Envs \ {e} : DicsOf(k)' = DicsOf(k),
             NEW d \in DicNo, d \in DicsOf(e) \/ dic_table[d].body = -1, NEW x,
             dic_table' = dic_table \/ dic_table' = [dic_table EXCEPT ![d] = x],
             file'[g] = file[g], fzk_fid'[g] = fzk_fid[g]
      PROVE  ListedIn(g)'
  <2>1. d \notin DicsOf(g)
    BY <1>4 DEF Owned
  <2>2. \A c \in DicsOf(g) : dic_table'[c] = dic_table[c]
    BY <1>4, <2>1, DicsTyped DEF TypeOK
  <2> QED
    BY <1>1, <1>4, <2>2, ListedInKept
<1>5. ASSUME NEW e \in Envs, NEW f \in Fid, js_file_discard(e, f)
      PROVE  ListedIn(g)'
  <2>1. CASE g = e
    BY <1>1, <1>5, <2>1, DiscardListed
  <2>2. CASE g # e
    <3>1. file'[g] = file[g] /\ fzk_fid'[g] = fzk_fid[g] /\ used_dic_fuzoku_delete(e, f)
      BY <1>5, <2>2 DEF js_file_discard, used_dic_fuzoku_delete, TypeOK
    <3>2. DicsOf(g)' = DicsOf(g) /\ \A k \in Envs \ {e} : DicsOf(k)' = DicsOf(k)
      BY <2>2, <3>1, DiscardDeletes
    <3>3. CASE dic_table' = dic_table
      BY <1>1, <3>1, <3>2, <3>3, ListedInKept
    <3>4. CASE \E d \in DicsOf(e) : dic_table' = [dic_table EXCEPT ![d] = NoDic]
      <4>1. PICK d \in DicsOf(e) : dic_table' = [dic_table EXCEPT ![d] = NoDic]
        BY <3>4
      <4>2. d \in DicNo
        BY DicsTyped
      <4> QED
        BY <1>4, <2>2, <3>1, <3>2, <4>1, <4>2
    <3> QED
      BY <3>1, <3>3, <3>4, DiscardDeletes
  <2> QED
    BY <2>1, <2>2
<1>6. ASSUME NEW e \in Envs, NEW f \in Fid, NEW h \in Fid \cup {-1}, js_dic_add(e, f, h)
      PROVE  ListedIn(g)'
  <2>1. CASE g = e
    BY <1>1, <1>6, <2>1, AddListed
  <2>2. CASE g # e
    <3>1. file'[g] = file[g] /\ fzk_fid'[g] = fzk_fid[g]
      BY <1>6 DEF js_dic_add
    <3>2. \A k \in Envs \ {e} : DicsOf(k)' = DicsOf(k)
      BY <1>6, AddChanges
    <3>3. PICK d \in DicNo :
            /\ d \in DicsOf(e) \/ dic_table[d].body = -1
            /\ \E x : dic_table' = [dic_table EXCEPT ![d] = x]
      <4>1. CASE \E d \in DicsOf(e) : dic_table' = [dic_table EXCEPT ![d].hindo = h]
        <5>1. PICK d \in DicsOf(e) :
                dic_table' = [dic_table EXCEPT ![d] = [dic_table[d] EXCEPT !.hindo = h]]
          BY <4>1
        <5> QED
          BY <5>1, DicsTyped
      <4>2. CASE \E d \in DicNo :
                   /\ dic_table[d].body = -1
                   /\ dic_table' = [dic_table EXCEPT ![d] = [body |-> f, hindo |-> h]]
        BY <4>2
      <4>3. \/ \E d \in DicsOf(e) : dic_table' = [dic_table EXCEPT ![d].hindo = h]
            \/ \E d \in DicNo :
                 /\ dic_table[d].body = -1
                 /\ dic_table' = [dic_table EXCEPT ![d] = [body |-> f, hindo |-> h]]
        BY <1>6, AddChanges
      <4> QED
        BY <4>1, <4>2, <4>3
    <3> QED
      BY <1>4, <2>2, <3>1, <3>2, <3>3
  <2> QED
    BY <2>1, <2>2
<1>7. ASSUME NEW e \in Envs, NEW i \in 1 .. MaxJishoOfEnv, js_dic_delete(e, i)
      PROVE  ListedIn(g)'
  <2>1. PICK d \in DicsOf(e) :
          /\ d \in DicNo
          /\ dic_table' = [dic_table EXCEPT ![d] = NoDic]
          /\ DicsOf(e)' = DicsOf(e) \ {d}
          /\ \A k \in Envs \ {e} : DicsOf(k)' = DicsOf(k)
    <3>1. i \in DOMAIN jisho[e] /\ jisho[e][i] \in DicsOf(e) /\ jisho[e][i] \in DicNo
      BY <1>7, DicsTyped DEF js_dic_delete, DicsOf
    <3> QED
      BY <1>7, <3>1, DicDeleted DEF js_dic_delete
  <2>2. files' = files /\ file' = file /\ fzk_fid' = fzk_fid
    BY <1>7 DEF js_dic_delete
  <2>3. CASE g # e
    BY <1>4, <2>1, <2>2, <2>3
  <2>4. CASE g = e
    <3>1. \A c \in DicsOf(g)' : c \in DicsOf(g) /\ dic_table'[c] = dic_table[c]
      BY <2>1, <2>4, DicsTyped DEF TypeOK
    <3>2. \A c \in DicsOf(g)' : DicListed(g, c)'
      BY <1>1, <2>2, <3>1 DEF ListedIn, DicListed
    <3>3. \A b, c \in DicsOf(g)' : dic_table'[b].body = dic_table'[c].body => b = c
      BY <1>1, <3>1 DEF ListedIn
    <3> QED
      BY <1>1, <2>2, <3>2, <3>3 DEF ListedIn
  <2> QED
    BY <2>3, <2>4
<1>8. ASSUME NEW e \in Envs, NEW f \in Fid, js_fuzokugo_set(e, f)
      PROVE  ListedIn(g)'
  <2>1. CASE g # e
    <3>1. fzk_fid'[g] = fzk_fid[g]
      BY <1>8, <2>1 DEF js_fuzokugo_set, TypeOK
    <3> QED
      BY <1>2, <1>8, <3>1 DEF js_fuzokugo_set
  <2>2. CASE g = e
    <3>1. /\ fzk_fid'[g] = f /\ f \in file[g] /\ files[f].uniq \in Fzks
          /\ UNCHANGED <<files, file, dic_table, jisho>>
      BY <1>8, <2>2 DEF js_fuzokugo_set, TypeOK
    <3>2. DicsOf(g)' = DicsOf(g)
      BY <3>1 DEF DicsOf
    <3>3. \A d \in DicsOf(g) : DicListed(g, d)'
      BY <1>1, <3>1 DEF ListedIn, DicListed
    <3>4. \A c, d \in DicsOf(g) : dic_table[c].body = dic_table[d].body => c = d
      BY <1>1 DEF ListedIn
    <3> QED
      BY <3>1, <3>2, <3>3, <3>4 DEF ListedIn
  <2> QED
    BY <2>1, <2>2
<1>9. ASSUME NEW e \in Envs, NEW u \in Uniqs, file_already_read(e, u)
      PROVE  ListedIn(g)'
  <2>1. file[g] \subseteq file'[g]
    BY <1>9 DEF file_already_read, TypeOK
  <2> QED
    BY <1>2, <1>9, <2>1 DEF file_already_read
<1>10. ASSUME NEW e, NEW f, NEW u, add_read_file(e, f, u) \/ fail_read_file(f, u)
       PROVE  file[g] \subseteq file'[g]
  <2>1. file' = file \/ file' = [file EXCEPT ![e] = @ \cup {f}]
    BY <1>10 DEF add_read_file, fail_read_file
  <2>2. file \in [Envs -> SUBSET Fid]
    BY DEF TypeOK
  <2> QED
    BY <2>1, <2>2
<1>11. ASSUME NEW e \in Envs, NEW u \in Uniqs, js_file_read(e, u)
       PROVE  ListedIn(g)'
  BY <1>2, <1>10, <1>11 DEF js_file_read
<1>12. ASSUME send_body
       PROVE  ListedIn(g)'
  BY <1>2, <1>10, <1>12 DEF send_body
<1>13. CASE \/ \E e \in Envs : \/ new_env(e)
                               \/ \E u \in Uniqs : js_file_send(e, u)
            \/ send_header \/ send_bad_header \/ sender_dies \/ UNCHANGED vars
  <2>1. UNCHANGED <<dic_table, jisho, fzk_fid, file>>
    BY <1>13 DEF new_env, js_file_send, send_header, send_bad_header, sender_dies,
                 vars, filevars
  <2> QED
    BY <1>2, <2>1
<1> QED
  BY <1>3, <1>5, <1>6, <1>7, <1>8, <1>9, <1>11, <1>12, <1>13
     DEF Next, Command, Transfer

(***************************************************************************)
(* The strengthened invariant holds in every instance.                     *)
(***************************************************************************)
THEOREM Invariance == Spec => []IInv
<1>1. Init => IInv
  BY TypeInit, CountedInit, OwnedInit, WholeInit, ListedInit DEF IInv
<1>2. IInv /\ [Next]_vars => IInv'
  BY TypeNext, CountedNext, OwnedNext, WholeNext, ListedNext DEF IInv
<1> QED
  BY <1>1, <1>2, PTL DEF Spec

(***************************************************************************)
(* As long as no frequency file was discarded that two dictionaries of an  *)
(* environment used, the files the dictionaries of an environment are made *)
(* of, and its fuzokugo file, are files it lists, also after a client has  *)
(* died in the middle of JS_FILE_SEND, for every instance.                 *)
(***************************************************************************)
THEOREM FilesListed == Spec => []DicFilesListed
<1>1. IInv => DicFilesListed
  BY DEF IInv, TypeOK, Listed, ListedIn, DicListed, DicFilesListed, DicsOf
<1> QED
  BY <1>1, Invariance, PTL

----------------------------------------------------------------------------
(***************************************************************************)
(* What a file holds once nobody lists it.  As long as an environment has  *)
(* room for every file it does not list yet, a file that is read is listed *)
(* by the environment it is read for, and its contents are freed when the  *)
(* last environment stops listing it; what may stay is a fuzokugo file,    *)
(* which discardfile does not free.  This is not an invariant without      *)
(* room: js_file_read then leaves a file with contents that nobody lists.  *)
(***************************************************************************)
RoomToList == \A e \in Envs : HasRoom(e) \/ file[e] = Fid

MayStay == Fzks \cup {Null}

AreasFreed ==
    /\ \A f \in Fid : files[f].uniq \in Fzks => files[f].area \in MayStay
    /\ \A f \in Fid \ Resident : Users(f) = {} => files[f].area \in MayStay

\* No area is allocated at the start.
LEMMA AreasFreedInit == Init => AreasFreed
<1> SUFFICES ASSUME Init PROVE AreasFreed
  OBVIOUS
<1>1. \A f \in Fid : files[f].area = files[f].uniq
  BY DEF Init
<1>2. \A f \in Fid \ Resident : files[f].area = Null
  BY DEF Init
<1> QED
  BY <1>1, <1>2 DEF AreasFreed, MayStay

(***************************************************************************)
(* A free entry, or the one of an upload, gets a file, or is given back.   *)
(***************************************************************************)
LEMMA AreaWhenRead ==
    ASSUME TypeOK, Counted, AreasFreed, RoomToList,
           NEW f \in Fid, files[f].ref_count \in {-1, 0},
           NEW e \in alive, NEW u \in Uniqs,
           add_read_file(e, f, u) \/ fail_read_file(f, u), alive' = alive
    PROVE  AreasFreed'
<1>1. Users(f) = {} /\ f \notin Resident /\ \A g \in Envs : f \notin file[g]
  BY Unlisted DEF Counted
<1>2. alive \subseteq Envs /\ file \in [Envs -> SUBSET Fid]
  BY DEF TypeOK
<1>3. HasRoom(e)
  BY <1>1, <1>2 DEF RoomToList
<1>4. \A g \in Fid \ {f} : files'[g] = files[g] /\ Users(g)' = Users(g)
  <2>1. \A g \in Fid \ {f} : files'[g] = files[g]
    BY DEF add_read_file, fail_read_file, TypeOK
  <2>2. \A g \in Fid \ {f} : Users(g)' = Users(g)
    BY <1>2 DEF add_read_file, fail_read_file, Users
  <2> QED
    BY <2>1, <2>2
<1>5. CASE add_read_file(e, f, u)
  <2>1. files'[f].uniq = u /\ files'[f].area = u /\ e \in Users(f)'
    BY <1>2, <1>3, <1>5 DEF add_read_file, Users, TypeOK
  <2> QED
    BY <1>4, <2>1 DEF AreasFreed, MayStay
<1>6. CASE fail_read_file(f, u)
  <2>1. files'[f].area = Null
    BY <1>6 DEF fail_read_file, TypeOK
  <2> QED
    BY <1>4, <2>1 DEF AreasFreed, MayStay
<1> QED
  BY <1>5, <1>6

(***************************************************************************)
(* An environment stops listing some files.                                *)
(***************************************************************************)
LEMMA AreaWhenReleased ==
    ASSUME TypeOK, Counted, AreasFreed,
           NEW e \in alive, NEW S \in SUBSET file[e],
           files' = [f \in Fid |-> IF f \in S THEN released(files[f]) ELSE files[f]],
           \A f \in Fid : Users(f)' = Users(f) \ (IF f \in S THEN {e} ELSE {})
    PROVE  AreasFreed'
<1>1. \A f \in Fid \ S : files'[f] = files[f] /\ Users(f)' = Users(f)
  OBVIOUS
<1>2. ASSUME NEW f \in S
      PROVE  /\ f \in Fid /\ f \in Loaded /\ e \in Users(f)
             /\ files'[f].uniq = files[f].uniq
             /\ files[f].ref_count # 1 => files'[f].area = files[f].area
             /\ files[f].ref_count = 1 /\ files[f].uniq \in Fzks =>
                  files'[f].area = files[f].area
             /\ files[f].ref_count = 1 /\ files[f].uniq \notin Fzks =>
                  files'[f].area = Null
  <2>1. f \in Loaded /\ e \in Users(f)
    BY DEF Counted, FileRefCount, Users
  <2>2. f \in Fid /\ files[f] \in FileEntry
    BY <2>1 DEF Loaded, TypeOK
  <2>3. files'[f] = released(files[f])
    BY <2>2
  <2> QED
    BY <2>1, <2>2, <2>3 DEF released, discarded, FileEntry
<1>3. \A f \in Fid : files'[f].uniq \in Fzks => files'[f].area \in MayStay
  <2> SUFFICES ASSUME NEW f \in Fid, files'[f].uniq \in Fzks
               PROVE  files'[f].area \in MayStay
    OBVIOUS
  <2> QED
    BY <1>1, <1>2 DEF AreasFreed
<1>4. ASSUME NEW f \in Fid \ Resident, Users(f)' = {}
      PROVE  files'[f].area \in MayStay
  <2>1. CASE f \in S
    <3>1. Users(f) = {e}
      BY <1>2, <1>4, <2>1
    <3>2. files[f].ref_count = 1
      <4>1. Cardinality(Users(f)) = 1
        BY <3>1, FS_Singleton
      <4>2. files[f].ref_count = Cardinality(Users(f)) + (IF f \in Resident THEN 1 ELSE 0)
        BY <1>2, <2>1 DEF Counted, FileRefCount
      <4> QED
        BY <4>1, <4>2
    <3> QED
      BY <1>2, <2>1, <3>2 DEF AreasFreed, MayStay
  <2>2. CASE f \notin S
    BY <1>1, <1>4, <2>2 DEF AreasFreed
  <2> QED
    BY <2>1, <2>2
<1> QED
  BY <1>3, <1>4 DEF AreasFreed

(***************************************************************************)
(* Nothing is freed, and no environment stops listing a file.              *)
(***************************************************************************)
LEMMA AreaOtherwise ==
    ASSUME AreasFreed,
           \A f \in Fid : files'[f].area = files[f].area /\ Users(f) \subseteq Users(f)',
           \A f \in Fid : files'[f].uniq = files[f].uniq \/ files[f].area \in MayStay
    PROVE  AreasFreed'
<1>1. \A f \in Fid : files'[f].uniq \in Fzks => files'[f].area \in MayStay
  BY DEF AreasFreed
<1>2. \A f \in Fid \ Resident : Users(f)' = {} => files'[f].area \in MayStay
  BY DEF AreasFreed
<1> QED
  BY <1>1, <1>2 DEF AreasFreed

\* Every step frees the areas it takes out of the table.
LEMMA AreasFreedNext ==
    ASSUME TypeOK, Counted, AreasFreed, RoomToList, [Next]_vars
    PROVE  AreasFreed'
<1>1. alive \subseteq Envs /\ file \in [Envs -> SUBSET Fid] /\ files \in [Fid -> FileEntry]
  BY DEF TypeOK
<1>2. ASSUME NEW e \in Envs, del_env(e)
      PROVE  AreasFreed'
  <2>1. /\ e \in alive /\ alive' \in {alive, alive \ {e}}
        /\ file' = [file EXCEPT ![e] = {}]
        /\ files' = [f \in Fid |-> IF f \in file[e] THEN released(files[f]) ELSE files[f]]
    BY <1>2 DEF del_env, free_env_files
  <2>2. \A f \in Fid : Users(f)' = Users(f) \ (IF f \in file[e] THEN {e} ELSE {})
    BY <1>1, <2>1 DEF Users
  <2> QED
    BY <2>1, <2>2, AreaWhenReleased
<1>3. ASSUME NEW e \in Envs, NEW f \in Fid, js_file_discard(e, f)
      PROVE  AreasFreed'
  <2>1. /\ e \in alive /\ alive' = alive /\ f \in file[e]
        /\ file' = [file EXCEPT ![e] = @ \ {f}]
        /\ files' = [files EXCEPT ![f] = released(@)]
    BY <1>3 DEF js_file_discard, MayUse
  <2>2. files' = [g \in Fid |-> IF g \in {f} THEN released(files[g]) ELSE files[g]]
    BY <2>1 DEF TypeOK
  <2>3. \A g \in Fid : Users(g)' = Users(g) \ (IF g \in {f} THEN {e} ELSE {})
    BY <1>1, <2>1 DEF Users
  <2>4. {f} \in SUBSET file[e]
    BY <2>1
  <2> QED
    BY <2>1, <2>2, <2>3, <2>4, AreaWhenReleased
<1>4. ASSUME NEW e \in Envs, NEW u \in Uniqs, js_file_read(e, u)
      PROVE  AreasFreed'
  <2>1. PICK f \in Fid : f = get_new_fid /\ files[f].ref_count = -1
    BY <1>4, SearchesFind DEF js_file_read, Loaded
  <2> QED
    BY <1>4, <2>1, AreaWhenRead DEF js_file_read, MayUse
<1>5. ASSUME send_body
      PROVE  AreasFreed'
  <2>1. PICK f \in Fid : f = sending.fid /\ files[f].ref_count = 0
    BY <1>5, TransferTyped DEF send_body, Counted, UploadUnlisted
  <2>2. sending.env \in alive /\ sending.uniq \in Uniqs
    BY <1>5, TransferTyped DEF send_body, Counted, UploadUnlisted
  <2> QED
    BY <1>5, <2>1, <2>2, AreaWhenRead DEF send_body
<1>6. ASSUME send_header
      PROVE  AreasFreed'
  <2>1. PICK f \in Fid : f = sending.fid /\ files[f].ref_count = 0
    BY <1>6, TransferTyped DEF send_header, Counted, UploadUnlisted
  <2>2. Users(f) = {} /\ f \notin Resident
    BY <2>1, Unlisted DEF Counted
  <2>3. files[f].area \in MayStay
    BY <2>2 DEF AreasFreed
  <2>4. \A g \in Fid : /\ files'[g].area = files[g].area
                       /\ g # f => files'[g].uniq = files[g].uniq
    BY <1>1, <1>6, <2>1 DEF send_header, FileEntry
  <2>5. \A g \in Fid : Users(g)' = Users(g)
    BY <1>6 DEF send_header, Users
  <2> QED
    BY <2>3, <2>4, <2>5, AreaOtherwise
<1>7. ASSUME \A f \in Fid : files'[f].area = files[f].area /\ files'[f].uniq = files[f].uniq,
             alive \subseteq alive', \A e \in alive : file[e] \subseteq file'[e]
      PROVE  AreasFreed'
  <2>1. \A f \in Fid : Users(f) \subseteq Users(f)'
    BY <1>7 DEF Users
  <2> QED
    BY <1>7, <2>1, AreaOtherwise
<1>8. ASSUME NEW f \in Fid, NEW n \in Int, files' = [files EXCEPT ![f].ref_count = n]
      PROVE  \A g \in Fid : files'[g].area = files[g].area /\ files'[g].uniq = files[g].uniq
  BY <1>1, <1>8 DEF FileEntry
<1>9. ASSUME NEW e \in Envs, NEW u \in Uniqs, file_already_read(e, u)
      PROVE  AreasFreed'
  <2>1. PICK f \in Fid : f = find_file_by_uniq(u)
    BY <1>9, SearchesFind DEF file_already_read, WithUniq, Loaded
  <2>2. files' = [files EXCEPT ![f].ref_count = files[f].ref_count + 1]
    BY <1>9, <2>1 DEF file_already_read
  <2>3. files[f].ref_count + 1 \in Int
    BY <1>1 DEF FileEntry
  <2>4. alive' = alive /\ \A g \in alive : file[g] \subseteq file'[g]
    BY <1>1, <1>9 DEF file_already_read
  <2> QED
    BY <1>7, <1>8, <2>2, <2>3, <2>4
<1>10. ASSUME NEW e \in Envs, NEW u \in Uniqs, js_file_send(e, u)
       PROVE  AreasFreed'
  <2>1. PICK f \in Fid : f = get_new_fid
    BY <1>10, SearchesFind DEF js_file_send
  <2>2. files' = [files EXCEPT ![f].ref_count = 0] /\ alive' = alive /\ file' = file
    BY <1>10, <2>1 DEF js_file_send
  <2> QED
    BY <1>7, <1>8, <2>2
<1>11. ASSUME send_bad_header
       PROVE  AreasFreed'
  <2>1. sending.fid \in Fid
    BY <1>11, TransferTyped DEF send_bad_header
  <2>2. files' = [files EXCEPT ![sending.fid].ref_count = -1] /\ alive' = alive /\ file' = file
    BY <1>11 DEF send_bad_header
  <2> QED
    BY <1>7, <1>8, <2>1, <2>2
<1>12. ASSUME NEW e \in Envs, new_env(e)
       PROVE  AreasFreed'
  BY <1>7, <1>12 DEF new_env, filevars
<1>13. CASE \/ \E e \in Envs : \/ \E f \in Fid : js_fuzokugo_set(e, f)
                               \/ \E f \in Fid, h \in Fid \cup {-1} : js_dic_add(e, f, h)
                               \/ \E i \in 1 .. MaxJishoOfEnv : js_dic_delete(e, i)
            \/ sender_dies \/ UNCHANGED vars
  <2>1. UNCHANGED <<alive, files, file>>
    BY <1>13 DEF js_fuzokugo_set, js_dic_add, js_dic_delete, sender_dies, vars, filevars
  <2> QED
    BY <1>7, <2>1
<1> QED
  BY <1>2, <1>3, <1>4, <1>5, <1>6, <1>9, <1>10, <1>11, <1>12, <1>13
     DEF Next, Command, Transfer

(***************************************************************************)
(* Entries of dic_table[] in use are somebody's: none is left when no      *)
(* environment is.  With AreasFreed, nothing is.                           *)
(***************************************************************************)
LEMMA NothingLeft ==
    ASSUME IInv, alive = {}
    PROVE  /\ \A f : Users(f) = {}
           /\ \A d \in DicNo : dic_table[d].body = -1
<1>1. \A e \in Envs : DicsOf(e) = {}
  BY DEF IInv, Counted, NothingWhenDead, DicsOf
<1> QED
  BY <1>1 DEF IInv, Owned, Users

(***************************************************************************)
(* In every behaviour in which no environment is full while there is a     *)
(* file it does not list, what nobody lists has been freed.                *)
(***************************************************************************)
THEOREM FreedWhenUnlisted == Spec /\ []RoomToList => []AreasFreed
<1>1. Init => AreasFreed
  BY AreasFreedInit
<1>2. IInv /\ RoomToList /\ AreasFreed /\ [Next]_vars => AreasFreed'
  BY AreasFreedNext DEF IInv
<1> QED
  BY <1>1, <1>2, Invariance, PTL DEF Spec

==============================================================================
