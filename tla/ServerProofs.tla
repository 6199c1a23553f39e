----------------------------- MODULE ServerProofs -----------------------------
(***************************************************************************)
(* Proofs about Server: the server with all its tables implements EnvTable *)
(* and FileTable, so that what is proved of each holds of the whole.       *)
(***************************************************************************)
EXTENDS Server, EnvTableProofs

FTP == INSTANCE FileTableProofs WITH Envs <- EnvId, alive <- Live(env)

----------------------------------------------------------------------------
(***************************************************************************)
(* FTP is FT with its proofs: the two instances have their own copies of   *)
(* the library's operators, which are the same.                            *)
(***************************************************************************)
LEMMA SameLibrary ==
    /\ \A S : FTP!Cardinality(S) = FT!Cardinality(S)
    /\ \A S : FTP!IsFiniteSet(S) = FT!IsFiniteSet(S)
<1>1. \A S : FTP!Cardinality(S) = FT!Cardinality(S)
  BY DEF FTP!Cardinality, FT!Cardinality
<1>2. \A S : FTP!IsFiniteSet(S) = FT!IsFiniteSet(S)
  BY DEF FTP!IsFiniteSet, FT!IsFiniteSet
<1> QED
  BY <1>1, <1>2

\* The assumption on the constants, by the two names of FileTable.
LEMMA SameFits == FTP!ConstantsFit
  BY FilesFit, SameLibrary DEF FT!ConstantsFit, FTP!ConstantsFit, FT!Uniqs, FTP!Uniqs,
     FT!Resident, FTP!Resident

\* The initial states, by the two names of FileTable.
LEMMA SameInit == FT!Init => FTP!Init
  BY DEF FT!Init, FTP!Init, FT!Fid, FTP!Fid, FT!DicNo, FTP!DicNo, FT!Resident,
     FTP!Resident, FT!NoDic, FTP!NoDic, FT!NotSending, FTP!NotSending

\* The steps, by the two names of FileTable.
LEMMA SameNext == [FT!Next]_(FT!vars) <=> [FTP!Next]_(FTP!vars)
  BY DEF FT!Next, FTP!Next, FT!Command, FTP!Command, FT!Transfer,
     FTP!Transfer, FT!new_env, FTP!new_env, FT!del_env, FTP!del_env,
     FT!free_env_files, FTP!free_env_files, FT!file_already_read,
     FTP!file_already_read, FT!js_file_read, FTP!js_file_read,
     FT!js_file_send, FTP!js_file_send, FT!send_header, FTP!send_header,
     FT!send_bad_header, FTP!send_bad_header, FT!send_body, FTP!send_body,
     FT!sender_dies, FTP!sender_dies, FT!js_file_discard, FTP!js_file_discard,
     FT!js_dic_add, FTP!js_dic_add, FT!js_dic_delete, FTP!js_dic_delete,
     FT!js_fuzokugo_set, FTP!js_fuzokugo_set, FT!vars, FTP!vars, FT!filevars,
     FTP!filevars, FT!add_read_file, FTP!add_read_file, FT!fail_read_file,
     FTP!fail_read_file, FT!used_dic_fuzoku_delete,
     FTP!used_dic_fuzoku_delete, FT!del_dic_from_env, FTP!del_dic_from_env,
     FT!MayAdd, FTP!MayAdd, FT!MayUse, FTP!MayUse, FT!Idling, FTP!Idling,
     FT!NotSending, FTP!NotSending, FT!released, FTP!released, FT!discarded,
     FTP!discarded, FT!FreeDics, FTP!FreeDics, FT!NoDic, FTP!NoDic, FT!First,
     FTP!First, FT!WithBody, FTP!WithBody, FT!Using, FTP!Using, FT!HindoOfTwo,
     FTP!HindoOfTwo, FT!HasRoom,
     FTP!HasRoom, FT!get_new_fid, FTP!get_new_fid, FT!find_file_by_uniq,
     FTP!find_file_by_uniq, FT!WithUniq, FTP!WithUniq, FT!Loaded, FTP!Loaded,
     FT!Fid, FTP!Fid, FT!DicNo, FTP!DicNo, FT!Uniqs, FTP!Uniqs,
     FT!Cardinality, FTP!Cardinality

----------------------------------------------------------------------------
(***************************************************************************)
(* Every step of the server is a step of EnvTable, or leaves its variables *)
(* alone.                                                                  *)
(***************************************************************************)
LEMMA StepOfEnvTable ==
    ASSUME IInv, [ServerNext]_servervars
    PROVE  [Next]_vars
<1>1. CASE EnvStep
  BY <1>1 DEF EnvStep
<1>2. CASE UNCHANGED vars
  BY <1>2
<1>3. CASE \E c \in Clients, e \in EnvId : FileStep(c, e)
  BY <1>3 DEF FileStep
<1>4. CASE TransferStep
  BY <1>4 DEF TransferStep
<1>5. CASE SenderDies
  <2>1. sender \in Clients /\ del_client(sender)
    BY <1>5 DEF SenderDies, del_client, MayCommand, IInv, TypeOK
  <2> QED
    BY <2>1 DEF Next
<1>6. UNCHANGED servervars => UNCHANGED vars
  BY DEF servervars
<1> QED
  BY <1>1, <1>2, <1>3, <1>4, <1>5, <1>6 DEF ServerNext

\* The server with both its tables does what EnvTable says of environments.
THEOREM ImplementsEnvTable == ServerSpec => Spec
<1>1. ServerInit => Init
  BY DEF ServerInit
<1>2. IInv /\ [ServerNext]_servervars => [Next]_vars
  BY StepOfEnvTable
<1> QED
  BY <1>1, <1>2, InitEstablishes, NextPreserves, PTL DEF ServerSpec, Spec

(***************************************************************************)
(* With its files and dictionaries, too, the server keeps the promise of   *)
(* Leases: also when a client dies in the middle of sending a file.        *)
(***************************************************************************)
THEOREM ServesLeases == ServerSpec => ImplementsLeases
BY ImplementsEnvTable, EnvironmentsAreLeases, PTL

(***************************************************************************)
(* What a step of EnvTable does to the set of environments: it stays, one  *)
(* goes, or, when none is freed, one comes.                                *)
(***************************************************************************)
LEMMA LiveAfter ==
    ASSUME IInv, NEW y \in EnvId, NEW x, env' = [env EXCEPT ![y] = x]
    PROVE  Live(env') = IF x = NULL THEN Live(env) \ {y} ELSE Live(env) \cup {y}
<1>1. env \in [EnvId -> Env]
  BY DEF IInv, TypeOK
<1>2. \A e \in EnvId : env'[e] = IF e = y THEN x ELSE env[e]
  BY <1>1
<1> QED
  BY <1>2 DEF Live

\* Changing one counter of an environment changes nothing else of it.
LEMMA CountedRecord ==
    ASSUME NEW x \in Env, NEW n \in Int
    PROVE  /\ [x EXCEPT !.ref_count = n].ref_count = n
           /\ [x EXCEPT !.sticky = n].ref_count = x.ref_count
           /\ n >= 0 => [x EXCEPT !.ref_count = n] # NULL
           /\ x.ref_count >= 0 => [x EXCEPT !.sticky = n] # NULL
<1>1. /\ [x EXCEPT !.ref_count = n].ref_count = n
      /\ [x EXCEPT !.sticky = n].ref_count = x.ref_count
  BY DEF Env
<1>2. NULL.ref_count = -1
  BY DEF NULL
<1>3. ASSUME NEW r, r.ref_count # -1
      PROVE  r # NULL
  BY <1>2, <1>3
<1>4. x.ref_count \in Int
  BY DEF Env
<1>5. n >= 0 => [x EXCEPT !.ref_count = n] # NULL
  <2>1. n >= 0 => n # -1
    OBVIOUS
  <2>2. n >= 0 => [x EXCEPT !.ref_count = n].ref_count # -1
    BY <1>1, <2>1
  <2> QED
    BY <1>3, <2>2, Zenon
<1>6. x.ref_count >= 0 => [x EXCEPT !.sticky = n] # NULL
  <2>1. x.ref_count >= 0 => x.ref_count # -1
    BY <1>4
  <2>2. x.ref_count >= 0 => [x EXCEPT !.sticky = n].ref_count # -1
    BY <1>1, <2>1
  <2> QED
    BY <1>3, <2>2, Zenon
<1> QED
  BY <1>1, <1>5, <1>6

\* A disconnection frees at most one environment.
LEMMA LiveAfterDisconnect ==
    ASSUME IInv, NEW e \in EnvId, Holders(e) # {}, disconnect(e)
    PROVE  \E y \in EnvId : Live(env') \in {Live(env), Live(env) \ {y}}
<1> USE DEF IInv
<1>1. /\ env \in [EnvId -> Env] /\ sticky_time \in Nat /\ NULL.ref_count = -1
      /\ e \in Live(env) /\ env[e].ref_count > 0 /\ env[e].ref_count \in Int
  BY CountsOfHolders DEF TypeOK, NULL, Live, Env
<1>2. CASE env' = [env EXCEPT ![e].ref_count = @ - 1] /\ ~LastClient(e)
  <2>1. env' = [env EXCEPT ![e] = [env[e] EXCEPT !.ref_count = env[e].ref_count - 1]]
    BY <1>2
  <2>2. env[e] \in Env /\ env[e].ref_count - 1 \in Int /\ env[e].ref_count - 1 >= 0
    BY <1>1, <1>2 DEF LastClient
  <2>3. [env[e] EXCEPT !.ref_count = env[e].ref_count - 1] # NULL
    BY <2>2, CountedRecord
  <2>4. Live(env') = Live(env) \cup {e}
    BY <2>1, <2>3, LiveAfter
  <2> QED
    BY <1>1, <2>4
<1>3. CASE env' = [env EXCEPT ![e] = NULL]
  <2>1. Live(env') = Live(env) \ {e}
    BY <1>3, LiveAfter
  <2> QED
    BY <2>1
<1>4. CASE env' = released(e) \/ env' = [released(e) EXCEPT ![last_sticky(released(e))] = NULL]
  <2> DEFINE idle == [name |-> env[e].name, ref_count |-> 0, sticky |-> sticky_time + 1]
  <2>1. released(e) = [env EXCEPT ![e] = idle] /\ idle.ref_count = 0
    BY DEF released
  <2>2. idle # NULL
    BY <1>1, <2>1
  <2> HIDE DEF idle
  <2>3. \A f \in EnvId : released(e)[f] = IF f = e THEN idle ELSE env[f]
    BY <1>1, <2>1
  <2>4. Live(released(e)) = Live(env)
    BY <1>1, <2>2, <2>3 DEF Live
  <2>5. CASE env' = released(e)
    BY <2>4, <2>5
  <2>6. CASE env' = [released(e) EXCEPT ![last_sticky(released(e))] = NULL]
    <3> DEFINE tab == released(e)
               y == last_sticky(tab)
    <3>1. tab \in [EnvId -> Env] /\ e \in Idle(tab)
      <4>1. idle \in Env
        BY <1>1 DEF Env, idle
      <4> QED
        BY <1>1, <2>1, <2>3, <4>1 DEF Idle
    <3>2. y \in EnvId
      <4> HIDE DEF tab
      <4>1. y \in Idle(tab)
        BY <3>1, LastStickyIsOldest
      <4> QED
        BY <4>1 DEF Idle
    <3>3. \A f \in EnvId : env'[f] = IF f = y THEN NULL ELSE tab[f]
      <4> HIDE DEF y
      <4> QED
        BY <2>6, <3>1 DEF y
    <3>4. Live(env') = Live(tab) \ {y}
      <4> HIDE DEF tab, y
      <4> QED
        BY <3>3 DEF Live
    <3> QED
      BY <2>4, <3>2, <3>4
  <2> QED
    BY <1>4, <2>5, <2>6
<1> QED
  BY <1>2, <1>3, <1>4 DEF disconnect

\* A step of a client makes or frees at most one environment.
LEMMA LiveChanges ==
    ASSUME IInv, Next
    PROVE  \E y \in EnvId :
             \/ Live(env') \in {Live(env), Live(env) \ {y}}
             \/ y \notin Live(env) /\ Live(env') = Live(env) \cup {y} /\ Freed = {}
<1> USE DEF IInv
<1>1. /\ env \in [EnvId -> Env] /\ NULL.ref_count = -1 /\ EnvId # {}
      /\ \A e \in Live(env) : env[e].ref_count >= 0 /\ env[e].ref_count \in Int
  <2>1. env \in [EnvId -> Env] /\ NULL.ref_count = -1
    BY DEF TypeOK, NULL
  <2>2. 0 \in EnvId
    BY ConstAssumption DEF EnvId
  <2>3. \A e \in EnvId : env[e].ref_count \in Int
    BY <2>1 DEF Env
  <2>4. \A e \in Live(env) : env[e].ref_count >= 0
    BY CountsOfHolders DEF Live
  <2> QED
    BY <2>1, <2>2, <2>3, <2>4 DEF Live
<1>2. CASE env' = env
  BY <1>1, <1>2
<1>3. ASSUME NEW c \in Clients, NEW n \in Names \cup {NoName}, js_connect_old(c, n)
      PROVE  \E y \in EnvId : Live(env') = Live(env)
  <2>1. PICK y \in Live(env) : env' = [env EXCEPT ![y].ref_count = @ + 1]
    BY <1>3, SearchesFind DEF js_connect_old, NamedEnvs
  <2>2. y \in EnvId
    BY DEF Live
  <2>3. env[y] \in Env /\ env[y].ref_count + 1 \in Int /\ env[y].ref_count + 1 >= 0
    BY <1>1, <2>2
  <2>4. [env[y] EXCEPT !.ref_count = env[y].ref_count + 1] # NULL
    BY <2>3, CountedRecord
  <2>5. Live(env') = Live(env) \cup {y}
    BY <2>1, <2>2, <2>4, LiveAfter
  <2> QED
    BY <2>2, <2>5
<1>4. ASSUME NEW c \in Clients, NEW n \in Names \cup {NoName}, js_connect_new(c, n)
      PROVE  \E y \in EnvId :
               \/ Live(env') \in {Live(env), Live(env) \ {y}}
               \/ y \notin Live(env) /\ Live(env') = Live(env) \cup {y} /\ Freed = {}
  <2>1. PICK y \in EnvId : y = new_eid /\ (~EnvTableFull => env[y] = NULL)
    BY <1>4, NewEid DEF js_connect_new
  <2>2. CASE env' = [env EXCEPT ![y] = NULL]
    BY <2>2, LiveAfter
  <2>3. CASE env' = [env EXCEPT ![y] = new_env(n)]
    <3>1. new_env(n) # NULL
      BY DEF new_env, NULL
    <3>2. Live(env') = Live(env) \cup {y}
      BY <2>3, <3>1, LiveAfter
    <3>3. CASE y \in Live(env)
      BY <3>2, <3>3
    <3>4. CASE y \notin Live(env)
      <4>1. env[y] = NULL
        BY <3>4 DEF Live
      <4>2. \A e \in EnvId \ {y} : env'[e] = env[e]
        BY <1>1, <2>3
      <4>3. \A e \in EnvId : env[e].ref_count = 0 => env[e].sticky # 0 /\ env[e] # NULL
        BY <1>1 DEF StickyAccounting, Idle
      <4>4. Freed = {}
        BY <1>1, <4>1, <4>2, <4>3 DEF Freed, Evicted
      <4> QED
        BY <3>2, <3>4, <4>4
    <3> QED
      BY <3>3, <3>4
  <2> QED
    BY <1>4, <2>1, <2>2, <2>3 DEF js_connect_new
<1>5. ASSUME NEW c \in Clients, NEW e \in EnvId, js_env_sticky(c, e) \/ js_env_un_sticky(c, e)
      PROVE  Live(env') = Live(env)
  <2>1. PICK k \in {0, 1} : env' = [env EXCEPT ![e].sticky = k]
    BY <1>5 DEF js_env_sticky, js_env_un_sticky
  <2>2. Holders(e) # {}
    BY <1>5 DEF js_env_sticky, js_env_un_sticky, Holders
  <2>3. e \in Live(env) /\ env[e].ref_count > 0
    BY <2>2, CountsOfHolders DEF Live
  <2>4. env[e] \in Env /\ k \in Int /\ env[e].ref_count >= 0
    BY <1>1, <2>3
  <2>5. [env[e] EXCEPT !.sticky = k] # NULL
    BY <2>4, CountedRecord
  <2>6. Live(env') = Live(env) \cup {e}
    BY <2>1, <2>5, LiveAfter
  <2> QED
    BY <2>3, <2>6
<1>6. ASSUME NEW c \in Clients, NEW e \in EnvId, js_disconnect(c, e)
      PROVE  \E y \in EnvId : Live(env') \in {Live(env), Live(env) \ {y}}
  <2>1. Holders(e) # {} /\ disconnect(e)
    BY <1>6 DEF js_disconnect, Holders
  <2> QED
    BY <2>1, LiveAfterDisconnect
<1>7. ASSUME disconnect_next_env
      PROVE  \E y \in EnvId : Live(env') \in {Live(env), Live(env) \ {y}}
  <2>1. /\ closing \in Clients
        /\ FirstUsedSlot(closing) \in Slot
        /\ client[closing][FirstUsedSlot(closing)] # -1
    BY <1>7, SearchesFind DEF disconnect_next_env, TablesReset, UsedSlots, TypeOK
  <2>2. PICK x \in EnvId : x = client[closing][FirstUsedSlot(closing)]
    BY <2>1 DEF TypeOK
  <2>3. Holders(x) # {} /\ disconnect(x)
    BY <1>7, <2>1, <2>2 DEF disconnect_next_env, Holders, Holds
  <2> QED
    BY <2>3, LiveAfterDisconnect
<1>8. ASSUME NEW c \in Clients, new_client(c) \/ del_client(c)
      PROVE  env' = env
  BY <1>8 DEF new_client, del_client
<1>9. ASSUME del_client_done
      PROVE  env' = env
  BY <1>9 DEF del_client_done
<1> QED
  BY <1>1, <1>2, <1>3, <1>4, <1>5, <1>6, <1>7, <1>8, <1>9 DEF Next

(***************************************************************************)
(* Every step of the server is a step of FileTable, with the environments  *)
(* of env[] as those that exist: EnvStep makes or frees one at most, and   *)
(* frees the files of those it drops.                                      *)
(***************************************************************************)
LEMMA EnvStepOfFileTable ==
    ASSUME IInv, EnvStep
    PROVE  [FT!Next]_(FT!vars)
<1>1. PICK y \in EnvId :
        \/ Live(env') \in {Live(env), Live(env) \ {y}}
        \/ y \notin Live(env) /\ Live(env') = Live(env) \cup {y} /\ Freed = {}
  BY LiveChanges DEF EnvStep
<1>2. Live(env) \ Live(env') \subseteq Freed /\ Freed \subseteq Live(env)
  BY DEF Freed, Live
<1>3. Live(env)' = Live(env')
  BY DEF Live
<1>4. CASE Freed = {} /\ UNCHANGED filevars
  <2>1. CASE Live(env') = Live(env)
    BY <1>3, <1>4, <2>1 DEF FT!vars, FT!filevars, filevars
  <2>2. CASE y \notin Live(env) /\ Live(env') = Live(env) \cup {y}
    <3>1. FT!new_env(y)
      BY <1>3, <1>4, <2>2 DEF FT!new_env, FT!filevars, filevars, EnvStep
    <3> QED
      BY <3>1 DEF FT!Next
  <2> QED
    BY <1>1, <1>2, <1>4, <2>1, <2>2
<1>5. ASSUME NEW e \in EnvId, Freed = {e}, FT!free_env_files(e)
      PROVE  FT!Next
  <2>1. e \in Live(env) /\ Live(env') \in {Live(env), Live(env) \ {e}}
    BY <1>1, <1>2, <1>5
  <2>2. FT!del_env(e)
    BY <1>3, <1>5, <2>1 DEF FT!del_env
  <2> QED
    BY <2>2 DEF FT!Next
<1> QED
  BY <1>4, <1>5 DEF EnvStep

\* Every step of the server is a step of FileTable.
LEMMA StepOfFileTable ==
    ASSUME IInv, [ServerNext]_servervars
    PROVE  [FT!Next]_(FT!vars)
<1>1. CASE EnvStep
  BY <1>1, EnvStepOfFileTable
<1>2. ASSUME NEW c \in Clients, NEW e \in EnvId, FileStep(c, e)
      PROVE  FT!Next
  BY <1>2 DEF FileStep, FT!Next
<1>3. CASE TransferStep
  BY <1>3 DEF TransferStep, FT!Next, FT!Transfer
<1>4. CASE SenderDies
  BY <1>4 DEF SenderDies, FT!Next, FT!Transfer
<1>5. CASE UNCHANGED servervars
  <2>1. Live(env)' = Live(env) /\ UNCHANGED filevars
    BY <1>5 DEF servervars, vars, Live
  <2> QED
    BY <2>1 DEF FT!vars, FT!filevars, filevars
<1> QED
  BY <1>1, <1>2, <1>3, <1>4, <1>5 DEF ServerNext

(***************************************************************************)
(* The server implements FileTable: what clients and environments do, when *)
(* they come, go, die, share and are dropped, makes and deletes the        *)
(* environments of do_filecom.c and do_dic_env.c only as FileTable says.   *)
(***************************************************************************)
THEOREM ImplementsFileTable == ServerSpec => FT!Spec
<1>1. ServerInit => IInv /\ FT!Init
  BY InitEstablishes DEF ServerInit
<1>2. IInv /\ [ServerNext]_servervars => [FT!Next]_(FT!vars)
  BY StepOfFileTable
<1>3. IInv /\ [ServerNext]_servervars => IInv'
  BY StepOfEnvTable, NextPreserves
<1> QED
  BY <1>1, <1>2, <1>3, PTL DEF ServerSpec, FT!Spec

(***************************************************************************)
(* The same of FTP, with what is proved of it.                             *)
(***************************************************************************)
LEMMA FilesAsProved == ServerSpec => FTP!Spec /\ []FTP!IInv
<1>1. ServerInit => IInv /\ FTP!Init
  BY InitEstablishes, SameInit DEF ServerInit
<1>2. IInv /\ [ServerNext]_servervars => [FTP!Next]_(FTP!vars)
  BY StepOfFileTable, SameNext
<1>3. IInv /\ [ServerNext]_servervars => IInv'
  BY StepOfEnvTable, NextPreserves
<1>4. ServerSpec => FTP!Spec
  BY <1>1, <1>2, <1>3, PTL DEF ServerSpec, FTP!Spec
<1>5. FTP!Spec => []FTP!IInv
  BY SameFits, FTP!Invariance, PTL
<1> QED
  BY <1>4, <1>5, PTL

(***************************************************************************)
(* What FileTable promises of its tables holds in the server: the counts   *)
(* of files[] are those of the environments in env[], and dic_table[] and  *)
(* the jisho[] of the environments agree.                                  *)
(***************************************************************************)
THEOREM CountsFiles == ServerSpec => []FilesCounted
<1>1. ServerSpec => FTP!Spec
  BY FilesAsProved
<1>2. FTP!Spec => [](FTP!FileRefCount /\ FTP!DicOwned)
  BY SameFits, FTP!CountsExact, FTP!EntriesOwned, PTL
<1>3. FTP!FileRefCount /\ FTP!DicOwned => FilesCounted
  BY SameLibrary DEF FilesCounted, FT!FileRefCount, FTP!FileRefCount, FT!DicOwned,
     FTP!DicOwned, FT!Loaded, FTP!Loaded, FT!Fid, FTP!Fid, FT!Users, FTP!Users,
     FT!Resident, FTP!Resident, FT!DicNo, FTP!DicNo, FT!Owners, FTP!Owners
<1> QED
  BY <1>1, <1>2, <1>3, PTL

----------------------------------------------------------------------------
(***************************************************************************)
(* What FileTable's invariant says of the server's tables.                 *)
(***************************************************************************)
LEMMA FileFacts ==
    ASSUME FTP!IInv
    PROVE  /\ file \in [EnvId -> SUBSET FT!Fid]
           /\ DOMAIN jisho = EnvId /\ DOMAIN fzk_fid = EnvId
           /\ \A e \in EnvId \ Live(env) :
                file[e] = {} /\ jisho[e] = <<>> /\ fzk_fid[e] = -1
           /\ \A e \in Live(env) : \A f \in file[e] : files[f].ref_count # -1
           /\ ~FT!Idling => sending \in FTP!Upload
<1>1. FTP!TypeOK /\ FTP!FileRefCount /\ FTP!NothingWhenDead
  BY DEF FTP!IInv, FTP!Counted
<1>2. /\ file \in [EnvId -> SUBSET FT!Fid]
      /\ DOMAIN jisho = EnvId /\ DOMAIN fzk_fid = EnvId
      /\ ~FT!Idling => sending \in FTP!Upload
  BY <1>1 DEF FTP!TypeOK, FTP!Fid, FT!Fid, FT!Idling, FTP!NotSending, FT!NotSending
<1>3. \A e \in Live(env) : \A f \in file[e] : files[f].ref_count # -1
  BY <1>1 DEF FTP!FileRefCount, FTP!Loaded
<1> QED
  BY <1>1, <1>2, <1>3 DEF FTP!NothingWhenDead

(***************************************************************************)
(* A command on an environment leaves what the others have alone.          *)
(***************************************************************************)
Same(e) == file'[e] = file[e] /\ jisho'[e] = jisho[e] /\ fzk_fid'[e] = fzk_fid[e]

\* A command for one environment leaves the tables of the others.
LEMMA OthersUntouched ==
    ASSUME NEW x \in EnvId, NEW e \in EnvId \ {x}, FTP!IInv
    PROVE  /\ FT!Command(x) => Same(e)
           /\ FT!free_env_files(x) => Same(e)
           /\ FT!send_body /\ sending.env = x => Same(e)
<1>1. /\ DOMAIN file = EnvId /\ DOMAIN jisho = EnvId /\ DOMAIN fzk_fid = EnvId
  BY FileFacts
<1>2. FT!free_env_files(x) => Same(e)
  BY <1>1 DEF FT!free_env_files, Same
<1>3. \A f, u : FT!add_read_file(x, f, u) \/ FT!fail_read_file(f, u) => file'[e] = file[e]
  BY <1>1 DEF FT!add_read_file, FT!fail_read_file
<1>4. FT!send_body /\ sending.env = x => Same(e)
  BY <1>3 DEF FT!send_body, Same
<1>5. ASSUME NEW u \in FT!Uniqs, FT!file_already_read(x, u) \/ FT!js_file_send(x, u)
      PROVE  Same(e)
  BY <1>1, <1>5 DEF FT!file_already_read, FT!js_file_send, Same
<1>6. ASSUME NEW u \in FT!Uniqs, FT!js_file_read(x, u)
      PROVE  Same(e)
  BY <1>3, <1>6 DEF FT!js_file_read, Same
<1>7. ASSUME NEW f \in FT!Fid, FT!js_file_discard(x, f) \/ FT!js_fuzokugo_set(x, f)
      PROVE  Same(e)
  BY <1>1, <1>7 DEF FT!js_file_discard, FT!js_fuzokugo_set, FT!used_dic_fuzoku_delete, Same
<1>8. ASSUME NEW f \in FT!Fid, NEW h \in FT!Fid \cup {-1}, FT!js_dic_add(x, f, h)
      PROVE  Same(e)
  BY <1>1, <1>8 DEF FT!js_dic_add, Same
<1>9. ASSUME NEW i \in 1 .. MaxJishoOfEnv, FT!js_dic_delete(x, i)
      PROVE  Same(e)
  BY <1>1, <1>9 DEF FT!js_dic_delete, Same
<1>10. FT!Command(x) => Same(e)
  BY <1>5, <1>6, <1>7, <1>8, <1>9 DEF FT!Command
<1> QED
  BY <1>2, <1>4, <1>10

(***************************************************************************)
(* The client that sends a file uses the environment it sends it for.      *)
(***************************************************************************)
SenderHolds == ~FT!Idling => sender \in Clients /\ Holds(sender, sending.env)

\* Every step keeps the environment of a transfer held by its sender.
LEMMA SenderHoldsNext ==
    ASSUME FTP!IInv, SenderHolds, [ServerNext]_servervars
    PROVE  SenderHolds'
<1>1. CASE EnvStep
  <2>1. FT!Idling'
    BY <1>1 DEF EnvStep, FT!Idling, filevars, FT!free_env_files
  <2> QED
    BY <2>1 DEF SenderHolds
<1>2. ASSUME NEW c \in Clients, NEW e \in EnvId, FileStep(c, e), ~FT!Idling'
      PROVE  sender' \in Clients /\ Holds(sender, sending.env)'
  <2>1. sender' = c /\ client' = client /\ Holds(c, e)
    BY <1>2 DEF FileStep, vars
  <2>2. PICK u \in FT!Uniqs : FT!js_file_send(e, u)
    BY <1>2 DEF FileStep, FT!Command, FT!Idling, FT!file_already_read, FT!js_file_read,
       FT!js_file_discard, FT!js_fuzokugo_set, FT!js_dic_add, FT!js_dic_delete, FT!MayUse
  <2>3. sending'.env = e
    BY <2>2 DEF FT!js_file_send
  <2> QED
    BY <2>1, <2>3 DEF Holds
<1>3. ASSUME TransferStep, ~FT!Idling'
      PROVE  sender' \in Clients /\ Holds(sender, sending.env)'
  <2>1. sender' = sender /\ client' = client
    BY <1>3 DEF TransferStep, vars
  <2>2. FT!send_header
    BY <1>3 DEF TransferStep, FT!Idling, FT!send_bad_header, FT!send_body
  <2>3. ~FT!Idling
    BY <2>2 DEF FT!send_header, FT!Idling, FT!NotSending
  <2>4. sending'.env = sending.env
    BY <2>2, <2>3, FileFacts DEF FT!send_header, FTP!Upload
  <2> QED
    BY <2>1, <2>3, <2>4 DEF SenderHolds, Holds
<1>4. CASE SenderDies
  <2>1. FT!Idling'
    BY <1>4 DEF SenderDies, FT!sender_dies, FT!Idling
  <2> QED
    BY <2>1 DEF SenderHolds
<1>5. CASE UNCHANGED servervars
  BY <1>5 DEF servervars, filevars, vars, SenderHolds, Holds, FT!Idling
<1> QED
  BY <1>1, <1>2, <1>3, <1>4, <1>5 DEF ServerNext, SenderHolds

(***************************************************************************)
(* Nobody uses an idle environment, so neither a command nor an upload is  *)
(* for it: a step leaves it alone or drops it.  A new environment stands   *)
(* in an entry that had none, and so no files, or that of a dropped one,   *)
(* whose files the same step releases.                                     *)
(***************************************************************************)
LEMMA IdleUntouched ==
    ASSUME IInv, FTP!IInv, SenderHolds, [ServerNext]_servervars,
           NEW e \in Idle(env), ~Evicted(e)
    PROVE  Same(e) /\ e \in Live(env)'
<1>1. e \in EnvId /\ env[e].ref_count = 0 /\ env[e] # NULL /\ env'[e] # NULL
  BY DEF Idle, Evicted, NULL
<1>2. e \in Live(env)'
  BY <1>1 DEF Live
<1>3. Holders(e) = {}
  BY <1>1, CountsOfHolders DEF IInv
<1>4. CASE EnvStep
  <2>1. CASE UNCHANGED filevars
    BY <1>2, <2>1 DEF filevars, Same
  <2>2. ASSUME NEW x \in EnvId, Freed = {x}, FT!free_env_files(x)
        PROVE  Same(e)
    <3>1. e \notin Freed
      BY <1>1 DEF Freed
    <3>2. e \in EnvId \ {x}
      BY <1>1, <2>2, <3>1
    <3> QED
      BY <2>2, <3>2, OthersUntouched
  <2> QED
    BY <1>2, <1>4, <2>1, <2>2 DEF EnvStep
<1>5. ASSUME NEW c \in Clients, NEW x \in EnvId, FileStep(c, x)
      PROVE  Same(e)
  <2>1. e \in EnvId \ {x}
    BY <1>1, <1>3, <1>5 DEF FileStep, Holders
  <2> QED
    BY <1>5, <2>1, OthersUntouched DEF FileStep
<1>6. CASE TransferStep
  <2>1. CASE FT!send_header \/ FT!send_bad_header
    BY <1>2, <2>1 DEF FT!send_header, FT!send_bad_header, Same
  <2>2. CASE FT!send_body
    <3>1. ~FT!Idling
      BY <2>2 DEF FT!send_body, FT!Idling, FT!NotSending
    <3>2. sending.env \in EnvId
      BY <3>1, FileFacts DEF FTP!Upload
    <3>3. e # sending.env
      BY <1>3, <3>1 DEF SenderHolds, Holders
    <3> QED
      BY <1>1, <1>2, <2>2, <3>2, <3>3, OthersUntouched
  <2> QED
    BY <1>2, <1>6, <2>1, <2>2 DEF TransferStep
<1>7. CASE SenderDies
  BY <1>2, <1>7 DEF SenderDies, FT!sender_dies, Same
<1>8. CASE UNCHANGED servervars
  BY <1>2, <1>8 DEF servervars, filevars, Same
<1> QED
  BY <1>2, <1>4, <1>5, <1>6, <1>7, <1>8 DEF ServerNext

\* An environment that comes into being has no files and no dictionaries.
LEMMA NewIsEmpty ==
    ASSUME IInv, FTP!IInv, [ServerNext]_servervars,
           NEW e \in EnvId, env[e] = NULL \/ Evicted(e), env'[e] # NULL
    PROVE  file'[e] = {} /\ jisho'[e] = <<>> /\ fzk_fid'[e] = -1
<1>1. env' # env
  <2> SUFFICES ASSUME env' = env PROVE FALSE
    OBVIOUS
  <2>1. Evicted(e) /\ env'[e] = env[e]
    OBVIOUS
  <2>2. e \in Idle(env) /\ env[e].sticky = 0
    BY <2>1 DEF Evicted, Idle
  <2> QED
    BY <2>2 DEF IInv, StickyAccounting
<1>2. EnvStep
  BY <1>1 DEF ServerNext, FileStep, TransferStep, SenderDies, del_client, servervars, vars
<1>3. CASE env[e] = NULL
  <2>1. file[e] = {} /\ jisho[e] = <<>> /\ fzk_fid[e] = -1
    BY <1>3, FileFacts DEF Live
  <2>2. CASE UNCHANGED filevars
    BY <2>1, <2>2 DEF filevars
  <2>3. ASSUME NEW x \in EnvId, Freed = {x}, FT!free_env_files(x)
        PROVE  Same(e)
    <3>1. e \in EnvId \ {x}
      BY <1>3, <2>3 DEF Freed
    <3> QED
      BY <2>3, <3>1, OthersUntouched
  <2> QED
    BY <1>2, <2>1, <2>2, <2>3 DEF EnvStep, Same
<1>4. CASE Evicted(e) /\ env[e] # NULL
  <2>1. e \in Freed
    BY <1>4 DEF Freed
  <2>2. FT!free_env_files(e)
    <3>1. \E x \in EnvId : Freed = {x} /\ FT!free_env_files(x)
      BY <1>2, <2>1 DEF EnvStep
    <3>2. PICK x \in EnvId : Freed = {x} /\ FT!free_env_files(x)
      BY <3>1
    <3>3. x = e
      BY <2>1, <3>2
    <3> QED
      BY <3>2, <3>3
  <2> QED
    BY <2>2, FileFacts DEF FT!free_env_files
<1> QED
  BY <1>3, <1>4

(***************************************************************************)
(* For every number of clients, environments, files and dictionaries: an   *)
(* environment nobody uses keeps its dictionaries and files, and a new one *)
(* is empty.                                                               *)
(***************************************************************************)
THEOREM StickyKept == ServerSpec => StickyKeepsFiles
<1>1. ServerInit => IInv /\ FTP!Init /\ SenderHolds
  BY InitEstablishes, SameInit DEF ServerInit, FT!Init, SenderHolds, FT!Idling
<1>2. IInv /\ [ServerNext]_servervars => [FTP!Next]_(FTP!vars)
  BY StepOfFileTable, SameNext
<1>3. IInv /\ [ServerNext]_servervars => IInv'
  BY StepOfEnvTable, NextPreserves
<1>4. ServerSpec => []FTP!IInv
  BY FilesAsProved
<1>5. FTP!IInv /\ SenderHolds /\ [ServerNext]_servervars => SenderHolds'
  BY SenderHoldsNext
<1>6. IInv /\ FTP!IInv /\ (FTP!IInv)' /\ SenderHolds /\ [ServerNext]_servervars
        => KeptWhileIdle /\ EmptyWhenNew
  <2> SUFFICES ASSUME IInv, FTP!IInv, (FTP!IInv)', SenderHolds, [ServerNext]_servervars
               PROVE  KeptWhileIdle /\ EmptyWhenNew
    OBVIOUS
  <2>1. ASSUME NEW e \in Idle(env), ~Evicted(e)
        PROVE  Same(e) /\ \A f \in file[e] : files'[f].area = files[f].area
    <3>1. Same(e) /\ e \in Live(env)' /\ e \in EnvId
      BY <2>1, IdleUntouched DEF Idle
    <3>2. \A f \in file[e] : files'[f].ref_count # -1
      BY <3>1 DEF Same, FTP!IInv, FTP!Counted, FTP!FileRefCount, FTP!Loaded
    <3>3. \A f \in file[e] : files'[f].ref_count = -1 \/ files'[f].area = files[f].area
      <4>1. [FTP!Next]_(FTP!vars)
        BY <1>2
      <4>2. \A g \in EnvId : \A f \in file[g] :
              files'[f].ref_count = -1 \/ files'[f].area = files[f].area
        BY <4>1, SameFits, FTP!EntryKept DEF FTP!IInv
      <4> QED
        BY <3>1, <4>2
    <3> QED
      BY <3>1, <3>2, <3>3
  <2>2. KeptWhileIdle
    BY <2>1 DEF KeptWhileIdle, Same
  <2>3. EmptyWhenNew
    BY NewIsEmpty DEF EmptyWhenNew
  <2> QED
    BY <2>2, <2>3
<1> QED
  BY <1>1, <1>3, <1>4, <1>5, <1>6, PTL DEF ServerSpec, StickyKeepsFiles

----------------------------------------------------------------------------
(***************************************************************************)
(* Every environment has room for the files it does not list: a client     *)
(* that reads a file has it listed.  It is so when file[] of an            *)
(* environment is as long as files[], as in MCServer; in jserver files[]   *)
(* is ten times as long, and it is so until an environment is full.        *)
(***************************************************************************)
RoomToList == \A e \in EnvId : FT!HasRoom(e) \/ file[e] = FT!Fid

(***************************************************************************)
(* However clients and environments come, share, go, are dropped and die:  *)
(* when none is left, the server holds the default files and no other      *)
(* contents that can be freed, for every instance, as long as no           *)
(* environment has been full.                                              *)
(***************************************************************************)
THEOREM NothingIsLeft == ServerSpec /\ []RoomToList => []NothingLeaks
<1>1. ServerSpec => FTP!Spec /\ []FTP!IInv
  BY FilesAsProved
<1>2. RoomToList => FTP!RoomToList
  BY SameLibrary DEF RoomToList, FTP!RoomToList, FT!HasRoom, FTP!HasRoom, FT!Fid, FTP!Fid
<1>3. FTP!Spec /\ []FTP!RoomToList => []FTP!AreasFreed
  BY SameFits, FTP!FreedWhenUnlisted, PTL
<1>4. FTP!IInv /\ FTP!AreasFreed => NothingLeaks
  <2> SUFFICES ASSUME FTP!IInv, FTP!AreasFreed, Live(env) = {}
               PROVE  /\ \A f \in DOMAIN files \ FT!Resident : files[f].area \in Fzks \cup {Null}
                      /\ \A d \in DOMAIN dic_table : dic_table[d].body = -1
    BY DEF NothingLeaks
  <2>1. DOMAIN files = FTP!Fid /\ DOMAIN dic_table = FTP!DicNo /\ FT!Resident = FTP!Resident
    BY DEF FTP!IInv, FTP!TypeOK, FT!Resident, FTP!Resident
  <2>2. /\ \A f : FTP!Users(f) = {}
        /\ \A d \in FTP!DicNo : dic_table[d].body = -1
    BY SameFits, FTP!NothingLeft
  <2> QED
    BY <2>1, <2>2 DEF FTP!AreasFreed, FTP!MayStay
<1> QED
  BY <1>1, <1>2, <1>3, <1>4, PTL

=============================================================================
