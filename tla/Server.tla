------------------------------- MODULE Server -------------------------------
(***************************************************************************)
(* jserver's tables together: the clients and environments of EnvTable and *)
(* the files and dictionaries of FileTable.  Freeing an environment, in    *)
(* disconnect or disconnect_last_sticky, releases its dictionaries and     *)
(* files (del_all_dic_in_env, del_all_file_in_env) in the same step; the   *)
(* file commands are those of a client on an environment it uses; a client *)
(* that dies while it sends a file is removed by del_client.               *)
(***************************************************************************)
EXTENDS EnvTable, Sequences

CONSTANTS Dicts, Hindos, Fzks, Match, Null, DefaultFiles, MaxFiles, MaxFileOfEnv,
          MaxDic, MaxJishoOfEnv

VARIABLES files, file, jisho, dic_table, fzk_fid, sending, broken, twice,
          sender   \* the client that is sending a file, or None

FT == INSTANCE FileTable WITH Envs <- EnvId, alive <- Live(env)

ASSUME FilesFit == FT!ConstantsFit

filevars == <<files, file, jisho, dic_table, fzk_fid, sending, broken, twice>>
servervars == <<vars, filevars, sender>>

ServerInit == Init /\ FT!Init /\ sender = None

\* Faulty variant: disconnect_last_sticky frees the environment but not its files.
Freed_evict == {e \in EnvId : env[e] # NULL /\ env'[e] = NULL /\ env[e].ref_count # 0}

\* The environments a step frees: also the one whose entry conn1 reuses.
Freed == {e \in EnvId : env[e] # NULL /\ (env'[e] = NULL \/ Evicted(e))}

\* A command of do_env.c, a new client, or a part of del_client.
EnvStep ==
    /\ FT!Idling
    /\ Next
    /\ \/ Freed = {} /\ UNCHANGED filevars
       \/ \E e \in EnvId : Freed = {e} /\ FT!free_env_files(e)
    /\ UNCHANGED sender

\* Faulty variant: a command on an environment the client does not use.
FileStep_bug(c, e) ==
    /\ MayCommand(c) /\ e \in Live(env)
    /\ UNCHANGED vars
    /\ FT!Command(e)
    /\ sender' = IF FT!Idling' THEN None ELSE c

\* A command of do_filecom.c or do_dic_env.c.
FileStep(c, e) ==
    /\ MayCommand(c) /\ Holds(c, e)
    /\ UNCHANGED vars
    /\ FT!Command(e)
    /\ sender' = IF FT!Idling' THEN None ELSE c

\* A part of the file arrives.
TransferStep ==
    /\ UNCHANGED vars
    /\ FT!send_header \/ FT!send_bad_header \/ FT!send_body
    /\ sender' = IF FT!Idling' THEN None ELSE sender

\* The sending client dies: daemon_main calls del_client.
SenderDies ==
    /\ del_client(sender)
    /\ FT!sender_dies
    /\ sender' = None

ServerNext ==
    \/ EnvStep
    \/ \E c \in Clients, e \in EnvId : FileStep(c, e)
    \/ TransferStep
    \/ SenderDies

ServerSpec == ServerInit /\ [][ServerNext]_servervars

----------------------------------------------------------------------------
(***************************************************************************)
(* The counts of files[] are exact while clients come, go, die and share   *)
(* environments: a file stays loaded as long as an environment in env[]    *)
(* lists it, idle sticky ones included, and no longer.                     *)
(***************************************************************************)
FilesCounted == FT!FileRefCount /\ FT!DicOwned

(***************************************************************************)
(* When the last client has gone and no sticky environment is left,        *)
(* nothing is but the default files: dic_table[] is empty and the contents *)
(* of every other file have been freed, except those of a fuzokugo file,   *)
(* which discardfile leaves.  (MaxFileOfEnv must not be less than the      *)
(* number of files: js_file_read does not look whether file[] of the       *)
(* environment had room, and what it could not list is never freed.)       *)
(***************************************************************************)
NothingLeaks ==
    (connected = {} /\ Live(env) = {}) =>
        /\ \A f \in DOMAIN files \ FT!Resident : files[f].area \in Fzks \cup {Null}
        /\ \A d \in DOMAIN dic_table : dic_table[d].body = -1

(***************************************************************************)
(* An environment nobody uses keeps its dictionaries and files exactly as  *)
(* its last client left them, until a client connects to it again or the   *)
(* server drops it; connecting gives the client what was left there, and a *)
(* new environment is empty, also in an entry of env[] another one had.    *)
(***************************************************************************)
KeptWhileIdle ==
    \A e \in Idle(env) : ~Evicted(e) =>
        /\ file'[e] = file[e] /\ jisho'[e] = jisho[e] /\ fzk_fid'[e] = fzk_fid[e]
        /\ \A f \in file[e] : files'[f].area = files[f].area
EmptyWhenNew ==
    \A e \in EnvId : (env[e] = NULL \/ Evicted(e)) /\ env'[e] # NULL =>
        file'[e] = {} /\ jisho'[e] = <<>> /\ fzk_fid'[e] = -1
StickyKeepsFiles == [][KeptWhileIdle /\ EmptyWhenNew]_servervars

=============================================================================
