------------------------------ MODULE EnvTable ------------------------------
(***************************************************************************)
(* The conversion environments of jserver (Wnn/jserver/do_env.c) and the   *)
(* clients that share them.  A client attaches an environment by name with *)
(* JS_CONNECT; the server counts the clients of each environment in        *)
(* ref_count, keeps a "sticky" environment for a while after its last      *)
(* client left (at most max_sticky_env of them, the one released longest   *)
(* ago is dropped first), and frees any other one at once.                 *)
(*                                                                         *)
(* jserver serves one command at a time, so a command is one step.  The    *)
(* one exception is del_client: its loop over the client's environments    *)
(* (disconnect_all_env_of_client) is one step per environment, during      *)
(* which `closing' names the client and no other command runs.             *)
(***************************************************************************)
EXTENDS Integers, FiniteSets

CONSTANTS
    Clients,          \* the connections that may exist
    None,             \* no connection
    Names,            \* the non-empty environment names
    NoName,           \* the empty name, which always means a new environment
    MaxEnv,           \* MAX_ENV, the length of env[]
    MaxEnvOfClient,   \* WNN_MAX_ENV_OF_A_CLIENT
    MaxStickyEnv,     \* max_sticky_env
    StickyTimeBound   \* bound: sticky_time has not reached this value

ASSUME ConstAssumption ==
    /\ IsFiniteSet(Clients)
    /\ None \notin Clients
    /\ NoName \notin Names
    /\ MaxEnv \in Nat \ {0}
    /\ MaxEnvOfClient \in Nat \ {0}
    /\ MaxStickyEnv \in Nat
    /\ StickyTimeBound \in Nat

VARIABLES
    connected,    \* the clients in the client table
    client,       \* client[c][j]: the j-th entry of c's env[] table, -1 if free
    env,          \* the environments
    sticky_cnt,   \* number of environments kept without a client
    sticky_time,  \* clock that stamps the release of a sticky environment
    closing       \* the client del_client is removing, or None

vars == <<connected, client, env, sticky_cnt, sticky_time, closing>>

EnvId == 0 .. MaxEnv - 1
Slot  == 0 .. MaxEnvOfClient - 1

Env == [name : Names \cup {NoName}, ref_count : Int, sticky : Nat]

\* The null pointer: a value no environment has, its ref_count is never negative.
NULL == [name |-> NoName, ref_count |-> -1, sticky |-> 0]

NoEnvs == [j \in Slot |-> -1]

TypeOK ==
    /\ connected \subseteq Clients
    /\ client \in [Clients -> [Slot -> EnvId \cup {-1}]]
    /\ env \in [EnvId -> Env]
    /\ sticky_cnt \in Int
    /\ sticky_time \in Nat
    /\ closing \in Clients \cup {None}

----------------------------------------------------------------------------
Live(tab) == {e \in EnvId : tab[e] # NULL}

\* The environments no client uses, kept because they are sticky.
Idle(tab) == {e \in EnvId : tab[e].ref_count = 0}

\* Faulty variants (*_bug) stand before the operator they would replace; they
\* are what the properties below have to tell from the code.
NamedEnvs_bug(n) ==  \* overlooks the environments kept without a client
    {e \in Live(env) : n # NoName /\ env[e].name = n /\ env[e].ref_count > 0}

\* find_env_by_name: the empty name finds nothing.
NamedEnvs(n) == {e \in Live(env) : n # NoName /\ env[e].name = n}
find_env_by_name(n) == CHOOSE e \in NamedEnvs(n) : \A f \in NamedEnvs(n) : e <= f

\* find_env_in_client and add_env_to_client search the slots from the first.
Holds(c, e) == \E j \in Slot : client[c][j] = e
SlotsWith(c, e) == {j \in Slot : client[c][j] = e}
FirstSlotWith(c, e) == CHOOSE j \in SlotsWith(c, e) : \A k \in SlotsWith(c, e) : j <= k
HasFreeSlot(c) == SlotsWith(c, -1) # {}
add_env_to_client_bug(c, e) ==  \* does not stop at the first free slot
    [client EXCEPT ![c] = [j \in Slot |-> IF @[j] = -1 THEN e ELSE @[j]]]
add_env_to_client(c, e) == [client EXCEPT ![c][FirstSlotWith(c, -1)] = e]

new_env(n) == [name |-> n, ref_count |-> 1, sticky |-> 0]

last_sticky_bug(tab) ==  \* keeps the largest stamp instead of the smallest
    CHOOSE e \in Idle(tab) : \A f \in Idle(tab) \ {e} : tab[e].sticky > tab[f].sticky

\* The victim of disconnect_last_sticky: the smallest time stamp, and of two
\* equal ones the later entry (min >= sticky).
last_sticky(tab) ==
    CHOOSE e \in Idle(tab) :
        \A f \in Idle(tab) \ {e} :
            \/ tab[e].sticky < tab[f].sticky
            \/ tab[e].sticky = tab[f].sticky /\ f < e

\* Whether conn1 finds no NULL entry and has to call disconnect_last_sticky.
EnvTableFull == Live(env) = EnvId
new_eid_bug ==  \* runs off the end of a full table
    IF EnvTableFull THEN MaxEnv
    ELSE CHOOSE e \in EnvId \ Live(env) : \A f \in EnvId \ Live(env) : e <= f
new_eid ==
    IF EnvTableFull THEN last_sticky(env)
    ELSE CHOOSE e \in EnvId \ Live(env) : \A f \in EnvId \ Live(env) : e <= f

\* No command runs while del_client is at work.  The commands below are given
\* the ids JS_CONNECT returned to the client and JS_DISCONNECT has not taken
\* back (Holds): only js_disconnect looks whether that is so.
MayCommand(c) == closing = None /\ c \in connected

----------------------------------------------------------------------------
Init ==
    /\ connected = {}
    /\ client = [c \in Clients |-> NoEnvs]
    /\ env = [e \in EnvId |-> NULL]
    /\ sticky_cnt = 0
    /\ sticky_time = 0
    /\ closing = None

\* new_client: the env[] table is emptied before the first command, so that
\* del_client is safe if the connection dies before JS_OPEN.
new_client(c) ==
    /\ closing = None
    /\ c \notin connected
    /\ connected' = connected \cup {c}
    /\ client' = [client EXCEPT ![c] = NoEnvs]
    /\ UNCHANGED <<env, sticky_cnt, sticky_time, closing>>

\* JS_CONNECT of an environment that exists.
js_connect_old(c, n) ==
    /\ MayCommand(c)
    /\ NamedEnvs(n) # {}
    /\ LET e == find_env_by_name(n) IN
        /\ ~Holds(c, e) /\ HasFreeSlot(c)
        /\ client' = add_env_to_client(c, e)
        /\ sticky_cnt' = IF /\ env[e].ref_count = 0
                            /\ env[e].sticky # 0
                            /\ sticky_cnt > 0
                         THEN sticky_cnt - 1 ELSE sticky_cnt
        /\ env' = [env EXCEPT ![e].ref_count = @ + 1]
    /\ UNCHANGED <<connected, sticky_time, closing>>

\* JS_CONNECT of a new environment.  When every entry of env[] is in use the
\* oldest idle environment is dropped first, and it stays dropped when the
\* new one cannot be made (no memory, or no free slot in the client).
js_connect_new(c, n) ==
    /\ MayCommand(c)
    /\ NamedEnvs(n) = {}
    /\ EnvTableFull => Idle(env) # {}
    /\ sticky_cnt' = IF EnvTableFull THEN sticky_cnt - 1 ELSE sticky_cnt
    /\ \/ /\ HasFreeSlot(c)
          /\ client' = add_env_to_client(c, new_eid)
          /\ env' = [env EXCEPT ![new_eid] = new_env(n)]
       \/ \* malloc failed, or add_env_to_client returned -1
          /\ env' = [env EXCEPT ![new_eid] = NULL]
          /\ UNCHANGED client
    /\ UNCHANGED <<connected, sticky_time, closing>>

\* JS_ENV_STICKY and JS_ENV_UN_STICKY of an environment the client uses.
js_env_sticky(c, e) ==
    /\ MayCommand(c) /\ Holds(c, e)
    /\ env' = [env EXCEPT ![e].sticky = 1]
    /\ UNCHANGED <<connected, client, sticky_cnt, sticky_time, closing>>

js_env_un_sticky(c, e) ==
    /\ MayCommand(c) /\ Holds(c, e)
    /\ env' = [env EXCEPT ![e].sticky = 0]
    /\ UNCHANGED <<connected, client, sticky_cnt, sticky_time, closing>>

\* disconnect(eid): one client fewer.  The last one leaves a sticky
\* environment idle, stamped with the time, and the idle environments are
\* then cut back to max_sticky_env; any other environment is freed.
LastClient_early(e) == env[e].ref_count <= 2  \* faulty: one too soon
LastClient_late(e)  == env[e].ref_count < 1   \* faulty: one too late
LastClient(e) == env[e].ref_count <= 1

released(e) == [env EXCEPT ![e] =
    [name |-> env[e].name, ref_count |-> 0, sticky |-> sticky_time + 1]]

disconnect(e) ==
    \/ /\ ~LastClient(e)
       /\ env' = [env EXCEPT ![e].ref_count = @ - 1]
       /\ UNCHANGED <<sticky_cnt, sticky_time>>
    \/ /\ LastClient(e) /\ env[e].sticky # 0
       /\ sticky_time < StickyTimeBound
       /\ sticky_time' = sticky_time + 1
       /\ IF sticky_cnt + 1 > MaxStickyEnv
          THEN /\ env' = [released(e) EXCEPT ![last_sticky(released(e))] = NULL]
               /\ UNCHANGED sticky_cnt
          ELSE /\ env' = released(e)
               /\ sticky_cnt' = sticky_cnt + 1
    \/ /\ LastClient(e) /\ env[e].sticky = 0
       /\ env' = [env EXCEPT ![e] = NULL]
       /\ UNCHANGED <<sticky_cnt, sticky_time>>

\* JS_DISCONNECT of an environment the client uses (any other id is refused
\* with WNN_BAD_ENV and changes nothing).
js_disconnect(c, e) ==
    /\ MayCommand(c) /\ Holds(c, e)
    /\ client' = [client EXCEPT ![c][FirstSlotWith(c, e)] = -1]
    /\ disconnect(e)
    /\ UNCHANGED <<connected, closing>>

\* del_client, called by JS_CLOSE and when the connection is found dead.
del_client(c) ==
    /\ MayCommand(c)
    /\ closing' = c
    /\ UNCHANGED <<connected, client, env, sticky_cnt, sticky_time>>

\* One round of the loop in disconnect_all_env_of_client.  The slot is marked
\* visited by -1: the code leaves its value, in a record del_client discards.
UsedSlots(c) == {j \in Slot : client[c][j] # -1}
FirstUsedSlot(c) == CHOOSE j \in UsedSlots(c) : \A k \in UsedSlots(c) : j <= k

disconnect_next_env ==
    /\ closing # None
    /\ UsedSlots(closing) # {}
    /\ LET j == FirstUsedSlot(closing) IN
        /\ disconnect(client[closing][j])
        /\ client' = [client EXCEPT ![closing][j] = -1]
    /\ UNCHANGED <<connected, closing>>

\* The rest of del_client: the client leaves the table.
del_client_done ==
    /\ closing # None
    /\ UsedSlots(closing) = {}
    /\ connected' = connected \ {closing}
    /\ closing' = None
    /\ UNCHANGED <<client, env, sticky_cnt, sticky_time>>

Next ==
    \/ \E c \in Clients :
        \/ new_client(c)
        \/ del_client(c)
        \/ \E n \in Names \cup {NoName} : js_connect_old(c, n) \/ js_connect_new(c, n)
        \/ \E e \in EnvId :
            \/ js_env_sticky(c, e)
            \/ js_env_un_sticky(c, e)
            \/ js_disconnect(c, e)
    \/ disconnect_next_env
    \/ del_client_done

Spec == Init /\ [][Next]_vars

----------------------------------------------------------------------------
Holders(e) == {c \in Clients : Holds(c, e)}

(***************************************************************************)
(* Every id in a client's table names an environment that exists.  A       *)
(* violation is a use of freed memory at the client's next command (no     *)
(* command of do_env.c checks env[eid]).                                   *)
(***************************************************************************)
NoDanglingEnv == \A c \in Clients, j \in Slot :
    client[c][j] # -1 => env[client[c][j]] # NULL

(***************************************************************************)
(* ref_count is the number of clients that use the environment, through    *)
(* JS_CONNECT by name, JS_DISCONNECT, JS_CLOSE and the death of a client   *)
(* in the middle of the loop of disconnect_all_env_of_client.              *)
(***************************************************************************)
RefCountExact == \A e \in EnvId :
    env[e] # NULL => env[e].ref_count = Cardinality(Holders(e))

(***************************************************************************)
(* sticky_cnt, which conn1, disconnect and disconnect_last_sticky each     *)
(* adjust on their own, is the number of environments kept without a       *)
(* client; there are never more than max_sticky_env of them, and only      *)
(* sticky ones are kept.                                                   *)
(***************************************************************************)
StickyAccounting ==
    /\ sticky_cnt = Cardinality(Idle(env))
    /\ sticky_cnt <= MaxStickyEnv
    /\ \A e \in Idle(env) : env[e].sticky # 0

(***************************************************************************)
(* A name finds one environment: clients that connect to the same name     *)
(* share it, also after it was kept idle, dropped and made again.          *)
(***************************************************************************)
NamesUnique == \A e, f \in Live(env) :
    env[e].name = env[f].name /\ env[e].name # NoName => e = f

(***************************************************************************)
(* When the server drops an idle environment, to make room in env[] or to  *)
(* respect max_sticky_env, it drops the one released longest ago: never a  *)
(* younger one, and never the sticky one whose last client leaves just     *)
(* now, while another is idle.                                             *)
(***************************************************************************)
Evicted(e) ==
    /\ env[e].ref_count = 0
    /\ env'[e] = NULL \/ env'[e].sticky = 0

NotKept(e) ==
    /\ env[e].ref_count > 0 /\ env[e].sticky # 0
    /\ env'[e] = NULL

EvictsOldest == [][
    \A e \in EnvId :
        /\ Evicted(e) =>
            \A f \in Idle(env) \ {e} : env[e].sticky < env[f].sticky
        /\ NotKept(e) => Idle(env) = {}
    ]_vars

----------------------------------------------------------------------------
(***************************************************************************)
(* What makes the properties above inductive: a client's table names an    *)
(* environment once (conn1 returns the id it finds there), only connected  *)
(* clients have a table that is not empty, and the stamps of the idle      *)
(* environments are distinct times of the past.                            *)
(***************************************************************************)
OneSlotPerEnv == \A c \in Clients, j, k \in Slot :
    client[c][j] = client[c][k] /\ client[c][j] # -1 => j = k

TablesReset ==
    /\ \A c \in Clients \ connected : client[c] = NoEnvs
    /\ closing # None => closing \in connected

StampsOrdered ==
    /\ \A e \in Idle(env) : env[e].sticky <= sticky_time
    /\ \A e, f \in Idle(env) : env[e].sticky = env[f].sticky => e = f

(***************************************************************************)
(* The inductive invariant: no use of a freed environment, exact counts    *)
(* and names that find one environment, with the three facts they need.    *)
(***************************************************************************)
IInv ==
    /\ TypeOK
    /\ NoDanglingEnv
    /\ RefCountExact
    /\ StickyAccounting
    /\ NamesUnique
    /\ OneSlotPerEnv
    /\ TablesReset
    /\ StampsOrdered

----------------------------------------------------------------------------
(***************************************************************************)
(* What env[], the clients' tables, ref_count, sticky_cnt and sticky_time  *)
(* stand for: the clients that hold an environment are those whose table   *)
(* names it, an environment is kept while its ref_count is 0, and it was   *)
(* given back before another one if it has the smaller stamp.              *)
(***************************************************************************)
ReleasedBefore(tab) ==
    {p \in Idle(tab) \X Idle(tab) : tab[p[1]].sticky < tab[p[2]].sticky}

Leases == INSTANCE Leases WITH
    Envs    <- EnvId,
    MaxKept <- MaxStickyEnv,
    holders <- [e \in EnvId |-> Holders(e)],
    name    <- [e \in EnvId |-> env[e].name],
    sticky  <- {e \in EnvId : env[e].sticky # 0},
    kept    <- Idle(env),
    before  <- ReleasedBefore(env)

(***************************************************************************)
(* do_env.c keeps the promise of Leases: an environment exists exactly as  *)
(* long as a client holds it or it is kept, a name leads every client to   *)
(* the same one, one that is held is never dropped, of those that are kept *)
(* the first to be given back is dropped first, and that only when env[]   *)
(* is full or max_sticky_env are kept already.  A client that dies gives   *)
(* back everything it holds, one environment after the other.              *)
(***************************************************************************)
ImplementsLeases == Leases!Spec

=============================================================================
