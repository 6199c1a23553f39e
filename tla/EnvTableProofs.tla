--------------------------- MODULE EnvTableProofs ---------------------------
(***************************************************************************)
(* Proofs about EnvTable, for every number of clients, names, environments *)
(* and sticky environments: its invariants, and that it implements Leases. *)
(***************************************************************************)
EXTENDS EnvTable, SearchLemmas, FiniteSetTheorems, TLAPS

(***************************************************************************)
(* Environment ids and slots are indices; -1, the free slot, is neither,   *)
(* and the null pointer is a value of env[].                               *)
(***************************************************************************)
LEMMA IndicesAreNaturals ==
    /\ EnvId \in SUBSET Nat /\ Slot \in SUBSET Nat
    /\ -1 \notin EnvId
    /\ IsFiniteSet(EnvId)
    /\ NULL \in Env
<1>1. /\ EnvId \in SUBSET Nat /\ Slot \in SUBSET Nat
      /\ -1 \notin EnvId
      /\ NULL \in Env
  BY ConstAssumption DEF EnvId, Slot, NULL, Env
<1>2. IsFiniteSet(EnvId)
  BY ConstAssumption, FS_Interval DEF EnvId
<1> QED
  BY <1>1, <1>2

(***************************************************************************)
(* find_env_by_name, and the searches of a client's table, return an index *)
(* that has what was searched for.                                         *)
(***************************************************************************)
LEMMA SearchesFind ==
    ASSUME NEW c, NEW e, NEW n
    PROVE  /\ SlotsWith(c, e) # {} => FirstSlotWith(c, e) \in SlotsWith(c, e)
           /\ UsedSlots(c) # {} => FirstUsedSlot(c) \in UsedSlots(c)
           /\ NamedEnvs(n) # {} => find_env_by_name(n) \in NamedEnvs(n)
           /\ EnvId \ Live(env) # {} =>
                (CHOOSE f \in EnvId \ Live(env) :
                    \A g \in EnvId \ Live(env) : f <= g) \in EnvId \ Live(env)
<1>1. /\ SlotsWith(c, e) \in SUBSET Nat
      /\ UsedSlots(c) \in SUBSET Nat
      /\ NamedEnvs(n) \in SUBSET Nat
      /\ EnvId \ Live(env) \in SUBSET Nat
  BY IndicesAreNaturals DEF SlotsWith, UsedSlots, NamedEnvs, Live
<1>2. ASSUME NEW S \in SUBSET Nat, S # {}
      PROVE  (CHOOSE x \in S : \A y \in S : x <= y) \in S
  BY <1>2, SmallestExists
<1>3. SlotsWith(c, e) # {} => FirstSlotWith(c, e) \in SlotsWith(c, e)
  BY <1>1, <1>2 DEF FirstSlotWith
<1>4. UsedSlots(c) # {} => FirstUsedSlot(c) \in UsedSlots(c)
  BY <1>1, <1>2 DEF FirstUsedSlot
<1>5. NamedEnvs(n) # {} => find_env_by_name(n) \in NamedEnvs(n)
  BY <1>1, <1>2 DEF find_env_by_name
<1>6. EnvId \ Live(env) # {} =>
        (CHOOSE f \in EnvId \ Live(env) :
            \A g \in EnvId \ Live(env) : f <= g) \in EnvId \ Live(env)
  BY <1>1, <1>2
<1> QED
  BY <1>3, <1>4, <1>5, <1>6

(***************************************************************************)
(* disconnect_last_sticky picks an idle environment, and none was released *)
(* before it.                                                              *)
(***************************************************************************)
LEMMA LastStickyIsOldest ==
    ASSUME NEW tab \in [EnvId -> Env], Idle(tab) # {}
    PROVE  /\ last_sticky(tab) \in Idle(tab)
           /\ \A f \in Idle(tab) : tab[last_sticky(tab)].sticky <= tab[f].sticky
<1> DEFINE Stamps == {tab[e].sticky : e \in Idle(tab)}
           First(m) == {e \in Idle(tab) : tab[e].sticky = m}
           Downward(m) == {MaxEnv - e : e \in First(m)}
<1>1. /\ Idle(tab) \subseteq EnvId
      /\ \A e \in EnvId : tab[e].sticky \in Nat
  BY DEF Idle, Env
<1>2. Stamps \in SUBSET Nat /\ Stamps # {}
  BY <1>1
<1>3. PICK m \in Stamps : \A k \in Stamps : m <= k
  <2> HIDE DEF Stamps
  <2> QED BY <1>2, SmallestExists
<1>4. Downward(m) \in SUBSET Nat /\ Downward(m) # {}
  BY <1>1, <1>3, ConstAssumption DEF EnvId
<1>5. PICK d \in Downward(m) : \A k \in Downward(m) : d <= k
  <2> HIDE DEF Downward
  <2> QED BY <1>4, SmallestExists
<1>6. PICK e \in First(m) : d = MaxEnv - e
  BY <1>5
<1>7. \A f \in Idle(tab) \ {e} :
         \/ tab[e].sticky < tab[f].sticky
         \/ tab[e].sticky = tab[f].sticky /\ f < e
  <2> TAKE f \in Idle(tab) \ {e}
  <2>1. m <= tab[f].sticky /\ tab[e].sticky = m
    BY <1>3, <1>6
  <2>2. CASE tab[f].sticky = m
    <3>1. MaxEnv - f \in Downward(m)
      BY <2>2
    <3>2. MaxEnv - e <= MaxEnv - f
      BY <3>1, <1>5, <1>6
    <3> QED
      BY <3>2, <2>1, <2>2, <1>1, <1>6, ConstAssumption DEF EnvId
  <2>3. CASE tab[f].sticky # m
    BY <2>1, <2>3, <1>1
  <2> QED
    BY <2>2, <2>3
<1>8. /\ last_sticky(tab) \in Idle(tab)
      /\ \A f \in Idle(tab) \ {last_sticky(tab)} :
            \/ tab[last_sticky(tab)].sticky < tab[f].sticky
            \/ tab[last_sticky(tab)].sticky = tab[f].sticky /\ f < last_sticky(tab)
  BY <1>6, <1>7 DEF last_sticky
<1> QED
  BY <1>1, <1>8

----------------------------------------------------------------------------
(***************************************************************************)
(* Entering an environment in a client's table makes the client a holder   *)
(* of it, and of nothing else.                                             *)
(***************************************************************************)
LEMMA AddToClient ==
    ASSUME TypeOK, OneSlotPerEnv, TablesReset,
           NEW c \in connected, NEW e \in EnvId,
           ~Holds(c, e), HasFreeSlot(c),
           client' = add_env_to_client(c, e),
           UNCHANGED <<connected, closing>>
    PROVE  /\ client' \in [Clients -> [Slot -> EnvId \cup {-1}]]
           /\ OneSlotPerEnv' /\ TablesReset'
           /\ c \notin Holders(e)
           /\ Holders(e)' = Holders(e) \cup {c}
           /\ \A f \in EnvId \ {e} : Holders(f)' = Holders(f)
<1> DEFINE j == FirstSlotWith(c, -1)
<1>1. j \in Slot /\ client[c][j] = -1 /\ c \in Clients
  BY SearchesFind DEF HasFreeSlot, SlotsWith, TypeOK
<1>2. client' = [client EXCEPT ![c] = [client[c] EXCEPT ![j] = e]]
  BY <1>1 DEF add_env_to_client, TypeOK
<1> HIDE DEF j
<1>3. client' \in [Clients -> [Slot -> EnvId \cup {-1}]]
  BY <1>1, <1>2 DEF TypeOK
<1>4. OneSlotPerEnv'
  BY <1>1, <1>2, IndicesAreNaturals DEF OneSlotPerEnv, TypeOK, Holds
<1>5. TablesReset'
  BY <1>1, <1>2 DEF TablesReset, TypeOK
<1>6. c \notin Holders(e) /\ Holders(e)' = Holders(e) \cup {c}
  BY <1>1, <1>2, IndicesAreNaturals DEF Holders, Holds, TypeOK
<1>7. \A f \in EnvId \ {e} : Holders(f)' = Holders(f)
  BY <1>1, <1>2, IndicesAreNaturals DEF Holders, Holds, TypeOK
<1> QED
  BY <1>3, <1>4, <1>5, <1>6, <1>7

(***************************************************************************)
(* Freeing a slot takes the client from the holders of that environment    *)
(* only: it held it once.                                                  *)
(***************************************************************************)
LEMMA RemoveFromClient ==
    ASSUME TypeOK, OneSlotPerEnv, TablesReset,
           NEW c \in connected, NEW j \in Slot, NEW e \in EnvId,
           client[c][j] = e,
           client' = [client EXCEPT ![c][j] = -1],
           UNCHANGED <<connected, closing>>
    PROVE  /\ client' \in [Clients -> [Slot -> EnvId \cup {-1}]]
           /\ OneSlotPerEnv' /\ TablesReset'
           /\ c \in Holders(e)
           /\ Holders(e)' = Holders(e) \ {c}
           /\ \A f \in EnvId \ {e} : Holders(f)' = Holders(f)
<1>1. c \in Clients
  BY DEF TypeOK
<1>2. client' = [client EXCEPT ![c] = [client[c] EXCEPT ![j] = -1]]
  BY <1>1 DEF TypeOK
<1>3. client' \in [Clients -> [Slot -> EnvId \cup {-1}]]
  BY <1>1, <1>2 DEF TypeOK
<1>4. OneSlotPerEnv'
  BY <1>1, <1>2, IndicesAreNaturals DEF OneSlotPerEnv, TypeOK
<1>5. TablesReset'
  BY <1>1, <1>2 DEF TablesReset, TypeOK
<1>6. c \in Holders(e) /\ Holders(e)' = Holders(e) \ {c}
  <2>1. c \in Holders(e)
    BY <1>1 DEF Holders, Holds
  <2>2. \A k \in Slot : client'[c][k] # e
    BY <1>1, <1>2, IndicesAreNaturals DEF OneSlotPerEnv, TypeOK
  <2>3. \A d \in Clients \ {c} : client'[d] = client[d]
    BY <1>2 DEF TypeOK
  <2> QED
    BY <2>1, <2>2, <2>3 DEF Holders, Holds
<1>7. \A f \in EnvId \ {e} : Holders(f)' = Holders(f)
  BY <1>1, <1>2, IndicesAreNaturals DEF Holders, Holds, TypeOK
<1> QED
  BY <1>3, <1>4, <1>5, <1>6, <1>7

(***************************************************************************)
(* NoDanglingEnv seen from env[]: a freed environment has no holder.       *)
(***************************************************************************)
LEMMA NoDanglingHolders ==
    ASSUME TypeOK
    PROVE  NoDanglingEnv <=> \A e \in EnvId : env[e] = NULL => Holders(e) = {}
<1>1. ASSUME NoDanglingEnv, NEW e \in EnvId, env[e] = NULL, NEW c \in Holders(e)
      PROVE  FALSE
  <2>1. PICK j \in Slot : client[c][j] = e /\ c \in Clients
    BY <1>1 DEF Holders, Holds
  <2> QED
    BY <1>1, <2>1, IndicesAreNaturals DEF NoDanglingEnv
<1>2. ASSUME \A e \in EnvId : env[e] = NULL => Holders(e) = {},
             NEW c \in Clients, NEW j \in Slot, client[c][j] # -1
      PROVE  env[client[c][j]] # NULL
  <2>1. client[c][j] \in EnvId
    BY <1>2 DEF TypeOK
  <2>2. c \in Holders(client[c][j])
    BY DEF Holders, Holds
  <2> QED
    BY <1>2, <2>1, <2>2
<1> QED
  BY <1>1, <1>2 DEF NoDanglingEnv

(***************************************************************************)
(* What RefCountExact says of one environment: ref_count is positive when  *)
(* somebody uses it, an idle one is used by nobody.                        *)
(***************************************************************************)
LEMMA CountsOfHolders ==
    ASSUME TypeOK, NoDanglingEnv, RefCountExact, NEW e \in EnvId
    PROVE  /\ IsFiniteSet(Holders(e))
           /\ Cardinality(Holders(e)) \in Nat
           /\ e \in Idle(env) => Holders(e) = {}
           /\ Holders(e) # {} => env[e] # NULL /\ env[e].ref_count > 0
           /\ env[e] # NULL => env[e].ref_count >= 0
<1>1. IsFiniteSet(Holders(e))
  BY ConstAssumption, FS_Subset DEF Holders
<1>2. Cardinality(Holders(e)) \in Nat
  BY <1>1, FS_CardinalityType
<1>3. Cardinality(Holders(e)) = 0 <=> Holders(e) = {}
  BY <1>1, FS_EmptySet
<1>4. env[e] = NULL => env[e].ref_count = -1 /\ Holders(e) = {}
  BY NoDanglingHolders DEF NULL
<1>5. env[e] # NULL => env[e].ref_count = Cardinality(Holders(e))
  BY DEF RefCountExact
<1> QED
  BY <1>1, <1>2, <1>3, <1>4, <1>5 DEF Idle

(***************************************************************************)
(* The number of idle environments when one joins or leaves them.          *)
(***************************************************************************)
LEMMA IdleCount ==
    ASSUME NEW tab, NEW e
    PROVE  /\ IsFiniteSet(Idle(tab)) /\ Cardinality(Idle(tab)) \in Nat
           /\ e \notin Idle(tab) =>
                Cardinality(Idle(tab) \cup {e}) = Cardinality(Idle(tab)) + 1
           /\ e \in Idle(tab) =>
                Cardinality(Idle(tab) \ {e}) = Cardinality(Idle(tab)) - 1
<1>1. Idle(tab) \in SUBSET EnvId
  BY DEF Idle
<1>2. IsFiniteSet(Idle(tab)) /\ Cardinality(Idle(tab)) \in Nat
  BY <1>1, IndicesAreNaturals, FS_Subset, FS_CardinalityType
<1>3. e \notin Idle(tab) => Cardinality(Idle(tab) \cup {e}) = Cardinality(Idle(tab)) + 1
  BY <1>2, FS_AddElement
<1>4. e \in Idle(tab) => Cardinality(Idle(tab) \ {e}) = Cardinality(Idle(tab)) - 1
  BY <1>2, FS_RemoveElement
<1> QED
  BY <1>2, <1>3, <1>4

(***************************************************************************)
(* What IInv says of env[], the counters and the holders of each           *)
(* environment, without the clients' tables.                               *)
(***************************************************************************)
EnvFacts ==
    /\ env \in [EnvId -> Env] /\ sticky_cnt \in Int /\ sticky_time \in Nat
    /\ \A e \in EnvId :
        /\ env[e] = NULL => Holders(e) = {}
        /\ env[e] # NULL => env[e].ref_count = Cardinality(Holders(e))
    /\ StickyAccounting
    /\ NamesUnique
    /\ StampsOrdered

(***************************************************************************)
(* disconnect() keeps them, in each of its four outcomes: another client   *)
(* remains, the environment becomes idle, it becomes idle and the oldest   *)
(* idle one is freed, or it is freed itself.                               *)
(***************************************************************************)
LEMMA DisconnectPreserves ==
    ASSUME IInv, NEW e \in EnvId, NEW c \in Holders(e),
           Holders(e)' = Holders(e) \ {c},
           \A f \in EnvId \ {e} : Holders(f)' = Holders(f),
           disconnect(e)
    PROVE  EnvFacts'
<1> USE DEF IInv
<1>1. /\ env \in [EnvId -> Env] /\ sticky_cnt \in Int /\ sticky_time \in Nat
      /\ \A r \in Env : r.ref_count \in Int /\ r.sticky \in Nat
      /\ NULL \in Env /\ NULL.ref_count = -1
  BY IndicesAreNaturals DEF TypeOK, NULL, Env
<1>2. /\ env[e] # NULL
      /\ env[e].ref_count = Cardinality(Holders(e))
      /\ env[e].ref_count > 0
      /\ e \notin Idle(env)
      /\ Cardinality(Holders(e)') = env[e].ref_count - 1
      /\ env[e].ref_count = 1 => Holders(e)' = {}
  <2>1. /\ env[e] # NULL
        /\ env[e].ref_count = Cardinality(Holders(e))
        /\ env[e].ref_count > 0
        /\ IsFiniteSet(Holders(e))
    BY CountsOfHolders DEF RefCountExact
  <2>2. /\ IsFiniteSet(Holders(e) \ {c})
        /\ Cardinality(Holders(e) \ {c}) = Cardinality(Holders(e)) - 1
    BY <2>1, FS_RemoveElement
  <2>3. Cardinality(Holders(e) \ {c}) = 0 => Holders(e) \ {c} = {}
    BY <2>2, FS_EmptySet
  <2> QED
    BY <2>1, <2>2, <2>3, <1>1 DEF Idle
<1>3. \A f \in EnvId \ {e} :
        /\ env[f] = NULL => Holders(f)' = {}
        /\ env[f] # NULL => env[f].ref_count = Cardinality(Holders(f)')
        /\ f \in Idle(env) => Holders(f)' = {}
  BY NoDanglingHolders, CountsOfHolders DEF RefCountExact
<1>4. CASE ~LastClient(e) /\ env' = [env EXCEPT ![e].ref_count = @ - 1]
           /\ UNCHANGED <<sticky_cnt, sticky_time>>
  <2> DEFINE r == [env[e] EXCEPT !.ref_count = @ - 1]
  <2>1. r \in Env /\ env' = [env EXCEPT ![e] = r]
        /\ r.ref_count = env[e].ref_count - 1 /\ r.ref_count > 0
        /\ r.name = env[e].name
    BY <1>1, <1>2, <1>4 DEF LastClient, Env
  <2> HIDE DEF r
  <2>2. env' \in [EnvId -> Env] /\ Idle(env') = Idle(env)
    BY <1>1, <1>2, <2>1 DEF Idle
  <2>3. \A f \in EnvId : env'[f] = IF f = e THEN r ELSE env[f]
    BY <1>1, <2>1
  <2>4. r # NULL
    BY <1>1, <2>1
  <2>5. \A f \in EnvId :
            /\ env'[f] = NULL => Holders(f)' = {}
            /\ env'[f] # NULL => env'[f].ref_count = Cardinality(Holders(f)')
    BY <1>2, <1>3, <2>1, <2>3, <2>4
  <2>6. StickyAccounting'
    BY <1>2, <1>4, <2>2, <2>3 DEF StickyAccounting, Idle
  <2>7. NamesUnique'
    BY <1>2, <2>1, <2>3, <2>4 DEF NamesUnique, Live
  <2>8. StampsOrdered'
    BY <1>2, <1>4, <2>2, <2>3 DEF StampsOrdered, Idle
  <2> QED
    BY <1>1, <1>4, <2>2, <2>5, <2>6, <2>7, <2>8 DEF EnvFacts
<1>5. CASE LastClient(e) /\ env[e].sticky = 0
           /\ env' = [env EXCEPT ![e] = NULL]
           /\ UNCHANGED <<sticky_cnt, sticky_time>>
  <2>2. env' \in [EnvId -> Env] /\ Idle(env') = Idle(env)
    BY <1>1, <1>2, <1>5 DEF Idle
  <2>3. \A f \in EnvId : env'[f] = IF f = e THEN NULL ELSE env[f]
    BY <1>1, <1>5
  <2>5. \A f \in EnvId :
            /\ env'[f] = NULL => Holders(f)' = {}
            /\ env'[f] # NULL => env'[f].ref_count = Cardinality(Holders(f)')
    BY <1>1, <1>2, <1>3, <1>5, <2>3 DEF LastClient
  <2>6. StickyAccounting'
    BY <1>2, <1>5, <2>2, <2>3 DEF StickyAccounting, Idle
  <2>7. NamesUnique'
    BY <1>2, <2>3 DEF NamesUnique, Live
  <2>8. StampsOrdered'
    BY <1>2, <1>5, <2>2, <2>3 DEF StampsOrdered, Idle
  <2> QED
    BY <1>1, <1>5, <2>2, <2>5, <2>6, <2>7, <2>8 DEF EnvFacts
<1>6. CASE LastClient(e) /\ env[e].sticky # 0 /\ sticky_time' = sticky_time + 1
           /\ IF sticky_cnt + 1 > MaxStickyEnv
              THEN /\ env' = [released(e) EXCEPT ![last_sticky(released(e))] = NULL]
                   /\ UNCHANGED sticky_cnt
              ELSE /\ env' = released(e)
                   /\ sticky_cnt' = sticky_cnt + 1
  <2> DEFINE r == [name |-> env[e].name, ref_count |-> 0, sticky |-> sticky_time + 1]
             tab == released(e)
             v == last_sticky(tab)
  <2>1. /\ r \in Env /\ r.ref_count = 0 /\ r.sticky = sticky_time + 1
        /\ r.name = env[e].name
        /\ tab = [env EXCEPT ![e] = r]
    <3> HIDE DEF tab
    <3>1. r \in Env /\ r.ref_count = 0 /\ r.sticky = sticky_time + 1 /\ r.name = env[e].name
      <4>1. env[e] \in Env /\ sticky_time + 1 \in Nat
        BY <1>1
      <4> QED
        BY <4>1 DEF Env
    <3>2. tab = [env EXCEPT ![e] = r]
      BY DEF released, tab
    <3> QED BY <3>1, <3>2
  <2>2. Holders(e)' = {} /\ Cardinality(Holders(e)') = 0
    BY <1>1, <1>2, <1>6 DEF LastClient
  <2>3. /\ \A f \in EnvId : tab[f] = IF f = e THEN r ELSE env[f]
        /\ r # NULL
    <3> HIDE DEF r, tab
    <3> QED BY <1>1, <2>1
  <2> HIDE DEF r, tab
  <2>4. /\ tab \in [EnvId -> Env]
        /\ Idle(tab) = Idle(env) \cup {e}
        /\ Cardinality(Idle(tab)) = sticky_cnt + 1
        /\ Idle(tab) \subseteq EnvId
    <3>1. tab \in [EnvId -> Env] /\ Idle(tab) = Idle(env) \cup {e} /\ Idle(tab) \subseteq EnvId
      BY <1>1, <2>1 DEF Idle
    <3> QED
      BY <1>2, <3>1, IdleCount DEF StickyAccounting
  <2>5. /\ \A f \in Idle(tab) : tab[f].sticky <= sticky_time + 1 /\ tab[f].sticky # 0
        /\ \A f, g \in Idle(tab) : tab[f].sticky = tab[g].sticky => f = g
    <3>1. /\ \A f \in Idle(env) : /\ f \in EnvId /\ f # e /\ tab[f] = env[f]
                                 /\ env[f].sticky \in Nat
                                 /\ env[f].sticky <= sticky_time /\ env[f].sticky # 0
          /\ tab[e].sticky = sticky_time + 1
          /\ sticky_time \in Nat
      BY <1>1, <1>2, <2>1, <2>3 DEF StampsOrdered, StickyAccounting, Idle
    <3>2. \A f \in Idle(tab) : tab[f].sticky <= sticky_time + 1 /\ tab[f].sticky # 0
      BY <2>4, <3>1
    <3>3. \A f, g \in Idle(tab) : tab[f].sticky = tab[g].sticky => f = g
      <4> SUFFICES ASSUME NEW f \in Idle(tab), NEW g \in Idle(tab), tab[f].sticky = tab[g].sticky
                   PROVE  f = g
        OBVIOUS
      <4>1. CASE f = e \/ g = e
        BY <2>4, <3>1, <4>1
      <4>2. CASE f # e /\ g # e
        BY <2>4, <3>1, <4>2 DEF StampsOrdered
      <4> QED BY <4>1, <4>2
    <3> QED
      BY <3>2, <3>3
  <2>6. \A f \in EnvId :
            /\ tab[f] = NULL => Holders(f)' = {}
            /\ tab[f] # NULL => tab[f].ref_count = Cardinality(Holders(f)')
            /\ f \in Idle(tab) => Holders(f)' = {}
    BY <1>3, <2>1, <2>2, <2>3, <2>4
  <2>7. \A f, g \in EnvId :
            tab[f] # NULL /\ tab[g] # NULL /\ tab[f].name = tab[g].name
            /\ tab[f].name # NoName => f = g
    BY <1>2, <2>1, <2>3 DEF NamesUnique, Live
  <2>8. CASE sticky_cnt + 1 > MaxStickyEnv
    <3>1. v \in Idle(tab) /\ v \in EnvId
      BY <2>4, LastStickyIsOldest
    <3>2. env' = [tab EXCEPT ![v] = NULL] /\ sticky_cnt' = sticky_cnt
      BY <1>6, <2>8 DEF tab
    <3> HIDE DEF v
    <3>3. \A f \in EnvId : env'[f] = IF f = v THEN NULL ELSE tab[f]
      BY <2>4, <3>1, <3>2
    <3>4. /\ env' \in [EnvId -> Env]
          /\ Idle(env') = Idle(tab) \ {v}
          /\ Cardinality(Idle(env')) = sticky_cnt
      <4>1. env' \in [EnvId -> Env] /\ Idle(env') = Idle(tab) \ {v}
        BY <1>1, <2>4, <3>1, <3>2 DEF Idle
      <4>2. Cardinality(Idle(tab) \ {v}) = Cardinality(Idle(tab)) - 1
        BY <3>1, IdleCount
      <4> QED
        BY <1>1, <2>4, <4>1, <4>2
    <3>5. \A f \in EnvId :
            /\ env'[f] = NULL => Holders(f)' = {}
            /\ env'[f] # NULL => env'[f].ref_count = Cardinality(Holders(f)')
      BY <2>6, <3>1, <3>3
    <3>6. StickyAccounting'
      BY <1>1, <2>4, <2>5, <3>2, <3>3, <3>4 DEF StickyAccounting
    <3>7. NamesUnique'
      BY <2>7, <3>3 DEF NamesUnique, Live
    <3>8. StampsOrdered'
      BY <1>6, <2>4, <2>5, <3>3, <3>4 DEF StampsOrdered
    <3> QED
      BY <1>1, <1>6, <3>2, <3>4, <3>5, <3>6, <3>7, <3>8 DEF EnvFacts
  <2>9. CASE ~(sticky_cnt + 1 > MaxStickyEnv)
    <3>1. env' = tab /\ sticky_cnt' = sticky_cnt + 1
      BY <1>6, <2>9 DEF tab
    <3>2. StickyAccounting'
      <4>1. /\ Cardinality(Idle(env')) = sticky_cnt'
            /\ sticky_cnt' <= MaxStickyEnv
        <5>1. Cardinality(Idle(env')) = sticky_cnt'
          BY <2>4, <3>1
        <5>2. sticky_cnt \in Int /\ MaxStickyEnv \in Int
          BY <1>1, ConstAssumption
        <5> QED
          BY <2>9, <3>1, <5>1, <5>2
      <4>2. \A f \in Idle(env') : env'[f].sticky # 0
        BY <2>5, <3>1
      <4> QED
        BY <4>1, <4>2 DEF StickyAccounting
    <3>3. NamesUnique'
      BY <2>7, <3>1 DEF NamesUnique, Live
    <3>4. StampsOrdered'
      BY <1>6, <2>5, <3>1 DEF StampsOrdered
    <3> QED
      BY <1>1, <1>6, <2>4, <2>6, <3>1, <3>2, <3>3, <3>4 DEF EnvFacts
  <2> QED
    BY <2>8, <2>9
<1> QED
  BY <1>4, <1>5, <1>6 DEF disconnect

(***************************************************************************)
(* The two halves of IInv after a step make IInv.                          *)
(***************************************************************************)
LEMMA Assemble ==
    ASSUME connected' \subseteq Clients,
           client' \in [Clients -> [Slot -> EnvId \cup {-1}]],
           closing' \in Clients \cup {None},
           OneSlotPerEnv', TablesReset', EnvFacts'
    PROVE  IInv'
<1>1. TypeOK'
  BY DEF TypeOK, EnvFacts
<1>2. NoDanglingEnv'
  <2> SUFFICES ASSUME NEW c \in Clients, NEW j \in Slot, client'[c][j] # -1
               PROVE  env'[client'[c][j]] # NULL
    BY DEF NoDanglingEnv
  <2>1. PICK f \in EnvId : client'[c][j] = f
    OBVIOUS
  <2>2. c \in Holders(f)'
    BY <2>1 DEF Holders, Holds
  <2> QED
    BY <2>1, <2>2 DEF EnvFacts
<1>3. RefCountExact'
  BY DEF RefCountExact, EnvFacts
<1> QED
  BY <1>1, <1>2, <1>3 DEF IInv, EnvFacts

(***************************************************************************)
(* The invariant holds when the server starts: no client, no environment.  *)
(***************************************************************************)
LEMMA InitEstablishes == Init => IInv
<1> SUFFICES ASSUME Init PROVE IInv
  OBVIOUS
<1> USE DEF Init
<1>1. TypeOK
  BY IndicesAreNaturals, ConstAssumption DEF TypeOK, NoEnvs
<1>2. Idle(env) = {} /\ Live(env) = {}
  BY DEF Idle, Live, NULL
<1>3. StickyAccounting
  BY <1>2, FS_EmptySet, ConstAssumption DEF StickyAccounting
<1>4. NoDanglingEnv /\ OneSlotPerEnv /\ TablesReset
  BY DEF NoDanglingEnv, OneSlotPerEnv, TablesReset, NoEnvs
<1>5. RefCountExact /\ NamesUnique /\ StampsOrdered
  BY <1>2 DEF RefCountExact, NamesUnique, StampsOrdered
<1> QED
  BY <1>1, <1>3, <1>4, <1>5 DEF IInv

(***************************************************************************)
(* JS_CONNECT of an existing environment keeps the invariant: sticky_cnt   *)
(* drops exactly when the environment was idle.                            *)
(***************************************************************************)
LEMMA ConnectOldPreserves ==
    ASSUME IInv, NEW c \in Clients, NEW n \in Names \cup {NoName},
           js_connect_old(c, n)
    PROVE  IInv'
<1> USE DEF IInv
<1>0. PICK e \in EnvId : e = find_env_by_name(n) /\ env[e] # NULL
  BY SearchesFind DEF js_connect_old, NamedEnvs, Live
<1>1. /\ c \in connected /\ ~Holds(c, e) /\ HasFreeSlot(c)
      /\ client' = add_env_to_client(c, e)
      /\ sticky_cnt' = IF env[e].ref_count = 0 /\ env[e].sticky # 0 /\ sticky_cnt > 0
                       THEN sticky_cnt - 1 ELSE sticky_cnt
      /\ env' = [env EXCEPT ![e].ref_count = @ + 1]
      /\ UNCHANGED <<connected, sticky_time, closing>>
  BY <1>0 DEF js_connect_old, MayCommand
<1>2. /\ client' \in [Clients -> [Slot -> EnvId \cup {-1}]]
      /\ OneSlotPerEnv' /\ TablesReset'
      /\ c \notin Holders(e)
      /\ Holders(e)' = Holders(e) \cup {c}
      /\ \A f \in EnvId \ {e} : Holders(f)' = Holders(f)
  BY <1>1, AddToClient
<1>3. /\ env \in [EnvId -> Env] /\ sticky_cnt \in Int /\ sticky_time \in Nat
      /\ env[e].ref_count = Cardinality(Holders(e)) /\ env[e].ref_count \in Nat
      /\ NULL.ref_count = -1
  BY <1>0, CountsOfHolders DEF RefCountExact, TypeOK, NULL
<1>4. Cardinality(Holders(e)') = env[e].ref_count + 1
  <2>1. IsFiniteSet(Holders(e))
    BY CountsOfHolders
  <2>2. Cardinality(Holders(e) \cup {c}) = Cardinality(Holders(e)) + 1
    BY <1>2, <2>1, FS_AddElement
  <2> QED
    BY <1>2, <1>3, <2>2
<1> DEFINE r == [env[e] EXCEPT !.ref_count = @ + 1]
<1>5. /\ r \in Env /\ env' = [env EXCEPT ![e] = r]
      /\ r.ref_count = env[e].ref_count + 1
      /\ r.name = env[e].name /\ r.sticky = env[e].sticky
  BY <1>1, <1>3 DEF Env
<1> HIDE DEF r
<1>6. /\ env' \in [EnvId -> Env] /\ Idle(env') = Idle(env) \ {e}
      /\ \A f \in EnvId : env'[f] = IF f = e THEN r ELSE env[f]
  BY <1>3, <1>5 DEF Idle
<1>7. \A f \in EnvId :
        /\ env'[f] = NULL => Holders(f)' = {}
        /\ env'[f] # NULL => env'[f].ref_count = Cardinality(Holders(f)')
  <2>1. r # NULL
    BY <1>3, <1>5
  <2>2. \A f \in EnvId \ {e} :
            /\ env[f] = NULL => Holders(f)' = {}
            /\ env[f] # NULL => env[f].ref_count = Cardinality(Holders(f)')
    BY <1>2, NoDanglingHolders DEF RefCountExact
  <2> QED
    BY <1>4, <1>5, <1>6, <2>1, <2>2
<1>8. StickyAccounting'
  <2>1. Cardinality(Idle(env')) = sticky_cnt' /\ sticky_cnt' <= MaxStickyEnv
    <3>1. CASE e \in Idle(env)
      <4>1. env[e].ref_count = 0 /\ env[e].sticky # 0
        BY <3>1 DEF Idle, StickyAccounting
      <4>2. /\ Cardinality(Idle(env) \ {e}) = Cardinality(Idle(env)) - 1
            /\ IsFiniteSet(Idle(env) \ {e})
        BY <3>1, IdleCount, FS_RemoveElement
      <4>3. Cardinality(Idle(env) \ {e}) \in Nat
        BY <4>2, FS_CardinalityType
      <4>4. /\ Cardinality(Idle(env)) = sticky_cnt /\ sticky_cnt <= MaxStickyEnv
            /\ sticky_cnt \in Int /\ MaxStickyEnv \in Int
        BY <1>3, ConstAssumption DEF StickyAccounting
      <4>5. sticky_cnt > 0
        BY <4>2, <4>3, <4>4
      <4>6. sticky_cnt' = sticky_cnt - 1
        BY <1>1, <4>1, <4>5
      <4> QED
        BY <1>6, <4>2, <4>4, <4>6
    <3>2. CASE e \notin Idle(env)
      BY <1>1, <1>6, <3>2 DEF StickyAccounting, Idle
    <3> QED
      BY <3>1, <3>2
  <2>2. \A f \in Idle(env') : env'[f].sticky # 0
    BY <1>6 DEF StickyAccounting, Idle
  <2> QED
    BY <2>1, <2>2 DEF StickyAccounting
<1>9. NamesUnique'
  BY <1>0, <1>5, <1>6 DEF NamesUnique, Live
<1>10. StampsOrdered'
  BY <1>1, <1>6 DEF StampsOrdered, Idle
<1>11. EnvFacts'
  BY <1>1, <1>3, <1>6, <1>7, <1>8, <1>9, <1>10 DEF EnvFacts
<1> QED
  BY <1>1, <1>2, <1>11, Assemble DEF TypeOK

(***************************************************************************)
(* The entry conn1 uses for a new environment: a free one, or the one of   *)
(* an idle environment it frees; no client holds either.                   *)
(***************************************************************************)
LEMMA NewEid ==
    ASSUME IInv, EnvTableFull => Idle(env) # {}
    PROVE  /\ new_eid \in EnvId
           /\ Holders(new_eid) = {}
           /\ EnvTableFull => new_eid \in Idle(env)
           /\ ~EnvTableFull => env[new_eid] = NULL
<1> USE DEF IInv
<1>1. CASE EnvTableFull
  <2>1. new_eid = last_sticky(env)
    BY <1>1 DEF new_eid
  <2>2. new_eid \in Idle(env)
    BY <1>1, <2>1, LastStickyIsOldest DEF TypeOK
  <2>3. new_eid \in EnvId
    BY <2>2 DEF Idle
  <2> QED
    BY <1>1, <2>2, <2>3, CountsOfHolders
<1>2. CASE ~EnvTableFull
  <2>1. EnvId \ Live(env) # {}
    BY <1>2 DEF EnvTableFull, Live
  <2>2. new_eid \in EnvId \ Live(env)
    BY <1>2, <2>1, SearchesFind DEF new_eid
  <2>3. new_eid \in EnvId /\ env[new_eid] = NULL
    BY <2>2 DEF Live
  <2> QED
    BY <1>2, <2>3, NoDanglingHolders
<1> QED
  BY <1>1, <1>2

(***************************************************************************)
(* JS_CONNECT of a new environment keeps the invariant, also when an idle  *)
(* one was freed for it and when it cannot be made after all.              *)
(***************************************************************************)
LEMMA ConnectNewPreserves ==
    ASSUME IInv, NEW c \in Clients, NEW n \in Names \cup {NoName},
           js_connect_new(c, n)
    PROVE  IInv'
<1> USE DEF IInv
<1>0. PICK e \in EnvId : e = new_eid
  BY NewEid DEF js_connect_new
<1>1. /\ Holders(e) = {}
      /\ EnvTableFull => e \in Idle(env)
      /\ ~EnvTableFull => env[e] = NULL
  BY <1>0, NewEid DEF js_connect_new
<1>2. /\ c \in connected
      /\ NamedEnvs(n) = {}
      /\ sticky_cnt' = IF EnvTableFull THEN sticky_cnt - 1 ELSE sticky_cnt
      /\ UNCHANGED <<connected, sticky_time, closing>>
  BY DEF js_connect_new, MayCommand
<1>3. /\ env \in [EnvId -> Env] /\ sticky_cnt \in Int /\ sticky_time \in Nat
      /\ NULL \in Env /\ NULL.ref_count = -1 /\ new_env(n) \in Env
      /\ new_env(n).ref_count = 1 /\ new_env(n).name = n
  BY IndicesAreNaturals DEF TypeOK, NULL, new_env, Env
<1>4. /\ sticky_cnt' \in Int /\ sticky_cnt' <= MaxStickyEnv
      /\ Cardinality(Idle(env) \ {e}) = sticky_cnt'
  <2>1. /\ Cardinality(Idle(env)) = sticky_cnt /\ sticky_cnt <= MaxStickyEnv
        /\ sticky_cnt \in Int /\ MaxStickyEnv \in Int
    BY <1>3, ConstAssumption DEF StickyAccounting
  <2>2. CASE EnvTableFull
    <3>1. Cardinality(Idle(env) \ {e}) = Cardinality(Idle(env)) - 1
      BY <1>1, <2>2, IdleCount
    <3> QED
      BY <1>2, <2>1, <2>2, <3>1
  <2>3. CASE ~EnvTableFull
    <3>1. Idle(env) \ {e} = Idle(env)
      BY <1>1, <1>3, <2>3 DEF Idle
    <3> QED
      BY <1>2, <2>1, <2>3, <3>1
  <2> QED
    BY <2>2, <2>3
<1>5. ASSUME env'[e].ref_count # 0, \A f \in EnvId \ {e} : env'[f] = env[f]
      PROVE  StickyAccounting' /\ StampsOrdered'
  <2>1. Idle(env') = Idle(env) \ {e}
    BY <1>5 DEF Idle
  <2>2. \A f \in Idle(env') : f \in Idle(env) /\ env'[f] = env[f]
    BY <1>5, <2>1 DEF Idle
  <2>3. StickyAccounting'
    BY <1>4, <2>1, <2>2 DEF StickyAccounting
  <2>4. StampsOrdered'
    BY <1>2, <2>2 DEF StampsOrdered
  <2> QED
    BY <2>3, <2>4
<1>6. \A f \in EnvId \ {e} :
        /\ env[f] = NULL => Holders(f) = {}
        /\ env[f] # NULL => env[f].ref_count = Cardinality(Holders(f))
  BY NoDanglingHolders DEF RefCountExact
<1>7. CASE /\ HasFreeSlot(c)
           /\ client' = add_env_to_client(c, e)
           /\ env' = [env EXCEPT ![e] = new_env(n)]
  <2>1. ~Holds(c, e)
    BY <1>1 DEF Holders
  <2>2. /\ client' \in [Clients -> [Slot -> EnvId \cup {-1}]]
        /\ OneSlotPerEnv' /\ TablesReset'
        /\ Holders(e)' = Holders(e) \cup {c}
        /\ \A f \in EnvId \ {e} : Holders(f)' = Holders(f)
    BY <1>2, <1>7, <2>1, AddToClient
  <2>3. /\ env' \in [EnvId -> Env]
        /\ \A f \in EnvId : env'[f] = IF f = e THEN new_env(n) ELSE env[f]
        /\ new_env(n) # NULL
    BY <1>3, <1>7
  <2>8. StickyAccounting' /\ StampsOrdered'
    BY <1>3, <1>5, <2>3
  <2>4. Cardinality(Holders(e)') = 1
    BY <1>1, <2>2, FS_Singleton
  <2>5. \A f \in EnvId :
            /\ env'[f] = NULL => Holders(f)' = {}
            /\ env'[f] # NULL => env'[f].ref_count = Cardinality(Holders(f)')
    BY <1>3, <1>6, <2>2, <2>3, <2>4
  <2>6. NamesUnique'
    <3>1. \A f \in Live(env) : n # NoName => env[f].name # n
      BY <1>2 DEF NamedEnvs
    <3> QED
      BY <1>3, <2>3, <3>1 DEF NamesUnique, Live
  <2>7. EnvFacts'
    BY <1>2, <1>3, <1>4, <2>3, <2>5, <2>6, <2>8 DEF EnvFacts
  <2> QED
    BY <1>2, <2>2, <2>7, Assemble DEF TypeOK
<1>8. CASE env' = [env EXCEPT ![e] = NULL] /\ UNCHANGED client
  <2>1. /\ env' \in [EnvId -> Env]
        /\ \A f \in EnvId : env'[f] = IF f = e THEN NULL ELSE env[f]
    BY <1>3, <1>8
  <2>8. StickyAccounting' /\ StampsOrdered'
    BY <1>3, <1>5, <2>1
  <2>2. \A f \in EnvId : Holders(f)' = Holders(f)
    BY <1>8 DEF Holders, Holds
  <2>3. OneSlotPerEnv' /\ TablesReset'
    BY <1>2, <1>8 DEF OneSlotPerEnv, TablesReset
  <2>4. \A f \in EnvId :
            /\ env'[f] = NULL => Holders(f)' = {}
            /\ env'[f] # NULL => env'[f].ref_count = Cardinality(Holders(f)')
    BY <1>1, <1>6, <2>1, <2>2
  <2>5. NamesUnique'
    BY <2>1 DEF NamesUnique, Live
  <2>6. EnvFacts'
    BY <1>2, <1>3, <1>4, <2>1, <2>4, <2>5, <2>8 DEF EnvFacts
  <2> QED
    BY <1>2, <1>8, <2>3, <2>6, Assemble DEF TypeOK
<1> QED
  BY <1>0, <1>7, <1>8 DEF js_connect_new

(***************************************************************************)
(* JS_ENV_STICKY and JS_ENV_UN_STICKY reach only environments in use, so   *)
(* they never touch the stamp of an idle one.                              *)
(***************************************************************************)
LEMMA StickyPreserves ==
    ASSUME IInv, NEW c \in Clients, NEW e \in EnvId,
           js_env_sticky(c, e) \/ js_env_un_sticky(c, e)
    PROVE  IInv'
<1> USE DEF IInv
<1>1. PICK k \in {0, 1} :
        /\ env' = [env EXCEPT ![e].sticky = k]
        /\ Holds(c, e)
        /\ UNCHANGED <<connected, client, sticky_cnt, sticky_time, closing>>
  BY DEF js_env_sticky, js_env_un_sticky
<1>2. env[e] # NULL /\ env[e].ref_count > 0 /\ e \notin Idle(env)
  <2>1. Holders(e) # {}
    BY <1>1 DEF Holders
  <2> QED
    BY <2>1, CountsOfHolders DEF Idle
<1> DEFINE r == [env[e] EXCEPT !.sticky = k]
<1>3. /\ env \in [EnvId -> Env] /\ NULL.ref_count = -1
      /\ r \in Env /\ env' = [env EXCEPT ![e] = r]
      /\ r.ref_count = env[e].ref_count /\ r.name = env[e].name
  <2>1. env \in [EnvId -> Env]
    BY DEF TypeOK
  <2>2. env[e] \in Env
    BY <2>1
  <2>3. r \in Env /\ r.ref_count = env[e].ref_count /\ r.name = env[e].name
    BY <2>2 DEF Env
  <2>4. env' = [env EXCEPT ![e] = r]
    BY <1>1
  <2>5. NULL.ref_count = -1
    BY DEF NULL
  <2> QED
    BY <2>1, <2>3, <2>4, <2>5
<1> HIDE DEF r
<1>4. /\ env' \in [EnvId -> Env] /\ Idle(env') = Idle(env)
      /\ \A f \in EnvId : env'[f] = IF f = e THEN r ELSE env[f]
      /\ r # NULL
  BY <1>2, <1>3 DEF Idle
<1>5. \A f \in EnvId : Holders(f)' = Holders(f)
  BY <1>1 DEF Holders, Holds
<1>6. \A f \in EnvId :
        /\ env'[f] = NULL => Holders(f)' = {}
        /\ env'[f] # NULL => env'[f].ref_count = Cardinality(Holders(f)')
  BY <1>2, <1>3, <1>4, <1>5, NoDanglingHolders DEF RefCountExact
<1>7. \A f \in Idle(env') : f \in EnvId /\ env'[f] = env[f]
  BY <1>2, <1>4 DEF Idle
<1>8. StickyAccounting' /\ StampsOrdered'
  <2>1. StickyAccounting'
    BY <1>1, <1>4, <1>7 DEF StickyAccounting
  <2>2. StampsOrdered'
    <3>0. sticky_time' = sticky_time
      BY <1>1
    <3>1. \A f \in Idle(env') : env'[f].sticky <= sticky_time'
      BY <3>0, <1>4, <1>7 DEF StampsOrdered
    <3>2. \A f, g \in Idle(env') : env'[f].sticky = env'[g].sticky => f = g
      BY <1>4, <1>7 DEF StampsOrdered
    <3> QED
      BY <3>1, <3>2 DEF StampsOrdered
  <2> QED
    BY <2>1, <2>2
<1>9. NamesUnique'
  BY <1>2, <1>3, <1>4 DEF NamesUnique, Live
<1>10. EnvFacts'
  BY <1>1, <1>4, <1>6, <1>8, <1>9 DEF EnvFacts, TypeOK
<1>11. OneSlotPerEnv' /\ TablesReset'
  BY <1>1 DEF OneSlotPerEnv, TablesReset
<1> QED
  BY <1>1, <1>10, <1>11, Assemble DEF TypeOK

(***************************************************************************)
(* Freeing one slot of a client and disconnecting its environment keeps    *)
(* the invariant: JS_DISCONNECT does it once, del_client for every slot.   *)
(***************************************************************************)
LEMMA DisconnectOneSlot ==
    ASSUME IInv, NEW c \in connected, NEW j \in Slot, client[c][j] # -1,
           client' = [client EXCEPT ![c][j] = -1],
           disconnect(client[c][j]),
           UNCHANGED <<connected, closing>>
    PROVE  IInv'
<1> USE DEF IInv
<1>1. PICK e \in EnvId : client[c][j] = e
  BY DEF TypeOK
<1>2. /\ client' \in [Clients -> [Slot -> EnvId \cup {-1}]]
      /\ OneSlotPerEnv' /\ TablesReset'
      /\ c \in Holders(e)
      /\ Holders(e)' = Holders(e) \ {c}
      /\ \A f \in EnvId \ {e} : Holders(f)' = Holders(f)
  BY <1>1, RemoveFromClient
<1>3. disconnect(e)
  BY <1>1
<1>4. EnvFacts'
  BY <1>2, <1>3, DisconnectPreserves
<1> QED
  BY <1>2, <1>4, Assemble DEF TypeOK

(***************************************************************************)
(* Steps that leave env[] and every holder alone keep the invariant.       *)
(***************************************************************************)
LEMMA EnvUntouched ==
    ASSUME IInv, \A f \in EnvId : Holders(f)' = Holders(f),
           UNCHANGED <<env, sticky_cnt, sticky_time>>
    PROVE  EnvFacts'
<1> USE DEF IInv
<1>1. env' \in [EnvId -> Env] /\ sticky_cnt' \in Int /\ sticky_time' \in Nat
  BY DEF TypeOK
<1>2. \A e \in EnvId :
        /\ env'[e] = NULL => Holders(e)' = {}
        /\ env'[e] # NULL => env'[e].ref_count = Cardinality(Holders(e)')
  BY NoDanglingHolders DEF RefCountExact
<1>3. StickyAccounting' /\ NamesUnique' /\ StampsOrdered'
  BY DEF StickyAccounting, NamesUnique, StampsOrdered
<1> QED
  BY <1>1, <1>2, <1>3 DEF EnvFacts

(***************************************************************************)
(* Every step of the server keeps the invariant.                           *)
(***************************************************************************)
LEMMA NextPreserves == IInv /\ [Next]_vars => IInv'
<1> SUFFICES ASSUME IInv, [Next]_vars PROVE IInv'
  OBVIOUS
<1> USE DEF IInv
<1>1. ASSUME NEW c \in Clients, new_client(c) PROVE IInv'
  <2>1. /\ closing = None /\ c \notin connected /\ connected' = connected \cup {c}
        /\ client' = [client EXCEPT ![c] = NoEnvs]
        /\ UNCHANGED <<env, sticky_cnt, sticky_time, closing>>
    BY <1>1 DEF new_client
  <2>2. client' = client
    BY <2>1 DEF TablesReset, TypeOK
  <2>3. EnvFacts'
    BY <2>1, <2>2, EnvUntouched DEF Holders, Holds
  <2>4. OneSlotPerEnv' /\ TablesReset'
    BY <2>1, <2>2 DEF OneSlotPerEnv, TablesReset
  <2> QED
    BY <2>1, <2>2, <2>3, <2>4, Assemble DEF TypeOK
<1>2. ASSUME NEW c \in Clients, del_client(c) PROVE IInv'
  <2>1. /\ c \in connected /\ closing' = c
        /\ UNCHANGED <<connected, client, env, sticky_cnt, sticky_time>>
    BY <1>2 DEF del_client, MayCommand
  <2>2. EnvFacts'
    BY <2>1, EnvUntouched DEF Holders, Holds
  <2>3. OneSlotPerEnv' /\ TablesReset'
    BY <2>1 DEF OneSlotPerEnv, TablesReset
  <2> QED
    BY <2>1, <2>2, <2>3, Assemble DEF TypeOK
<1>3. ASSUME NEW c \in Clients, NEW e \in EnvId, js_disconnect(c, e) PROVE IInv'
  <2>1. /\ c \in connected
        /\ client' = [client EXCEPT ![c][FirstSlotWith(c, e)] = -1]
        /\ disconnect(e)
        /\ UNCHANGED <<connected, closing>>
    BY <1>3 DEF js_disconnect, MayCommand
  <2>2. FirstSlotWith(c, e) \in Slot /\ client[c][FirstSlotWith(c, e)] = e
    BY <1>3, SearchesFind DEF js_disconnect, Holds, SlotsWith
  <2> QED
    BY <2>1, <2>2, DisconnectOneSlot, IndicesAreNaturals
<1>4. ASSUME disconnect_next_env PROVE IInv'
  <2>1. /\ closing \in connected
        /\ FirstUsedSlot(closing) \in Slot
        /\ client[closing][FirstUsedSlot(closing)] # -1
    BY <1>4, SearchesFind DEF disconnect_next_env, TablesReset, UsedSlots
  <2>2. PICK c \in connected, j \in Slot : c = closing /\ j = FirstUsedSlot(closing)
    BY <2>1
  <2> QED
    BY <1>4, <2>1, <2>2, DisconnectOneSlot DEF disconnect_next_env
<1>5. ASSUME del_client_done PROVE IInv'
  <2>1. /\ closing \in connected /\ UsedSlots(closing) = {}
        /\ connected' = connected \ {closing} /\ closing' = None
        /\ UNCHANGED <<client, env, sticky_cnt, sticky_time>>
    BY <1>5 DEF del_client_done, TablesReset
  <2>2. client[closing] = NoEnvs
    BY <2>1 DEF UsedSlots, NoEnvs, TypeOK
  <2>3. EnvFacts'
    BY <2>1, EnvUntouched DEF Holders, Holds
  <2>4. OneSlotPerEnv' /\ TablesReset'
    BY <2>1, <2>2 DEF OneSlotPerEnv, TablesReset
  <2> QED
    BY <2>1, <2>3, <2>4, Assemble DEF TypeOK
<1>6. ASSUME UNCHANGED vars PROVE IInv'
  <2>1. EnvFacts'
    BY <1>6, EnvUntouched DEF vars, Holders, Holds
  <2>2. OneSlotPerEnv' /\ TablesReset'
    BY <1>6 DEF vars, OneSlotPerEnv, TablesReset
  <2> QED
    BY <1>6, <2>1, <2>2, Assemble DEF vars, TypeOK
<1> QED
  BY <1>1, <1>2, <1>3, <1>4, <1>5, <1>6,
     ConnectOldPreserves, ConnectNewPreserves, StickyPreserves DEF Next

----------------------------------------------------------------------------
(***************************************************************************)
(* In every run of the server the inductive invariant holds.               *)
(***************************************************************************)
THEOREM Invariance == Spec => []IInv
BY InitEstablishes, NextPreserves, PTL DEF Spec

(***************************************************************************)
(* The variables of do_env.c keep their types: in particular no id in a    *)
(* client's table is outside env[].                                        *)
(***************************************************************************)
THEOREM TypeCorrect == Spec => []TypeOK
<1>1. IInv => TypeOK
  BY DEF IInv
<1> QED
  BY <1>1, Invariance, PTL

(***************************************************************************)
(* No client's table ever names a freed environment, whatever the other    *)
(* clients connect, disconnect, leave behind or evict.                     *)
(***************************************************************************)
THEOREM NoUseAfterFree == Spec => []NoDanglingEnv
<1>1. IInv => NoDanglingEnv
  BY DEF IInv
<1> QED
  BY <1>1, Invariance, PTL

(***************************************************************************)
(* ref_count is always the number of clients that use the environment.     *)
(***************************************************************************)
THEOREM ReferenceCounting == Spec => []RefCountExact
<1>1. IInv => RefCountExact
  BY DEF IInv
<1> QED
  BY <1>1, Invariance, PTL

(***************************************************************************)
(* sticky_cnt is always the number of idle environments, all of them       *)
(* sticky, and at most max_sticky_env.                                     *)
(***************************************************************************)
THEOREM StickyCounting == Spec => []StickyAccounting
<1>1. IInv => StickyAccounting
  BY DEF IInv
<1> QED
  BY <1>1, Invariance, PTL

(***************************************************************************)
(* At any time a non-empty name belongs to at most one environment.        *)
(***************************************************************************)
THEOREM UniqueNames == Spec => []NamesUnique
<1>1. IInv => NamesUnique
  BY DEF IInv
<1> QED
  BY <1>1, Invariance, PTL

----------------------------------------------------------------------------
(***************************************************************************)
(* disconnect() of an environment in use frees no idle environment but the *)
(* oldest one.                                                             *)
(***************************************************************************)
LEMMA DisconnectEvictsOldest ==
    ASSUME IInv, NEW x \in EnvId, Holders(x) # {}, disconnect(x),
           NEW e \in EnvId, Evicted(e), NEW f \in Idle(env) \ {e}
    PROVE  env[e].sticky < env[f].sticky
<1> USE DEF IInv
<1>1. /\ env \in [EnvId -> Env] /\ sticky_time \in Nat
      /\ NULL \in Env /\ NULL.ref_count = -1
  BY IndicesAreNaturals DEF TypeOK, NULL
<1>2. /\ e \in Idle(env) /\ f \in Idle(env) /\ f \in EnvId /\ e # f
      /\ env[e].ref_count = 0 /\ env[e].sticky # 0
      /\ env[e].sticky \in Nat /\ env[f].sticky \in Nat
  BY <1>1 DEF Evicted, Idle, StickyAccounting, Env
<1>3. x # e /\ x # f
  BY <1>2, CountsOfHolders
<1>4. env'[e] # env[e]
  BY <1>1, <1>2 DEF Evicted
<1>5. PICK v \in EnvId : /\ v = last_sticky(released(x))
                         /\ env' = [released(x) EXCEPT ![v] = NULL]
  <2>1. \A h \in EnvId \ {x} : released(x)[h] = env[h]
    BY <1>1 DEF released
  <2>2. env' # [env EXCEPT ![x].ref_count = @ - 1] /\ env' # [env EXCEPT ![x] = NULL]
    BY <1>1, <1>3, <1>4
  <2>3. env' # released(x)
    BY <1>3, <1>4, <2>1
  <2>4. released(x) \in [EnvId -> Env] /\ x \in Idle(released(x))
    <3>1. env[x] \in Env /\ sticky_time + 1 \in Nat
      BY <1>1
    <3>2. [name |-> env[x].name, ref_count |-> 0, sticky |-> sticky_time + 1] \in Env
      BY <3>1 DEF Env
    <3> QED
      BY <1>1, <3>2 DEF released, Idle
  <2>5. last_sticky(released(x)) \in EnvId
    BY <2>4, LastStickyIsOldest DEF Idle
  <2> QED
    BY <2>2, <2>3, <2>5 DEF disconnect
<1>6. /\ released(x) \in [EnvId -> Env]
      /\ \A h \in EnvId \ {x} : released(x)[h] = env[h]
      /\ f \in Idle(released(x))
  <2>1. [name |-> env[x].name, ref_count |-> 0, sticky |-> sticky_time + 1] \in Env
    <3>1. env[x] \in Env /\ sticky_time + 1 \in Nat
      BY <1>1
    <3> QED
      BY <3>1 DEF Env
  <2> QED
    BY <1>1, <1>2, <1>3, <2>1 DEF released, Idle
<1>7. e = v
  BY <1>3, <1>4, <1>5, <1>6
<1>8. released(x)[e].sticky <= released(x)[f].sticky
  BY <1>5, <1>6, <1>7, LastStickyIsOldest
<1>9. env[e].sticky <= env[f].sticky
  BY <1>2, <1>3, <1>6, <1>8
<1>10. env[e].sticky # env[f].sticky
  BY <1>2 DEF StampsOrdered
<1> QED
  BY <1>2, <1>9, <1>10

(***************************************************************************)
(* The same of conn1, which frees an idle environment when env[] is full.  *)
(***************************************************************************)
LEMMA ConnectEvictsOldest ==
    ASSUME IInv, NEW c \in Clients, NEW n \in Names \cup {NoName},
           js_connect_new(c, n),
           NEW e \in EnvId, Evicted(e), NEW f \in Idle(env) \ {e}
    PROVE  env[e].sticky < env[f].sticky
<1> USE DEF IInv
<1>1. env \in [EnvId -> Env] /\ NULL.ref_count = -1
  BY DEF TypeOK, NULL
<1>2. /\ e \in Idle(env) /\ f \in Idle(env) /\ f \in EnvId /\ e # f
      /\ env[e].ref_count = 0 /\ env[e].sticky # 0
      /\ env[e].sticky \in Nat /\ env[f].sticky \in Nat
  BY <1>1 DEF Evicted, Idle, StickyAccounting, Env
<1>3. \A h \in EnvId \ {new_eid} : env'[h] = env[h]
  BY <1>1 DEF js_connect_new
<1>4. e = new_eid
  BY <1>1, <1>2, <1>3 DEF Evicted
<1>5. EnvTableFull
  BY <1>1, <1>2, <1>4, NewEid DEF js_connect_new
<1>6. e = last_sticky(env)
  BY <1>4, <1>5 DEF new_eid
<1>7. env[e].sticky <= env[f].sticky
  BY <1>1, <1>2, <1>6, LastStickyIsOldest
<1>8. env[e].sticky # env[f].sticky
  BY <1>2 DEF StampsOrdered
<1> QED
  BY <1>2, <1>7, <1>8

(***************************************************************************)
(* disconnect() keeps the sticky environment its last client gives back,   *)
(* whose stamp is the newest, as long as there is another one to drop.     *)
(***************************************************************************)
LEMMA NewestIsKept ==
    ASSUME IInv, NEW x \in EnvId, disconnect(x),
           NEW e \in EnvId, NotKept(e), NEW f \in Idle(env)
    PROVE  FALSE
<1> USE DEF IInv
<1>1. /\ env \in [EnvId -> Env] /\ sticky_time \in Nat
      /\ NULL \in Env /\ NULL.ref_count = -1
  BY IndicesAreNaturals DEF TypeOK, NULL
<1>2. /\ f \in EnvId /\ e # f /\ env[f].ref_count = 0
      /\ env[f].sticky \in Nat /\ env[f].sticky <= sticky_time
      /\ env[e].ref_count > 0 /\ env[e].sticky # 0 /\ env'[e] = NULL
      /\ env[e] # NULL
  BY <1>1 DEF NotKept, Idle, StampsOrdered, Env
<1>3. \A h \in EnvId \ {x} : released(x)[h] = env[h]
  BY <1>1 DEF released
<1>4. /\ released(x) \in [EnvId -> Env]
      /\ released(x)[x].ref_count = 0
      /\ released(x)[x].sticky = sticky_time + 1
  <2>1. [name |-> env[x].name, ref_count |-> 0, sticky |-> sticky_time + 1] \in Env
    <3>1. env[x] \in Env /\ sticky_time + 1 \in Nat
      BY <1>1
    <3> QED
      BY <3>1 DEF Env
  <2> QED
    BY <1>1, <2>1 DEF released
<1>5. x \in Idle(released(x)) /\ released(x)[e] # NULL
  BY <1>2, <1>3, <1>4 DEF Idle, NULL
<1>6. ASSUME env' = [env EXCEPT ![x].ref_count = @ - 1], ~LastClient(x)
      PROVE  FALSE
  <2>1. e = x /\ env[x].ref_count \in Int /\ env[x].ref_count > 1
    BY <1>1, <1>2, <1>6 DEF LastClient, Env
  <2>2. env'[x].ref_count = env[x].ref_count - 1
    BY <1>1, <1>6 DEF Env
  <2> QED
    BY <1>1, <1>2, <2>1, <2>2
<1>7. ASSUME env' = [env EXCEPT ![x] = NULL], env[x].sticky = 0
      PROVE  FALSE
  BY <1>1, <1>2, <1>7
<1>8. ASSUME NEW v, v = last_sticky(released(x)),
             env' = [released(x) EXCEPT ![v] = NULL]
      PROVE  FALSE
  <2>1. /\ v \in Idle(released(x))
        /\ \A h \in Idle(released(x)) : released(x)[v].sticky <= released(x)[h].sticky
    BY <1>4, <1>5, <1>8, LastStickyIsOldest
  <2>2. e = v
    BY <1>1, <1>2, <1>4, <1>5, <1>8
  <2>3. e = x
    BY <1>2, <1>3, <2>1, <2>2 DEF Idle
  <2>4. f \in Idle(released(x)) /\ released(x)[f] = env[f]
    BY <1>2, <1>3, <2>3 DEF Idle
  <2> QED
    BY <1>1, <1>2, <1>4, <2>1, <2>2, <2>3, <2>4
<1>9. env' # released(x)
  BY <1>2, <1>5
<1> QED
  BY <1>6, <1>7, <1>8, <1>9 DEF disconnect

(***************************************************************************)
(* The server drops idle environments in the order of their release, and   *)
(* keeps the one just released before those, for every size of env[] and   *)
(* every max_sticky_env.                                                   *)
(***************************************************************************)
THEOREM OldestIsEvicted == Spec => EvictsOldest
<1> DEFINE Oldest == \A e \in EnvId : Evicted(e) =>
                       \A f \in Idle(env) \ {e} : env[e].sticky < env[f].sticky
           Newest == \A e \in EnvId : NotKept(e) => Idle(env) = {}
           Act == \A e \in EnvId :
                    /\ Evicted(e) =>
                        \A f \in Idle(env) \ {e} : env[e].sticky < env[f].sticky
                    /\ NotKept(e) => Idle(env) = {}
<1>1. IInv /\ Next => Oldest
  <2> SUFFICES ASSUME IInv, Next,
                      NEW e \in EnvId, Evicted(e), NEW f \in Idle(env) \ {e}
               PROVE  env[e].sticky < env[f].sticky
    OBVIOUS
  <2> USE DEF IInv
  <2>1. /\ env \in [EnvId -> Env] /\ NULL.ref_count = -1
        /\ e \in Idle(env) /\ env[e].ref_count = 0 /\ env[e].sticky # 0
    BY DEF TypeOK, NULL, Evicted, Idle, StickyAccounting
  <2>2. env' # env
    BY <2>1 DEF Evicted
  <2>3. ASSUME NEW c \in Clients, NEW n \in Names \cup {NoName}, js_connect_old(c, n)
        PROVE  FALSE
    <3>1. PICK x \in EnvId : env' = [env EXCEPT ![x].ref_count = @ + 1]
      BY <2>3, SearchesFind DEF js_connect_old, NamedEnvs, Live
    <3>2. env'[e].sticky = env[e].sticky /\ env'[e].ref_count \in {0, 1}
      BY <2>1, <3>1 DEF Env
    <3> QED
      BY <2>1, <3>2 DEF Evicted
  <2>4. ASSUME NEW c \in Clients, NEW x \in EnvId,
               js_env_sticky(c, x) \/ js_env_un_sticky(c, x)
        PROVE  FALSE
    <3>1. Holders(x) # {}
      BY <2>4 DEF js_env_sticky, js_env_un_sticky, Holders
    <3>2. x # e
      BY <2>1, <3>1, CountsOfHolders
    <3>3. env'[e] = env[e]
      BY <2>1, <2>4, <3>2 DEF js_env_sticky, js_env_un_sticky
    <3> QED
      BY <2>1, <3>3 DEF Evicted
  <2>5. ASSUME NEW c \in Clients, NEW x \in EnvId, js_disconnect(c, x)
        PROVE  env[e].sticky < env[f].sticky
    <3>1. Holders(x) # {} /\ disconnect(x)
      BY <2>5 DEF js_disconnect, Holders
    <3> QED
      BY <3>1, DisconnectEvictsOldest
  <2>6. ASSUME disconnect_next_env
        PROVE  env[e].sticky < env[f].sticky
    <3>1. /\ closing \in connected /\ closing \in Clients
          /\ FirstUsedSlot(closing) \in Slot
          /\ client[closing][FirstUsedSlot(closing)] # -1
      BY <2>6, SearchesFind DEF disconnect_next_env, TablesReset, UsedSlots, TypeOK
    <3>2. PICK x \in EnvId : x = client[closing][FirstUsedSlot(closing)]
      BY <3>1 DEF TypeOK
    <3>3. Holders(x) # {} /\ disconnect(x)
      BY <2>6, <3>1, <3>2 DEF disconnect_next_env, Holders, Holds
    <3> QED
      BY <3>3, DisconnectEvictsOldest
  <2>7. ASSUME NEW c \in Clients, new_client(c) \/ del_client(c) PROVE FALSE
    BY <2>2, <2>7 DEF new_client, del_client
  <2>8. ASSUME del_client_done PROVE FALSE
    BY <2>2, <2>8 DEF del_client_done
  <2> QED
    BY <2>3, <2>4, <2>5, <2>6, <2>7, <2>8, ConnectEvictsOldest DEF Next
<1>2. IInv /\ Next => Newest
  <2> SUFFICES ASSUME IInv, Next,
                      NEW e \in EnvId, NotKept(e), NEW f \in Idle(env)
               PROVE  FALSE
    OBVIOUS
  <2> USE DEF IInv
  <2>1. /\ env \in [EnvId -> Env] /\ NULL.ref_count = -1
        /\ env[e].ref_count > 0 /\ env[e] # NULL /\ env'[e] = NULL
    BY DEF TypeOK, NULL, NotKept
  <2>2. env' # env
    BY <2>1
  <2>3. ASSUME NEW c \in Clients, NEW n \in Names \cup {NoName}, js_connect_old(c, n)
        PROVE  FALSE
    <3>1. PICK x \in EnvId : env' = [env EXCEPT ![x].ref_count = @ + 1]
      BY <2>3, SearchesFind DEF js_connect_old, NamedEnvs, Live
    <3>2. env'[e].ref_count > 0
      BY <2>1, <3>1 DEF Env
    <3> QED
      BY <2>1, <3>2
  <2>4. ASSUME NEW c \in Clients, NEW n \in Names \cup {NoName}, js_connect_new(c, n)
        PROVE  FALSE
    <3>1. \A h \in EnvId \ {new_eid} : env'[h] = env[h]
      BY <2>1, <2>4 DEF js_connect_new
    <3>2. e = new_eid
      BY <2>1, <3>1
    <3>3. EnvTableFull => Idle(env) # {}
      BY <2>4 DEF js_connect_new
    <3>4. new_eid \in Idle(env) \/ env[new_eid] = NULL
      BY <3>3, NewEid
    <3> QED
      BY <2>1, <3>2, <3>4 DEF Idle
  <2>5. ASSUME NEW c \in Clients, NEW x \in EnvId,
               js_env_sticky(c, x) \/ js_env_un_sticky(c, x)
        PROVE  FALSE
    <3>1. env'[e].ref_count = env[e].ref_count
      BY <2>1, <2>5 DEF js_env_sticky, js_env_un_sticky, Env
    <3> QED
      BY <2>1, <3>1
  <2>6. ASSUME NEW c \in Clients, NEW x \in EnvId, js_disconnect(c, x)
        PROVE  FALSE
    BY <2>6, NewestIsKept DEF js_disconnect
  <2>7. ASSUME disconnect_next_env
        PROVE  FALSE
    <3>1. /\ closing \in connected /\ closing \in Clients
          /\ FirstUsedSlot(closing) \in Slot
          /\ client[closing][FirstUsedSlot(closing)] # -1
      BY <2>7, SearchesFind DEF disconnect_next_env, TablesReset, UsedSlots, TypeOK
    <3>2. PICK x \in EnvId : x = client[closing][FirstUsedSlot(closing)]
      BY <3>1 DEF TypeOK
    <3>3. disconnect(x)
      BY <2>7, <3>2 DEF disconnect_next_env
    <3> QED
      BY <3>3, NewestIsKept
  <2>8. ASSUME NEW c \in Clients, new_client(c) \/ del_client(c) PROVE FALSE
    BY <2>2, <2>8 DEF new_client, del_client
  <2>9. ASSUME del_client_done PROVE FALSE
    BY <2>2, <2>9 DEF del_client_done
  <2> QED
    BY <2>3, <2>4, <2>5, <2>6, <2>7, <2>8, <2>9 DEF Next
<1>3. IInv /\ [Next]_vars => [Act]_vars
  BY <1>1, <1>2
<1> QED
  BY <1>3, Invariance, PTL DEF Spec, EvictsOldest

----------------------------------------------------------------------------
(***************************************************************************)
(* do_env.c implements Leases.  First the order in which the idle          *)
(* environments were released, when some of them are idle no longer.       *)
(***************************************************************************)
LEMMA OrderOfFewer ==
    ASSUME NEW t, NEW u, Idle(u) \subseteq Idle(t),
           \A f \in Idle(u) : u[f].sticky = t[f].sticky
    PROVE  ReleasedBefore(u) = Leases!Among(Idle(u), ReleasedBefore(t))
<1> DEFINE P == Idle(u) \X Idle(u)
<1>1. \A p \in P : /\ p[1] \in Idle(u) /\ p[2] \in Idle(u)
                   /\ p \in Idle(t) \X Idle(t)
  OBVIOUS
<1>2. \A p \in P : u[p[1]].sticky = t[p[1]].sticky /\ u[p[2]].sticky = t[p[2]].sticky
  BY <1>1
<1> QED
  BY <1>1, <1>2 DEF ReleasedBefore, Leases!Among

(***************************************************************************)
(* The same when one more is idle, released after all the others.          *)
(***************************************************************************)
LEMMA OrderOfMore ==
    ASSUME NEW t, NEW u, NEW e, e \notin Idle(t), Idle(u) = Idle(t) \cup {e},
           \A f \in Idle(t) : /\ u[f].sticky = t[f].sticky
                              /\ t[f].sticky \in Nat
                              /\ t[f].sticky < u[e].sticky,
           u[e].sticky \in Nat
    PROVE  ReleasedBefore(u) = ReleasedBefore(t) \cup (Idle(t) \X {e})
<1>1. ASSUME NEW p \in Idle(u) \X Idle(u)
      PROVE  u[p[1]].sticky < u[p[2]].sticky
                <=> p \in ReleasedBefore(t) \cup (Idle(t) \X {e})
  <2>1. p[1] \in Idle(u) /\ p[2] \in Idle(u) /\ p = <<p[1], p[2]>>
    OBVIOUS
  <2>2. CASE p[2] = e /\ p[1] # e
    <3>1. p \in Idle(t) \X {e}
      BY <2>1, <2>2
    <3>2. u[p[1]].sticky < u[p[2]].sticky
      BY <2>1, <2>2
    <3> QED
      BY <3>1, <3>2
  <2>3. CASE p[1] = e
    <3>1. p \notin Idle(t) \X {e} /\ p \notin Idle(t) \X Idle(t)
      BY <2>3
    <3>2. ~(u[p[1]].sticky < u[p[2]].sticky)
      BY <2>1, <2>3
    <3> QED
      BY <3>1, <3>2 DEF ReleasedBefore
  <2>4. CASE p[1] # e /\ p[2] # e
    <3>1. p \in Idle(t) \X Idle(t) /\ p \notin Idle(t) \X {e}
      BY <2>1, <2>4
    <3>2. u[p[1]].sticky = t[p[1]].sticky /\ u[p[2]].sticky = t[p[2]].sticky
      BY <2>1, <2>4
    <3> QED
      BY <3>1, <3>2 DEF ReleasedBefore
  <2> QED
    BY <2>2, <2>3, <2>4
<1>2. /\ ReleasedBefore(t) \subseteq Idle(u) \X Idle(u)
      /\ Idle(t) \X {e} \subseteq Idle(u) \X Idle(u)
  BY DEF ReleasedBefore
<1>3. ReleasedBefore(u) = {p \in Idle(u) \X Idle(u) : u[p[1]].sticky < u[p[2]].sticky}
  BY DEF ReleasedBefore
<1> QED
  BY <1>1, <1>2, <1>3

(***************************************************************************)
(* disconnect_last_sticky drops the environment that was kept first.       *)
(***************************************************************************)
LEMMA LastStickyIsFirst ==
    ASSUME NEW tab \in [EnvId -> Env], Idle(tab) # {},
           \A e, f \in Idle(tab) : tab[e].sticky = tab[f].sticky => e = f
    PROVE  Leases!First(last_sticky(tab), Idle(tab), ReleasedBefore(tab))
<1> DEFINE e == last_sticky(tab)
<1>1. e \in Idle(tab) /\ \A f \in Idle(tab) : tab[e].sticky <= tab[f].sticky
  BY LastStickyIsOldest
<1> HIDE DEF e
<1>2. \A f \in Idle(tab) : f \in EnvId /\ tab[f].sticky \in Nat
  BY DEF Idle, Env
<1>3. \A f \in Idle(tab) \ {e} : tab[e].sticky < tab[f].sticky
  BY <1>1, <1>2
<1>4. \A f \in Idle(tab) \ {e} : <<e, f>> \in ReleasedBefore(tab)
  BY <1>1, <1>3 DEF ReleasedBefore
<1>5. Leases!First(e, Idle(tab), ReleasedBefore(tab))
  BY <1>1, <1>4 DEF Leases!First
<1> QED
  BY <1>5 DEF e

(***************************************************************************)
(* The environments that exist in env[] are those somebody holds and those *)
(* that are kept, and a name finds the same one in both specifications.    *)
(***************************************************************************)
LEMMA SameEnvironments ==
    ASSUME IInv
    PROVE  /\ Leases!Exist = Live(env)
           /\ \A n : Leases!Called(n) = NamedEnvs(n)
<1>1. ASSUME NEW e \in EnvId
      PROVE  (Holders(e) # {} \/ e \in Idle(env)) <=> env[e] # NULL
  <2>1. Holders(e) # {} => env[e] # NULL
    BY CountsOfHolders DEF IInv
  <2>2. e \in Idle(env) => env[e] # NULL
    BY DEF Idle, NULL
  <2>3. ASSUME env[e] # NULL, Holders(e) = {} PROVE e \in Idle(env)
    <3>1. env[e].ref_count = Cardinality(Holders(e))
      BY <2>3 DEF IInv, RefCountExact
    <3> QED
      BY <3>1, <2>3, FS_EmptySet DEF Idle
  <2> QED
    BY <2>1, <2>2, <2>3
<1>2. Leases!Exist = {e \in EnvId : Holders(e) # {} \/ e \in Idle(env)}
  BY DEF Leases!Exist
<1>3. Leases!Exist = Live(env)
  BY <1>1, <1>2 DEF Live
<1>4. ASSUME NEW n PROVE Leases!Called(n) = NamedEnvs(n)
  BY <1>3 DEF Leases!Called, NamedEnvs, Live
<1> QED
  BY <1>3, <1>4

(***************************************************************************)
(* Giving an environment back, in each of the four outcomes disconnect()   *)
(* has.                                                                    *)
(***************************************************************************)
LEMMA DisconnectReturns ==
    ASSUME IInv, NEW c \in Clients, NEW e \in EnvId,
           c \in Holders(e),
           Holders(e)' = Holders(e) \ {c},
           \A f \in EnvId \ {e} : Holders(f)' = Holders(f),
           disconnect(e)
    PROVE  Leases!Next
<1> DEFINE r == released(e)
<1>1. /\ env \in [EnvId -> Env] /\ sticky_time \in Nat /\ sticky_cnt \in Int
      /\ \A f \in EnvId : env[f].sticky \in Nat
  BY DEF IInv, TypeOK, Env
<1>2. /\ IsFiniteSet(Holders(e)) /\ env[e] # NULL
      /\ env[e].ref_count = Cardinality(Holders(e))
      /\ env[e].ref_count > 0 /\ env[e].ref_count \in Int
      /\ e \notin Idle(env)
  <2>1. /\ IsFiniteSet(Holders(e)) /\ env[e] # NULL /\ env[e].ref_count > 0
        /\ e \notin Idle(env)
    BY CountsOfHolders DEF IInv
  <2> QED
    BY <2>1, <1>1 DEF IInv, RefCountExact, Env
<1>3. LastClient(e) <=> Holders(e) = {c}
  <2>1. Cardinality(Holders(e) \ {c}) = Cardinality(Holders(e)) - 1
        /\ IsFiniteSet(Holders(e) \ {c})
    BY <1>2, FS_RemoveElement
  <2>2. Cardinality(Holders(e) \ {c}) = 0 <=> Holders(e) \ {c} = {}
    BY <2>1, FS_EmptySet
  <2> QED
    BY <1>2, <2>1, <2>2 DEF LastClient
<1>4. [f \in EnvId |-> Holders(f)]' =
        [[f \in EnvId |-> Holders(f)] EXCEPT ![e] = @ \ {c}]
  OBVIOUS
<1>5. Holders(e) = {c} =>
        [f \in EnvId |-> Holders(f)]' = [[f \in EnvId |-> Holders(f)] EXCEPT ![e] = {}]
  OBVIOUS
<1>6. /\ IsFiniteSet(Idle(env)) /\ Cardinality(Idle(env)) \in Nat
      /\ sticky_cnt = Cardinality(Idle(env)) /\ sticky_cnt <= MaxStickyEnv
      /\ MaxStickyEnv \in Nat
  BY IdleCount, ConstAssumption DEF IInv, StickyAccounting
<1>7. Leases!Next <=> \E f \in EnvId :
        \/ Leases!Drop(f)
        \/ \E d \in Clients :
            \/ Leases!Join(d, f)
            \/ \E n \in Names \cup {NoName} : Leases!Make(d, n, f)
            \/ Leases!Mark(d, f)
            \/ Leases!Return(d, f)
            \/ Leases!ReturnLast(d, f)
            \/ Leases!Keep(d, f)
            \/ \E g \in EnvId : Leases!Replace(d, f, g)
  BY DEF Leases!Next
<1>11. Leases!Cardinality(Idle(env)) = Cardinality(Idle(env))
  BY DEF Leases!Cardinality, Cardinality
<1>8. CASE ~LastClient(e) /\ env' = [env EXCEPT ![e].ref_count = @ - 1]
  <2>1. /\ \A f \in EnvId : /\ env'[f].name = env[f].name
                            /\ env'[f].sticky = env[f].sticky
        /\ \A f \in EnvId \ {e} : env'[f] = env[f]
        /\ env'[e].ref_count = env[e].ref_count - 1
    BY <1>8, <1>1 DEF Env
  <2>2. env'[e].ref_count # 0
    BY <2>1, <1>2, <1>8 DEF LastClient
  <2>3. Idle(env') = Idle(env)
    BY <2>1, <2>2, <1>2 DEF Idle
  <2>4. ReleasedBefore(env') = ReleasedBefore(env)
    BY <2>1, <2>3 DEF ReleasedBefore, Idle
  <2>5. Leases!Return(c, e)
    BY <2>1, <2>3, <2>4, <1>3, <1>4, <1>8 DEF Leases!Return
  <2> QED
    BY <2>5, <1>7
<1>9. CASE LastClient(e) /\ env[e].sticky = 0 /\ env' = [env EXCEPT ![e] = NULL]
  <2>1. /\ \A f \in EnvId \ {e} : env'[f] = env[f]
        /\ env'[e] = NULL /\ env'[e].sticky = 0 /\ env'[e].name = NoName
        /\ env'[e].ref_count = -1
    BY <1>9, <1>1 DEF NULL
  <2>2. Idle(env') = Idle(env)
    BY <2>1, <1>2 DEF Idle
  <2>3. ReleasedBefore(env') = ReleasedBefore(env)
    BY <2>1, <2>2, <1>2 DEF ReleasedBefore, Idle
  <2>4. [f \in EnvId |-> env'[f].name] = [[f \in EnvId |-> env[f].name] EXCEPT ![e] = NoName]
    BY <2>1
  <2>5. {f \in EnvId : env'[f].sticky # 0} = {f \in EnvId : env[f].sticky # 0}
    BY <2>1, <1>9
  <2>6. Leases!ReturnLast(c, e)
    BY <2>2, <2>3, <2>4, <2>5, <1>3, <1>5, <1>9 DEF Leases!ReturnLast
  <2> QED
    BY <2>6, <1>7
<1>10. CASE LastClient(e) /\ env[e].sticky # 0
  <2>1. /\ r \in [EnvId -> Env]
        /\ \A f \in EnvId \ {e} : r[f] = env[f]
        /\ r[e].name = env[e].name /\ r[e].ref_count = 0
        /\ r[e].sticky = sticky_time + 1
    BY <1>1 DEF released, Env
  <2> HIDE DEF r
  <2>2. Idle(r) = Idle(env) \cup {e}
    BY <2>1 DEF Idle
  <2>3. \A f \in Idle(env) : /\ r[f].sticky = env[f].sticky
                             /\ env[f].sticky \in Nat
                             /\ env[f].sticky < r[e].sticky
    BY <2>1, <1>1, <1>2 DEF Idle, IInv, StampsOrdered
  <2>4. ReleasedBefore(r) = ReleasedBefore(env) \cup (Idle(env) \X {e})
    BY <2>1, <2>2, <2>3, <1>1, <1>2, OrderOfMore
  <2>5. /\ [f \in EnvId |-> r[f].name] = [f \in EnvId |-> env[f].name]
        /\ {f \in EnvId : r[f].sticky # 0} = {f \in EnvId : env[f].sticky # 0}
    BY <2>1, <1>1, <1>10
  <2>6. CASE sticky_cnt + 1 > MaxStickyEnv
             /\ env' = [r EXCEPT ![last_sticky(r)] = NULL]
    <3> DEFINE v == last_sticky(r)
    <3>1. \A f, g \in Idle(r) : r[f].sticky = r[g].sticky => f = g
      <4>1. \A f, g \in Idle(env) : env[f].sticky = env[g].sticky => f = g
        BY DEF IInv, StampsOrdered
      <4> QED
        BY <4>1, <2>1, <2>2, <2>3
    <3>2. Leases!First(v, Idle(r), ReleasedBefore(r))
      BY <2>1, <2>2, <3>1, LastStickyIsFirst
    <3>3. v \in Idle(r) /\ v \in EnvId
      BY <2>1, <2>2, LastStickyIsOldest DEF Idle
    <3> HIDE DEF v
    <3>4. env' = [r EXCEPT ![v] = NULL]
      BY <2>6 DEF v
    <3>5. /\ \A f \in EnvId \ {v} : env'[f] = r[f]
          /\ env'[v].sticky = 0 /\ env'[v].name = NoName /\ env'[v].ref_count = -1
      BY <3>3, <3>4, <2>1 DEF NULL
    <3>6. Idle(env') = Idle(r) \ {v}
      BY <3>5 DEF Idle
    <3>7. ReleasedBefore(env') = Leases!Among(Idle(env'), ReleasedBefore(r))
      <4>1. Idle(env') \subseteq Idle(r) /\ \A f \in Idle(env') : env'[f].sticky = r[f].sticky
        BY <3>5, <3>6 DEF Idle
      <4> QED
        BY <4>1, OrderOfFewer
    <3>8. [f \in EnvId |-> env'[f].name] = [[f \in EnvId |-> env[f].name] EXCEPT ![v] = NoName]
      <4>1. [f \in EnvId |-> env'[f].name] = [[f \in EnvId |-> r[f].name] EXCEPT ![v] = NoName]
        BY <3>5
      <4> QED
        BY <4>1, <2>5
    <3>9. {f \in EnvId : env'[f].sticky # 0} = {f \in EnvId : env[f].sticky # 0} \ {v}
      <4>1. {f \in EnvId : env'[f].sticky # 0} = {f \in EnvId : r[f].sticky # 0} \ {v}
        BY <3>5
      <4> QED
        BY <4>1, <2>5
    <3>10. Cardinality(Idle(env)) = MaxStickyEnv
      BY <1>6, <2>6
    <3>11. /\ Leases!KeptWith(e) = Idle(r)
           /\ Leases!BeforeWith(e) = ReleasedBefore(r)
      BY <2>2, <2>4 DEF Leases!KeptWith, Leases!BeforeWith
    <3>12. PICK g \in EnvId : g = v
      BY <3>3
    <3>13. Leases!Replace(c, e, g)
      BY <3>12, <3>2, <3>6, <3>7, <3>8, <3>9, <3>10, <3>11, <1>3, <1>5, <1>10, <1>11
         DEF Leases!Replace
    <3> QED
      BY <3>13, <1>7
  <2>7. CASE ~(sticky_cnt + 1 > MaxStickyEnv) /\ env' = r
    <3>1. Cardinality(Idle(env)) < MaxStickyEnv
      BY <1>6, <2>7
    <3>2. /\ Leases!KeptWith(e) = Idle(env')
          /\ Leases!BeforeWith(e) = ReleasedBefore(env')
      BY <2>2, <2>4, <2>7 DEF Leases!KeptWith, Leases!BeforeWith
    <3>3. Leases!Keep(c, e)
      BY <3>1, <3>2, <2>5, <2>7, <1>3, <1>5, <1>10, <1>11 DEF Leases!Keep
    <3> QED
      BY <3>3, <1>7
  <2> QED
    BY <2>6, <2>7, <1>10 DEF disconnect, r
<1> QED
  BY <1>8, <1>9, <1>10 DEF disconnect

(***************************************************************************)
(* JS_CONNECT of an environment that exists, held or kept.                 *)
(***************************************************************************)
LEMMA ConnectJoins ==
    ASSUME IInv, NEW c \in Clients, NEW n \in Names \cup {NoName},
           js_connect_old(c, n)
    PROVE  \E e \in EnvId : Leases!Join(c, e)
<1> USE DEF IInv
<1>0. PICK e \in EnvId : e = find_env_by_name(n) /\ e \in NamedEnvs(n)
  BY SearchesFind DEF js_connect_old, NamedEnvs, Live
<1>1. /\ c \in connected /\ ~Holds(c, e) /\ HasFreeSlot(c)
      /\ client' = add_env_to_client(c, e)
      /\ env' = [env EXCEPT ![e].ref_count = @ + 1]
      /\ UNCHANGED <<connected, sticky_time, closing>>
  BY <1>0 DEF js_connect_old, MayCommand
<1>2. /\ c \notin Holders(e)
      /\ Holders(e)' = Holders(e) \cup {c}
      /\ \A f \in EnvId \ {e} : Holders(f)' = Holders(f)
  BY <1>1, AddToClient
<1>3. n \in Names /\ e \in Leases!Called(n)
  BY <1>0, SameEnvironments DEF NamedEnvs
<1>4. env \in [EnvId -> Env] /\ env[e].ref_count >= 0 /\ env[e].ref_count \in Int
  <2>1. env \in [EnvId -> Env] /\ env[e] # NULL
    BY <1>0 DEF TypeOK, NamedEnvs, Live
  <2>2. env[e].ref_count >= 0
    BY <2>1, CountsOfHolders
  <2> QED
    BY <2>1, <2>2 DEF Env
<1>5. /\ \A f \in EnvId : /\ env'[f].name = env[f].name
                          /\ env'[f].sticky = env[f].sticky
      /\ \A f \in EnvId \ {e} : env'[f] = env[f]
      /\ env'[e].ref_count = env[e].ref_count + 1
  BY <1>1, <1>4 DEF Env
<1>6. Idle(env') = Idle(env) \ {e}
  BY <1>4, <1>5 DEF Idle
<1>7. ReleasedBefore(env') = Leases!Among(Idle(env'), ReleasedBefore(env))
  <2>1. Idle(env') \subseteq Idle(env) /\ \A f \in Idle(env') : env'[f].sticky = env[f].sticky
    BY <1>5, <1>6 DEF Idle
  <2> QED
    BY <2>1, OrderOfFewer
<1>8. [f \in EnvId |-> Holders(f)]' =
        [[f \in EnvId |-> Holders(f)] EXCEPT ![e] = @ \cup {c}]
  BY <1>2
<1>9. /\ [f \in EnvId |-> env'[f].name] = [f \in EnvId |-> env[f].name]
      /\ {f \in EnvId : env'[f].sticky # 0} = {f \in EnvId : env[f].sticky # 0}
  BY <1>5
<1>10. Leases!Join(c, e)
  BY <1>2, <1>3, <1>6, <1>7, <1>8, <1>9 DEF Leases!Join
<1> QED
  BY <1>10

(***************************************************************************)
(* JS_CONNECT of a new environment: it is made, or it is not made and the  *)
(* one it was to replace is gone, or nothing happened.                     *)
(***************************************************************************)
LEMMA ConnectMakes ==
    ASSUME IInv, NEW c \in Clients, NEW n \in Names \cup {NoName},
           js_connect_new(c, n)
    PROVE  \/ \E e \in EnvId : Leases!Make(c, n, e)
           \/ \E e \in EnvId : Leases!Drop(e)
           \/ UNCHANGED Leases!vars
<1> USE DEF IInv
<1>0. PICK e \in EnvId : e = new_eid
  BY NewEid DEF js_connect_new
<1>1. /\ Holders(e) = {}
      /\ EnvTableFull => e \in Idle(env)
      /\ ~EnvTableFull => env[e] = NULL
      /\ c \in connected /\ NamedEnvs(n) = {}
      /\ UNCHANGED <<connected, sticky_time, closing>>
  BY <1>0, NewEid DEF js_connect_new, MayCommand
<1>2. env \in [EnvId -> Env] /\ NULL.ref_count # 0 /\ NULL.sticky = 0 /\ NULL.name = NoName
  BY DEF TypeOK, NULL
<1>3. EnvTableFull <=> Leases!Exist = EnvId
  BY SameEnvironments DEF EnvTableFull
<1>4. EnvTableFull => Leases!First(e, Idle(env), ReleasedBefore(env))
  <2>1. ASSUME EnvTableFull PROVE e = last_sticky(env) /\ Idle(env) # {}
    BY <2>1, <1>0, <1>1 DEF new_eid
  <2>2. \A f, g \in Idle(env) : env[f].sticky = env[g].sticky => f = g
    BY DEF StampsOrdered
  <2> QED
    BY <2>1, <2>2, <1>2, LastStickyIsFirst
<1>5. Leases!Room(e)
  <2>1. ~EnvTableFull => e \notin Leases!Exist
    BY <1>1, SameEnvironments DEF Live
  <2> QED
    BY <2>1, <1>3, <1>4 DEF Leases!Room
<1>6. ASSUME NEW x, env' = [env EXCEPT ![e] = x], x.ref_count # 0, x.sticky = 0
      PROVE  /\ Idle(env') = Idle(env) \ {e}
             /\ ReleasedBefore(env') = Leases!Among(Idle(env'), ReleasedBefore(env))
             /\ [f \in EnvId |-> env'[f].name]
                    = [[f \in EnvId |-> env[f].name] EXCEPT ![e] = x.name]
             /\ {f \in EnvId : env'[f].sticky # 0} = {f \in EnvId : env[f].sticky # 0} \ {e}
  <2>1. env'[e] = x /\ \A f \in EnvId \ {e} : env'[f] = env[f]
    BY <1>2, <1>6
  <2>2. Idle(env') = Idle(env) \ {e}
    BY <2>1, <1>6 DEF Idle
  <2>3. Idle(env') \subseteq Idle(env) /\ \A f \in Idle(env') : env'[f].sticky = env[f].sticky
    BY <2>1, <2>2 DEF Idle
  <2>4. ReleasedBefore(env') = Leases!Among(Idle(env'), ReleasedBefore(env))
    BY <2>3, OrderOfFewer
  <2> QED
    BY <2>1, <2>2, <2>4, <1>6
<1>7. CASE /\ HasFreeSlot(c)
           /\ client' = add_env_to_client(c, e)
           /\ env' = [env EXCEPT ![e] = new_env(n)]
  <2>1. /\ Holders(e)' = {c}
        /\ \A f \in EnvId \ {e} : Holders(f)' = Holders(f)
    <3>1. ~Holds(c, e)
      BY <1>1 DEF Holders
    <3> QED
      BY <3>1, <1>1, <1>7, AddToClient
  <2>2. new_env(n).ref_count # 0 /\ new_env(n).sticky = 0 /\ new_env(n).name = n
    BY DEF new_env
  <2>3. /\ Idle(env') = Idle(env) \ {e}
        /\ ReleasedBefore(env') = Leases!Among(Idle(env'), ReleasedBefore(env))
        /\ [f \in EnvId |-> env'[f].name] = [[f \in EnvId |-> env[f].name] EXCEPT ![e] = n]
        /\ {f \in EnvId : env'[f].sticky # 0} = {f \in EnvId : env[f].sticky # 0} \ {e}
    BY <2>2, <1>6, <1>7
  <2>4. [f \in EnvId |-> Holders(f)]' = [[f \in EnvId |-> Holders(f)] EXCEPT ![e] = {c}]
    BY <2>1
  <2>5. Leases!Called(n) = {}
    BY <1>1, SameEnvironments
  <2>6. Leases!Make(c, n, e)
    BY <2>3, <2>4, <2>5, <1>5 DEF Leases!Make
  <2> QED
    BY <2>6
<1>8. CASE env' = [env EXCEPT ![e] = NULL] /\ UNCHANGED client
  <2>1. [f \in EnvId |-> Holders(f)]' = [f \in EnvId |-> Holders(f)]
    BY <1>8 DEF Holders, Holds
  <2>2. CASE EnvTableFull
    <3>1. /\ Idle(env') = Idle(env) \ {e}
          /\ ReleasedBefore(env') = Leases!Among(Idle(env'), ReleasedBefore(env))
          /\ [f \in EnvId |-> env'[f].name]
                = [[f \in EnvId |-> env[f].name] EXCEPT ![e] = NULL.name]
          /\ {f \in EnvId : env'[f].sticky # 0} = {f \in EnvId : env[f].sticky # 0} \ {e}
      <4>1. NULL.ref_count # 0 /\ NULL.sticky = 0
        BY <1>2
      <4> QED
        BY <4>1, <1>6, <1>8
    <3>2. Leases!Drop(e)
      BY <3>1, <1>2, <2>1, <2>2, <1>3, <1>4 DEF Leases!Drop
    <3> QED
      BY <3>2
  <2>3. CASE ~EnvTableFull
    <3>1. env' = env
      BY <2>3, <1>1, <1>2, <1>8
    <3>2. UNCHANGED Leases!vars
      BY <3>1, <2>1 DEF Leases!vars
    <3> QED
      BY <3>2
  <2> QED
    BY <2>2, <2>3
<1> QED
  BY <1>0, <1>7, <1>8 DEF js_connect_new

(***************************************************************************)
(* JS_ENV_STICKY and JS_ENV_UN_STICKY of an environment the client holds.  *)
(***************************************************************************)
LEMMA StickyMarks ==
    ASSUME IInv, NEW c \in Clients, NEW e \in EnvId,
           js_env_sticky(c, e) \/ js_env_un_sticky(c, e)
    PROVE  Leases!Mark(c, e)
<1> USE DEF IInv
<1>1. PICK k \in {0, 1} :
        /\ env' = [env EXCEPT ![e].sticky = k]
        /\ Holds(c, e)
        /\ UNCHANGED <<connected, client, sticky_cnt, sticky_time, closing>>
  BY DEF js_env_sticky, js_env_un_sticky
<1>2. c \in Holders(e) /\ env[e].ref_count > 0 /\ e \notin Idle(env)
  <2>1. c \in Holders(e)
    BY <1>1 DEF Holders
  <2> QED
    BY <2>1, CountsOfHolders DEF Idle
<1>3. /\ env \in [EnvId -> Env]
      /\ \A f \in EnvId : /\ env'[f].name = env[f].name
                          /\ env'[f].ref_count = env[f].ref_count
      /\ \A f \in EnvId \ {e} : env'[f] = env[f]
      /\ env'[e].sticky = k
  BY <1>1 DEF TypeOK, Env
<1>4. Idle(env') = Idle(env)
  BY <1>3 DEF Idle
<1>5. ReleasedBefore(env') = ReleasedBefore(env)
  BY <1>2, <1>3, <1>4 DEF ReleasedBefore, Idle
<1>6. [f \in EnvId |-> Holders(f)]' = [f \in EnvId |-> Holders(f)]
  BY <1>1 DEF Holders, Holds
<1>7. [f \in EnvId |-> env'[f].name] = [f \in EnvId |-> env[f].name]
  BY <1>3
<1>8. \/ {f \in EnvId : env'[f].sticky # 0} = {f \in EnvId : env[f].sticky # 0} \cup {e}
      \/ {f \in EnvId : env'[f].sticky # 0} = {f \in EnvId : env[f].sticky # 0} \ {e}
  <2>1. CASE k = 0
    BY <2>1, <1>3
  <2>2. CASE k = 1
    BY <2>2, <1>3
  <2> QED
    BY <2>1, <2>2
<1> QED
  BY <1>2, <1>4, <1>5, <1>6, <1>7, <1>8 DEF Leases!Mark

(***************************************************************************)
(* JS_DISCONNECT, and a round of disconnect_all_env_of_client.             *)
(***************************************************************************)
LEMMA OneSlotReturns ==
    ASSUME IInv, NEW c \in connected, NEW j \in Slot, client[c][j] # -1,
           client' = [client EXCEPT ![c][j] = -1],
           disconnect(client[c][j]),
           UNCHANGED <<connected, closing>>
    PROVE  Leases!Next
<1>1. PICK e \in EnvId : client[c][j] = e
  BY DEF IInv, TypeOK
<1>2. /\ c \in Holders(e)
      /\ Holders(e)' = Holders(e) \ {c}
      /\ \A f \in EnvId \ {e} : Holders(f)' = Holders(f)
  BY <1>1, RemoveFromClient DEF IInv
<1>3. disconnect(e)
  BY <1>1
<1>4. c \in Clients
  BY DEF IInv, TypeOK
<1> QED
  BY <1>2, <1>3, <1>4, DisconnectReturns

(***************************************************************************)
(* Steps that leave env[] and every holder alone.                          *)
(***************************************************************************)
LEMMA LeasesUntouched ==
    ASSUME UNCHANGED <<env, client>>
    PROVE  UNCHANGED Leases!vars
<1>1. [f \in EnvId |-> Holders(f)]' = [f \in EnvId |-> Holders(f)]
  BY DEF Holders, Holds
<1> QED
  BY <1>1 DEF Leases!vars

(***************************************************************************)
(* A step of do_env.c is a step of Leases, or one it does not see: a new   *)
(* client, the beginning and the end of del_client.                        *)
(***************************************************************************)
LEMMA StepsAreLeases == IInv /\ [Next]_vars => [Leases!Next]_(Leases!vars)
<1> SUFFICES ASSUME IInv, [Next]_vars PROVE [Leases!Next]_(Leases!vars)
  OBVIOUS
<1>1. ASSUME NEW c \in Clients, new_client(c) PROVE UNCHANGED Leases!vars
  <2>1. c \notin connected /\ client' = [client EXCEPT ![c] = NoEnvs] /\ env' = env
    BY <1>1 DEF new_client
  <2>2. client' = client
    BY <2>1 DEF IInv, TablesReset, TypeOK
  <2> QED
    BY <2>1, <2>2, LeasesUntouched
<1>2. ASSUME NEW c \in Clients, del_client(c) \/ del_client_done \/ UNCHANGED vars
      PROVE  UNCHANGED Leases!vars
  <2>1. UNCHANGED <<env, client>>
    BY <1>2 DEF del_client, del_client_done, vars
  <2> QED
    BY <2>1, LeasesUntouched
<1>3. ASSUME NEW c \in Clients, NEW n \in Names \cup {NoName}, js_connect_old(c, n)
      PROVE  Leases!Next
  BY <1>3, ConnectJoins DEF Leases!Next
<1>4. ASSUME NEW c \in Clients, NEW n \in Names \cup {NoName}, js_connect_new(c, n)
      PROVE  [Leases!Next]_(Leases!vars)
  BY <1>4, ConnectMakes DEF Leases!Next
<1>5. ASSUME NEW c \in Clients, NEW e \in EnvId,
             js_env_sticky(c, e) \/ js_env_un_sticky(c, e)
      PROVE  Leases!Next
  BY <1>5, StickyMarks DEF Leases!Next
<1>6. ASSUME NEW c \in Clients, NEW e \in EnvId, js_disconnect(c, e)
      PROVE  Leases!Next
  <2>1. /\ c \in connected
        /\ client' = [client EXCEPT ![c][FirstSlotWith(c, e)] = -1]
        /\ disconnect(e)
        /\ UNCHANGED <<connected, closing>>
    BY <1>6 DEF js_disconnect, MayCommand
  <2>2. FirstSlotWith(c, e) \in Slot /\ client[c][FirstSlotWith(c, e)] = e
    BY <1>6, SearchesFind DEF js_disconnect, Holds, SlotsWith
  <2> QED
    BY <2>1, <2>2, OneSlotReturns, IndicesAreNaturals
<1>7. ASSUME disconnect_next_env PROVE Leases!Next
  <2>1. /\ closing \in connected
        /\ FirstUsedSlot(closing) \in Slot
        /\ client[closing][FirstUsedSlot(closing)] # -1
    BY <1>7, SearchesFind DEF disconnect_next_env, IInv, TablesReset, UsedSlots
  <2>2. PICK c \in connected, j \in Slot : c = closing /\ j = FirstUsedSlot(closing)
    BY <2>1
  <2> QED
    BY <1>7, <2>1, <2>2, OneSlotReturns DEF disconnect_next_env
<1>8. ASSUME del_client_done \/ UNCHANGED vars PROVE UNCHANGED Leases!vars
  <2>1. UNCHANGED <<env, client>>
    BY <1>8 DEF del_client_done, vars
  <2> QED
    BY <2>1, LeasesUntouched
<1> QED
  BY <1>1, <1>2, <1>3, <1>4, <1>5, <1>6, <1>7, <1>8 DEF Next

(***************************************************************************)
(* No environment exists at the start.                                     *)
(***************************************************************************)
LEMMA InitIsLeases == Init => Leases!Init
<1> SUFFICES ASSUME Init PROVE Leases!Init
  OBVIOUS
<1>1. \A e \in EnvId : env[e] = NULL /\ Holders(e) = {}
  BY IndicesAreNaturals DEF Init, Holders, Holds, NoEnvs
<1>2. \A e \in EnvId : env[e].ref_count = -1 /\ env[e].sticky = 0 /\ env[e].name = NoName
  BY <1>1 DEF NULL
<1>3. Idle(env) = {} /\ ReleasedBefore(env) = {}
  BY <1>2 DEF Idle, ReleasedBefore
<1>4. [e \in EnvId |-> Holders(e)] = [e \in EnvId |-> {}]
  BY <1>1
<1>5. [e \in EnvId |-> env[e].name] = [e \in EnvId |-> NoName]
  BY <1>2
<1>6. {e \in EnvId : env[e].sticky # 0} = {}
  BY <1>2
<1> QED
  BY <1>3, <1>4, <1>5, <1>6 DEF Leases!Init

(***************************************************************************)
(* do_env.c implements Leases, for every number of clients, names,         *)
(* environments, slots and sticky places.                                  *)
(***************************************************************************)
THEOREM EnvironmentsAreLeases == Spec => ImplementsLeases
<1>1. Spec => []IInv
  BY Invariance
<1>2. IInv /\ [Next]_vars => [Leases!Next]_(Leases!vars)
  BY StepsAreLeases
<1>3. Init => Leases!Init
  BY InitIsLeases
<1> QED
  BY <1>1, <1>2, <1>3, PTL DEF Spec, ImplementsLeases, Leases!Spec

=============================================================================
