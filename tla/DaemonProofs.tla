---------------------------- MODULE DaemonProofs ----------------------------
(***************************************************************************)
(* Proofs about Daemon, for any number of clients, any listening sockets   *)
(* and any size of the client table.                                       *)
(***************************************************************************)
EXTENDS Daemon, SearchLemmas, FiniteSetTheorems, SequenceTheorems, TLAPS

----------------------------------------------------------------------------
(***************************************************************************)
(* The strengthened invariant.  Sockets: the listening sockets have the    *)
(* descriptors daemon_init gave them, a client has one descriptor at most, *)
(* and the descriptors after the listening sockets are the clients'.       *)
(***************************************************************************)
Sockets ==
    /\ \A f, g \in Fds : fd[f] \in Clients /\ fd[f] = fd[g] => f = g
    /\ \A k \in DOMAIN Acceptors : Acceptors[k] \in Opened => fd[k + 1] = Acceptors[k]
    /\ \A f \in Fds : fd[f] \in Listeners =>
         \E k \in DOMAIN Acceptors : f = k + 1 /\ fd[f] = Acceptors[k] /\ fd[f] \in Opened
    /\ \A f \in Fds : f > Len(Acceptors) + 1 => fd[f] \in Clients \cup {Free}
    /\ ~options.fork => fd[0] = Stdio

(***************************************************************************)
(* Queues: a connection that waits does so at one socket, at one place,    *)
(* and is not in the client table.                                         *)
(***************************************************************************)
Queues ==
    /\ \A l, m \in Listeners : \A j \in DOMAIN backlog[l], k \in DOMAIN backlog[m] :
         backlog[l][j] = backlog[m][k] => l = m /\ j = k
    /\ \A c \in Clients : Waiting(c) => ~Connected(c)

(***************************************************************************)
(* Round: what select reported is what is still to be done: the count is   *)
(* the size of the set, its descriptors are open, the client being served  *)
(* is in the table and is not to be served again.                          *)
(***************************************************************************)
Round ==
    /\ no_of_ready_socks = Cardinality(ready_socks)
    /\ \A f \in ready_socks : fd[f] \in Clients \cup Opened
    /\ pc = "accept" => \A f \in ready_socks : fd[f] \in Opened => backlog[fd[f]] # <<>>
    /\ pc \in {"pick", "serve"} /\ OneListener => \A f \in ready_socks : fd[f] \in Clients
    /\ pc = "serve" => cur_clp < clientp /\ cblk[cur_clp] \notin ready_socks

(***************************************************************************)
(* Users: an entry of the table has no name of another client, and a free  *)
(* one has none at all.                                                    *)
(***************************************************************************)
Users == NoStaleUser /\ \A i \in Slot : i >= clientp => user[i] \notin Clients

IInv == TypeOK /\ TableExact /\ Sockets /\ Queues /\ Round /\ Users /\ OnlyKillStops

----------------------------------------------------------------------------
(***************************************************************************)
(* The numbers: descriptors and entries are naturals, there are finitely   *)
(* many, and daemon_init gives acceptor k the descriptor k + 1.            *)
(***************************************************************************)
LEMMA Numbers ==
    /\ Len(Acceptors) \in Nat /\ DOMAIN Acceptors = 1 .. Len(Acceptors)
    /\ Cardinality(Clients) \in Nat
    /\ Fds \in SUBSET Nat /\ IsFiniteSet(Fds) /\ 0 \in Fds
    /\ \A k \in DOMAIN Acceptors : Acceptors[k] \in Listeners /\ k + 1 \in Fds
    /\ \A k \in DOMAIN Acceptors :
         accept_blk[k] = IF Acceptors[k] \in Opened THEN k + 1 ELSE 0
    /\ Clients \cap Listeners = {}
<1>1. Len(Acceptors) \in Nat /\ DOMAIN Acceptors = 1 .. Len(Acceptors)
  BY ConfigurationFits
<1>2. Cardinality(Clients) \in Nat /\ Clients \cap Listeners = {}
  BY ConfigurationFits, FS_CardinalityType
<1> DEFINE n == Cardinality(Clients)
           last == Len(Acceptors) + n + 1
<1>3. Fds = 0 .. last
  BY DEF Fds
<1>4. last \in Nat /\ Len(Acceptors) + 1 <= last
  BY <1>1, <1>2
<1> HIDE DEF n, last
<1>5. Fds \in SUBSET Nat /\ IsFiniteSet(Fds) /\ 0 \in Fds
  <2>1. IsFiniteSet(0 .. last)
    BY <1>4, FS_Interval
  <2> QED
    BY <1>3, <1>4, <2>1
<1>6. \A k \in DOMAIN Acceptors : Acceptors[k] \in Listeners /\ k + 1 \in Fds
  BY <1>1, <1>3, <1>4 DEF Listeners
<1> QED
  BY <1>1, <1>2, <1>5, <1>6 DEF accept_blk

\* The least of a set is one of its members.
LEMMA LeastIsIn ==
    ASSUME NEW S \in SUBSET Nat, S # {}
    PROVE  Least(S) \in S
BY SmallestExists DEF Least

(***************************************************************************)
(* While a client waits there is a descriptor for it: the others have one  *)
(* each at most, so that they cannot use up those after the listening      *)
(* sockets.                                                                *)
(***************************************************************************)
LEMMA DescriptorLeft ==
    ASSUME TypeOK, Sockets, NEW c \in Clients, ~Connected(c)
    PROVE  new_sd \in Fds /\ fd[new_sd] = Free
<1> DEFINE N == Len(Acceptors)
           n == Cardinality(Clients)
           F == N + 2 .. N + n + 1
<1>1. N \in Nat /\ n \in Nat /\ F \subseteq Fds /\ \A f \in F : f > N + 1
  BY Numbers DEF Fds
<1>2. \E f \in Fds : fd[f] = Free
  <2> SUFFICES ASSUME \A f \in Fds : fd[f] # Free
               PROVE  FALSE
    OBVIOUS
  <2> DEFINE g == [f \in F |-> fd[f]]
             T == Clients \ {c}
  <2>1. \A f \in F : fd[f] \in T
    BY <1>1 DEF Sockets, Connected
  <2>2. \A f, h \in F : fd[f] = fd[h] => f = h
    BY <1>1, <2>1 DEF Sockets
  <2>3. g \in Injection(F, T)
    <3>1. g \in [F -> T]
      BY <2>1
    <3>2. \A f, h \in F : g[f] = g[h] => f = h
      BY <2>2
    <3> HIDE DEF g, F, T
    <3> QED
      BY <3>1, <3>2 DEF Injection, IsInjective
  <2>4. IsFiniteSet(T) /\ Cardinality(T) = n - 1
    BY ConfigurationFits, FS_RemoveElement
  <2>5. Cardinality(F) = n
    <3> HIDE DEF N, n
    <3>1. N + 2 \in Int /\ N + n + 1 \in Int
      BY <1>1
    <3>2. Cardinality(N + 2 .. N + n + 1) =
            IF N + 2 > N + n + 1 THEN 0 ELSE (N + n + 1) - (N + 2) + 1
      BY <3>1, FS_Interval
    <3> QED
      BY <1>1, <3>2
  <2>6. Cardinality(F) <= Cardinality(T)
    <3> HIDE DEF g, F, T
    <3> QED
      BY <2>3, <2>4, FS_Injection
  <2> HIDE DEF n, F, T
  <2> QED
    BY <1>1, <2>4, <2>5, <2>6
<1>3. {f \in Fds : fd[f] = Free} \in SUBSET Nat
  BY Numbers
<1>4. new_sd \in {f \in Fds : fd[f] = Free}
  BY <1>2, <1>3, LeastIsIn DEF new_sd
<1> QED
  BY <1>4

(***************************************************************************)
(* What a part of the invariant says does not change with other variables. *)
(***************************************************************************)
LEMMA Frames ==
    /\ TableExact /\ UNCHANGED <<fd, cblk, clientp>> => TableExact'
    /\ Sockets /\ UNCHANGED <<options, fd>> => Sockets'
    /\ Queues /\ UNCHANGED <<fd, backlog>> => Queues'
    /\ Users /\ UNCHANGED <<options, fd, cblk, clientp, user>> => Users'
    /\ pc' \in {"select", "accept", "pick", "serve", "killed"} => OnlyKillStops'
<1>1. TableExact /\ UNCHANGED <<fd, cblk, clientp>> => TableExact'
  BY DEF TableExact, Connected
<1>2. Sockets /\ UNCHANGED <<options, fd>> => Sockets'
  BY DEF Sockets, Opened
<1>3. Queues /\ UNCHANGED <<fd, backlog>> => Queues'
  BY DEF Queues, Waiting, Connected
<1>4. Users /\ UNCHANGED <<options, fd, cblk, clientp, user>> => Users'
  BY DEF Users, NoStaleUser, Slot
<1>5. pc' \in {"select", "accept", "pick", "serve", "killed"} => OnlyKillStops'
  BY DEF OnlyKillStops, Running
<1> QED
  BY <1>1, <1>2, <1>3, <1>4, <1>5

(***************************************************************************)
(* The clients: one connects at a socket, or sends, or goes.               *)
(***************************************************************************)
LEMMA ConnectPreserves ==
    ASSUME IInv, NEW c \in Clients, connect(c)
    PROVE  IInv'
<1> USE DEF IInv
<1>1. PICK l \in Opened : backlog' = [backlog EXCEPT ![l] = Append(@, c)]
  BY DEF connect
<1>2. /\ Running /\ ~Waiting(c) /\ ~Connected(c)
      /\ UNCHANGED <<options, fd, cblk, clientp, user, cur_clp, ready_socks,
                     no_of_ready_socks, inbox, gone, pc>>
  BY DEF connect, tables, rounds
<1>3. l \in Listeners /\ backlog \in [Listeners -> Seq(Clients)]
  BY ConfigurationFits DEF TypeOK, Opened
<1>4. /\ backlog' \in [Listeners -> Seq(Clients)]
      /\ \A m \in Listeners \ {l} : backlog'[m] = backlog[m]
      /\ backlog'[l] = Append(backlog[l], c)
      /\ backlog[l] \in Seq(Clients)
  BY <1>1, <1>3
<1>5. TypeOK'
  BY <1>2, <1>4 DEF TypeOK, Slot
<1>6. /\ DOMAIN backlog'[l] = DOMAIN backlog[l] \cup {Len(backlog[l]) + 1}
      /\ DOMAIN backlog[l] = 1 .. Len(backlog[l]) /\ Len(backlog[l]) \in Nat
      /\ \A k \in DOMAIN backlog[l] : backlog'[l][k] = backlog[l][k]
      /\ backlog'[l][Len(backlog[l]) + 1] = c
  BY <1>4
<1>7. \A d \in Clients : Waiting(d)' => Waiting(d) \/ d = c
  BY <1>3, <1>4, <1>6 DEF Waiting
<1>8. \A d \in Clients : Connected(d)' <=> Connected(d)
  BY <1>2 DEF Connected
<1>9. Queues'
  <2>1. \A m \in Listeners : \A j \in DOMAIN backlog[m] : backlog[m][j] # c
    BY <1>2 DEF Waiting
  <2>2. ASSUME NEW m \in Listeners, NEW k \in Listeners,
               NEW i \in DOMAIN backlog'[m], NEW j \in DOMAIN backlog'[k],
               backlog'[m][i] = backlog'[k][j]
        PROVE  m = k /\ i = j
    <3>1. \/ m = l /\ i = Len(backlog[l]) + 1
          \/ i \in DOMAIN backlog[m] /\ backlog'[m][i] = backlog[m][i]
      BY <1>4, <1>6
    <3>2. \/ k = l /\ j = Len(backlog[l]) + 1
          \/ j \in DOMAIN backlog[k] /\ backlog'[k][j] = backlog[k][j]
      BY <1>4, <1>6
    <3> QED
      BY <1>6, <2>1, <2>2, <3>1, <3>2 DEF Queues
  <2>3. \A d \in Clients : Waiting(d)' => ~Connected(d)'
    BY <1>2, <1>7, <1>8 DEF Queues
  <2> QED
    BY <2>2, <2>3 DEF Queues
<1>10. Round'
  <2>1. \A m \in Listeners : backlog[m] # <<>> => backlog'[m] # <<>>
    BY <1>4, <1>6
  <2>2. Opened \subseteq Listeners
    BY ConfigurationFits DEF TypeOK, Opened
  <2>3. pc' = "accept" => \A f \in ready_socks : fd[f] \in Opened => backlog'[fd[f]] # <<>>
    BY <1>2, <2>1, <2>2 DEF Round
  <2> QED
    BY <1>2, <2>3 DEF Round, Opened, OneListener
<1>11. TableExact' /\ Sockets' /\ Users'
  BY <1>2, Frames
<1>12. OnlyKillStops'
  BY <1>2, Frames DEF Running
<1> QED
  BY <1>5, <1>9, <1>10, <1>11, <1>12

\* Steps of the clients.
LEMMA SendPreserves ==
    ASSUME IInv, NEW c \in Clients, send_part(c) \/ send_rest(c) \/ die(c)
    PROVE  IInv'
<1> USE DEF IInv
<1>1. /\ Running
      /\ inbox' \in [Clients -> {"none", "part", "whole"}] /\ gone' \subseteq Clients
      /\ UNCHANGED <<options, fd, cblk, clientp, user, cur_clp, ready_socks,
                     no_of_ready_socks, backlog, pc>>
  BY DEF send_part, send_rest, die, Talks, tables, rounds, TypeOK
<1>2. TypeOK'
  BY <1>1 DEF TypeOK, Slot
<1>3. Round'
  BY <1>1 DEF Round, Opened, OneListener
<1>4. TableExact' /\ Sockets' /\ Users' /\ Queues'
  BY <1>1, Frames
<1>5. OnlyKillStops'
  BY <1>1, Frames DEF Running
<1> QED
  BY <1>2, <1>3, <1>4, <1>5

----------------------------------------------------------------------------
(***************************************************************************)
(* The server's rounds.  select reports open descriptors, each once.       *)
(***************************************************************************)
LEMMA Disjoint ==
    ASSUME TypeOK
    PROVE  /\ Opened \subseteq Listeners
           /\ options.fork \in BOOLEAN
           /\ \A c \in Clients : c \notin Opened /\ c \notin {Free, Stdio, NoUser, Unset}
           /\ \A l \in Opened : l \notin {Free, Stdio}
           /\ options.max_client \in Nat \ {0} /\ Slot \in SUBSET Nat
           /\ IsFiniteSet(ready_socks)
<1>1. /\ options.opened \subseteq Listeners /\ options.fork \in BOOLEAN
      /\ options.max_client \in Nat \ {0}
  BY ConfigurationFits DEF TypeOK
<1>2. IsFiniteSet(ready_socks)
  BY Numbers, FS_Subset DEF TypeOK
<1>3. Slot \in SUBSET Nat
  BY <1>1 DEF Slot
<1> QED
  BY <1>1, <1>2, <1>3, ConfigurationFits DEF Opened

\* select returns.
LEMMA SelectPreserves ==
    ASSUME IInv, sel_all
    PROVE  IInv'
<1> USE DEF IInv
<1>1. /\ ready_socks' = Readable /\ no_of_ready_socks' = Cardinality(Readable)
      /\ pc' = "accept"
      /\ UNCHANGED <<options, fd, cblk, clientp, user, cur_clp, backlog, inbox, gone>>
  BY DEF sel_all, tables, peers
<1>2. Readable \in SUBSET Fds
  BY DEF Readable
<1>3. no_of_ready_socks' \in 0 .. Cardinality(Fds)
  <2>1. /\ IsFiniteSet(Readable) /\ Cardinality(Readable) <= Cardinality(Fds)
        /\ Cardinality(Readable) \in Nat /\ Cardinality(Fds) \in Nat
    BY <1>2, Numbers, FS_Subset, FS_CardinalityType
  <2> QED
    BY <1>1, <2>1
<1>4. TypeOK'
  BY <1>1, <1>2, <1>3 DEF TypeOK, Slot
<1>5. Round'
  <2>1. \A f \in Readable : fd[f] \in Clients \cup Opened
    BY DEF Readable
  <2>2. \A f \in Readable : fd[f] \in Opened => backlog[fd[f]] # <<>>
    BY Disjoint DEF Readable
  <2> QED
    BY <1>1, <2>1, <2>2 DEF Round, Opened
<1>6. TableExact' /\ Sockets' /\ Queues' /\ Users' /\ OnlyKillStops'
  BY <1>1, Frames
<1> QED
  BY <1>4, <1>5, <1>6

(***************************************************************************)
(* new_client finds the listening sockets that are ready, and when there   *)
(* is one at all, only that one.                                           *)
(***************************************************************************)
LEMMA ReadyAcceptors ==
    ASSUME IInv
    PROVE  /\ \A f \in ready_socks : fd[f] \in Opened =>
                 \E k \in SetAcceptors : accept_blk[k] = f /\ fd[f] = Acceptors[k]
           /\ SetAcceptors # {} => /\ Least(SetAcceptors) \in DOMAIN Acceptors
                                   /\ acceptor_sd \in ready_socks
           /\ OneListener => \A f, g \in Fds : fd[f] \in Opened /\ fd[g] \in Opened => f = g
<1> USE DEF IInv
<1>1. ready_socks \subseteq Fds /\ Opened \subseteq Listeners
  BY Disjoint DEF TypeOK
<1>2. ASSUME NEW f \in Fds, fd[f] \in Opened
      PROVE  \E k \in DOMAIN Acceptors : accept_blk[k] = f /\ fd[f] = Acceptors[k]
  <2>1. PICK k \in DOMAIN Acceptors : f = k + 1 /\ fd[f] = Acceptors[k]
    BY <1>1, <1>2 DEF Sockets
  <2> QED
    BY <1>2, <2>1, Numbers
<1>3. SetAcceptors # {} => /\ Least(SetAcceptors) \in DOMAIN Acceptors
                           /\ acceptor_sd \in ready_socks
  <2>1. SetAcceptors \in SUBSET Nat
    BY Numbers DEF SetAcceptors
  <2>2. SetAcceptors # {} => Least(SetAcceptors) \in SetAcceptors
    BY <2>1, LeastIsIn
  <2> QED
    BY <2>2 DEF SetAcceptors, acceptor_sd
<1>4. ASSUME OneListener, NEW f \in Fds, NEW g \in Fds, fd[f] \in Opened, fd[g] \in Opened
      PROVE  f = g
  <2>1. fd[f] = fd[g]
    <3>1. IsFiniteSet(Opened) /\ Cardinality(Opened) = 1
      <4>1. IsFiniteSet(Listeners)
        <5>1. IsFiniteSet(DOMAIN Acceptors)
          BY Numbers, FS_Interval
        <5>2. Acceptors \in [DOMAIN Acceptors -> Listeners]
          BY Numbers, ConfigurationFits
        <5>3. \A l \in Listeners : \E k \in DOMAIN Acceptors : Acceptors[k] = l
          BY DEF Listeners
        <5>4. Acceptors \in Surjection(DOMAIN Acceptors, Listeners)
          BY <5>2, <5>3 DEF Surjection
        <5> QED
          BY <5>1, <5>4, FS_Surjection
      <4> QED
        BY <1>1, <1>4, <4>1, FS_Subset DEF OneListener
    <3>2. /\ IsFiniteSet(Opened \ {fd[f]})
          /\ Cardinality(Opened \ {fd[f]}) = 0
      BY <1>4, <3>1, FS_RemoveElement
    <3>3. Opened \ {fd[f]} = {}
      BY <3>2, FS_EmptySet
    <3> QED
      BY <1>4, <3>3
  <2>2. PICK k \in DOMAIN Acceptors : f = k + 1 /\ fd[f] = Acceptors[k]
    BY <1>1, <1>4 DEF Sockets
  <2>3. PICK j \in DOMAIN Acceptors : g = j + 1 /\ fd[g] = Acceptors[j]
    BY <1>1, <1>4 DEF Sockets
  <2> QED
    BY <2>1, <2>2, <2>3, ConfigurationFits
<1> QED
  BY <1>1, <1>2, <1>3, <1>4 DEF SetAcceptors

\* Nobody wants to connect.
LEMMA NoNewClientPreserves ==
    ASSUME IInv, no_new_client
    PROVE  IInv'
<1> USE DEF IInv
<1>1. /\ pc = "accept" /\ SetAcceptors = {} /\ pc' = "pick"
      /\ UNCHANGED <<options, fd, cblk, clientp, user, cur_clp, ready_socks,
                     no_of_ready_socks, backlog, inbox, gone>>
  BY DEF no_new_client, tables, rounds, peers
<1>2. TypeOK'
  BY <1>1 DEF TypeOK, Slot
<1>3. Round'
  <2>1. \A f \in ready_socks : fd[f] \in Clients
    BY <1>1, ReadyAcceptors DEF Round
  <2> QED
    BY <1>1, <2>1 DEF Round, Opened, OneListener
<1>4. TableExact' /\ Sockets' /\ Queues' /\ Users' /\ OnlyKillStops'
  BY <1>1, Frames
<1> QED
  BY <1>2, <1>3, <1>4

(***************************************************************************)
(* A connection is taken off its queue: it waits no more, and what is left *)
(* to do in the round is one less.                                         *)
(***************************************************************************)
LEMMA AcceptFacts ==
    ASSUME IInv, NEW c \in Clients, Accepting(c)
    PROVE  /\ ~Connected(c)
           /\ backlog' \in [Listeners -> Seq(Clients)]
           /\ \A d \in Clients : Waiting(d)' => Waiting(d) /\ d # c
           /\ \A l, m \in Listeners : \A j \in DOMAIN backlog'[l], k \in DOMAIN backlog'[m] :
                backlog'[l][j] = backlog'[m][k] => l = m /\ j = k
           /\ ready_socks' \subseteq ready_socks
           /\ no_of_ready_socks' = Cardinality(ready_socks')
           /\ no_of_ready_socks' \in 0 .. Cardinality(Fds)
           /\ OneListener => \A f \in ready_socks' : fd[f] \in Clients
           /\ pc' = "pick" /\ cur_clp' = cur_clp
<1> USE DEF IInv
<1> DEFINE l == fd[acceptor_sd]
<1>1. /\ pc = "accept" /\ SetAcceptors # {} /\ l \in Opened /\ c = Head(backlog[l])
      /\ backlog' = [backlog EXCEPT ![l] = Tail(backlog[l])]
      /\ ready_socks' = ready_socks \ {acceptor_sd}
      /\ no_of_ready_socks' = no_of_ready_socks - 1
      /\ pc' = "pick" /\ cur_clp' = cur_clp
  BY DEF Accepting
<1>2. acceptor_sd \in ready_socks /\ ready_socks \subseteq Fds /\ acceptor_sd \in Fds
  BY <1>1, ReadyAcceptors DEF TypeOK
<1> HIDE DEF l
<1>3. /\ l \in Listeners /\ backlog \in [Listeners -> Seq(Clients)]
      /\ backlog[l] \in Seq(Clients) /\ backlog[l] # <<>>
  BY <1>1, <1>2, Disjoint DEF Round, TypeOK, l
<1>4. /\ backlog'[l] = Tail(backlog[l]) /\ Tail(backlog[l]) \in Seq(Clients)
      /\ backlog' \in [Listeners -> Seq(Clients)]
      /\ \A m \in Listeners \ {l} : backlog'[m] = backlog[m]
  BY <1>1, <1>3
<1>5. /\ 1 \in DOMAIN backlog[l] /\ backlog[l][1] = c
      /\ \A k \in DOMAIN backlog'[l] :
           /\ k \in Nat \ {0} /\ k + 1 \in DOMAIN backlog[l]
           /\ backlog'[l][k] = backlog[l][k + 1]
  BY <1>1, <1>3, <1>4
<1>6. ~Connected(c)
  BY <1>3, <1>5 DEF Queues, Waiting
<1>7. \A m \in Listeners : \A k \in DOMAIN backlog'[m] :
        \E j \in DOMAIN backlog[m] :
          /\ backlog[m][j] = backlog'[m][k]
          /\ j = IF m = l THEN k + 1 ELSE k
          /\ m = l => k \in Nat \ {0}
  BY <1>4, <1>5
<1>8. \A d \in Clients : Waiting(d)' => Waiting(d) /\ d # c
  <2> SUFFICES ASSUME NEW d \in Clients, NEW m \in Listeners, NEW k \in DOMAIN backlog'[m],
                      backlog'[m][k] = d
               PROVE  Waiting(d) /\ d # c
    BY DEF Waiting
  <2>1. PICK j \in DOMAIN backlog[m] : /\ backlog[m][j] = d
                                       /\ j = IF m = l THEN k + 1 ELSE k
                                       /\ m = l => k \in Nat \ {0}
    BY <1>7
  <2>2. d = c => m = l /\ j = 1
    BY <1>3, <1>5, <2>1 DEF Queues
  <2> QED
    BY <2>1, <2>2 DEF Waiting
<1>9. ASSUME NEW m \in Listeners, NEW n \in Listeners,
             NEW j \in DOMAIN backlog'[m], NEW k \in DOMAIN backlog'[n],
             backlog'[m][j] = backlog'[n][k]
      PROVE  m = n /\ j = k
  <2>1. PICK a \in DOMAIN backlog[m] : /\ backlog[m][a] = backlog'[m][j]
                                       /\ a = IF m = l THEN j + 1 ELSE j
                                       /\ m = l => j \in Nat \ {0}
    BY <1>7
  <2>2. PICK b \in DOMAIN backlog[n] : /\ backlog[n][b] = backlog'[n][k]
                                       /\ b = IF n = l THEN k + 1 ELSE k
                                       /\ n = l => k \in Nat \ {0}
    BY <1>7
  <2>3. m = n /\ a = b
    BY <1>9, <2>1, <2>2 DEF Queues
  <2> QED
    BY <2>1, <2>2, <2>3
<1>10. /\ no_of_ready_socks' = Cardinality(ready_socks')
       /\ no_of_ready_socks' \in 0 .. Cardinality(Fds)
  <2>1. /\ no_of_ready_socks = Cardinality(ready_socks) /\ IsFiniteSet(ready_socks)
        /\ no_of_ready_socks \in 0 .. Cardinality(Fds)
    BY Disjoint DEF Round, TypeOK
  <2>2. /\ Cardinality(ready_socks \ {acceptor_sd}) = Cardinality(ready_socks) - 1
        /\ Cardinality(ready_socks \ {acceptor_sd}) \in Nat
    BY <1>2, <2>1, FS_RemoveElement, FS_CardinalityType
  <2>3. Cardinality(Fds) \in Nat
    BY Numbers, FS_CardinalityType
  <2>4. Cardinality(ready_socks) - 1 \in 0 .. Cardinality(Fds)
    BY <2>1, <2>2, <2>3
  <2> QED
    BY <1>1, <2>1, <2>2, <2>4
<1>11. OneListener => \A f \in ready_socks' : fd[f] \in Clients
  BY <1>1, <1>2, ReadyAcceptors DEF Round, l
<1> QED
  BY <1>1, <1>4, <1>6, <1>8, <1>9, <1>10, <1>11

\* One client too many.
LEMMA RefusePreserves ==
    ASSUME IInv, NEW c \in Clients, refuse_client(c)
    PROVE  IInv'
<1> USE DEF IInv
<1>1. /\ Accepting(c)
      /\ inbox' = [inbox EXCEPT ![c] = "none"] /\ gone' = gone \ {c}
      /\ UNCHANGED <<options, fd, cblk, clientp, user>>
  BY DEF refuse_client, Hangup, tables
<1>2. TypeOK'
  <2>1. inbox' \in [Clients -> {"none", "part", "whole"}] /\ gone' \subseteq Clients
    BY <1>1 DEF TypeOK
  <2> QED
    BY <1>1, <2>1, AcceptFacts DEF TypeOK, Slot
<1>3. Round'
  BY <1>1, AcceptFacts DEF Round, Opened, OneListener
<1>4. Queues'
  <2>1. \A d \in Clients : Connected(d)' <=> Connected(d)
    BY <1>1 DEF Connected
  <2> QED
    BY <1>1, <2>1, AcceptFacts DEF Queues
<1>5. TableExact' /\ Sockets' /\ Users' /\ OnlyKillStops'
  BY <1>1, AcceptFacts, Frames
<1> QED
  BY <1>2, <1>3, <1>4, <1>5

(***************************************************************************)
(* An accepted client takes a free descriptor and the first free entry,    *)
(* whose user_name is nobody's.                                            *)
(***************************************************************************)
LEMMA NewClientPreserves ==
    ASSUME IInv, NEW c \in Clients, new_client(c)
    PROVE  IInv'
<1> USE DEF IInv
<1>1. /\ Accepting(c) /\ clientp < options.max_client
      /\ fd' = [fd EXCEPT ![new_sd] = c]
      /\ cblk' = [cblk EXCEPT ![clientp] = new_sd]
      /\ clientp' = clientp + 1
      /\ UNCHANGED <<options, user, inbox, gone>>
  BY DEF new_client
<1>2. ~Connected(c)
  BY <1>1, AcceptFacts
<1>3. PICK s \in Fds : s = new_sd /\ fd[s] = Free
  BY <1>2, DescriptorLeft
<1>4. /\ options.max_client \in Nat /\ clientp \in 0 .. options.max_client /\ clientp \in Slot
      /\ clientp \in Nat /\ Slot' = Slot /\ Slot = 0 .. options.max_client - 1
  <2>1. options.max_client \in Nat /\ clientp \in 0 .. options.max_client
    BY Disjoint DEF TypeOK
  <2>2. Slot = 0 .. options.max_client - 1 /\ Slot' = Slot
    BY <1>1 DEF Slot
  <2>3. clientp \in 0 .. options.max_client - 1 /\ clientp \in Nat
    BY <1>1, <2>1
  <2> QED
    BY <2>1, <2>2, <2>3
<1>5. /\ fd' \in [Fds -> Clients \cup Listeners \cup {Free, Stdio}]
      /\ fd'[s] = c /\ \A f \in Fds \ {s} : fd'[f] = fd[f]
      /\ cblk' \in [Slot -> Fds]
      /\ cblk'[clientp] = s /\ \A i \in Slot \ {clientp} : cblk'[i] = cblk[i]
  BY <1>1, <1>3, <1>4 DEF TypeOK
<1>6. TypeOK'
  <2>1. /\ backlog' \in [Listeners -> Seq(Clients)] /\ ready_socks' \subseteq ready_socks
        /\ no_of_ready_socks' \in 0 .. Cardinality(Fds) /\ pc' = "pick" /\ cur_clp' = cur_clp
    BY <1>1, AcceptFacts
  <2>2. clientp' \in 0 .. options.max_client
    BY <1>1, <1>4
  <2> QED
    BY <1>1, <1>4, <1>5, <2>1, <2>2 DEF TypeOK
<1>7. \A f \in Fds \ {s} : fd[f] # c
  BY <1>2 DEF Connected
<1>8. /\ 0 .. clientp' - 1 = (0 .. clientp - 1) \cup {clientp}
      /\ \A i \in 0 .. clientp - 1 : i \in Slot /\ i # clientp /\ cblk[i] \in Fds /\ cblk[i] # s
  <2>1. 0 .. clientp' - 1 = (0 .. clientp - 1) \cup {clientp}
    BY <1>1, <1>4
  <2>2. ASSUME NEW i \in 0 .. clientp - 1
        PROVE  i \in Slot /\ i # clientp /\ cblk[i] \in Fds /\ cblk[i] # s
    <3>1. i \in Slot /\ i # clientp /\ cblk[i] \in Fds
      <4>1. i \in Slot /\ i # clientp
        BY <1>4
      <4> QED
        BY <4>1 DEF TypeOK
    <3>2. fd[cblk[i]] \in Clients
      BY DEF TableExact
    <3> QED
      BY <1>3, <3>1, <3>2, Disjoint
  <2> QED
    BY <2>1, <2>2
<1>9. TableExact'
  <2>1. \A i \in 0 .. clientp - 1 : fd'[cblk'[i]] = fd[cblk[i]] /\ fd[cblk[i]] # c
    BY <1>5, <1>7, <1>8
  <2>2. fd'[cblk'[clientp]] = c
    BY <1>5
  <2>3. \A i \in 0 .. clientp' - 1 : fd'[cblk'[i]] \in Clients
    BY <1>8, <2>1, <2>2 DEF TableExact
  <2>4. \A i, j \in 0 .. clientp' - 1 : fd'[cblk'[i]] = fd'[cblk'[j]] => i = j
    BY <1>8, <2>1, <2>2 DEF TableExact
  <2>5. ASSUME NEW d \in Clients, NEW f \in Fds, fd'[f] = d
        PROVE  \E i \in 0 .. clientp' - 1 : fd'[cblk'[i]] = d
    <3>1. CASE f = s
      BY <1>5, <1>8, <2>2, <2>5, <3>1
    <3>2. CASE f # s
      <4>1. Connected(d)
        BY <1>5, <2>5, <3>2 DEF Connected
      <4> QED
        BY <1>8, <2>1, <4>1 DEF TableExact
    <3> QED
      BY <3>1, <3>2
  <2> QED
    BY <2>3, <2>4, <2>5 DEF TableExact, Connected
<1>10. Sockets'
  <2>1. \A f, g \in Fds : fd'[f] \in Clients /\ fd'[f] = fd'[g] => f = g
    BY <1>5, <1>7 DEF Sockets
  <2>2. \A k \in DOMAIN Acceptors : Acceptors[k] \in Opened => fd'[k + 1] = Acceptors[k]
    BY <1>3, <1>5, Disjoint, Numbers DEF Sockets
  <2>3. \A f \in Fds : fd'[f] \in Listeners =>
         \E k \in DOMAIN Acceptors : f = k + 1 /\ fd'[f] = Acceptors[k] /\ fd'[f] \in Opened
    BY <1>5, Numbers DEF Sockets
  <2>4. \A f \in Fds : f > Len(Acceptors) + 1 => fd'[f] \in Clients \cup {Free}
    BY <1>5 DEF Sockets
  <2>5. ~options.fork => fd'[0] = Stdio
    BY <1>3, <1>5, Numbers, ConfigurationFits DEF Sockets
  <2> QED
    BY <1>1, <2>1, <2>2, <2>3, <2>4, <2>5 DEF Sockets, Opened
<1>11. Queues'
  <2>1. \A d \in Clients : Connected(d)' => Connected(d) \/ d = c
    BY <1>5 DEF Connected
  <2> QED
    BY <1>1, <2>1, AcceptFacts DEF Queues
<1>12. Round'
  <2>1. /\ ready_socks' \subseteq ready_socks /\ ready_socks \subseteq Fds /\ pc' = "pick"
        /\ no_of_ready_socks' = Cardinality(ready_socks')
        /\ OneListener => \A f \in ready_socks' : fd[f] \in Clients
    BY <1>1, AcceptFacts DEF TypeOK
  <2>2. \A f \in ready_socks : fd[f] \in Clients \cup Opened /\ f # s
    BY <1>3, Disjoint DEF Round
  <2>3. \A f \in ready_socks' : fd'[f] = fd[f]
    BY <1>5, <2>1, <2>2
  <2> QED
    BY <1>1, <2>1, <2>2, <2>3 DEF Round, Opened, OneListener
<1>13. Users'
  <2>1. user[clientp] \notin Clients
    BY <1>4 DEF Users
  <2>2. \A i \in 0 .. clientp' - 1 : user[i] \notin Clients \ {fd'[cblk'[i]]}
    BY <1>5, <1>8, <2>1 DEF Users, NoStaleUser
  <2>3. \A i \in Slot : i >= clientp' => user[i] \notin Clients
    BY <1>1, <1>4 DEF Users
  <2> QED
    BY <1>1, <1>4, <2>2, <2>3 DEF Users, NoStaleUser
<1>14. OnlyKillStops'
  BY <1>1, AcceptFacts, Frames
<1> QED
  BY <1>6, <1>9, <1>10, <1>11, <1>12, <1>13, <1>14

(***************************************************************************)
(* accept fails for a descriptor that is no listening socket, which is     *)
(* that of an acceptor not opened: 0, and a client has it.                 *)
(***************************************************************************)
LEMMA AcceptFailsPreserves ==
    ASSUME IInv, accept_fails
    PROVE  IInv'
<1> USE DEF IInv
<1>1. /\ pc = "accept" /\ SetAcceptors # {} /\ fd[acceptor_sd] \notin Opened
      /\ pc' = "bad descriptor"
      /\ UNCHANGED <<options, fd, cblk, clientp, user, cur_clp, ready_socks,
                     no_of_ready_socks, backlog, inbox, gone>>
  BY DEF accept_fails, tables, rounds, peers
<1>2. TypeOK'
  BY <1>1 DEF TypeOK, Slot
<1>3. Round'
  BY <1>1 DEF Round, Opened
<1>4. OnlyKillStops'
  <2>1. PICK k \in DOMAIN Acceptors : acceptor_sd = accept_blk[k] /\ acceptor_sd \in ready_socks
    BY <1>1, ReadyAcceptors DEF acceptor_sd
  <2>2. Acceptors[k] \notin Opened /\ acceptor_sd = 0
    BY <1>1, <2>1, Numbers DEF Sockets
  <2>3. fd[0] \in Clients
    BY <1>1, <2>1, <2>2 DEF Round
  <2>4. options.fork /\ Opened # Listeners
    BY <2>2, <2>3, Disjoint, Numbers DEF Sockets
  <2> QED
    BY <1>1, <2>4 DEF OnlyKillStops, Opened
<1>5. TableExact' /\ Sockets' /\ Queues' /\ Users'
  BY <1>1, Frames
<1> QED
  BY <1>2, <1>3, <1>4, <1>5

(***************************************************************************)
(* get_client takes a ready entry of the table, or ends the round.         *)
(***************************************************************************)
LEMMA NextClp ==
    ASSUME IInv, ReadySlots # {}
    PROVE  next_clp \in ReadySlots
<1> DEFINE later == {i \in ReadySlots : i > cur_clp}
<1>1. ReadySlots \in SUBSET Nat /\ later \in SUBSET Nat
  BY DEF ReadySlots
<1>2. next_clp = IF later # {} THEN Least(later) ELSE Least(ReadySlots)
  BY DEF next_clp
<1>3. later # {} => Least(later) \in later
  BY <1>1, LeastIsIn
<1>4. Least(ReadySlots) \in ReadySlots
  BY <1>1, LeastIsIn
<1> QED
  BY <1>2, <1>3, <1>4

\* The daemon takes the next client that wrote something.
LEMMA GetClientPreserves ==
    ASSUME IInv, get_client
    PROVE  IInv'
<1> USE DEF IInv
<1>1. /\ pc = "pick" /\ ReadySlots # {} /\ pc' = "serve"
      /\ cur_clp' = next_clp
      /\ ready_socks' = ready_socks \ {cblk[next_clp]}
      /\ no_of_ready_socks' = no_of_ready_socks - 1
      /\ UNCHANGED <<options, fd, cblk, clientp, user, backlog, inbox, gone>>
  BY DEF get_client, tables, peers
<1>2. /\ next_clp \in 0 .. clientp - 1 /\ cblk[next_clp] \in ready_socks
  BY <1>1, NextClp DEF ReadySlots
<1>3. next_clp \in Slot
  <2>1. options.max_client \in Nat /\ clientp \in 0 .. options.max_client
    BY Disjoint DEF TypeOK
  <2> QED
    BY <1>2, <2>1 DEF Slot
<1>4. /\ no_of_ready_socks' = Cardinality(ready_socks')
      /\ no_of_ready_socks' \in 0 .. Cardinality(Fds)
  <2>1. /\ no_of_ready_socks = Cardinality(ready_socks) /\ IsFiniteSet(ready_socks)
        /\ no_of_ready_socks \in 0 .. Cardinality(Fds)
    BY Disjoint DEF Round, TypeOK
  <2>2. /\ Cardinality(ready_socks \ {cblk[next_clp]}) = Cardinality(ready_socks) - 1
        /\ Cardinality(ready_socks \ {cblk[next_clp]}) \in Nat
    BY <1>2, <2>1, FS_RemoveElement, FS_CardinalityType
  <2>3. Cardinality(Fds) \in Nat
    BY Numbers, FS_CardinalityType
  <2>4. Cardinality(ready_socks) - 1 \in 0 .. Cardinality(Fds)
    BY <2>1, <2>2, <2>3
  <2> QED
    BY <1>1, <2>1, <2>2, <2>4
<1>5. TypeOK'
  BY <1>1, <1>3, <1>4 DEF TypeOK, Slot
<1>6. Round'
  <2>1. cur_clp' < clientp'
    BY <1>1, <1>2 DEF TypeOK
  <2>2. \A f \in ready_socks' : fd[f] \in Clients \cup Opened
    BY <1>1 DEF Round
  <2>3. OneListener => \A f \in ready_socks' : fd[f] \in Clients
    BY <1>1 DEF Round
  <2> QED
    BY <1>1, <1>4, <2>1, <2>2, <2>3 DEF Round, Opened, OneListener
<1>7. TableExact' /\ Sockets' /\ Queues' /\ Users' /\ OnlyKillStops'
  BY <1>1, Frames
<1> QED
  BY <1>5, <1>6, <1>7

\* Steps that end the round or the daemon.
LEMMA EndsPreserve ==
    ASSUME IInv, get_client_none \/ js_kill \/ sigpipe
    PROVE  IInv'
<1> USE DEF IInv
<1>1. /\ pc' \in {"select", "killed", "SIGPIPE"}
      /\ UNCHANGED <<options, fd, cblk, clientp, user, cur_clp, ready_socks,
                     no_of_ready_socks, backlog, inbox, gone>>
  BY DEF get_client_none, js_kill, sigpipe, tables, rounds, peers
<1>2. TypeOK'
  BY <1>1 DEF TypeOK, Slot
<1>3. Round'
  BY <1>1 DEF Round, Opened
<1>4. TableExact' /\ Sockets' /\ Queues' /\ Users'
  BY <1>1, Frames
<1>5. OnlyKillStops'
  <2>1. CASE sigpipe
    BY <2>1 DEF sigpipe, tables, OnlyKillStops, Opened
  <2>2. CASE get_client_none \/ js_kill
    BY <2>2, Frames DEF get_client_none, js_kill
  <2> QED
    BY <2>1, <2>2
<1> QED
  BY <1>2, <1>3, <1>4, <1>5

(***************************************************************************)
(* Serving: the entry of the client served is one of the table.            *)
(***************************************************************************)
LEMMA ServedIsInTable ==
    ASSUME IInv, pc = "serve"
    PROVE  /\ cur_clp \in 0 .. clientp - 1 /\ cur_clp \in Slot /\ clientp - 1 \in Slot
           /\ clientp \in Nat \ {0} /\ 0 .. clientp - 1 \subseteq Slot
           /\ clientp - 1 \in 0 .. options.max_client
<1>1. options.max_client \in Nat /\ clientp \in 0 .. options.max_client
  BY Disjoint DEF TypeOK, IInv
<1>2. cur_clp \in Slot /\ cur_clp < clientp
  BY DEF IInv, TypeOK, Round
<1>3. Slot = 0 .. options.max_client - 1
  BY DEF Slot
<1>4. cur_clp \in Nat
  BY <1>1, <1>2, <1>3
<1> QED
  BY <1>1, <1>2, <1>3, <1>4

\* One command is executed.
LEMMA CommandPreserves ==
    ASSUME IInv, do_command
    PROVE  IInv'
<1> USE DEF IInv
<1> DEFINE c == cur_client
<1>1. /\ pc = "serve" /\ c \in Clients /\ pc' = "pick"
      /\ user' \in {user, [user EXCEPT ![cur_clp] = c]}
      /\ inbox' = [inbox EXCEPT ![c] = "none"]
      /\ UNCHANGED <<options, fd, cblk, clientp, cur_clp, ready_socks,
                     no_of_ready_socks, backlog, gone>>
  BY DEF do_command, Answering, Serving, rounds
<1>2. c = fd[cblk[cur_clp]]
  BY DEF cur_client
<1> HIDE DEF c
<1>3. cur_clp \in 0 .. clientp - 1 /\ cur_clp \in Slot
  BY <1>1, ServedIsInTable
<1>4. /\ user' \in [Slot -> Clients \cup {NoUser, Unset}]
      /\ inbox' \in [Clients -> {"none", "part", "whole"}]
  BY <1>1 DEF TypeOK
<1>5. TypeOK'
  BY <1>1, <1>4 DEF TypeOK, Slot
<1>6. Round'
  BY <1>1 DEF Round, Opened, OneListener
<1>7. Users'
  <2>1. \A i \in Slot : user'[i] = user[i] \/ (i = cur_clp /\ user'[i] = fd[cblk[i]])
    BY <1>1, <1>2 DEF TypeOK
  <2>2. \A i \in 0 .. clientp - 1 : i \in Slot
    BY <1>1, ServedIsInTable
  <2>3. \A i \in 0 .. clientp - 1 : user'[i] \notin Clients \ {fd[cblk[i]]}
    BY <2>1, <2>2 DEF Users, NoStaleUser
  <2>4. \A i \in Slot : i >= clientp => user'[i] \notin Clients
    <3>1. clientp \in Nat
      BY <1>1, ServedIsInTable
    <3>2. \A i \in Slot : i >= clientp => i # cur_clp
      BY <1>3, <3>1, Disjoint
    <3> QED
      BY <2>1, <3>2 DEF Users
  <2>5. Slot' = Slot
    BY <1>1 DEF Slot
  <2> QED
    BY <1>1, <2>3, <2>4, <2>5 DEF Users, NoStaleUser
<1>8. TableExact' /\ Sockets' /\ Queues' /\ OnlyKillStops'
  BY <1>1, Frames
<1> QED
  BY <1>5, <1>6, <1>7, <1>8

(***************************************************************************)
(* del_client: entry i is what From (i) was, every entry but that of the   *)
(* client that goes comes from somewhere, and none comes twice.            *)
(***************************************************************************)
LEMMA DelClientPreserves ==
    ASSUME IInv, js_close \/ client_dead
    PROVE  IInv'
<1> USE DEF IInv
<1> DEFINE s == cblk[cur_clp]
           n == clientp - 1
           From(i) == IF i = cur_clp THEN n ELSE i
<1>1. /\ pc = "serve" /\ cur_client \in Clients /\ del_client /\ pc' = "pick"
      /\ UNCHANGED <<options, cur_clp, ready_socks, no_of_ready_socks, backlog>>
  BY DEF js_close, client_dead, Answering, Serving, rounds
<1>2. /\ fd' = [fd EXCEPT ![s] = Free]
      /\ cblk' = [cblk EXCEPT ![cur_clp] = cblk[n]]
      /\ user' = [user EXCEPT ![cur_clp] = user[n], ![n] = NoUser]
      /\ clientp' = n
      /\ inbox' = [inbox EXCEPT ![cur_client] = "none"] /\ gone' = gone \ {cur_client}
  BY <1>1 DEF del_client, Hangup
<1>3. /\ cur_clp \in 0 .. n /\ cur_clp \in Slot /\ n \in Slot
      /\ n \in Nat /\ 0 .. n \subseteq Slot /\ n \in 0 .. options.max_client
      /\ clientp = n + 1 /\ Slot' = Slot /\ Slot \in SUBSET Nat
  <2>1. clientp \in Nat \ {0}
    BY <1>1, ServedIsInTable
  <2>2. n \in Nat /\ clientp = n + 1
    BY <2>1
  <2>3. Slot' = Slot
    BY <1>1 DEF Slot
  <2> QED
    BY <1>1, <2>2, <2>3, ServedIsInTable, Disjoint
<1>4. /\ s \in Fds /\ fd[s] \in Clients /\ fd[s] = cur_client
      /\ cblk \in [Slot -> Fds] /\ user \in [Slot -> Clients \cup {NoUser, Unset}]
      /\ fd \in [Fds -> Clients \cup Listeners \cup {Free, Stdio}]
  BY <1>1, <1>3 DEF TypeOK, cur_client
<1> HIDE DEF s, n
<1>5. /\ fd' \in [Fds -> Clients \cup Listeners \cup {Free, Stdio}]
      /\ fd'[s] = Free /\ \A f \in Fds \ {s} : fd'[f] = fd[f]
  BY <1>2, <1>4
<1>6. /\ cblk' \in [Slot -> Fds]
      /\ \A i \in Slot : cblk'[i] = cblk[From(i)]
  BY <1>2, <1>3, <1>4
<1>7. /\ user' \in [Slot -> Clients \cup {NoUser, Unset}]
      /\ \A i \in Slot : i # n => user'[i] = user[From(i)]
      /\ user'[n] = NoUser
  BY <1>2, <1>3, <1>4
<1>8. \A i \in 0 .. n - 1 :
        /\ i \in Slot /\ i # n /\ From(i) \in 0 .. n /\ From(i) \in Slot
        /\ From(i) # cur_clp
  BY <1>3
<1>9. \A i \in 0 .. n - 1 : cblk[From(i)] \in Fds \ {s} /\ fd[cblk[From(i)]] \in Clients
  <2> SUFFICES ASSUME NEW i \in 0 .. n - 1
               PROVE  cblk[From(i)] \in Fds \ {s} /\ fd[cblk[From(i)]] \in Clients
    OBVIOUS
  <2>1. \A j \in 0 .. n : fd[cblk[j]] \in Clients
    BY <1>3 DEF TableExact
  <2>2. fd[cblk[From(i)]] # fd[cblk[cur_clp]]
    BY <1>3, <1>8 DEF TableExact
  <2> QED
    BY <1>4, <1>8, <2>1, <2>2 DEF s
<1>10. \A i \in 0 .. n - 1 : fd'[cblk'[i]] = fd[cblk[From(i)]]
  BY <1>5, <1>6, <1>8, <1>9
<1>11. TypeOK'
  <2>1. inbox' \in [Clients -> {"none", "part", "whole"}] /\ gone' \subseteq Clients
    BY <1>2 DEF TypeOK
  <2> QED
    BY <1>1, <1>2, <1>3, <1>5, <1>6, <1>7, <2>1 DEF TypeOK
<1>12. TableExact'
  <2>1. \A i, j \in 0 .. n : fd[cblk[i]] = fd[cblk[j]] => i = j
    BY <1>3 DEF TableExact
  <2>2. \A i, j \in 0 .. n - 1 : fd'[cblk'[i]] = fd'[cblk'[j]] => i = j
    BY <1>8, <1>10, <2>1
  <2>3. ASSUME NEW d \in Clients, NEW f \in Fds, fd'[f] = d
        PROVE  \E i \in 0 .. n - 1 : fd'[cblk'[i]] = d
    <3>1. f # s /\ fd[f] = d
      BY <1>5, <2>3, ConfigurationFits
    <3>2. PICK j \in 0 .. n : fd[cblk[j]] = d
      BY <1>3, <3>1 DEF TableExact, Connected
    <3>3. j # cur_clp
      BY <1>4, <3>1, <3>2 DEF Sockets, s
    <3>4. CASE j = n
      <4>1. cur_clp \in 0 .. n - 1 /\ From(cur_clp) = n
        BY <1>3, <3>3, <3>4
      <4> QED
        BY <1>10, <3>2, <3>4, <4>1
    <3>5. CASE j # n
      <4>1. j \in 0 .. n - 1 /\ From(j) = j
        BY <1>3, <3>3, <3>5
      <4> QED
        BY <1>10, <3>2, <4>1
    <3> QED
      BY <3>4, <3>5
  <2> QED
    BY <1>2, <1>9, <1>10, <2>2, <2>3 DEF TableExact, Connected
<1>13. Sockets'
  <2>1. \A f, g \in Fds : fd'[f] \in Clients /\ fd'[f] = fd'[g] => f = g
    BY <1>5, ConfigurationFits DEF Sockets
  <2>2. \A k \in DOMAIN Acceptors : Acceptors[k] \in Opened => fd'[k + 1] = Acceptors[k]
    BY <1>4, <1>5, Numbers DEF Sockets
  <2>3. \A f \in Fds : fd'[f] \in Listeners =>
         \E k \in DOMAIN Acceptors : f = k + 1 /\ fd'[f] = Acceptors[k] /\ fd'[f] \in Opened
    BY <1>5, ConfigurationFits DEF Sockets
  <2>4. \A f \in Fds : f > Len(Acceptors) + 1 => fd'[f] \in Clients \cup {Free}
    BY <1>5 DEF Sockets
  <2>5. ~options.fork => fd'[0] = Stdio
    BY <1>4, <1>5, Numbers, ConfigurationFits DEF Sockets
  <2> QED
    BY <1>1, <2>1, <2>2, <2>3, <2>4, <2>5 DEF Sockets, Opened
<1>14. Queues'
  <2>1. \A d \in Clients : Connected(d)' => Connected(d)
    BY <1>5, ConfigurationFits DEF Connected
  <2>2. \A d \in Clients : Waiting(d)' <=> Waiting(d)
    BY <1>1 DEF Waiting
  <2> QED
    BY <1>1, <2>1, <2>2 DEF Queues
<1>15. Round'
  <2>1. s \notin ready_socks /\ ready_socks \subseteq Fds
    BY <1>1 DEF Round, TypeOK, s
  <2>2. \A f \in ready_socks : fd'[f] = fd[f]
    BY <1>5, <2>1
  <2> QED
    BY <1>1, <2>2 DEF Round, Opened, OneListener
<1>16. Users'
  <2>1. \A i \in 0 .. n - 1 : user'[i] \notin Clients \ {fd'[cblk'[i]]}
    <3> SUFFICES ASSUME NEW i \in 0 .. n - 1
                 PROVE  user'[i] \notin Clients \ {fd'[cblk'[i]]}
      OBVIOUS
    <3>1. From(i) \in 0 .. clientp - 1
      BY <1>3, <1>8
    <3>2. user[From(i)] \notin Clients \ {fd[cblk[From(i)]]}
      BY <3>1 DEF Users, NoStaleUser
    <3> QED
      BY <1>7, <1>8, <1>10, <3>2
  <2>2. \A i \in Slot : i >= n => user'[i] \notin Clients
    <3> SUFFICES ASSUME NEW i \in Slot, i >= n
                 PROVE  user'[i] \notin Clients
      OBVIOUS
    <3>1. CASE i = n
      BY <1>7, <3>1, ConfigurationFits
    <3>2. CASE i # n
      <4>1. i >= clientp /\ From(i) = i
        BY <1>3, <3>2
      <4> QED
        BY <1>7, <3>2, <4>1 DEF Users
    <3> QED
      BY <3>1, <3>2
  <2> QED
    BY <1>2, <1>3, <2>1, <2>2 DEF Users, NoStaleUser
<1>17. OnlyKillStops'
  BY <1>1, Frames
<1> QED
  BY <1>11, <1>12, <1>13, <1>14, <1>15, <1>16, <1>17

----------------------------------------------------------------------------
\* The invariant holds when the daemon starts.
LEMMA InitEstablishes == Init => IInv
<1> SUFFICES ASSUME Init PROVE IInv
  OBVIOUS
<1> DEFINE last == Len(Acceptors) + 1
<1>0. options \in Options /\ options.max_client \in Nat \ {0} /\ options.opened \subseteq Listeners
  BY ConfigurationFits DEF Init
<1>1. /\ fd \in [Fds -> Clients \cup Listeners \cup {Free, Stdio}]
      /\ \A f \in Fds : fd[f] \in {Free, Stdio} \/ fd[f] \in Listeners
      /\ \A f \in Fds : f < 2 => fd[f] = IF options.fork THEN Free ELSE Stdio
      /\ \A f \in Fds : fd[f] \in Listeners =>
           \E k \in DOMAIN Acceptors : f = k + 1 /\ fd[f] = Acceptors[k] /\ fd[f] \in Opened
      /\ \A k \in DOMAIN Acceptors : Acceptors[k] \in Opened => fd[k + 1] = Acceptors[k]
      /\ \A f \in Fds : f > last => fd[f] = Free
  <2>1. \A f \in Fds : fd[f] =
          IF f < 2 THEN IF options.fork THEN Free ELSE Stdio
          ELSE IF \E k \in DOMAIN Acceptors : accept_blk[k] = f THEN Acceptors[f - 1] ELSE Free
    BY DEF Init
  <2>2. ASSUME NEW f \in Fds, f >= 2, NEW k \in DOMAIN Acceptors, accept_blk[k] = f
        PROVE  k = f - 1 /\ f = k + 1 /\ Acceptors[k] \in Opened /\ Acceptors[k] \in Listeners
    BY <2>2, Numbers
  <2>3. \A k \in DOMAIN Acceptors : Acceptors[k] \in Opened =>
          k + 1 \in Fds /\ k + 1 >= 2 /\ accept_blk[k] = k + 1 /\ (k + 1) - 1 = k
    BY Numbers
  <2>4. \A f \in Fds : fd[f] \in {Free, Stdio} \/
          (f >= 2 /\ \E k \in DOMAIN Acceptors : accept_blk[k] = f /\ fd[f] = Acceptors[f - 1])
    BY <2>1, Numbers
  <2>5. \A f \in Fds : fd[f] \in {Free, Stdio} \/
          \E k \in DOMAIN Acceptors : /\ f = k + 1 /\ fd[f] = Acceptors[k]
                                      /\ fd[f] \in Opened /\ fd[f] \in Listeners
    BY <2>2, <2>4
  <2>6. fd \in [Fds -> Clients \cup Listeners \cup {Free, Stdio}]
    BY <2>5 DEF Init
  <2>7. \A f \in Fds : f < 2 => fd[f] = IF options.fork THEN Free ELSE Stdio
    BY <2>1
  <2>8. \A k \in DOMAIN Acceptors : Acceptors[k] \in Opened => fd[k + 1] = Acceptors[k]
    <3> SUFFICES ASSUME NEW k \in DOMAIN Acceptors, Acceptors[k] \in Opened
                 PROVE  fd[k + 1] = Acceptors[k]
      OBVIOUS
    <3>1. k + 1 \in Fds /\ ~ (k + 1 < 2) /\ accept_blk[k] = k + 1 /\ (k + 1) - 1 = k
      BY <2>3, Numbers
    <3> QED
      BY <2>1, <3>1
  <2>9. \A f \in Fds : f > last => fd[f] = Free
    <3> SUFFICES ASSUME NEW f \in Fds, f > last
                 PROVE  fd[f] = Free
      OBVIOUS
    <3>1. ~ (f < 2)
      BY Numbers
    <3>2. \A k \in DOMAIN Acceptors : accept_blk[k] # f
      BY <2>2, <3>1, Numbers
    <3> QED
      BY <2>1, <3>1, <3>2
  <2> QED
    BY <2>5, <2>6, <2>7, <2>8, <2>9, ConfigurationFits
<1>2. \A f \in Fds : fd[f] \notin Clients
  <2>1. \A f \in Fds : fd[f] \in {Free, Stdio} \/ fd[f] \in Listeners
    BY <1>1
  <2>2. Free \notin Clients /\ Stdio \notin Clients /\ \A l \in Listeners : l \notin Clients
    BY ConfigurationFits
  <2> QED
    BY <2>1, <2>2
<1>3. TypeOK
  <2>1. 0 \in Slot /\ 0 \in 0 .. options.max_client
    BY <1>0 DEF Slot
  <2>2. 0 \in 0 .. Cardinality(Fds)
    BY Numbers, FS_CardinalityType
  <2>3. cblk \in [Slot -> Fds] /\ user \in [Slot -> Clients \cup {NoUser, Unset}]
    BY Numbers DEF Init
  <2>4. /\ backlog \in [Listeners -> Seq(Clients)]
        /\ inbox \in [Clients -> {"none", "part", "whole"}]
    BY DEF Init
  <2> QED
    BY <1>0, <1>1, <2>1, <2>2, <2>3, <2>4 DEF Init, TypeOK
<1>4. TableExact
  BY <1>2 DEF Init, TableExact, Connected
<1>5. Sockets
  <2>1. ~options.fork => fd[0] = Stdio
    BY <1>1, Numbers
  <2> QED
    BY <1>1, <1>2, <2>1 DEF Sockets
<1>6. Queues
  <2>1. \A c \in Clients : ~Connected(c)
    BY <1>2 DEF Connected
  <2>2. \A l \in Listeners : DOMAIN backlog[l] = {}
    BY DEF Init
  <2> QED
    BY <2>1, <2>2 DEF Queues
<1>7. Round
  BY FS_EmptySet DEF Init, Round
<1>8. Users
  <2>1. \A i \in Slot : user[i] \notin Clients
    BY ConfigurationFits DEF Init
  <2> QED
    BY <2>1 DEF Init, Users, NoStaleUser
<1>9. OnlyKillStops
  BY DEF Init, OnlyKillStops, Running
<1> QED
  BY <1>3, <1>4, <1>5, <1>6, <1>7, <1>8, <1>9 DEF IInv

\* Every step keeps the invariant.
LEMMA NextPreserves == IInv /\ [Next]_vars => IInv'
<1> SUFFICES ASSUME IInv, [Next]_vars PROVE IInv'
  OBVIOUS
<1>1. CASE UNCHANGED vars
  <2>1. UNCHANGED <<options, fd, cblk, clientp, user, cur_clp, ready_socks,
                    no_of_ready_socks, backlog, inbox, gone, pc>>
    BY <1>1 DEF vars, tables, rounds, peers
  <2>2. TypeOK' /\ Round' /\ OnlyKillStops'
    BY <2>1 DEF IInv, TypeOK, Slot, Round, Opened, OneListener, OnlyKillStops, Running
  <2> QED
    BY <2>1, <2>2, Frames DEF IInv
<1>2. ASSUME NEW c \in Clients, Client(c) PROVE IInv'
  BY <1>2, ConnectPreserves, SendPreserves DEF Client
<1>3. CASE Server
  BY <1>3, SelectPreserves, NoNewClientPreserves, NewClientPreserves, RefusePreserves,
     AcceptFailsPreserves, GetClientPreserves, EndsPreserve, CommandPreserves,
     DelClientPreserves DEF Server
<1> QED
  BY <1>1, <1>2, <1>3 DEF Next

\* The inductive invariant of the main loop.
THEOREM Invariance == Spec => []IInv
BY InitEstablishes, NextPreserves, PTL DEF Spec

(***************************************************************************)
(* The client table is the table of the open connections, for any number   *)
(* of clients and any length of the table.                                 *)
(***************************************************************************)
THEOREM TableIsExact == Spec => []TableExact
<1>1. IInv => TableExact
  BY DEF IInv
<1> QED
  BY <1>1, Invariance, PTL

(***************************************************************************)
(* With one listening socket, get_client finds a client when it looks for  *)
(* one: what is left in ready_socks is descriptors of the table.           *)
(***************************************************************************)
THEOREM GetClientReturns == Spec => []OneListenerFindsOne
<1>1. IInv => OneListenerFindsOne
  <2> SUFFICES ASSUME IInv, OneListener, pc = "pick", no_of_ready_socks # 0
               PROVE  ReadySlots # {}
    BY DEF OneListenerFindsOne, GetClientFindsOne
  <2>1. ready_socks # {} /\ ready_socks \subseteq Fds
    BY FS_EmptySet DEF IInv, Round, TypeOK
  <2>2. PICK f \in ready_socks : f \in Fds /\ fd[f] \in Clients
    BY <2>1 DEF IInv, Round
  <2>3. PICK i \in 0 .. clientp - 1 : fd[cblk[i]] = fd[f]
    BY <2>2 DEF IInv, TableExact, Connected
  <2>4. cblk[i] \in Fds
    <3>1. options.max_client \in Nat /\ clientp \in 0 .. options.max_client
      BY Disjoint DEF IInv, TypeOK
    <3>2. i \in Slot
      BY <3>1 DEF Slot
    <3> QED
      BY <3>2 DEF IInv, TypeOK
  <2>5. cblk[i] = f
    BY <2>2, <2>3, <2>4 DEF IInv, Sockets
  <2> QED
    BY <2>2, <2>5 DEF ReadySlots
<1> QED
  BY <1>1, Invariance, PTL

(***************************************************************************)
(* Whatever clients do, a server that ignores SIGPIPE and has no acceptor  *)
(* on the descriptor of a client runs until JS_KILL.                       *)
(***************************************************************************)
THEOREM NothingElseStops == Spec => []OnlyKillStops
<1>1. IInv => OnlyKillStops
  BY DEF IInv
<1> QED
  BY <1>1, Invariance, PTL

(***************************************************************************)
(* No connection is shown under the user_name another client gave.         *)
(***************************************************************************)
THEOREM UsersOwn == Spec => []NoStaleUser
<1>1. IInv => NoStaleUser
  BY DEF IInv, Users
<1> QED
  BY <1>1, Invariance, PTL

==============================================================================
