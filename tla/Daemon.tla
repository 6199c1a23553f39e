------------------------------- MODULE Daemon -------------------------------
(***************************************************************************)
(* The main loop of jserver (Wnn/jserver/de.c): select on all sockets,     *)
(* accept at most one new client, then serve, one command each, the        *)
(* clients select found ready, going round the client table.  Sockets are  *)
(* file descriptors: accept and close reuse their numbers.                 *)
(*                                                                         *)
(* A command is abstracted to how much of it has arrived.  do_command      *)
(* starts when any of it is there and blocks in recv until all of it is,   *)
(* or until the connection is closed (longjmp to client_dead).             *)
(***************************************************************************)
EXTENDS Integers, Sequences, FiniteSets

CONSTANTS
    Clients,       \* the client processes
    Acceptors,     \* the accept_blk entries, in the order new_client looks
    Options,       \* the command lines considered: see options
    PipeIgnorer,   \* the acceptor whose initialisation ignores SIGPIPE
    Free,          \* a descriptor that is not open
    Stdio,         \* a descriptor jserver opened for something else
    NoUser,        \* an empty user_name
    Unset          \* what malloc left in a user_name that was never set

Listeners == {Acceptors[k] : k \in DOMAIN Acceptors}

ASSUME ConfigurationFits ==
    /\ IsFiniteSet(Clients)
    /\ Options \subseteq [opened : SUBSET Listeners, fork : BOOLEAN, max_client : Nat \ {0}]
    /\ Clients \cap Listeners = {}
    /\ {Free, Stdio, NoUser, Unset} \cap (Clients \cup Listeners) = {} /\ Free # Stdio
    /\ Acceptors \in Seq(Listeners)
    /\ \A j, k \in DOMAIN Acceptors : Acceptors[j] = Acceptors[k] => j = k

\* Descriptors 0 and 1 are stdin and stdout; the listening sockets come next.
Fds  == 0 .. Len(Acceptors) + Cardinality(Clients) + 1

VARIABLES
    options,   \* the acceptors opened (-u, -4: one; else all), OPT_FORK (not -D), and
               \* max_client of jserverrc, the length of cblk[] and client[]
    fd,        \* what each descriptor is: a client, a listening socket, ...
    cblk,      \* cblk[].sd
    clientp,   \* the number of clients in cblk[] and client[]
    user,      \* client[].user_name
    cur_clp,   \* the client being served
    ready_socks, no_of_ready_socks,
    pc,        \* where daemon_main is, or why the server stopped
    backlog,   \* the connections waiting at each listening socket
    inbox,     \* how much of the client's next command has arrived
    gone       \* the clients that closed their end of the connection

tables == <<options, fd, cblk, clientp, user>>
rounds == <<cur_clp, ready_socks, no_of_ready_socks>>
peers  == <<backlog, inbox, gone>>
vars   == <<tables, rounds, peers, pc>>

Slot == 0 .. options.max_client - 1

TypeOK ==
    /\ options \in Options
    /\ fd \in [Fds -> Clients \cup Listeners \cup {Free, Stdio}]
    /\ cblk \in [Slot -> Fds]
    /\ clientp \in 0 .. options.max_client
    /\ user \in [Slot -> Clients \cup {NoUser, Unset}]
    /\ cur_clp \in Slot
    /\ ready_socks \subseteq Fds
    /\ no_of_ready_socks \in 0 .. Cardinality(Fds)
    /\ pc \in {"select", "accept", "pick", "serve",
              "killed", "SIGPIPE", "bad descriptor"}
    /\ backlog \in [Listeners -> Seq(Clients)]
    /\ inbox \in [Clients -> {"none", "part", "whole"}]
    /\ gone \subseteq Clients

----------------------------------------------------------------------------
Opened == options.opened

\* accept_blk[].sd of a socket that was not opened is 0: static storage.
accept_blk == [k \in DOMAIN Acceptors |-> IF Acceptors[k] \in Opened THEN k + 1 ELSE 0]

Least(S) == CHOOSE i \in S : \A j \in S : i <= j

Waiting(c) == \E l \in Listeners : \E k \in DOMAIN backlog[l] : backlog[l][k] = c
Connected(c) == \E f \in Fds : fd[f] = c
HasInput(c) == inbox[c] # "none" \/ c \in gone

Running == pc \in {"select", "accept", "pick", "serve"}

\* The descriptors select reports: all_socks is the opened acceptors and the
\* clients.
Readable == {f \in Fds :
    \/ fd[f] \in Opened /\ backlog[fd[f]] # <<>>
    \/ fd[f] \in Clients /\ HasInput(fd[f])}

\* The client closed by the server: its process may connect again.
Hangup(c) ==
    /\ inbox' = [inbox EXCEPT ![c] = "none"]
    /\ gone' = gone \ {c}

----------------------------------------------------------------------------
\* A server that forks has closed stdin and stdout when daemon_main starts.
Init ==
    /\ options \in Options
    /\ fd = [f \in Fds |->
         IF f < 2 THEN IF options.fork THEN Free ELSE Stdio
         ELSE IF \E k \in DOMAIN Acceptors : accept_blk[k] = f
              THEN Acceptors[f - 1] ELSE Free]
    /\ cblk = [i \in Slot |-> 0]
    /\ clientp = 0
    /\ user = [i \in Slot |-> Unset]
    /\ cur_clp = 0
    /\ ready_socks = {} /\ no_of_ready_socks = 0
    /\ pc = "select"
    /\ backlog = [l \in Listeners |-> <<>>]
    /\ inbox = [c \in Clients |-> "none"]
    /\ gone = {}

\* The clients: a process connects, sends its next command in one or two
\* parts, and may close the connection or die at any time.
connect(c) ==
    /\ Running /\ ~Waiting(c) /\ ~Connected(c)
    /\ \E l \in Opened : backlog' = [backlog EXCEPT ![l] = Append(@, c)]
    /\ UNCHANGED <<tables, rounds, inbox, gone, pc>>

Talks(c) == Running /\ (Waiting(c) \/ Connected(c)) /\ c \notin gone

send_part(c) ==
    /\ Talks(c) /\ inbox[c] = "none"
    /\ inbox' = [inbox EXCEPT ![c] = "part"]
    /\ UNCHANGED <<tables, rounds, backlog, gone, pc>>

send_rest(c) ==
    /\ Talks(c) /\ inbox[c] # "whole"
    /\ inbox' = [inbox EXCEPT ![c] = "whole"]
    /\ UNCHANGED <<tables, rounds, backlog, gone, pc>>

die(c) ==
    /\ Talks(c)
    /\ gone' = gone \cup {c}
    /\ UNCHANGED <<tables, rounds, backlog, inbox, pc>>

Client(c) == connect(c) \/ send_part(c) \/ send_rest(c) \/ die(c)

----------------------------------------------------------------------------
\* Faulty variants (*_bug) stand before the operator they would replace.
\* sel_all.
sel_all ==
    /\ pc = "select" /\ Readable # {}
    /\ ready_socks' = Readable
    /\ no_of_ready_socks' = Cardinality(Readable)
    /\ pc' = "accept"
    /\ UNCHANGED <<tables, cur_clp, peers>>

\* new_client looks for the first acceptor whose descriptor is set.
SetAcceptors == {k \in DOMAIN Acceptors : accept_blk[k] \in ready_socks}
acceptor_sd == accept_blk[Least(SetAcceptors)]

no_new_client_bug ==  \* puts new clients off while a client is ready
    /\ pc = "accept"
    /\ SetAcceptors = {} \/ \E i \in 0 .. clientp - 1 : cblk[i] \in ready_socks
    /\ pc' = "pick"
    /\ UNCHANGED <<tables, rounds, peers>>

no_new_client ==
    /\ pc = "accept" /\ SetAcceptors = {}
    /\ pc' = "pick"
    /\ UNCHANGED <<tables, rounds, peers>>

Accepting_bug(c) ==  \* does not count the acceptor
    /\ pc = "accept" /\ SetAcceptors # {}
    /\ fd[acceptor_sd] \in Opened
    /\ c = Head(backlog[fd[acceptor_sd]])
    /\ backlog' = [backlog EXCEPT ![fd[acceptor_sd]] = Tail(@)]
    /\ ready_socks' = ready_socks \ {acceptor_sd}
    /\ pc' = "pick"
    /\ UNCHANGED <<cur_clp, no_of_ready_socks>>

\* The connection is taken off the backlog; its descriptor is the lowest free.
Accepting(c) ==
    /\ pc = "accept" /\ SetAcceptors # {}
    /\ fd[acceptor_sd] \in Opened
    /\ c = Head(backlog[fd[acceptor_sd]])
    /\ backlog' = [backlog EXCEPT ![fd[acceptor_sd]] = Tail(@)]
    /\ ready_socks' = ready_socks \ {acceptor_sd}
    /\ no_of_ready_socks' = no_of_ready_socks - 1
    /\ pc' = "pick"
    /\ UNCHANGED <<cur_clp>>

new_sd == Least({f \in Fds : fd[f] = Free})

new_client_bug(c) ==  \* does not look whether the table is full
    /\ Accepting(c)
    /\ fd' = [fd EXCEPT ![new_sd] = c]
    /\ cblk' = [cblk EXCEPT ![clientp] = new_sd]
    /\ clientp' = clientp + 1
    /\ UNCHANGED <<options, user, inbox, gone>>

\* user_name is not touched: del_client emptied it if it freed the entry, and
\* an entry used for the first time has what malloc left there.
new_client(c) ==
    /\ Accepting(c)
    /\ clientp < options.max_client
    /\ fd' = [fd EXCEPT ![new_sd] = c]
    /\ cblk' = [cblk EXCEPT ![clientp] = new_sd]
    /\ clientp' = clientp + 1
    /\ UNCHANGED <<options, user, inbox, gone>>

\* No room in the table or no descriptors, or the host is refused: the server
\* waits for the client to send something and closes the connection.
refuse_client(c) ==
    /\ Accepting(c)
    /\ HasInput(c)
    /\ Hangup(c)
    /\ UNCHANGED tables

\* accept on a descriptor that is no listening socket returns -1, which passes
\* the test sd >= nofile; FD_SET (-1) aborts, or makes the next select fail.
accept_fails ==
    /\ pc = "accept" /\ SetAcceptors # {}
    /\ fd[acceptor_sd] \notin Opened
    /\ pc' = "bad descriptor"
    /\ UNCHANGED <<tables, rounds, peers>>

\* get_client: the next ready client after cur_clp, round the table.  When a
\* count is left and no client in the table is ready, it loops for ever.
ReadySlots == {i \in 0 .. clientp - 1 : cblk[i] \in ready_socks}
next_clp ==
    LET later == {i \in ReadySlots : i > cur_clp} IN
    IF later # {} THEN Least(later) ELSE Least(ReadySlots)

get_client_none ==
    /\ pc = "pick" /\ no_of_ready_socks = 0
    /\ pc' = "select"
    /\ UNCHANGED <<tables, rounds, peers>>

get_client_bug ==  \* starts at entry 0 and forgets the rest of the round
    /\ pc = "pick" /\ no_of_ready_socks # 0
    /\ ReadySlots # {}
    /\ cur_clp' = Least(ReadySlots)
    /\ ready_socks' = {}
    /\ no_of_ready_socks' = 0
    /\ pc' = "serve"
    /\ UNCHANGED <<tables, peers>>

get_client ==
    /\ pc = "pick" /\ no_of_ready_socks # 0
    /\ ReadySlots # {}
    /\ cur_clp' = next_clp
    /\ ready_socks' = ready_socks \ {cblk[next_clp]}
    /\ no_of_ready_socks' = no_of_ready_socks - 1
    /\ pc' = "serve"
    /\ UNCHANGED <<tables, peers>>

\* do_command of a client whose command has arrived whole.
cur_client == fd[cblk[cur_clp]]
Serving == pc = "serve" /\ cur_client \in Clients
Answering == Serving /\ inbox[cur_client] = "whole"

\* JS_OPEN also sets user_name.
do_command ==
    /\ Answering
    /\ user' \in {user, [user EXCEPT ![cur_clp] = cur_client]}
    /\ inbox' = [inbox EXCEPT ![cur_client] = "none"]
    /\ pc' = "pick"
    /\ UNCHANGED <<options, fd, cblk, clientp, rounds, backlog, gone>>

del_client_nomove ==  \* faulty: only shortens the tables
    /\ fd' = [fd EXCEPT ![cblk[cur_clp]] = Free]
    /\ clientp' = clientp - 1
    /\ Hangup(cur_client)
    /\ UNCHANGED <<cblk, user>>

del_client_noclear ==  \* faulty: leaves the user_name of the last entry
    /\ fd' = [fd EXCEPT ![cblk[cur_clp]] = Free]
    /\ cblk' = [cblk EXCEPT ![cur_clp] = cblk[clientp - 1]]
    /\ user' = [user EXCEPT ![cur_clp] = user[clientp - 1]]
    /\ clientp' = clientp - 1
    /\ Hangup(cur_client)

\* del_client: the last entry of the tables moves to the place of this one.
del_client ==
    /\ fd' = [fd EXCEPT ![cblk[cur_clp]] = Free]
    /\ cblk' = [cblk EXCEPT ![cur_clp] = cblk[clientp - 1]]
    /\ user' = [user EXCEPT ![cur_clp] = user[clientp - 1], ![clientp - 1] = NoUser]
    /\ clientp' = clientp - 1
    /\ Hangup(cur_client)

js_close ==
    /\ Answering
    /\ del_client
    /\ pc' = "pick"
    /\ UNCHANGED <<options, rounds, backlog>>

client_dead_bug ==  \* forgets del_client
    /\ Serving /\ cur_client \in gone
    /\ pc' = "pick"
    /\ UNCHANGED <<tables, rounds, peers>>

\* The connection is found closed: by recv, in the middle of a command, or
\* by send, when the answer to a whole one is written.
client_dead ==
    /\ Serving /\ cur_client \in gone
    /\ del_client
    /\ pc' = "pick"
    /\ UNCHANGED <<options, rounds, backlog>>

sigpipe_bug ==  \* SIGPIPE is never ignored
    /\ Answering /\ cur_client \in gone
    /\ pc' = "SIGPIPE"
    /\ UNCHANGED <<tables, rounds, peers>>

\* The same send raises SIGPIPE, which ends a process that does not ignore it.
sigpipe ==
    /\ Answering /\ cur_client \in gone
    /\ PipeIgnorer \notin Opened
    /\ pc' = "SIGPIPE"
    /\ UNCHANGED <<tables, rounds, peers>>

\* JS_KILL is refused (an ordinary answer) while there is another client.
js_kill ==
    /\ Answering /\ clientp = 1
    /\ pc' = "killed"
    /\ UNCHANGED <<tables, rounds, peers>>

Server ==
    \/ sel_all
    \/ no_new_client
    \/ \E c \in Clients : new_client(c) \/ refuse_client(c)
    \/ accept_fails
    \/ get_client_none
    \/ get_client
    \/ do_command \/ js_close \/ client_dead \/ sigpipe \/ js_kill

Next == Server \/ \E c \in Clients : Client(c)

Spec == Init /\ [][Next]_vars

\* The server process runs; a client that has connected, or has begun to send
\* a command, sends the rest of it (snd_flush) or closes the connection.
FinishesSending(c) ==
    /\ inbox[c] = "part" \/ Waiting(c)
    /\ send_rest(c)

Fairness ==
    /\ WF_vars(Server)
    /\ \A c \in Clients : WF_vars(FinishesSending(c))

FairSpec == Spec /\ Fairness

----------------------------------------------------------------------------
(***************************************************************************)
(* get_client returns: when it looks for a client because the count of     *)
(* ready sockets is not 0, there is a ready one in the table ("returns -1  *)
(* when nobody is there", says its comment).                               *)
(***************************************************************************)
GetClientFindsOne ==
    pc = "pick" /\ no_of_ready_socks # 0 => ReadySlots # {}

(***************************************************************************)
(* With one listening socket that is so, whichever clients leave, die and  *)
(* connect in the middle of a round.                                       *)
(***************************************************************************)
OneListener == Cardinality(Opened) = 1

OneListenerFindsOne == OneListener => GetClientFindsOne

(***************************************************************************)
(* The table is a table of the open connections: every client that was     *)
(* accepted has one entry, whatever order clients leave in (del_client     *)
(* moves the last entry while a round of get_client is going on).          *)
(***************************************************************************)
TableExact ==
    /\ \A i \in 0 .. clientp - 1 : fd[cblk[i]] \in Clients
    /\ \A i, j \in 0 .. clientp - 1 : fd[cblk[i]] = fd[cblk[j]] => i = j
    /\ \A c \in Clients : Connected(c) => \E i \in 0 .. clientp - 1 : fd[cblk[i]] = c

(***************************************************************************)
(* js_who and the log never show a connection under the user_name another  *)
(* client gave in its JS_OPEN: a new client, or one whose entry moved, has *)
(* nothing of the client that had the entry before.                        *)
(***************************************************************************)
NoStaleUser ==
    \A i \in 0 .. clientp - 1 : user[i] \notin Clients \ {fd[cblk[i]]}

(***************************************************************************)
(* Nothing a client does, short of JS_KILL as the only one, stops a server *)
(* that ignores SIGPIPE (the initialisation of the UNIX socket does that)  *)
(* and has a descriptor other than 0 for every acceptor, or stdin on it.   *)
(***************************************************************************)
OnlyKillStops ==
    /\ PipeIgnorer \in Opened
    /\ options.fork => Opened = Listeners
    => Running \/ pc = "killed"

(***************************************************************************)
(* A client whose command has arrived is served, whatever the other        *)
(* clients do (get_client goes round the table), if there is one listening *)
(* socket.                                                                 *)
(***************************************************************************)
Served == \A c \in Clients :
    OneListener /\ Connected(c) /\ inbox[c] = "whole" ~> inbox[c] = "none" \/ ~Running

(***************************************************************************)
(* A client that connects is accepted, or refused, in the end, though only *)
(* one is accepted at each select.                                         *)
(***************************************************************************)
Accepted == \A c \in Clients : OneListener /\ Waiting(c) ~> ~Waiting(c) \/ ~Running

(***************************************************************************)
(* A client that dies, also in the middle of a command, leaves the table.  *)
(***************************************************************************)
DeadRemoved == \A c \in Clients :
    OneListener /\ Connected(c) /\ c \in gone ~> ~Connected(c) \/ ~Running

=============================================================================
