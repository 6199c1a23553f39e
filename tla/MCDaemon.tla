------------------------------ MODULE MCDaemon ------------------------------
(***************************************************************************)
(* The main loop for TLC: a server that listens on a UNIX domain socket    *)
(* and an INET one (the default), or on one of them only (-u and -4), with *)
(* or without -D, and with room for one client or for two.                 *)
(***************************************************************************)
EXTENDS Daemon, TLC

CONSTANTS unix, inet

UnixThenInet == <<unix, inet>>

AllOptions == [opened : {{unix}, {inet}, {unix, inet}}, fork : BOOLEAN, max_client : 1 .. 2]
Default    == {[opened |-> {unix, inet}, fork |-> TRUE, max_client |-> 2]}

=============================================================================
