------------------------------ MODULE MCServer ------------------------------
(***************************************************************************)
(* Server for TLC: clients that differ only in name, one named environment *)
(* besides the anonymous ones, a default dictionary and another one.       *)
(***************************************************************************)
EXTENDS Server, TLC

CONSTANTS d1, d2

\* jserverrc has the server read the first dictionary.
OneDict == <<d1>>

Symmetry == Permutations(Clients)

=============================================================================
