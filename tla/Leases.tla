------------------------------- MODULE Leases -------------------------------
(***************************************************************************)
(* What the environments of jserver (Wnn/jserver/do_env.c) promise the     *)
(* clients, without the tables, counters and clocks that do_env.c keeps    *)
(* the promise with.  A client holds an environment from JS_CONNECT until  *)
(* it gives it back; an environment exists as long as somebody holds it,   *)
(* and a sticky one is kept after that, until MaxKept others are; room is  *)
(* made by dropping the one that was kept first, never one that is held.   *)
(* EnvTable is shown to implement this specification.                      *)
(***************************************************************************)
EXTENDS Integers, FiniteSets

CONSTANTS
    Clients,
    Envs,      \* the environments there may be at a time
    Names,     \* the names clients share environments by
    NoName,    \* the name of an environment nobody else finds
    MaxKept    \* how many are kept without a holder

VARIABLES
    holders,   \* holders[e]: the clients that hold e
    name,      \* name[e]: what e is called, NoName if it does not exist
    sticky,    \* the environments to be kept when nobody holds them
    kept,      \* the environments kept although nobody holds them
    before     \* <<e, f>> if e and f are kept, and e was given back before f

vars == <<holders, name, sticky, kept, before>>

\* An environment exists because it is held or because it is kept.
Exist == {e \in Envs : holders[e] # {} \/ e \in kept}
Called(n) == {e \in Exist : n # NoName /\ name[e] = n}

\* The one of K that the order b puts before all the others.
First(e, K, b) == e \in K /\ \A f \in K \ {e} : <<e, f>> \in b

Among(K, b) == b \cap (K \X K)

Init ==
    /\ holders = [e \in Envs |-> {}]
    /\ name = [e \in Envs |-> NoName]
    /\ sticky = {} /\ kept = {} /\ before = {}

\* A client finds an environment by its name, held by others or kept.
Join(c, e) ==
    /\ \E n \in Names : e \in Called(n)
    /\ c \notin holders[e]
    /\ holders' = [holders EXCEPT ![e] = @ \cup {c}]
    /\ kept' = kept \ {e}
    /\ before' = Among(kept', before)
    /\ UNCHANGED <<name, sticky>>

\* Room for a new environment: there is some, or it is taken from the one
\* that was kept first.
Room(e) == e \notin Exist \/ (Exist = Envs /\ First(e, kept, before))

\* A client is given a new environment, nobody's yet, under a name that no
\* other has.
Make(c, n, e) ==
    /\ Called(n) = {}
    /\ Room(e)
    /\ holders' = [holders EXCEPT ![e] = {c}]
    /\ name' = [name EXCEPT ![e] = n]
    /\ sticky' = sticky \ {e}
    /\ kept' = kept \ {e}
    /\ before' = Among(kept', before)

\* The server made room for a new environment and could not make it.
Drop(e) ==
    /\ Exist = Envs /\ First(e, kept, before)
    /\ name' = [name EXCEPT ![e] = NoName]
    /\ sticky' = sticky \ {e}
    /\ kept' = kept \ {e}
    /\ before' = Among(kept', before)
    /\ UNCHANGED holders

\* A holder asks that the environment be kept, or takes it back.
Mark(c, e) ==
    /\ c \in holders[e]
    /\ \/ sticky' = sticky \cup {e}
       \/ sticky' = sticky \ {e}
    /\ UNCHANGED <<holders, name, kept, before>>

\* The environments that would be kept if e were, and their order.
KeptWith(e)   == kept \cup {e}
BeforeWith(e) == before \cup (kept \X {e})

\* A client gives an environment back.  Others may still hold it.
Return(c, e) ==
    /\ c \in holders[e]
    /\ holders' = [holders EXCEPT ![e] = @ \ {c}]
    /\ holders[e] # {c}
    /\ UNCHANGED <<name, sticky, kept, before>>

\* Nobody holds it any longer: it is forgotten, ...
ReturnLast(c, e) ==
    /\ holders[e] = {c}
    /\ e \notin sticky
    /\ holders' = [holders EXCEPT ![e] = {}]
    /\ name' = [name EXCEPT ![e] = NoName]
    /\ UNCHANGED <<sticky, kept, before>>

\* ... or kept, if there is room for one more, ...
Keep(c, e) ==
    /\ holders[e] = {c}
    /\ e \in sticky
    /\ Cardinality(kept) < MaxKept
    /\ holders' = [holders EXCEPT ![e] = {}]
    /\ kept' = KeptWith(e)
    /\ before' = BeforeWith(e)
    /\ UNCHANGED <<name, sticky>>

\* ... or kept in place of the one that was kept first.
Replace(c, e, f) ==
    /\ holders[e] = {c}
    /\ e \in sticky
    /\ Cardinality(kept) = MaxKept
    /\ First(f, KeptWith(e), BeforeWith(e))
    /\ holders' = [holders EXCEPT ![e] = {}]
    /\ name' = [name EXCEPT ![f] = NoName]
    /\ sticky' = sticky \ {f}
    /\ kept' = KeptWith(e) \ {f}
    /\ before' = Among(kept', BeforeWith(e))

Next ==
    \E e \in Envs :
        \/ Drop(e)
        \/ \E c \in Clients :
            \/ Join(c, e)
            \/ \E n \in Names \cup {NoName} : Make(c, n, e)
            \/ Mark(c, e)
            \/ Return(c, e)
            \/ ReturnLast(c, e)
            \/ Keep(c, e)
            \/ \E f \in Envs : Replace(c, e, f)

Spec == Init /\ [][Next]_vars

=============================================================================
