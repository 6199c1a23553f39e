----------------------------- MODULE SearchLemmas -----------------------------
(***************************************************************************)
(* The searches of jserver (do_env.c, do_filecom.c, do_dic_env.c) run over *)
(* the indices of an array and stop at the first that fits.                *)
(***************************************************************************)
EXTENDS Integers, WellFoundedInduction, TLAPS

(***************************************************************************)
(* A non-empty set of indices has a smallest element, which is where a     *)
(* search ends.                                                            *)
(***************************************************************************)
LEMMA SmallestExists ==
    ASSUME NEW S \in SUBSET Nat, S # {}
    PROVE  \E x \in S : \A y \in S : x <= y
<1>1. PICK x \in S : \A y \in S : <<y, x>> \notin OpToRel(<, Nat)
  BY WFMin, NatLessThanWellFounded, Zenon
<1>2. \A y \in S : ~ (y < x)
  BY <1>1, Zenon DEF OpToRel
<1> QED
  BY <1>2, SMT

==============================================================================
