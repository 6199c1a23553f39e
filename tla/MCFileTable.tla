----------------------------- MODULE MCFileTable -----------------------------
(***************************************************************************)
(* FileTable for TLC: two dictionary files, a frequency file that fits     *)
(* both, and a fuzokugo file.  jserverrc has the server read a dictionary, *)
(* or the fuzokugo file too.  The environments differ only in name.        *)
(***************************************************************************)
EXTENDS FileTable, TLC

CONSTANTS d1, d2, h1, z1

HindoOfBoth == {<<d1, h1>>, <<d2, h1>>}

OneDict == <<d1>>

DictAndFzk == <<d1, z1>>

Symmetry == Permutations(Envs)

==============================================================================
