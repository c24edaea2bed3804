---------------------------- MODULE MCApiAccess -----------------------------
(***************************************************************************)
(* Small instances of ApiAccess for TLC.  A second key is there for a      *)
(* server that would generate one again.                                   *)
(***************************************************************************)
EXTENDS ApiAccess, TLC

CONSTANTS w1, w2, k1, k2

KeysAndWorkersAlike == Permutations(Workers) \cup Permutations(Keys)
=============================================================================
