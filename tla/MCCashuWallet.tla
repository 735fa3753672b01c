--------------------------- MODULE MCCashuWallet ---------------------------
(***************************************************************************)
(* CashuWallet with two mints and two operations, which are alike.          *)
(***************************************************************************)
EXTENDS CashuWallet, TLC
CONSTANTS minibits, coinos, o1, o2
Alike == Permutations({minibits, coinos}) \cup Permutations({o1, o2})
=============================================================================
