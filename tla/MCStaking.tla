------------------------------- MODULE MCStaking -------------------------------
(***************************************************************************)
(* Small instances of Staking for TLC.  Wallets and assets are model       *)
(* values that no definition tells apart.                                  *)
(***************************************************************************)
EXTENDS Staking, TLC

Symmetry == Permutations(Users) \cup Permutations(Assets)
================================================================================
