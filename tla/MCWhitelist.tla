----------------------------- MODULE MCWhitelist ------------------------------
(***************************************************************************)
(* Two users, a lamport per byte.  The empty list costs 141, an entry 32   *)
(* more.  A gift of 20 is absorbed by the next add; two of them, more than *)
(* an entry costs, block adds until a remove.                              *)
(***************************************************************************)
EXTENDS Whitelist, TLC

Symmetry == Permutations(Users)
===============================================================================
