----------------------------- MODULE MCErAccount ------------------------------
(***************************************************************************)
(* Three values, three commits under way, two requests on each ledger:     *)
(* enough for an answer to arrive in another life of the account than the  *)
(* one it was requested in, and for a commit to be overtaken by two writes.*)
(***************************************************************************)
EXTENDS ErAccount
===============================================================================
