------------------------------ MODULE MCTodoStore ------------------------------
(***************************************************************************)
(* Small instances of TodoStore for TLC.  Descriptions are model values,   *)
(* one or two of them: enough to tell a mixed file from a saved one.       *)
(***************************************************************************)
EXTENDS TodoStore, TLC

DescriptionSymmetry == Permutations(Descriptions)
================================================================================
