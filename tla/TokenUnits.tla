------------------------------ MODULE TokenUnits ------------------------------
(***************************************************************************)
(* Sums of token amounts, shared by the token-moving programs.             *)
(*                                                                         *)
(* A balance sheet f is a function from owners to natural numbers.  Its    *)
(* total is defined as the NUMBER of token units on it: unit <<o, k>> is   *)
(* the k-th unit of owner o.  Counting units instead of folding an         *)
(* addition keeps the definition free of recursion, so that the facts      *)
(* about it (module TokenUnitsProofs) follow from those about the          *)
(* cardinality of finite sets.                                             *)
(***************************************************************************)
EXTENDS Integers, FiniteSets

\* The units one owner holds.
UnitsOf(o, n) == {o} \X (1 .. n)

\* All the units on a balance sheet.
Units(f) == UNION {UnitsOf(o, f[o]) : o \in DOMAIN f}

Total(f) == Cardinality(Units(f))
===============================================================================
