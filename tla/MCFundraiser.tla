----------------------------- MODULE MCFundraiser -----------------------------
(***************************************************************************)
(* A small instance of Fundraiser for TLC.  Days and the minimum target    *)
(* are the program's own; a record may hold half of the target where the   *)
(* program says a tenth, so that two records can reach it and one cannot.  *)
(***************************************************************************)
EXTENDS Fundraiser, TLC

CONSTANTS usdc, usdt

MCDecimals == [mint \in Mints |-> 1]

\* The maker can make one direct deposit.  In usdc a contributor can reach the
\* cap of the larger target with one record, or the smaller target with two.
MCBalance ==
  [w \in Wallets |->
     [mint \in Mints |-> IF w = Maker THEN 3 ELSE IF mint = usdc THEN 4 ELSE 2]]

\* Three days, and the two on which the day counter shows 0 and 1 again.
MCInstants == {86400 * day : day \in {0, 1, 2, 256, 257}}

Symmetry == Permutations(Contributors) \cup Permutations(Bumps)
===============================================================================
