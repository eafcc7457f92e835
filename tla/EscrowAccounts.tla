---------------------------- MODULE EscrowAccounts ----------------------------
(***************************************************************************)
(* What the two escrow programs have in common: the accounts, and what     *)
(* everybody else may do to them.                                          *)
(*                                                                         *)
(* An escrow lives at an address derived from its maker and a number the   *)
(* maker chooses (a bump in accel-p-escrow, where any bump that gives an   *)
(* address is accepted, a seed in anchor-escrow), and its vault is the     *)
(* associated token account of that address.  Addresses are used again: an *)
(* escrow can be closed and made anew with other terms.                    *)
(*                                                                         *)
(* A step is a transaction.  A wallet's token accounts of one mint are one *)
(* balance; one that does not exist yet is a balance of 0.                 *)
(***************************************************************************)
EXTENDS Integers

CONSTANTS
  Wallets, Mints,
  ClassicMints,   \* those of the classic token program; the others are Token-2022's
  Makers,         \* the wallets that make escrows
  Nonces,         \* bumps or seeds
  Amounts,        \* amounts in instructions and deposits
  Supply,         \* bound: what each wallet has of each mint at first
  NoAccount

ASSUME MakersAssumption == Makers \subseteq Wallets

ASSUME AmountsAssumption == Amounts \subseteq Nat /\ Supply \in Nat

VARIABLES
  balance,    \* what each wallet holds of each mint
  escrow,     \* the escrow accounts
  vault,      \* the associated token account of each escrow address, per mint
  quote       \* the take each wallet has ready to send, or NoAccount

vars == <<balance, escrow, vault, quote>>

Ids == Makers \X Nonces

maker(id) == id[1]

Open(id) == escrow[id] # NoAccount

\* A take names its accounts, the escrow and both mints, and no amounts.
Quote == [id : Ids, mint_a : Mints, mint_b : Mints]

Debit(b, w, mint, n)  == [b EXCEPT ![w][mint] = @ - n]
Credit(b, w, mint, n) == [b EXCEPT ![w][mint] = @ + n]

Put(id, mint, content) == [vault EXCEPT ![id][mint] = content]

\* The vault and the escrow account are closed together.
Close(id, mint) ==
  /\ vault' = Put(id, mint, NoAccount)
  /\ escrow' = [escrow EXCEPT ![id] = NoAccount]

-------------------------------------------------------------------------------
Init ==
  /\ balance = [w \in Wallets |-> [m \in Mints |-> Supply]]
  /\ escrow = [id \in Ids |-> NoAccount]
  /\ vault = [id \in Ids |-> [m \in Mints |-> NoAccount]]
  /\ quote = [w \in Wallets |-> NoAccount]

\* External: a client reads an escrow and prepares a take.  The escrow may be
\* gone, or another, when it arrives.
Prepare(w, id) ==
  /\ Open(id)
  /\ quote' = [quote EXCEPT ![w] =
       [id |-> id, mint_a |-> escrow[id].mint_a, mint_b |-> escrow[id].mint_b]]
  /\ UNCHANGED <<balance, escrow, vault>>

\* External, the associated token program: anybody may create a token account
\* for any address, so the vault of an escrow that is not open as well.
CreateVault(id, mint) ==
  /\ vault[id][mint] = NoAccount
  /\ vault' = Put(id, mint, 0)
  /\ UNCHANGED <<balance, escrow, quote>>

\* External, the token program: anybody may send tokens to a vault.
Deposit(w, id, mint, n) ==
  /\ vault[id][mint] # NoAccount
  /\ balance[w][mint] >= n
  /\ balance' = Debit(balance, w, mint, n)
  /\ vault' = Put(id, mint, vault[id][mint] + n)
  /\ UNCHANGED <<escrow, quote>>

Environment ==
  \E w \in Wallets, id \in Ids :
    \/ Prepare(w, id)
    \/ \E mint \in Mints :
         CreateVault(id, mint) \/ \E n \in Amounts : Deposit(w, id, mint, n)

\* The amounts and accounts have their types; Escrow is the program's record.
AccountsOK(Escrow) ==
  /\ balance \in [Wallets -> [Mints -> Nat]]
  /\ escrow \in [Ids -> Escrow \cup {NoAccount}]
  /\ vault \in [Ids -> [Mints -> Nat \cup {NoAccount}]]
  /\ quote \in [Wallets -> Quote \cup {NoAccount}]
  /\ \A id \in Ids : Open(id) => vault[id][escrow[id].mint_a] # NoAccount
===============================================================================
