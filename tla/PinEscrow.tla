------------------------------- MODULE PinEscrow -------------------------------
(***************************************************************************)
(* accel-p-escrow: the Pinocchio escrow.  It stores how much it gives, and *)
(* moves exactly that much out of a token account before it closes it.     *)
(* That account need not be the vault that make created: take and refund   *)
(* check its owner, the escrow address, and its mint, and anybody may make *)
(* and fund another such account.                                          *)
(***************************************************************************)
EXTENDS EscrowAccounts

CONSTANTS
  Vault,      \* the associated token account, among those of an escrow address
  Others      \* the others

VARIABLE other      \* the other token accounts of the escrow addresses, per mint

pinVars == <<vars, other>>

TokenAccounts == Others \cup {Vault}

ASSUME VaultAssumption == Vault \notin Others

PinEscrowState == [mint_a : Mints, mint_b : Mints, amount_to_receive : Nat, amount_to_give : Nat]

ASSUME PinNoAccountAssumption == NoAccount \notin PinEscrowState \cup Quote \cup Nat

PinInit ==
  /\ Init
  /\ other = [id \in Ids |-> [m \in Mints |-> [a \in Others |-> NoAccount]]]

\* What a token account of an escrow address holds.
Content(id, mint, account) ==
  IF account = Vault THEN vault[id][mint] ELSE other[id][mint][account]

\* Faulty variant: the two amounts are read in the other order.
PinMake_Swapped(id, mint_a, mint_b, amount_to_receive, amount_to_give) ==
  /\ ~ Open(id)
  /\ mint_a \in ClassicMints
  /\ vault[id][mint_a] = NoAccount
  /\ balance[maker(id)][mint_a] >= amount_to_give
  /\ escrow' = [escrow EXCEPT ![id] =
       [mint_a |-> mint_a, mint_b |-> mint_b,
        amount_to_receive |-> amount_to_give, amount_to_give |-> amount_to_receive]]
  /\ vault' = Put(id, mint_a, amount_to_give)
  /\ balance' = Debit(balance, maker(id), mint_a, amount_to_give)
  /\ UNCHANGED <<quote, other>>

\* The instruction fails if the escrow is open, and the creation of the vault
\* fails if that token account exists: somebody made it before, or an earlier
\* escrow left it behind.  The maker's token account must be a classic one;
\* nothing is checked of mint_b.
PinMake(id, mint_a, mint_b, amount_to_receive, amount_to_give) ==
  /\ ~ Open(id)
  /\ mint_a \in ClassicMints
  /\ vault[id][mint_a] = NoAccount
  /\ balance[maker(id)][mint_a] >= amount_to_give
  /\ escrow' = [escrow EXCEPT ![id] =
       [mint_a |-> mint_a, mint_b |-> mint_b,
        amount_to_receive |-> amount_to_receive, amount_to_give |-> amount_to_give]]
  /\ vault' = Put(id, mint_a, amount_to_give)
  /\ balance' = Debit(balance, maker(id), mint_a, amount_to_give)
  /\ UNCHANGED <<quote, other>>

\* The transfer leaves nothing behind that would keep the account from closing.
Emptied(id, mint, account) == Content(id, mint, account) = escrow[id].amount_to_give

\* The account that paid is closed, and the escrow: if it is not the vault, the
\* vault stays as it is.
PinClose(id, mint, account) ==
  /\ IF account = Vault
       THEN vault' = Put(id, mint, NoAccount) /\ UNCHANGED other
       ELSE /\ other' = [other EXCEPT ![id][mint][account] = NoAccount]
            /\ UNCHANGED vault
  /\ escrow' = [escrow EXCEPT ![id] = NoAccount]

\* Faulty variant: the mint that is paid is not compared with the escrow's.
PinTake_AnyMint(taker, id, mint_a, mint_b, account) ==
  LET e == escrow[id]
  IN  /\ Open(id)
      /\ e.mint_a = mint_a
      /\ mint_b \in ClassicMints
      /\ balance[taker][mint_b] >= e.amount_to_receive
      /\ Emptied(id, mint_a, account)
      /\ balance' =
           Credit(Credit(Debit(balance, taker, mint_b, e.amount_to_receive),
                         maker(id), mint_b, e.amount_to_receive),
                  taker, mint_a, e.amount_to_give)
      /\ PinClose(id, mint_a, account)
      /\ quote' = [quote EXCEPT ![taker] = NoAccount]

\* Pay the maker, collect from the account, close it (it must be empty by then)
\* and the escrow.
PinTake(taker, id, mint_a, mint_b, account) ==
  LET e == escrow[id]
  IN  /\ Open(id)
      /\ e.mint_a = mint_a /\ e.mint_b = mint_b
      /\ mint_b \in ClassicMints
      /\ balance[taker][mint_b] >= e.amount_to_receive
      /\ Emptied(id, mint_a, account)
      /\ balance' =
           Credit(Credit(Debit(balance, taker, mint_b, e.amount_to_receive),
                         maker(id), mint_b, e.amount_to_receive),
                  taker, mint_a, e.amount_to_give)
      /\ PinClose(id, mint_a, account)
      /\ quote' = [quote EXCEPT ![taker] = NoAccount]

PinRefund(id, account) ==
  LET e == escrow[id]
  IN  /\ Open(id)
      /\ Emptied(id, e.mint_a, account)
      /\ balance' = Credit(balance, maker(id), e.mint_a, e.amount_to_give)
      /\ PinClose(id, e.mint_a, account)
      /\ UNCHANGED quote

\* External, the token program: anybody may make another token account for an
\* escrow address, and send tokens to it.
FundOther(w, id, mint, account, n) ==
  LET held == other[id][mint][account]
  IN  /\ balance[w][mint] >= n
      /\ balance' = Debit(balance, w, mint, n)
      /\ other' = [other EXCEPT ![id][mint][account] =
                     IF held = NoAccount THEN n ELSE held + n]
      /\ UNCHANGED <<escrow, vault, quote>>

PinNext ==
  \/ \E id \in Ids, mint_a \in Mints, mint_b \in Mints, receive \in Amounts, give \in Amounts :
       PinMake(id, mint_a, mint_b, receive, give)
  \/ \E taker \in Wallets, account \in TokenAccounts :
       /\ quote[taker] # NoAccount
       /\ PinTake(taker, quote[taker].id, quote[taker].mint_a, quote[taker].mint_b, account)
  \/ \E id \in Ids, account \in TokenAccounts : PinRefund(id, account)
  \/ Environment /\ UNCHANGED other
  \/ \E w \in Wallets, id \in Ids, mint \in Mints, account \in Others, n \in Amounts :
       FundOther(w, id, mint, account, n)

PinSpec == PinInit /\ [][PinNext]_pinVars

-------------------------------------------------------------------------------
\* The accounts have their layouts, and an open escrow has a vault.
PinTypeOK ==
  /\ AccountsOK(PinEscrowState)
  /\ other \in [Ids -> [Mints -> [Others -> Nat \cup {NoAccount}]]]

\* The vault of an open escrow covers what the escrow will give, whatever was
\* closed and made before at the same address.
VaultBacksOffer ==
  \A id \in Ids :
    Open(id) => vault[id][escrow[id].mint_a] >= escrow[id].amount_to_give

PinOffers ==
  [id \in Ids |->
    IF ~ Open(id) THEN NoAccount
    ELSE [give |-> escrow[id].mint_a, want |-> escrow[id].mint_b,
          price |-> escrow[id].amount_to_receive,
          held |-> escrow[id].amount_to_give]]

PinSwap == INSTANCE AtomicSwap WITH offer <- PinOffers

ASSUME PinOfferAssumption == NoAccount \notin PinSwap!Offer

\* Every instruction is a step of the swap: taker and maker get what was agreed
\* in one step, whichever token account of the address pays, whatever others
\* sent there, and although the escrow may not be the one the take was prepared
\* for.  What others send is spent: it is no part of the offer.
PinImplementsAtomicSwap == PinSwap!Spec
===============================================================================
