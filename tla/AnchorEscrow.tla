----------------------------- MODULE AnchorEscrow -----------------------------
(***************************************************************************)
(* anchor-escrow-q2-2026: the Anchor escrow.  It does not store how much   *)
(* it gives: take and refund move all there is in the vault.  make works   *)
(* for mints of either token program; take and refund do not name the      *)
(* program when they derive token accounts, which then are the classic     *)
(* ones: an escrow of Token-2022 mints can be made and never be closed.    *)
(***************************************************************************)
EXTENDS EscrowAccounts

AnchorEscrowState == [mint_a : Mints, mint_b : Mints, receive : Nat]

ASSUME AnchorNoAccountAssumption == NoAccount \notin AnchorEscrowState \cup Quote \cup Nat

\* `init` fails for an escrow or a vault that exists.  Both mints belong to the
\* one token program that is passed.
AnchorMake(id, mint_a, mint_b, deposit, receive) ==
  /\ ~ Open(id)
  /\ mint_a \in ClassicMints <=> mint_b \in ClassicMints
  /\ vault[id][mint_a] = NoAccount
  /\ balance[maker(id)][mint_a] >= deposit
  /\ escrow' = [escrow EXCEPT ![id] =
       [mint_a |-> mint_a, mint_b |-> mint_b, receive |-> receive]]
  /\ vault' = Put(id, mint_a, deposit)
  /\ balance' = Debit(balance, maker(id), mint_a, deposit)
  /\ UNCHANGED quote

\* Faulty variant: collect first, so that the taker can pay with what was
\* collected if both mints are the same.
AnchorTake_CollectsFirst(taker, id, mint_a, mint_b) ==
  LET e == escrow[id]
      collected == Credit(balance, taker, mint_a, vault[id][mint_a])
  IN  /\ Open(id)
      /\ e.mint_a = mint_a /\ e.mint_b = mint_b
      /\ {mint_a, mint_b} \subseteq ClassicMints
      /\ collected[taker][mint_b] >= e.receive
      /\ balance' = Credit(Debit(collected, taker, mint_b, e.receive),
                           maker(id), mint_b, e.receive)
      /\ Close(id, mint_a)
      /\ quote' = [quote EXCEPT ![taker] = NoAccount]

\* Pay the maker, collect everything, close the vault and the escrow.
AnchorTake(taker, id, mint_a, mint_b) ==
  LET e == escrow[id]
  IN  /\ Open(id)
      /\ e.mint_a = mint_a /\ e.mint_b = mint_b
      /\ {mint_a, mint_b} \subseteq ClassicMints
      /\ balance[taker][mint_b] >= e.receive
      /\ balance' =
           Credit(Credit(Debit(balance, taker, mint_b, e.receive),
                         maker(id), mint_b, e.receive),
                  taker, mint_a, vault[id][mint_a])
      /\ Close(id, mint_a)
      /\ quote' = [quote EXCEPT ![taker] = NoAccount]

AnchorRefund(id) ==
  LET e == escrow[id]
  IN  /\ Open(id)
      /\ e.mint_a \in ClassicMints
      /\ balance' = Credit(balance, maker(id), e.mint_a, vault[id][e.mint_a])
      /\ Close(id, e.mint_a)
      /\ UNCHANGED quote

AnchorNext ==
  \/ \E id \in Ids, mint_a \in Mints, mint_b \in Mints, deposit \in Amounts, receive \in Amounts :
       AnchorMake(id, mint_a, mint_b, deposit, receive)
  \/ \E taker \in Wallets : /\ quote[taker] # NoAccount
                            /\ AnchorTake(taker, quote[taker].id,
                                    quote[taker].mint_a, quote[taker].mint_b)
  \/ \E id \in Ids : AnchorRefund(id)
  \/ Environment

AnchorSpec == Init /\ [][AnchorNext]_vars

-------------------------------------------------------------------------------
\* The accounts have their layouts, and an open escrow has a vault.
AnchorTypeOK == AccountsOK(AnchorEscrowState)

AnchorOffers ==
  [id \in Ids |->
    IF ~ Open(id) THEN NoAccount
    ELSE [give |-> escrow[id].mint_a, want |-> escrow[id].mint_b,
          price |-> escrow[id].receive,
          held |-> vault[id][escrow[id].mint_a]]]

AnchorSwap == INSTANCE AtomicSwap WITH offer <- AnchorOffers

ASSUME AnchorOfferAssumption == NoAccount \notin AnchorSwap!Offer

\* Every instruction is a step of the swap: taker and maker get what was agreed
\* in one step, and what others sent to the vault is not lost but goes to
\* whoever empties it.
AnchorImplementsAtomicSwap == AnchorSwap!Spec
===============================================================================
