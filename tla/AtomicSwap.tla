------------------------------ MODULE AtomicSwap ------------------------------
(***************************************************************************)
(* What an escrow promises: the two legs of a trade happen in one step or  *)
(* not at all, and until then what was offered belongs to the offer.       *)
(*                                                                         *)
(* An offer has a name <<maker, nonce>>, which can be used again once the  *)
(* offer is gone.  PinEscrow and AnchorEscrow both implement this.         *)
(***************************************************************************)
EXTENDS Integers

CONSTANTS Wallets, Makers, Mints, Nonces, NoAccount

VARIABLES
  balance,   \* what each wallet holds of each mint
  offer      \* the open offers

Names == Makers \X Nonces

Offer == [give : Mints, want : Mints, price : Nat, held : Nat]

Open(id) == offer[id] # NoAccount

\* n units of a mint leave a wallet, or reach it.
Debit(b, w, mint, n)  == [b EXCEPT ![w][mint] = @ - n]
Credit(b, w, mint, n) == [b EXCEPT ![w][mint] = @ + n]

Init ==
  /\ balance \in [Wallets -> [Mints -> Nat]]
  /\ offer = [id \in Names |-> NoAccount]

\* The maker puts tokens of one mint up for a price in another.
Post(id) ==
  LET new == offer'[id]
  IN  /\ ~ Open(id)
      /\ new \in Offer
      /\ balance[id[1]][new.give] >= new.held
      /\ balance' = Debit(balance, id[1], new.give, new.held)
      /\ offer' = [offer EXCEPT ![id] = new]

\* Anybody may add to an open offer.
Raise(w, id) ==
  LET n == offer'[id].held - offer[id].held
  IN  /\ Open(id) /\ offer'[id] \in Offer
      /\ n \in 0 .. balance[w][offer[id].give]
      /\ balance' = Debit(balance, w, offer[id].give, n)
      /\ offer' = [offer EXCEPT ![id].held = @ + n]

\* The taker pays the price to the maker and gets everything that is held.
Settle(taker, id) ==
  /\ Open(id)
  /\ balance[taker][offer[id].want] >= offer[id].price
  /\ balance' =
       Credit(Credit(Debit(balance, taker, offer[id].want, offer[id].price),
                     id[1], offer[id].want, offer[id].price),
              taker, offer[id].give, offer[id].held)
  /\ offer' = [offer EXCEPT ![id] = NoAccount]

\* The maker gets everything back.
Withdraw(id) ==
  /\ Open(id)
  /\ balance' = Credit(balance, id[1], offer[id].give, offer[id].held)
  /\ offer' = [offer EXCEPT ![id] = NoAccount]

\* A wallet sends tokens elsewhere.
Spend(w, mint) ==
  LET n == balance[w][mint] - balance'[w][mint]
  IN  /\ n \in 0 .. balance[w][mint]
      /\ balance' = Debit(balance, w, mint, n)
      /\ UNCHANGED offer

Next ==
  \/ \E id \in Names : Post(id) \/ Withdraw(id)
  \/ \E w \in Wallets, id \in Names : Raise(w, id) \/ Settle(w, id)
  \/ \E w \in Wallets, mint \in Mints : Spend(w, mint)

Spec == Init /\ [][Next]_<<balance, offer>>
===============================================================================
