----------------------------- MODULE EscrowProofs -----------------------------
(***************************************************************************)
(* PinEscrow and AnchorEscrow implement AtomicSwap, for all wallets,       *)
(* mints, bumps or seeds, and amounts.                                     *)
(*                                                                         *)
(* First the lemmas about the accounts that both programs share, then each *)
(* program's proof.  The invariants are the layouts of the accounts, and   *)
(* for PinEscrow that the vault covers the amount stored.                  *)
(***************************************************************************)
EXTENDS PinEscrow, AnchorEscrow, TLAPS

Balances == [Wallets -> [Mints -> Nat]]

\* A payment that is covered leaves natural numbers.
LEMMA DebitType ==
  ASSUME NEW b \in Balances, NEW w \in Wallets, NEW mint \in Mints, NEW n \in Nat,
         b[w][mint] >= n
  PROVE  /\ Debit(b, w, mint, n) \in Balances
         /\ Debit(b, w, mint, n)[w][mint] = b[w][mint] - n
<1>1. b[w] \in [Mints -> Nat] /\ b[w][mint] - n \in Nat
  BY DEF Balances
<1> DEFINE row == [b[w] EXCEPT ![mint] = @ - n]
<1>2. row \in [Mints -> Nat] /\ row[mint] = b[w][mint] - n
  BY <1>1
<1>3. Debit(b, w, mint, n) = [b EXCEPT ![w] = row]
  BY DEF Debit
<1> HIDE DEF row
<1> QED
  BY <1>2, <1>3 DEF Balances

LEMMA CreditType ==
  ASSUME NEW b \in Balances, NEW w \in Wallets, NEW mint \in Mints, NEW n \in Nat
  PROVE  Credit(b, w, mint, n) \in Balances
<1>1. b[w] \in [Mints -> Nat] /\ b[w][mint] + n \in Nat
  BY DEF Balances
<1> DEFINE row == [b[w] EXCEPT ![mint] = @ + n]
<1>2. row \in [Mints -> Nat]
  BY <1>1
<1>3. Credit(b, w, mint, n) = [b EXCEPT ![w] = row]
  BY DEF Credit
<1> HIDE DEF row
<1> QED
  BY <1>2, <1>3 DEF Balances

\* What a write to one vault changes.
LEMMA PutType ==
  ASSUME vault \in [Ids -> [Mints -> Nat \cup {NoAccount}]],
         NEW id \in Ids, NEW mint \in Mints, NEW content \in Nat \cup {NoAccount}
  PROVE  /\ Put(id, mint, content) \in [Ids -> [Mints -> Nat \cup {NoAccount}]]
         /\ Put(id, mint, content)[id][mint] = content
         /\ \A i \in Ids, m \in Mints :
              (i # id \/ m # mint) => Put(id, mint, content)[i][m] = vault[i][m]
<1>1. vault[id] \in [Mints -> Nat \cup {NoAccount}]
  OBVIOUS
<1>2. [vault[id] EXCEPT ![mint] = content] \in [Mints -> Nat \cup {NoAccount}]
  BY <1>1
<1> QED
  BY <1>1, <1>2 DEF Put

\* Opening an escrow with a new vault, and closing both.
LEMMA OpenStep ==
  ASSUME NEW Escrow, AccountsOK(Escrow), NoAccount \notin Escrow \cup Nat,
         \A e \in Escrow : e.mint_a \in Mints,
         NEW id \in Ids, NEW new \in Escrow, NEW n \in Nat,
         vault[id][new.mint_a] = NoAccount,
         vault' = Put(id, new.mint_a, n),
         escrow' = [escrow EXCEPT ![id] = new]
  PROVE  /\ escrow' \in [Ids -> Escrow \cup {NoAccount}]
         /\ vault' \in [Ids -> [Mints -> Nat \cup {NoAccount}]]
         /\ escrow'[id] = new /\ Open(id)' /\ vault'[id][new.mint_a] = n
         /\ \A i \in Ids : i # id =>
              /\ escrow'[i] = escrow[i] /\ Open(i)' = Open(i)
              /\ Open(i) => vault'[i][escrow[i].mint_a] = vault[i][escrow[i].mint_a]
         /\ \A i \in Ids : Open(i)' => vault'[i][escrow'[i].mint_a] # NoAccount
<1>1. /\ escrow' \in [Ids -> Escrow \cup {NoAccount}]
      /\ escrow'[id] = new /\ Open(id)'
      /\ \A i \in Ids : i # id => escrow'[i] = escrow[i]
  BY DEF AccountsOK, Open
<1>2. /\ vault' \in [Ids -> [Mints -> Nat \cup {NoAccount}]]
      /\ vault'[id][new.mint_a] = n
      /\ \A i \in Ids, m \in Mints : i # id => vault'[i][m] = vault[i][m]
  BY PutType DEF AccountsOK
<1>3. \A i \in Ids : Open(i) => escrow[i].mint_a \in Mints /\ vault[i][escrow[i].mint_a] # NoAccount
  BY DEF AccountsOK, Open
<1>4. \A i \in Ids : i # id => Open(i)' = Open(i)
  BY <1>1 DEF Open
<1> QED
  BY <1>1, <1>2, <1>3, <1>4

LEMMA CloseStep ==
  ASSUME NEW Escrow, AccountsOK(Escrow),
         \A e \in Escrow : e.mint_a \in Mints,
         NEW id \in Ids, NEW mint \in Mints, Close(id, mint)
  PROVE  /\ escrow' \in [Ids -> Escrow \cup {NoAccount}]
         /\ vault' \in [Ids -> [Mints -> Nat \cup {NoAccount}]]
         /\ escrow'[id] = NoAccount /\ ~ Open(id)'
         /\ \A i \in Ids : i # id =>
              /\ escrow'[i] = escrow[i] /\ Open(i)' = Open(i)
              /\ Open(i) => vault'[i][escrow[i].mint_a] = vault[i][escrow[i].mint_a]
         /\ \A i \in Ids : Open(i)' => vault'[i][escrow'[i].mint_a] # NoAccount
<1>1. /\ escrow' \in [Ids -> Escrow \cup {NoAccount}]
      /\ escrow'[id] = NoAccount /\ ~ Open(id)'
      /\ \A i \in Ids : i # id => escrow'[i] = escrow[i]
  BY DEF Close, AccountsOK, Open
<1>2. /\ vault' \in [Ids -> [Mints -> Nat \cup {NoAccount}]]
      /\ \A i \in Ids, m \in Mints : i # id => vault'[i][m] = vault[i][m]
  <2>1. vault' = [vault EXCEPT ![id][mint] = NoAccount]
    BY DEF Close, Put
  <2>2. vault[id] \in [Mints -> Nat \cup {NoAccount}]
    BY DEF AccountsOK
  <2> DEFINE row == [vault[id] EXCEPT ![mint] = NoAccount]
  <2>3. row \in [Mints -> Nat \cup {NoAccount}]
    BY <2>2
  <2>4. vault' = [vault EXCEPT ![id] = row]
    BY <2>1
  <2> HIDE DEF row
  <2> QED
    BY <2>3, <2>4 DEF AccountsOK
<1>3. \A i \in Ids : Open(i) => escrow[i].mint_a \in Mints /\ vault[i][escrow[i].mint_a] # NoAccount
  BY DEF AccountsOK, Open
<1>4. \A i \in Ids : i # id => Open(i)' = Open(i)
  BY <1>1 DEF Open
<1> QED
  BY <1>1, <1>2, <1>3, <1>4

\* What others do to the accounts: the escrows stay, no vault is drawn on.
LEMMA EnvironmentStep ==
  ASSUME NEW Escrow, AccountsOK(Escrow), Environment,
         NoAccount \notin Escrow \cup Quote \cup Nat,
         \A e \in Escrow : e.mint_a \in Mints /\ e.mint_b \in Mints
  PROVE  /\ AccountsOK(Escrow)'
         /\ escrow' = escrow
         /\ \/ UNCHANGED <<balance, vault>>
            \/ \E id \in Ids, mint \in Mints :
                 /\ vault[id][mint] = NoAccount
                 /\ vault' = Put(id, mint, 0)
                 /\ UNCHANGED <<balance, quote>>
            \/ \E w \in Wallets, id \in Ids, mint \in Mints, n \in Nat :
                 /\ vault[id][mint] \in Nat
                 /\ balance[w][mint] >= n
                 /\ balance' = Debit(balance, w, mint, n)
                 /\ vault' = Put(id, mint, vault[id][mint] + n)
                 /\ UNCHANGED quote
<1> USE DEF AccountsOK
<1>1. ASSUME NEW w \in Wallets, NEW id \in Ids, Prepare(w, id)
      PROVE  AccountsOK(Escrow)' /\ UNCHANGED <<balance, vault, escrow>>
  <2> DEFINE q == [id |-> id, mint_a |-> escrow[id].mint_a, mint_b |-> escrow[id].mint_b]
  <2>1. escrow[id] \in Escrow
    BY <1>1 DEF Prepare, Open
  <2>2. q \in Quote
    BY <2>1 DEF Quote
  <2> HIDE DEF q
  <2>3. quote' = [quote EXCEPT ![w] = q] /\ UNCHANGED <<balance, vault, escrow>>
    BY <1>1 DEF Prepare, q
  <2> QED
    BY <2>2, <2>3 DEF Open
<1>2. ASSUME NEW id \in Ids, NEW mint \in Mints, CreateVault(id, mint)
      PROVE  AccountsOK(Escrow)' /\ UNCHANGED <<balance, escrow, quote>>
  <2>1. \A i \in Ids : Open(i) => escrow[i].mint_a \in Mints
    BY DEF Open
  <2>2. /\ vault' = Put(id, mint, 0) /\ vault[id][mint] = NoAccount
        /\ UNCHANGED <<balance, escrow, quote>>
    BY <1>2 DEF CreateVault
  <2>3. vault' \in [Ids -> [Mints -> Nat \cup {NoAccount}]]
    BY <2>2, PutType
  <2>4. ASSUME NEW i \in Ids, Open(i)
        PROVE  vault'[i][escrow[i].mint_a] # NoAccount
    <3>1. vault[i][escrow[i].mint_a] # NoAccount /\ escrow[i].mint_a \in Mints
      BY <2>1, <2>4
    <3>2. i # id \/ escrow[i].mint_a # mint
      BY <2>2, <3>1
    <3>3. vault'[i][escrow[i].mint_a] = vault[i][escrow[i].mint_a]
      BY <2>2, <3>1, <3>2, PutType
    <3> QED
      BY <3>1, <3>3
  <2> QED
    BY <2>2, <2>3, <2>4 DEF Open
<1>3. ASSUME NEW w \in Wallets, NEW id \in Ids, NEW mint \in Mints, NEW n \in Amounts,
             Deposit(w, id, mint, n)
      PROVE  /\ AccountsOK(Escrow)' /\ UNCHANGED <<escrow, quote>>
             /\ vault[id][mint] \in Nat /\ n \in Nat
  <2>1. \A i \in Ids : Open(i) => escrow[i].mint_a \in Mints
    BY DEF Open
  <2>2. vault[id][mint] \in Nat /\ n \in Nat
    BY <1>3, AmountsAssumption DEF Deposit
  <2>3. balance' \in [Wallets -> [Mints -> Nat]]
    BY <1>3, <2>2, DebitType DEF Deposit, Balances
  <2>4. vault[id][mint] + n \in Nat
    BY <2>2
  <2>5. vault' = Put(id, mint, vault[id][mint] + n) /\ UNCHANGED <<escrow, quote>>
    BY <1>3 DEF Deposit
  <2>6. vault' \in [Ids -> [Mints -> Nat \cup {NoAccount}]]
    BY <2>4, <2>5, PutType
  <2>7. ASSUME NEW i \in Ids, Open(i)
        PROVE  vault'[i][escrow[i].mint_a] # NoAccount
    <3>1. vault[i][escrow[i].mint_a] # NoAccount /\ escrow[i].mint_a \in Mints
      BY <2>1, <2>7
    <3>2. CASE i = id /\ escrow[i].mint_a = mint
      BY <2>4, <2>5, <3>2, PutType
    <3>3. CASE ~(i = id /\ escrow[i].mint_a = mint)
      BY <2>4, <2>5, <3>1, <3>3, PutType
    <3> QED
      BY <3>2, <3>3
  <2> QED
    BY <2>2, <2>3, <2>5, <2>6, <2>7 DEF Open
<1> QED
  BY <1>1, <1>2, <1>3 DEF Environment, CreateVault, Deposit

-------------------------------------------------------------------------------
\* accel-p-escrow

PinInv == PinTypeOK /\ VaultBacksOffer

LEMMA PinEscrowFields ==
  ASSUME PinInv, NEW id \in Ids, Open(id)
  PROVE  /\ escrow[id] \in PinEscrowState
         /\ escrow[id].mint_a \in Mints /\ escrow[id].mint_b \in Mints
         /\ escrow[id].amount_to_receive \in Nat /\ escrow[id].amount_to_give \in Nat
         /\ vault[id][escrow[id].mint_a] \in Nat
         /\ maker(id) \in Wallets
BY MakersAssumption DEF PinInv, PinTypeOK, AccountsOK, Open, PinEscrowState, Ids, maker

OtherAccounts == [Ids -> [Mints -> [Others -> Nat \cup {NoAccount}]]]

\* What a write to one of the other token accounts leaves of their types.
LEMMA OtherType ==
  ASSUME other \in OtherAccounts, NEW id \in Ids, NEW mint \in Mints,
         NEW account \in Others, NEW content \in Nat \cup {NoAccount}
  PROVE  [other EXCEPT ![id][mint][account] = content] \in OtherAccounts
<1> DEFINE accounts == [other[id][mint] EXCEPT ![account] = content]
           mints == [other[id] EXCEPT ![mint] = accounts]
<1>1. accounts \in [Others -> Nat \cup {NoAccount}]
  BY DEF OtherAccounts
<1>2. [other EXCEPT ![id][mint][account] = content] = [other EXCEPT ![id] = mints]
  OBVIOUS
<1> HIDE DEF accounts
<1>3. mints \in [Mints -> [Others -> Nat \cup {NoAccount}]]
  BY <1>1 DEF OtherAccounts
<1> HIDE DEF mints
<1> QED
  BY <1>2, <1>3 DEF OtherAccounts

LEMMA PinOpenMaps ==
  ASSUME PinInv, NEW id \in Ids, Open(id)
  PROVE  PinOffers[id] \in PinSwap!Offer /\ PinSwap!Open(id)
<1>1. PinOffers[id] \in PinSwap!Offer
  BY PinEscrowFields DEF PinOffers, PinSwap!Offer
<1> QED
  BY <1>1, PinOfferAssumption DEF PinSwap!Open

LEMMA PinInvInit == PinInit => PinInv
<1> SUFFICES ASSUME PinInit PROVE PinInv
  OBVIOUS
<1>1. \A id \in Ids : ~ Open(id)
  BY DEF PinInit, Init, Open
<1>2. AccountsOK(PinEscrowState)
  BY <1>1, AmountsAssumption DEF PinInit, Init, AccountsOK
<1>3. other \in [Ids -> [Mints -> [Others -> Nat \cup {NoAccount}]]]
  BY DEF PinInit
<1> QED
  BY <1>1, <1>2, <1>3 DEF PinInv, PinTypeOK, VaultBacksOffer

-------------------------------------------------------------------------------
\* make opens an offer of what it moves into the vault.
LEMMA PinMakeStep ==
  ASSUME PinInv, NEW id \in Ids, NEW mint_a \in Mints, NEW mint_b \in Mints,
         NEW receive \in Amounts, NEW give \in Amounts,
         PinMake(id, mint_a, mint_b, receive, give)
  PROVE  PinInv' /\ PinSwap!Post(id)
<1> DEFINE new == [mint_a |-> mint_a, mint_b |-> mint_b,
                   amount_to_receive |-> receive, amount_to_give |-> give]
           new_offer == [give |-> mint_a, want |-> mint_b, price |-> receive, held |-> give]
<1>1. /\ receive \in Nat /\ give \in Nat /\ maker(id) \in Wallets
      /\ balance \in Balances /\ AccountsOK(PinEscrowState)
      /\ balance[maker(id)][mint_a] >= give
  BY AmountsAssumption, MakersAssumption
  DEF PinInv, PinTypeOK, AccountsOK, Balances, Ids, maker, PinMake
<1>2. new \in PinEscrowState
  BY <1>1 DEF PinEscrowState
<1>3. /\ new.mint_a = mint_a /\ new.mint_b = mint_b
      /\ new.amount_to_receive = receive /\ new.amount_to_give = give
  OBVIOUS
<1>4. /\ ~ Open(id) /\ vault[id][mint_a] = NoAccount
      /\ vault' = Put(id, mint_a, give) /\ escrow' = [escrow EXCEPT ![id] = new]
      /\ balance' = Debit(balance, maker(id), mint_a, give)
      /\ UNCHANGED <<quote, other>>
  BY DEF PinMake
<1> HIDE DEF new
<1>5. /\ escrow' \in [Ids -> PinEscrowState \cup {NoAccount}]
      /\ vault' \in [Ids -> [Mints -> Nat \cup {NoAccount}]]
      /\ escrow'[id] = new /\ Open(id)' /\ vault'[id][mint_a] = give
      /\ \A i \in Ids : i # id =>
           /\ escrow'[i] = escrow[i] /\ Open(i)' = Open(i)
           /\ Open(i) => vault'[i][escrow[i].mint_a] = vault[i][escrow[i].mint_a]
      /\ \A i \in Ids : Open(i)' => vault'[i][escrow'[i].mint_a] # NoAccount
  <2>1. NoAccount \notin PinEscrowState \cup Nat /\ \A e \in PinEscrowState : e.mint_a \in Mints
    BY PinNoAccountAssumption DEF PinEscrowState
  <2>2. vault[id][new.mint_a] = NoAccount /\ vault' = Put(id, new.mint_a, give)
    BY <1>3, <1>4
  <2>3. escrow' = [escrow EXCEPT ![id] = new]
    BY <1>4
  <2>4. /\ escrow' \in [Ids -> PinEscrowState \cup {NoAccount}]
        /\ vault' \in [Ids -> [Mints -> Nat \cup {NoAccount}]]
        /\ escrow'[id] = new /\ Open(id)' /\ vault'[id][new.mint_a] = give
        /\ \A i \in Ids : i # id =>
             /\ escrow'[i] = escrow[i] /\ Open(i)' = Open(i)
             /\ Open(i) => vault'[i][escrow[i].mint_a] = vault[i][escrow[i].mint_a]
        /\ \A i \in Ids : Open(i)' => vault'[i][escrow'[i].mint_a] # NoAccount
    BY <1>1, <1>2, <2>1, <2>2, <2>3, OpenStep
  <2> QED
    BY <1>3, <2>4
<1>6. balance' \in Balances
  BY <1>1, <1>4, DebitType
<1>7. PinInv'
  <2>1. PinTypeOK'
    BY <1>4, <1>5, <1>6 DEF PinInv, PinTypeOK, AccountsOK, Balances
  <2>2. VaultBacksOffer'
    BY <1>1, <1>3, <1>5 DEF PinInv, VaultBacksOffer
  <2> QED
    BY <2>1, <2>2 DEF PinInv
<1>8. PinSwap!Post(id)
  <2>1. PinOffers'[id] = new_offer
    BY <1>3, <1>5 DEF PinOffers
  <2>2. new_offer \in PinSwap!Offer
    BY <1>1 DEF PinSwap!Offer
  <2>3. PinOffers' = [PinOffers EXCEPT ![id] = new_offer]
    <3>1. \A i \in Ids : i # id => PinOffers'[i] = PinOffers[i]
      BY <1>5 DEF PinOffers
    <3> QED
      BY <2>1, <3>1 DEF PinOffers
  <2>4. ~ PinSwap!Open(id)
    BY <1>4 DEF PinOffers, PinSwap!Open
  <2>5. balance' = PinSwap!Debit(balance, id[1], new_offer.give, new_offer.held)
    BY <1>4 DEF Debit, PinSwap!Debit, maker
  <2>6. balance[id[1]][new_offer.give] >= new_offer.held
    BY <1>1 DEF maker
  <2> HIDE DEF new_offer
  <2> QED
    BY <2>1, <2>2, <2>3, <2>4, <2>5, <2>6 DEF PinSwap!Post
<1> QED
  BY <1>7, <1>8

\* Closing an escrow withdraws its offer from the table, whichever of its token
\* accounts is closed with it.
LEMMA PinCloseMaps ==
  ASSUME PinInv, NEW id \in Ids, Open(id), NEW account \in TokenAccounts,
         PinClose(id, escrow[id].mint_a, account),
         balance' \in Balances,
         quote' \in [Wallets -> Quote \cup {NoAccount}]
  PROVE  PinInv' /\ PinOffers' = [PinOffers EXCEPT ![id] = NoAccount]
<1> DEFINE mint == escrow[id].mint_a
<1>0. mint \in Mints
  BY PinEscrowFields
<1>1. /\ escrow' \in [Ids -> PinEscrowState \cup {NoAccount}]
      /\ vault' \in [Ids -> [Mints -> Nat \cup {NoAccount}]]
      /\ escrow'[id] = NoAccount /\ ~ Open(id)'
      /\ \A i \in Ids : i # id =>
           /\ escrow'[i] = escrow[i] /\ Open(i)' = Open(i)
           /\ Open(i) => vault'[i][escrow[i].mint_a] = vault[i][escrow[i].mint_a]
      /\ \A i \in Ids : Open(i)' => vault'[i][escrow'[i].mint_a] # NoAccount
  <2>1. CASE account = Vault
    <3>1. \A e \in PinEscrowState : e.mint_a \in Mints
      BY DEF PinEscrowState
    <3>2. AccountsOK(PinEscrowState)
      BY DEF PinInv, PinTypeOK
    <3>3. Close(id, mint)
      BY <2>1 DEF PinClose, Close
    <3> HIDE DEF mint
    <3> QED
      BY <1>0, <3>1, <3>2, <3>3, CloseStep
  <2>2. CASE account # Vault
    <3>1. vault' = vault /\ escrow' = [escrow EXCEPT ![id] = NoAccount]
      BY <2>2 DEF PinClose
    <3> QED
      BY <3>1 DEF PinInv, PinTypeOK, AccountsOK, Open
  <2> QED
    BY <2>1, <2>2
<1>2. other' \in OtherAccounts
  <2>1. other \in OtherAccounts
    BY DEF PinInv, PinTypeOK, OtherAccounts
  <2>2. CASE account = Vault
    BY <2>1, <2>2 DEF PinClose
  <2>3. CASE account # Vault
    <3> DEFINE closed == NoAccount
    <3>1. closed \in Nat \cup {NoAccount} /\ account \in Others
      BY <2>3 DEF TokenAccounts
    <3>2. other' = [other EXCEPT ![id][mint][account] = closed]
      BY <2>3 DEF PinClose
    <3> HIDE DEF closed, mint
    <3> QED
      BY <1>0, <2>1, <3>1, <3>2, OtherType
  <2> QED
    BY <2>2, <2>3
<1> HIDE DEF mint
<1>3. PinTypeOK'
  BY <1>1, <1>2 DEF PinTypeOK, AccountsOK, Balances, OtherAccounts
<1>4. VaultBacksOffer'
  BY <1>1 DEF PinInv, VaultBacksOffer
<1>5. PinOffers' = [PinOffers EXCEPT ![id] = NoAccount]
  <2>1. \A i \in Ids : i # id => PinOffers'[i] = PinOffers[i]
    BY <1>1 DEF PinOffers
  <2>2. PinOffers'[id] = NoAccount
    BY <1>1 DEF PinOffers
  <2> QED
    BY <2>1, <2>2 DEF PinOffers
<1> QED
  BY <1>3, <1>4, <1>5 DEF PinInv

\* take settles the offer, whichever token account of the address pays.
LEMMA PinTakeStep ==
  ASSUME PinInv, NEW taker \in Wallets, NEW id \in Ids,
         NEW mint_a \in Mints, NEW mint_b \in Mints, NEW account \in TokenAccounts,
         PinTake(taker, id, mint_a, mint_b, account)
  PROVE  PinInv' /\ PinSwap!Settle(taker, id)
<1> DEFINE e == escrow[id]
           price == e.amount_to_receive
           held == e.amount_to_give
           paid == Debit(balance, taker, mint_b, price)
           earned == Credit(paid, maker(id), mint_b, price)
<1>1. /\ Open(id) /\ e.mint_a = mint_a /\ e.mint_b = mint_b
      /\ balance[taker][mint_b] >= price
      /\ balance' = Credit(earned, taker, mint_a, held)
      /\ PinClose(id, mint_a, account)
      /\ quote' = [quote EXCEPT ![taker] = NoAccount]
  BY DEF PinTake
<1>2. /\ price \in Nat /\ held \in Nat /\ maker(id) \in Wallets
      /\ balance \in Balances
  BY <1>1, PinEscrowFields DEF PinInv, PinTypeOK, AccountsOK, Balances
<1>3. PinOffers[id] = [give |-> mint_a, want |-> mint_b, price |-> price, held |-> held]
  BY <1>1 DEF PinOffers
<1>4. PinSwap!Open(id)
  BY <1>1, PinOpenMaps
<1> HIDE DEF e, price, held
<1>5. paid \in Balances
  BY <1>1, <1>2, DebitType
<1>6. earned \in Balances
  BY <1>2, <1>5, CreditType
<1>7. balance' \in Balances
  <2> HIDE DEF earned
  <2>1. balance' = Credit(earned, taker, mint_a, held)
    BY <1>1
  <2> QED
    BY <1>2, <1>6, <2>1, CreditType
<1>8. PinInv' /\ PinOffers' = [PinOffers EXCEPT ![id] = NoAccount]
  <2>1. quote' \in [Wallets -> Quote \cup {NoAccount}]
    BY <1>1 DEF PinInv, PinTypeOK, AccountsOK
  <2>2. PinClose(id, escrow[id].mint_a, account) /\ Open(id)
    BY <1>1 DEF e
  <2> QED
    BY <1>7, <2>1, <2>2, PinCloseMaps
<1>9. PinSwap!Settle(taker, id)
  BY <1>1, <1>3, <1>4, <1>8
  DEF PinSwap!Settle, PinSwap!Debit, PinSwap!Credit, Debit, Credit, maker
<1> QED
  BY <1>8, <1>9

\* refund withdraws the offer.
LEMMA PinRefundStep ==
  ASSUME PinInv, NEW id \in Ids, NEW account \in TokenAccounts, PinRefund(id, account)
  PROVE  PinInv' /\ PinSwap!Withdraw(id)
<1> DEFINE mint_a == escrow[id].mint_a
           held == escrow[id].amount_to_give
<1>1. /\ Open(id)
      /\ balance' = Credit(balance, maker(id), mint_a, held)
      /\ PinClose(id, mint_a, account)
      /\ UNCHANGED quote
  BY DEF PinRefund
<1>2. /\ mint_a \in Mints /\ held \in Nat /\ maker(id) \in Wallets
      /\ balance \in Balances
  BY <1>1, PinEscrowFields DEF PinInv, PinTypeOK, AccountsOK, Balances
<1>3. PinOffers[id].give = mint_a /\ PinOffers[id].held = held
  BY <1>1 DEF PinOffers
<1>4. PinSwap!Open(id)
  BY <1>1, PinOpenMaps
<1>5. balance' \in Balances
  BY <1>1, <1>2, CreditType
<1>6. PinInv' /\ PinOffers' = [PinOffers EXCEPT ![id] = NoAccount]
  <2>1. quote' \in [Wallets -> Quote \cup {NoAccount}]
    BY <1>1 DEF PinInv, PinTypeOK, AccountsOK
  <2> QED
    BY <1>1, <1>5, <2>1, PinCloseMaps
<1> HIDE DEF mint_a, held
<1> QED
  BY <1>1, <1>3, <1>4, <1>6 DEF PinSwap!Withdraw, PinSwap!Credit, Credit, maker

\* Tokens sent to an account of an escrow address are spent: no offer changes.
LEMMA PinSpend ==
  ASSUME PinInv, NEW w \in Wallets, NEW mint \in Mints, NEW n \in Nat,
         balance[w][mint] >= n,
         balance' = Debit(balance, w, mint, n),
         escrow' = escrow
  PROVE  PinSwap!Next
<1>1. balance \in Balances
  BY DEF PinInv, PinTypeOK, AccountsOK, Balances
<1>2. balance'[w][mint] = balance[w][mint] - n /\ balance[w][mint] \in Nat
  BY <1>1, DebitType DEF Balances
<1>3. balance[w][mint] - balance'[w][mint] = n /\ n \in 0 .. balance[w][mint]
  BY <1>2
<1>4. balance' = PinSwap!Debit(balance, w, mint, n)
  BY DEF Debit, PinSwap!Debit
<1>5. UNCHANGED PinOffers
  BY DEF PinOffers, Open
<1>6. PinSwap!Spend(w, mint)
  BY <1>3, <1>4, <1>5 DEF PinSwap!Spend
<1> QED
  BY <1>6 DEF PinSwap!Next

LEMMA PinFundStep ==
  ASSUME PinInv, NEW w \in Wallets, NEW id \in Ids, NEW mint \in Mints,
         NEW account \in Others, NEW n \in Amounts,
         FundOther(w, id, mint, account, n)
  PROVE  PinInv' /\ PinSwap!Next
<1> DEFINE held == other[id][mint][account]
           content == IF held = NoAccount THEN n ELSE held + n
<1>1. /\ n \in Nat /\ balance \in Balances /\ other \in OtherAccounts
      /\ balance[w][mint] >= n /\ balance' = Debit(balance, w, mint, n)
      /\ other' = [other EXCEPT ![id][mint][account] = content]
      /\ UNCHANGED <<escrow, vault, quote>>
  BY AmountsAssumption
  DEF FundOther, PinInv, PinTypeOK, AccountsOK, Balances, OtherAccounts
<1>2. content \in Nat \cup {NoAccount}
  <2>1. held \in Nat \cup {NoAccount}
    BY <1>1 DEF OtherAccounts
  <2> HIDE DEF held
  <2> QED
    BY <1>1, <2>1
<1> HIDE DEF content
<1>3. other' \in OtherAccounts
  BY <1>1, <1>2, OtherType
<1>4. balance' \in Balances
  BY <1>1, DebitType
<1>5. PinTypeOK'
  BY <1>1, <1>3, <1>4 DEF PinInv, PinTypeOK, AccountsOK, Open, Balances, OtherAccounts
<1>6. VaultBacksOffer'
  BY <1>1 DEF PinInv, VaultBacksOffer, Open
<1>7. PinSwap!Next
  BY <1>1, PinSpend
<1> QED
  BY <1>5, <1>6, <1>7 DEF PinInv

\* What others do to the escrows and vaults stutters or spends.
LEMMA PinEnvironmentMaps ==
  ASSUME PinInv, Environment, UNCHANGED other
  PROVE  PinInv' /\ [PinSwap!Next]_<<balance, PinOffers>>
<1>1. /\ AccountsOK(PinEscrowState)'
      /\ escrow' = escrow
      /\ \/ UNCHANGED <<balance, vault>>
         \/ \E id \in Ids, mint \in Mints :
              /\ vault[id][mint] = NoAccount
              /\ vault' = Put(id, mint, 0)
              /\ UNCHANGED <<balance, quote>>
         \/ \E w \in Wallets, id \in Ids, mint \in Mints, n \in Nat :
              /\ vault[id][mint] \in Nat
              /\ balance[w][mint] >= n
              /\ balance' = Debit(balance, w, mint, n)
              /\ vault' = Put(id, mint, vault[id][mint] + n)
              /\ UNCHANGED quote
  <2>1. \A e \in PinEscrowState : e.mint_a \in Mints /\ e.mint_b \in Mints
    BY DEF PinEscrowState
  <2> QED
    BY <2>1, PinNoAccountAssumption, EnvironmentStep DEF PinInv, PinTypeOK
<1>2. PinTypeOK'
  BY <1>1 DEF PinInv, PinTypeOK
<1>3. /\ NoAccount \notin Nat
      /\ vault \in [Ids -> [Mints -> Nat \cup {NoAccount}]]
      /\ UNCHANGED PinOffers
      /\ \A i \in Ids : Open(i)' = Open(i)
  BY <1>1, PinNoAccountAssumption DEF PinInv, PinTypeOK, AccountsOK, PinOffers, Open
<1>4. CASE UNCHANGED <<balance, vault>>
  BY <1>1, <1>2, <1>3, <1>4 DEF PinInv, VaultBacksOffer
<1>5. ASSUME NEW id \in Ids, NEW mint \in Mints, vault[id][mint] = NoAccount,
             vault' = Put(id, mint, 0), UNCHANGED <<balance, quote>>
      PROVE  PinInv' /\ UNCHANGED <<balance, PinOffers>>
  <2>1. ASSUME NEW i \in Ids, Open(i)
        PROVE  vault'[i][escrow[i].mint_a] = vault[i][escrow[i].mint_a]
    <3>1. vault[i][escrow[i].mint_a] \in Nat /\ escrow[i].mint_a \in Mints
      BY <2>1, PinEscrowFields
    <3>2. i # id \/ escrow[i].mint_a # mint
      BY <1>3, <1>5, <3>1
    <3> QED
      BY <1>3, <1>5, <3>1, <3>2, PutType
  <2> QED
    BY <1>1, <1>2, <1>3, <1>5, <2>1 DEF PinInv, VaultBacksOffer
<1>6. ASSUME NEW w \in Wallets, NEW id \in Ids, NEW mint \in Mints, NEW n \in Nat,
             vault[id][mint] \in Nat,
             balance[w][mint] >= n,
             balance' = Debit(balance, w, mint, n),
             vault' = Put(id, mint, vault[id][mint] + n)
      PROVE  PinInv' /\ PinSwap!Next
  <2>1. vault[id][mint] + n \in Nat
    BY <1>6
  <2>2. /\ vault'[id][mint] = vault[id][mint] + n
        /\ \A i \in Ids, m \in Mints :
             (i # id \/ m # mint) => vault'[i][m] = vault[i][m]
    BY <1>3, <1>6, <2>1, PutType
  <2>3. \A i \in Ids : Open(i) => escrow[i].mint_a \in Mints
    BY PinEscrowFields
  <2>4. VaultBacksOffer'
    <3> SUFFICES ASSUME NEW i \in Ids, Open(i)
                 PROVE  vault'[i][escrow[i].mint_a] >= escrow[i].amount_to_give
      BY <1>1, <1>3 DEF VaultBacksOffer
    <3>1. /\ vault[i][escrow[i].mint_a] >= escrow[i].amount_to_give
          /\ escrow[i].amount_to_give \in Nat
      BY PinEscrowFields DEF PinInv, VaultBacksOffer
    <3>2. CASE i = id /\ escrow[i].mint_a = mint
      BY <1>6, <2>2, <3>1, <3>2
    <3>3. CASE ~(i = id /\ escrow[i].mint_a = mint)
      BY <2>2, <2>3, <3>1, <3>3
    <3> QED
      BY <3>2, <3>3
  <2> QED
    BY <1>1, <1>2, <1>6, <2>4, PinSpend DEF PinInv
<1> QED
  BY <1>1, <1>4, <1>5, <1>6

\* A take in a step is one that was prepared.
PinTaken(taker, account) ==
  /\ quote[taker] # NoAccount
  /\ PinTake(taker, quote[taker].id, quote[taker].mint_a, quote[taker].mint_b, account)

LEMMA PinQuoteFields ==
  ASSUME PinInv, NEW w \in Wallets, quote[w] # NoAccount
  PROVE  quote[w].id \in Ids /\ quote[w].mint_a \in Mints /\ quote[w].mint_b \in Mints
BY DEF PinInv, PinTypeOK, AccountsOK, Quote

LEMMA PinNextMaps == PinInv /\ [PinNext]_pinVars => PinInv' /\ [PinSwap!Next]_<<balance, PinOffers>>
<1> SUFFICES ASSUME PinInv, [PinNext]_pinVars
             PROVE  PinInv' /\ [PinSwap!Next]_<<balance, PinOffers>>
  OBVIOUS
<1>1. ASSUME NEW id \in Ids, NEW mint_a \in Mints, NEW mint_b \in Mints,
             NEW receive \in Amounts, NEW give \in Amounts,
             PinMake(id, mint_a, mint_b, receive, give)
      PROVE  PinInv' /\ PinSwap!Next
  BY <1>1, PinMakeStep DEF PinSwap!Next, PinSwap!Names, Ids
<1>2. ASSUME NEW taker \in Wallets, NEW account \in TokenAccounts, PinTaken(taker, account)
      PROVE  PinInv' /\ PinSwap!Next
  BY <1>2, PinQuoteFields, PinTakeStep DEF PinTaken, PinSwap!Next, PinSwap!Names, Ids
<1>3. ASSUME NEW id \in Ids, NEW account \in TokenAccounts, PinRefund(id, account)
      PROVE  PinInv' /\ PinSwap!Next
  BY <1>3, PinRefundStep DEF PinSwap!Next, PinSwap!Names, Ids
<1>4. CASE Environment /\ UNCHANGED other
  BY <1>4, PinEnvironmentMaps
<1>5. ASSUME NEW w \in Wallets, NEW id \in Ids, NEW mint \in Mints,
             NEW account \in Others, NEW n \in Amounts,
             FundOther(w, id, mint, account, n)
      PROVE  PinInv' /\ PinSwap!Next
  BY <1>5, PinFundStep
<1>6. CASE UNCHANGED pinVars
  BY <1>6 DEF pinVars, vars, PinInv, PinTypeOK, AccountsOK, VaultBacksOffer, Open, PinOffers
<1> QED
  BY <1>1, <1>2, <1>3, <1>4, <1>5, <1>6 DEF PinNext, PinTaken

LEMMA PinInvHolds == PinSpec => []PinInv
BY PinInvInit, PinNextMaps, PTL DEF PinSpec

-------------------------------------------------------------------------------
\* The accounts keep their layouts, and an open escrow always has its vault.
THEOREM PinTypeCorrect == PinSpec => []PinTypeOK
<1>1. PinInv => PinTypeOK
  BY DEF PinInv
<1> QED
  BY <1>1, PinInvHolds, PTL

\* The vault of an open escrow always covers what the escrow stored as
\* amount_to_give, over any number of escrows at one address.
THEOREM VaultAlwaysBacksOffer == PinSpec => []VaultBacksOffer
<1>1. PinInv => VaultBacksOffer
  BY DEF PinInv
<1> QED
  BY <1>1, PinInvHolds, PTL

\* make, take and refund are an atomic swap: what the maker offered is always
\* either held for the offer, or was exchanged for the price in one step, or
\* is back with the maker.
THEOREM PinAlwaysAtomicSwap == PinSpec => PinImplementsAtomicSwap
<1>1. PinInit => PinSwap!Init
  <2> SUFFICES ASSUME PinInit PROVE PinSwap!Init
    OBVIOUS
  <2>1. balance \in [Wallets -> [Mints -> Nat]]
    BY AmountsAssumption DEF PinInit, Init
  <2>2. PinOffers = [id \in PinSwap!Names |-> NoAccount]
    BY DEF PinInit, Init, PinOffers, Open, PinSwap!Names, Ids
  <2> QED
    BY <2>1, <2>2 DEF PinSwap!Init
<1>2. PinInv /\ [PinNext]_pinVars => [PinSwap!Next]_<<balance, PinOffers>>
  BY PinNextMaps
<1> QED
  BY <1>1, <1>2, PinInvHolds, PTL DEF PinSpec, PinImplementsAtomicSwap, PinSwap!Spec

-------------------------------------------------------------------------------
\* anchor-escrow

AnchorInv == AnchorTypeOK

LEMMA AnchorEscrowFields ==
  ASSUME AnchorInv, NEW id \in Ids, Open(id)
  PROVE  /\ escrow[id] \in AnchorEscrowState
         /\ escrow[id].mint_a \in Mints /\ escrow[id].mint_b \in Mints
         /\ escrow[id].receive \in Nat
         /\ vault[id][escrow[id].mint_a] \in Nat
         /\ maker(id) \in Wallets
BY MakersAssumption DEF AnchorInv, AnchorTypeOK, AccountsOK, Open, AnchorEscrowState, Ids, maker

\* Open escrows are open offers.
LEMMA AnchorOpenMaps ==
  ASSUME AnchorInv, NEW id \in Ids, Open(id)
  PROVE  AnchorOffers[id] \in AnchorSwap!Offer /\ AnchorSwap!Open(id)
<1>1. AnchorOffers[id] \in AnchorSwap!Offer
  BY AnchorEscrowFields DEF AnchorOffers, AnchorSwap!Offer
<1> QED
  BY <1>1, AnchorOfferAssumption DEF AnchorSwap!Open

LEMMA AnchorInvInit == Init => AnchorInv
<1> SUFFICES ASSUME Init PROVE AnchorInv
  OBVIOUS
<1>1. \A id \in Ids : ~ Open(id)
  BY DEF Init, Open
<1>2. AccountsOK(AnchorEscrowState)
  BY <1>1, AmountsAssumption DEF Init, AccountsOK
<1> QED
  BY <1>1, <1>2 DEF AnchorInv, AnchorTypeOK

-------------------------------------------------------------------------------
\* make opens an offer of what it moves into the vault.
LEMMA AnchorMakeStep ==
  ASSUME AnchorInv, NEW id \in Ids, NEW mint_a \in Mints, NEW mint_b \in Mints,
         NEW deposit \in Amounts, NEW receive \in Amounts,
         AnchorMake(id, mint_a, mint_b, deposit, receive)
  PROVE  AnchorInv' /\ AnchorSwap!Post(id)
<1> DEFINE new == [mint_a |-> mint_a, mint_b |-> mint_b, receive |-> receive]
           new_offer == [give |-> mint_a, want |-> mint_b, price |-> receive, held |-> deposit]
<1>1. /\ receive \in Nat /\ deposit \in Nat /\ maker(id) \in Wallets
      /\ balance \in Balances /\ AccountsOK(AnchorEscrowState)
      /\ balance[maker(id)][mint_a] >= deposit
  BY AmountsAssumption, MakersAssumption
  DEF AnchorInv, AnchorTypeOK, AccountsOK, Balances, Ids, maker, AnchorMake
<1>2. new \in AnchorEscrowState
  BY <1>1 DEF AnchorEscrowState
<1>3. new.mint_a = mint_a /\ new.mint_b = mint_b /\ new.receive = receive
  OBVIOUS
<1>4. /\ ~ Open(id) /\ vault[id][mint_a] = NoAccount
      /\ vault' = Put(id, mint_a, deposit) /\ escrow' = [escrow EXCEPT ![id] = new]
      /\ balance' = Debit(balance, maker(id), mint_a, deposit)
      /\ UNCHANGED quote
  BY DEF AnchorMake
<1> HIDE DEF new
<1>5. /\ escrow' \in [Ids -> AnchorEscrowState \cup {NoAccount}]
      /\ vault' \in [Ids -> [Mints -> Nat \cup {NoAccount}]]
      /\ escrow'[id] = new /\ Open(id)' /\ vault'[id][mint_a] = deposit
      /\ \A i \in Ids : i # id =>
           /\ escrow'[i] = escrow[i] /\ Open(i)' = Open(i)
           /\ Open(i) => vault'[i][escrow[i].mint_a] = vault[i][escrow[i].mint_a]
      /\ \A i \in Ids : Open(i)' => vault'[i][escrow'[i].mint_a] # NoAccount
  <2>1. NoAccount \notin AnchorEscrowState \cup Nat /\ \A e \in AnchorEscrowState : e.mint_a \in Mints
    BY AnchorNoAccountAssumption DEF AnchorEscrowState
  <2>2. vault[id][new.mint_a] = NoAccount /\ vault' = Put(id, new.mint_a, deposit)
    BY <1>3, <1>4
  <2>3. escrow' = [escrow EXCEPT ![id] = new]
    BY <1>4
  <2>4. /\ escrow' \in [Ids -> AnchorEscrowState \cup {NoAccount}]
        /\ vault' \in [Ids -> [Mints -> Nat \cup {NoAccount}]]
        /\ escrow'[id] = new /\ Open(id)' /\ vault'[id][new.mint_a] = deposit
        /\ \A i \in Ids : i # id =>
             /\ escrow'[i] = escrow[i] /\ Open(i)' = Open(i)
             /\ Open(i) => vault'[i][escrow[i].mint_a] = vault[i][escrow[i].mint_a]
        /\ \A i \in Ids : Open(i)' => vault'[i][escrow'[i].mint_a] # NoAccount
    BY <1>1, <1>2, <2>1, <2>2, <2>3, OpenStep
  <2> QED
    BY <1>3, <2>4
<1>6. balance' \in Balances
  BY <1>1, <1>4, DebitType
<1>7. AnchorInv'
  BY <1>4, <1>5, <1>6 DEF AnchorInv, AnchorTypeOK, AccountsOK, Balances
<1>8. AnchorSwap!Post(id)
  <2>1. AnchorOffers'[id] = new_offer
    BY <1>3, <1>5 DEF AnchorOffers
  <2>2. new_offer \in AnchorSwap!Offer
    BY <1>1 DEF AnchorSwap!Offer
  <2>3. AnchorOffers' = [AnchorOffers EXCEPT ![id] = new_offer]
    <3>1. \A i \in Ids : i # id => AnchorOffers'[i] = AnchorOffers[i]
      BY <1>5 DEF AnchorOffers
    <3> QED
      BY <2>1, <3>1 DEF AnchorOffers
  <2>4. ~ AnchorSwap!Open(id)
    BY <1>4 DEF AnchorOffers, AnchorSwap!Open
  <2>5. balance' = AnchorSwap!Debit(balance, id[1], new_offer.give, new_offer.held)
    BY <1>4 DEF Debit, AnchorSwap!Debit, maker
  <2>6. balance[id[1]][new_offer.give] >= new_offer.held
    BY <1>1 DEF maker
  <2> HIDE DEF new_offer
  <2> QED
    BY <2>1, <2>2, <2>3, <2>4, <2>5, <2>6 DEF AnchorSwap!Post
<1> QED
  BY <1>7, <1>8

\* Closing an escrow withdraws its offer from the table.
LEMMA AnchorCloseMaps ==
  ASSUME AnchorInv, NEW id \in Ids, Open(id), Close(id, escrow[id].mint_a),
         balance' \in Balances,
         quote' \in [Wallets -> Quote \cup {NoAccount}]
  PROVE  AnchorInv' /\ AnchorOffers' = [AnchorOffers EXCEPT ![id] = NoAccount]
<1>1. /\ escrow' \in [Ids -> AnchorEscrowState \cup {NoAccount}]
      /\ vault' \in [Ids -> [Mints -> Nat \cup {NoAccount}]]
      /\ escrow'[id] = NoAccount /\ ~ Open(id)'
      /\ \A i \in Ids : i # id =>
           /\ escrow'[i] = escrow[i] /\ Open(i)' = Open(i)
           /\ Open(i) => vault'[i][escrow[i].mint_a] = vault[i][escrow[i].mint_a]
      /\ \A i \in Ids : Open(i)' => vault'[i][escrow'[i].mint_a] # NoAccount
  <2>1. \A e \in AnchorEscrowState : e.mint_a \in Mints
    BY DEF AnchorEscrowState
  <2>2. AccountsOK(AnchorEscrowState) /\ escrow[id].mint_a \in Mints
    BY AnchorEscrowFields DEF AnchorInv, AnchorTypeOK
  <2> QED
    BY <2>1, <2>2, CloseStep
<1>2. AnchorTypeOK'
  BY <1>1 DEF AnchorTypeOK, AccountsOK, Balances
<1>4. AnchorOffers' = [AnchorOffers EXCEPT ![id] = NoAccount]
  <2>1. \A i \in Ids : i # id => AnchorOffers'[i] = AnchorOffers[i]
    BY <1>1 DEF AnchorOffers
  <2>2. AnchorOffers'[id] = NoAccount
    BY <1>1 DEF AnchorOffers
  <2> QED
    BY <2>1, <2>2 DEF AnchorOffers
<1> QED
  BY <1>2, <1>4 DEF AnchorInv

\* take settles the offer; nothing stays in the vault.
LEMMA AnchorTakeStep ==
  ASSUME AnchorInv, NEW taker \in Wallets, NEW id \in Ids,
         NEW mint_a \in Mints, NEW mint_b \in Mints,
         AnchorTake(taker, id, mint_a, mint_b)
  PROVE  AnchorInv' /\ AnchorSwap!Settle(taker, id)
<1> DEFINE e == escrow[id]
           price == e.receive
           held == vault[id][mint_a]
           paid == Debit(balance, taker, mint_b, price)
           earned == Credit(paid, maker(id), mint_b, price)
<1>1. /\ Open(id) /\ e.mint_a = mint_a /\ e.mint_b = mint_b
      /\ balance[taker][mint_b] >= price
      /\ balance' = Credit(earned, taker, mint_a, held)
      /\ Close(id, mint_a)
      /\ quote' = [quote EXCEPT ![taker] = NoAccount]
  BY DEF AnchorTake
<1>2. /\ price \in Nat /\ held \in Nat /\ maker(id) \in Wallets
      /\ balance \in Balances
  BY <1>1, AnchorEscrowFields DEF AnchorInv, AnchorTypeOK, AccountsOK, Balances
<1>3. AnchorOffers[id] = [give |-> mint_a, want |-> mint_b, price |-> price, held |-> held]
  BY <1>1 DEF AnchorOffers
<1>4. AnchorSwap!Open(id)
  BY <1>1, AnchorOpenMaps
<1> HIDE DEF e, price, held
<1>5. paid \in Balances
  BY <1>1, <1>2, DebitType
<1>6. earned \in Balances
  BY <1>2, <1>5, CreditType
<1>7. balance' \in Balances
  <2> HIDE DEF earned
  <2>1. balance' = Credit(earned, taker, mint_a, held)
    BY <1>1
  <2> QED
    BY <1>2, <1>6, <2>1, CreditType
<1>8. AnchorInv' /\ AnchorOffers' = [AnchorOffers EXCEPT ![id] = NoAccount]
  <2>1. quote' \in [Wallets -> Quote \cup {NoAccount}]
    BY <1>1 DEF AnchorInv, AnchorTypeOK, AccountsOK
  <2>2. Close(id, escrow[id].mint_a) /\ Open(id)
    BY <1>1 DEF e
  <2> QED
    BY <1>7, <2>1, <2>2, AnchorCloseMaps
<1>9. AnchorSwap!Settle(taker, id)
  BY <1>1, <1>3, <1>4, <1>8
  DEF AnchorSwap!Settle, AnchorSwap!Debit, AnchorSwap!Credit, Debit, Credit, maker
<1> QED
  BY <1>8, <1>9

\* refund withdraws the offer.
LEMMA AnchorRefundStep ==
  ASSUME AnchorInv, NEW id \in Ids, AnchorRefund(id)
  PROVE  AnchorInv' /\ AnchorSwap!Withdraw(id)
<1> DEFINE mint_a == escrow[id].mint_a
           held == vault[id][mint_a]
<1>1. /\ Open(id)
      /\ balance' = Credit(balance, maker(id), mint_a, held)
      /\ Close(id, mint_a)
      /\ UNCHANGED quote
  BY DEF AnchorRefund
<1>2. /\ mint_a \in Mints /\ held \in Nat /\ maker(id) \in Wallets
      /\ balance \in Balances
  BY <1>1, AnchorEscrowFields DEF AnchorInv, AnchorTypeOK, AccountsOK, Balances
<1>3. AnchorOffers[id].give = mint_a /\ AnchorOffers[id].held = held
  BY <1>1 DEF AnchorOffers
<1>4. AnchorSwap!Open(id)
  BY <1>1, AnchorOpenMaps
<1>5. balance' \in Balances
  BY <1>1, <1>2, CreditType
<1>6. AnchorInv' /\ AnchorOffers' = [AnchorOffers EXCEPT ![id] = NoAccount]
  <2>1. quote' \in [Wallets -> Quote \cup {NoAccount}]
    BY <1>1 DEF AnchorInv, AnchorTypeOK, AccountsOK
  <2> QED
    BY <1>1, <1>5, <2>1, AnchorCloseMaps
<1> HIDE DEF mint_a, held
<1> QED
  BY <1>1, <1>3, <1>4, <1>6 DEF AnchorSwap!Withdraw, AnchorSwap!Credit, Credit, maker

\* What others do stutters, raises an offer, or spends.
LEMMA AnchorEnvironmentMaps ==
  ASSUME AnchorInv, Environment
  PROVE  /\ AnchorInv'
         /\ [AnchorSwap!Next]_<<balance, AnchorOffers>>
<1> USE DEF AnchorInv
<1>1. /\ AccountsOK(AnchorEscrowState)'
      /\ escrow' = escrow
      /\ \/ UNCHANGED <<balance, vault>>
         \/ \E id \in Ids, mint \in Mints :
              /\ vault[id][mint] = NoAccount
              /\ vault' = Put(id, mint, 0)
              /\ UNCHANGED <<balance, quote>>
         \/ \E w \in Wallets, id \in Ids, mint \in Mints, n \in Nat :
              /\ vault[id][mint] \in Nat
              /\ balance[w][mint] >= n
              /\ balance' = Debit(balance, w, mint, n)
              /\ vault' = Put(id, mint, vault[id][mint] + n)
              /\ UNCHANGED quote
  <2>1. \A e \in AnchorEscrowState : e.mint_a \in Mints /\ e.mint_b \in Mints
    BY DEF AnchorEscrowState
  <2> QED
    BY <2>1, AnchorNoAccountAssumption, EnvironmentStep DEF AnchorTypeOK
<1>2. /\ balance \in Balances /\ NoAccount \notin Nat
      /\ vault \in [Ids -> [Mints -> Nat \cup {NoAccount}]]
      /\ \A i \in Ids : Open(i)' = Open(i)
  BY <1>1, AnchorNoAccountAssumption DEF AnchorTypeOK, AccountsOK, Balances, Open
<1>3. CASE UNCHANGED <<balance, vault>>
  BY <1>1, <1>2, <1>3 DEF AnchorTypeOK, AnchorOffers
<1>4. ASSUME NEW id \in Ids, NEW mint \in Mints, vault[id][mint] = NoAccount,
             vault' = Put(id, mint, 0), UNCHANGED <<balance, quote>>
      PROVE  AnchorInv' /\ UNCHANGED <<balance, AnchorOffers>>
  <2>1. ASSUME NEW i \in Ids, Open(i)
        PROVE  vault'[i][escrow[i].mint_a] = vault[i][escrow[i].mint_a]
    <3>1. vault[i][escrow[i].mint_a] \in Nat /\ escrow[i].mint_a \in Mints
      BY <2>1, AnchorEscrowFields
    <3>2. i # id \/ escrow[i].mint_a # mint
      BY <1>2, <1>4, <3>1
    <3> QED
      BY <1>2, <1>4, <3>1, <3>2, PutType
  <2> QED
    BY <1>1, <1>2, <1>4, <2>1 DEF AnchorTypeOK, AnchorOffers
<1>5. ASSUME NEW w \in Wallets, NEW id \in Ids, NEW mint \in Mints, NEW n \in Nat,
             vault[id][mint] \in Nat,
             balance[w][mint] >= n,
             balance' = Debit(balance, w, mint, n),
             vault' = Put(id, mint, vault[id][mint] + n),
             UNCHANGED quote
      PROVE  AnchorInv' /\ AnchorSwap!Next
  <2>1. vault[id][mint] + n \in Nat
    BY <1>5
  <2>2. /\ vault'[id][mint] = vault[id][mint] + n
        /\ \A i \in Ids, m \in Mints :
             (i # id \/ m # mint) => vault'[i][m] = vault[i][m]
    BY <1>2, <1>5, <2>1, PutType
  <2>3. balance'[w][mint] = balance[w][mint] - n /\ balance[w][mint] \in Nat
    BY <1>2, <1>5, DebitType DEF Balances
  <2>4. \A i \in Ids : Open(i) => escrow[i].mint_a \in Mints
    BY AnchorEscrowFields
  <2>6. CASE Open(id) /\ escrow[id].mint_a = mint
    <3>1. /\ AnchorOffers[id] \in AnchorSwap!Offer /\ AnchorSwap!Open(id)
          /\ AnchorOffers[id].give = mint /\ AnchorOffers[id].held = vault[id][mint]
      BY <2>6, AnchorOpenMaps DEF AnchorOffers
    <3>2. /\ AnchorOffers'[id] = [AnchorOffers[id] EXCEPT !.held = @ + n]
          /\ AnchorOffers'[id].held = vault[id][mint] + n
      BY <1>1, <1>2, <2>2, <2>6 DEF AnchorOffers
    <3>3. AnchorOffers'[id] \in AnchorSwap!Offer
      BY <2>1, <3>1, <3>2 DEF AnchorSwap!Offer
    <3>4. AnchorOffers'[id].held - AnchorOffers[id].held = n
      BY <1>5, <3>1, <3>2
    <3>5. AnchorOffers' = [AnchorOffers EXCEPT ![id].held = @ + n]
      <4>1. \A i \in Ids : i # id => AnchorOffers'[i] = AnchorOffers[i]
        BY <1>1, <1>2, <2>2, <2>4 DEF AnchorOffers
      <4> QED
        BY <3>2, <4>1 DEF AnchorOffers
    <3>6. balance' = AnchorSwap!Debit(balance, w, mint, n)
      BY <1>5 DEF Debit, AnchorSwap!Debit
    <3>7. n \in 0 .. balance[w][mint]
      BY <1>5, <2>3
    <3>8. AnchorSwap!Raise(w, id)
      BY <3>1, <3>3, <3>4, <3>5, <3>6, <3>7 DEF AnchorSwap!Raise
    <3>9. AnchorSwap!Next
      BY <3>8 DEF AnchorSwap!Next, AnchorSwap!Names, Ids
    <3> QED
      BY <1>1, <3>9 DEF AnchorTypeOK
  <2>7. CASE ~(Open(id) /\ escrow[id].mint_a = mint)
    <3>1. UNCHANGED AnchorOffers
      <4>1. \A i \in Ids : Open(i) => vault'[i][escrow[i].mint_a] = vault[i][escrow[i].mint_a]
        BY <2>2, <2>4, <2>7
      <4> QED
        BY <1>1, <1>2, <4>1 DEF AnchorOffers
    <3>2. balance[w][mint] - balance'[w][mint] = n
      BY <1>5, <2>3
    <3>3. n \in 0 .. balance[w][mint]
      BY <1>5, <2>3
    <3>4. balance' = AnchorSwap!Debit(balance, w, mint, n)
      BY <1>5 DEF Debit, AnchorSwap!Debit
    <3>5. AnchorSwap!Spend(w, mint)
      BY <3>1, <3>2, <3>3, <3>4 DEF AnchorSwap!Spend
    <3>6. AnchorSwap!Next
      BY <3>5 DEF AnchorSwap!Next
    <3> QED
      BY <1>1, <3>6 DEF AnchorTypeOK
  <2> QED
    BY <2>6, <2>7
<1> QED
  BY <1>1, <1>3, <1>4, <1>5 DEF AnchorOffers

\* A take in a step is one that was prepared.
AnchorTaken(taker) ==
  /\ quote[taker] # NoAccount
  /\ AnchorTake(taker, quote[taker].id, quote[taker].mint_a, quote[taker].mint_b)

LEMMA AnchorQuoteFields ==
  ASSUME AnchorInv, NEW w \in Wallets, quote[w] # NoAccount
  PROVE  quote[w].id \in Ids /\ quote[w].mint_a \in Mints /\ quote[w].mint_b \in Mints
BY DEF AnchorInv, AnchorTypeOK, AccountsOK, Quote

LEMMA AnchorNextMaps == AnchorInv /\ [AnchorNext]_vars => AnchorInv' /\ [AnchorSwap!Next]_<<balance, AnchorOffers>>
<1> SUFFICES ASSUME AnchorInv, [AnchorNext]_vars
             PROVE  AnchorInv' /\ [AnchorSwap!Next]_<<balance, AnchorOffers>>
  OBVIOUS
<1>1. ASSUME NEW id \in Ids, NEW mint_a \in Mints, NEW mint_b \in Mints,
             NEW deposit \in Amounts, NEW receive \in Amounts,
             AnchorMake(id, mint_a, mint_b, deposit, receive)
      PROVE  AnchorInv' /\ AnchorSwap!Next
  BY <1>1, AnchorMakeStep DEF AnchorSwap!Next, AnchorSwap!Names, Ids
<1>2. ASSUME NEW taker \in Wallets, AnchorTaken(taker)
      PROVE  AnchorInv' /\ AnchorSwap!Next
  BY <1>2, AnchorQuoteFields, AnchorTakeStep DEF AnchorTaken, AnchorSwap!Next, AnchorSwap!Names, Ids
<1>3. ASSUME NEW id \in Ids, AnchorRefund(id)
      PROVE  AnchorInv' /\ AnchorSwap!Next
  BY <1>3, AnchorRefundStep DEF AnchorSwap!Next, AnchorSwap!Names, Ids
<1>4. CASE Environment
  BY <1>4, AnchorEnvironmentMaps
<1>5. CASE UNCHANGED vars
  BY <1>5 DEF vars, AnchorInv, AnchorTypeOK, AccountsOK, Open, AnchorOffers
<1> QED
  BY <1>1, <1>2, <1>3, <1>4, <1>5 DEF AnchorNext, AnchorTaken

LEMMA AnchorInvHolds == AnchorSpec => []AnchorInv
BY AnchorInvInit, AnchorNextMaps, PTL DEF AnchorSpec

-------------------------------------------------------------------------------
\* The accounts keep their layouts, and an open escrow always has its vault.
THEOREM AnchorTypeCorrect == AnchorSpec => []AnchorTypeOK
<1>1. AnchorInv => AnchorTypeOK
  BY DEF AnchorInv
<1> QED
  BY <1>1, AnchorInvHolds, PTL

\* make, take and refund are an atomic swap, and the tokens others send to the
\* vault are part of what is swapped or given back.
THEOREM AnchorAlwaysAtomicSwap == AnchorSpec => AnchorImplementsAtomicSwap
<1>1. Init => AnchorSwap!Init
  <2> SUFFICES ASSUME Init PROVE AnchorSwap!Init
    OBVIOUS
  <2>1. balance \in [Wallets -> [Mints -> Nat]]
    BY AmountsAssumption DEF Init
  <2>2. AnchorOffers = [id \in AnchorSwap!Names |-> NoAccount]
    BY DEF Init, AnchorOffers, Open, AnchorSwap!Names, Ids
  <2> QED
    BY <2>1, <2>2 DEF AnchorSwap!Init
<1>2. AnchorInv /\ [AnchorNext]_vars => [AnchorSwap!Next]_<<balance, AnchorOffers>>
  BY AnchorNextMaps
<1> QED
  BY <1>1, <1>2, AnchorInvHolds, PTL DEF AnchorSpec, AnchorImplementsAtomicSwap, AnchorSwap!Spec
===============================================================================
