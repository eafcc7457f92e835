--------------------------- MODULE FundraiserProofs ---------------------------
(***************************************************************************)
(* Theorems about Fundraiser, for all contributors, bumps and mints, all   *)
(* amounts, durations and clock steps and any number of campaigns.         *)
(*                                                                         *)
(* The invariants build on each other: the shape of the accounts, then     *)
(* what the records add up to, then the conservation of tokens.            *)
(***************************************************************************)
EXTENDS Fundraiser, TokenUnitsProofs

-------------------------------------------------------------------------------
(***************************************************************************)
(* Shape: the layout of the accounts needs that the vault and the campaign *)
(* are opened and closed together, and that needs the layout.              *)
(***************************************************************************)
Shape == TypeOK /\ VaultBacksTotal

LEMMA RecordsFinite == IsFiniteSet(Records)
BY WalletsAssumption, FS_Product DEF Records

LEMMA RecordAmountsType ==
  ASSUME TypeOK
  PROVE  RecordAmounts \in [Records -> Nat]
BY DEF TypeOK, RecordAmounts, RecordAmount

LEMMA CreditType ==
  ASSUME TypeOK, NEW w \in Wallets, NEW mint \in Mints, NEW amount \in Int,
         0 <= ata[w][mint] + amount
  PROVE  Credit(w, mint, amount) \in [Wallets -> [Mints -> Nat]]
<1>1. ata \in [Wallets -> [Mints -> Nat]]
  BY DEF TypeOK
<1>2. ata[w] \in [Mints -> Nat]
  BY <1>1
<1>3. ata[w][mint] + amount \in Nat
  BY <1>2
<1>4. [ata[w] EXCEPT ![mint] = @ + amount] \in [Mints -> Nat]
  BY <1>2, <1>3
<1> QED
  BY <1>1, <1>4 DEF Credit

LEMMA ShapeInit == Init => Shape
<1> SUFFICES ASSUME Init PROVE Shape
  OBVIOUS
<1>1. TypeOK
  BY AmountsAssumption DEF Init, TypeOK
<1>2. VaultBacksTotal
  BY DEF Init, VaultBacksTotal, Open
<1> QED
  BY <1>1, <1>2 DEF Shape

LEMMA ShapeStep == Shape /\ [Next]_vars => Shape'
<1> SUFFICES ASSUME Shape, [Next]_vars PROVE Shape'
  OBVIOUS
<1> USE DEF Shape
<1>1. ASSUME NEW mint \in Mints, NEW amount \in Targets, NEW duration \in Durations,
             Initialize(mint, amount, duration)
      PROVE  Shape'
  <2>1. carried' \in Nat
    BY <1>1, RecordAmountsType, RecordsFinite, TotalIsNat DEF Initialize
  <2>2. fundraiser' \in Campaign
    BY <1>1, AmountsAssumption DEF Initialize, Campaign, TypeOK
  <2>3. TypeOK'
    BY <1>1, <2>1, <2>2 DEF Initialize, TypeOK
  <2>4. VaultBacksTotal'
    BY <1>1, <2>2, NoAccountAssumption DEF Initialize, VaultBacksTotal, Open
  <2> QED
    BY <2>3, <2>4
<1>2. ASSUME NEW r \in Records, NEW amount \in Amounts, Contribute(r, amount)
      PROVE  Shape'
  <2>1. fundraiser \in Campaign /\ vault \in Nat /\ amount \in Nat /\ Signer(r) \in Wallets
    BY <1>2, AmountsAssumption
    DEF Contribute, TypeOK, VaultBacksTotal, Open, Wallets, Records, Signer
  <2>2. ata' \in [Wallets -> [Mints -> Nat]]
    <3>1. fundraiser.mint \in Mints
      BY <2>1 DEF Campaign
    <3>2. ata[Signer(r)][fundraiser.mint] \in Nat
      BY <2>1, <3>1 DEF TypeOK
    <3> QED
      BY <1>2, <2>1, <3>1, <3>2, CreditType DEF Contribute
  <2>3. fundraiser' \in Campaign
    BY <1>2, <2>1 DEF Contribute, Campaign
  <2>4. record' \in [Records -> Nat \cup {NoAccount}]
    BY <1>2, <2>1 DEF Contribute, TypeOK, RecordAmount
  <2>5. TypeOK'
    BY <1>2, <2>1, <2>2, <2>3, <2>4 DEF Contribute, TypeOK
  <2>6. VaultBacksTotal'
    BY <1>2, <2>1, <2>3, NoAccountAssumption
    DEF Contribute, VaultBacksTotal, Open, TypeOK, Campaign
  <2> QED
    BY <2>5, <2>6
<1>3. ASSUME NEW dst \in Wallets, CheckContributions(dst)
      PROVE  Shape'
  <2>1. fundraiser \in Campaign /\ vault \in Nat
    BY <1>3 DEF CheckContributions, TypeOK, VaultBacksTotal, Open
  <2>2. ata' \in [Wallets -> [Mints -> Nat]]
    <3>1. fundraiser.mint \in Mints
      BY <2>1 DEF Campaign
    <3>2. ata[dst][fundraiser.mint] \in Nat
      BY <3>1 DEF TypeOK
    <3> QED
      BY <1>3, <2>1, <3>1, <3>2, CreditType DEF CheckContributions
  <2>3. TypeOK'
    BY <1>3, <2>2 DEF CheckContributions, TypeOK
  <2>4. VaultBacksTotal'
    BY <1>3 DEF CheckContributions, VaultBacksTotal, Open
  <2> QED
    BY <2>3, <2>4
<1>4. ASSUME NEW r \in Records, NEW dst \in Wallets \cup {VaultAddress}, Refund(r, dst)
      PROVE  Shape'
  <2>1. /\ fundraiser \in Campaign /\ vault \in Nat /\ record[r] \in Nat
        /\ untracked \in Nat
    BY <1>4 DEF Refund, TypeOK, VaultBacksTotal, Open
  <2>2. ata' \in [Wallets -> [Mints -> Nat]]
    <3>1. fundraiser.mint \in Mints
      BY <2>1 DEF Campaign
    <3>2. CASE dst = VaultAddress
      BY <1>4, <3>2, WalletsAssumption DEF Refund, TypeOK
    <3>3. CASE dst \in Wallets
      <4>1. ata[dst][fundraiser.mint] \in Nat
        BY <3>1, <3>3 DEF TypeOK
      <4>2. ata' = Credit(dst, fundraiser.mint, record[r])
        BY <1>4, <3>3, WalletsAssumption DEF Refund
      <4> QED
        BY <2>1, <3>1, <3>3, <4>1, <4>2, CreditType
    <3> QED
      BY <3>2, <3>3
  <2>3. fundraiser' \in Campaign
    BY <1>4, <2>1 DEF Refund, Campaign
  <2>4. TypeOK'
    BY <1>4, <2>1, <2>2, <2>3 DEF Refund, TypeOK
  <2>5. VaultBacksTotal'
    BY <1>4, <2>1, <2>3, NoAccountAssumption, WalletsAssumption
    DEF Refund, VaultBacksTotal, Open, TypeOK, Campaign
  <2> QED
    BY <2>4, <2>5
<1>5. ASSUME NEW w \in Wallets, NEW amount \in Deposits, Deposit(w, amount)
      PROVE  Shape'
  <2>1. fundraiser \in Campaign /\ vault \in Nat /\ amount \in Nat
    BY <1>5, AmountsAssumption DEF Deposit, TypeOK, VaultBacksTotal, Open
  <2>2. ata' \in [Wallets -> [Mints -> Nat]]
    <3>1. fundraiser.mint \in Mints
      BY <2>1 DEF Campaign
    <3>2. ata[w][fundraiser.mint] \in Nat
      BY <3>1 DEF TypeOK
    <3> QED
      BY <1>5, <2>1, <3>1, <3>2, CreditType DEF Deposit
  <2>3. TypeOK'
    BY <1>5, <2>1, <2>2 DEF Deposit, TypeOK
  <2>4. VaultBacksTotal'
    BY <1>5, <2>1, NoAccountAssumption
    DEF Deposit, VaultBacksTotal, Open, TypeOK, Campaign
  <2> QED
    BY <2>3, <2>4
<1>6. ASSUME NEW time \in Instants, Tick(time)
      PROVE  Shape'
  BY <1>6, ClockAssumption DEF Tick, TypeOK, VaultBacksTotal, Open
<1>7. CASE UNCHANGED vars
  BY <1>7 DEF vars, TypeOK, VaultBacksTotal, Open
<1> QED
  BY <1>1, <1>2, <1>3, <1>4, <1>5, <1>6, <1>7 DEF Next

\* In every reachable state the accounts have their layout: in particular
\* refund never drives current_amount or the vault below zero.
THEOREM TypeCorrect == Spec => []TypeOK
<1>1. Shape => TypeOK
  BY DEF Shape
<1> QED
  BY <1>1, ShapeInit, ShapeStep, PTL DEF Spec

\* In every reachable state the vault exists exactly while the campaign does
\* and holds current_amount plus what nobody counted.
THEOREM VaultAlwaysBacksTotal == Spec => []VaultBacksTotal
<1>1. Shape => VaultBacksTotal
  BY DEF Shape
<1> QED
  BY <1>1, ShapeInit, ShapeStep, PTL DEF Spec

-------------------------------------------------------------------------------
(***************************************************************************)
(* What the records add up to.                                             *)
(***************************************************************************)
Books == Shape /\ RecordsMatchTotal

LEMMA BooksStep == Books /\ [Next]_vars => RecordsMatchTotal'
<1> SUFFICES ASSUME Books, [Next]_vars PROVE RecordsMatchTotal'
  OBVIOUS
<1> USE DEF Books, Shape
<1>0. /\ RecordAmounts \in [Records -> Nat]
      /\ Total(RecordAmounts) \in Nat
  BY RecordAmountsType, RecordsFinite, TotalIsNat
<1>1. ASSUME NEW mint \in Mints, NEW amount \in Targets, NEW duration \in Durations,
             Initialize(mint, amount, duration)
      PROVE  RecordsMatchTotal'
  <2>1. RecordAmounts' = RecordAmounts
    BY <1>1 DEF Initialize, RecordAmounts, RecordAmount
  <2>2. fundraiser'.currentAmount = 0
    BY <1>1 DEF Initialize
  <2> QED
    BY <1>0, <1>1, <2>1, <2>2 DEF Initialize, RecordsMatchTotal
<1>2. ASSUME NEW r \in Records, NEW amount \in Amounts, Contribute(r, amount)
      PROVE  RecordsMatchTotal'
  <2>1. fundraiser \in Campaign /\ amount \in Nat /\ carried \in Nat
    BY <1>2, AmountsAssumption DEF Contribute, TypeOK, Open
  <2>2. RecordAmount(r) + amount \in Nat
    BY <1>0, <2>1 DEF RecordAmounts
  <2>3. RecordAmounts' = [RecordAmounts EXCEPT ![r] = RecordAmount(r) + amount]
    BY <1>2, <2>2, NoAccountAssumption
    DEF Contribute, RecordAmounts, RecordAmount, TypeOK
  <2>4. RecordAmounts[r] = RecordAmount(r)
    BY DEF RecordAmounts
  <2>5. Total(RecordAmounts)' =
          Total(RecordAmounts) - RecordAmounts[r] + (RecordAmount(r) + amount)
    BY <1>0, <2>2, <2>3, RecordsFinite, TotalUpdate
  <2>6. Total(RecordAmounts)' = Total(RecordAmounts) + amount
    BY <1>0, <2>1, <2>2, <2>4, <2>5
  <2>7. fundraiser'.currentAmount = fundraiser.currentAmount + amount
    BY <1>2, <2>1 DEF Contribute, Campaign
  <2>8. Total(RecordAmounts) = fundraiser.currentAmount + carried
    BY <1>2 DEF Contribute, RecordsMatchTotal
  <2> QED
    BY <1>2, <2>1, <2>6, <2>7, <2>8 DEF Contribute, RecordsMatchTotal, Campaign
<1>3. ASSUME NEW dst \in Wallets, CheckContributions(dst)
      PROVE  RecordsMatchTotal'
  BY <1>3 DEF CheckContributions, RecordsMatchTotal, Open
<1>4. ASSUME NEW r \in Records, NEW dst \in Wallets \cup {VaultAddress}, Refund(r, dst)
      PROVE  RecordsMatchTotal'
  <2>1. fundraiser \in Campaign /\ record[r] \in Nat /\ carried \in Nat
    BY <1>4 DEF Refund, TypeOK, Open
  <2>2. RecordAmounts' = [RecordAmounts EXCEPT ![r] = 0]
    BY <1>4 DEF Refund, RecordAmounts, RecordAmount, TypeOK
  <2>3. RecordAmounts[r] = record[r]
    BY <2>1, NoAccountAssumption DEF RecordAmounts, RecordAmount
  <2>4. Total(RecordAmounts)' = Total(RecordAmounts) - RecordAmounts[r] + 0
    BY <1>0, <2>2, RecordsFinite, TotalUpdate, 0 \in Nat
  <2>5. Total(RecordAmounts)' = Total(RecordAmounts) - record[r]
    BY <1>0, <2>1, <2>3, <2>4
  <2>6. fundraiser'.currentAmount = fundraiser.currentAmount - record[r]
    BY <1>4, <2>1 DEF Refund, Campaign
  <2>7. Total(RecordAmounts) = fundraiser.currentAmount + carried
    BY <1>4 DEF Refund, RecordsMatchTotal
  <2> QED
    BY <1>4, <2>1, <2>5, <2>6, <2>7 DEF Refund, RecordsMatchTotal, Campaign
<1>5. ASSUME NEW w \in Wallets, NEW amount \in Deposits, Deposit(w, amount)
      PROVE  RecordsMatchTotal'
  BY <1>5 DEF Deposit, RecordsMatchTotal, Open, RecordAmounts, RecordAmount
<1>6. ASSUME NEW time \in Instants, Tick(time)
      PROVE  RecordsMatchTotal'
  BY <1>6 DEF Tick, RecordsMatchTotal, Open, RecordAmounts, RecordAmount
<1>7. CASE UNCHANGED vars
  BY <1>7 DEF vars, RecordsMatchTotal, Open, RecordAmounts, RecordAmount
<1> QED
  BY <1>1, <1>2, <1>3, <1>4, <1>5, <1>6, <1>7 DEF Next

LEMMA BooksInvariant == Spec => []Books
<1>1. Init => Books
  BY ShapeInit DEF Init, Books, RecordsMatchTotal, Open
<1>2. Books /\ [Next]_vars => Books'
  BY BooksStep, ShapeStep DEF Books
<1> QED
  BY <1>1, <1>2, PTL DEF Spec

\* While a campaign is open, the contributors' records add up to its
\* current_amount and what they already held when it was opened.
THEOREM RecordsAlwaysMatchTotal == Spec => []RecordsMatchTotal
<1>1. Books => RecordsMatchTotal
  BY DEF Books
<1> QED
  BY <1>1, BooksInvariant, PTL

\* The vault can pay back every record, up to what the maker's earlier
\* campaigns left in the records.
THEOREM AlwaysSolvent == Spec => []Solvent
<1>1. Books => Solvent
  <2> SUFFICES ASSUME Books, Open PROVE Total(RecordAmounts) <= vault + carried
    BY DEF Solvent
  <2>1. /\ fundraiser \in Campaign /\ untracked \in Nat /\ carried \in Nat
        /\ vault = fundraiser.currentAmount + untracked
        /\ Total(RecordAmounts) = fundraiser.currentAmount + carried
    BY DEF Books, Shape, TypeOK, VaultBacksTotal, RecordsMatchTotal, Open
  <2> QED
    BY <2>1 DEF Campaign
<1> QED
  BY <1>1, BooksInvariant, PTL

-------------------------------------------------------------------------------
(***************************************************************************)
(* Conservation of tokens, mint by mint.                                   *)
(***************************************************************************)
InVault(mint) == IF Open /\ fundraiser.mint = mint THEN vault ELSE 0

LEMMA HoldingsType ==
  ASSUME TypeOK, NEW mint \in Mints
  PROVE  /\ IsFiniteSet(Wallets)
         /\ Holdings(mint) \in [Wallets -> Nat]
         /\ Total(Holdings(mint)) \in Nat
<1>1. IsFiniteSet(Wallets)
  BY WalletsAssumption, FS_AddElement DEF Wallets
<1>2. Holdings(mint) \in [Wallets -> Nat]
  BY DEF TypeOK, Holdings
<1> QED
  BY <1>1, <1>2, TotalIsNat

\* A credit moves the total of its mint and of no other.
LEMMA HoldingsCredit ==
  ASSUME TypeOK, NEW w \in Wallets, NEW mint \in Mints, NEW amount \in Int,
         0 <= ata[w][mint] + amount, ata' = Credit(w, mint, amount),
         NEW m \in Mints
  PROVE  Total(Holdings(m))' =
           Total(Holdings(m)) + (IF m = mint THEN amount ELSE 0)
<1>1. /\ IsFiniteSet(Wallets)
      /\ Holdings(m) \in [Wallets -> Nat]
      /\ Total(Holdings(m)) \in Nat
  BY HoldingsType
<1>2. ata \in [Wallets -> [Mints -> Nat]] /\ ata[w] \in [Mints -> Nat]
  BY DEF TypeOK
<1>3. CASE m = mint
  <2>1. ata[w][mint] + amount \in Nat /\ ata[w][mint] \in Nat
    BY <1>2
  <2>2. Holdings(m)' = [Holdings(m) EXCEPT ![w] = ata[w][mint] + amount]
    BY <1>2, <1>3 DEF Holdings, Credit
  <2>3. Holdings(m)[w] = ata[w][mint]
    BY <1>3 DEF Holdings
  <2>4. Total([Holdings(m) EXCEPT ![w] = ata[w][mint] + amount]) =
          Total(Holdings(m)) - Holdings(m)[w] + (ata[w][mint] + amount)
    BY <1>1, <2>1, TotalUpdate
  <2>5. Total(Holdings(m))' = Total([Holdings(m) EXCEPT ![w] = ata[w][mint] + amount])
    BY <2>2
  <2> QED
    BY <1>1, <1>3, <2>1, <2>3, <2>4, <2>5
<1>4. CASE m # mint
  <2>1. Holdings(m)' = Holdings(m)
    BY <1>2, <1>4 DEF Holdings, Credit
  <2> QED
    BY <1>1, <1>4, <2>1
<1> QED
  BY <1>3, <1>4

LEMMA ConservedStep == Shape /\ TokensConserved /\ [Next]_vars => TokensConserved'
<1> SUFFICES ASSUME Shape, TokensConserved, [Next]_vars, NEW m \in Mints
             PROVE  Total(Holdings(m))' + InVault(m)' =
                      Total(Holdings(m)) + InVault(m)
  BY DEF TokensConserved, InVault
<1> USE DEF Shape
<1>0. Total(Holdings(m)) \in Nat
  BY HoldingsType
<1>1. ASSUME NEW mint \in Mints, NEW amount \in Targets, NEW duration \in Durations,
             Initialize(mint, amount, duration)
      PROVE  Total(Holdings(m))' + InVault(m)' = Total(Holdings(m)) + InVault(m)
  <2>1. Holdings(m)' = Holdings(m)
    BY <1>1 DEF Initialize, Holdings
  <2>2. InVault(m) = 0 /\ InVault(m)' = 0
    BY <1>1 DEF Initialize, InVault, Open
  <2> QED
    BY <2>1, <2>2
<1>2. ASSUME NEW r \in Records, NEW amount \in Amounts, Contribute(r, amount)
      PROVE  Total(Holdings(m))' + InVault(m)' = Total(Holdings(m)) + InVault(m)
  <2>1. /\ fundraiser \in Campaign /\ vault \in Nat /\ amount \in Nat
        /\ Signer(r) \in Wallets /\ fundraiser.mint \in Mints
    BY <1>2, AmountsAssumption
    DEF Contribute, TypeOK, VaultBacksTotal, Open, Wallets, Campaign, Records, Signer
  <2>2. ata[Signer(r)][fundraiser.mint] \in Nat
    BY <2>1 DEF TypeOK
  <2>3. Total(Holdings(m))' =
          Total(Holdings(m)) + (IF m = fundraiser.mint THEN -amount ELSE 0)
    BY <1>2, <2>1, <2>2, HoldingsCredit DEF Contribute
  <2>4. fundraiser' \in Campaign /\ fundraiser'.mint = fundraiser.mint
    BY <1>2, <2>1 DEF Contribute, Campaign
  <2>5. InVault(m)' = InVault(m) + (IF m = fundraiser.mint THEN amount ELSE 0)
    BY <1>2, <2>1, <2>4, NoAccountAssumption DEF Contribute, InVault, Open
  <2>6. InVault(m) \in Nat
    BY <2>1 DEF InVault
  <2> QED
    BY <1>0, <2>1, <2>3, <2>5, <2>6
<1>3. ASSUME NEW dst \in Wallets, CheckContributions(dst)
      PROVE  Total(Holdings(m))' + InVault(m)' = Total(Holdings(m)) + InVault(m)
  <2>1. fundraiser \in Campaign /\ vault \in Nat /\ fundraiser.mint \in Mints
    BY <1>3 DEF CheckContributions, TypeOK, VaultBacksTotal, Open, Campaign
  <2>2. ata[dst][fundraiser.mint] \in Nat
    BY <2>1 DEF TypeOK
  <2>3. Total(Holdings(m))' =
          Total(Holdings(m)) + (IF m = fundraiser.mint THEN vault ELSE 0)
    BY <1>3, <2>1, <2>2, HoldingsCredit DEF CheckContributions
  <2>4. /\ InVault(m)' = 0
        /\ InVault(m) = IF m = fundraiser.mint THEN vault ELSE 0
    BY <1>3 DEF CheckContributions, InVault, Open
  <2> QED
    BY <1>0, <2>1, <2>3, <2>4
<1>4. ASSUME NEW r \in Records, NEW dst \in Wallets \cup {VaultAddress}, Refund(r, dst)
      PROVE  Total(Holdings(m))' + InVault(m)' = Total(Holdings(m)) + InVault(m)
  <2>1. /\ fundraiser \in Campaign /\ vault \in Nat /\ record[r] \in Nat
        /\ fundraiser.mint \in Mints
    BY <1>4 DEF Refund, TypeOK, VaultBacksTotal, Open, Campaign
  <2>2. fundraiser' \in Campaign /\ fundraiser'.mint = fundraiser.mint
    BY <1>4, <2>1 DEF Refund, Campaign
  <2>3. CASE dst = VaultAddress
    <3>1. ata' = ata /\ vault' = vault
      BY <1>4, <2>3, WalletsAssumption DEF Refund
    <3>2. Holdings(m)' = Holdings(m) /\ InVault(m)' = InVault(m)
      BY <1>4, <2>2, <3>1, NoAccountAssumption DEF Refund, Holdings, InVault, Open
    <3> QED
      BY <3>2
  <2>4. CASE dst \in Wallets
    <3>1. /\ ata' = Credit(dst, fundraiser.mint, record[r])
          /\ vault' = vault - record[r]
      BY <1>4, <2>4, WalletsAssumption DEF Refund
    <3>2. ata[dst][fundraiser.mint] \in Nat
      BY <2>1, <2>4 DEF TypeOK
    <3>3. Total(Holdings(m))' =
            Total(Holdings(m)) + (IF m = fundraiser.mint THEN record[r] ELSE 0)
      BY <2>1, <2>4, <3>1, <3>2, HoldingsCredit
    <3>4. InVault(m)' = InVault(m) - (IF m = fundraiser.mint THEN record[r] ELSE 0)
      BY <1>4, <2>1, <2>2, <3>1, NoAccountAssumption DEF Refund, InVault, Open
    <3>5. InVault(m) \in Nat
      BY <2>1 DEF InVault
    <3> QED
      BY <1>0, <2>1, <3>3, <3>4, <3>5
  <2> QED
    BY <2>3, <2>4
<1>5. ASSUME NEW w \in Wallets, NEW amount \in Deposits, Deposit(w, amount)
      PROVE  Total(Holdings(m))' + InVault(m)' = Total(Holdings(m)) + InVault(m)
  <2>1. /\ fundraiser \in Campaign /\ vault \in Nat /\ amount \in Nat
        /\ fundraiser.mint \in Mints
    BY <1>5, AmountsAssumption DEF Deposit, TypeOK, VaultBacksTotal, Open, Campaign
  <2>2. ata[w][fundraiser.mint] \in Nat
    BY <2>1 DEF TypeOK
  <2>3. Total(Holdings(m))' =
          Total(Holdings(m)) + (IF m = fundraiser.mint THEN -amount ELSE 0)
    BY <1>5, <2>1, <2>2, HoldingsCredit DEF Deposit
  <2>4. InVault(m)' = InVault(m) + (IF m = fundraiser.mint THEN amount ELSE 0)
    BY <1>5, <2>1 DEF Deposit, InVault, Open
  <2>5. InVault(m) \in Nat
    BY <2>1 DEF InVault
  <2> QED
    BY <1>0, <2>1, <2>3, <2>4, <2>5
<1>6. ASSUME NEW time \in Instants, Tick(time)
      PROVE  Total(Holdings(m))' + InVault(m)' = Total(Holdings(m)) + InVault(m)
  BY <1>6 DEF Tick, Holdings, InVault, Open
<1>7. CASE UNCHANGED vars
  BY <1>7 DEF vars, Holdings, InVault, Open
<1> QED
  BY <1>1, <1>2, <1>3, <1>4, <1>5, <1>6, <1>7 DEF Next

\* No instruction mints or burns: for each mint, the wallets and the vault
\* together always hold the initial supply.
THEOREM TokensAlwaysConserved == Spec => []TokensConserved
<1>1. Init => TokensConserved
  <2> SUFFICES ASSUME Init, NEW m \in Mints
               PROVE  Total(Holdings(m)) + 0 =
                        Total([w \in Wallets |-> InitialBalance[w][m]])
    BY DEF TokensConserved, Init, Open
  <2>1. TypeOK
    BY ShapeInit DEF Shape
  <2>2. Holdings(m) = [w \in Wallets |-> InitialBalance[w][m]]
    BY DEF Init, Holdings
  <2> QED
    BY <2>1, <2>2, HoldingsType
<1> QED
  BY <1>1, ShapeInit, ShapeStep, ConservedStep, PTL DEF Spec

-------------------------------------------------------------------------------
(***************************************************************************)
(* The ten percent cap.                                                    *)
(***************************************************************************)
\* Inductive: in a campaign that inherited no records, no record exceeds the
\* cap; and a campaign has a target above zero.
CapHolds ==
  Open => /\ fundraiser.amountToRaise > 0
          /\ carried = 0 =>
               \A r \in Records :
                 RecordAmount(r) <= MaxContribution(fundraiser.amountToRaise)

\* The cap is the contributor's share of the target, rounded down.
LEMMA MaxContributionIsShare ==
  ASSUME NEW target \in Nat
  PROVE  /\ MaxContribution(target) \in Nat
         /\ PERCENTAGE_SCALER * MaxContribution(target)
              <= target * MAX_CONTRIBUTION_PERCENTAGE
<1>1. MAX_CONTRIBUTION_PERCENTAGE \in Nat
  BY PercentageAssumption DEF PERCENTAGE_SCALER
<1>2. target * MAX_CONTRIBUTION_PERCENTAGE \in Nat
  BY <1>1
<1>3. ASSUME NEW n \in Nat
      PROVE  n \div 100 \in Nat /\ 100 * (n \div 100) <= n
  OBVIOUS
<1> QED
  BY <1>2, <1>3 DEF MaxContribution, PERCENTAGE_SCALER

LEMMA CapStep == Shape /\ CapHolds /\ [Next]_vars => CapHolds'
<1> SUFFICES ASSUME Shape, CapHolds, [Next]_vars PROVE CapHolds'
  OBVIOUS
<1> USE DEF Shape
<1>0. RecordAmounts \in [Records -> Nat]
  BY RecordAmountsType
<1>1. ASSUME NEW mint \in Mints, NEW amount \in Targets, NEW duration \in Durations,
             Initialize(mint, amount, duration)
      PROVE  CapHolds'
  <2>1. fundraiser'.amountToRaise = amount /\ amount \in Nat
    BY <1>1, AmountsAssumption DEF Initialize
  <2>2. amount > 0
    BY <1>1, <2>1, DecimalsAssumption DEF Initialize
  <2>3. ASSUME carried' = 0, NEW r \in Records
        PROVE  RecordAmount(r)' <= MaxContribution(fundraiser'.amountToRaise)
    <3>1. Total(RecordAmounts) = 0
      BY <1>1, <2>3 DEF Initialize
    <3>2. RecordAmounts[r] = 0
      BY <1>0, <3>1, RecordsFinite, TotalZero
    <3>3. RecordAmount(r)' = 0
      BY <1>1, <3>2 DEF Initialize, RecordAmounts, RecordAmount
    <3> QED
      BY <2>1, <3>3, MaxContributionIsShare
  <2> QED
    BY <2>1, <2>2, <2>3 DEF CapHolds
<1>2. ASSUME NEW r \in Records, NEW amount \in Amounts, Contribute(r, amount)
      PROVE  CapHolds'
  <2>1. fundraiser \in Campaign /\ amount \in Nat
    BY <1>2, AmountsAssumption DEF Contribute, TypeOK, Open
  <2>2. fundraiser'.amountToRaise = fundraiser.amountToRaise
    BY <1>2, <2>1 DEF Contribute, Campaign
  <2>3. ASSUME carried = 0, NEW d \in Records
        PROVE  RecordAmount(d)' <= MaxContribution(fundraiser.amountToRaise)
    <3>1. RecordAmount(r) + amount \in Nat
      BY <1>0, <2>1 DEF RecordAmounts
    <3>2. RecordAmount(d)' =
            IF d = r THEN RecordAmount(r) + amount ELSE RecordAmount(d)
      BY <1>2, <3>1, NoAccountAssumption DEF Contribute, RecordAmount, TypeOK
    <3>3. RecordAmount(r) + amount <= MaxContribution(fundraiser.amountToRaise)
      BY <1>2 DEF Contribute
    <3>4. RecordAmount(d) <= MaxContribution(fundraiser.amountToRaise)
      BY <1>2, <2>3 DEF CapHolds, Contribute
    <3> QED
      BY <3>2, <3>3, <3>4
  <2> QED
    BY <1>2, <2>2, <2>3 DEF CapHolds, Contribute
<1>3. ASSUME NEW dst \in Wallets, CheckContributions(dst)
      PROVE  CapHolds'
  BY <1>3 DEF CheckContributions, CapHolds, Open
<1>4. ASSUME NEW r \in Records, NEW dst \in Wallets \cup {VaultAddress}, Refund(r, dst)
      PROVE  CapHolds'
  <2>1. fundraiser \in Campaign
    BY <1>4 DEF Refund, TypeOK, Open
  <2>2. fundraiser'.amountToRaise = fundraiser.amountToRaise
    BY <1>4, <2>1 DEF Refund, Campaign
  <2>3. ASSUME carried = 0, NEW d \in Records
        PROVE  RecordAmount(d)' <= MaxContribution(fundraiser.amountToRaise)
    <3>1. RecordAmount(d)' = IF d = r THEN 0 ELSE RecordAmount(d)
      BY <1>4 DEF Refund, RecordAmount, TypeOK
    <3>2. RecordAmount(d) <= MaxContribution(fundraiser.amountToRaise)
      BY <1>4, <2>3 DEF CapHolds, Refund
    <3>3. MaxContribution(fundraiser.amountToRaise) \in Nat
      BY <2>1, MaxContributionIsShare DEF Campaign
    <3> QED
      BY <3>1, <3>2, <3>3
  <2> QED
    BY <1>4, <2>2, <2>3 DEF CapHolds, Refund
<1>5. ASSUME NEW w \in Wallets, NEW amount \in Deposits, Deposit(w, amount)
      PROVE  CapHolds'
  BY <1>5 DEF Deposit, CapHolds, Open, RecordAmount
<1>6. ASSUME NEW time \in Instants, Tick(time)
      PROVE  CapHolds'
  BY <1>6 DEF Tick, CapHolds, Open, RecordAmount
<1>7. CASE UNCHANGED vars
  BY <1>7 DEF vars, CapHolds, Open, RecordAmount
<1> QED
  BY <1>1, <1>2, <1>3, <1>4, <1>5, <1>6, <1>7 DEF Next

\* n caps that reach the target are n shares that reach the whole.
LEMMA SharesReachWhole ==
  ASSUME NEW n \in Nat, NEW cap \in Nat, NEW target \in Nat, NEW share \in Nat,
         target > 0, 100 * cap <= target * share, n * cap >= target
  PROVE  n * share >= 100
<1> DEFINE whole == n * share
<1>1. whole \in Nat
  OBVIOUS
<1>2. n * (100 * cap) <= n * (target * share)
  <2>1. 100 * cap \in Nat /\ target * share \in Nat
    OBVIOUS
  <2>2. ASSUME NEW x \in Nat, NEW y \in Nat, x <= y PROVE n * x <= n * y
    BY <2>2
  <2> QED
    BY <2>1, <2>2
<1>3. /\ n * (100 * cap) = 100 * (n * cap)
      /\ n * (target * share) = target * whole
  OBVIOUS
<1>4. n * cap \in Nat
  OBVIOUS
<1>5. 100 * target <= target * whole
  <2>1. 100 * target <= 100 * (n * cap)
    BY <1>4
  <2>2. target * whole \in Nat
    BY <1>1
  <2> HIDE DEF whole
  <2> QED
    BY <1>2, <1>3, <1>4, <2>1, <2>2
<1>6. ASSUME whole < 100 PROVE FALSE
  <2>1. target * whole <= target * 99
    BY <1>1, <1>6
  <2> HIDE DEF whole
  <2> QED
    BY <1>1, <1>5, <2>1
<1> QED
  BY <1>1, <1>6

\* Each record is at most a cap, so the records that add up to the target are
\* as many as the caps that do.
LEMMA ManyRecords ==
  ASSUME Books, CapHolds
  PROVE  TargetNeedsManyRecords
<1> DEFINE backers == {r \in Records : record[r] # NoAccount}
           cap     == MaxContribution(fundraiser.amountToRaise)
<1> SUFFICES ASSUME Open, carried = 0, untracked = 0, vault >= fundraiser.amountToRaise
             PROVE  Cardinality(backers) * MAX_CONTRIBUTION_PERCENTAGE
                      >= PERCENTAGE_SCALER
  BY DEF TargetNeedsManyRecords
<1>1. /\ fundraiser \in Campaign /\ fundraiser.amountToRaise \in Nat
      /\ fundraiser.amountToRaise > 0
      /\ fundraiser.currentAmount \in Nat
      /\ Total(RecordAmounts) >= fundraiser.amountToRaise
  BY DEF Books, Shape, TypeOK, VaultBacksTotal, RecordsMatchTotal, CapHolds, Open,
         Campaign
<1>2. /\ cap \in Nat
      /\ 100 * cap <= fundraiser.amountToRaise * MAX_CONTRIBUTION_PERCENTAGE
  BY <1>1, MaxContributionIsShare DEF PERCENTAGE_SCALER
<1>3. RecordAmounts \in [Records -> Nat]
  BY RecordAmountsType DEF Books, Shape
<1>4. \A r \in Records : RecordAmounts[r] <= cap
  BY DEF CapHolds, RecordAmounts
<1>5. \A r \in Records \ backers : RecordAmounts[r] = 0
  BY DEF RecordAmounts, RecordAmount
<1> HIDE DEF cap
<1>6. /\ Cardinality(backers) \in Nat
      /\ Total(RecordAmounts) <= Cardinality(backers) * cap
  <2>1. backers \in SUBSET Records
    OBVIOUS
  <2> HIDE DEF backers
  <2> QED
    BY <1>2, <1>3, <1>4, <1>5, <2>1, RecordsFinite, TotalBound
<1>7. Cardinality(backers) * cap >= fundraiser.amountToRaise
  <2>1. Cardinality(backers) * cap \in Nat
    BY <1>2, <1>6
  <2>2. Total(RecordAmounts) \in Nat
    BY <1>3, RecordsFinite, TotalIsNat
  <2> QED
    BY <1>1, <1>6, <2>1, <2>2
<1>8. MAX_CONTRIBUTION_PERCENTAGE \in Nat
  BY PercentageAssumption DEF PERCENTAGE_SCALER
<1> HIDE DEF backers
<1> QED
  BY <1>1, <1>2, <1>6, <1>7, <1>8, SharesReachWhole DEF PERCENTAGE_SCALER

\* However many wallets and bumps there are and whatever a record may hold, a
\* target reached by contributions alone has as many records behind it as it
\* takes shares to make the whole: at least ten when a share is ten percent.
\* It says nothing of the wallets: one of them may hold all the records.
THEOREM TargetAlwaysNeedsManyRecords == Spec => []TargetNeedsManyRecords
<1>1. Init => CapHolds
  BY DEF Init, CapHolds, Open
<1>2. Books => Shape
  BY DEF Books
<1> QED
  BY <1>1, <1>2, CapStep, BooksInvariant, ManyRecords, PTL DEF Spec

-------------------------------------------------------------------------------
(***************************************************************************)
(* What a step may take out of the vault.                                  *)
(***************************************************************************)
LEMMA PayoutStep ==
  ASSUME Shape, [Next]_vars, NEW mint \in Mints
  PROVE  Payout(mint)
<1> USE DEF Shape
<1>0. /\ RecordAmounts \in [Records -> Nat]
      /\ Total(RecordAmounts) \in Nat
      /\ Total(Holdings(mint)) \in Nat
  BY RecordAmountsType, HoldingsType, RecordsFinite, TotalIsNat
<1>1. ASSUME NEW m \in Mints, NEW amount \in Targets, NEW duration \in Durations,
             Initialize(m, amount, duration)
      PROVE  Payout(mint)
  BY <1>1 DEF Initialize, Payout, Open
<1>2. ASSUME NEW r \in Records, NEW amount \in Amounts, Contribute(r, amount)
      PROVE  Payout(mint)
  <2>1. fundraiser \in Campaign /\ vault \in Nat /\ amount \in Nat
    BY <1>2, AmountsAssumption DEF Contribute, TypeOK, VaultBacksTotal, Open
  <2>2. fundraiser' \in Campaign
    BY <1>2, <2>1 DEF Contribute, Campaign
  <2>3. Open' /\ ~(vault' < vault)
    BY <1>2, <2>1, <2>2, NoAccountAssumption DEF Contribute, Open
  <2> QED
    BY <2>3 DEF Payout
<1>3. ASSUME NEW dst \in Wallets, CheckContributions(dst), fundraiser.mint = mint
      PROVE  Payout(mint)
  <2>1. vault \in Nat
    BY <1>3 DEF CheckContributions, TypeOK, VaultBacksTotal, Open
  <2>2. ata[dst][mint] \in Nat
    BY DEF TypeOK
  <2>3. Total(Holdings(mint))' = Total(Holdings(mint)) + vault
    BY <1>3, <2>1, <2>2, HoldingsCredit DEF CheckContributions
  <2>4. RecordAmounts' = RecordAmounts
    BY <1>3 DEF CheckContributions, RecordAmounts, RecordAmount
  <2>5. ~ Open' /\ vault >= fundraiser.amountToRaise
    BY <1>3 DEF CheckContributions, Open
  <2> QED
    BY <1>0, <2>1, <2>3, <2>4, <2>5 DEF Payout
<1>4. ASSUME NEW r \in Records, NEW dst \in Wallets \cup {VaultAddress}, Refund(r, dst),
             fundraiser.mint = mint
      PROVE  Payout(mint)
  <2>1. fundraiser \in Campaign /\ vault \in Nat /\ record[r] \in Nat
    BY <1>4 DEF Refund, TypeOK, VaultBacksTotal, Open
  <2>2. fundraiser' \in Campaign
    BY <1>4, <2>1 DEF Refund, Campaign
  <2>3. Open' /\ vault < fundraiser.amountToRaise
    BY <1>4, <2>2, NoAccountAssumption DEF Refund, Open
  <2>4. CASE dst = VaultAddress
    <3>1. ~(vault' < vault)
      BY <1>4, <2>1, <2>4, WalletsAssumption DEF Refund
    <3> QED
      BY <2>3, <3>1 DEF Payout
  <2>5. CASE dst \in Wallets
    <3>1. /\ ata' = Credit(dst, fundraiser.mint, record[r])
          /\ vault' = vault - record[r]
      BY <1>4, <2>5, WalletsAssumption DEF Refund
    <3>2. ata[dst][mint] \in Nat
      BY <2>5 DEF TypeOK
    <3>3. Total(Holdings(mint))' = Total(Holdings(mint)) + record[r]
      BY <1>4, <2>1, <2>5, <3>1, <3>2, HoldingsCredit
    <3>4. RecordAmounts' = [RecordAmounts EXCEPT ![r] = 0]
      BY <1>4 DEF Refund, RecordAmounts, RecordAmount, TypeOK
    <3>5. Total(RecordAmounts)' = Total(RecordAmounts) - RecordAmounts[r] + 0
      BY <1>0, <3>4, RecordsFinite, TotalUpdate, 0 \in Nat
    <3>6. RecordAmounts[r] = record[r]
      BY <2>1, NoAccountAssumption DEF RecordAmounts, RecordAmount
    <3> QED
      BY <1>0, <2>1, <2>3, <3>1, <3>3, <3>5, <3>6 DEF Payout
  <2> QED
    BY <2>4, <2>5
<1>5. ASSUME NEW w \in Wallets, NEW amount \in Deposits, Deposit(w, amount)
      PROVE  Payout(mint)
  <2>1. vault \in Nat /\ amount \in Nat
    BY <1>5, AmountsAssumption DEF Deposit, TypeOK, VaultBacksTotal, Open
  <2>2. Open' /\ ~(vault' < vault)
    BY <1>5, <2>1 DEF Deposit, Open
  <2> QED
    BY <2>2 DEF Payout
<1>6. ASSUME Open => (Open' /\ vault' = vault) PROVE Payout(mint)
  <2>1. Open => vault \in Nat
    BY DEF TypeOK, VaultBacksTotal, Open
  <2> QED
    BY <1>6, <2>1 DEF Payout
<1>7. CASE UNCHANGED vars
  BY <1>6, <1>7 DEF vars, Open
<1>8. ASSUME NEW time \in Instants, Tick(time)
      PROVE  Payout(mint)
  BY <1>6, <1>8 DEF Tick, Open
<1>9. CASE fundraiser.mint # mint
  BY <1>9 DEF Payout
<1> QED
  BY <1>1, <1>2, <1>3, <1>4, <1>5, <1>7, <1>8, <1>9 DEF Next

\* No step takes tokens out of the vault but a release of all of it, at or
\* above the target, or a refund below it that clears as much from the records.
THEOREM PayoutsAreAlwaysReleaseOrRefund == Spec => PayoutsAreReleaseOrRefund
<1>1. Shape /\ [Next]_vars => [\A mint \in Mints : Payout(mint)]_vars
  BY PayoutStep
<1> QED
  BY <1>1, ShapeInit, ShapeStep, PTL DEF Spec, PayoutsAreReleaseOrRefund

-------------------------------------------------------------------------------
(***************************************************************************)
(* When a contribution can be paid back.                                   *)
(***************************************************************************)
\* Inductive: a record is never empty, and one of a campaign that inherited
\* none was written on the last day or later.
Window ==
  /\ \A r \in Records : record[r] # NoAccount => record[r] > 0
  /\ Open => /\ fundraiser.timeStarted <= now
             /\ carried = 0 =>
                  \A r \in Records :
                    record[r] # NoAccount => fundraiser.duration <= WholeDays

LEMMA DaysMonotonic ==
  ASSUME NEW s \in Nat, NEW t \in Nat, s <= t
  PROVE  /\ s \div SECONDS_TO_DAYS \in Nat
         /\ s \div SECONDS_TO_DAYS <= t \div SECONDS_TO_DAYS
BY DEF SECONDS_TO_DAYS

LEMMA ByteOfDays ==
  ASSUME NEW days \in Nat
  PROVE  /\ days % 256 <= days
         /\ days < 256 => days % 256 = days
OBVIOUS

LEMMA WindowStep == Shape /\ Window /\ [Next]_vars => Window'
<1> SUFFICES ASSUME Shape, Window, [Next]_vars PROVE Window'
  OBVIOUS
<1> USE DEF Shape
<1>0. RecordAmounts \in [Records -> Nat]
  BY RecordAmountsType
<1>1. ASSUME NEW mint \in Mints, NEW amount \in Targets, NEW duration \in Durations,
             Initialize(mint, amount, duration)
      PROVE  Window'
  <2>1. fundraiser'.timeStarted = now /\ now' = now /\ record' = record /\ now \in Nat
    BY <1>1 DEF Initialize, TypeOK
  <2>2. ASSUME carried' = 0, NEW r \in Records PROVE record[r] = NoAccount
    <3>1. Total(RecordAmounts) = 0
      BY <1>1, <2>2 DEF Initialize
    <3>2. RecordAmounts[r] = 0
      BY <1>0, <3>1, RecordsFinite, TotalZero
    <3> QED
      BY <2>2, <3>2 DEF Window, RecordAmounts, RecordAmount
  <2> QED
    BY <2>1, <2>2 DEF Window
<1>2. ASSUME NEW r \in Records, NEW amount \in Amounts, Contribute(r, amount)
      PROVE  Window'
  <2>1. /\ fundraiser \in Campaign /\ amount \in Nat /\ now \in Nat
        /\ RecordAmount(r) \in Nat
    BY <1>0, <1>2, AmountsAssumption DEF Contribute, TypeOK, Open, RecordAmounts
  <2>2. /\ fundraiser'.timeStarted = fundraiser.timeStarted
        /\ fundraiser'.duration = fundraiser.duration
        /\ now' = now /\ carried' = carried
        /\ Open /\ fundraiser.timeStarted <= now
    BY <1>2, <2>1 DEF Contribute, Campaign, Window
  <2>3. WholeDays' = WholeDays
    BY <2>2 DEF WholeDays
  <2>4. fundraiser.duration <= WholeDays
    <3>1. now - fundraiser.timeStarted \in Nat
      BY <2>1, <2>2 DEF Campaign
    <3>2. WholeDays \in Nat
      BY <3>1, DaysMonotonic DEF WholeDays
    <3>3. fundraiser.duration <= WholeDays % 256 /\ fundraiser.duration \in Nat
      BY <1>2, <2>1 DEF Contribute, ElapsedDays, Campaign
    <3> HIDE DEF WholeDays
    <3> QED
      BY <3>2, <3>3, ByteOfDays
  <2>5. \A d \in Records :
          record'[d] = IF d = r THEN RecordAmount(r) + amount ELSE record[d]
    BY <1>2 DEF Contribute, TypeOK
  <2>6. RecordAmount(r) + amount > 0
    BY <1>2, <2>1 DEF Contribute
  <2> QED
    BY <2>2, <2>3, <2>4, <2>5, <2>6 DEF Window
<1>3. ASSUME NEW dst \in Wallets, CheckContributions(dst)
      PROVE  Window'
  BY <1>3 DEF CheckContributions, Window, Open
<1>4. ASSUME NEW r \in Records, NEW dst \in Wallets \cup {VaultAddress}, Refund(r, dst)
      PROVE  Window'
  <2>1. fundraiser \in Campaign
    BY <1>4 DEF Refund, TypeOK, Open
  <2>2. /\ fundraiser'.timeStarted = fundraiser.timeStarted
        /\ fundraiser'.duration = fundraiser.duration
        /\ now' = now /\ carried' = carried /\ Open
    BY <1>4, <2>1 DEF Refund, Campaign
  <2>3. WholeDays' = WholeDays
    BY <2>2 DEF WholeDays
  <2>4. \A d \in Records :
          record'[d] = IF d = r THEN NoAccount ELSE record[d]
    BY <1>4 DEF Refund, TypeOK
  <2> QED
    BY <2>2, <2>3, <2>4 DEF Window
<1>5. ASSUME NEW w \in Wallets, NEW amount \in Deposits, Deposit(w, amount)
      PROVE  Window'
  BY <1>5 DEF Deposit, Window, Open, WholeDays
<1>6. ASSUME NEW time \in Instants, Tick(time)
      PROVE  Window'
  <2>1. /\ now' = time /\ now < time /\ now \in Nat /\ time \in Nat
        /\ fundraiser' = fundraiser /\ record' = record /\ carried' = carried
    BY <1>6, ClockAssumption DEF Tick, TypeOK
  <2>2. ASSUME Open
        PROVE  /\ fundraiser.timeStarted <= time
               /\ WholeDays \in Nat /\ WholeDays' \in Nat
               /\ WholeDays <= WholeDays'
               /\ fundraiser.duration \in Nat
    <3>1. fundraiser \in Campaign /\ fundraiser.timeStarted <= now
      BY <2>2 DEF TypeOK, Open, Window
    <3>2. /\ now - fundraiser.timeStarted \in Nat
          /\ time - fundraiser.timeStarted \in Nat
          /\ now - fundraiser.timeStarted <= time - fundraiser.timeStarted
      BY <2>1, <3>1 DEF Campaign
    <3>3. WholeDays' = (time - fundraiser.timeStarted) \div SECONDS_TO_DAYS
      BY <2>1 DEF WholeDays
    <3>4. /\ (time - fundraiser.timeStarted) \div SECONDS_TO_DAYS \in Nat
          /\ (now - fundraiser.timeStarted) \div SECONDS_TO_DAYS \in Nat
          /\ (now - fundraiser.timeStarted) \div SECONDS_TO_DAYS
               <= (time - fundraiser.timeStarted) \div SECONDS_TO_DAYS
      BY <3>2, DaysMonotonic
    <3>5. WholeDays = (now - fundraiser.timeStarted) \div SECONDS_TO_DAYS
      BY DEF WholeDays
    <3>6. fundraiser.timeStarted <= time /\ fundraiser.duration \in Nat
      BY <2>1, <3>1 DEF Campaign
    <3> HIDE DEF WholeDays, Window, Shape, SECONDS_TO_DAYS
    <3> QED
      BY <3>3, <3>4, <3>5, <3>6
  <2>3. Open' <=> Open
    BY <2>1 DEF Open
  <2> QED
    BY <2>1, <2>2, <2>3 DEF Window
<1>7. CASE UNCHANGED vars
  BY <1>7 DEF vars, Window, Open, WholeDays
<1> QED
  BY <1>1, <1>2, <1>3, <1>4, <1>5, <1>6, <1>7 DEF Next

LEMMA RefundDay ==
  ASSUME Shape, Window, [Next]_vars, NEW r \in Records,
         Open, carried = 0, record[r] # NoAccount, record'[r] = NoAccount
  PROVE  WholeDays = fundraiser.duration \/ WholeDays >= 256
<1> USE DEF Shape
<1>1. \E d \in Records, dst \in Wallets \cup {VaultAddress} : Refund(d, dst)
  <2>1. ASSUME NEW e \in Records, NEW amount \in Amounts, Contribute(e, amount)
        PROVE  FALSE
    <3>1. RecordAmount(e) + amount \in Nat
      BY <2>1, RecordAmountsType, AmountsAssumption DEF RecordAmounts
    <3>2. record'[r] = IF r = e THEN RecordAmount(e) + amount ELSE record[r]
      BY <2>1 DEF Contribute, TypeOK
    <3> QED
      BY <3>1, <3>2, NoAccountAssumption
  <2>2. record' # record
    OBVIOUS
  <2> QED
    BY <2>1, <2>2
    DEF Next, vars, Initialize, CheckContributions, Deposit, Tick
<1>2. /\ fundraiser \in Campaign /\ now \in Nat
      /\ fundraiser.timeStarted <= now /\ fundraiser.duration <= WholeDays
  BY DEF TypeOK, Open, Window
<1>3. now - fundraiser.timeStarted \in Nat
  BY <1>2 DEF Campaign
<1>4. WholeDays \in Nat
  BY <1>3, DaysMonotonic DEF WholeDays
<1>5. fundraiser.duration >= WholeDays % 256 /\ fundraiser.duration \in Nat
  BY <1>1, <1>2 DEF Refund, ElapsedDays, Campaign
<1> HIDE DEF WholeDays
<1> QED
  BY <1>2, <1>4, <1>5, ByteOfDays

\* A contribution to this campaign is paid back on the campaign's last day, or
\* else not before the day counter wraps.
THEOREM RefundsAreOnLastDayOnly == Spec => RefundsOnLastDayOnly
<1>1. Init => Window
  BY DEF Init, Window, Open
<1>2. Shape /\ Window /\ [Next]_vars =>
        [\A r \in Records :
           Open /\ carried = 0 /\ record[r] # NoAccount /\ record'[r] = NoAccount
             => WholeDays = fundraiser.duration \/ WholeDays >= 256]_vars
  BY RefundDay
<1> QED
  BY <1>1, <1>2, ShapeInit, ShapeStep, WindowStep, PTL
  DEF Spec, RefundsOnLastDayOnly
===============================================================================
