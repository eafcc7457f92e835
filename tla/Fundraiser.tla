------------------------------ MODULE Fundraiser ------------------------------
(***************************************************************************)
(* The Pinocchio fundraiser program (src/pin-fundraiser).                  *)
(*                                                                         *)
(* Every account of one maker's campaign is a program-derived address, so  *)
(* maker, contributor and bump fix an address, and every later campaign at *)
(* the maker's address uses the same addresses again.  The bump is an      *)
(* input that nothing compares with the canonical one: a contributor has   *)
(* one record address for EACH bump that derives one.  The module models   *)
(* one campaign address (those of other makers, or of the maker's other    *)
(* bumps, share no account with it but the wallets), the token accounts    *)
(* that feed it and the cluster clock.                                     *)
(*                                                                         *)
(* An instruction is atomic: a transaction that returns an error changes   *)
(* nothing, so the early returns of a handler are the negated guards of    *)
(* its action.                                                             *)
(***************************************************************************)
EXTENDS Integers, FiniteSets, TokenUnits

CONSTANTS
  Maker,            \* the wallet that opens the campaigns
  Contributors,     \* the wallets that sign contribute and refund
  Bumps,            \* the bumps that derive a record address
  VaultAddress,     \* the vault, as the token account passed to refund
  Mints,            \* the SPL mints a campaign may raise
  Decimals,         \* [Mints -> Nat], the decimals of a mint
  InitialBalance,   \* [Wallets -> [Mints -> Nat]], the token accounts
  MaxU64,           \* the largest u64
  Targets,          \* the amounts passed to initialize
  Durations,        \* the durations passed to initialize, a u8 of days
  Amounts,          \* the amounts passed to contribute
  Deposits,         \* the amounts of direct transfers to the vault
  MAX_CONTRIBUTION_PERCENTAGE,  \* a contributor's share of the target: 10 in
                    \* the program; a larger one needs fewer contributors
  Instants,         \* bound: the times the clock shows, in seconds
  MaxCampaigns,     \* bound: campaigns the maker opens
  NoAccount         \* an address that holds no account

\* The Fundraiser account; its maker, vault and bump fields are fixed by the
\* addresses.
Campaign ==
  [mint : Mints, amountToRaise : Nat, currentAmount : Nat,
   timeStarted : Nat, duration : 0 .. 255]

Wallets == Contributors \cup {Maker}

\* The addresses of the contributors' records, each that of one wallet.
Records == Contributors \X Bumps

Signer(r) == r[1]

ASSUME WalletsAssumption ==
  /\ IsFiniteSet(Contributors)
  /\ IsFiniteSet(Bumps)
  /\ VaultAddress \notin Wallets

ASSUME AmountsAssumption ==
  /\ MaxU64 \in Nat
  /\ Targets \subseteq 0 .. MaxU64
  /\ Amounts \subseteq 0 .. MaxU64
  /\ Deposits \subseteq 1 .. MaxU64
  /\ Durations \subseteq 0 .. 255
  /\ InitialBalance \in [Wallets -> [Mints -> Nat]]

ASSUME ClockAssumption == Instants \subseteq Nat

ASSUME BoundsAssumption == MaxCampaigns \in Nat

ASSUME NoAccountAssumption == NoAccount \notin Nat \cup Campaign

VARIABLES
  now,          \* Clock::get()?.unix_timestamp
  fundraiser,   \* the Fundraiser account, or NoAccount
  vault,        \* the amount of the vault token account, or NoAccount
  record,       \* the Contributor account at each address, or NoAccount
  ata,          \* the token accounts of the wallets, per mint
  opened,       \* history: campaigns opened so far
  untracked,    \* history: what this campaign's vault was given that
                \* current_amount does not count
  carried       \* history: what the records held when this campaign opened

vars == <<now, fundraiser, vault, record, ata, opened, untracked, carried>>

-------------------------------------------------------------------------------
(***************************************************************************)
(* Constants and arithmetic of the program.                                *)
(***************************************************************************)
MIN_AMOUNT_TO_RAISE == 3
SECONDS_TO_DAYS     == 86400
PERCENTAGE_SCALER   == 100

ASSUME PercentageAssumption ==
  MAX_CONTRIBUTION_PERCENTAGE \in 1 .. PERCENTAGE_SCALER

\* 3.pow(decimals), the target a campaign must exceed.
MinAmount(mint) == MIN_AMOUNT_TO_RAISE ^ Decimals[mint]

\* The whole days since the campaign started, and what `as u8` leaves of them.
WholeDays == (now - fundraiser.timeStarted) \div SECONDS_TO_DAYS

ElapsedDays == WholeDays % 256

\* checked_pow of a small base: always a positive number.
ASSUME DecimalsAssumption ==
  \A mint \in Mints : MinAmount(mint) \in Nat \ {0}

\* What one contributor may give in all, a floor division.
MaxContribution(target) ==
  (target * MAX_CONTRIBUTION_PERCENTAGE) \div PERCENTAGE_SCALER

Open == fundraiser # NoAccount

\* The running total of a record; an absent one counts for nothing.
RecordAmount(r) == IF record[r] = NoAccount THEN 0 ELSE record[r]

RecordAmounts == [r \in Records |-> RecordAmount(r)]

\* The token accounts of one mint.
Holdings(mint) == [w \in Wallets |-> ata[w][mint]]

\* A token account after receiving amount (or sending -amount).
Credit(w, mint, amount) == [ata EXCEPT ![w][mint] = @ + amount]

-------------------------------------------------------------------------------
Init ==
  /\ now = 0
  /\ fundraiser = NoAccount
  /\ vault = NoAccount
  /\ record = [r \in Records |-> NoAccount]
  /\ ata = InitialBalance
  /\ opened = 0
  /\ untracked = 0
  /\ carried = 0

(***************************************************************************)
(* Faulty variants: what a plausible slip would make of the instructions   *)
(* below.  No specification uses them; TLC refutes each property for one.  *)
(***************************************************************************)

\* The cap is compared with this call's amount only.
Contribute_CapPerCall(r, amount) ==
  /\ Open
  /\ amount > 1
  /\ amount <= MaxContribution(fundraiser.amountToRaise)
  /\ fundraiser.duration <= ElapsedDays
  /\ amount <= ata[Signer(r)][fundraiser.mint]
  /\ ata' = Credit(Signer(r), fundraiser.mint, -amount)
  /\ vault' = vault + amount
  /\ fundraiser' = [fundraiser EXCEPT !.currentAmount = @ + amount]
  /\ record' = [record EXCEPT ![r] = RecordAmount(r) + amount]
  /\ UNCHANGED <<now, opened, untracked, carried>>

\* The time check is left out.
Contribute_AnyDay(r, amount) ==
  /\ Open
  /\ amount > 1
  /\ RecordAmount(r) + amount <= MaxContribution(fundraiser.amountToRaise)
  /\ amount <= ata[Signer(r)][fundraiser.mint]
  /\ ata' = Credit(Signer(r), fundraiser.mint, -amount)
  /\ vault' = vault + amount
  /\ fundraiser' = [fundraiser EXCEPT !.currentAmount = @ + amount]
  /\ record' = [record EXCEPT ![r] = RecordAmount(r) + amount]
  /\ UNCHANGED <<now, opened, untracked, carried>>

\* The record is overwritten with this call's amount.
Contribute_Overwrites(r, amount) ==
  /\ Open
  /\ amount > 1
  /\ RecordAmount(r) + amount <= MaxContribution(fundraiser.amountToRaise)
  /\ fundraiser.duration <= ElapsedDays
  /\ amount <= ata[Signer(r)][fundraiser.mint]
  /\ ata' = Credit(Signer(r), fundraiser.mint, -amount)
  /\ vault' = vault + amount
  /\ fundraiser' = [fundraiser EXCEPT !.currentAmount = @ + amount]
  /\ record' = [record EXCEPT ![r] = amount]
  /\ UNCHANGED <<now, opened, untracked, carried>>

\* Pays out the tracked total, not the balance, and closes the vault.
Check_PaysTotal(dst) ==
  /\ Open
  /\ vault >= fundraiser.amountToRaise
  /\ ata' = Credit(dst, fundraiser.mint, fundraiser.currentAmount)
  /\ vault' = NoAccount
  /\ fundraiser' = NoAccount
  /\ UNCHANGED <<now, record, opened, untracked, carried>>

\* An off-by-one in the test of the target.
Check_OneShort(dst) ==
  /\ Open
  /\ vault + 1 >= fundraiser.amountToRaise
  /\ ata' = Credit(dst, fundraiser.mint, vault)
  /\ vault' = NoAccount
  /\ fundraiser' = NoAccount
  /\ UNCHANGED <<now, record, opened, untracked, carried>>

\* The slips of refund are in what it writes to the total.
Refund_Total(r, dst, total) ==
  /\ Open
  /\ fundraiser.duration >= ElapsedDays
  /\ vault < fundraiser.amountToRaise
  /\ record[r] # NoAccount
  /\ record[r] <= vault
  /\ \/ /\ dst = VaultAddress
        /\ untracked' = untracked + record[r]
        /\ UNCHANGED <<ata, vault>>
     \/ /\ dst \in Wallets
        /\ ata' = Credit(dst, fundraiser.mint, record[r])
        /\ vault' = vault - record[r]
        /\ UNCHANGED untracked
  /\ fundraiser' = [fundraiser EXCEPT !.currentAmount = total]
  /\ record' = [record EXCEPT ![r] = NoAccount]
  /\ UNCHANGED <<now, opened, carried>>

\* The subtraction from the total is not checked.
Refund_Unchecked(r, dst) ==
  Refund_Total(r, dst, fundraiser.currentAmount - record[r])

\* The total is not updated.
Refund_KeepsTotal(r, dst) ==
  Refund_Total(r, dst, fundraiser.currentAmount)

-------------------------------------------------------------------------------
(***************************************************************************)
(* initialize: both PDAs are created by CPIs that fail when the account    *)
(* exists, then the state is written.                                      *)
(***************************************************************************)
Initialize(mint, amount, duration) ==
  /\ opened < MaxCampaigns
  /\ MinAmount(mint) <= MaxU64
  /\ amount > MinAmount(mint)
  /\ fundraiser = NoAccount
  /\ vault = NoAccount
  /\ fundraiser' = [mint |-> mint, amountToRaise |-> amount,
                    currentAmount |-> 0, timeStarted |-> now,
                    duration |-> duration]
  /\ vault' = 0
  /\ opened' = opened + 1
  /\ untracked' = 0
  /\ carried' = Total(RecordAmounts)
  /\ UNCHANGED <<now, record, ata>>

(***************************************************************************)
(* contribute.  The cap is compared with the running total of the record   *)
(* passed, a new one starting at zero; the transfer needs the signer's     *)
(* tokens; the totals are updated after it.                                *)
(***************************************************************************)
Contribute(r, amount) ==
  /\ Open
  /\ fundraiser.amountToRaise * MAX_CONTRIBUTION_PERCENTAGE <= MaxU64
  /\ amount > 1
  /\ amount <= MaxContribution(fundraiser.amountToRaise)
  /\ fundraiser.duration <= ElapsedDays
  /\ RecordAmount(r) + amount <= MaxContribution(fundraiser.amountToRaise)
  /\ amount <= ata[Signer(r)][fundraiser.mint]
  /\ fundraiser.currentAmount + amount <= MaxU64
  /\ ata' = Credit(Signer(r), fundraiser.mint, -amount)
  /\ vault' = vault + amount
  /\ fundraiser' = [fundraiser EXCEPT !.currentAmount = @ + amount]
  /\ record' = [record EXCEPT ![r] = RecordAmount(r) + amount]
  /\ UNCHANGED <<now, opened, untracked, carried>>

(***************************************************************************)
(* check_contributions: the test is on the balance of the vault, not on    *)
(* current_amount.  Vault and campaign are closed; the contributors'       *)
(* records are not touched.  dst is the token account the maker passes;    *)
(* not the vault, which a transfer to itself would leave full and a full   *)
(* account cannot be closed.                                               *)
(***************************************************************************)
CheckContributions(dst) ==
  /\ Open
  /\ vault >= fundraiser.amountToRaise
  /\ ata' = Credit(dst, fundraiser.mint, vault)
  /\ vault' = NoAccount
  /\ fundraiser' = NoAccount
  /\ UNCHANGED <<now, record, opened, untracked, carried>>

(***************************************************************************)
(* refund: pays out the whole record and closes it.  The vault stays open. *)
(* The destination is not checked.  It may be the vault itself: SPL asks   *)
(* for the balance, and then a transfer to oneself moves nothing.          *)
(***************************************************************************)
Refund(r, dst) ==
  /\ Open
  /\ fundraiser.duration >= ElapsedDays
  /\ vault < fundraiser.amountToRaise
  /\ record[r] # NoAccount
  /\ record[r] <= vault
  /\ record[r] <= fundraiser.currentAmount
  /\ \/ /\ dst = VaultAddress
        /\ untracked' = untracked + record[r]
        /\ UNCHANGED <<ata, vault>>
     \/ /\ dst \in Wallets
        /\ ata' = Credit(dst, fundraiser.mint, record[r])
        /\ vault' = vault - record[r]
        /\ UNCHANGED untracked
  /\ fundraiser' = [fundraiser EXCEPT !.currentAmount = @ - record[r]]
  /\ record' = [record EXCEPT ![r] = NoAccount]
  /\ UNCHANGED <<now, opened, carried>>

(***************************************************************************)
(* External: anyone may transfer tokens straight to the vault; the program *)
(* does not see it (its own test funds the vault this way).                *)
(***************************************************************************)
Deposit(w, amount) ==
  /\ Open
  /\ amount <= ata[w][fundraiser.mint]
  /\ ata' = Credit(w, fundraiser.mint, -amount)
  /\ vault' = vault + amount
  /\ untracked' = untracked + amount
  /\ UNCHANGED <<now, fundraiser, record, opened, carried>>

\* External: the cluster clock advances.
Tick(time) ==
  /\ now < time
  /\ now' = time
  /\ UNCHANGED <<fundraiser, vault, record, ata, opened, untracked, carried>>

Next ==
  \/ \E mint \in Mints, amount \in Targets, duration \in Durations :
        Initialize(mint, amount, duration)
  \/ \E r \in Records, amount \in Amounts : Contribute(r, amount)
  \/ \E dst \in Wallets : CheckContributions(dst)
  \/ \E r \in Records, dst \in Wallets \cup {VaultAddress} : Refund(r, dst)
  \/ \E w \in Wallets, amount \in Deposits : Deposit(w, amount)
  \/ \E time \in Instants : Tick(time)

Spec == Init /\ [][Next]_vars

-------------------------------------------------------------------------------
(***************************************************************************)
(* Properties.                                                             *)
(***************************************************************************)
\* Every account has its layout: no total ever leaves the range of an
\* unsigned integer, whatever the order of contributions, refunds and
\* releases, although refund subtracts a record of unknown origin.
TypeOK ==
  /\ now \in Nat
  /\ fundraiser \in Campaign \cup {NoAccount}
  /\ vault \in Nat \cup {NoAccount}
  /\ record \in [Records -> Nat \cup {NoAccount}]
  /\ ata \in [Wallets -> [Mints -> Nat]]
  /\ opened \in Nat
  /\ untracked \in Nat
  /\ carried \in Nat

\* The vault account exists exactly while the campaign does, and holds what
\* current_amount records plus what nobody counted: direct deposits, and the
\* refunds paid to the vault itself, which take from the total and from the
\* records but leave the tokens where they are.
VaultBacksTotal ==
  /\ vault = NoAccount <=> fundraiser = NoAccount
  /\ Open => vault = fundraiser.currentAmount + untracked

\* The contributors' records add up to current_amount plus what they already
\* held when the campaign was opened: check_contributions leaves the records
\* behind, and the maker's next campaign inherits them.
RecordsMatchTotal ==
  Open => Total(RecordAmounts) = fundraiser.currentAmount + carried

\* No step mints or burns tokens: what left the wallets is in the vault.
TokensConserved ==
  \A mint \in Mints :
    Total(Holdings(mint))
      + (IF Open /\ fundraiser.mint = mint THEN vault ELSE 0)
        = Total([w \in Wallets |-> InitialBalance[w][mint]])

\* The vault can pay every record back in full, whichever contributors are
\* refunded first, except for what the records held before the campaign.
Solvent == Open => Total(RecordAmounts) <= vault + carried

\* The cap binds each record: a target reached by contributions alone has as
\* many records behind it as it takes shares to make the whole, ten with ten
\* percent, however the contributions were split and whatever was refunded on
\* the way.  Not as many contributors: a wallet that passes another bump opens
\* another record with the whole cap, so one wallet can hold them all.
TargetNeedsManyRecords ==
  Open /\ carried = 0 /\ untracked = 0 /\ vault >= fundraiser.amountToRaise
    => Cardinality({r \in Records : record[r] # NoAccount})
         * MAX_CONTRIBUTION_PERCENTAGE >= PERCENTAGE_SCALER

\* Tokens leave the vault in two ways only: the whole balance goes to a wallet
\* once it reaches the target, or, while it is below the target, an amount
\* that the contributors' records lose in the same step.
Payout(mint) ==
  Open /\ fundraiser.mint = mint /\ (Open' => vault' < vault) =>
    LET received == Total(Holdings(mint))' - Total(Holdings(mint))
        cleared  == Total(RecordAmounts) - Total(RecordAmounts)'
    IN  IF Open'
        THEN /\ vault < fundraiser.amountToRaise
             /\ received = cleared
             /\ cleared = vault - vault'
        ELSE /\ vault >= fundraiser.amountToRaise
             /\ received = vault
             /\ cleared = 0

PayoutsAreReleaseOrRefund == [][\A mint \in Mints : Payout(mint)]_vars

\* Contributing opens on the last day of the campaign and refunding closes
\* after it: what was contributed to this campaign is paid back on that one day
\* or never, until the day counter wraps after 256 days.
RefundsOnLastDayOnly ==
  [][\A r \in Records :
       Open /\ carried = 0 /\ record[r] # NoAccount /\ record'[r] = NoAccount
         => WholeDays = fundraiser.duration \/ WholeDays >= 256]_vars

===============================================================================
