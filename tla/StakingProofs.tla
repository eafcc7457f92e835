----------------------------- MODULE StakingProofs -----------------------------
(***************************************************************************)
(* Theorems about Staking, for every set of wallets and assets, every rate *)
(* and freeze period, every length of a day and any number of stakes.      *)
(***************************************************************************)
EXTENDS Staking, FiniteSetTheorems, TLAPS

-------------------------------------------------------------------------------
(***************************************************************************)
(* Whole days.                                                             *)
(***************************************************************************)
\* The whole days of a duration are the one number whose days fit into it and
\* leave less than a day over.
LEMMA WholeDaysBounds ==
  ASSUME NEW d \in Nat
  PROVE  /\ WholeDays(d) \in Nat
         /\ WholeDays(d) * SECONDS_PER_DAY <= d
         /\ d < WholeDays(d) * SECONDS_PER_DAY + SECONDS_PER_DAY
BY DayAssumption DEF WholeDays

LEMMA WholeDaysUnique ==
  ASSUME NEW d \in Nat, NEW n \in Nat,
         n * SECONDS_PER_DAY <= d, d < n * SECONDS_PER_DAY + SECONDS_PER_DAY
  PROVE  WholeDays(d) = n
<1> DEFINE q == WholeDays(d)
<1>1. /\ q \in Nat /\ q * SECONDS_PER_DAY <= d
      /\ d < q * SECONDS_PER_DAY + SECONDS_PER_DAY
  BY WholeDaysBounds
<1>2. ASSUME NEW i \in Nat, NEW j \in Nat, i < j
      PROVE  i * SECONDS_PER_DAY + SECONDS_PER_DAY <= j * SECONDS_PER_DAY
  <2>1. (j - i - 1) * SECONDS_PER_DAY >= 0
    BY <1>2, DayAssumption
  <2> QED
    BY <2>1, DayAssumption
<1>3. q * SECONDS_PER_DAY \in Nat /\ n * SECONDS_PER_DAY \in Nat
  BY <1>1, DayAssumption
<1> HIDE DEF q
<1>4. ~ q < n
  BY <1>1, <1>2, <1>3, DayAssumption
<1>5. ~ n < q
  BY <1>1, <1>2, <1>3, DayAssumption
<1>6. q = n
  BY <1>1, <1>4, <1>5
<1> QED
  BY <1>6 DEF q

\* A duration that n days fit into has n whole days.
LEMMA WholeDaysReached ==
  ASSUME NEW d \in Nat, NEW n \in Nat, n * SECONDS_PER_DAY <= d
  PROVE  WholeDays(d) >= n
<1> DEFINE q == WholeDays(d)
<1>1. q \in Nat /\ d < q * SECONDS_PER_DAY + SECONDS_PER_DAY
  BY WholeDaysBounds
<1> HIDE DEF q
<1>2. ASSUME q < n PROVE FALSE
  <2>1. (n - q - 1) * SECONDS_PER_DAY >= 0
    BY <1>1, <1>2, DayAssumption
  <2> QED
    BY <1>1, <2>1, DayAssumption
<1>3. q >= n
  BY <1>1, <1>2
<1> QED
  BY <1>3 DEF q

\* Whole days that have been paid can be split off: the rest is counted from
\* the checkpoint.  This is why claims do not change what is paid in all.
LEMMA WholeDaysSplit ==
  ASSUME NEW k \in Nat, NEW d \in Nat
  PROVE  WholeDays(k * SECONDS_PER_DAY + d) = k + WholeDays(d)
<1>1. /\ WholeDays(d) \in Nat /\ WholeDays(d) * SECONDS_PER_DAY <= d
      /\ d < WholeDays(d) * SECONDS_PER_DAY + SECONDS_PER_DAY
  BY WholeDaysBounds
<1> DEFINE n == k + WholeDays(d)
<1>2. n * SECONDS_PER_DAY = k * SECONDS_PER_DAY + WholeDays(d) * SECONDS_PER_DAY
  BY <1>1, DayAssumption
<1>3. k * SECONDS_PER_DAY \in Nat
  BY DayAssumption
<1>4. n \in Nat /\ k * SECONDS_PER_DAY + d \in Nat
  BY <1>1, <1>3
<1>5. n * SECONDS_PER_DAY <= k * SECONDS_PER_DAY + d
  BY <1>1, <1>2, <1>3, DayAssumption
<1>6. k * SECONDS_PER_DAY + d < n * SECONDS_PER_DAY + SECONDS_PER_DAY
  BY <1>1, <1>2, <1>3, DayAssumption
<1> QED
  BY <1>4, <1>5, <1>6, WholeDaysUnique

\* The reward is linear in the days: 10^6 base units divide by 10000 without
\* a remainder, so the floor of accrued_rewards never rounds.
LEMMA DaysRewardLinear ==
  ASSUME config \in Config, NEW m \in Nat, NEW n \in Nat
  PROVE  /\ DaysReward(n) \in Nat
         /\ DaysReward(0) = 0
         /\ DaysReward(m + n) = DaysReward(m) + DaysReward(n)
<1>1. config.rewards_bps \in Nat
  BY ChoicesAssumption DEF Config
<1>2. ASSUME NEW i \in Nat
      PROVE  DaysReward(i) = i * config.rewards_bps * 100
  <2>1. i * config.rewards_bps \in Nat
    BY <1>1
  <2>2. \A x \in Nat : (x * 1000000) \div 10000 = x * 100
    OBVIOUS
  <2> QED
    BY <2>1, <2>2 DEF DaysReward
<1> DEFINE b == config.rewards_bps
<1> HIDE DEF b
<1>3. /\ b \in Nat
      /\ \A i \in Nat : DaysReward(i) = i * b * 100
  BY <1>1, <1>2 DEF b
<1>4. (m + n) * b * 100 = m * b * 100 + n * b * 100
  BY <1>3
<1>5. n * b \in Nat
  BY <1>3
<1> QED
  BY <1>3, <1>4, <1>5

-------------------------------------------------------------------------------
(***************************************************************************)
(* The accounts.  Ledger is inductive: who may be paid needs the freeze,   *)
(* the freeze needs the layout, and the layout (a checkpoint that is a     *)
(* natural number) needs the clocks.                                       *)
(***************************************************************************)
\* The freeze clock of a stake is the time of the stake, and the reward clock
\* is a number of whole days later, but not in the future.
Clock(a) ==
  Staked(a) =>
    /\ config # NoAccount
    /\ StakeState(a).staked_at = since[a]
    /\ StakeState(a).last_claim <= now
    /\ \E k \in Nat : StakeState(a).last_claim = since[a] + k * SECONDS_PER_DAY

Clocks == \A a \in Assets : Clock(a)

\* Nobody but the wallet that staked can own a staked asset.
StakerOwns == \A a \in Assets : Staked(a) => asset[a].owner = staker[a]

\* Assets are in the collection, and nothing is paid before the terms are set.
Opened ==
  /\ \A a \in Assets : Exists(a) => collection # NoAccount
  /\ config = NoAccount => \A a \in Assets : paid[a] = 0 /\ days[a] = 0

Ledger == TypeOK /\ FrozenWhileStaked /\ Clocks /\ StakerOwns /\ Opened

LEMMA OtherAsset ==
  ASSUME NEW a \in Assets, asset'[a] = asset[a]
  PROVE  /\ Exists(a)' = Exists(a)
         /\ Staked(a)' = Staked(a)
         /\ StakeState(a)' = StakeState(a)
BY DEF Exists, Staked, StakeState

LEMMA AccountType ==
  ASSUME TypeOK, NEW a \in Assets, Exists(a)
  PROVE  /\ asset[a] \in AssetAccount
         /\ StakeState(a) \in Attributes
         /\ Staked(a) <=> StakeState(a).staked
<1>1. asset[a] \in AssetAccount
  BY DEF TypeOK, Exists
<1>2. asset[a].attributes \in Attributes \cup {NoPlugin}
  BY <1>1 DEF AssetAccount
<1>3. to_attribute_list(FALSE, 0, 0) \in Attributes
  BY DEF Attributes, to_attribute_list
<1>4. StakeState(a) \in Attributes
  BY <1>2, <1>3 DEF StakeState
<1> QED
  BY <1>1, <1>4 DEF Staked

\* A staked asset has the attributes plugin.
LEMMA StakedType ==
  ASSUME TypeOK, NEW a \in Assets, Staked(a)
  PROVE  /\ Exists(a)
         /\ asset[a].attributes = StakeState(a)
         /\ StakeState(a) \in Attributes
<1>1. Exists(a)
  BY DEF Staked
<1>2. asset[a].attributes # NoPlugin
  BY DEF Staked, StakeState, to_attribute_list
<1> QED
  BY <1>1, <1>2, AccountType DEF StakeState

\* What accrued_rewards returns for a staked asset.
LEMMA AccruedType ==
  ASSUME Ledger, NEW a \in Assets, Staked(a)
  PROVE  LET c == StakeState(a).last_claim
             n == WholeDays(now - c)
         IN  /\ config \in Config
             /\ c \in Nat /\ now - c \in Nat /\ n \in Nat
             /\ accrued_rewards(c).amount = DaysReward(n)
             /\ accrued_rewards(c).amount \in Nat
             /\ accrued_rewards(c).checkpoint = c + n * SECONDS_PER_DAY
             /\ accrued_rewards(c).checkpoint \in Nat
             /\ accrued_rewards(c).checkpoint <= now
<1> DEFINE c == StakeState(a).last_claim
           n == WholeDays(now - c)
<1>1. config \in Config
  BY DEF Ledger, TypeOK, Clocks, Clock
<1>2. c \in Nat /\ c <= now /\ now \in Nat
  <2>1. StakeState(a) \in Attributes
    BY StakedType DEF Ledger
  <2>2. now \in Nat
    BY BoundsAssumption DEF Ledger, TypeOK
  <2> QED
    BY <2>1, <2>2 DEF Ledger, Clocks, Clock, Attributes
<1>3. now - c \in Nat
  BY <1>2
<1>4. n \in Nat /\ n * SECONDS_PER_DAY <= now - c
  BY <1>3, WholeDaysBounds
<1>5. n * SECONDS_PER_DAY \in Nat
  BY <1>4, DayAssumption
<1>6. DaysReward(n) \in Nat
  BY <1>1, <1>4, DaysRewardLinear
<1>7. c + n * SECONDS_PER_DAY \in Nat /\ c + n * SECONDS_PER_DAY <= now
  BY <1>2, <1>4, <1>5
<1> QED
  BY <1>1, <1>2, <1>3, <1>4, <1>6, <1>7 DEF accrued_rewards

LEMMA LedgerInit == Init => Ledger
<1> SUFFICES ASSUME Init PROVE Ledger
  OBVIOUS
<1>1. \A a \in Assets : ~ Exists(a) /\ ~ Staked(a)
  BY DEF Init, Exists, Staked
<1>2. /\ now \in 1 .. MaxTime /\ 0 \in 0 .. now /\ 0 \in 0 .. MaxStakes
  BY BoundsAssumption DEF Init
<1>3. TypeOK
  BY <1>1, <1>2 DEF Init, TypeOK
<1> QED
  BY <1>1, <1>3
  DEF Init, Ledger, FrozenWhileStaked, Clocks, Clock, StakerOwns, Opened

\* Steps that change no asset: the clock, the collection and the terms.
LEMMA LedgerQuiet ==
  ASSUME Ledger,
         UNCHANGED <<asset, rewards, history>>,
         now' \in now .. MaxTime,
         config' \in Config \cup {NoAccount},
         config # NoAccount => config' = config,
         collection' \in Nat \cup {NoAccount, NoPlugin},
         collection # NoAccount => collection' # NoAccount
  PROVE  Ledger'
<1>1. \A a \in Assets :
        /\ Exists(a)' = Exists(a)
        /\ Staked(a)' = Staked(a)
        /\ StakeState(a)' = StakeState(a)
  BY OtherAsset
<1>2. now \in 1 .. MaxTime /\ now' \in 1 .. MaxTime /\ now <= now'
  BY BoundsAssumption DEF Ledger, TypeOK
<1>3. TypeOK'
  <2>1. since' \in [Assets -> 0 .. now']
    BY <1>2 DEF Ledger, TypeOK, history
  <2> QED
    BY <1>1, <1>2, <2>1 DEF Ledger, TypeOK, history
<1>4. FrozenWhileStaked'
  BY <1>1 DEF Ledger, FrozenWhileStaked
<1>5. Clocks'
  <2> SUFFICES ASSUME NEW a \in Assets, Staked(a)
               PROVE  Clock(a)'
    BY <1>1 DEF Clocks, Clock
  <2>1. Clock(a) /\ StakeState(a).last_claim \in Nat
    BY StakedType DEF Ledger, Clocks, Attributes
  <2>2. StakeState(a).last_claim <= now'
    BY <1>2, <2>1 DEF Clock
  <2> QED
    BY <1>1, <2>1, <2>2 DEF Clock, history
<1>6. StakerOwns'
  BY <1>1 DEF Ledger, StakerOwns, history
<1>7. Opened'
  BY <1>1 DEF Ledger, Opened, history
<1> QED
  BY <1>3, <1>4, <1>5, <1>6, <1>7 DEF Ledger

\* Steps on one asset that is not staked and stays so: it is minted,
\* transferred or burnt, or its owner sees to its freeze plugin.
LEMMA LedgerUnstaked ==
  ASSUME Ledger, NEW b \in Assets, NEW account,
         ~ Staked(b),
         collection # NoAccount,
         asset' = [asset EXCEPT ![b] = account],
         UNCHANGED <<now, config, collection, rewards, history>>,
         \/ account = Burnt
         \/ /\ account \in AssetAccount
            /\ account.attributes \in {NoPlugin, to_attribute_list(FALSE, 0, 0)}
  PROVE  Ledger'
<1>1. /\ asset \in [Assets -> AssetAccount \cup {NoAccount, Burnt}]
      /\ asset'[b] = account
  BY DEF Ledger, TypeOK
<1>2. \A a \in Assets : a # b =>
        /\ asset'[a] = asset[a]
        /\ Exists(a)' = Exists(a)
        /\ Staked(a)' = Staked(a)
        /\ StakeState(a)' = StakeState(a)
  BY <1>1, OtherAsset
<1>3. ~ Staked(b)'
  BY <1>1 DEF Staked, Exists, StakeState, to_attribute_list
<1>4. Exists(b)' => StakeState(b)' = to_attribute_list(FALSE, 0, 0)
  BY <1>1 DEF Exists, StakeState
<1>5. TypeOK'
  <2>1. asset' \in [Assets -> AssetAccount \cup {NoAccount, Burnt}]
    BY <1>1
  <2>2. \A a \in Assets :
          Exists(a)' /\ ~ Staked(a)' => StakeState(a)' = to_attribute_list(FALSE, 0, 0)
    BY <1>2, <1>4 DEF Ledger, TypeOK
  <2> QED
    BY <2>1, <2>2 DEF Ledger, TypeOK, history
<1>6. FrozenWhileStaked'
  BY <1>2, <1>3 DEF Ledger, FrozenWhileStaked
<1>7. Clocks'
  BY <1>2, <1>3 DEF Ledger, Clocks, Clock, history
<1>8. StakerOwns'
  BY <1>2, <1>3 DEF Ledger, StakerOwns, history
<1>9. Opened'
  BY <1>2 DEF Ledger, Opened, history
<1> QED
  BY <1>5, <1>6, <1>7, <1>8, <1>9 DEF Ledger

\* Steps that write a stake of asset b: its attributes and freeze plugin.
LEMMA WrittenStake ==
  ASSUME TypeOK, NEW b \in Assets, Exists(b),
         NEW attributes \in Attributes, NEW freeze \in FreezeDelegate,
         asset' = [asset EXCEPT ![b] =
                     [@ EXCEPT !.attributes = attributes, !.freeze = freeze]]
  PROVE  /\ asset' \in [Assets -> AssetAccount \cup {NoAccount, Burnt}]
         /\ Exists(b)' /\ asset'[b].owner = asset[b].owner
         /\ asset'[b].freeze = freeze
         /\ StakeState(b)' = attributes
         /\ Staked(b)' <=> attributes.staked
         /\ \A a \in Assets : a # b =>
              /\ asset'[a] = asset[a]
              /\ Exists(a)' = Exists(a)
              /\ Staked(a)' = Staked(a)
              /\ StakeState(a)' = StakeState(a)
<1>1. asset \in [Assets -> AssetAccount \cup {NoAccount, Burnt}]
  BY DEF TypeOK
<1>2. asset[b] \in AssetAccount
  BY AccountType
<1>3. asset'[b] = [asset[b] EXCEPT !.attributes = attributes, !.freeze = freeze]
  BY <1>1
<1>4. asset'[b] \in AssetAccount
  <2>1. asset'[b] = [owner |-> asset[b].owner, attributes |-> attributes,
                     freeze |-> freeze]
    BY <1>2, <1>3 DEF AssetAccount
  <2>2. asset[b].owner \in Users
    BY <1>2 DEF AssetAccount
  <2>3. attributes \in Attributes \cup {NoPlugin}
    OBVIOUS
  <2>4. freeze \in FreezeDelegate \cup {NoPlugin}
    OBVIOUS
  <2>5. \A o \in Users, t \in Attributes \cup {NoPlugin},
           f \in FreezeDelegate \cup {NoPlugin} :
          [owner |-> o, attributes |-> t, freeze |-> f] \in AssetAccount
    BY DEF AssetAccount
  <2> QED
    BY <2>1, <2>2, <2>3, <2>4, <2>5
<1>5. /\ asset'[b].owner = asset[b].owner /\ asset'[b].freeze = freeze
      /\ asset'[b].attributes = attributes
  BY <1>2, <1>3 DEF AssetAccount
<1>6. Exists(b)'
  BY <1>4, AbsenceAssumption DEF Exists
<1>7. StakeState(b)' = attributes
  BY <1>5, AbsenceAssumption DEF StakeState
<1>8. Staked(b)' <=> attributes.staked
  BY <1>6, <1>7 DEF Staked
<1>9. asset' \in [Assets -> AssetAccount \cup {NoAccount, Burnt}]
  BY <1>1, <1>4
<1>10. \A a \in Assets : a # b => asset'[a] = asset[a]
  BY <1>1
<1> QED
  BY <1>5, <1>6, <1>7, <1>8, <1>9, <1>10, OtherAsset

LEMMA ProgramFreezeType == ProgramFreeze \in FreezeDelegate
BY DEF ProgramFreeze, FreezeDelegate

LEMMA StakedFrozen ==
  ASSUME Ledger, NEW a \in Assets, Staked(a)
  PROVE  HasFreeze(a) /\ Frozen(a) /\ FreezeIsPrograms(a)
<1>1. asset[a].freeze = ProgramFreeze
  BY DEF Ledger, FrozenWhileStaked
<1>2. ProgramFreeze # NoPlugin
  BY ProgramFreezeType, AbsenceAssumption
<1> QED
  BY <1>1, <1>2 DEF HasFreeze, Frozen, FreezeIsPrograms, ProgramFreeze

\* What owners do to an asset through Core, short of burning it.
OwnerStep(a) ==
  \/ \E to \in Users : Transfer(a, to)
  \/ RemoveFreezePlugin(a)
  \/ \E freeze \in FreezeDelegate : AddFreezePlugin(a, freeze)
  \/ ThawFreezePlugin(a)

\* The freeze keeps them off a staked asset.
LEMMA OwnerEffect ==
  ASSUME Ledger, NEW a \in Assets, OwnerStep(a)
  PROVE  /\ ~ Staked(a) /\ collection # NoAccount
         /\ UNCHANGED <<now, config, collection, rewards, history>>
         /\ \E account \in AssetAccount :
              /\ account.attributes \in {NoPlugin, to_attribute_list(FALSE, 0, 0)}
              /\ asset' = [asset EXCEPT ![a] = account]
<1>1. /\ Exists(a) /\ asset[a] \in AssetAccount
      /\ collection # NoAccount
      /\ UNCHANGED <<now, config, collection, rewards, history>>
  <2>1. Exists(a)
    BY DEF OwnerStep, Transfer, RemoveFreezePlugin, AddFreezePlugin, ThawFreezePlugin
  <2>2. UNCHANGED <<now, config, collection, rewards, history>>
    BY DEF OwnerStep, Transfer, RemoveFreezePlugin, AddFreezePlugin, ThawFreezePlugin
  <2> QED
    BY <2>1, <2>2, AccountType DEF Ledger, Opened
<1>2. ~ Staked(a)
  BY StakedFrozen
  DEF OwnerStep, Transfer, RemoveFreezePlugin, AddFreezePlugin, ThawFreezePlugin
<1>3. asset[a].attributes \in {NoPlugin, to_attribute_list(FALSE, 0, 0)}
  BY <1>1, <1>2 DEF Ledger, TypeOK, StakeState
<1>4. ASSUME NEW o \in Users, NEW f \in FreezeDelegate \cup {NoPlugin},
             asset' = [asset EXCEPT ![a].owner = o, ![a].freeze = f]
      PROVE  \E account \in AssetAccount :
               /\ account.attributes \in {NoPlugin, to_attribute_list(FALSE, 0, 0)}
               /\ asset' = [asset EXCEPT ![a] = account]
  <2> DEFINE account == [asset[a] EXCEPT !.owner = o, !.freeze = f]
  <2>1. account \in AssetAccount /\ account.attributes = asset[a].attributes
    BY <1>1 DEF AssetAccount
  <2>2. asset' = [asset EXCEPT ![a] = account]
    BY <1>4
  <2> HIDE DEF account
  <2> QED
    BY <1>3, <2>1, <2>2
<1>5. /\ asset[a].owner \in Users
      /\ asset[a].freeze \in FreezeDelegate \cup {NoPlugin}
      /\ asset \in [Assets -> AssetAccount \cup {NoAccount, Burnt}]
  BY <1>1 DEF AssetAccount, Ledger, TypeOK
<1>6. ASSUME NEW f \in FreezeDelegate \cup {NoPlugin},
             asset' = [asset EXCEPT ![a].freeze = f]
      PROVE  asset' = [asset EXCEPT ![a].owner = asset[a].owner, ![a].freeze = f]
  <2>1. [asset[a] EXCEPT !.freeze = f] =
        [asset[a] EXCEPT !.owner = asset[a].owner, !.freeze = f]
    BY <1>1 DEF AssetAccount
  <2> QED
    BY <1>6, <2>1
<1>7. ASSUME NEW to \in Users, Transfer(a, to)
      PROVE  \E f \in FreezeDelegate \cup {NoPlugin} :
               asset' = [asset EXCEPT ![a].owner = to, ![a].freeze = f]
  <2> DEFINE f == IF HasFreeze(a) THEN [asset[a].freeze EXCEPT !.authority = "Owner"]
                  ELSE NoPlugin
  <2>1. f \in FreezeDelegate \cup {NoPlugin}
    BY <1>5 DEF HasFreeze, FreezeDelegate
  <2>2. asset' = [asset EXCEPT ![a].owner = to, ![a].freeze = f]
    BY <1>7 DEF Transfer
  <2> HIDE DEF f
  <2> QED
    BY <2>1, <2>2
<1>8. ASSUME ThawFreezePlugin(a)
      PROVE  \E f \in FreezeDelegate : asset' = [asset EXCEPT ![a].freeze = f]
  <2> DEFINE f == [asset[a].freeze EXCEPT !.frozen = FALSE]
  <2>1. f \in FreezeDelegate
    BY <1>5, <1>8 DEF ThawFreezePlugin, Frozen, HasFreeze, FreezeDelegate
  <2>2. [asset[a] EXCEPT !.freeze.frozen = FALSE] = [asset[a] EXCEPT !.freeze = f]
    BY <1>1 DEF AssetAccount
  <2>3. asset' = [asset EXCEPT ![a].freeze = f]
    BY <1>8, <2>2 DEF ThawFreezePlugin
  <2> HIDE DEF f
  <2> QED
    BY <2>1, <2>3
<1>9. \E o \in Users, f \in FreezeDelegate \cup {NoPlugin} :
        asset' = [asset EXCEPT ![a].owner = o, ![a].freeze = f]
  <2>1. CASE \E to \in Users : Transfer(a, to)
    BY <1>7, <2>1
  <2>2. CASE RemoveFreezePlugin(a)
    BY <1>5, <1>6, <2>2 DEF RemoveFreezePlugin
  <2>3. CASE \E freeze \in FreezeDelegate : AddFreezePlugin(a, freeze)
    BY <1>5, <1>6, <2>3 DEF AddFreezePlugin
  <2>4. CASE ThawFreezePlugin(a)
    BY <1>5, <1>6, <1>8, <2>4
  <2> QED
    BY <2>1, <2>2, <2>3, <2>4 DEF OwnerStep
<1> QED
  BY <1>1, <1>2, <1>4, <1>9

\* What a reward adds.
LEMMA MintRewardsType ==
  ASSUME TypeOK, NEW user \in Users, NEW a \in Assets, NEW amount \in Nat,
         MintRewards(user, a, amount)
  PROVE  /\ rewards' \in [Users -> Nat] /\ paid' \in [Assets -> Nat]
         /\ paid'[a] = paid[a] + amount
         /\ rewards'[user] = rewards[user] + amount
         /\ \A other \in Assets : other # a => paid'[other] = paid[other]
BY DEF TypeOK, MintRewards

LEMMA BumpedType ==
  ASSUME TypeOK, collection # NoAccount, NEW delta \in {1, -1}
  PROVE  Bumped(delta) \in Nat
BY DEF TypeOK, Bumped

\* What stake, claim_rewards and unstake do to the assets.
LEMMA StakeEffect ==
  ASSUME Ledger, NEW user \in Users, NEW b \in Assets, Stake(user, b)
  PROVE  /\ asset' \in [Assets -> AssetAccount \cup {NoAccount, Burnt}]
         /\ Exists(b)' /\ asset'[b].owner = asset[b].owner
         /\ asset'[b].freeze = ProgramFreeze
         /\ StakeState(b)' = to_attribute_list(TRUE, now, now)
         /\ Staked(b)' /\ ~ Staked(b)
         /\ \A a \in Assets : a # b =>
              /\ asset'[a] = asset[a]
              /\ Exists(a)' = Exists(a)
              /\ Staked(a)' = Staked(a)
              /\ StakeState(a)' = StakeState(a)
<1> DEFINE attributes == to_attribute_list(TRUE, now, now)
<1>1. now \in Nat /\ now \in 0 .. now
  BY BoundsAssumption DEF Ledger, TypeOK
<1>2. attributes \in Attributes
  BY <1>1 DEF Attributes, to_attribute_list
<1>3. TypeOK /\ Exists(b)
  BY DEF Ledger, Stake
<1>4. asset' = [asset EXCEPT ![b] =
                  [@ EXCEPT !.attributes = attributes, !.freeze = ProgramFreeze]]
  BY DEF Stake
<1>5. attributes.staked
  BY DEF to_attribute_list
<1> HIDE DEF attributes
<1>6. /\ asset' \in [Assets -> AssetAccount \cup {NoAccount, Burnt}]
      /\ Exists(b)' /\ asset'[b].owner = asset[b].owner
      /\ asset'[b].freeze = ProgramFreeze
      /\ StakeState(b)' = attributes
      /\ Staked(b)' <=> attributes.staked
      /\ \A a \in Assets : a # b =>
           /\ asset'[a] = asset[a]
           /\ Exists(a)' = Exists(a)
           /\ Staked(a)' = Staked(a)
           /\ StakeState(a)' = StakeState(a)
  BY <1>2, <1>3, <1>4, ProgramFreezeType, WrittenStake
<1>7. ~ Staked(b)
  BY DEF Stake
<1> QED
  BY <1>5, <1>6, <1>7 DEF attributes

LEMMA LedgerStake ==
  ASSUME Ledger, NEW user \in Users, NEW b \in Assets, Stake(user, b)
  PROVE  Ledger'
<1> DEFINE attributes == to_attribute_list(TRUE, now, now)
<1>1. now \in Nat /\ now \in 0 .. now
  BY BoundsAssumption DEF Ledger, TypeOK
<1>5. /\ asset' \in [Assets -> AssetAccount \cup {NoAccount, Burnt}]
      /\ Exists(b)' /\ asset'[b].owner = asset[b].owner
      /\ asset'[b].freeze = ProgramFreeze
      /\ StakeState(b)' = attributes
      /\ Staked(b)'
      /\ \A a \in Assets : a # b =>
           /\ asset'[a] = asset[a]
           /\ Exists(a)' = Exists(a)
           /\ Staked(a)' = Staked(a)
           /\ StakeState(a)' = StakeState(a)
  BY StakeEffect
<1> HIDE DEF attributes
<1>6. collection' \in Nat
  BY BumpedType DEF Ledger, Opened, Stake
<1>7. TypeOK'
  <2>1. since' \in [Assets -> 0 .. now'] /\ staker' \in [Assets -> Users \cup {NoAccount}]
    BY <1>1 DEF Ledger, TypeOK, Stake
  <2>2. stakes' \in [Assets -> 0 .. MaxStakes]
    <3>1. stakes[b] + 1 \in 0 .. MaxStakes
      BY BoundsAssumption DEF Ledger, TypeOK, Stake
    <3> QED
      BY <3>1 DEF Ledger, TypeOK, Stake
  <2>3. \A a \in Assets :
          Exists(a)' /\ ~ Staked(a)' => StakeState(a)' = to_attribute_list(FALSE, 0, 0)
    BY <1>5 DEF Ledger, TypeOK
  <2> QED
    BY <1>5, <1>6, <2>1, <2>2, <2>3 DEF Ledger, TypeOK, Stake
<1>8. FrozenWhileStaked'
  BY <1>5 DEF Ledger, FrozenWhileStaked
<1>9. Clocks'
  <2>1. Clock(b)'
    <3>1. now = now + 0 * SECONDS_PER_DAY
      BY <1>1, DayAssumption
    <3>2. StakeState(b)'.staked_at = now /\ StakeState(b)'.last_claim = now
      BY <1>5 DEF attributes, to_attribute_list
    <3>3. since'[b] = now /\ now' = now /\ config' # NoAccount
      BY DEF Ledger, TypeOK, Stake
    <3>4. \E k \in Nat : StakeState(b)'.last_claim = since'[b] + k * SECONDS_PER_DAY
      BY <3>1, <3>2, <3>3
    <3>5. StakeState(b)'.last_claim <= now'
      BY <1>1, <3>2, <3>3
    <3> QED
      BY <3>2, <3>3, <3>4, <3>5 DEF Clock
  <2>2. ASSUME NEW a \in Assets, a # b
        PROVE  Clock(a)'
    BY <1>5, <2>2 DEF Ledger, TypeOK, Clocks, Clock, Stake
  <2> QED
    BY <2>1, <2>2 DEF Clocks
<1>10. StakerOwns'
  BY <1>5 DEF Ledger, TypeOK, StakerOwns, Stake
<1>11. Opened'
  BY <1>5, <1>6, AbsenceAssumption DEF Ledger, Opened, Stake
<1> QED
  BY <1>7, <1>8, <1>9, <1>10, <1>11 DEF Ledger

LEMMA ClaimEffect ==
  ASSUME Ledger, NEW user \in Users, NEW b \in Assets, ClaimRewards(user, b)
  PROVE  /\ asset' \in [Assets -> AssetAccount \cup {NoAccount, Burnt}]
         /\ Exists(b)' /\ asset'[b].owner = asset[b].owner
         /\ asset'[b].freeze = ProgramFreeze
         /\ StakeState(b)' = to_attribute_list(TRUE, StakeState(b).staked_at,
                 accrued_rewards(StakeState(b).last_claim).checkpoint)
         /\ Staked(b)' /\ Staked(b)
         /\ \A a \in Assets : a # b =>
              /\ asset'[a] = asset[a]
              /\ Exists(a)' = Exists(a)
              /\ Staked(a)' = Staked(a)
              /\ StakeState(a)' = StakeState(a)
<1> DEFINE state      == StakeState(b)
           accrued    == accrued_rewards(state.last_claim)
           n          == WholeDays(now - state.last_claim)
           attributes == to_attribute_list(TRUE, state.staked_at, accrued.checkpoint)
<1>1. /\ TypeOK /\ Staked(b) /\ Exists(b) /\ state \in Attributes
      /\ asset[b].freeze = ProgramFreeze
  BY StakedType DEF Ledger, FrozenWhileStaked, ClaimRewards
<1>2. /\ n \in Nat /\ accrued.amount \in Nat /\ accrued.checkpoint \in Nat
      /\ accrued.checkpoint = state.last_claim + n * SECONDS_PER_DAY
      /\ accrued.checkpoint <= now
      /\ config \in Config
  BY <1>1, AccruedType
<1>3. attributes \in Attributes
  BY <1>1, <1>2 DEF Attributes, to_attribute_list
<1>4. asset' = [asset EXCEPT ![b] =
                  [@ EXCEPT !.attributes = attributes, !.freeze = ProgramFreeze]]
  <2>1. asset[b] \in AssetAccount
    BY <1>1, AccountType
  <2>2. [asset[b] EXCEPT !.attributes = attributes] =
        [asset[b] EXCEPT !.attributes = attributes, !.freeze = ProgramFreeze]
    BY <1>1, <2>1 DEF AssetAccount
  <2>3. asset' = [asset EXCEPT ![b] = [@ EXCEPT !.attributes = attributes]]
    BY DEF ClaimRewards
  <2> HIDE DEF attributes
  <2> QED
    BY <2>2, <2>3
<1>5. attributes.staked
  BY DEF to_attribute_list
<1> HIDE DEF attributes
<1>6. /\ asset' \in [Assets -> AssetAccount \cup {NoAccount, Burnt}]
      /\ Exists(b)' /\ asset'[b].owner = asset[b].owner
      /\ asset'[b].freeze = ProgramFreeze
      /\ StakeState(b)' = attributes
      /\ Staked(b)' <=> attributes.staked
      /\ \A a \in Assets : a # b =>
           /\ asset'[a] = asset[a]
           /\ Exists(a)' = Exists(a)
           /\ Staked(a)' = Staked(a)
           /\ StakeState(a)' = StakeState(a)
  BY <1>1, <1>3, <1>4, ProgramFreezeType, WrittenStake
<1> QED
  BY <1>1, <1>5, <1>6 DEF attributes

LEMMA LedgerClaim ==
  ASSUME Ledger, NEW user \in Users, NEW b \in Assets, ClaimRewards(user, b)
  PROVE  Ledger'
<1> DEFINE state      == StakeState(b)
           accrued    == accrued_rewards(state.last_claim)
           n          == WholeDays(now - state.last_claim)
           attributes == to_attribute_list(TRUE, state.staked_at, accrued.checkpoint)
<1>1. /\ TypeOK /\ Staked(b) /\ Exists(b) /\ state \in Attributes
      /\ asset[b].freeze = ProgramFreeze
  BY StakedType DEF Ledger, FrozenWhileStaked, ClaimRewards
<1>2. /\ n \in Nat /\ accrued.amount \in Nat /\ accrued.checkpoint \in Nat
      /\ accrued.checkpoint = state.last_claim + n * SECONDS_PER_DAY
      /\ accrued.checkpoint <= now
      /\ config \in Config
  BY <1>1, AccruedType
<1>5. /\ asset' \in [Assets -> AssetAccount \cup {NoAccount, Burnt}]
      /\ Exists(b)' /\ asset'[b].owner = asset[b].owner
      /\ asset'[b].freeze = ProgramFreeze
      /\ StakeState(b)' = attributes
      /\ Staked(b)'
      /\ \A a \in Assets : a # b =>
           /\ asset'[a] = asset[a]
           /\ Exists(a)' = Exists(a)
           /\ Staked(a)' = Staked(a)
           /\ StakeState(a)' = StakeState(a)
  BY ClaimEffect
<1>6. StakeState(b)'.staked_at = state.staked_at /\ StakeState(b)'.last_claim = accrued.checkpoint
  BY <1>5 DEF to_attribute_list
<1> HIDE DEF accrued, n, attributes
<1>7. rewards' \in [Users -> Nat] /\ paid' \in [Assets -> Nat]
  BY <1>1, <1>2, MintRewardsType DEF ClaimRewards, accrued
<1>8. TypeOK'
  <2>1. \A a \in Assets :
          Exists(a)' /\ ~ Staked(a)' => StakeState(a)' = to_attribute_list(FALSE, 0, 0)
    BY <1>5 DEF Ledger, TypeOK
  <2> QED
    BY <1>5, <1>7, <2>1 DEF Ledger, TypeOK, ClaimRewards
<1>9. FrozenWhileStaked'
  BY <1>5 DEF Ledger, FrozenWhileStaked
<1>10. Clocks'
  <2>1. Clock(b)'
    <3>1. Clock(b)
      BY DEF Ledger, Clocks
    <3>2. PICK k \in Nat : state.last_claim = since[b] + k * SECONDS_PER_DAY
      BY <1>1, <3>1 DEF Clock
    <3>3. since[b] \in Nat
      BY DEF Ledger, TypeOK
    <3>4. (k + n) * SECONDS_PER_DAY = k * SECONDS_PER_DAY + n * SECONDS_PER_DAY
      BY <1>2, DayAssumption
    <3>5. k * SECONDS_PER_DAY \in Nat /\ n * SECONDS_PER_DAY \in Nat /\ k + n \in Nat
      BY <1>2, DayAssumption
    <3>6. accrued.checkpoint = since[b] + (k + n) * SECONDS_PER_DAY
      BY <1>2, <3>2, <3>3, <3>4, <3>5
    <3>7. since' = since /\ now' = now /\ config' = config
      BY DEF ClaimRewards
    <3> QED
      BY <1>1, <1>2, <1>6, <3>1, <3>5, <3>6, <3>7 DEF Clock
  <2>2. ASSUME NEW a \in Assets, a # b
        PROVE  Clock(a)'
    BY <1>5, <2>2 DEF Ledger, Clocks, Clock, ClaimRewards
  <2> QED
    BY <2>1, <2>2 DEF Clocks
<1>11. StakerOwns'
  BY <1>1, <1>5 DEF Ledger, StakerOwns, ClaimRewards
<1>12. Opened'
  BY <1>1, <1>2, <1>5, AbsenceAssumption DEF Ledger, Opened, ClaimRewards
<1> QED
  BY <1>8, <1>9, <1>10, <1>11, <1>12 DEF Ledger

LEMMA UnstakeEffect ==
  ASSUME Ledger, NEW user \in Users, NEW b \in Assets, Unstake(user, b)
  PROVE  /\ asset' \in [Assets -> AssetAccount \cup {NoAccount, Burnt}]
         /\ Exists(b)' /\ asset'[b].owner = asset[b].owner
         /\ StakeState(b)' = to_attribute_list(FALSE, 0, 0)
         /\ ~ Staked(b)' /\ Staked(b)
         /\ \A a \in Assets : a # b =>
              /\ asset'[a] = asset[a]
              /\ Exists(a)' = Exists(a)
              /\ Staked(a)' = Staked(a)
              /\ StakeState(a)' = StakeState(a)
<1> DEFINE state      == StakeState(b)
           amount     == accrued_rewards(state.last_claim).amount
           attributes == to_attribute_list(FALSE, 0, 0)
<1>1. TypeOK /\ Staked(b) /\ Exists(b)
  BY StakedType DEF Ledger, Unstake, MayUnstake
<1>2. amount \in Nat /\ config \in Config
  BY <1>1, AccruedType
<1>3. attributes \in Attributes
  BY DEF Attributes, to_attribute_list
<1> DEFINE freeze == [ProgramFreeze EXCEPT !.frozen = FALSE]
<1>4. asset' = [asset EXCEPT ![b] =
                  [@ EXCEPT !.attributes = attributes, !.freeze = freeze]]
  <2>1. /\ asset \in [Assets -> AssetAccount \cup {NoAccount, Burnt}]
        /\ asset[b] \in AssetAccount
        /\ asset[b].freeze = ProgramFreeze
    BY <1>1, AccountType DEF Ledger, TypeOK, FrozenWhileStaked
  <2>2. asset' = [asset EXCEPT ![b] = [@ EXCEPT !.attributes = attributes,
                                                !.freeze.frozen = FALSE]]
    BY DEF Unstake
  <2>3. [asset[b].freeze EXCEPT !.frozen = FALSE] = freeze
    BY <2>1
  <2> HIDE DEF attributes, freeze
  <2>4. [asset[b] EXCEPT !.attributes = attributes, !.freeze.frozen = FALSE] =
        [asset[b] EXCEPT !.attributes = attributes, !.freeze = freeze]
    BY <2>1, <2>3 DEF AssetAccount
  <2> QED
    BY <2>1, <2>2, <2>4
<1>5. freeze \in FreezeDelegate
  BY ProgramFreezeType DEF FreezeDelegate
<1> HIDE DEF freeze
<1> QED
  BY <1>1, <1>3, <1>4, <1>5, WrittenStake DEF to_attribute_list

LEMMA LedgerUnstake ==
  ASSUME Ledger, NEW user \in Users, NEW b \in Assets, Unstake(user, b)
  PROVE  Ledger'
<1> DEFINE state      == StakeState(b)
           amount     == accrued_rewards(state.last_claim).amount
           attributes == to_attribute_list(FALSE, 0, 0)
<1>1. TypeOK /\ Staked(b) /\ Exists(b)
  BY StakedType DEF Ledger, Unstake, MayUnstake
<1>2. amount \in Nat /\ config \in Config
  BY <1>1, AccruedType
<1>5. /\ asset' \in [Assets -> AssetAccount \cup {NoAccount, Burnt}]
      /\ Exists(b)'
      /\ StakeState(b)' = attributes
      /\ ~ Staked(b)'
      /\ \A a \in Assets : a # b =>
           /\ asset'[a] = asset[a]
           /\ Exists(a)' = Exists(a)
           /\ Staked(a)' = Staked(a)
           /\ StakeState(a)' = StakeState(a)
  BY UnstakeEffect
<1> HIDE DEF amount, attributes
<1>6. rewards' \in [Users -> Nat] /\ paid' \in [Assets -> Nat]
  BY <1>1, <1>2, MintRewardsType DEF Unstake, amount
<1>7. since[b] \in Nat /\ now - since[b] \in Nat
  BY BoundsAssumption DEF Ledger, TypeOK
<1>8. days' \in [Assets -> Nat] /\ served' \in [Assets -> Nat]
  <2>1. days[b] + WholeDays(now - since[b]) \in Nat
    BY <1>7, WholeDaysBounds DEF Ledger, TypeOK
  <2>2. served[b] + now - since[b] \in Nat
    BY <1>7, BoundsAssumption DEF Ledger, TypeOK
  <2> QED
    BY <2>1, <2>2 DEF Ledger, TypeOK, Unstake, Served
<1>9. collection' \in Nat
  BY <1>1, BumpedType DEF Ledger, Opened, Unstake
<1>10. TypeOK'
  <2>1. \A a \in Assets :
          Exists(a)' /\ ~ Staked(a)' => StakeState(a)' = to_attribute_list(FALSE, 0, 0)
    BY <1>5 DEF Ledger, TypeOK, attributes
  <2> QED
    BY <1>5, <1>6, <1>8, <1>9, <2>1 DEF Ledger, TypeOK, Unstake
<1>11. FrozenWhileStaked'
  BY <1>5 DEF Ledger, FrozenWhileStaked
<1>12. Clocks'
  BY <1>5 DEF Ledger, Clocks, Clock, Unstake
<1>13. StakerOwns'
  BY <1>5 DEF Ledger, StakerOwns, Unstake
<1>14. Opened'
  BY <1>1, <1>2, <1>5, <1>9, AbsenceAssumption DEF Ledger, Opened, Unstake
<1> QED
  BY <1>10, <1>11, <1>12, <1>13, <1>14 DEF Ledger

LEMMA LedgerStep == Ledger /\ [Next]_vars => Ledger'
<1> SUFFICES ASSUME Ledger, [Next]_vars PROVE Ledger'
  OBVIOUS
<1>0. /\ now \in now .. MaxTime
      /\ config \in Config \cup {NoAccount}
      /\ collection \in Nat \cup {NoAccount, NoPlugin}
  BY BoundsAssumption DEF Ledger, TypeOK
<1>1. CASE CreateCollection
  BY <1>0, <1>1, LedgerQuiet, AbsenceAssumption DEF CreateCollection
<1>2. CASE CreateBareCollection
  BY <1>0, <1>2, LedgerQuiet, AbsenceAssumption DEF CreateBareCollection
<1>3. ASSUME NEW bps \in RateChoices, NEW period \in FreezeChoices, Initialize(bps, period)
      PROVE  Ledger'
  <2>1. config' \in Config
    BY <1>3 DEF Initialize, Config
  <2> QED
    BY <1>0, <1>3, <2>1, LedgerQuiet DEF Initialize
<1>4. ASSUME NEW user \in Users, NEW a \in Assets, MintAsset(user, a)
      PROVE  Ledger'
  <2> DEFINE account == [owner |-> user, attributes |-> NoPlugin, freeze |-> NoPlugin]
  <2>1. account \in AssetAccount /\ account.attributes = NoPlugin
    BY AbsenceAssumption DEF AssetAccount
  <2>2. ~ Staked(a)
    BY <1>4 DEF MintAsset, Staked, Exists
  <2>3. /\ asset' = [asset EXCEPT ![a] = account]
        /\ collection # NoAccount
        /\ UNCHANGED <<now, config, collection, rewards, history>>
    BY <1>4 DEF MintAsset
  <2> HIDE DEF account
  <2> QED
    BY <2>1, <2>2, <2>3, LedgerUnstaked
<1>5. ASSUME NEW user \in Users, NEW a \in Assets, Stake(user, a)
      PROVE  Ledger'
  BY <1>5, LedgerStake
<1>6. ASSUME NEW user \in Users, NEW a \in Assets, ClaimRewards(user, a)
      PROVE  Ledger'
  BY <1>6, LedgerClaim
<1>7. ASSUME NEW user \in Users, NEW a \in Assets, Unstake(user, a)
      PROVE  Ledger'
  BY <1>7, LedgerUnstake
<1>8. ASSUME NEW a \in Assets, OwnerStep(a)
      PROVE  Ledger'
  BY <1>8, OwnerEffect, LedgerUnstaked
<1>9. ASSUME NEW a \in Assets, Burn(a)
      PROVE  Ledger'
  <2>1. ~ Staked(a) /\ collection # NoAccount
    BY <1>9, StakedFrozen DEF Burn, Ledger, Opened
  <2> QED
    BY <1>9, <2>1, LedgerUnstaked DEF Burn
<1>10. CASE Tick
  <2>1. now' \in now .. MaxTime
    BY <1>10, BoundsAssumption DEF Tick, Ledger, TypeOK
  <2> QED
    BY <1>0, <1>10, <2>1, LedgerQuiet DEF Tick, accounts
<1>11. CASE UNCHANGED vars
  BY <1>0, <1>11, LedgerQuiet DEF vars, accounts
<1> QED
  BY <1>1, <1>2, <1>3, <1>4, <1>5, <1>6, <1>7, <1>8, <1>9, <1>10, <1>11 DEF Next, OwnerStep

-------------------------------------------------------------------------------
(***************************************************************************)
(* The statistics and the payouts.  A step either is one of the three      *)
(* instructions on stakes or keeps every stake.                            *)
(***************************************************************************)
StakesKept ==
  /\ UNCHANGED history
  /\ \A a \in Assets : /\ Staked(a)' = Staked(a)
                       /\ Staked(a) => StakeState(a)' = StakeState(a)
  /\ config' = config \/ (config = NoAccount /\ config' \in Config)
  /\ collection' = collection \/ (collection = NoAccount /\ collection' \in {0, NoPlugin})

StakeInstruction ==
  \E user \in Users, a \in Assets :
    Stake(user, a) \/ ClaimRewards(user, a) \/ Unstake(user, a)

LEMMA StepKinds ==
  ASSUME Ledger, [Next]_vars
  PROVE  StakeInstruction \/ StakesKept
<1>1. ASSUME UNCHANGED <<asset, history>>,
             config' = config \/ (config = NoAccount /\ config' \in Config),
             collection' = collection \/ (collection = NoAccount /\ collection' \in {0, NoPlugin})
      PROVE  StakesKept
  BY <1>1, OtherAsset DEF StakesKept
<1>2. ASSUME NEW b \in Assets, NEW account,
             ~ Staked(b),
             asset' = [asset EXCEPT ![b] = account],
             UNCHANGED <<config, collection, history>>,
             \/ account = Burnt
             \/ account.attributes \in {NoPlugin, to_attribute_list(FALSE, 0, 0)}
      PROVE  StakesKept
  <2>1. asset'[b] = account
    BY <1>2 DEF Ledger, TypeOK
  <2>2. ~ Staked(b)'
    BY <1>2, <2>1 DEF Staked, Exists, StakeState, to_attribute_list
  <2>3. \A a \in Assets : a # b => asset'[a] = asset[a]
    BY <1>2 DEF Ledger, TypeOK
  <2>4. \A a \in Assets : /\ Staked(a)' = Staked(a)
                          /\ Staked(a) => StakeState(a)' = StakeState(a)
    <3>1. Staked(b)' = Staked(b)
      BY <1>2, <2>2 DEF Staked
    <3> QED
      BY <1>2, <2>3, <3>1, OtherAsset
  <2> QED
    BY <1>2, <2>4 DEF StakesKept
<1>3. CASE CreateCollection
  BY <1>1, <1>3 DEF CreateCollection
<1>4. CASE CreateBareCollection
  BY <1>1, <1>4 DEF CreateBareCollection
<1>5. ASSUME NEW bps \in RateChoices, NEW period \in FreezeChoices, Initialize(bps, period)
      PROVE  StakesKept
  BY <1>1, <1>5 DEF Initialize, Config
<1>6. ASSUME NEW user \in Users, NEW a \in Assets, MintAsset(user, a)
      PROVE  StakesKept
  BY <1>2, <1>6 DEF MintAsset, Staked, Exists
<1>7. ASSUME NEW a \in Assets, OwnerStep(a)
      PROVE  StakesKept
  <2>1. /\ ~ Staked(a)
        /\ UNCHANGED <<config, collection, history>>
    BY <1>7, OwnerEffect
  <2>2. PICK account \in AssetAccount :
               /\ account.attributes \in {NoPlugin, to_attribute_list(FALSE, 0, 0)}
               /\ asset' = [asset EXCEPT ![a] = account]
    BY <1>7, OwnerEffect
  <2> QED
    BY <1>2, <2>1, <2>2
<1>8. ASSUME NEW a \in Assets, Burn(a)
      PROVE  StakesKept
  BY <1>2, <1>8, StakedFrozen DEF Burn
<1>9. CASE Tick
  BY <1>1, <1>9 DEF Tick, accounts
<1>10. CASE UNCHANGED vars
  BY <1>1, <1>10 DEF vars, accounts
<1> QED
  BY <1>3, <1>4, <1>5, <1>6, <1>7, <1>8, <1>9, <1>10
  DEF Next, StakeInstruction, OwnerStep

\* The count, and why it may start from a missing attribute: nothing has been
\* staked before there is one.
Counted ==
  /\ CountIsStaked
  /\ collection \in {NoAccount, NoPlugin} => StakedAssets = {}

LEMMA CountedStep ==
  ASSUME Ledger, Counted, [Next]_vars
  PROVE  Counted'
<1> USE DEF Counted, CountIsStaked
<1>1. /\ IsFiniteSet(StakedAssets) /\ Cardinality(StakedAssets) \in Nat
      /\ Cardinality({}) = 0
  BY AssetsAssumption, FS_Subset, FS_CardinalityType, FS_EmptySet DEF StakedAssets
<1>2. Ledger'
  BY LedgerStep
<1>3. /\ collection \in Nat \cup {NoAccount, NoPlugin}
      /\ NoAccount \notin Nat /\ NoPlugin \notin Nat /\ NoAccount # NoPlugin
  BY AbsenceAssumption DEF Ledger, TypeOK
<1>4. ASSUME NEW user \in Users, NEW b \in Assets, Stake(user, b)
      PROVE  Counted'
  <2>1. /\ StakedAssets' = StakedAssets \cup {b}
        /\ b \notin StakedAssets
    BY <1>4, StakeEffect DEF StakedAssets
  <2>2. Cardinality(StakedAssets') = Cardinality(StakedAssets) + 1
    BY <1>1, <2>1, FS_AddElement
  <2>3. collection # NoAccount
    BY <1>4 DEF Stake, Ledger, Opened
  <2>4. collection' = Cardinality(StakedAssets) + 1
    <3>1. collection' = Bumped(1)
      BY <1>4 DEF Stake
    <3>2. CASE collection = NoPlugin
      BY <1>1, <1>3, <3>1, <3>2 DEF Bumped
    <3>3. CASE collection \in Nat
      BY <1>1, <1>3, <3>1, <3>3 DEF Bumped
    <3> QED
      BY <1>3, <2>3, <3>2, <3>3
  <2> QED
    BY <1>1, <1>3, <2>2, <2>4
<1>5. ASSUME NEW user \in Users, NEW b \in Assets, ClaimRewards(user, b)
      PROVE  Counted'
  <2>1. StakedAssets' = StakedAssets
    BY <1>5, ClaimEffect DEF StakedAssets
  <2> QED
    BY <1>5, <2>1 DEF ClaimRewards
<1>6. ASSUME NEW user \in Users, NEW b \in Assets, Unstake(user, b)
      PROVE  Counted'
  <2>1. /\ StakedAssets' = StakedAssets \ {b}
        /\ b \in StakedAssets
    BY <1>6, UnstakeEffect DEF StakedAssets
  <2>2. Cardinality(StakedAssets') = Cardinality(StakedAssets) - 1
    BY <1>1, <2>1, FS_RemoveElement
  <2>3. Cardinality(StakedAssets') \in Nat
    <3>1. IsFiniteSet(StakedAssets')
      BY <1>1, <2>1, FS_Subset
    <3> QED
      BY <3>1, FS_CardinalityType
  <2>4. collection' = Cardinality(StakedAssets) - 1
    BY <1>1, <1>3, <1>6, <2>1, <2>2, <2>3 DEF Unstake, Bumped
  <2> QED
    BY <1>3, <2>2, <2>3, <2>4
<1>7. CASE StakesKept
  <2>1. StakedAssets' = StakedAssets
    BY <1>7 DEF StakesKept, StakedAssets
  <2> QED
    BY <1>1, <1>3, <1>7, <2>1 DEF StakesKept
<1> QED
  BY <1>4, <1>5, <1>6, <1>7, StepKinds DEF StakeInstruction
\* The days of the current stake of an asset that have been paid.
Claimed(a) ==
  IF Staked(a) THEN WholeDays(StakeState(a).last_claim - since[a]) ELSE 0

\* The checkpoint of a stake is as many days after it as have been paid, and
\* all its days are those and the ones since the checkpoint.
LEMMA ClaimedDays ==
  ASSUME Ledger, NEW a \in Assets, Staked(a)
  PROVE  LET c == StakeState(a).last_claim
         IN  /\ Claimed(a) \in Nat
             /\ c = since[a] + Claimed(a) * SECONDS_PER_DAY
             /\ WholeDays(now - since[a]) = Claimed(a) + WholeDays(now - c)
             /\ \A n \in Nat :
                  WholeDays((c + n * SECONDS_PER_DAY) - since[a]) = Claimed(a) + n
<1> DEFINE c == StakeState(a).last_claim
<1>1. PICK k \in Nat : c = since[a] + k * SECONDS_PER_DAY
  BY DEF Ledger, Clocks, Clock
<1>2. since[a] \in Nat /\ now \in Nat /\ k * SECONDS_PER_DAY \in Nat
  BY BoundsAssumption, DayAssumption DEF Ledger, TypeOK
<1>3. c \in Nat /\ now - c \in Nat
  BY AccruedType
<1>4. ASSUME NEW n \in Nat
      PROVE  /\ WholeDays(k * SECONDS_PER_DAY + n * SECONDS_PER_DAY) = k + n
             /\ WholeDays(k * SECONDS_PER_DAY) = k
  <2>1. WholeDays(0) = 0
    BY DayAssumption, WholeDaysUnique
  <2>2. \A m \in Nat : WholeDays(m * SECONDS_PER_DAY) = m
    <3> TAKE m \in Nat
    <3>1. WholeDays(m * SECONDS_PER_DAY + 0) = m + WholeDays(0)
      BY WholeDaysSplit
    <3>2. m * SECONDS_PER_DAY + 0 = m * SECONDS_PER_DAY
      BY DayAssumption
    <3> QED
      BY <2>1, <3>1, <3>2
  <2>3. n * SECONDS_PER_DAY \in Nat
    BY DayAssumption
  <2>4. WholeDays(k * SECONDS_PER_DAY + n * SECONDS_PER_DAY)
          = k + WholeDays(n * SECONDS_PER_DAY)
    BY <2>3, WholeDaysSplit
  <2> QED
    BY <2>2, <2>4
<1> HIDE DEF c
<1>5. Claimed(a) = k
  <2>1. c - since[a] = k * SECONDS_PER_DAY
    BY <1>1, <1>2
  <2> QED
    BY <1>4, <2>1 DEF Claimed, c
<1>6. WholeDays(now - since[a]) = k + WholeDays(now - c)
  <2>1. now - since[a] = k * SECONDS_PER_DAY + (now - c)
    BY <1>1, <1>2
  <2> QED
    BY <1>3, <2>1, WholeDaysSplit
<1>7. ASSUME NEW n \in Nat
      PROVE  WholeDays((c + n * SECONDS_PER_DAY) - since[a]) = k + n
  <2>1. n * SECONDS_PER_DAY \in Nat
    BY DayAssumption
  <2>2. (c + n * SECONDS_PER_DAY) - since[a] = k * SECONDS_PER_DAY + n * SECONDS_PER_DAY
    BY <1>1, <1>2, <2>1
  <2> QED
    BY <1>4, <2>2
<1> QED
  BY <1>1, <1>5, <1>6, <1>7 DEF c

\* What EveryDayPaidOnce says of one asset.
PaidOnce(a) ==
  config # NoAccount => paid[a] = DaysReward(days[a] + Claimed(a))

LEMMA PaidOnceEquiv == EveryDayPaidOnce <=> \A a \in Assets : PaidOnce(a)
BY DEF EveryDayPaidOnce, PaidOnce, Claimed

\* An instruction on another asset, or none, leaves what was paid.
LEMMA PaidOnceKept ==
  ASSUME Ledger, NEW a \in Assets, PaidOnce(a), config # NoAccount,
         config' = config, paid'[a] = paid[a], days'[a] = days[a],
         since'[a] = since[a], Staked(a)' = Staked(a),
         Staked(a) => StakeState(a)' = StakeState(a)
  PROVE  PaidOnce(a)'
<1>1. Claimed(a)' = Claimed(a)
  BY DEF Claimed, WholeDays
<1> QED
  BY <1>1 DEF PaidOnce, DaysReward

LEMMA PaidOnceStep ==
  ASSUME Ledger, EveryDayPaidOnce, [Next]_vars, NEW a \in Assets
  PROVE  PaidOnce(a)'
<1>1. /\ PaidOnce(a) /\ days[a] \in Nat /\ paid[a] \in Nat
      /\ WholeDays(0) = 0
  BY PaidOnceEquiv, DayAssumption, WholeDaysUnique DEF Ledger, TypeOK
<1>2. CASE StakesKept /\ config # NoAccount
  <2>1. config' = config
    BY <1>2 DEF StakesKept
  <2> QED
    BY <1>1, <1>2, <2>1, PaidOnceKept DEF StakesKept, history
<1>3. CASE StakesKept /\ config = NoAccount /\ config' # NoAccount
  <2>1. config' \in Config
    BY <1>3 DEF StakesKept
  <2>2. paid'[a] = 0 /\ days'[a] = 0 /\ ~ Staked(a)'
    BY <1>3 DEF StakesKept, history, Ledger, Opened, Clocks, Clock
  <2>3. config'.rewards_bps \in Nat
    BY <2>1, ChoicesAssumption DEF Config
  <2>4. DaysReward(0)' = 0
    BY <2>3 DEF DaysReward
  <2>5. (days[a] + Claimed(a))' = 0
    BY <2>2 DEF Claimed
  <2> QED
    BY <2>2, <2>4, <2>5 DEF PaidOnce, DaysReward
<1>4. ASSUME NEW user \in Users, NEW b \in Assets, Stake(user, b)
      PROVE  PaidOnce(a)'
  <2>1. /\ config # NoAccount /\ config' = config
        /\ paid' = paid /\ days' = days
    BY <1>4 DEF Stake
  <2>2. CASE a = b
    <3>1. /\ Staked(a)' /\ ~ Staked(a)
          /\ StakeState(a)'.last_claim = now /\ since'[a] = now
      <4>1. since'[a] = now
        BY <1>4, <2>2 DEF Stake, Ledger, TypeOK
      <4>2. Staked(a)' /\ ~ Staked(a) /\ StakeState(a)' = to_attribute_list(TRUE, now, now)
        BY <1>4, <2>2, StakeEffect
      <4> QED
        BY <4>1, <4>2 DEF to_attribute_list
    <3>2. now \in Nat
      BY BoundsAssumption DEF Ledger, TypeOK
    <3>3. Claimed(a) = 0
      BY <3>1 DEF Claimed
    <3>4. Claimed(a)' = 0
      BY <1>1, <3>1, <3>2 DEF Claimed, WholeDays
    <3> QED
      BY <1>1, <2>1, <3>3, <3>4 DEF PaidOnce, DaysReward
  <2>3. CASE a # b
    <3>1. since'[a] = since[a] /\ Staked(a)' = Staked(a) /\ StakeState(a)' = StakeState(a)
      BY <1>4, <2>3, StakeEffect DEF Stake, Ledger, TypeOK
    <3> QED
      BY <1>1, <2>1, <3>1, PaidOnceKept
  <2> QED
    BY <2>2, <2>3
<1>5. ASSUME NEW user \in Users, NEW b \in Assets, ClaimRewards(user, b)
      PROVE  PaidOnce(a)'
  <2> DEFINE c == StakeState(b).last_claim
             n == WholeDays(now - c)
  <2>1. /\ TypeOK /\ Staked(b) /\ config' = config /\ days' = days /\ since' = since
        /\ MintRewards(user, b, accrued_rewards(c).amount)
    BY <1>5 DEF ClaimRewards, Ledger
  <2>2. /\ config \in Config /\ config # NoAccount /\ n \in Nat
        /\ accrued_rewards(c).amount = DaysReward(n)
        /\ accrued_rewards(c).amount \in Nat
        /\ accrued_rewards(c).checkpoint = c + n * SECONDS_PER_DAY
    BY <2>1, AccruedType DEF Ledger, Clocks, Clock
  <2>3. CASE a = b
    <3>1. StakeState(a)'.last_claim = c + n * SECONDS_PER_DAY /\ Staked(a)'
      BY <1>5, <2>2, <2>3, ClaimEffect DEF to_attribute_list
    <3>2. Claimed(a) \in Nat /\ WholeDays((c + n * SECONDS_PER_DAY) - since[a]) = Claimed(a) + n
      BY <2>1, <2>2, <2>3, ClaimedDays
    <3>3. Claimed(a)' = Claimed(a) + n
      <4>1. Claimed(a)' = WholeDays(StakeState(a)'.last_claim - since'[a])
        BY <3>1 DEF Claimed, WholeDays
      <4>2. since'[a] = since[a]
        BY <2>1
      <4> HIDE DEF c, n
      <4>3. Claimed(a)' = WholeDays((c + n * SECONDS_PER_DAY) - since[a])
        BY <3>1, <4>1, <4>2
      <4> QED
        BY <3>2, <4>3
    <3>4. paid'[a] = paid[a] + DaysReward(n)
      BY <1>5, <2>1, <2>2, <2>3, MintRewardsType
    <3> HIDE DEF n
    <3>5. DaysReward(days[a] + Claimed(a) + n)
            = DaysReward(days[a] + Claimed(a)) + DaysReward(n)
      <4>1. days[a] + Claimed(a) \in Nat
        BY <1>1, <3>2
      <4> QED
        BY <2>2, <4>1, DaysRewardLinear
    <3>6. days'[a] + Claimed(a)' = days[a] + Claimed(a) + n
      BY <1>1, <2>1, <2>2, <3>2, <3>3
    <3>7. paid'[a] = DaysReward(days'[a] + Claimed(a)')
      BY <1>1, <2>2, <3>4, <3>5, <3>6 DEF PaidOnce
    <3> QED
      BY <2>1, <3>7 DEF PaidOnce, DaysReward
  <2>4. CASE a # b
    <3>1. Staked(a)' = Staked(a) /\ StakeState(a)' = StakeState(a)
      BY <1>5, <2>4, ClaimEffect
    <3>2. paid'[a] = paid[a]
      BY <1>5, <2>1, <2>2, <2>4, MintRewardsType
    <3> QED
      BY <1>1, <2>1, <2>2, <3>1, <3>2, PaidOnceKept
  <2> QED
    BY <2>3, <2>4
<1>6. ASSUME NEW user \in Users, NEW b \in Assets, Unstake(user, b)
      PROVE  PaidOnce(a)'
  <2> DEFINE c == StakeState(b).last_claim
             n == WholeDays(now - c)
  <2>1. /\ TypeOK /\ Staked(b) /\ config' = config /\ since' = since
        /\ MintRewards(user, b, accrued_rewards(c).amount)
        /\ days' = [days EXCEPT ![b] = @ + WholeDays(now - since[b])]
    BY <1>6 DEF Unstake, MayUnstake, Served, Ledger
  <2>2. /\ config \in Config /\ config # NoAccount /\ n \in Nat
        /\ accrued_rewards(c).amount = DaysReward(n)
        /\ accrued_rewards(c).amount \in Nat
    BY <2>1, AccruedType DEF Ledger, Clocks, Clock
  <2>3. CASE a = b
    <3>1. Claimed(a)' = 0
      BY <1>6, <2>3, UnstakeEffect DEF Claimed
    <3>2. Claimed(a) \in Nat /\ WholeDays(now - since[a]) = Claimed(a) + n
      BY <2>1, <2>3, ClaimedDays
    <3>3. days'[a] = days[a] + (Claimed(a) + n)
      BY <2>1, <2>3, <3>2 DEF TypeOK
    <3>4. paid'[a] = paid[a] + DaysReward(n)
      BY <1>6, <2>1, <2>2, <2>3, MintRewardsType
    <3> HIDE DEF n
    <3>5. DaysReward(days[a] + Claimed(a) + n)
            = DaysReward(days[a] + Claimed(a)) + DaysReward(n)
      <4>1. days[a] + Claimed(a) \in Nat
        BY <1>1, <3>2
      <4> QED
        BY <2>2, <4>1, DaysRewardLinear
    <3>6. days'[a] + Claimed(a)' = days[a] + Claimed(a) + n
      BY <1>1, <2>2, <3>1, <3>2, <3>3
    <3>7. paid'[a] = DaysReward(days'[a] + Claimed(a)')
      BY <1>1, <2>2, <3>4, <3>5, <3>6 DEF PaidOnce
    <3> QED
      BY <2>1, <3>7 DEF PaidOnce, DaysReward
  <2>4. CASE a # b
    <3>1. Staked(a)' = Staked(a) /\ StakeState(a)' = StakeState(a)
      BY <1>6, <2>4, UnstakeEffect
    <3>2. paid'[a] = paid[a] /\ days'[a] = days[a]
      BY <1>6, <2>1, <2>2, <2>4, MintRewardsType DEF TypeOK
    <3> QED
      BY <1>1, <2>1, <2>2, <3>1, <3>2, PaidOnceKept
  <2> QED
    BY <2>3, <2>4
<1>7. CASE StakesKept /\ config' = NoAccount
  BY <1>7 DEF PaidOnce
<1> QED
  BY <1>2, <1>3, <1>4, <1>5, <1>6, <1>7, StepKinds DEF StakeInstruction

-------------------------------------------------------------------------------
(***************************************************************************)
(* What unstake loses.  NoRoundingLoss is refuted: unstake drops the part  *)
(* of a day that is left over.  It drops no more than that.                *)
(***************************************************************************)
\* The stakes of an asset that have ended.
Ended(a) == stakes[a] - (IF Staked(a) THEN 1 ELSE 0)

\* The seconds of the ended stakes are their whole days and, for each stake,
\* less than a day more.
Loss(a) ==
  /\ Ended(a) \in Nat
  /\ days[a] * SECONDS_PER_DAY <= served[a]
  /\ served[a] <= days[a] * SECONDS_PER_DAY + Ended(a) * (SECONDS_PER_DAY - 1)

LossKept == \A a \in Assets : Loss(a)

LEMMA LossStep ==
  ASSUME Ledger, LossKept, [Next]_vars
  PROVE  LossKept'
<1> SUFFICES ASSUME NEW a \in Assets PROVE Loss(a)'
  BY DEF LossKept
<1>1. /\ Loss(a) /\ days[a] \in Nat /\ served[a] \in Nat /\ stakes[a] \in Nat
  BY BoundsAssumption DEF LossKept, Ledger, TypeOK
<1>2. ASSUME Staked(a)' = Staked(a), stakes'[a] = stakes[a],
             days'[a] = days[a], served'[a] = served[a]
      PROVE  Loss(a)'
  BY <1>1, <1>2 DEF Loss, Ended
<1>3. CASE StakesKept
  BY <1>2, <1>3 DEF StakesKept, history
<1>4. ASSUME NEW user \in Users, NEW b \in Assets, Stake(user, b)
      PROVE  Loss(a)'
  <2>1. days' = days /\ served' = served /\ stakes' = [stakes EXCEPT ![b] = @ + 1]
    BY <1>4 DEF Stake
  <2>2. CASE a = b
    <3>1. Staked(a)' /\ ~ Staked(a)
      BY <1>4, <2>2, StakeEffect
    <3>2. stakes'[a] = stakes[a] + 1
      BY <2>1, <2>2 DEF Ledger, TypeOK
    <3>3. Ended(a)' = Ended(a)
      BY <1>1, <3>1, <3>2 DEF Ended
    <3> QED
      BY <1>1, <2>1, <3>3 DEF Loss
  <2>3. CASE a # b
    <3>1. Staked(a)' = Staked(a)
      BY <1>4, <2>3, StakeEffect
    <3>2. stakes'[a] = stakes[a]
      BY <2>1, <2>3 DEF Ledger, TypeOK
    <3> QED
      BY <1>2, <2>1, <3>1, <3>2
  <2> QED
    BY <2>2, <2>3
<1>5. ASSUME NEW user \in Users, NEW b \in Assets, ClaimRewards(user, b)
      PROVE  Loss(a)'
  <2>1. days' = days /\ served' = served /\ stakes' = stakes
    BY <1>5 DEF ClaimRewards
  <2>2. CASE a = b
    <3>1. Staked(a)' /\ Staked(a)
      BY <1>5, <2>2, ClaimEffect
    <3>2. Staked(a)' = Staked(a)
      BY <3>1 DEF Staked
    <3> QED
      BY <1>2, <2>1, <3>2
  <2>3. CASE a # b
    <3>1. Staked(a)' = Staked(a)
      BY <1>5, <2>3, ClaimEffect
    <3> QED
      BY <1>2, <2>1, <3>1
  <2> QED
    BY <2>2, <2>3
<1>6. ASSUME NEW user \in Users, NEW b \in Assets, Unstake(user, b)
      PROVE  Loss(a)'
  <2>1. /\ days' = [days EXCEPT ![b] = @ + WholeDays(now - since[b])]
        /\ served' = [served EXCEPT ![b] = @ + now - since[b]]
        /\ stakes' = stakes
    BY <1>6 DEF Unstake, Served
  <2>2. CASE a = b
    <3> DEFINE t == now - since[a]
               n == WholeDays(t)
               e == Ended(a)
    <3>1. Staked(a) /\ ~ Staked(a)'
      BY <1>6, <2>2, UnstakeEffect
    <3>2. t \in Nat
      BY BoundsAssumption DEF Ledger, TypeOK
    <3>3. n \in Nat /\ n * SECONDS_PER_DAY <= t
          /\ t < n * SECONDS_PER_DAY + SECONDS_PER_DAY
      BY <3>2, WholeDaysBounds
    <3>4. Ended(a)' = e + 1
      BY <1>1, <2>1, <3>1 DEF Ended
    <3>5. e \in Nat
      BY <1>1 DEF Loss
    <3>6. days'[a] = days[a] + n
      BY <2>1, <2>2 DEF Ledger, TypeOK
    <3>7. served'[a] = served[a] + t
      <4>1. now \in Nat /\ since[a] \in Nat
        BY BoundsAssumption DEF Ledger, TypeOK
      <4> QED
        BY <1>1, <2>1, <2>2, <4>1 DEF Ledger, TypeOK
    <3> HIDE DEF t, n, e
    <3>8. (days[a] + n) * SECONDS_PER_DAY
            = days[a] * SECONDS_PER_DAY + n * SECONDS_PER_DAY
      BY <1>1, <3>3, DayAssumption
    <3>9. (e + 1) * (SECONDS_PER_DAY - 1)
            = e * (SECONDS_PER_DAY - 1) + (SECONDS_PER_DAY - 1)
      BY <3>5, DayAssumption
    <3> DEFINE D == days[a] * SECONDS_PER_DAY
               N == n * SECONDS_PER_DAY
               E == e * (SECONDS_PER_DAY - 1)
    <3>10. D \in Nat /\ N \in Nat /\ E \in Nat
      BY <1>1, <3>3, <3>5, DayAssumption
    <3>11. D <= served[a] /\ served[a] <= D + E
      BY <1>1 DEF Loss, e
    <3> HIDE DEF D, N, E
    <3>12. D + N <= served[a] + t
      BY <1>1, <3>2, <3>3, <3>10, <3>11 DEF N
    <3>13. t <= N + (SECONDS_PER_DAY - 1)
      BY <3>2, <3>3, <3>10, DayAssumption DEF N
    <3>14. served[a] + t <= (D + N) + (E + (SECONDS_PER_DAY - 1))
      BY <1>1, <3>2, <3>10, <3>11, <3>13, DayAssumption
    <3>15. days'[a] * SECONDS_PER_DAY = D + N
      BY <3>6, <3>8 DEF D, N
    <3>16. Ended(a)' * (SECONDS_PER_DAY - 1) = E + (SECONDS_PER_DAY - 1)
      BY <3>4, <3>9 DEF E
    <3>17. Ended(a)' \in Nat
      BY <3>4, <3>5
    <3> QED
      BY <3>7, <3>12, <3>14, <3>15, <3>16, <3>17 DEF Loss
  <2>3. CASE a # b
    <3>1. Staked(a)' = Staked(a)
      BY <1>6, <2>3, UnstakeEffect
    <3>2. days'[a] = days[a] /\ served'[a] = served[a]
      BY <2>1, <2>3 DEF Ledger, TypeOK
    <3> QED
      BY <1>2, <2>1, <3>1, <3>2
  <2> QED
    BY <2>2, <2>3
<1> QED
  BY <1>3, <1>4, <1>5, <1>6, StepKinds DEF StakeInstruction

-------------------------------------------------------------------------------
(***************************************************************************)
(* Theorems of the specification.                                          *)
(***************************************************************************)
IInv == Ledger /\ Counted /\ EveryDayPaidOnce

LEMMA IInvInit == Init => IInv
<1> SUFFICES ASSUME Init PROVE IInv
  OBVIOUS
<1>1. StakedAssets = {}
  BY DEF Init, StakedAssets, Staked, Exists
<1>2. Counted
  BY <1>1, AbsenceAssumption DEF Init, Counted, CountIsStaked
<1>3. EveryDayPaidOnce
  BY DEF Init, EveryDayPaidOnce
<1> QED
  BY <1>2, <1>3, LedgerInit DEF IInv

LEMMA IInvStep == IInv /\ [Next]_vars => IInv'
<1> SUFFICES ASSUME IInv, [Next]_vars PROVE IInv'
  OBVIOUS
<1>1. Ledger' /\ Counted'
  BY LedgerStep, CountedStep DEF IInv
<1>2. \A a \in Assets : PaidOnce(a)'
  BY PaidOnceStep DEF IInv
<1>3. EveryDayPaidOnce'
  <2>1. \A a \in Assets : Claimed(a)' = (IF Staked(a) THEN
          WholeDays(StakeState(a).last_claim - since[a]) ELSE 0)'
    BY DEF Claimed
  <2> QED
    BY <1>2, <2>1 DEF EveryDayPaidOnce, PaidOnce, DaysReward
<1> QED
  BY <1>1, <1>3 DEF IInv

LEMMA IInvHolds == Spec => []IInv
BY IInvInit, IInvStep, PTL DEF Spec

\* The accounts keep their layouts: in particular what is not staked carries no
\* timestamps (stake.rs and unstake.rs write all three attributes).
THEOREM TypeCorrect == Spec => []TypeOK
<1>1. IInv => TypeOK
  BY DEF IInv, Ledger
<1> QED
  BY <1>1, IInvHolds, PTL

\* While its attributes say that an asset is staked it is frozen, by a plugin
\* that only the program can thaw, whatever its owners did to the freeze plugin
\* between stakes.
THEOREM StakedAlwaysFrozen == Spec => []FrozenWhileStaked
<1>1. IInv => FrozenWhileStaked
  BY DEF IInv, Ledger
<1> QED
  BY <1>1, IInvHolds, PTL

\* The collection's total_staked, kept by +1 and -1 with a saturating floor and
\* a default for the missing attribute, is the number of assets staked.
THEOREM CountAlwaysIsStaked == Spec => []CountIsStaked
<1>1. IInv => CountIsStaked
  BY DEF IInv, Counted
<1> QED
  BY <1>1, IInvHolds, PTL

\* However claims split a stake, each of its whole days is paid exactly once.
THEOREM EveryDayAlwaysPaidOnce == Spec => []EveryDayPaidOnce
<1>1. IInv => EveryDayPaidOnce
  BY DEF IInv
<1> QED
  BY <1>1, IInvHolds, PTL

\* claim_rewards and unstake check only who owns the asset now; the freeze
\* makes the one they pay the wallet that staked.
THEOREM RewardsAlwaysFollowStaker == Spec => RewardsFollowStaker
<1> DEFINE Follows ==
      \A a \in Assets :
        paid'[a] # paid[a] =>
          rewards'[staker[a]] - rewards[staker[a]] = paid'[a] - paid[a]
<1>1. IInv /\ [Next]_vars => [Follows]_vars
  <2> SUFFICES ASSUME IInv, [Next]_vars, NEW a \in Assets, paid'[a] # paid[a]
               PROVE  rewards'[staker[a]] - rewards[staker[a]] = paid'[a] - paid[a]
    OBVIOUS
  <2>1. Ledger /\ TypeOK
    BY DEF IInv, Ledger
  <2>2. ASSUME NEW user \in Users, NEW b \in Assets, NEW amount \in Nat,
               Staked(b), asset[b].owner = user, MintRewards(user, b, amount)
        PROVE  rewards'[staker[a]] - rewards[staker[a]] = paid'[a] - paid[a]
    <3>1. a = b /\ paid'[b] = paid[b] + amount /\ rewards'[user] = rewards[user] + amount
      BY <2>1, <2>2, MintRewardsType
    <3>2. staker[b] = user
      BY <2>1, <2>2 DEF Ledger, StakerOwns
    <3>3. paid[b] \in Nat /\ rewards[user] \in Nat
      BY <2>1 DEF TypeOK
    <3> QED
      BY <3>1, <3>2, <3>3
  <2>3. ASSUME NEW user \in Users, NEW b \in Assets, ClaimRewards(user, b)
        PROVE  rewards'[staker[a]] - rewards[staker[a]] = paid'[a] - paid[a]
    BY <2>1, <2>2, <2>3, AccruedType DEF ClaimRewards
  <2>4. ASSUME NEW user \in Users, NEW b \in Assets, Unstake(user, b)
        PROVE  rewards'[staker[a]] - rewards[staker[a]] = paid'[a] - paid[a]
    BY <2>1, <2>2, <2>4, AccruedType DEF Unstake, MayUnstake
  <2>5. ASSUME NEW user \in Users, NEW b \in Assets, Stake(user, b)
        PROVE  FALSE
    BY <2>5 DEF Stake
  <2>6. ~ StakesKept
    BY DEF StakesKept, history
  <2> QED
    BY <2>1, <2>3, <2>4, <2>5, <2>6, StepKinds DEF StakeInstruction
<1> QED
  BY <1>1, IInvHolds, PTL DEF Spec, RewardsFollowStaker

\* No stake ends before the freeze period, in seconds, has passed: claims move
\* the reward clock and not the freeze clock.
THEOREM FreezePeriodAlwaysServed == Spec => FreezePeriodServed
<1> DEFINE Servedout ==
      \A a \in Assets :
        Staked(a) /\ ~ Staked(a)' =>
          now - since[a] >= config.freeze_period * SECONDS_PER_DAY
<1>1. IInv /\ [Next]_vars => [Servedout]_vars
  <2> SUFFICES ASSUME IInv, [Next]_vars, NEW a \in Assets, Staked(a), ~ Staked(a)'
               PROVE  now - since[a] >= config.freeze_period * SECONDS_PER_DAY
    OBVIOUS
  <2>1. Ledger
    BY DEF IInv
  <2>2. ASSUME NEW user \in Users, NEW b \in Assets, Unstake(user, b)
        PROVE  now - since[a] >= config.freeze_period * SECONDS_PER_DAY
    <3> DEFINE w == WholeDays(now - since[a])
               f == config.freeze_period
    <3>1. a = b
      BY <2>1, <2>2, UnstakeEffect
    <3>2. w >= f
      <4>1. StakeState(a).staked_at = since[a]
        BY <2>1 DEF Ledger, Clocks, Clock
      <4> QED
        BY <2>2, <3>1, <4>1 DEF Unstake, MayUnstake
    <3>3. f \in Nat
      BY <2>1, ChoicesAssumption DEF Ledger, TypeOK, Clocks, Clock, Config
    <3>4. now - since[a] \in Nat
      BY <2>1, BoundsAssumption DEF Ledger, TypeOK
    <3>5. w \in Nat /\ w * SECONDS_PER_DAY <= now - since[a]
      BY <3>4, WholeDaysBounds
    <3> HIDE DEF w, f
    <3>6. (w - f) * SECONDS_PER_DAY >= 0
      BY <3>2, <3>3, <3>5, DayAssumption
    <3>7. (w - f) * SECONDS_PER_DAY = w * SECONDS_PER_DAY - f * SECONDS_PER_DAY
      BY <3>3, <3>5, DayAssumption
    <3>8. w * SECONDS_PER_DAY \in Nat /\ f * SECONDS_PER_DAY \in Nat
      BY <3>3, <3>5, DayAssumption
    <3> QED
      BY <3>4, <3>5, <3>6, <3>7, <3>8 DEF f
  <2>3. ASSUME NEW user \in Users, NEW b \in Assets, Stake(user, b)
        PROVE  FALSE
    BY <2>1, <2>3, StakeEffect
  <2>4. ASSUME NEW user \in Users, NEW b \in Assets, ClaimRewards(user, b)
        PROVE  FALSE
    BY <2>1, <2>4, ClaimEffect
  <2>5. ~ StakesKept
    BY DEF StakesKept
  <2> QED
    BY <2>1, <2>2, <2>3, <2>4, <2>5, StepKinds DEF StakeInstruction
<1> QED
  BY <1>1, IInvHolds, PTL DEF Spec, FreezePeriodServed

\* The checks of unstake pass for the wallet that staked as soon as the freeze
\* period, in seconds, has passed: no claim, transfer attempt or other stake in
\* between makes one of them fail later.
THEOREM UnstakeNeverPostponed ==
  Spec => [](\A a \in Assets :
               Staked(a) /\ now - since[a] >= config.freeze_period * SECONDS_PER_DAY
                 => MayUnstake(staker[a], a))
<1>1. IInv => \A a \in Assets :
                Staked(a) /\ now - since[a] >= config.freeze_period * SECONDS_PER_DAY
                  => MayUnstake(staker[a], a)
  <2> SUFFICES ASSUME IInv, NEW a \in Assets, Staked(a),
                      now - since[a] >= config.freeze_period * SECONDS_PER_DAY
               PROVE  MayUnstake(staker[a], a)
    OBVIOUS
  <2>1. Ledger
    BY DEF IInv
  <2>2. asset[a].owner = staker[a]
    BY <2>1 DEF Ledger, StakerOwns
  <2>3. StakeState(a).staked_at = since[a] /\ config \in Config
    BY <2>1 DEF Ledger, TypeOK, Clocks, Clock
  <2> DEFINE d == now - since[a]
             n == config.freeze_period
  <2>4. d \in Nat
    <3>1. StakeState(a).last_claim <= now
      BY <2>1 DEF Ledger, Clocks, Clock
    <3>2. PICK k \in Nat : StakeState(a).last_claim = since[a] + k * SECONDS_PER_DAY
      BY <2>1 DEF Ledger, Clocks, Clock
    <3>3. k * SECONDS_PER_DAY \in Nat /\ since[a] \in Nat /\ now \in Nat
      BY <2>1, DayAssumption, BoundsAssumption DEF Ledger, TypeOK
    <3> QED
      BY <3>1, <3>2, <3>3
  <2>5. n \in Nat /\ n * SECONDS_PER_DAY <= d
    BY <2>3, <2>4, ChoicesAssumption DEF Config
  <2> HIDE DEF d, n
  <2>6. WholeDays(d) >= n
    BY <2>4, <2>5, WholeDaysReached
  <2>7. FreezeIsPrograms(a)
    BY <2>1, StakedFrozen
  <2> QED
    BY <2>2, <2>3, <2>6, <2>7 DEF MayUnstake, d, n
<1> QED
  BY <1>1, IInvHolds, PTL

\* The README's "no rounding loss" (README.md:58-59) does not hold across stakes
\* (NoRoundingLoss), but the loss is bounded: what an asset was paid is the
\* reward of whole days that fall short of the seconds it was staked by less
\* than a day for each of its stakes, wherever claims came.
THEOREM LossUnderADayPerStake ==
  Spec => [](\A a \in Assets :
               config # NoAccount /\ ~ Staked(a) =>
                 \E d \in Nat :
                   /\ paid[a] = DaysReward(d)
                   /\ d * SECONDS_PER_DAY <= served[a]
                   /\ served[a] - d * SECONDS_PER_DAY
                        <= stakes[a] * (SECONDS_PER_DAY - 1))
<1> DEFINE Bounded ==
      \A a \in Assets :
        config # NoAccount /\ ~ Staked(a) =>
          \E d \in Nat :
            /\ paid[a] = DaysReward(d)
            /\ d * SECONDS_PER_DAY <= served[a]
            /\ served[a] - d * SECONDS_PER_DAY
                 <= stakes[a] * (SECONDS_PER_DAY - 1)
<1>1. Init => LossKept
  <2>1. ASSUME Init, NEW a \in Assets PROVE Loss(a)
    <3>1. ~ Staked(a)
      BY <2>1 DEF Init, Staked, Exists
    <3>2. Ended(a) = 0 /\ days[a] = 0 /\ served[a] = 0
      BY <2>1, <3>1 DEF Init, Ended
    <3> QED
      BY <3>2, DayAssumption DEF Loss
  <2> QED
    BY <2>1 DEF LossKept
<1>2. IInv /\ LossKept /\ [Next]_vars => LossKept'
  BY LossStep DEF IInv
<1>3. IInv /\ LossKept => Bounded
  <2> SUFFICES ASSUME IInv, LossKept, NEW a \in Assets, config # NoAccount, ~ Staked(a)
               PROVE  /\ days[a] \in Nat
                      /\ paid[a] = DaysReward(days[a])
                      /\ days[a] * SECONDS_PER_DAY <= served[a]
                      /\ served[a] - days[a] * SECONDS_PER_DAY
                           <= stakes[a] * (SECONDS_PER_DAY - 1)
    OBVIOUS
  <2>1. /\ days[a] \in Nat /\ served[a] \in Nat /\ stakes[a] \in Nat
    BY BoundsAssumption DEF IInv, Ledger, TypeOK
  <2>2. paid[a] = DaysReward(days[a])
    <3>1. paid[a] = DaysReward(days[a] + 0)
      BY DEF IInv, EveryDayPaidOnce
    <3> QED
      BY <2>1, <3>1
  <2>3. Ended(a) = stakes[a]
    BY <2>1 DEF Ended
  <2> DEFINE D == days[a] * SECONDS_PER_DAY
             L == stakes[a] * (SECONDS_PER_DAY - 1)
  <2>4. D \in Nat /\ L \in Nat
    BY <2>1, DayAssumption
  <2>5. D <= served[a] /\ served[a] <= D + L
    BY <2>3 DEF LossKept, Loss
  <2> HIDE DEF D, L
  <2>6. served[a] - D <= L
    BY <2>1, <2>4, <2>5
  <2> QED
    BY <2>1, <2>2, <2>5, <2>6 DEF D, L
<1> QED
  BY <1>1, <1>2, <1>3, IInvHolds, PTL DEF Spec
================================================================================
