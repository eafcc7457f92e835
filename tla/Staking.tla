-------------------------------- MODULE Staking --------------------------------
(***************************************************************************)
(* NFT-core-staking: freeze staking of the Core assets of one collection.  *)
(* There is no account per stake: the stake is three attributes and a      *)
(* freeze plugin on the asset, the statistics are one attribute of the     *)
(* collection, and both are owned by the Core program, which also lets     *)
(* owners transfer and burn what is not frozen, and manage the freeze      *)
(* plugin themselves: it is an owner-managed one.                          *)
(*                                                                         *)
(* A step is a transaction.  Accounts of different collections are         *)
(* disjoint (every seed holds the collection), so one is enough.           *)
(***************************************************************************)
EXTENDS Integers, FiniteSets

CONSTANTS
  Users,            \* wallets
  Assets,           \* keypairs of assets minted into the collection
  RateChoices,      \* rewards_bps passed to initialize
  FreezeChoices,    \* freeze_period passed to initialize, in days
  SECONDS_PER_DAY,
  MaxTime,          \* bound: the last second
  MaxStakes,        \* bound: stakes of one asset
  NoAccount, NoPlugin, Burnt

\* Both are u16; nothing below depends on the width.
ASSUME ChoicesAssumption == RateChoices \subseteq Nat /\ FreezeChoices \subseteq Nat

ASSUME DayAssumption == SECONDS_PER_DAY \in Nat \ {0}

ASSUME AssetsAssumption == IsFiniteSet(Assets)

ASSUME BoundsAssumption == MaxTime \in Nat \ {0} /\ MaxStakes \in Nat

VARIABLES
  now,          \* the clock, in seconds
  config,       \* the Config account, or NoAccount
  collection,   \* NoAccount, NoPlugin or its attribute total_staked
  asset,        \* each asset's account, NoAccount or Burnt
  rewards,      \* each wallet's balance of the rewards token
  staker,       \* history: who staked each asset last, or NoAccount
  since,        \* history: when
  days,         \* history: whole days of each asset's completed stakes
  served,       \* history: seconds of each asset's completed stakes
  paid,         \* history: what was minted for each asset
  stakes        \* how often each asset was staked

accounts == <<config, collection, asset, rewards>>
history  == <<staker, since, days, served, paid, stakes>>
vars     == <<now, accounts, history>>

-------------------------------------------------------------------------------
\* The managed attributes of an asset.  Other attributes are kept as they are.
Attributes == [staked : BOOLEAN, staked_at : Nat, last_claim : Nat]

\* A freeze plugin and who may update it: the owner or, as stake asks for, the
\* update authority, which is the program's PDA.
FreezeDelegate == [frozen : BOOLEAN, authority : {"Owner", "UpdateAuthority"}]

AssetAccount ==
  [owner : Users, attributes : Attributes \cup {NoPlugin},
   freeze : FreezeDelegate \cup {NoPlugin}]

Config == [rewards_bps : RateChoices, freeze_period : FreezeChoices]

\* What stands for a missing account or plugin is told apart from one.
ASSUME AbsenceAssumption ==
  /\ NoAccount # NoPlugin /\ NoAccount # Burnt
  /\ NoAccount \notin AssetAccount \cup Config \cup Nat
  /\ Burnt \notin AssetAccount
  /\ NoPlugin \notin Attributes \cup FreezeDelegate \cup Nat

to_attribute_list(staked, staked_at, last_claim) ==
  [staked |-> staked, staked_at |-> staked_at, last_claim |-> last_claim]

Exists(a) == asset[a] \notin {NoAccount, Burnt}

\* What AssetStakeState::read finds: without the plugin, nothing is staked.
StakeState(a) ==
  IF asset[a].attributes = NoPlugin THEN to_attribute_list(FALSE, 0, 0)
  ELSE asset[a].attributes

Staked(a) == Exists(a) /\ StakeState(a).staked

HasFreeze(a) == asset[a].freeze # NoPlugin

Frozen(a) == HasFreeze(a) /\ asset[a].freeze.frozen

\* What the program's PDA may freeze and thaw.
FreezeIsPrograms(a) ==
  HasFreeze(a) /\ asset[a].freeze.authority = "UpdateAuthority"

\* The freeze plugin of a staked asset.
ProgramFreeze == [frozen |-> TRUE, authority |-> "UpdateAuthority"]

StakedAssets == {a \in Assets : Staked(a)}

WholeDays(duration) == duration \div SECONDS_PER_DAY

\* Base units for a number of days: 6 decimals, a rate in basis points.
DaysReward(n) == (n * config.rewards_bps * 1000000) \div 10000

\* Faulty variant: the checkpoint moves to the present.
accrued_rewards_ToNow(checkpoint) ==
  [amount     |-> DaysReward(WholeDays(now - checkpoint)),
   checkpoint |-> now]

\* accrued_rewards: the amount owed since the checkpoint and the new one,
\* which moves on by the days that are paid.  The clock does not go back.
accrued_rewards(checkpoint) ==
  LET n == WholeDays(now - checkpoint)
  IN  [amount     |-> DaysReward(n),
       checkpoint |-> checkpoint + n * SECONDS_PER_DAY]

\* Faulty variant: a missing attribute is created without counting.
Bumped_OnlyIfPresent(delta) ==
  IF collection = NoPlugin THEN 0 ELSE collection + delta

\* bump_collection_total_staked: a missing attribute counts as 0.
Bumped(delta) ==
  LET updated == (IF collection = NoPlugin THEN 0 ELSE collection) + delta
  IN  IF updated < 0 THEN 0 ELSE updated

Served(a) ==
  /\ days' = [days EXCEPT ![a] = @ + WholeDays(now - since[a])]
  /\ served' = [served EXCEPT ![a] = @ + now - since[a]]

MintRewards(user, a, amount) ==
  /\ rewards' = [rewards EXCEPT ![user] = @ + amount]
  /\ paid' = [paid EXCEPT ![a] = @ + amount]

-------------------------------------------------------------------------------
(***************************************************************************)
(* Faulty variants of the instructions: plausible slips, used by no        *)
(* specification.                                                          *)
(***************************************************************************)
Stake_As(user, a, freeze) ==
  /\ Exists(a) /\ asset[a].owner = user
  /\ config # NoAccount
  /\ ~ Staked(a)
  /\ stakes[a] < MaxStakes
  /\ asset' = [asset EXCEPT
       ![a].attributes = to_attribute_list(TRUE, now, now),
       ![a].freeze = freeze]
  /\ collection' = Bumped(1)
  /\ staker' = [staker EXCEPT ![a] = user]
  /\ since' = [since EXCEPT ![a] = now]
  /\ stakes' = [stakes EXCEPT ![a] = @ + 1]
  /\ UNCHANGED <<now, config, rewards, days, served, paid>>

\* A freeze plugin that is already there is taken to be frozen.
Stake_TrustsPlugin(user, a) ==
  Stake_As(user, a, IF HasFreeze(a) THEN asset[a].freeze ELSE ProgramFreeze)

\* The plugin is added without naming its authority: it is the owner's.
Stake_NoAuthority(user, a) ==
  /\ Exists(a) /\ (HasFreeze(a) => FreezeIsPrograms(a))
  /\ Stake_As(user, a, IF HasFreeze(a) THEN ProgramFreeze
                       ELSE [frozen |-> TRUE, authority |-> "Owner"])

\* One clock: a claim moves staked_at as well.
ClaimRewards_OneClock(user, a) ==
  LET accrued == accrued_rewards(asset[a].attributes.last_claim)
  IN  /\ Staked(a) /\ asset[a].owner = user
      /\ accrued.amount > 0
      /\ asset' = [asset EXCEPT ![a].attributes =
                     to_attribute_list(TRUE, accrued.checkpoint, accrued.checkpoint)]
      /\ MintRewards(user, a, accrued.amount)
      /\ UNCHANGED <<now, config, collection, staker, since, days, served, stakes>>

\* The freeze period counts days begun; or the clocks are left behind.
Unstake_As(user, a, daysServed, attributes) ==
  /\ Staked(a) /\ asset[a].owner = user
  /\ daysServed >= config.freeze_period
  /\ asset' = [asset EXCEPT ![a].attributes = attributes, ![a].freeze.frozen = FALSE]
  /\ MintRewards(user, a, accrued_rewards(asset[a].attributes.last_claim).amount)
  /\ collection' = Bumped(-1)
  /\ Served(a)
  /\ UNCHANGED <<now, config, staker, since, stakes>>

Unstake_RoundsUp(user, a) ==
  Unstake_As(user, a,
             WholeDays(now - StakeState(a).staked_at + SECONDS_PER_DAY - 1),
             to_attribute_list(FALSE, 0, 0))

Unstake_KeepsClocks(user, a) ==
  Unstake_As(user, a, WholeDays(now - StakeState(a).staked_at),
             [StakeState(a) EXCEPT !.staked = FALSE])

-------------------------------------------------------------------------------
Init ==
  /\ now = 1
  /\ config = NoAccount
  /\ collection = NoAccount
  /\ asset = [a \in Assets |-> NoAccount]
  /\ rewards = [u \in Users |-> 0]
  /\ staker = [a \in Assets |-> NoAccount]
  /\ since = [a \in Assets |-> 0]
  /\ days = [a \in Assets |-> 0]
  /\ served = [a \in Assets |-> 0]
  /\ paid = [a \in Assets |-> 0]
  /\ stakes = [a \in Assets |-> 0]

CreateCollection ==
  /\ collection = NoAccount
  /\ collection' = 0
  /\ UNCHANGED <<now, config, asset, rewards, history>>

\* External: a collection made with Core directly, its update authority the
\* program's, without the statistics attribute.
CreateBareCollection ==
  /\ collection = NoAccount
  /\ collection' = NoPlugin
  /\ UNCHANGED <<now, config, asset, rewards, history>>

\* `init` fails if the config exists: the terms never change.
Initialize(rewards_bps, freeze_period) ==
  /\ collection # NoAccount
  /\ config = NoAccount
  /\ config' = [rewards_bps |-> rewards_bps, freeze_period |-> freeze_period]
  /\ UNCHANGED <<now, collection, asset, rewards, history>>

MintAsset(user, a) ==
  /\ collection # NoAccount
  /\ asset[a] = NoAccount
  /\ asset' = [asset EXCEPT ![a] =
                 [owner |-> user, attributes |-> NoPlugin, freeze |-> NoPlugin]]
  /\ UNCHANGED <<now, config, collection, rewards, history>>

\* A freeze plugin that is there is updated in the name of the PDA, which Core
\* refuses when its authority is the owner; else one is added for the PDA.
Stake(user, a) ==
  /\ Exists(a) /\ asset[a].owner = user
  /\ config # NoAccount
  /\ ~ Staked(a)
  /\ HasFreeze(a) => FreezeIsPrograms(a)
  /\ stakes[a] < MaxStakes
  /\ asset' = [asset EXCEPT
       ![a].attributes = to_attribute_list(TRUE, now, now),
       ![a].freeze = ProgramFreeze]
  /\ collection' = Bumped(1)
  /\ staker' = [staker EXCEPT ![a] = user]
  /\ since' = [since EXCEPT ![a] = now]
  /\ stakes' = [stakes EXCEPT ![a] = @ + 1]
  /\ UNCHANGED <<now, config, rewards, days, served, paid>>

\* With nothing to claim the instruction succeeds and changes nothing.
ClaimRewards(user, a) ==
  LET state   == StakeState(a)
      accrued == accrued_rewards(state.last_claim)
  IN  /\ Staked(a) /\ asset[a].owner = user
      /\ accrued.amount > 0
      /\ asset' = [asset EXCEPT ![a].attributes =
                     to_attribute_list(TRUE, state.staked_at, accrued.checkpoint)]
      /\ MintRewards(user, a, accrued.amount)
      /\ UNCHANGED <<now, config, collection, staker, since, days, served, stakes>>

\* The checks of unstake: who owns the asset, the freeze period, and Core's
\* that the PDA may thaw it.
MayUnstake(user, a) ==
  /\ Staked(a) /\ asset[a].owner = user
  /\ WholeDays(now - StakeState(a).staked_at) >= config.freeze_period
  /\ FreezeIsPrograms(a)

Unstake(user, a) ==
  /\ MayUnstake(user, a)
  /\ asset' = [asset EXCEPT ![a].attributes = to_attribute_list(FALSE, 0, 0),
                            ![a].freeze.frozen = FALSE]
  /\ MintRewards(user, a, accrued_rewards(StakeState(a).last_claim).amount)
  /\ collection' = Bumped(-1)
  /\ Served(a)
  /\ UNCHANGED <<now, config, staker, since, stakes>>

\* External, the Core program: an asset that is not frozen can be transferred,
\* burnt, or rid of its freeze plugin by its owner.  A transfer makes the new
\* owner the authority of an owner-managed plugin.
Transfer(a, to) ==
  /\ Exists(a) /\ ~ Frozen(a)
  /\ asset' = [asset EXCEPT
       ![a].owner = to,
       ![a].freeze = IF HasFreeze(a) THEN [@ EXCEPT !.authority = "Owner"]
                     ELSE NoPlugin]
  /\ UNCHANGED <<now, config, collection, rewards, history>>

Burn(a) ==
  /\ Exists(a) /\ ~ Frozen(a)
  /\ asset' = [asset EXCEPT ![a] = Burnt]
  /\ UNCHANGED <<now, config, collection, rewards, history>>

RemoveFreezePlugin(a) ==
  /\ Exists(a) /\ HasFreeze(a) /\ ~ Frozen(a)
  /\ asset' = [asset EXCEPT ![a].freeze = NoPlugin]
  /\ UNCHANGED <<now, config, collection, rewards, history>>

\* External: the owner adds a freeze plugin, frozen or not, and names its
\* authority; one that is the owner's own the owner can thaw.  Other updates of
\* the plugin by its owner come to the same as removing and adding it.
AddFreezePlugin(a, freeze) ==
  /\ Exists(a) /\ ~ HasFreeze(a)
  /\ asset' = [asset EXCEPT ![a].freeze = freeze]
  /\ UNCHANGED <<now, config, collection, rewards, history>>

ThawFreezePlugin(a) ==
  /\ Exists(a) /\ Frozen(a) /\ ~ FreezeIsPrograms(a)
  /\ asset' = [asset EXCEPT ![a].freeze.frozen = FALSE]
  /\ UNCHANGED <<now, config, collection, rewards, history>>

\* External: the clock.
Tick ==
  /\ now < MaxTime
  /\ now' = now + 1
  /\ UNCHANGED <<accounts, history>>

Next ==
  \/ CreateCollection
  \/ CreateBareCollection
  \/ \E bps \in RateChoices, period \in FreezeChoices : Initialize(bps, period)
  \/ \E user \in Users, a \in Assets :
       \/ MintAsset(user, a)
       \/ Stake(user, a)
       \/ ClaimRewards(user, a)
       \/ Unstake(user, a)
       \/ Transfer(a, user)
  \/ \E a \in Assets :
       \/ Burn(a)
       \/ RemoveFreezePlugin(a)
       \/ \E freeze \in FreezeDelegate : AddFreezePlugin(a, freeze)
       \/ ThawFreezePlugin(a)
  \/ Tick

Spec == Init /\ [][Next]_vars

-------------------------------------------------------------------------------
(***************************************************************************)
(* Properties.                                                             *)
(***************************************************************************)
\* The accounts have their layouts, and the attributes of an asset that is not
\* staked carry no timestamps into its next stake.
TypeOK ==
  /\ now \in 1 .. MaxTime
  /\ config \in Config \cup {NoAccount}
  /\ collection \in Nat \cup {NoAccount, NoPlugin}
  /\ asset \in [Assets -> AssetAccount \cup {NoAccount, Burnt}]
  /\ rewards \in [Users -> Nat]
  /\ staker \in [Assets -> Users \cup {NoAccount}]
  /\ since \in [Assets -> 0 .. now]
  /\ days \in [Assets -> Nat]
  /\ served \in [Assets -> Nat]
  /\ paid \in [Assets -> Nat]
  /\ stakes \in [Assets -> 0 .. MaxStakes]
  /\ \A a \in Assets :
       Exists(a) /\ ~ Staked(a) =>
         StakeState(a) = to_attribute_list(FALSE, 0, 0)

\* A staked asset is frozen, and the program alone can thaw it, whatever its
\* owners did with the freeze plugin between two stakes: added one of their own
\* (frozen or not, theirs or the program's), took it off, or sold the asset with
\* it.  Not the other way round: an owner may freeze what is not staked.
FrozenWhileStaked ==
  \A a \in Assets : Staked(a) => asset[a].freeze = ProgramFreeze

\* total_staked is the number of assets staked now.  It is kept by increments
\* only, in transactions of all owners: assets may be burnt or transferred
\* between them, and the attribute may have been missing at first.
CountIsStaked ==
  collection \in Nat => collection = Cardinality(StakedAssets)

\* Every whole day of every stake is paid once, however often and whenever the
\* owner claims: what was minted for an asset is the reward of the whole days
\* of its completed stakes and of the days up to the checkpoint of this one.
EveryDayPaidOnce ==
  \A a \in Assets :
    config # NoAccount =>
      paid[a] = DaysReward(days[a] +
        (IF Staked(a) THEN WholeDays(StakeState(a).last_claim - since[a]) ELSE 0))

\* Rewards of a stake go to the wallet that staked.  The program pays whoever
\* owns the asset at the time; only the freeze makes that the same wallet.
RewardsFollowStaker ==
  [][\A a \in Assets :
       paid'[a] # paid[a] =>
         rewards'[staker[a]] - rewards[staker[a]] = paid'[a] - paid[a]]_vars

\* A stake lasts the freeze period.
FreezePeriodServed ==
  [][\A a \in Assets :
       Staked(a) /\ ~ Staked(a)' =>
         now - since[a] >= config.freeze_period * SECONDS_PER_DAY]_vars

\* And not longer against the owner's will: claiming does not push it back, and
\* the program can still thaw the asset.
UnstakeOpensOnTime ==
  \A a \in Assets :
    Staked(a) /\ now - since[a] >= config.freeze_period * SECONDS_PER_DAY
      => ENABLED Unstake(staker[a], a)

\* Refuted (README.md:56-59: last_claim advances "at unstake", "leftover
\* seconds keep accruing toward the next claim (no rounding loss)"): an asset
\* that is not staked has been paid for the whole days of all the time it was
\* staked.
NoRoundingLoss ==
  \A a \in Assets :
    config # NoAccount /\ ~ Staked(a) => paid[a] >= DaysReward(WholeDays(served[a]))
===============================================================================
