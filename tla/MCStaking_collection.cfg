SPECIFICATION Spec
CONSTANTS
  Users = {u1, u2}
  Assets = {a1, a2}
  RateChoices = {500}
  FreezeChoices = {0, 2}
  SECONDS_PER_DAY = 3
  MaxTime = 7
  MaxStakes = 2
  NoAccount = NoAccount
  NoPlugin = NoPlugin
  Burnt = Burnt
SYMMETRY Symmetry
INVARIANTS
  TypeOK
  FrozenWhileStaked
  CountIsStaked
  EveryDayPaidOnce
  UnstakeOpensOnTime
PROPERTIES
  RewardsFollowStaker
  FreezePeriodServed
\* Once the clock is at its bound and every asset staked out, nothing is left.
CHECK_DEADLOCK FALSE
