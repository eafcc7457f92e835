SPECIFICATION Spec
CONSTANTS
  Users = {u1}
  Assets = {a1}
  RateChoices = {500}
  FreezeChoices = {0}
  SECONDS_PER_DAY = 2
  MaxTime = 6
  MaxStakes = 2
  NoAccount = NoAccount
  NoPlugin = NoPlugin
  Burnt = Burnt
SYMMETRY Symmetry
INVARIANTS
  NoRoundingLoss
\* Once the clock is at its bound and every asset staked out, nothing is left.
CHECK_DEADLOCK FALSE
