SPECIFICATION Spec
CONSTANTS
  Maker = maker
  NoAccount = none
  Contributors = {c1, c2}
  Bumps = {b1, b2}
  VaultAddress = vaultaddress
  usdc = usdc
  usdt = usdt
  Mints = {usdc, usdt}
  Decimals <- MCDecimals
  InitialBalance <- MCBalance
  MaxU64 = 400
  Targets = {3, 4, 8, 9}
  Durations = {0, 1}
  Amounts = {1, 2}
  Deposits = {3}
  MAX_CONTRIBUTION_PERCENTAGE = 50
  Instants <- MCInstants
  MaxCampaigns = 2
SYMMETRY Symmetry
INVARIANTS
  TypeOK
  VaultBacksTotal
  RecordsMatchTotal
  TokensConserved
  TargetNeedsManyRecords
PROPERTIES
  PayoutsAreReleaseOrRefund
  RefundsOnLastDayOnly
\* The wallets run dry and the clock stops.
CHECK_DEADLOCK FALSE
