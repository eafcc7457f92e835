CONSTANTS
  Wallets = {Alice, Bob}
  Makers = {Alice}
  Mints = {X, Y}
  ClassicMints = {X, Y}
  Vault = Vault
  Others = {decoy}
  Nonces = {1}
  Amounts = {0, 1, 2}
  Supply = 1
  NoAccount = NoAccount
SPECIFICATION PinSpec
CHECK_DEADLOCK FALSE
INVARIANTS
  VaultBacksOffer
PROPERTIES
  PinImplementsAtomicSwap
