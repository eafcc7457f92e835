CONSTANTS
  Wallets = {Alice, Bob}
  Makers = {Alice}
  Mints = {X, Y, Z}
  ClassicMints = {X, Y}
  Nonces = {1}
  Amounts = {0, 1, 2}
  Supply = 1
  NoAccount = NoAccount
SPECIFICATION AnchorSpec
CHECK_DEADLOCK FALSE
PROPERTIES
  AnchorImplementsAtomicSwap
