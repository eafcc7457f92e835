SPECIFICATION Spec
CONSTANTS
  Users = {u1, u2}
  InitialLamports = 260
  LamportsPerByte = 1
  MintRent = 10
  MetasRent = 5
  Gifts = {20}
  MaxLamports = 260
  Supply = 2
  NoAccount = NoAccount
SYMMETRY Symmetry
INVARIANTS
  RentFollowsList
  RevokeAlwaysOpen
  LamportsConserved
PROPERTIES
  RevokedCannotSend
