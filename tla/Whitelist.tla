------------------------------ MODULE Whitelist -------------------------------
(***************************************************************************)
(* whitelist-transfer-hook: a Token-2022 mint whose transfer hook lets     *)
(* only listed owners send, and the account that holds the list.           *)
(*                                                                         *)
(* The list account grows by one address with every entry and shrinks with *)
(* every removal; rent follows it, from and to whoever signs.  Anybody may *)
(* change the list: the program checks no admin.                           *)
(*                                                                         *)
(* A step is a transaction; one that fails changes nothing and is no step. *)
(* The order of the list is never observed, so the vector is a bag.  One   *)
(* mint; its metadata, closing it, and a change of its hook by its         *)
(* authority are left out.                                                 *)
(***************************************************************************)
EXTENDS TokenUnits

CONSTANTS
  Users,
  InitialLamports,   \* what each user has at first
  LamportsPerByte,   \* of rent
  MintRent,          \* for the mint account
  MetasRent,         \* for the account of the hook's extra accounts
  Gifts,             \* lamports somebody may send to the list account
  MaxLamports,       \* bound: no gift takes the list account beyond this
  Supply,            \* bound: tokens minted
  NoAccount

ASSUME UsersAssumption == IsFiniteSet(Users)

ASSUME AmountsAssumption ==
  /\ InitialLamports \in Nat /\ LamportsPerByte \in Nat
  /\ MintRent \in Nat /\ MetasRent \in Nat
  /\ Gifts \subseteq Nat /\ MaxLamports \in Nat /\ Supply \in Nat

ListAccount == [copies : [Users -> Nat], data_len : Nat]

ASSUME NoAccountAssumption ==
  NoAccount \notin Users /\ NoAccount \notin ListAccount

VARIABLES
  purse,      \* lamports of each user
  lamports,   \* of the list account, which may get some before it exists
  list,       \* [copies, data_len] or NoAccount
  mint,       \* the mint's authority, or NoAccount
  metas,      \* whether the hook's extra accounts are set up
  balance,    \* tokens of each user
  admitted,   \* history: whether the last list instruction for a user was add
  gifted      \* history: lamports sent to the account since its last change

accounts == <<purse, lamports, list>>
token == <<mint, metas, balance>>
vars == <<purse, lamports, list, mint, metas, balance, admitted, gifted>>

\* Discriminator, vector length and bump; then 32 bytes per address.
EmptySize == 8 + 4 + 1
AddressSize == 32

minimum_balance(size) == (128 + size) * LamportsPerByte

Contains(u) == list.copies[u] > 0

TypeOK ==
  /\ purse \in [Users -> Nat]
  /\ lamports \in Nat
  /\ list \in ListAccount \cup {NoAccount}
  /\ mint \in Users \cup {NoAccount}
  /\ metas \in BOOLEAN
  /\ balance \in [Users -> Nat]
  /\ admitted \in [Users -> BOOLEAN]
  /\ gifted \in Nat
  /\ metas => mint # NoAccount

-------------------------------------------------------------------------------
Init ==
  /\ purse = [u \in Users |-> InitialLamports]
  /\ lamports = 0
  /\ list = NoAccount
  /\ mint = NoAccount
  /\ metas = FALSE
  /\ balance = [u \in Users |-> 0]
  /\ admitted = [u \in Users |-> FALSE]
  /\ gifted = 0

\* What the signer pays so that the account has at least n lamports.
TopUp(n) == IF lamports < n THEN n - lamports ELSE 0

Pay(u, n) ==
  /\ purse[u] >= n
  /\ purse' = [purse EXCEPT ![u] = @ - n]

\* Anchor creates the account, or takes over an address somebody already sent
\* lamports to and tops it up.
InitializeWhitelist(admin) ==
  /\ list = NoAccount
  /\ Pay(admin, TopUp(minimum_balance(EmptySize)))
  /\ lamports' = lamports + TopUp(minimum_balance(EmptySize))
  /\ list' = [copies |-> [u \in Users |-> 0], data_len |-> EmptySize]
  /\ UNCHANGED <<mint, metas, balance, admitted, gifted>>

\* Faulty variant: the rent of the old size is asked for.
Grow_OldRent(admin) ==
  LET required == minimum_balance(list.data_len)
  IN  /\ lamports <= required
      /\ Pay(admin, required - lamports)
      /\ lamports' = required
      /\ gifted' = 0

\* realloc_whitelist for an add: the signer pays the difference to the rent of
\* the new size.  It is an unsigned difference: an account that already holds
\* more takes no address.
Grow(admin) ==
  LET required == minimum_balance(list.data_len + AddressSize)
  IN  /\ lamports <= required
      /\ Pay(admin, required - lamports)
      /\ lamports' = required
      /\ gifted' = 0

\* Faulty variant: the account keeps what the signer gets.
Shrink_NoDebit(admin) ==
  LET required == minimum_balance(list.data_len - AddressSize)
  IN  /\ list.data_len >= AddressSize
      /\ lamports >= required
      /\ purse' = [purse EXCEPT ![admin] = @ + (lamports - required)]
      /\ gifted' = 0
      /\ UNCHANGED lamports

\* Faulty variant: the difference is computed the other way round.
Shrink_Negated(admin) ==
  LET required == minimum_balance(list.data_len - AddressSize)
  IN  /\ list.data_len >= AddressSize
      /\ lamports <= required
      /\ purse' = [purse EXCEPT ![admin] = @ + (required - lamports)]
      /\ lamports' = required
      /\ gifted' = 0

\* Neither of the unsigned differences of a removal underflows.
CanShrink ==
  /\ list.data_len >= AddressSize
  /\ lamports >= minimum_balance(list.data_len - AddressSize)

\* realloc_whitelist for a removal: everything above the rent of the new size
\* goes to the signer, gifts and what others paid included.
Shrink(admin) ==
  LET required == minimum_balance(list.data_len - AddressSize)
  IN  /\ CanShrink
      /\ purse' = [purse EXCEPT ![admin] = @ + (lamports - required)]
      /\ lamports' = required
      /\ gifted' = 0

\* Faulty variant: an address that is listed is added again.
Add_Again(admin, u) ==
  /\ list # NoAccount
  /\ Grow(admin)
  /\ list' = [copies |-> [list.copies EXCEPT ![u] = @ + 1],
              data_len |-> list.data_len + AddressSize]
  /\ admitted' = [admitted EXCEPT ![u] = TRUE]
  /\ UNCHANGED token

\* An address that is listed is not added again.
Add(admin, u) ==
  /\ list # NoAccount
  /\ IF Contains(u)
       THEN UNCHANGED <<purse, lamports, list, gifted>>
       ELSE /\ Grow(admin)
            /\ list' = [copies |-> [list.copies EXCEPT ![u] = @ + 1],
                        data_len |-> list.data_len + AddressSize]
  /\ admitted' = [admitted EXCEPT ![u] = TRUE]
  /\ UNCHANGED token

\* The first copy of the address is removed, if there is one.
Remove(admin, u) ==
  /\ list # NoAccount
  /\ IF ~Contains(u)
       THEN UNCHANGED <<purse, lamports, list, gifted>>
       ELSE /\ Shrink(admin)
            /\ list' = [copies |-> [list.copies EXCEPT ![u] = @ - 1],
                        data_len |-> list.data_len - AddressSize]
  /\ admitted' = [admitted EXCEPT ![u] = FALSE]
  /\ UNCHANGED token

-------------------------------------------------------------------------------
\* The mint with its hook; the user becomes mint authority.
InitializeMint(user) ==
  /\ mint = NoAccount
  /\ Pay(user, MintRent)
  /\ mint' = user
  /\ UNCHANGED <<lamports, list, metas, balance, admitted, gifted>>

\* Anybody may register the list as the hook's extra account, once.
InitializeTransferHook(payer) ==
  /\ mint # NoAccount
  /\ ~metas
  /\ Pay(payer, MetasRent)
  /\ metas' = TRUE
  /\ UNCHANGED <<lamports, list, mint, balance, admitted, gifted>>

\* What the hook demands of a transfer: the authority of the transfer is the
\* owner of the tokens (a delegate is not) and the owner is listed.
TransferHook(owner, authority) ==
  /\ authority = owner
  /\ list # NoAccount
  /\ Contains(owner)

\* External, Token-2022: a transfer between two accounts, which fails when the
\* hook does or finds no extra accounts.  A transfer from an account to itself
\* ends before the hook and moves nothing.  The authority may be a delegate.
Transfer(authority, from, to, n) ==
  /\ metas
  /\ from # to
  /\ balance[from] >= n
  /\ TransferHook(from, authority)
  /\ balance' = [balance EXCEPT ![from] = @ - n, ![to] = @ + n]
  /\ UNCHANGED <<purse, lamports, list, mint, metas, admitted, gifted>>

\* External, Token-2022: minting runs no hook.
MintTo(to) ==
  /\ mint # NoAccount
  /\ Total(balance) < Supply
  /\ balance' = [balance EXCEPT ![to] = @ + 1]
  /\ UNCHANGED <<purse, lamports, list, mint, metas, admitted, gifted>>

\* External, the system program: anybody may send lamports to the account.
Gift(u, n) ==
  /\ lamports + n <= MaxLamports
  /\ Pay(u, n)
  /\ lamports' = lamports + n
  /\ gifted' = gifted + n
  /\ UNCHANGED <<list, mint, metas, balance, admitted>>

Next ==
  \E u \in Users :
    \/ InitializeWhitelist(u) \/ InitializeMint(u) \/ InitializeTransferHook(u)
    \/ \E v \in Users : Add(u, v) \/ Remove(u, v)
    \/ \E from, to \in Users : Transfer(u, from, to, 1)
    \/ MintTo(u)
    \/ \E n \in Gifts : Gift(u, n)

Spec == Init /\ [][Next]_vars

-------------------------------------------------------------------------------
\* The account is as long as its list needs and holds the rent of exactly that
\* length, and beyond it only what others sent since the list last changed:
\* growing and shrinking, paid by and refunded to different signers, leave
\* neither too little (the runtime would refuse every later write) nor too
\* much.  Before the account exists it holds what was sent.
RentFollowsList ==
  IF list = NoAccount
    THEN lamports = gifted
    ELSE /\ list.data_len = EmptySize + AddressSize * Total(list.copies)
         /\ lamports >= minimum_balance(list.data_len)
         /\ lamports <= minimum_balance(list.data_len) + gifted

\* Nobody who was added is beyond removal, whatever was sent to the account
\* and whoever paid: a remove that takes them off the list can succeed.
RevokeAlwaysOpen ==
  \A u \in Users :
    list # NoAccount /\ Contains(u) =>
      ENABLED \E admin \in Users : Remove(admin, u) /\ list'.copies[u] = 0

\* Lamports move between the signers and the accounts; none appear or vanish.
LamportsConserved ==
  Total(purse) + lamports
    + (IF mint = NoAccount THEN 0 ELSE MintRent)
    + (IF metas THEN MetasRent ELSE 0)
      = InitialLamports * Cardinality(Users)

\* Tokens leave an account only while the last add or remove of its owner was
\* an add: one remove revokes, however often, and by whom, the owner was added.
RevokedCannotSend ==
  [][\A u \in Users : balance'[u] < balance[u] => admitted[u]]_vars
===============================================================================
