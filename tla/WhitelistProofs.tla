--------------------------- MODULE WhitelistProofs ----------------------------
(***************************************************************************)
(* Theorems about Whitelist, for every finite set of users, any rent, any  *)
(* gifts and any sequence of instructions.                                 *)
(*                                                                         *)
(* The layout of the accounts comes first; on it rest, independently, the  *)
(* rent of the list, the sum of the lamports, and that an address is in    *)
(* the list once or not at all, which is what makes one removal enough.    *)
(***************************************************************************)
EXTENDS Whitelist, TokenUnitsProofs

LEMMA RentType ==
  ASSUME NEW size \in Nat
  PROVE  minimum_balance(size) \in Nat
BY AmountsAssumption DEF minimum_balance

LEMMA SizeTypes == EmptySize \in Nat /\ AddressSize \in Nat
BY DEF EmptySize, AddressSize

-------------------------------------------------------------------------------
LEMMA TypeInit == Init => TypeOK
<1> SUFFICES ASSUME Init PROVE TypeOK
  OBVIOUS
<1>1. InitialLamports \in Nat
  BY AmountsAssumption
<1> QED
  BY <1>1 DEF Init, TypeOK

LEMMA PayType ==
  ASSUME TypeOK, NEW u \in Users, NEW n \in Nat, Pay(u, n)
  PROVE  purse' \in [Users -> Nat]
BY DEF Pay, TypeOK

\* The payments of the list instructions are natural numbers.
LEMMA GrowType ==
  ASSUME TypeOK, list # NoAccount, NEW u \in Users, Grow(u)
  PROVE  /\ purse' \in [Users -> Nat]
         /\ lamports' \in Nat
         /\ gifted' \in Nat
<1>1. list.data_len + AddressSize \in Nat /\ lamports \in Nat
  BY SizeTypes DEF TypeOK, ListAccount
<1>2. minimum_balance(list.data_len + AddressSize) \in Nat
  BY <1>1, RentType
<1>3. minimum_balance(list.data_len + AddressSize) - lamports \in Nat
  BY <1>1, <1>2 DEF Grow
<1> QED
  BY <1>2, <1>3, PayType DEF Grow

LEMMA ShrinkType ==
  ASSUME TypeOK, list # NoAccount, NEW u \in Users, Shrink(u)
  PROVE  /\ purse' \in [Users -> Nat]
         /\ lamports' \in Nat
         /\ gifted' \in Nat
         /\ list.data_len - AddressSize \in Nat
<1>1. list.data_len - AddressSize \in Nat /\ lamports \in Nat
  BY SizeTypes DEF TypeOK, ListAccount, Shrink, CanShrink
<1>2. minimum_balance(list.data_len - AddressSize) \in Nat
  BY <1>1, RentType
<1>3. lamports - minimum_balance(list.data_len - AddressSize) \in Nat
  BY <1>1, <1>2 DEF Shrink, CanShrink
<1> QED
  BY <1>1, <1>2, <1>3 DEF Shrink, TypeOK

LEMMA TopUpType ==
  ASSUME TypeOK
  PROVE  /\ TopUp(minimum_balance(EmptySize)) \in Nat
         /\ minimum_balance(EmptySize) \in Nat
<1>1. minimum_balance(EmptySize) \in Nat
  BY RentType, SizeTypes
<1> QED
  BY <1>1 DEF TopUp, TypeOK

LEMMA TypeStep == TypeOK /\ [Next]_vars => TypeOK'
<1> SUFFICES ASSUME TypeOK, [Next]_vars PROVE TypeOK'
  OBVIOUS
<1>1. ASSUME NEW u \in Users, InitializeWhitelist(u)
      PROVE  TypeOK'
  <2>1. purse' \in [Users -> Nat] /\ lamports' \in Nat
    BY <1>1, TopUpType, PayType DEF InitializeWhitelist, TypeOK
  <2>2. list' \in ListAccount
    BY <1>1, SizeTypes DEF InitializeWhitelist, ListAccount
  <2> QED
    BY <1>1, <2>1, <2>2 DEF InitializeWhitelist, TypeOK
<1>2. ASSUME NEW u \in Users, InitializeMint(u)
      PROVE  TypeOK'
  <2>1. purse' \in [Users -> Nat]
    BY <1>2, AmountsAssumption, PayType DEF InitializeMint
  <2> QED
    BY <1>2, <2>1, NoAccountAssumption DEF InitializeMint, TypeOK
<1>3. ASSUME NEW u \in Users, InitializeTransferHook(u)
      PROVE  TypeOK'
  <2>1. purse' \in [Users -> Nat]
    BY <1>3, AmountsAssumption, PayType DEF InitializeTransferHook
  <2> QED
    BY <1>3, <2>1 DEF InitializeTransferHook, TypeOK
<1>4. ASSUME NEW u \in Users, NEW v \in Users, Add(u, v)
      PROVE  TypeOK'
  <2>1. admitted' \in [Users -> BOOLEAN]
    BY <1>4 DEF Add, TypeOK
  <2>2. CASE Contains(v)
    BY <1>4, <2>1, <2>2 DEF Add, TypeOK, token
  <2>3. CASE ~Contains(v)
    <3>1. Grow(u) /\ list \in ListAccount
      BY <1>4, <2>3 DEF Add, TypeOK
    <3>2. list' \in ListAccount
      <4>1. [list.copies EXCEPT ![v] = @ + 1] \in [Users -> Nat]
        BY <3>1 DEF ListAccount
      <4>2. list.data_len + AddressSize \in Nat
        BY <3>1, SizeTypes DEF ListAccount
      <4> QED
        BY <1>4, <2>3, <4>1, <4>2 DEF Add, ListAccount
    <3> QED
      BY <1>4, <2>1, <3>1, <3>2, GrowType DEF Add, TypeOK, token
  <2> QED
    BY <2>2, <2>3
<1>5. ASSUME NEW u \in Users, NEW v \in Users, Remove(u, v)
      PROVE  TypeOK'
  <2>1. admitted' \in [Users -> BOOLEAN]
    BY <1>5 DEF Remove, TypeOK
  <2>2. CASE ~Contains(v)
    BY <1>5, <2>1, <2>2 DEF Remove, TypeOK, token
  <2>3. CASE Contains(v)
    <3>1. Shrink(u) /\ list \in ListAccount
      BY <1>5, <2>3 DEF Remove, TypeOK
    <3>2. list' \in ListAccount
      <4>1. [list.copies EXCEPT ![v] = @ - 1] \in [Users -> Nat]
        BY <2>3, <3>1 DEF ListAccount, Contains
      <4>2. list.data_len - AddressSize \in Nat
        BY <1>5, <3>1, ShrinkType DEF Remove
      <4> QED
        BY <1>5, <2>3, <4>1, <4>2 DEF Remove, ListAccount
    <3> QED
      BY <1>5, <2>1, <3>1, <3>2, ShrinkType DEF Remove, TypeOK, token
  <2> QED
    BY <2>2, <2>3
<1>6. ASSUME NEW u \in Users, NEW from \in Users, NEW to \in Users,
             Transfer(u, from, to, 1)
      PROVE  TypeOK'
  <2>1. balance' \in [Users -> Nat]
    BY <1>6 DEF Transfer, TypeOK
  <2> QED
    BY <1>6, <2>1 DEF Transfer, TypeOK
<1>7. ASSUME NEW u \in Users, MintTo(u)
      PROVE  TypeOK'
  BY <1>7 DEF MintTo, TypeOK
<1>8. ASSUME NEW u \in Users, NEW n \in Gifts, Gift(u, n)
      PROVE  TypeOK'
  <2>1. n \in Nat
    BY AmountsAssumption
  <2>2. purse' \in [Users -> Nat]
    BY <1>8, <2>1, PayType DEF Gift
  <2> QED
    BY <1>8, <2>1, <2>2 DEF Gift, TypeOK
<1>9. CASE UNCHANGED vars
  BY <1>9 DEF vars, TypeOK
<1> QED
  BY <1>1, <1>2, <1>3, <1>4, <1>5, <1>6, <1>7, <1>8, <1>9 DEF Next

\* Every account keeps its layout; no amount goes below zero.
THEOREM TypeCorrect == Spec => []TypeOK
BY TypeInit, TypeStep, PTL DEF Spec

-------------------------------------------------------------------------------
(***************************************************************************)
(* Rent.  Each change of the list sets the account's length and its        *)
(* lamports to what the new list needs; gifts only add.                    *)
(***************************************************************************)
LEMMA RentInit == Init => RentFollowsList
BY DEF Init, RentFollowsList

LEMMA RentStep == TypeOK /\ RentFollowsList /\ [Next]_vars => RentFollowsList'
<1> SUFFICES ASSUME TypeOK, RentFollowsList, [Next]_vars PROVE RentFollowsList'
  OBVIOUS
<1>1. ASSUME NEW u \in Users, InitializeWhitelist(u)
      PROVE  RentFollowsList'
  <2> DEFINE empty == [v \in Users |-> 0]
             rent == minimum_balance(EmptySize)
  <2>1. /\ list' = [copies |-> empty, data_len |-> EmptySize]
        /\ lamports' = lamports + TopUp(rent)
        /\ gifted' = gifted
        /\ lamports = gifted
    BY <1>1 DEF InitializeWhitelist, RentFollowsList
  <2>2. empty \in [Users -> Nat] /\ \A v \in Users : empty[v] = 0
    OBVIOUS
  <2>3. Total(empty) = 0
    <3>1. Cardinality(Users) \in Nat
      BY UsersAssumption, FS_CardinalityType
    <3> HIDE DEF empty
    <3>2. Total(empty) = Cardinality(Users) * 0
      BY <2>2, UsersAssumption, TotalConstant
    <3> QED
      BY <3>1, <3>2
  <2>4. list' \in ListAccount
    BY <2>1, SizeTypes DEF ListAccount
  <2>5. rent \in Nat /\ lamports \in Nat /\ gifted \in Nat
    BY TopUpType DEF TypeOK
  <2> HIDE DEF empty, rent
  <2>6. lamports' >= rent /\ lamports' <= rent + gifted'
    BY <2>1, <2>5 DEF TopUp
  <2>7. list'.copies = empty /\ list'.data_len = EmptySize
    BY <2>1
  <2>8. EmptySize = EmptySize + AddressSize * Total(empty)
    BY <2>3 DEF EmptySize, AddressSize
  <2> QED
    BY <2>4, <2>6, <2>7, <2>8, NoAccountAssumption DEF RentFollowsList, rent
<1>2. ASSUME NEW u \in Users, NEW v \in Users, Add(u, v), ~Contains(v)
      PROVE  RentFollowsList'
  <2>1. /\ list \in ListAccount
        /\ list.data_len = EmptySize + AddressSize * Total(list.copies)
        /\ list' = [copies |-> [list.copies EXCEPT ![v] = list.copies[v] + 1],
                    data_len |-> list.data_len + AddressSize]
        /\ lamports' = minimum_balance(list.data_len + AddressSize)
        /\ gifted' = 0
    BY <1>2 DEF Add, Grow, RentFollowsList, TypeOK
  <2>2. list.copies \in [Users -> Nat] /\ list.copies[v] \in Nat
    BY <2>1 DEF ListAccount
  <2>3. Total(list'.copies) = Total(list.copies) - list.copies[v]
                                + (list.copies[v] + 1)
    BY <2>1, <2>2, UsersAssumption, TotalUpdate
  <2>4. Total(list.copies) \in Nat
    BY <2>2, UsersAssumption, TotalIsNat
  <2>5. Total(list'.copies) = Total(list.copies) + 1
    BY <2>2, <2>3, <2>4
  <2>6. /\ list'.data_len = list.data_len + AddressSize
        /\ list'.data_len \in Nat
    BY <2>1, SizeTypes DEF ListAccount
  <2>7. list'.data_len = EmptySize + AddressSize * Total(list'.copies)
    BY <2>1, <2>4, <2>5, <2>6 DEF EmptySize, AddressSize
  <2>8. list' # NoAccount
    <3>1. list' \in ListAccount
      BY <2>1, <2>2, <2>6 DEF ListAccount
    <3> QED
      BY <3>1, NoAccountAssumption
  <2>9. minimum_balance(list'.data_len) \in Nat
    BY <2>6, RentType
  <2> QED
    BY <2>1, <2>6, <2>7, <2>8, <2>9 DEF RentFollowsList
<1>3. ASSUME NEW u \in Users, NEW v \in Users, Remove(u, v), Contains(v)
      PROVE  RentFollowsList'
  <2>1. /\ list \in ListAccount
        /\ list.data_len = EmptySize + AddressSize * Total(list.copies)
        /\ list' = [copies |-> [list.copies EXCEPT ![v] = list.copies[v] - 1],
                    data_len |-> list.data_len - AddressSize]
        /\ lamports' = minimum_balance(list.data_len - AddressSize)
        /\ gifted' = 0
    BY <1>3 DEF Remove, Shrink, RentFollowsList, TypeOK
  <2>2. /\ list.copies \in [Users -> Nat]
        /\ list.copies[v] \in Nat
        /\ list.copies[v] - 1 \in Nat
    BY <1>3, <2>1 DEF ListAccount, Contains
  <2>3. Total(list'.copies) = Total(list.copies) - list.copies[v]
                                + (list.copies[v] - 1)
    BY <2>1, <2>2, UsersAssumption, TotalUpdate
  <2>4. Total(list.copies) \in Nat
    BY <2>2, UsersAssumption, TotalIsNat
  <2>5. Total(list'.copies) = Total(list.copies) - 1
    BY <2>2, <2>3, <2>4
  <2>6. /\ list'.data_len = list.data_len - AddressSize
        /\ list'.data_len \in Nat
    BY <1>3, <2>1, ShrinkType DEF Remove
  <2>7. list'.data_len = EmptySize + AddressSize * Total(list'.copies)
    BY <2>1, <2>4, <2>5, <2>6 DEF EmptySize, AddressSize
  <2>8. list' # NoAccount
    <3>1. list' \in ListAccount
      BY <2>1, <2>2, <2>6 DEF ListAccount
    <3> QED
      BY <3>1, NoAccountAssumption
  <2>9. minimum_balance(list'.data_len) \in Nat
    BY <2>6, RentType
  <2> QED
    BY <2>1, <2>6, <2>7, <2>8, <2>9 DEF RentFollowsList
<1>4. ASSUME NEW u \in Users, NEW n \in Gifts, Gift(u, n)
      PROVE  RentFollowsList'
  <2>1. /\ n \in Nat /\ lamports \in Nat /\ gifted \in Nat
        /\ lamports' = lamports + n /\ gifted' = gifted + n /\ list' = list
    BY <1>4, AmountsAssumption DEF Gift, TypeOK
  <2>2. CASE list = NoAccount
    BY <2>1, <2>2 DEF RentFollowsList
  <2>3. CASE list # NoAccount
    <3>1. minimum_balance(list.data_len) \in Nat
      BY <2>3, RentType DEF TypeOK, ListAccount
    <3> QED
      BY <2>1, <2>3, <3>1 DEF RentFollowsList
  <2> QED
    BY <2>2, <2>3
<1>5. ASSUME UNCHANGED <<lamports, list, gifted>>
      PROVE  RentFollowsList'
  BY <1>5 DEF RentFollowsList
<1>6. ASSUME NEW u \in Users, InitializeMint(u) \/ InitializeTransferHook(u) \/ MintTo(u)
      PROVE  RentFollowsList'
  BY <1>5, <1>6 DEF InitializeMint, InitializeTransferHook, MintTo
<1>7. ASSUME NEW u \in Users, NEW from \in Users, NEW to \in Users,
             Transfer(u, from, to, 1)
      PROVE  RentFollowsList'
  BY <1>5, <1>7 DEF Transfer
<1>8. ASSUME NEW u \in Users, NEW v \in Users, Add(u, v) \/ Remove(u, v)
      PROVE  RentFollowsList'
  BY <1>2, <1>3, <1>5, <1>8 DEF Add, Remove
<1>9. CASE UNCHANGED vars
  BY <1>5, <1>9 DEF vars
<1> QED
  BY <1>1, <1>4, <1>6, <1>7, <1>8, <1>9 DEF Next

\* The account always has the length its list needs and the rent of that
\* length, and beyond it only gifts, for any rent and any signers.
THEOREM RentAlwaysFollowsList == Spec => []RentFollowsList
<1>1. TypeOK /\ RentFollowsList /\ [Next]_vars => (TypeOK /\ RentFollowsList)'
  BY TypeStep, RentStep
<1> QED
  BY <1>1, TypeInit, RentInit, PTL DEF Spec

-------------------------------------------------------------------------------
(***************************************************************************)
(* Lamports.  Every instruction moves one signer's purse and one account   *)
(* by the same amount.                                                     *)
(***************************************************************************)
\* What the accounts of the mint hold.
MintLamports ==
  (IF mint = NoAccount THEN 0 ELSE MintRent) + (IF metas THEN MetasRent ELSE 0)

Wealth == Total(purse) + lamports + MintLamports

LEMMA WealthType ==
  ASSUME TypeOK
  PROVE  /\ Total(purse) \in Nat
         /\ lamports \in Nat
         /\ MintLamports \in Nat
<1>1. Total(purse) \in Nat /\ lamports \in Nat
  BY UsersAssumption, TotalIsNat DEF TypeOK
<1> QED
  BY <1>1, AmountsAssumption DEF MintLamports

\* A signer pays n, or is paid n.
LEMMA Paid ==
  ASSUME TypeOK, NEW u \in Users, NEW n \in Nat, Pay(u, n)
  PROVE  Total(purse') = Total(purse) - n
<1>1. purse \in [Users -> Nat] /\ purse[u] \in Nat
  BY DEF TypeOK
<1>2. purse[u] - n \in Nat /\ purse' = [purse EXCEPT ![u] = purse[u] - n]
  BY <1>1 DEF Pay
<1>3. Total(purse') = Total(purse) - purse[u] + (purse[u] - n)
  BY <1>1, <1>2, UsersAssumption, TotalUpdate
<1> QED
  BY <1>1, <1>3, WealthType

LEMMA WealthInit == Init => Wealth = InitialLamports * Cardinality(Users)
<1> SUFFICES ASSUME Init PROVE Wealth = InitialLamports * Cardinality(Users)
  OBVIOUS
<1>1. InitialLamports \in Nat /\ Cardinality(Users) \in Nat
  BY UsersAssumption, AmountsAssumption, FS_CardinalityType
<1>2. Total(purse) = InitialLamports * Cardinality(Users)
  <2>1. purse \in [Users -> Nat] /\ \A u \in Users : purse[u] = InitialLamports
    BY <1>1 DEF Init
  <2>2. Total(purse) = Cardinality(Users) * InitialLamports
    BY <1>1, <2>1, UsersAssumption, TotalConstant
  <2> QED
    BY <1>1, <2>2
<1>3. lamports = 0 /\ MintLamports = 0
  BY DEF Init, MintLamports
<1>4. Total(purse) \in Nat
  BY <1>1, <1>2
<1> QED
  BY <1>2, <1>3, <1>4 DEF Wealth

LEMMA WealthStep == TypeOK /\ [Next]_vars => Wealth' = Wealth
<1> SUFFICES ASSUME TypeOK, [Next]_vars PROVE Wealth' = Wealth
  OBVIOUS
<1> USE WealthType
<1>1. ASSUME NEW u \in Users, InitializeWhitelist(u)
      PROVE  Wealth' = Wealth
  <2> DEFINE n == TopUp(minimum_balance(EmptySize))
  <2>1. n \in Nat /\ Pay(u, n) /\ lamports' = lamports + n
    BY <1>1, TopUpType DEF InitializeWhitelist
  <2>2. MintLamports' = MintLamports
    BY <1>1 DEF InitializeWhitelist, MintLamports
  <2>3. Total(purse') = Total(purse) - n
    BY <2>1, Paid
  <2> QED
    BY <2>1, <2>2, <2>3 DEF Wealth
<1>2. ASSUME NEW u \in Users, InitializeMint(u)
      PROVE  Wealth' = Wealth
  <2>1. Total(purse') = Total(purse) - MintRent
    BY <1>2, AmountsAssumption, Paid DEF InitializeMint
  <2>2. MintLamports' = MintLamports + MintRent
    BY <1>2, AmountsAssumption, NoAccountAssumption
    DEF InitializeMint, MintLamports, TypeOK
  <2> QED
    BY <1>2, <2>1, <2>2, AmountsAssumption DEF Wealth, InitializeMint
<1>3. ASSUME NEW u \in Users, InitializeTransferHook(u)
      PROVE  Wealth' = Wealth
  <2>1. Total(purse') = Total(purse) - MetasRent
    BY <1>3, AmountsAssumption, Paid DEF InitializeTransferHook
  <2>2. MintLamports' = MintLamports + MetasRent
    BY <1>3, AmountsAssumption DEF InitializeTransferHook, MintLamports, TypeOK
  <2> QED
    BY <1>3, <2>1, <2>2, AmountsAssumption DEF Wealth, InitializeTransferHook
<1>4. ASSUME NEW u \in Users, Grow(u), list # NoAccount, UNCHANGED token
      PROVE  Wealth' = Wealth
  <2> DEFINE required == minimum_balance(list.data_len + AddressSize)
  <2>1. list.data_len + AddressSize \in Nat
    BY <1>4, SizeTypes DEF TypeOK, ListAccount
  <2>2. required \in Nat
    BY <2>1, RentType
  <2>3. /\ lamports <= required
        /\ Pay(u, required - lamports)
        /\ lamports' = required
    BY <1>4 DEF Grow
  <2> HIDE DEF required
  <2>4. required - lamports \in Nat
    BY <2>2, <2>3
  <2>5. Total(purse') = Total(purse) - (required - lamports)
    BY <2>3, <2>4, Paid
  <2>6. MintLamports' = MintLamports
    BY <1>4 DEF token, MintLamports
  <2> QED
    BY <2>2, <2>3, <2>5, <2>6 DEF Wealth
<1>5. ASSUME NEW u \in Users, Shrink(u), list # NoAccount, UNCHANGED token
      PROVE  Wealth' = Wealth
  <2> DEFINE required == minimum_balance(list.data_len - AddressSize)
  <2>1. required \in Nat
    BY <1>5, ShrinkType, RentType
  <2>2. /\ lamports >= required
        /\ purse' = [purse EXCEPT ![u] = purse[u] + (lamports - required)]
        /\ lamports' = required
    BY <1>5 DEF Shrink, CanShrink, TypeOK
  <2> HIDE DEF required
  <2>3. purse \in [Users -> Nat] /\ purse[u] \in Nat
    BY DEF TypeOK
  <2>4. PICK after \in Nat : after = purse[u] + (lamports - required)
    BY <2>1, <2>2, <2>3
  <2>5. Total(purse') = Total(purse) - purse[u] + after
    BY <2>2, <2>3, <2>4, UsersAssumption, TotalUpdate
  <2>6. MintLamports' = MintLamports
    BY <1>5 DEF token, MintLamports
  <2> QED
    BY <2>1, <2>2, <2>3, <2>4, <2>5, <2>6 DEF Wealth
<1>6. ASSUME UNCHANGED <<purse, lamports, mint, metas>>
      PROVE  Wealth' = Wealth
  BY <1>6 DEF Wealth, MintLamports
<1>7. ASSUME NEW u \in Users, NEW v \in Users, Add(u, v) \/ Remove(u, v)
      PROVE  Wealth' = Wealth
  BY <1>4, <1>5, <1>6, <1>7 DEF Add, Remove, token
<1>8. ASSUME NEW u \in Users, NEW n \in Gifts, Gift(u, n)
      PROVE  Wealth' = Wealth
  <2>1. n \in Nat
    BY AmountsAssumption
  <2>2. Total(purse') = Total(purse) - n
    BY <1>8, <2>1, Paid DEF Gift
  <2>3. MintLamports' = MintLamports
    BY <1>8 DEF Gift, MintLamports
  <2> QED
    BY <1>8, <2>1, <2>2, <2>3 DEF Wealth, Gift
<1>9. ASSUME NEW u \in Users, NEW from \in Users, NEW to \in Users,
             MintTo(to) \/ Transfer(u, from, to, 1)
      PROVE  Wealth' = Wealth
  BY <1>6, <1>9 DEF MintTo, Transfer
<1>10. CASE UNCHANGED vars
  BY <1>6, <1>10 DEF vars
<1> QED
  BY <1>1, <1>2, <1>3, <1>7, <1>8, <1>9, <1>10 DEF Next

\* Lamports move between the signers, the list account and the accounts of
\* the mint; none appear or vanish.
THEOREM LamportsAlwaysConserved == Spec => []LamportsConserved
<1> DEFINE Inv == TypeOK /\ Wealth = InitialLamports * Cardinality(Users)
<1>1. Init => Inv
  BY TypeInit, WealthInit
<1>2. Inv /\ [Next]_vars => Inv'
  BY TypeStep, WealthStep
<1>3. Inv => LamportsConserved
  <2> SUFFICES ASSUME Inv PROVE LamportsConserved
    OBVIOUS
  <2>1. /\ (IF mint = NoAccount THEN 0 ELSE MintRent) \in Nat
        /\ (IF metas THEN MetasRent ELSE 0) \in Nat
    BY AmountsAssumption
  <2> QED
    BY <2>1, WealthType DEF Wealth, MintLamports, LamportsConserved
<1> QED
  BY <1>1, <1>2, <1>3, PTL DEF Spec

-------------------------------------------------------------------------------
(***************************************************************************)
(* Who may send.  An address is in the list once if its last instruction   *)
(* was an add, and not at all otherwise.                                   *)
(***************************************************************************)
ListedOnce ==
  \A u \in Users :
    IF admitted[u] THEN list # NoAccount /\ list.copies[u] = 1
                   ELSE list # NoAccount => list.copies[u] = 0

LEMMA ListedInit == Init => ListedOnce
BY DEF Init, ListedOnce

LEMMA ListedStep == TypeOK /\ ListedOnce /\ [Next]_vars => ListedOnce'
<1> SUFFICES ASSUME TypeOK, ListedOnce, [Next]_vars PROVE ListedOnce'
  OBVIOUS
<1>1. ASSUME NEW u \in Users, InitializeWhitelist(u)
      PROVE  ListedOnce'
  BY <1>1 DEF InitializeWhitelist, ListedOnce
<1>2. ASSUME NEW u \in Users, NEW v \in Users, Add(u, v)
      PROVE  ListedOnce'
  <2> SUFFICES ASSUME NEW w \in Users
               PROVE  /\ admitted'[w] => list' # NoAccount /\ list'.copies[w] = 1
                      /\ ~admitted'[w] /\ list' # NoAccount => list'.copies[w] = 0
    BY DEF ListedOnce
  <2>1. /\ list \in ListAccount
        /\ list # NoAccount
        /\ admitted \in [Users -> BOOLEAN]
        /\ admitted' = [admitted EXCEPT ![v] = TRUE]
    BY <1>2 DEF Add, TypeOK
  <2>2. list.copies \in [Users -> Nat]
    BY <2>1 DEF ListAccount
  <2>3. CASE Contains(v)
    <3>1. list' = list
      BY <1>2, <2>3 DEF Add
    <3>2. list.copies[v] = 1
      BY <2>1, <2>3 DEF ListedOnce, Contains
    <3> QED
      BY <2>1, <3>1, <3>2 DEF ListedOnce
  <2>4. CASE ~Contains(v)
    <3>1. /\ list'.copies = [list.copies EXCEPT ![v] = @ + 1]
          /\ list' # NoAccount
      <4>1. list' = [copies |-> [list.copies EXCEPT ![v] = @ + 1],
                     data_len |-> list.data_len + AddressSize]
        BY <1>2, <2>4 DEF Add
      <4>2. [list.copies EXCEPT ![v] = @ + 1] \in [Users -> Nat]
        BY <2>2
      <4>3. list.data_len + AddressSize \in Nat
        BY <2>1, SizeTypes DEF ListAccount
      <4>4. list' \in ListAccount
        BY <4>1, <4>2, <4>3 DEF ListAccount
      <4> QED
        BY <4>1, <4>4, NoAccountAssumption
    <3>2. list.copies[v] = 0
      BY <2>2, <2>4 DEF Contains
    <3> QED
      BY <2>1, <2>2, <3>1, <3>2 DEF ListedOnce
  <2> QED
    BY <2>3, <2>4
<1>3. ASSUME NEW u \in Users, NEW v \in Users, Remove(u, v)
      PROVE  ListedOnce'
  <2> SUFFICES ASSUME NEW w \in Users
               PROVE  /\ admitted'[w] => list' # NoAccount /\ list'.copies[w] = 1
                      /\ ~admitted'[w] /\ list' # NoAccount => list'.copies[w] = 0
    BY DEF ListedOnce
  <2>1. /\ list \in ListAccount
        /\ list # NoAccount
        /\ admitted \in [Users -> BOOLEAN]
        /\ admitted' = [admitted EXCEPT ![v] = FALSE]
    BY <1>3 DEF Remove, TypeOK
  <2>2. list.copies \in [Users -> Nat]
    BY <2>1 DEF ListAccount
  <2>3. CASE ~Contains(v)
    <3>1. list' = list
      BY <1>3, <2>3 DEF Remove
    <3>2. list.copies[v] = 0
      BY <2>2, <2>3 DEF Contains
    <3> QED
      BY <2>1, <3>1, <3>2 DEF ListedOnce
  <2>4. CASE Contains(v)
    <3>1. /\ list'.copies = [list.copies EXCEPT ![v] = @ - 1]
          /\ list' # NoAccount
      <4>1. list' = [copies |-> [list.copies EXCEPT ![v] = @ - 1],
                     data_len |-> list.data_len - AddressSize]
        BY <1>3, <2>4 DEF Remove
      <4>2. [list.copies EXCEPT ![v] = @ - 1] \in [Users -> Nat]
        BY <2>2, <2>4 DEF Contains
      <4>3. list.data_len - AddressSize \in Nat
        BY <1>3, <2>1, <2>4, ShrinkType DEF Remove
      <4>4. list' \in ListAccount
        BY <4>1, <4>2, <4>3 DEF ListAccount
      <4> QED
        BY <4>1, <4>4, NoAccountAssumption
    <3>2. list.copies[v] = 1
      BY <2>1, <2>2, <2>4 DEF ListedOnce, Contains
    <3> QED
      BY <2>1, <2>2, <3>1, <3>2 DEF ListedOnce
  <2> QED
    BY <2>3, <2>4
<1>4. ASSUME UNCHANGED <<list, admitted>>
      PROVE  ListedOnce'
  BY <1>4 DEF ListedOnce
<1>5. ASSUME NEW u \in Users, InitializeMint(u) \/ InitializeTransferHook(u) \/ MintTo(u)
      PROVE  ListedOnce'
  BY <1>4, <1>5 DEF InitializeMint, InitializeTransferHook, MintTo
<1>6. ASSUME NEW u \in Users, NEW from \in Users, NEW to \in Users,
             Transfer(u, from, to, 1)
      PROVE  ListedOnce'
  BY <1>4, <1>6 DEF Transfer
<1>7. ASSUME NEW u \in Users, NEW n \in Gifts, Gift(u, n)
      PROVE  ListedOnce'
  BY <1>4, <1>7 DEF Gift
<1>8. CASE UNCHANGED vars
  BY <1>4, <1>8 DEF vars
<1> QED
  BY <1>1, <1>2, <1>3, <1>5, <1>6, <1>7, <1>8 DEF Next

\* Only a transfer takes tokens from anybody, and only from an owner in the
\* list.
LEMMA SenderListed ==
  ASSUME TypeOK, ListedOnce, [Next]_vars, NEW u \in Users, balance'[u] < balance[u]
  PROVE  admitted[u]
<1>1. balance \in [Users -> Nat]
  BY DEF TypeOK
<1>2. PICK a \in Users, from \in Users, to \in Users : Transfer(a, from, to, 1)
  <2>1. ~UNCHANGED balance
    BY <1>1
  <2>2. \A to \in Users : ~MintTo(to)
    BY <1>1 DEF MintTo
  <2> QED
    BY <2>1, <2>2
    DEF Next, vars, token, InitializeWhitelist, InitializeMint,
        InitializeTransferHook, Add, Remove, Gift
<1>3. u = from
  BY <1>1, <1>2 DEF Transfer
<1> QED
  BY <1>2, <1>3 DEF Transfer, TransferHook, Contains, ListedOnce

\* Tokens leave an account only while the last add or remove of its owner was
\* an add.
THEOREM RevokedNeverSends == Spec => RevokedCannotSend
<1> DEFINE Inv == TypeOK /\ ListedOnce
           Sent == \A u \in Users : balance'[u] < balance[u] => admitted[u]
<1>1. Init => Inv
  BY TypeInit, ListedInit
<1>2. Inv /\ [Next]_vars => Inv'
  BY TypeStep, ListedStep
<1>3. Inv /\ [Next]_vars => [Sent]_vars
  BY SenderListed
<1> QED
  BY <1>1, <1>2, <1>3, PTL DEF Spec, RevokedCannotSend

-------------------------------------------------------------------------------
(***************************************************************************)
(* Who can be removed.  The rent follows the list, so the account is long  *)
(* enough to shrink and holds enough to pay for what is left.              *)
(***************************************************************************)
LEMMA RemovalPays ==
  ASSUME TypeOK, RentFollowsList, ListedOnce, NEW u \in Users, list # NoAccount, Contains(u)
  PROVE  CanShrink /\ list.copies[u] = 1
<1> DEFINE copies == list.copies
           without == [copies EXCEPT ![u] = 0]
           len == list.data_len
<1>1. copies \in [Users -> Nat] /\ len \in Nat
  BY DEF TypeOK, ListAccount
<1>2. copies[u] = 1
  BY DEF ListedOnce, Contains
<1>3. without \in [Users -> Nat]
  BY <1>1
<1>4. Total(without) = Total(copies) - copies[u] + 0
  <2>1. \A f \in [Users -> Nat] : \A v \in Nat :
          Total([f EXCEPT ![u] = v]) = Total(f) - f[u] + v
    BY UsersAssumption, TotalUpdate
  <2> HIDE DEF copies
  <2>2. 0 \in Nat
    OBVIOUS
  <2> QED
    BY <1>1, <2>1, <2>2
<1>5. Total(copies) \in Nat /\ Total(without) \in Nat
  <2> HIDE DEF copies, without
  <2> QED
    BY <1>1, <1>3, UsersAssumption, TotalIsNat
<1>6. Total(copies) >= 1
  BY <1>2, <1>4, <1>5
<1>7. len = EmptySize + AddressSize * Total(copies)
  BY DEF RentFollowsList
<1>8. len >= AddressSize
  BY <1>5, <1>6, <1>7 DEF EmptySize, AddressSize
<1>9. lamports >= minimum_balance(len) /\ lamports \in Nat
  BY DEF RentFollowsList, TypeOK
<1>10. minimum_balance(len) >= minimum_balance(len - AddressSize)
  <2>1. minimum_balance(len) = minimum_balance(len - AddressSize) + AddressSize * LamportsPerByte
    BY <1>1, AmountsAssumption DEF minimum_balance, AddressSize
  <2>2. AddressSize * LamportsPerByte \in Nat
    BY AmountsAssumption DEF AddressSize
  <2>3. minimum_balance(len - AddressSize) \in Nat
    BY <1>1, <1>8, SizeTypes, RentType
  <2> QED
    BY <2>1, <2>2, <2>3
<1>11. lamports >= minimum_balance(len - AddressSize)
  <2>1. minimum_balance(len) \in Nat /\ minimum_balance(len - AddressSize) \in Nat
    BY <1>1, <1>8, SizeTypes, RentType
  <2> QED
    BY <1>9, <1>10, <2>1
<1> QED
  BY <1>2, <1>8, <1>11 DEF CanShrink

\* Neither check of a removal can fail for an address that is listed, whatever
\* was sent to the account and whoever signs, and one removal is enough.
THEOREM RemovalAlwaysPays ==
  Spec => [](\A u \in Users :
               list # NoAccount /\ Contains(u) => CanShrink /\ list.copies[u] = 1)
<1> DEFINE Inv == TypeOK /\ RentFollowsList /\ ListedOnce
<1>1. Init => Inv
  BY TypeInit, RentInit, ListedInit
<1>2. Inv /\ [Next]_vars => Inv'
  BY TypeStep, RentStep, ListedStep
<1>3. Inv => \A u \in Users :
               list # NoAccount /\ Contains(u) => CanShrink /\ list.copies[u] = 1
  BY RemovalPays
<1> HIDE DEF Inv
<1> QED
  BY <1>1, <1>2, <1>3, PTL DEF Spec
===============================================================================
