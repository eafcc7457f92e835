---------------------------- MODULE GptOracleProofs ----------------------------
(***************************************************************************)
(* Theorems about CompiledTransaction and GptOracle.                       *)
(*                                                                         *)
(* A table of accounts is sorted by priority, so the places of the         *)
(* accounts up to a priority are the first so many, and the header, which  *)
(* only counts, tells of every place what its account was passed with.     *)
(* That holds for any order the sort may produce and any instructions      *)
(* whose counts fit their bytes; what schedule_ask_gpt compiles is one     *)
(* case of it.                                                             *)
(***************************************************************************)
EXTENDS GptOracle, FiniteSetTheorems, SequenceTheorems, TLAPS

-------------------------------------------------------------------------------
(***************************************************************************)
(* The header.                                                             *)
(***************************************************************************)
\* A set of places that has every place before one of its own is the first so
\* many places.
LEMMA FirstPlaces ==
  ASSUME NEW n \in Nat, NEW D \in SUBSET (1 .. n),
         \A i \in D : \A j \in 1 .. n : j < i => j \in D
  PROVE  /\ IsFiniteSet(D) /\ Cardinality(D) \in Nat
         /\ D = 1 .. Cardinality(D)
<1>1. IsFiniteSet(1 .. n)
  BY FS_Interval
<1>2. IsFiniteSet(D) /\ Cardinality(D) \in Nat
  BY <1>1, FS_Subset, FS_CardinalityType
<1>3. ASSUME NEW i \in D PROVE i \in 1 .. Cardinality(D)
  <2>1. i \in Nat /\ 1 <= i /\ 1 .. i \in SUBSET D
    OBVIOUS
  <2>2. Cardinality(1 .. i) = i
    BY <2>1, FS_Interval
  <2>3. Cardinality(1 .. i) <= Cardinality(D)
    BY <1>2, <2>1, FS_Subset
  <2> QED
    BY <1>2, <2>1, <2>2, <2>3
<1>4. D \in SUBSET (1 .. Cardinality(D))
  BY <1>3
<1>5. IsFiniteSet(1 .. Cardinality(D)) /\ Cardinality(1 .. Cardinality(D)) = Cardinality(D)
  BY <1>2, FS_Interval
<1>6. 1 .. Cardinality(D) = D
  BY <1>4, <1>5, FS_Subset, Zenon
<1> QED
  BY <1>2, <1>6

LEMMA PriorityType ==
  ASSUME NEW instructions, NEW k
  PROVE  PriorityOf(instructions, k) \in 0 .. 3
BY DEF PriorityOf, get_priority

\* The places of one priority.
Level(instructions, order, p) ==
  {i \in 1 .. Len(order) : PriorityOf(instructions, order[i]) = p}

\* There are as many places of a priority as the header counts keys of it.
LEMMA LevelCount ==
  ASSUME NEW instructions, NEW order, order \in Seq(Range(order)),
         Sorted(instructions, order), NEW p
  PROVE  /\ IsFiniteSet(Level(instructions, order, p))
         /\ Count(instructions, p) = Cardinality(Level(instructions, order, p))
         /\ Count(instructions, p) \in Nat
<1> DEFINE L == Level(instructions, order, p)
           K == {k \in Keys(instructions) : PriorityOf(instructions, k) = p}
           f == [i \in L |-> order[i]]
<1>1. Len(order) \in Nat /\ DOMAIN order = 1 .. Len(order)
  OBVIOUS
<1>2. IsFiniteSet(L)
  <2>1. IsFiniteSet(1 .. Len(order)) /\ L \in SUBSET (1 .. Len(order))
    BY <1>1, FS_Interval DEF Level
  <2> QED
    BY <2>1, FS_Subset
<1>3. \A i \in L : i \in DOMAIN order /\ order[i] \in K
  BY <1>1 DEF Sorted, Level, Range
<1>4. \A i, j \in L : f[i] = f[j] => i = j
  BY <1>3 DEF Sorted, IsInjective
<1>5. \A k \in K : \E i \in L : f[i] = k
  BY <1>1 DEF Sorted, Level, Range
<1>6. f \in [L -> K]
  BY <1>3
<1>7. f \in Bijection(L, K)
  <2> HIDE DEF f, L, K
  <2> QED
    BY <1>4, <1>5, <1>6 DEF Bijection, Injection, Surjection, IsInjective
<1>8. IsFiniteSet(K) /\ Cardinality(K) = Cardinality(L)
  <2> HIDE DEF f, L, K
  <2> QED
    BY <1>2, <1>7, FS_Bijection DEF ExistsBijection
<1> QED
  BY <1>2, <1>8, FS_CardinalityType DEF Count

\* The places below a priority, one level on.
Below(instructions, order, p) ==
  {i \in 1 .. Len(order) : PriorityOf(instructions, order[i]) < p}

LEMMA NextLevel ==
  ASSUME NEW instructions, NEW order, order \in Seq(Range(order)),
         Sorted(instructions, order), NEW p \in 0 .. 2,
         IsFiniteSet(Below(instructions, order, p))
  PROVE  /\ IsFiniteSet(Below(instructions, order, p + 1))
         /\ Cardinality(Below(instructions, order, p + 1))
              = Cardinality(Below(instructions, order, p)) + Count(instructions, p)
<1> DEFINE B == Below(instructions, order, p)
           L == Level(instructions, order, p)
<1>1. \A i \in 1 .. Len(order) : PriorityOf(instructions, order[i]) \in 0 .. 3
  BY PriorityType
<1>2. Below(instructions, order, p + 1) = B \cup L
  <2>1. ASSUME NEW i \in 1 .. Len(order)
        PROVE  PriorityOf(instructions, order[i]) < p + 1
                 <=> \/ PriorityOf(instructions, order[i]) < p
                     \/ PriorityOf(instructions, order[i]) = p
    BY <1>1
  <2> QED
    BY <2>1 DEF Below, Level
<1>3. B \cap L = {}
  BY <1>1 DEF Below, Level
<1>4. IsFiniteSet(L) /\ Cardinality(L) = Count(instructions, p)
      /\ Count(instructions, p) \in Nat
  BY LevelCount
<1>5. IsFiniteSet(B) /\ Cardinality(B) \in Nat /\ Cardinality({}) = 0
  BY FS_CardinalityType, FS_EmptySet
<1>6. /\ IsFiniteSet(B \cup L)
      /\ Cardinality(B \cup L) = Cardinality(B) + Cardinality(L) - Cardinality(B \cap L)
  <2> HIDE DEF B, L
  <2> QED
    BY <1>4, <1>5, FS_Union, Zenon
<1> HIDE DEF B, L
<1>7. Cardinality(B \cup L) = Cardinality(B) + Count(instructions, p)
  <2>1. Cardinality(B \cap L) = 0
    BY <1>3, <1>5, Zenon
  <2>2. Cardinality(B \cup L) = Cardinality(B) + Count(instructions, p) - 0
    BY <1>4, <1>6, <2>1, Zenon
  <2>3. \A a, b \in Nat : a + b - 0 = a + b
    OBVIOUS
  <2> QED
    BY <1>4, <1>5, <2>2, <2>3, Zenon
<1>8. /\ IsFiniteSet(B \cup L)
      /\ Cardinality(B \cup L)
           = Cardinality(Below(instructions, order, p)) + Count(instructions, p)
  BY <1>6, <1>7 DEF B
<1> QED
  BY <1>2, <1>8, Zenon

\* A place comes before the end of a priority exactly when its account has a
\* priority up to it.
LEMMA PlaceTells ==
  ASSUME NEW instructions, NEW order, order \in Seq(Range(order)),
         Sorted(instructions, order), NEW p \in 0 .. 3,
         NEW i \in DOMAIN order,
         IsFiniteSet(Below(instructions, order, p))
  PROVE  i <= Cardinality(Below(instructions, order, p))
           <=> PriorityOf(instructions, order[i]) < p
<1> DEFINE n == Len(order)
           D == Below(instructions, order, p)
<1>1. n \in Nat /\ DOMAIN order = 1 .. n /\ D \in SUBSET (1 .. n)
  BY DEF Below
<1>2. ASSUME NEW a \in D, NEW b \in 1 .. n, b < a PROVE b \in D
  <2>1. /\ PriorityOf(instructions, order[b]) <= PriorityOf(instructions, order[a])
        /\ PriorityOf(instructions, order[a]) < p
    BY <1>1, <1>2 DEF Sorted, Below
  <2>2. /\ PriorityOf(instructions, order[a]) \in 0 .. 3
        /\ PriorityOf(instructions, order[b]) \in 0 .. 3
    BY PriorityType
  <2> QED
    BY <2>1, <2>2 DEF Below
<1>3. D = 1 .. Cardinality(D) /\ Cardinality(D) \in Nat
  <2> HIDE DEF D
  <2> QED
    BY <1>1, <1>2, FirstPlaces
<1>4. i \in D <=> i <= Cardinality(D)
  <2> HIDE DEF D
  <2> QED
    BY <1>1, <1>3
<1> QED
  BY <1>1, <1>4 DEF Below

\* The header of a transaction that compiles, which is one whose counts and sums
\* fit a byte, tells of every account in its table whether some instruction
\* passed it as a signer, and as writable.
THEOREM HeaderTells ==
  ASSUME NEW instructions, NEW order, order \in Seq(Range(order)),
         Sorted(instructions, order), Compiles(instructions),
         NEW i \in DOMAIN order
  PROVE  LET tx == CompileTransaction(instructions, order)
         IN  /\ i - 1 < NumSigners(tx) <=> IsSigner(instructions, order[i])
             /\ WritableAt(tx, i - 1) <=> IsWritable(instructions, order[i])
<1> DEFINE tx == CompileTransaction(instructions, order)
           B(p) == Below(instructions, order, p)
           P == PriorityOf(instructions, order[i])
<1>1. IsFiniteSet(B(0)) /\ Cardinality(B(0)) = 0
  <2>1. B(0) = {}
    BY PriorityType DEF Below
  <2> QED
    BY <2>1, FS_EmptySet
<1>2. IsFiniteSet(B(1)) /\ Cardinality(B(1)) = Count(instructions, 0)
  BY <1>1, NextLevel, LevelCount
<1>3. /\ IsFiniteSet(B(2))
      /\ Cardinality(B(2)) = Count(instructions, 0) + Count(instructions, 1)
  BY <1>2, NextLevel
<1>4. /\ IsFiniteSet(B(3))
      /\ Cardinality(B(3)) = (Count(instructions, 0) + Count(instructions, 1))
                               + Count(instructions, 2)
  BY <1>3, NextLevel
<1>5. /\ i <= Cardinality(B(1)) <=> P < 1
      /\ i <= Cardinality(B(2)) <=> P < 2
      /\ i <= Cardinality(B(3)) <=> P < 3
  BY <1>2, <1>3, <1>4, PlaceTells
<1>6. /\ Count(instructions, 0) \in Nat
      /\ Count(instructions, 1) \in Nat
      /\ Count(instructions, 2) \in Nat
      /\ i \in Nat
  BY LevelCount
<1>7. /\ NumSigners(tx) = Count(instructions, 0) + Count(instructions, 1)
      /\ tx.num_rw_signers = Count(instructions, 0)
      /\ tx.num_rw = Count(instructions, 2)
  BY DEF CompileTransaction, NumSigners
<1>8. /\ i - 1 < NumSigners(tx) <=> P < 2
      /\ WritableAt(tx, i - 1) <=> P < 1 \/ (~(P < 2) /\ P < 3)
  <2> HIDE DEF tx, P, B
  <2> QED
    BY <1>2, <1>3, <1>4, <1>5, <1>6, <1>7 DEF WritableAt
<1>9. /\ P < 2 <=> IsSigner(instructions, order[i])
      /\ P < 1 \/ (~(P < 2) /\ P < 3) <=> IsWritable(instructions, order[i])
  <2>1. IsSigner(instructions, order[i]) \in BOOLEAN
    BY DEF IsSigner
  <2>2. IsWritable(instructions, order[i]) \in BOOLEAN
    BY DEF IsWritable
  <2> QED
    BY <2>1, <2>2 DEF PriorityOf, get_priority
<1> QED
  BY <1>8, <1>9

-------------------------------------------------------------------------------
(***************************************************************************)
(* Packing and unpacking.                                                  *)
(***************************************************************************)
\* In a table of at most 256 accounts no index is cut.
LEMMA IndexFinds ==
  ASSUME NEW instructions, NEW order, order \in Seq(Range(order)),
         Sorted(instructions, order), Len(order) <= 256,
         NEW k \in Keys(instructions)
  PROVE  /\ IndexOf(order, k) + 1 \in DOMAIN order
         /\ IndexOf(order, k) \in Int
         /\ order[IndexOf(order, k) + 1] = k
<1>1. PICK i \in DOMAIN order : order[i] = k
  BY DEF Sorted, Range
<1> DEFINE c == CHOOSE j \in DOMAIN order : order[j] = k
<1>2. c \in DOMAIN order /\ order[c] = k
  BY <1>1
<1>3. DOMAIN order = 1 .. Len(order) /\ Len(order) \in Nat
  OBVIOUS
<1>4. IndexOf(order, k) = (c - 1) % 256
  BY DEF IndexOf
<1> HIDE DEF c
<1>5. c \in Nat /\ 1 <= c /\ c <= 256
  BY <1>2, <1>3
<1>6. \A n \in Nat : 1 <= n /\ n <= 256 => (n - 1) % 256 = n - 1
  OBVIOUS
<1>7. (c - 1) % 256 = c - 1
  BY <1>5, <1>6
<1>8. IndexOf(order, k) = c - 1
  BY <1>4, <1>7
<1>9. (c - 1) + 1 = c /\ c - 1 \in Int
  BY <1>5
<1> QED
  BY <1>2, <1>8, <1>9

\* The instructions, each account with the flags of all its mentions together:
\* what a transaction grants, it grants to all of its instructions.
Merged(instructions) ==
  [i \in DOMAIN instructions |->
    [program_id |-> instructions[i].program_id,
     accounts   |-> [j \in DOMAIN instructions[i].accounts |->
                       LET k == instructions[i].accounts[j].pubkey
                       IN  Meta(k, IsSigner(instructions, k),
                                IsWritable(instructions, k))],
     data       |-> instructions[i].data]]

\* What Tuktuk unpacks are the instructions that were packed: the programs, the
\* accounts in their places and the data, for any order and any instructions
\* that compile into a table of at most 256 accounts.  Beyond those an index is
\* cut and names another account.
THEOREM CompiledDecodes ==
  ASSUME NEW instructions, NEW order, order \in Seq(Range(order)),
         Sorted(instructions, order), Compiles(instructions), Len(order) <= 256
  PROVE  Decoded(CompileTransaction(instructions, order)) = Merged(instructions)
<1> DEFINE tx == CompileTransaction(instructions, order)
<1>1. tx.accounts = order /\ DOMAIN tx.instructions = DOMAIN instructions
  BY DEF CompileTransaction
<1>2. ASSUME NEW k \in Keys(instructions)
      PROVE  /\ tx.accounts[IndexOf(order, k) + 1] = k
             /\ DecodedMeta(tx, IndexOf(order, k))
                  = Meta(k, IsSigner(instructions, k), IsWritable(instructions, k))
  <2> DEFINE x == IndexOf(order, k)
  <2>1. x + 1 \in DOMAIN order /\ x \in Int /\ order[x + 1] = k
    BY IndexFinds
  <2>2. /\ (x + 1) - 1 < NumSigners(tx) <=> IsSigner(instructions, order[x + 1])
        /\ WritableAt(tx, (x + 1) - 1) <=> IsWritable(instructions, order[x + 1])
    <3> HIDE DEF x
    <3> QED
      BY <2>1, HeaderTells
  <2>3. (x + 1) - 1 = x
    <3> HIDE DEF x
    <3> QED
      BY <2>1
  <2>4. /\ x < NumSigners(tx) <=> IsSigner(instructions, k)
        /\ WritableAt(tx, x) <=> IsWritable(instructions, k)
    <3> HIDE DEF x, tx
    <3> QED
      BY <2>1, <2>2, <2>3
  <2>5. /\ (x < NumSigners(tx)) \in BOOLEAN /\ IsSigner(instructions, k) \in BOOLEAN
        /\ WritableAt(tx, x) \in BOOLEAN /\ IsWritable(instructions, k) \in BOOLEAN
    BY DEF IsSigner, IsWritable, WritableAt
  <2>6. /\ (x < NumSigners(tx)) = IsSigner(instructions, k)
        /\ WritableAt(tx, x) = IsWritable(instructions, k)
    <3> HIDE DEF x, tx
    <3> QED
      BY <2>4, <2>5
  <2> HIDE DEF x, tx
  <2> QED
    BY <1>1, <2>1, <2>6 DEF DecodedMeta, x
<1>3. ASSUME NEW i \in DOMAIN instructions
      PROVE  /\ instructions[i].program_id \in Keys(instructions)
             /\ \A j \in DOMAIN instructions[i].accounts :
                  instructions[i].accounts[j].pubkey \in Keys(instructions)
  BY DEF Keys, Metas, Range
<1>4. ASSUME NEW i \in DOMAIN instructions
      PROVE  Decoded(tx)[i] = Merged(instructions)[i]
  <2>1. tx.instructions[i] =
          [program_id_index |-> IndexOf(order, instructions[i].program_id),
           accounts |-> [j \in DOMAIN instructions[i].accounts |->
                           IndexOf(order, instructions[i].accounts[j].pubkey)],
           data |-> instructions[i].data]
    BY DEF CompileTransaction
  <2>2. /\ DOMAIN tx.instructions[i].accounts = DOMAIN instructions[i].accounts
        /\ \A j \in DOMAIN instructions[i].accounts :
             tx.instructions[i].accounts[j]
               = IndexOf(order, instructions[i].accounts[j].pubkey)
        /\ tx.instructions[i].program_id_index
             = IndexOf(order, instructions[i].program_id)
        /\ tx.instructions[i].data = instructions[i].data
    <3> HIDE DEF tx
    <3> QED
      BY <2>1
  <2>3. tx.accounts[tx.instructions[i].program_id_index + 1]
          = instructions[i].program_id
    <3> HIDE DEF tx
    <3> QED
      BY <1>2, <1>3, <2>2
  <2>4. \A j \in DOMAIN instructions[i].accounts :
          DecodedMeta(tx, tx.instructions[i].accounts[j])
            = Meta(instructions[i].accounts[j].pubkey,
                   IsSigner(instructions, instructions[i].accounts[j].pubkey),
                   IsWritable(instructions, instructions[i].accounts[j].pubkey))
    <3> HIDE DEF tx
    <3> QED
      BY <1>2, <1>3, <2>2
  <2>5. Decoded(tx)[i] =
          [program_id |-> tx.accounts[tx.instructions[i].program_id_index + 1],
           accounts   |-> [j \in DOMAIN tx.instructions[i].accounts |->
                             DecodedMeta(tx, tx.instructions[i].accounts[j])],
           data       |-> tx.instructions[i].data]
    <3> HIDE DEF tx
    <3> QED
      BY <1>1 DEF Decoded
  <2> HIDE DEF tx
  <2> QED
    BY <2>2, <2>3, <2>4, <2>5 DEF Merged
<1>5. /\ Decoded(tx) = [i \in DOMAIN instructions |-> Decoded(tx)[i]]
      /\ Merged(instructions) = [i \in DOMAIN instructions |-> Merged(instructions)[i]]
  <2> HIDE DEF tx
  <2> QED
    BY <1>1 DEF Decoded, Merged
<1> HIDE DEF tx
<1>6. Decoded(tx) = Merged(instructions)
  BY <1>4, <1>5
<1> QED
  BY <1>6 DEF tx

-------------------------------------------------------------------------------
(***************************************************************************)
(* The accounts of GptOracle.                                              *)
(***************************************************************************)
LEMMA ByteArithmetic ==
  /\ SPACE = 849
  /\ \A p, r \in Nat : /\ Serialized(p, r) = p + r + 81
                      /\ Serialized(p, r) \in Nat
BY DEF SPACE, Serialized, MAX_PROMPT, MAX_RESPONSE

LEMMA TruncatedType ==
  ASSUME NEW answer \in Answers
  PROVE  Truncated(answer) \in 0 .. MAX_RESPONSE
BY TextAssumption DEF Truncated, MAX_RESPONSE

LEMMA TypeInit == Init => TypeOK
BY DEF Init, TypeOK, Configured

LEMMA TypeStep == TypeOK /\ [Next]_vars => TypeOK'
<1> SUFFICES ASSUME TypeOK, [Next]_vars PROVE TypeOK'
  OBVIOUS
<1>1. ASSUME NEW context \in Contexts, NEW prompt \in Prompts,
             Initialize(context, prompt)
      PROVE  TypeOK'
  <2>1. /\ config' \in [context_account : Contexts, prompt : Nat,
                        latest_response : 0 .. MAX_RESPONSE]
        /\ config'.prompt = prompt /\ config'.latest_response = 0
    BY <1>1, TextAssumption DEF Initialize, MAX_RESPONSE
  <2>2. Serialized(config'.prompt, config'.latest_response) <= SPACE
    BY <1>1, <2>1 DEF Initialize
  <2> QED
    BY <1>1, <2>1, <2>2 DEF Initialize, TypeOK
<1>2. ASSUME NEW accounts, Ask(accounts)
      PROVE  TypeOK'
  BY <1>2 DEF Ask, TypeOK, Configured
<1>3. ASSUME NEW answer \in Answers, ReceiveResponse(answer)
      PROVE  TypeOK'
  <2>1. Truncated(answer) \in 0 .. MAX_RESPONSE
    BY TruncatedType
  <2>2. config \in [context_account : Contexts, prompt : Nat,
                    latest_response : 0 .. MAX_RESPONSE]
    BY <1>3 DEF ReceiveResponse, TypeOK
  <2>3. /\ config' \in [context_account : Contexts, prompt : Nat,
                        latest_response : 0 .. MAX_RESPONSE]
        /\ config'.prompt = config.prompt
        /\ config'.latest_response = Truncated(answer)
    BY <1>3, <2>1, <2>2 DEF ReceiveResponse
  <2>4. Serialized(config'.prompt, config'.latest_response) <= SPACE
    BY <1>3, <2>3 DEF ReceiveResponse
  <2> QED
    BY <1>3, <2>3, <2>4 DEF ReceiveResponse, TypeOK
<1>4. CASE CronReads
  BY <1>4 DEF CronReads, TypeOK, Configured
<1>5. CASE CronRegisters
  BY <1>5 DEF CronRegisters, TypeOK, Configured
<1>6. ASSUME NEW order \in Orders, ScheduleAskGpt(order)
      PROVE  TypeOK'
  BY <1>6 DEF ScheduleAskGpt, TypeOK, Configured
<1>7. CASE UNCHANGED vars
  BY <1>7 DEF vars, TypeOK, Configured
<1> QED
  BY <1>1, <1>2, <1>3, <1>4, <1>5, <1>6, <1>7 DEF Next, AskGpt, Crank

\* Prompt and answer together never outgrow the account, nor an answer the field
\* it is declared with, whatever initialize and receive_response are passed.
THEOREM TypeCorrect == Spec => []TypeOK
BY TypeInit, TypeStep, PTL DEF Spec

-------------------------------------------------------------------------------
(***************************************************************************)
(* The request.                                                            *)
(***************************************************************************)
Request(payer_signs) == <<AskGptIx(config.context_account, payer_signs)>>

LEMMA RequestAccounts ==
  ASSUME NEW payer_signs
  PROVE  LET ix == Request(payer_signs)[1]
         IN  /\ DOMAIN Request(payer_signs) = 1 .. 1
             /\ ix.program_id = GptProgram /\ ix.data = "ask_gpt"
             /\ DOMAIN ix.accounts = 1 .. 6
             /\ ix.accounts[1] = Meta(GptConfig, FALSE, FALSE)
             /\ ix.accounts[2] = Meta(Payer, payer_signs, TRUE)
             /\ ix.accounts[3] = Meta(InteractionOf[config.context_account], FALSE, TRUE)
             /\ ix.accounts[4] = Meta(config.context_account, FALSE, FALSE)
             /\ ix.accounts[5] = Meta(OracleProgram, FALSE, FALSE)
             /\ ix.accounts[6] = Meta(SystemProgram, FALSE, FALSE)
<1> DEFINE ix == AskGptIx(config.context_account, payer_signs)
<1>1. DOMAIN Request(payer_signs) = 1 .. 1 /\ Request(payer_signs)[1] = ix
  BY DEF Request
<1>2. ix.program_id = GptProgram /\ ix.data = "ask_gpt"
  BY DEF AskGptIx
<1>3. DOMAIN ix.accounts = 1 .. 6
  BY DEF AskGptIx
<1>4. /\ ix.accounts[1] = Meta(GptConfig, FALSE, FALSE)
      /\ ix.accounts[2] = Meta(Payer, payer_signs, TRUE)
      /\ ix.accounts[3] = Meta(InteractionOf[config.context_account], FALSE, TRUE)
      /\ ix.accounts[4] = Meta(config.context_account, FALSE, FALSE)
      /\ ix.accounts[5] = Meta(OracleProgram, FALSE, FALSE)
      /\ ix.accounts[6] = Meta(SystemProgram, FALSE, FALSE)
  BY DEF AskGptIx
<1> HIDE DEF ix
<1> QED
  BY <1>1, <1>2, <1>3, <1>4

\* A request is one that ask_gpt takes, as long as the configuration has its
\* context.
LEMMA RequestRuns ==
  ASSUME Configured
  PROVE  RunsAskGpt(AskGptIx(config.context_account, FALSE))
<1> DEFINE ix == AskGptIx(config.context_account, FALSE)
<1>1. ix.program_id = GptProgram /\ ix.data = "ask_gpt" /\ Len(ix.accounts) = 6
  BY DEF AskGptIx
<1>2. DOMAIN ix.accounts = {1, 2, 3, 4, 5, 6}
  BY DEF AskGptIx
<1>3. /\ ix.accounts[1] = Meta(GptConfig, FALSE, FALSE)
      /\ ix.accounts[2] = Meta(Payer, FALSE, TRUE)
      /\ ix.accounts[3] = Meta(InteractionOf[config.context_account], FALSE, TRUE)
      /\ ix.accounts[4] = Meta(config.context_account, FALSE, FALSE)
      /\ ix.accounts[5] = Meta(OracleProgram, FALSE, FALSE)
      /\ ix.accounts[6] = Meta(SystemProgram, FALSE, FALSE)
  BY DEF AskGptIx
<1> HIDE DEF ix
<1>4. AskAccepted(ix.accounts)
  BY <1>1, <1>3 DEF AskAccepted, Meta
<1>5. \A i \in DOMAIN ix.accounts : ~ix.accounts[i].is_signer
  <2>1. /\ ~ix.accounts[1].is_signer /\ ~ix.accounts[2].is_signer
        /\ ~ix.accounts[3].is_signer /\ ~ix.accounts[4].is_signer
        /\ ~ix.accounts[5].is_signer /\ ~ix.accounts[6].is_signer
    BY <1>3 DEF Meta
  <2> QED
    BY <1>2, <2>1
<1>6. RunsAskGpt(ix)
  BY <1>1, <1>4, <1>5 DEF RunsAskGpt
<1> QED
  BY <1>6 DEF ix

\* The call of schedule_ask_gpt names the interaction account, which is not
\* among those it hands over.
LEMMA ScheduleRefused ==
  ASSUME TypeOK, Configured, NEW order \in Orders, Sorted(Request(TRUE), order),
         NEW tx, tx = CompileTransaction(Request(TRUE), order)
  PROVE  ~InvokeAccepted(QueueTaskAccounts(tx))
<1> DEFINE key == InteractionOf[config.context_account]
           rest == RemainingAccounts(tx)
           metas == QueueTaskAccounts(tx)
<1>1. key \notin AccountInfos \cup Executable
  <2>1. config.context_account \in Contexts
    BY DEF TypeOK, Configured
  <2> QED
    BY <2>1, KeysAssumption DEF AccountInfos, Executable
<1>2. key \in Keys(Request(TRUE))
  <2> DEFINE accounts == Request(TRUE)[1].accounts
  <2>1. accounts[3].pubkey = key
    <3>1. accounts[3] = Meta(key, FALSE, TRUE)
      BY RequestAccounts
    <3> HIDE DEF accounts, key
    <3> QED
      BY <3>1 DEF Meta
  <2>2. DOMAIN Request(TRUE) = 1 .. 1 /\ DOMAIN accounts = 1 .. 6
    BY RequestAccounts
  <2>3. accounts[3] \in Range(accounts)
    <3> HIDE DEF accounts
    <3> QED
      BY <2>2 DEF Range
  <2>4. Range(accounts) \subseteq Metas(Request(TRUE))
    <3> DEFINE r == Request(TRUE)
    <3>1. 1 \in DOMAIN r
      <4>1. DOMAIN r = 1 .. 1
        BY RequestAccounts
      <4> HIDE DEF r
      <4> QED
        BY <4>1
    <3> HIDE DEF r
    <3>2. Range(r[1].accounts) \subseteq Metas(r)
      BY <3>1 DEF Metas
    <3> QED
      BY <3>2 DEF r
  <2> HIDE DEF accounts
  <2> QED
    BY <2>1, <2>3, <2>4 DEF Keys
<1>3. PICK i \in DOMAIN order : order[i] = key
  BY <1>2 DEF Sorted, Range
<1>4. tx.accounts = order /\ DOMAIN order = 1 .. Len(order) /\ Len(order) \in Nat
  BY OrdersAssumption DEF CompileTransaction
<1>5. /\ rest \in Seq({rest[j] : j \in DOMAIN order})
      /\ Len(rest) = Len(order)
      /\ rest[i].pubkey = key
  <2>1. rest = [j \in 1 .. Len(order) |-> rest[j]]
    BY <1>4 DEF RemainingAccounts
  <2>2. rest[i].pubkey = key
    BY <1>3, <1>4 DEF RemainingAccounts, Meta
  <2> HIDE DEF rest
  <2> QED
    BY <1>4, <2>1, <2>2
<1>6. i + 6 \in DOMAIN metas /\ metas[i + 6] = rest[i]
  <2> DEFINE first == <<Meta(Admin, TRUE, TRUE),
                        Meta(QueueAuthority, TRUE, FALSE),
                        Meta(TaskQueueAuthority, FALSE, FALSE),
                        Meta(TaskQueue, FALSE, TRUE),
                        Meta(Task, FALSE, TRUE),
                        Meta(SystemProgram, FALSE, FALSE)>>
  <2>1. metas = first \o rest
    BY DEF QueueTaskAccounts
  <2>2. Len(first) = 6 /\ first \in Seq({first[j] : j \in 1 .. 6})
    <3>1. first = [j \in 1 .. 6 |-> first[j]]
      OBVIOUS
    <3> HIDE DEF first
    <3> QED
      BY <3>1
  <2> DEFINE S == {first[j] : j \in 1 .. 6} \cup {rest[j] : j \in DOMAIN order}
  <2> HIDE DEF first, rest, metas
  <2>3. first \in Seq(S) /\ rest \in Seq(S)
    BY <1>4, <1>5, <2>2
  <2> HIDE DEF S
  <2>4. /\ metas \in Seq(S) /\ Len(metas) = 6 + Len(order)
        /\ \A k \in 1 .. 6 + Len(order) :
             metas[k] = IF k <= 6 THEN first[k] ELSE rest[k - 6]
    <3>1. /\ first \o rest \in Seq(S)
          /\ Len(first \o rest) = Len(first) + Len(rest)
          /\ \A k \in 1 .. Len(first) + Len(rest) :
               (first \o rest)[k] = IF k <= Len(first) THEN first[k]
                                                     ELSE rest[k - Len(first)]
      BY <2>3, ConcatProperties, Zenon
    <3> QED
      BY <1>5, <2>1, <2>2, <3>1, Zenon
  <2>5. i \in 1 .. Len(order) /\ DOMAIN metas = 1 .. 6 + Len(order)
    BY <1>4, <2>4
  <2>6. /\ i + 6 \in 1 .. 6 + Len(order) /\ ~(i + 6 <= 6)
        /\ (i + 6) - 6 = i
    BY <1>4, <2>5
  <2> QED
    BY <2>4, <2>5, <2>6, Zenon
<1>7. key \in {m.pubkey : m \in Range(metas)}
  <2> HIDE DEF metas, rest
  <2> QED
    BY <1>5, <1>6 DEF Range
<1> QED
  BY <1>1, <1>7 DEF InvokeAccepted

-------------------------------------------------------------------------------
(***************************************************************************)
(* The tasks.                                                              *)
(***************************************************************************)
\* Inductive: there is one context, which the script has read and every task
\* names.
OneContext ==
  /\ script # NoAccount => Configured /\ script = config.context_account
  /\ \A ix \in queue :
        Configured /\ ix = AskGptIx(config.context_account, FALSE)

LEMMA ContextInit == Init => OneContext
BY DEF Init, OneContext

\* A configuration, once there, stays and keeps its context.
LEMMA ContextStays ==
  ASSUME TypeOK, Configured, [Next]_vars
  PROVE  Configured' /\ config'.context_account = config.context_account
<1>1. config \in [context_account : Contexts, prompt : Nat,
                  latest_response : 0 .. MAX_RESPONSE]
  BY DEF TypeOK
<1>2. ASSUME NEW answer \in Answers, ReceiveResponse(answer)
      PROVE  Configured' /\ config'.context_account = config.context_account
  <2>1. config' \in [context_account : Contexts, prompt : Nat, latest_response : Nat]
    BY <1>1, <1>2, TruncatedType DEF ReceiveResponse, MAX_RESPONSE
  <2> QED
    BY <1>1, <1>2, <2>1, NoAccountAssumption DEF ReceiveResponse, Configured
<1>3. ~\E context \in Contexts, prompt \in Prompts : Initialize(context, prompt)
  BY DEF Initialize, Configured
<1>4. ASSUME UNCHANGED config
      PROVE  Configured' /\ config'.context_account = config.context_account
  BY <1>4 DEF Configured
<1>5. CASE \E answer \in Answers : ReceiveResponse(answer)
  BY <1>2, <1>5
<1>6. CASE ~\E answer \in Answers : ReceiveResponse(answer)
  <2>1. UNCHANGED config
    BY <1>3, <1>6 DEF Next, vars, AskGpt, Ask, CronReads, CronRegisters,
                      ScheduleAskGpt, Crank
  <2> QED
    BY <1>4, <2>1
<1> QED
  BY <1>5, <1>6

LEMMA ContextStep == TypeOK /\ OneContext /\ [Next]_vars => OneContext'
<1> SUFFICES ASSUME TypeOK, OneContext, [Next]_vars PROVE OneContext'
  OBVIOUS
<1>1. Configured => Configured' /\ config'.context_account = config.context_account
  BY ContextStays
<1>2. ASSUME UNCHANGED <<script, queue>>
      PROVE  OneContext'
  BY <1>1, <1>2 DEF OneContext
<1>3. CASE CronReads
  <2>1. Configured /\ script' = config.context_account /\ queue' = queue
    BY <1>3 DEF CronReads
  <2> QED
    BY <1>1, <2>1 DEF OneContext
<1>4. CASE CronRegisters
  <2>1. /\ script # NoAccount /\ script' = NoAccount
        /\ queue' = queue \cup {AskGptIx(script, FALSE)}
    BY <1>4 DEF CronRegisters
  <2>2. Configured /\ script = config.context_account
    BY <2>1 DEF OneContext
  <2> QED
    BY <1>1, <2>1, <2>2 DEF OneContext
<1>5. ASSUME NEW order \in Orders, ScheduleAskGpt(order)
      PROVE  OneContext'
  <2>1. UNCHANGED <<script, queue>>
    BY <1>5, ScheduleRefused DEF ScheduleAskGpt, Request
  <2> QED
    BY <1>2, <2>1
<1>6. CASE UNCHANGED vars
  BY <1>2, <1>6 DEF vars
<1>7. ASSUME NEW context \in Contexts, NEW prompt \in Prompts,
             Initialize(context, prompt)
      PROVE  OneContext'
  BY <1>2, <1>7 DEF Initialize
<1>8. ASSUME NEW accounts, Ask(accounts)
      PROVE  OneContext'
  BY <1>2, <1>8 DEF Ask
<1>9. ASSUME NEW answer \in Answers, ReceiveResponse(answer)
      PROVE  OneContext'
  BY <1>2, <1>9 DEF ReceiveResponse
<1> QED
  BY <1>3, <1>4, <1>5, <1>6, <1>7, <1>8, <1>9 DEF Next, AskGpt, Crank

\* Every task that the script registered is one that ask_gpt takes, from then
\* on: initialize cannot be called again, and nothing else changes the context.
THEOREM TasksAlwaysRun == Spec => []TasksRun
<1>1. OneContext => TasksRun
  BY RequestRuns DEF OneContext, TasksRun
<1> QED
  BY <1>1, TypeInit, TypeStep, ContextInit, ContextStep, PTL DEF Spec

-------------------------------------------------------------------------------
(***************************************************************************)
(* What schedule_ask_gpt compiles.                                         *)
(***************************************************************************)
\* The flags of a request's accounts: each is passed once, so that merging its
\* mentions changes nothing.
LEMMA RequestFlags ==
  ASSUME TypeOK, Configured, NEW j \in 1 .. 6
  PROVE  LET r == Request(TRUE)
             k == r[1].accounts[j].pubkey
         IN  Meta(k, IsSigner(r, k), IsWritable(r, k)) = r[1].accounts[j]
<1> DEFINE r == Request(TRUE)
           accounts == r[1].accounts
           c == config.context_account
           i == InteractionOf[c]
<1>1. /\ DOMAIN r = 1 .. 1 /\ DOMAIN accounts = 1 .. 6
      /\ accounts[1] = Meta(GptConfig, FALSE, FALSE)
      /\ accounts[2] = Meta(Payer, TRUE, TRUE)
      /\ accounts[3] = Meta(i, FALSE, TRUE)
      /\ accounts[4] = Meta(c, FALSE, FALSE)
      /\ accounts[5] = Meta(OracleProgram, FALSE, FALSE)
      /\ accounts[6] = Meta(SystemProgram, FALSE, FALSE)
  BY RequestAccounts
<1>2. c \in Contexts
  BY DEF TypeOK
<1>3. /\ i # c
      /\ {c, i} \cap {GptConfig, Payer, OracleProgram, SystemProgram} = {}
      /\ Payer \notin {GptConfig, OracleProgram, SystemProgram}
  BY <1>2, KeysAssumption
<1> HIDE DEF r, accounts, c, i
<1>4. /\ \A n \in 1 .. 6 : accounts[n] \in Metas(r)
      /\ \A m \in Metas(r) : \E n \in 1 .. 6 : m = accounts[n]
  <2>1. Metas(r) = Range(accounts)
    BY <1>1 DEF Metas, accounts
  <2> QED
    BY <1>1, <2>1 DEF Range
<1>5. /\ accounts[1].pubkey = GptConfig /\ accounts[2].pubkey = Payer
      /\ accounts[3].pubkey = i /\ accounts[4].pubkey = c
      /\ accounts[5].pubkey = OracleProgram /\ accounts[6].pubkey = SystemProgram
  BY <1>1 DEF Meta
<1>6. /\ accounts[1].is_signer = FALSE /\ accounts[1].is_writable = FALSE
      /\ accounts[2].is_signer = TRUE /\ accounts[2].is_writable = TRUE
      /\ accounts[3].is_signer = FALSE /\ accounts[3].is_writable = TRUE
      /\ accounts[4].is_signer = FALSE /\ accounts[4].is_writable = FALSE
      /\ accounts[5].is_signer = FALSE /\ accounts[5].is_writable = FALSE
      /\ accounts[6].is_signer = FALSE /\ accounts[6].is_writable = FALSE
  BY <1>1 DEF Meta
<1>7. ASSUME NEW n \in 1 .. 6
      PROVE  /\ accounts[n].pubkey = Payer <=> n = 2
             /\ accounts[n].pubkey = i <=> n = 3
  <2>1. /\ i # Payer /\ c # Payer /\ c # i
        /\ i \notin {GptConfig, OracleProgram, SystemProgram}
    BY <1>3
  <2>2. n = 1 \/ n = 2 \/ n = 3 \/ n = 4 \/ n = 5 \/ n = 6
    OBVIOUS
  <2> QED
    BY <1>3, <1>5, <2>1, <2>2
<1> DEFINE k == accounts[j].pubkey
<1>8. /\ IsSigner(r, k) <=> k = Payer
      /\ IsWritable(r, k) <=> k = Payer \/ k = i
  <2>1. /\ accounts[2] \in Metas(r) /\ accounts[3] \in Metas(r)
        /\ accounts[2].is_signer /\ accounts[2].is_writable
        /\ accounts[3].is_writable
    BY <1>4, <1>6
  <2>2. ASSUME NEW m \in Metas(r)
        PROVE  /\ m.is_signer => m.pubkey = Payer
               /\ m.is_writable => m.pubkey = Payer \/ m.pubkey = i
    <3>1. PICK n \in 1 .. 6 : m = accounts[n]
      BY <1>4
    <3>2. n = 1 \/ n = 2 \/ n = 3 \/ n = 4 \/ n = 5 \/ n = 6
      OBVIOUS
    <3> QED
      BY <1>5, <1>6, <3>1, <3>2
  <2> HIDE DEF k
  <2>3. IsSigner(r, k) <=> k = Payer
    BY <1>5, <2>1, <2>2 DEF IsSigner
  <2>4. IsWritable(r, k) <=> k = Payer \/ k = i
    BY <1>5, <2>1, <2>2 DEF IsWritable
  <2> QED
    BY <2>3, <2>4
<1>9. /\ IsSigner(r, k) = accounts[j].is_signer
      /\ IsWritable(r, k) = accounts[j].is_writable
  <2>1. IsSigner(r, k) \in BOOLEAN /\ IsWritable(r, k) \in BOOLEAN
    BY DEF IsSigner, IsWritable
  <2>2. /\ IsSigner(r, k) = (j = 2)
        /\ IsWritable(r, k) = (j = 2 \/ j = 3)
    <3>1. /\ IsSigner(r, k) <=> j = 2
          /\ IsWritable(r, k) <=> j = 2 \/ j = 3
      BY <1>7, <1>8
    <3> QED
      BY <2>1, <3>1
  <2>3. j = 1 \/ j = 2 \/ j = 3 \/ j = 4 \/ j = 5 \/ j = 6
    OBVIOUS
  <2> HIDE DEF k
  <2> QED
    BY <1>6, <2>2, <2>3
<1>10. accounts[j] = Meta(accounts[j].pubkey, accounts[j].is_signer,
                          accounts[j].is_writable)
  <2>1. j = 1 \/ j = 2 \/ j = 3 \/ j = 4 \/ j = 5 \/ j = 6
    OBVIOUS
  <2> QED
    BY <1>1, <2>1 DEF Meta
<1>11. Meta(accounts[j].pubkey, IsSigner(r, accounts[j].pubkey),
            IsWritable(r, accounts[j].pubkey)) = accounts[j]
  BY <1>9, <1>10
<1> QED
  BY <1>11 DEF accounts, r

LEMMA UpTo ==
  ASSUME NEW n \in Nat
  PROVE  IsFiniteSet(1 .. n) /\ Cardinality(1 .. n) = n
<1>1. IsFiniteSet(1 .. n)
  BY FS_Interval
<1>2. Cardinality(1 .. n) = n
  BY FS_Interval
<1> QED
  BY <1>1, <1>2

\* A request has seven keys at most, and so has its table.
LEMMA RequestTable ==
  ASSUME NEW order \in Orders, Sorted(Request(TRUE), order)
  PROVE  Len(order) <= 256
<1> DEFINE r == Request(TRUE)
           keys == <<GptProgram, GptConfig, Payer,
                     InteractionOf[config.context_account],
                     config.context_account, OracleProgram, SystemProgram>>
<1>1. Keys(r) \subseteq Range(keys)
  <2> DEFINE accounts == r[1].accounts
             i == InteractionOf[config.context_account]
             c == config.context_account
  <2>1. /\ DOMAIN r = 1 .. 1 /\ DOMAIN accounts = 1 .. 6
        /\ r[1].program_id = GptProgram
        /\ accounts[1].pubkey = GptConfig
        /\ accounts[2].pubkey = Payer
        /\ accounts[3].pubkey = i
        /\ accounts[4].pubkey = c
        /\ accounts[5].pubkey = OracleProgram
        /\ accounts[6].pubkey = SystemProgram
    <3>1. /\ DOMAIN r = 1 .. 1 /\ DOMAIN accounts = 1 .. 6
          /\ r[1].program_id = GptProgram
          /\ accounts[1] = Meta(GptConfig, FALSE, FALSE)
          /\ accounts[2] = Meta(Payer, TRUE, TRUE)
          /\ accounts[3] = Meta(i, FALSE, TRUE)
          /\ accounts[4] = Meta(c, FALSE, FALSE)
          /\ accounts[5] = Meta(OracleProgram, FALSE, FALSE)
          /\ accounts[6] = Meta(SystemProgram, FALSE, FALSE)
      BY RequestAccounts
    <3> HIDE DEF r, accounts, i, c
    <3> QED
      BY <3>1 DEF Meta
  <2>2. Range(keys) = {GptProgram, GptConfig, Payer, i, c, OracleProgram,
                       SystemProgram}
    <3>1. DOMAIN keys = {1, 2, 3, 4, 5, 6, 7}
      OBVIOUS
    <3>2. /\ keys[1] = GptProgram /\ keys[2] = GptConfig /\ keys[3] = Payer
          /\ keys[4] = i /\ keys[5] = c /\ keys[6] = OracleProgram
          /\ keys[7] = SystemProgram
      OBVIOUS
    <3> HIDE DEF keys
    <3> QED
      BY <3>1, <3>2 DEF Range
  <2> HIDE DEF r, keys
  <2>3. Metas(r) = Range(accounts)
    BY <2>1 DEF Metas
  <2>4. \A m \in Range(accounts) :
          m.pubkey \in {GptConfig, Payer, i, c, OracleProgram, SystemProgram}
    BY <2>1 DEF Range
  <2> QED
    BY <2>1, <2>2, <2>3, <2>4 DEF Keys
<1>2. /\ IsFiniteSet(1 .. 7) /\ Cardinality(1 .. 7) = 7
      /\ DOMAIN keys = 1 .. 7
  <2>1. IsFiniteSet(1 .. 7) /\ Cardinality(1 .. 7) = 7
    BY UpTo
  <2>2. DOMAIN keys = 1 .. 7
    OBVIOUS
  <2> QED
    BY <2>1, <2>2
<1> HIDE DEF r, keys
<1>3. /\ IsFiniteSet(Range(keys)) /\ Cardinality(Range(keys)) <= 7
  <2> DEFINE T == Range(keys)
             f == [n \in 1 .. 7 |-> keys[n]]
  <2>1. f \in [1 .. 7 -> T]
    BY <1>2 DEF Range
  <2>2. \A t \in T : \E n \in 1 .. 7 : f[n] = t
    BY <1>2 DEF Range
  <2>3. f \in Surjection(1 .. 7, T)
    <3> HIDE DEF f, T
    <3> QED
      BY <2>1, <2>2 DEF Surjection
  <2> HIDE DEF f, T
  <2>4. IsFiniteSet(T) /\ Cardinality(T) <= Cardinality(1 .. 7)
    BY <1>2, <2>3, FS_Surjection
  <2> QED
    BY <1>2, <2>4 DEF T
<1>4. /\ IsFiniteSet(Keys(r)) /\ Cardinality(Keys(r)) \in Nat
      /\ Cardinality(Keys(r)) <= 7
  <2>1. /\ IsFiniteSet(Keys(r))
        /\ Cardinality(Keys(r)) <= Cardinality(Range(keys))
    BY <1>1, <1>3, FS_Subset
  <2>2. Cardinality(Keys(r)) \in Nat /\ Cardinality(Range(keys)) \in Nat
    BY <1>3, <2>1, FS_CardinalityType
  <2> QED
    BY <1>3, <2>1, <2>2
<1>5. DOMAIN order = 1 .. Len(order) /\ Len(order) \in Nat
  BY OrdersAssumption
<1>6. IsFiniteSet(1 .. Len(order)) /\ Cardinality(1 .. Len(order)) = Len(order)
  BY <1>5, UpTo
<1>7. Cardinality(1 .. Len(order)) <= Cardinality(Keys(r))
  <2> DEFINE n == Len(order)
             f == [k \in 1 .. n |-> order[k]]
  <2>1. Range(order) = Keys(r) /\ IsInjective(order)
    BY DEF Sorted, r
  <2>2. f \in [1 .. n -> Keys(r)]
    BY <1>5, <2>1 DEF Range
  <2>3. \A a, b \in 1 .. n : f[a] = f[b] => a = b
    BY <1>5, <2>1 DEF IsInjective
  <2>4. f \in Injection(1 .. n, Keys(r))
    <3> HIDE DEF f, n
    <3> QED
      BY <2>2, <2>3 DEF Injection, IsInjective
  <2> HIDE DEF f, n
  <2>5. Cardinality(1 .. n) <= Cardinality(Keys(r))
    BY <1>4, <2>4, FS_Injection
  <2> QED
    BY <2>5 DEF n
<1> QED
  BY <1>4, <1>5, <1>6, <1>7

\* A compiled request unpacks to itself.
LEMMA RequestDecodes ==
  ASSUME TypeOK, Configured, NEW order \in Orders, Sorted(Request(TRUE), order),
         Compiles(Request(TRUE))
  PROVE  Decoded(CompileTransaction(Request(TRUE), order)) = Request(TRUE)
<1> DEFINE r == Request(TRUE)
           merged == Merged(r)
<1>1. Decoded(CompileTransaction(r, order)) = merged
  BY CompiledDecodes, RequestTable, OrdersAssumption
<1>2. DOMAIN r = 1 .. 1 /\ DOMAIN r[1].accounts = 1 .. 6
  BY RequestAccounts
<1>3. /\ r = <<r[1]>>
      /\ r[1] = [program_id |-> r[1].program_id, accounts |-> r[1].accounts,
                 data |-> r[1].data]
      /\ r[1].accounts = [j \in 1 .. 6 |-> r[1].accounts[j]]
  BY DEF Request, AskGptIx
<1> DEFINE accounts ==
             [j \in DOMAIN r[1].accounts |->
                LET k == r[1].accounts[j].pubkey
                IN  Meta(k, IsSigner(r, k), IsWritable(r, k))]
<1>4. \A j \in 1 .. 6 :
        Meta(r[1].accounts[j].pubkey, IsSigner(r, r[1].accounts[j].pubkey),
             IsWritable(r, r[1].accounts[j].pubkey)) = r[1].accounts[j]
  BY RequestFlags
<1>5. merged[1] = [program_id |-> r[1].program_id, accounts |-> accounts,
                   data |-> r[1].data]
      /\ merged = [n \in 1 .. 1 |-> merged[n]]
  <2> HIDE DEF r
  <2> QED
    BY <1>2 DEF Merged
<1>6. accounts = r[1].accounts
  <2> HIDE DEF r
  <2> QED
    BY <1>2, <1>3, <1>4
<1> HIDE DEF accounts, merged, r
<1>7. merged[1] = r[1]
  BY <1>3, <1>5, <1>6, Zenon
<1>8. merged = <<r[1]>>
  BY <1>5, <1>7
<1> QED
  BY <1>1, <1>3, <1>8 DEF r

\* Inductive: the history is of a transaction compiled from the configuration
\* as it is.
CompiledRequest ==
  \A tx \in compiled : Configured /\ Decoded(tx) = Request(TRUE)

LEMMA CompiledStep == TypeOK /\ CompiledRequest /\ [Next]_vars => CompiledRequest'
<1> SUFFICES ASSUME TypeOK, CompiledRequest, [Next]_vars PROVE CompiledRequest'
  OBVIOUS
<1>1. Configured => Configured' /\ config'.context_account = config.context_account
  BY ContextStays
<1>2. Configured => Configured' /\ Request(TRUE)' = Request(TRUE)
  BY <1>1 DEF Request, AskGptIx
<1>3. CASE UNCHANGED compiled
  BY <1>2, <1>3 DEF CompiledRequest
<1>4. ASSUME NEW order \in Orders, ScheduleAskGpt(order)
      PROVE  CompiledRequest'
  <2>1. /\ Configured /\ Sorted(Request(TRUE), order) /\ Compiles(Request(TRUE))
        /\ compiled' = {CompileTransaction(Request(TRUE), order)}
    BY <1>4 DEF ScheduleAskGpt, Request
  <2>2. Decoded(CompileTransaction(Request(TRUE), order)) = Request(TRUE)
    BY <2>1, RequestDecodes
  <2> QED
    BY <1>2, <2>1, <2>2 DEF CompiledRequest
<1>5. UNCHANGED compiled \/ \E order \in Orders : ScheduleAskGpt(order)
  BY DEF Next, vars, Initialize, AskGpt, Ask, ReceiveResponse, CronReads,
         CronRegisters, Crank
<1> QED
  BY <1>3, <1>4, <1>5

\* The transaction that schedule_ask_gpt compiles unpacks to its request, for
\* every order the HashMap may have put the accounts in.
THEOREM ScheduledAlwaysRequest == Spec => []ScheduledIsRequest
<1>1. Init => CompiledRequest
  BY DEF Init, CompiledRequest
<1>2. CompiledRequest => ScheduledIsRequest
  BY DEF CompiledRequest, ScheduledIsRequest, Request
<1> QED
  BY <1>1, <1>2, TypeInit, TypeStep, CompiledStep, PTL DEF Spec

\* schedule_ask_gpt never schedules anything, whatever the accounts are.
THEOREM ScheduleNeverQueues == Spec => [](scheduled # "queued")
<1>1. Init => scheduled # "queued"
  BY DEF Init
<1>2. TypeOK /\ scheduled # "queued" /\ [Next]_vars => (scheduled # "queued")'
  <2> SUFFICES ASSUME TypeOK, scheduled # "queued", [Next]_vars
               PROVE  scheduled' # "queued"
    OBVIOUS
  <2>1. ASSUME NEW order \in Orders, ScheduleAskGpt(order)
        PROVE  scheduled' # "queued"
    BY <2>1, ScheduleRefused DEF ScheduleAskGpt, Request
  <2> QED
    BY <2>1 DEF Next, vars, Initialize, AskGpt, Ask, ReceiveResponse, CronReads,
                 CronRegisters, Crank
<1> QED
  BY <1>1, <1>2, TypeInit, TypeStep, PTL DEF Spec
===============================================================================
