-------------------------- MODULE CompiledTransaction --------------------------
(***************************************************************************)
(* compile_transaction of src/solana-gpt-tuktuk (tuktuk_types.rs): several *)
(* instructions are packed into one table of accounts, a header that says  *)
(* how many of them are signers and writable, and instructions that name   *)
(* accounts by their place in the table.                                   *)
(*                                                                         *)
(* The keys come out of a HashMap in an order that changes from run to run *)
(* and the sort leaves ties as it finds them: the order is a parameter,    *)
(* any one that the sort may produce.  The signer seeds, which are only    *)
(* passed on, are left out.                                                *)
(***************************************************************************)
EXTENDS Integers, Sequences, FiniteSets, Functions

\* An account as an instruction passes it.
Meta(pubkey, is_signer, is_writable) ==
  [pubkey |-> pubkey, is_signer |-> is_signer, is_writable |-> is_writable]

\* Every account that the instructions pass, with the flags it is passed with.
Metas(instructions) ==
  UNION {Range(instructions[i].accounts) : i \in DOMAIN instructions}

\* The keys of pubkeys_to_metadata.
Keys(instructions) ==
  {instructions[i].program_id : i \in DOMAIN instructions}
    \cup {m.pubkey : m \in Metas(instructions)}

\* Its entries: flags start out FALSE and are OR-ed over every mention.
IsSigner(instructions, k) ==
  \E m \in Metas(instructions) : m.pubkey = k /\ m.is_signer

IsWritable(instructions, k) ==
  \E m \in Metas(instructions) : m.pubkey = k /\ m.is_writable

get_priority(is_signer, is_writable) ==
  CASE is_signer /\ is_writable   -> 0
    [] is_signer /\ ~is_writable  -> 1
    [] ~is_signer /\ is_writable  -> 2
    [] OTHER                      -> 3

PriorityOf(instructions, k) ==
  get_priority(IsSigner(instructions, k), IsWritable(instructions, k))

(***************************************************************************)
(* Faulty variants, for the properties to refute.                          *)
(***************************************************************************)
\* The sort is left out.
Sorted_AnyOrder(instructions, order) ==
  IsInjective(order) /\ Range(order) = Keys(instructions)

-------------------------------------------------------------------------------
\* sorted_accounts: each key once, by priority, ties in any order.
Sorted(instructions, order) ==
  /\ IsInjective(order)
  /\ Range(order) = Keys(instructions)
  /\ \A i, j \in DOMAIN order :
        i < j => PriorityOf(instructions, order[i])
                   <= PriorityOf(instructions, order[j])

\* accounts_to_index: the place in the table, counted from zero, `as u8`.
IndexOf(order, k) == ((CHOOSE i \in DOMAIN order : order[i] = k) - 1) % 256

\* num_rw_signers, num_ro_signers and num_rw: one key adds to at most one.
Count(instructions, priority) ==
  Cardinality({k \in Keys(instructions) :
                 PriorityOf(instructions, k) = priority})

\* The counts and their sums are u8, checked in every build (overflow-checks):
\* with more such accounts the instruction panics.
Compiles(instructions) ==
  Count(instructions, 0) + Count(instructions, 1) + Count(instructions, 2) <= 255

CompileTransaction(instructions, order) ==
  [num_rw_signers |-> Count(instructions, 0),
   num_ro_signers |-> Count(instructions, 1),
   num_rw         |-> Count(instructions, 2),
   accounts       |-> order,
   instructions   |->
     [i \in DOMAIN instructions |->
       [program_id_index |-> IndexOf(order, instructions[i].program_id),
        accounts |-> [j \in DOMAIN instructions[i].accounts |->
                        IndexOf(order, instructions[i].accounts[j].pubkey)],
        data |-> instructions[i].data]]]

\* What the header says of the account with an index.
NumSigners(tx) == tx.num_rw_signers + tx.num_ro_signers

WritableAt(tx, index) ==
  \/ index < tx.num_rw_signers
  \/ NumSigners(tx) <= index /\ index < NumSigners(tx) + tx.num_rw

\* The accounts that are passed along with the compiled transaction.
RemainingAccounts(tx) ==
  [i \in DOMAIN tx.accounts |->
     Meta(tx.accounts[i], FALSE, WritableAt(tx, i - 1))]

(***************************************************************************)
(* External: what Tuktuk makes of a compiled transaction when it runs it.  *)
(***************************************************************************)
DecodedMeta(tx, index) ==
  Meta(tx.accounts[index + 1], index < NumSigners(tx), WritableAt(tx, index))

Decoded(tx) ==
  [i \in DOMAIN tx.instructions |->
    [program_id |-> tx.accounts[tx.instructions[i].program_id_index + 1],
     accounts   |-> [j \in DOMAIN tx.instructions[i].accounts |->
                       DecodedMeta(tx, tx.instructions[i].accounts[j])],
     data       |-> tx.instructions[i].data]]
===============================================================================
