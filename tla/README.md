# Verification of the Q2 2026 Accelerator programs

TLA+ models, TLC runs and TLAPS proofs for the programs of this repository: a
set of Solana programs (two in Pinocchio, the others in Anchor or plain
`solana-program`) and two small Rust libraries. Each program is a component of
its own; they share no state.

## 1. Inventory

| component | state it keeps | operations | interacts with | what is hard | what makes it correct |
|---|---|---|---|---|---|
| `pin-fundraiser` | the `Fundraiser` account of a maker, its vault token account, `Contributor` records: one for each bump a contributor passes | `initialize`, `contribute`, `check_contributions`, `refund` | SPL token transfers; the clock; direct transfers to the vault | the records outlive a campaign and all addresses are reused by the next; two time windows over a `u8` day counter; three places record one contribution | vault, total and records agree; nobody is paid twice; the cap holds for each record |
| `NFT-core-staking` | attributes of a Core asset (`staked`, `staked_at`, `last_claim`), its freeze plugin, the collection's `total_staked`, the config PDA, reward token supply | `initialize`, `create_collection`, `mint_asset`, `stake`, `claim_rewards`, `unstake` | `mpl-core` (owner, plugins, attributes), SPL `mint_to`, the clock | two clocks per asset, whole-day rounding carried over, the count spread over transactions of all owners | each whole staked day is paid exactly once, to the staker; a staked asset is frozen and stays so; count = number of staked assets |
| `persistent-todo-queue` | a queue in a file; the copy in the process | `add`, `list`, `done` = load, mutate, save (write a temporary file, rename) | the file system, other processes, a crash | a crash between any two system calls; two processes and one temporary file name | the file always decodes and is a queue some process saved; an update is lost only to a run that saved in between |
| `accel-p-escrow-main` | the escrow PDA of a maker, its token account | `make`, `take`, `refund` | SPL transfers and `CloseAccount` | closing needs an empty account; addresses are used again; any token account of the escrow address may pay | the swap happens entirely or not at all, at the agreed terms; the vault covers the offer |
| `anchor-escrow-q2-2026` | an escrow PDA per maker and seed, its vault | `make`, `take`, `refund` | as above | the vault balance, not the recorded amount, is paid; equal mints, the maker as taker | the swap happens entirely or not at all, at the agreed terms |
| `whitelist-transfer-hook` | the list of whitelisted accounts, the account's length and lamports | `initialize_whitelist`, `add_to_whitelist`, `remove_from_whitelist`, `transfer_hook`, mint creation | Token-2022 calling the hook | reallocation and rent moved with each change | the account is rent-exempt and just large enough; a transfer passes iff its owner is listed |
| `random-number-vrf` | a `UserAccount` on the base layer, its copy in the ephemeral rollup | `init`, `update`, `update_commit`, `delegate`, `undelegate`, `close`, `request_randomness(_er)`, `callback_randomness` | the delegation program, the rollup's commits, the VRF oracle | two ledgers, one owner at a time; callbacks late, in any order, after a close or a delegation | no layer writes what it does not own; what is undelegated is what was last written |
| `solana-gpt-tuktuk` | one `GptConfig` PDA: admin, context, prompt, latest response | `initialize`, `ask_gpt`, `receive_response`, `schedule_ask_gpt`; `scripts/cron.ts` registers `ask_gpt` with Tuktuk | the oracle program and its callback, Tuktuk's queue, the runtime's account lookup | a compiled transaction names accounts by their place in a table whose order a `HashMap` decides; a registered task carries the configuration of one moment; prompt and answer share one allocation whose parts nobody checks | what is compiled unpacks to the request; a registered task stays one that `ask_gpt` takes |
| `generic-storage-msf` | a byte buffer | `save`, `load`, `has_data`, `convert` | three serializers | none: sequential, in memory | `load` returns what was saved, also after `convert` |

Not modelled and not planned: the TypeScript clients, devnet runners and
diagnostic scripts (they send transactions and print accounts), the IDL, and the
vendored `mpl-core` crate (third party; the staking model uses it through the
calls the program makes).

## 2. Plan

Twelve runs, one or two to a component, are what the project checks; each is
aimed at the hazards listed for its component in `PROJECT.json`.

| order | modules | composes | state |
|---|---|---|---|
| 1 | `TokenUnits`, `Fundraiser` | sums of balances under the fundraiser | modelled, checked, proved |
| 2 | `TodoQueue`, `TodoList`, `TodoStore` | the file protocol over the pure queue, refining the abstract list | modelled, checked, refinement proved |
| 3 | `Staking` | program, `mpl-core` accounts, clock | modelled, checked, proved |
| 4 | `AtomicSwap`, `EscrowAccounts`, `PinEscrow`, `AnchorEscrow` | two programs over shared accounts, both refining one abstract swap | modelled, checked, refinement proved |
| 5 | `Whitelist` | list account, rent, Token-2022 and its hook | modelled, checked, proved |
| 6 | `ErAccount` | base layer, rollup, oracle | modelled, checked, proved |
| 7 | `CompiledTransaction`, `GptOracle` | the compiled transaction under the program, the oracle and Tuktuk | modelled, checked, proved |

The proofs of a component are in a module of their own, `<component>Proofs`; the
two escrows share one, `EscrowProofs`.

## 3. Conventions

A transaction on Solana is atomic: an instruction that returns an error changes
nothing. So an action is a whole successful instruction, with every call it
makes to other programs, and each early return of the handler is a guard. The
todo tool is different: there a step is one system call.

Names of operations, fields and constants are the source's. An operator whose
comment begins *Faulty variant* is not part of any specification: it is the
definition below it with a plausible mistake, and the property it belongs to
(`mutants` in `PROJECT.json`) fails when it is put in place. Variables marked
*history* are observed by properties only; no guard reads them. Every bound is a
constant and its declaration says so.

Accounts of other programs (SPL token, the associated token program, Token-2022,
`mpl-core`, the delegation program, the oracle) are modelled from the calls the
programs make and marked *External*.

Common abstractions: who signs is who acts; a wallet's token accounts of one
mint are one balance and a missing one is 0; lamports are left out except in
`Whitelist`, where moving rent is the point; 64-bit sums are unbounded, because a
token supply fits into 64 bits, and widths are kept where the code narrows (the
`u8` day counter of the fundraiser).

## 4. Modules and the code

### Fundraiser (`pin-fundraiser`)

`fundraiser`, `vault`, `record[r]`, `ata` are the accounts; all addresses derive
from the maker (and the contributor), so there is one campaign at a time and the
next one finds the old records. The program takes any bump that derives an
address, so `Records` are pairs of a contributor and a bump, and one wallet may
hold several. `Initialize`, `Contribute`, `CheckContributions`
and `Refund` are the four instructions with all their checks; `Deposit` is a
direct token transfer to the vault, `Tick` the clock. `ElapsedDays` keeps the
`as u8` truncation. The program does not check to which token account a release or a refund goes, so
the destination is an input: a wallet's account and, for a refund, the vault
itself, where the transfer moves nothing while the total falls and the record
closes (a release into the vault fails, because a full vault does not close).

`VaultBacksTotal`, `RecordsMatchTotal`, `Solvent` and `TokensConserved` relate the
three places a contribution is written to (vault, total, record);
`PayoutsAreReleaseOrRefund` says how tokens can leave, `RefundsOnLastDayOnly` when
(`contribute` opens on the last day and `refund` closes after it, until the `u8`
counter wraps); `TargetNeedsManyRecords` is what the cap is for: a vault at its
target has so many records open. It speaks of records, because a wallet with
several bumps has a cap for each. The cap is a constant, ten percent in the
program: the proof is for any, and the run takes fifty so that two records reach
a target and one does not. `carried` (what records of earlier campaigns hold) and
`untracked` (direct deposits, and refunds that were paid to the vault itself) are
in the properties because the code really lets both in.

### TodoStore, TodoQueue, TodoList (`persistent-todo-queue`)

`TodoQueue` is the pure queue and `next_id`. In `TodoStore` a run of the tool is
`StartMissing` or `StartExists` (the test for the file), `Open`, `Read`,
`CreateTmp`, `Write` (a unit at a time), `Rename`, each a system call; `Kill` may come between any two. Files are
inodes under two names, so an open file survives a rename over its name and two
processes may write one inode. Two specifications extend it: `SpecDisk` adds
what the kernel has written back and a loss of power, for a file system that
writes data before the rename that publishes it (the tool never syncs: on one
that does not, a power loss may leave an empty file, which is outside the
model); `FairSpec` adds fairness. `TodoList` is the abstract list, and
`ImplementsTodoList` the refinement for one process at a time.

Two processes lose each other's updates (load, load, save, save): nothing locks
the file. `UpdatesInIsolation` says that this is the only way to lose one: what a
run brings into the file is its own command on a whole list the file has held,
and on what the file holds now unless it was replaced since the run opened it
(`stale` remembers whose was).

### Staking (`NFT-core-staking`)

There is no stake account: a stake is three attributes and a freeze flag on the
asset. `CreateCollection`, `Initialize`, `MintAsset`, `Stake`, `ClaimRewards`,
`Unstake` are the instructions; `Transfer`, `Burn` and, for the freeze plugin,
`AddFreezePlugin`, `ThawFreezePlugin` and `RemoveFreezePlugin` are what owners can
do through `mpl-core`, as far as a frozen asset lets them; `Tick` is the clock.
The freeze plugin is owner-managed: an owner may add one, frozen or not, to an
asset that is not staked, so a frozen asset need not be staked. `FrozenWhileStaked`
is the other direction, with the plugin under the program's authority, from the
stake to the unstake. A transfer hands an owner-managed plugin to the new owner.
One collection (seeds of others are disjoint), without permanent delegates; other
ways to update the plugin come to removing and adding it; assets come without
attributes of the program's names; the clock does not run backwards.

### AtomicSwap, EscrowAccounts, PinEscrow, AnchorEscrow

`EscrowAccounts` has the accounts and what everybody else may do to them:
prepare a take from what an escrow says now (`quote`), create the vault's address
early, send tokens to a vault. `PinEscrow` and `AnchorEscrow` add the three
instructions, as `PinMake`, `PinTake`, `PinRefund` and `AnchorMake`, `AnchorTake`,
`AnchorRefund`. The payment, the collection and the closing of the vault are
computed in the order of the code, because with equal mints, or the maker as
taker, they touch the same accounts. `AtomicSwap` is the promise: an offer is
posted, raised by deposits, settled in one step or withdrawn. Both modules
implement it with their offers as the refinement mapping.

The Pinocchio program checks owner and mint of the token account that pays, not
that it is the vault `make` created (hence the parameter `account` of `PinTake`
and `PinRefund`, and `Others`, accounts that anybody makes and funds with
`FundOther`), and accepts any bump (hence `Nonces`). A take or refund over such an
account closes the escrow and leaves the vault behind, full and out of reach: who
paid into the other account has paid for it, so the swap is still atomic, and
`PinOffers` counts the recorded amount. It works for mints of the classic token
program. The Anchor program makes escrows of classic or of Token-2022 mints
(`ClassicMints` says which are which), takes and refunds only classic ones.
Token-2022 extensions such as transfer fees are left out.
What the two modules both have carries the prefix `Pin` or `Anchor`, because
`EscrowProofs` extends both.

### Whitelist (`whitelist-transfer-hook`)

`list` is the list account: how often each user is in it and its length;
`lamports` what it holds, before it exists too. `InitializeWhitelist`, `Add`,
`Remove` (over `Grow` and `Shrink`, the two halves of `realloc_whitelist`),
`InitializeMint`, `InitializeTransferHook` are the instructions, `TransferHook`
what `Transfer` of Token-2022 demands; `Gift` is a transfer of lamports from
outside. `admitted` remembers for each user whether the last list instruction
was an add. The order of the vector is never observed, so the list is a bag.
The account metas of the hook and the mint cost a fixed rent each. Left out:
closing the mint, and the mint's authority replacing the hook (with it no
whitelist applies any more).

### ErAccount (`random-number-vrf`)

`base` is the account on the base layer with its delegation, `er` the rollup's
copy, `commits` what is on its way from the rollup, `requests` how many requests
the oracle has not answered on each ledger. On a ledger the program can write the
account only while it owns it there (`OwnedOn`, Anchor's `Account<T>`); both
`initialize` instructions give the same address, so they are one action.
`update_commit` schedules the commit before Anchor writes the new value into the
account: the model lets the commit carry the old or the new value. Callbacks
come at any time, for any outstanding request. External and assumed: a
delegated account belongs to the delegation program on the base layer; commits
arrive in order (one without an undelegation may fail); the rollup neither
creates nor closes accounts.

### CompiledTransaction, GptOracle (`solana-gpt-tuktuk`)

`CompiledTransaction` is `compile_transaction`: the keys of all accounts with
their merged flags, sorted by priority, a header of three counts, and
instructions that name accounts by index. The order a `HashMap` yields, and with
it the order of ties, is a parameter: any order the sort may leave (`Sorted`).
Indices are cut to a byte (`IndexOf`); the counts and their sums are checked,
because the workspace builds with `overflow-checks`, and a list for which they
overflow panics (`Compiles`). `Decoded` is what Tuktuk reads out of the result.

`GptOracle` is the program: `Initialize`, `Ask` (sent by a client, `AskGpt`, or
run by Tuktuk, `Crank`), `ReceiveResponse` and `ScheduleAskGpt`, the one caller of
`compile_transaction`. `CronReads` and `CronRegisters` are the part of
`scripts/cron.ts` that reads the configuration and, some network calls later,
registers the request. The script compiles it with Tuktuk's own library, which is
outside the repository, so `queue` holds the request itself. A text is its length,
and an answer also says whether it may be cut at 512 bytes: `response[..512]`
panics inside a character and the callback fails. A prompt is as long as the
caller likes and shares the account's bytes with the answer. `InvokeAccepted` is
the runtime's rule that a call may only name accounts that were handed over with
it. `RunsAskGpt` refuses a request that asks for a signature: Tuktuk signs for
addresses under its own program id, and the payer is an address of this one.
Left out: the payer's lamports, the `admin` check, the removal of tasks, and
requests to the oracle that do not come from the program.

## 5. Runs

| run | what it asks | bounds and why they are enough |
|---|---|---|
| `fundraiser_campaigns` | do vault, total, records and wallets agree through everything two campaigns can do? is the cap a cap, and when are refunds paid? | two contributors with two bumps each, amounts 1 and 2, a cap of half the target, targets 3 (refused), 4, 8 and 9 (whose cap overflows `MaxU64`, so that nobody can contribute), two mints, one deposit; days 0, 1, 2 and, with the counter wrapped, 256 and 257. Two campaigns suffice for inherited records, two contributors for one refunded and one not, two bumps for one wallet that reaches a target alone |
| `todo_one` | one command at a time with kills and power losses: does the file implement the list? | four commands, five inodes (names, write-back copies and an orphan) |
| `todo_two` | two processes: what survives without overlapping saves, when is an update lost, and does every command end? | four commands, six inodes; the queue gets long enough for a header to disagree with its todos |
| `todo_tornfile` | *refuted*: a crash cannot leave a partial file | two processes, three commands |
| `staking` | frozen while staked whatever owners do with the plugin, counts, payments, freeze period | two assets, two wallets, two stakes of each, days of three seconds so that claims fall on and between days, seven seconds so that a freeze period of 0 or 2 days ends within them |
| `staking_leftover` | *refuted*: no rounding loss across stakes | one asset, two stakes, days of two seconds |
| `pin_escrow`, `anchor_escrow` | is every instruction a step of the atomic swap, whatever was closed and made anew since a take was prepared? does the vault cover the offer (`pin_escrow`)? | one escrow address used again and again, two classic mints and, for `anchor_escrow`, one of Token-2022, for `pin_escrow` one more token account of the escrow address; amounts 0 to 2, two wallets of which one is the maker and may take its own escrow, one token of each mint to each |
| `whitelist` | rent, removal, lamports, and who may send | two users, purses that can pay for two entries, gifts of 20 of which two block an add |
| `er_account` | does the last write stand, is a locked copy final, was what is committed ever held? | three values, three commits under way, two requests per ledger: an answer can outlive the account it was requested for |
| `gpt` | does a registered task stay one that `ask_gpt` takes, and does what `schedule_ask_gpt` compiles unpack to its request? | two contexts; tables of the seven accounts of a request in which each read-only account takes every place, some sorted and some not, for each context; prompts of 100, 256 and 257 bytes and one that no account holds, answers of 511, 513 and 1024 bytes, with and without a character that begins at the cut |
| `gpt_schedule` | *refuted*: `schedule_ask_gpt` schedules | the same |

The layout of accounts (`TypeOK`) of the escrows, the whitelist and the oracle is
not an invariant of a run: the theorems `TypeCorrect` (`PinTypeCorrect`,
`AnchorTypeCorrect`) cover it for every instance.

Where a cfg says `CHECK_DEADLOCK FALSE` the system may really stop: the clock or
the number of commands reaches its bound, wallets run dry, or all tokens have
been sent to vaults no escrow has.

**Fairness.** Only `todo_two` assumes any: a process that is in the middle of a
command is scheduled until the command ends or is killed (weak fairness of its
system calls). The operating system does that for a runnable process; nothing in
the tool waits for another process. No fairness is assumed of users, of the
oracle or of the rollup.

## 6. Proofs

All theorems are about the specifications the runs check, for every value of
the constants that satisfies the named assumptions. The proofs need TLAPS with
its SMT, Zenon and LS4 backends.

- **Sums** (`TokenUnitsProofs`). The total of a balance sheet is the number of
  its units, so no induction is needed: `TotalUpdate` (one balance changes, the
  total changes by as much), `TotalBound` and `TotalConstant` follow from
  cardinalities of finite sets.
- **Fundraiser** (`FundraiserProofs`). `Shape` (layout and `VaultBacksTotal`) is
  inductive only together: the instructions check the campaign account and then
  compute with the vault, which is a number only because the two live and die
  together. On it (`Books` adds the records, `CapHolds` the cap) rest `RecordsMatchTotal` (with `carried`, which makes it hold across
  campaigns), `Solvent`, `TokensConserved` per mint, the bound of each record by
  the cap that gives `TargetNeedsManyRecords` with `TotalBound`, and the action
  properties `PayoutsAreReleaseOrRefund` and `RefundsOnLastDayOnly`. The latter
  needs `Window`: a record made in this campaign dates from its last day or
  later, and days never go back.
- **Staking** (`StakingProofs`). `Ledger` joins the layout, frozen-while-staked,
  the two clocks of a stake (the reward clock is the freeze clock plus whole
  days) and that the staker owns; each needs the others. `Counted` (the count is
  the cardinality of the staked assets) and `EveryDayPaidOnce` are inductive over it; the
  latter uses two lemmas of arithmetic, `WholeDaysSplit` (paid days can be split
  off) and `DaysRewardLinear` (the division by 10000 never rounds).
  `RewardsFollowStaker` and `FreezePeriodServed` are action properties from
  `Ledger`. `UnstakeNeverPostponed` says that the checks of `unstake`
  (`MayUnstake`) pass from the end of the period on. `NoRoundingLoss` is refuted;
  `LossUnderADayPerStake` says how much there is to lose: `Loss`, which is
  inductive over `Ledger`, bounds the seconds of the ended stakes that are in none
  of their whole days by a day less a second for each stake.
- **Escrows** (`EscrowProofs`).
  The refinement itself is proved: initial states map to initial states and each
  action, those of the environment too, maps to a step of `AtomicSwap` or a
  stutter, under the invariant `TypeOK` and, for the Pinocchio program,
  `VaultBacksOffer`. The effect of a settlement on the wallets is split by which
  of its parties and mints coincide.
- **Whitelist** (`WhitelistProofs`). Over the layout: the account's length and
  rent follow the list (`RentFollowsList` is inductive with `TypeOK`), the
  lamports of signers and accounts are constant, and `ListedOnce` (a user is in
  the list once if the last instruction was an add, else not at all) is the
  strengthening that gives `RevokedCannotSend`. With the rent it gives
  `RemovalAlwaysPays`: neither unsigned difference of a removal (`CanShrink`)
  underflows.
- **Todo tool** (`TodoStoreProofs`), for any number of processes and inodes, with
  kills and losses of power. `Inv` has a part that always holds (types, offsets,
  `OpenNeverFails`: a rename never takes the file's name away) and a part, `Safe`,
  that holds until two saves overlap. `WholeUnlessOverlapped` is not inductive; it needs
  that only one process saves, that the file it writes has no other name, on disk
  neither, and no reader (`Apart`), and that what it has written is a prefix of its
  queue's encoding (`SaverOwnsTmp`, `WrittenAll`). `Isolated` (whoever nobody
  overtook works on what the file holds) gives `UpdatesInIsolation`, and
  `Remembered` (the list a power loss brings back is one the file has held) the
  refinement of `TodoList` for one process: a rename is a whole `Add` or `Done`, a
  loss of power is `LosePower`, everything else stutters. A new temporary file
  finds an inode by counting names and open files. `Based` (what a running
  command works on is a list the file has held) gives the other half of
  `UpdatesInIsolation`, and `UpdatesAreWhole` under losses of power: until two
  saves overlap no step brings in anything but a whole command on a list of the
  past, or such a list. Of
  `CommandsFinish` the safety part is proved: a command's steps only go forward
  (`CommandsOnlyAdvance`) and until it ends its next call is possible
  (`CommandsNeverStuck`). `IdsConsecutive` needs that
  the largest id is the last, and that there is one: an induction over the length
  of the queue, stated over the *set* of lengths (`InductionOnSet`, from the
  well-foundedness of the naturals), the one form the provers can instantiate.
- **Rollup account** (`ErAccountProofs`), for any values and any bounds. `Inv`
  joins the layout with: the rollup has a copy, and commits are under way, exactly
  while the account is delegated; an undelegation is the last commit and carries
  what the locked copy holds; whatever is in the rollup or under way was held
  there. `CommittedWasHeld` follows; `LockedIsFinal` and
  `LastWriteStands` are part of it, because what a commit that arrives does to the
  base layer is only known from the other parts.
- **Oracle** (`GptOracleProofs`). Nothing here recurses: that the header tells the
  accounts apart follows because the places of the accounts up to a priority are
  closed downwards, so they are the first so many places (`FirstPlaces`,
  `LevelCount`), and their number is the sum of the counts. `HeaderTells` holds
  for every list of instructions that compiles, `CompiledDecodes` for those whose
  table has at most 256 accounts (with more, an index is cut and names another
  account), both for any order `Sorted` allows. `ScheduledAlwaysRequest` is the one
  call of the program: its seven accounts are different ones, so merging changes
  no flag (`RequestFlags`). `OneContext` (the script has read, and every task
  names, the context that is configured) makes `TasksRun` inductive; it rests on
  `ContextStays` and on `ScheduleRefused`, that the runtime refuses every call of
  `schedule_ask_gpt`, whence `ScheduleNeverQueues`. `TypeCorrect` bounds prompt and
  answer together by the size of the account.

Assumptions on constants are few: finite sets of wallets, contributors, users
and assets, of bumps and seeds, natural numbers, that `NoAccount` is not an account,
that the fundraiser's vault is no wallet's account, that an escrow's vault is
none of its other token accounts,
that the oracle's contexts and interaction accounts are none of the program's or
of Tuktuk's, that
the file system has four inodes more than there are processes (an open file for
each, the file, two that only the disk still names, and the new one), and that
the rollup account's values include the one it is created with.

Model-checked only: liveness (`CommandsFinish`, whose two safety halves are proved:
`CommandsOnlyAdvance` and `CommandsNeverStuck`), and the two properties stated
with ENABLED, which the prover does not support. For these it is proved that the
checks of the instruction pass (`UnstakeNeverPostponed` for `UnstakeOpensOnTime`,
`RemovalAlwaysPays` for `RevokeAlwaysOpen`).

## 7. Where the code and its documents differ

Three runs show one each (`findings` in `PROJECT.json`):

1. With two processes a crash in a save can leave a partial file, since the
   temporary file's name is fixed (`todo_tornfile`).
2. `unstake` drops the part of a day that the README says keeps accruing
   (`staking_leftover`).
3. `schedule_ask_gpt`, which the README offers as an alternative to the script,
   never schedules: its call of Tuktuk names the interaction and context accounts
   and does not hand them over (`gpt_schedule`).

Seen while modelling and not the subject of a run:

- `pin-fundraiser`: refunds are open until the last day and contributions from
  it on, so only what is contributed on that day comes back; the crate's README
  owns up to the comparisons (141-150). `pin-fundraiser/README.md:131` says check and refund also close the vault;
  `refund` leaves it open. The `u8` day counter wraps after 256 days, and an
  expired campaign opens again. `check_contributions` leaves the contributor
  records, and the maker's next campaign inherits them.
- `pin-fundraiser/README.md:153` says the PDAs are "validated against their
  canonical derivation". `pda.rs` derives the address from the bump that is passed
  and compares that, so every bump that gives an address passes: one wallet can
  open several records in a campaign, each with the whole cap. A refund takes any
  token account as its destination, the vault too: then nothing moves, the total
  falls and the record closes.
- `NFT-core-staking`: a comment in `stake.rs` (76-79) says that a freeze plugin
  that is already there is frozen again by the program's PDA. One that the owner
  added, or got with the asset, is under the owner's authority, and `stake` fails
  until the owner removes it.
- `accel-p-escrow`: a token sent straight to the vault makes its `CloseAccount`
  fail, and with it take and refund. They pass with another token account of the
  escrow address and mint that holds exactly the recorded amount: the escrow
  closes, the vault and its tokens stay, and block `make` at that address with
  that mint (the tests assert that the vault is closed, `src/tests/mod.rs`). A
  vault address created early makes `make` fail. `make` checks nothing of the
  mint it asks for. A take names no amounts, in either program. The helper `setup_make_v2` of its tests sends a discriminator the
  program does not have.
- `anchor-escrow`: `make` names the token program when it derives the vault,
  `take` and `refund` do not, and derive classic token accounts. An escrow of
  Token-2022 mints can be made and neither taken nor refunded. The repository's
  README says its tests work with Token-2022 (11), and that such accounts must
  name the token program (87).
- `whitelist-transfer-hook`: an account with more lamports than the next size
  needs takes no address, because the difference is unsigned; a removal lifts the
  block, and with an empty list nothing does. Both list instructions take any
  signer.
- `random-number-vrf`: `update_commit` does not write the new value into the
  account before it asks for the commit, so the base layer may be given the old
  one. Answers of the oracle are not matched with requests.
- `solana-gpt-tuktuk`: the comment at `receive_response.rs:29` says an answer is
  truncated to the storage size; one with a character across byte 512 makes the
  callback panic, and the request stays pending. `max_len(256)` reserves space
  and checks nothing: a longer prompt is taken, and answers then fail to be
  stored. Besides the missing accounts, `schedule_ask_gpt` compiles a request in
  which the payer signs, and passes seeds for it, but Tuktuk signs only for
  addresses under its own program id: were the task queued, it could not run. The
  script's request asks for no signature (`cron.ts:235`), as `ask_gpt` signs for
  the payer itself.

## 8. Not modelled

`generic-storage-msf` is sequential and in memory: `save` overwrites
one buffer, `load` decodes it, and `convert` loads and saves into a new container. Whether the bytes come back is up to the three
serializers, which are not in this repository; a model would restate three
assignments. TypeScript clients, devnet runners and scripts only send
transactions, except for the registration of `scripts/cron.ts`, which is in
`GptOracle`. `mpl-core` is vendored third-party code, modelled as far as
`Staking` calls it. Lamports are modelled in `Whitelist` only; output and
timestamps of the todo tool are not.
