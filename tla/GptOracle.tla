------------------------------- MODULE GptOracle -------------------------------
(***************************************************************************)
(* The oracle program of src/solana-gpt-tuktuk: a configuration account    *)
(* with a prompt and the latest answer, a request that anybody may make,   *)
(* the callback that stores the oracle's answer, and the two ways to have  *)
(* Tuktuk make the request on a schedule: the script scripts/cron.ts and   *)
(* the instruction schedule_ask_gpt.                                       *)
(*                                                                         *)
(* A text is its length in bytes; of an answer it also matters whether a   *)
(* character begins where it would be cut.                                 *)
(***************************************************************************)
EXTENDS CompiledTransaction

CONSTANTS
  GptConfig,         \* the PDAs of the program
  Payer,
  QueueAuthority,
  GptProgram,        \* the programs
  OracleProgram,
  SystemProgram,
  TuktukProgram,
  Admin,             \* the wallet that schedules
  TaskQueueAuthority, TaskQueue, Task,  \* Tuktuk's accounts
  Contexts,          \* the oracle's context accounts
  InteractionOf,     \* [Contexts -> the Payer's interaction account in it]
  Prompts,           \* the lengths of the prompts passed to initialize
  Answers,           \* what the oracle may answer
  Orders,            \* the orders in which a table of accounts may come out
  NoAccount          \* an address that holds no account

ASSUME TextAssumption ==
  /\ Prompts \subseteq Nat
  /\ Answers \subseteq [len : Nat, boundary : BOOLEAN]

\* The contexts and the interaction accounts are the oracle's own accounts, none
\* of those the program or Tuktuk has, and no programs.
ASSUME KeysAssumption ==
  /\ \A context \in Contexts :
        /\ InteractionOf[context] # context
        /\ {context, InteractionOf[context]} \cap
              {Admin, QueueAuthority, TaskQueueAuthority, TaskQueue, Task,
               GptConfig, Payer, GptProgram, OracleProgram, SystemProgram,
               TuktukProgram} = {}
  /\ Payer \notin {GptConfig, OracleProgram, SystemProgram}

ASSUME NoAccountAssumption ==
  NoAccount \notin
    Contexts \cup [context_account : Contexts, prompt : Nat, latest_response : Nat]

ASSUME OrdersAssumption ==
  \A order \in Orders : order \in Seq(Range(order))

VARIABLES
  config,        \* the GptConfig account, or NoAccount
  interaction,   \* the oracle's account of each context: a request, or none
  script,        \* scripts/cron.ts: the context it has read, or NoAccount
  queue,         \* the instructions Tuktuk runs again and again
  scheduled,     \* history: how the last schedule_ask_gpt ended
  compiled       \* history: the transaction it compiled, {} before the first

vars == <<config, interaction, script, queue, scheduled, compiled>>

-------------------------------------------------------------------------------
MAX_PROMPT   == 256
MAX_RESPONSE == 512

\* 8 + INIT_SPACE, and the bytes that a configuration serializes to.
Serialized(prompt, response) == 8 + 32 + 32 + (4 + prompt) + (4 + response) + 1

SPACE == Serialized(MAX_PROMPT, MAX_RESPONSE)

Configured == config # NoAccount

\* The ask_gpt instruction.  The script passes the payer as it is, ask_gpt being
\* the one that signs for it; schedule_ask_gpt passes it as a signer.
AskGptIx(context, payer_signs) ==
  [program_id |-> GptProgram,
   accounts   |-> <<Meta(GptConfig, FALSE, FALSE),
                    Meta(Payer, payer_signs, TRUE),
                    Meta(InteractionOf[context], FALSE, TRUE),
                    Meta(context, FALSE, FALSE),
                    Meta(OracleProgram, FALSE, FALSE),
                    Meta(SystemProgram, FALSE, FALSE)>>,
   data       |-> "ask_gpt"]

\* The constraints on ask_gpt's accounts, and the oracle's own on the
\* interaction account.
AskAccepted(accounts) ==
  /\ Configured
  /\ Len(accounts) = 6
  /\ accounts[1].pubkey = GptConfig
  /\ accounts[2].pubkey = Payer /\ accounts[2].is_writable
  /\ accounts[3].pubkey = InteractionOf[config.context_account]
  /\ accounts[3].is_writable
  /\ accounts[4].pubkey = config.context_account
  /\ accounts[5].pubkey = OracleProgram
  /\ accounts[6].pubkey = SystemProgram

\* What Tuktuk can run: it signs for PDAs of its own, for no account of ask_gpt.
RunsAskGpt(ix) ==
  /\ ix.program_id = GptProgram
  /\ ix.data = "ask_gpt"
  /\ \A i \in DOMAIN ix.accounts : ~ix.accounts[i].is_signer
  /\ AskAccepted(ix.accounts)

\* The accounts of the queue_task_v0 call that schedule_ask_gpt makes ...
QueueTaskAccounts(tx) ==
  <<Meta(Admin, TRUE, TRUE),
    Meta(QueueAuthority, TRUE, FALSE),
    Meta(TaskQueueAuthority, FALSE, FALSE),
    Meta(TaskQueue, FALSE, TRUE),
    Meta(Task, FALSE, TRUE),
    Meta(SystemProgram, FALSE, FALSE)>> \o RemainingAccounts(tx)

\* ... and the accounts that it hands to the runtime with it.
AccountInfos ==
  {Admin, QueueAuthority, TaskQueueAuthority, TaskQueue, Task, SystemProgram,
   TuktukProgram, GptConfig, Payer}

\* External: the runtime refuses a call that names an account, other than a
\* program, that the caller has not handed over (MissingAccount).
Executable == {GptProgram, OracleProgram, SystemProgram, TuktukProgram}

InvokeAccepted(metas) ==
  {m.pubkey : m \in Range(metas)} \ Executable \subseteq AccountInfos

-------------------------------------------------------------------------------
Init ==
  /\ config = NoAccount
  /\ interaction = [context \in Contexts |-> "none"]
  /\ script = NoAccount
  /\ queue = {}
  /\ scheduled = "never"
  /\ compiled = {}

\* response[..512]: slicing panics inside a character.
Truncated(answer) ==
  IF answer.len > MAX_RESPONSE THEN MAX_RESPONSE ELSE answer.len

Sliceable(answer) == answer.len > MAX_RESPONSE => answer.boundary

\* Faulty variant: init_if_needed.
Initialize_IfNeeded(context, prompt) ==
  /\ Serialized(prompt, 0) <= SPACE
  /\ config' = [context_account |-> context, prompt |-> prompt,
                latest_response |-> 0]
  /\ UNCHANGED <<interaction, script, queue, scheduled, compiled>>

(***************************************************************************)
(* initialize: init creates the account once and nothing closes it.  The   *)
(* length of the prompt is not checked; the account must hold it.          *)
(***************************************************************************)
Initialize(context, prompt) ==
  /\ config = NoAccount
  /\ Serialized(prompt, 0) <= SPACE
  /\ config' = [context_account |-> context, prompt |-> prompt,
                latest_response |-> 0]
  /\ UNCHANGED <<interaction, script, queue, scheduled, compiled>>

\* ask_gpt: the oracle creates the interaction account or writes it anew.
Ask(accounts) ==
  /\ AskAccepted(accounts)
  /\ interaction' = [interaction EXCEPT ![config.context_account] = "pending"]
  /\ UNCHANGED <<config, script, queue, scheduled, compiled>>

\* A client sends it (test.ts).
AskGpt(context) == Ask(AskGptIx(context, FALSE).accounts)

(***************************************************************************)
(* receive_response: the oracle calls back for a pending request.  When    *)
(* the answer cannot be cut, or with the prompt does not fit the account,  *)
(* the call fails, nothing changes and the request stays pending.          *)
(***************************************************************************)
ReceiveResponse(answer) ==
  /\ Configured
  /\ interaction[config.context_account] = "pending"
  /\ Sliceable(answer)
  /\ Serialized(config.prompt, Truncated(answer)) <= SPACE
  /\ config' = [config EXCEPT !.latest_response = Truncated(answer)]
  /\ interaction' = [interaction EXCEPT ![config.context_account] = "processed"]
  /\ UNCHANGED <<script, queue, scheduled, compiled>>

(***************************************************************************)
(* scripts/cron.ts reads the configuration and, several calls to the       *)
(* network later, registers the request that it built from what it read,   *)
(* compiled by Tuktuk's own library.  A script that is stopped in between  *)
(* is run again.                                                           *)
(***************************************************************************)
CronReads ==
  /\ Configured
  /\ script' = config.context_account
  /\ UNCHANGED <<config, interaction, queue, scheduled, compiled>>

CronRegisters ==
  /\ script # NoAccount
  /\ queue' = queue \cup {AskGptIx(script, FALSE)}
  /\ script' = NoAccount
  /\ UNCHANGED <<config, interaction, scheduled, compiled>>

(***************************************************************************)
(* schedule_ask_gpt: compiles the request and calls Tuktuk with it.  The   *)
(* call fails as a whole, and the instruction with it.                     *)
(***************************************************************************)
ScheduleAskGpt(order) ==
  /\ Configured
  /\ LET instructions == <<AskGptIx(config.context_account, TRUE)>>
         tx == CompileTransaction(instructions, order)
         accepted == InvokeAccepted(QueueTaskAccounts(tx))
     IN  /\ Sorted(instructions, order)
         /\ Compiles(instructions)
         /\ compiled' = {tx}
         /\ queue' = IF accepted THEN queue \cup Range(Decoded(tx)) ELSE queue
         /\ scheduled' = IF accepted THEN "queued" ELSE "refused"
  /\ UNCHANGED <<config, interaction, script>>

\* External: a crank turner has Tuktuk run a task that is due.
Crank(ix) == RunsAskGpt(ix) /\ Ask(ix.accounts)

Next ==
  \/ \E context \in Contexts, prompt \in Prompts : Initialize(context, prompt)
  \/ \E context \in Contexts : AskGpt(context)
  \/ \E answer \in Answers : ReceiveResponse(answer)
  \/ CronReads
  \/ CronRegisters
  \/ \E order \in Orders : ScheduleAskGpt(order)
  \/ \E ix \in queue : Crank(ix)

Spec == Init /\ [][Next]_vars

-------------------------------------------------------------------------------
(***************************************************************************)
(* Properties.                                                             *)
(***************************************************************************)
\* The account holds what initialize and receive_response put into it: prompt
\* and answer together fit, whatever their lengths, and no answer is longer than
\* the field it is declared with; a prompt may be.
TypeOK ==
  /\ Configured =>
       /\ config \in [context_account : Contexts, prompt : Nat,
                      latest_response : 0 .. MAX_RESPONSE]
       /\ Serialized(config.prompt, config.latest_response) <= SPACE
  /\ interaction \in [Contexts -> {"none", "pending", "processed"}]
  /\ script \in Contexts \cup {NoAccount}
  /\ scheduled \in {"never", "queued", "refused"}

\* A task outlives the moment the script read the configuration: it names the
\* context of that moment, and ask_gpt takes it whenever Tuktuk runs it, its
\* accounts in their places and no signature asked for.
TasksRun == \A ix \in queue : RunsAskGpt(ix)

\* Whatever order the HashMap put the accounts in, the transaction that
\* schedule_ask_gpt compiles unpacks to the request it was made from: every
\* account in its place, the two writable ones writable, the payer alone asked
\* to sign.
ScheduledIsRequest ==
  \A tx \in compiled : Decoded(tx) = <<AskGptIx(config.context_account, TRUE)>>

\* schedule_ask_gpt schedules: README.md says so of the instruction.
ScheduleQueues == scheduled # "refused"
===============================================================================
