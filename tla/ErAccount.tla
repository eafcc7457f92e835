------------------------------ MODULE ErAccount -------------------------------
(***************************************************************************)
(* er-state-account (random-number-vrf): a user account that lives on the  *)
(* base layer, may be delegated to an ephemeral rollup, is written there,  *)
(* committed and undelegated, while a randomness oracle answers requests   *)
(* from either ledger late and in any order.                               *)
(*                                                                         *)
(* Accounts of different users share nothing, so there is one.  The seeds  *)
(* of both initialize instructions give the same address.  A step is a     *)
(* transaction on one ledger; one that fails is no step.  On a ledger the  *)
(* program writes only accounts it owns there (Anchor's Account<T>).       *)
(*                                                                         *)
(* External: the delegation program, the rollup's validator and the oracle.*)
(* What is assumed of them: a delegated account belongs to the delegation  *)
(* program on the base layer and to this program in the rollup until an    *)
(* undelegation is scheduled; commits reach the base layer in the order    *)
(* they were scheduled; the rollup neither creates nor closes accounts.    *)
(***************************************************************************)
EXTENDS Integers, Sequences

CONSTANTS
  Data, Zero,      \* values of the data field
  MaxCommits,      \* bound: commits under way
  MaxRequests,     \* bound: requests unanswered on a ledger
  NoAccount

BaseAccount == [data : Data, delegated : BOOLEAN]
ErCopy == [data : Data, locked : BOOLEAN]
Commit == [data : Data, undelegate : BOOLEAN]

ASSUME DataAssumption ==
  /\ Zero \in Data
  /\ NoAccount \notin Data \cup BaseAccount \cup ErCopy
  /\ MaxCommits \in Nat /\ MaxRequests \in Nat

VARIABLES
  base,       \* [data, delegated] or NoAccount
  er,         \* the rollup's copy: [data, locked] or NoAccount
  commits,    \* under way to the base layer: [data, undelegate]
  requests,   \* unanswered randomness requests of each ledger
  held,       \* history: what the account has held since it was delegated
  last        \* history: what the last instruction that writes it left

vars == <<base, er, commits, requests, held, last>>

Ledgers == {"base", "rollup"}

TypeOK ==
  /\ base \in BaseAccount \cup {NoAccount}
  /\ er \in ErCopy \cup {NoAccount}
  /\ commits \in Seq(Commit)
  /\ requests \in [Ledgers -> Nat]
  /\ held \in SUBSET Data
  /\ last \in Data \cup {NoAccount}
  /\ er # NoAccount => base # NoAccount

\* Whether the program owns the account on a ledger.
OwnedOn(ledger) ==
  IF ledger = "base" THEN base # NoAccount /\ ~base.delegated
                     ELSE er # NoAccount /\ ~er.locked

\* The account's data becomes v on the ledger.
SetData(ledger, v) ==
  /\ last' = v
  /\ IF ledger = "base"
       THEN /\ base' = [base EXCEPT !.data = v]
            /\ UNCHANGED <<er, held>>
       ELSE /\ er' = [er EXCEPT !.data = v]
            /\ held' = held \cup {v}
            /\ UNCHANGED base

-------------------------------------------------------------------------------
Init ==
  /\ base = NoAccount
  /\ er = NoAccount
  /\ commits = <<>>
  /\ requests = [l \in Ledgers |-> 0]
  /\ held = {}
  /\ last = NoAccount

\* initialize by the user, initialize_pda by anybody for anybody.
Initialize ==
  /\ base = NoAccount
  /\ base' = [data |-> Zero, delegated |-> FALSE]
  /\ last' = Zero
  /\ UNCHANGED <<er, commits, requests, held>>

\* Faulty variant: the base layer's copy is taken unchecked.
Update_Unchecked(ledger, new_data) ==
  /\ IF ledger = "base" THEN base # NoAccount ELSE OwnedOn(ledger)
  /\ SetData(ledger, new_data)
  /\ UNCHANGED <<commits, requests>>

Update(ledger, new_data) ==
  /\ OwnedOn(ledger)
  /\ SetData(ledger, new_data)
  /\ UNCHANGED <<commits, requests>>

\* Faulty variant: the new value is committed and not kept.
UpdateCommit_Forgets(new_data) ==
  /\ OwnedOn("rollup")
  /\ Len(commits) < MaxCommits
  /\ commits' = Append(commits, [data |-> new_data, undelegate |-> FALSE])
  /\ UNCHANGED <<base, er, requests, held, last>>

\* The commit is scheduled before Anchor writes the new value back to the
\* account.  Whether the rollup takes the account's bytes at the call or when
\* the transaction is over is its affair: either value may be committed.
UpdateCommit(new_data) ==
  /\ OwnedOn("rollup")
  /\ Len(commits) < MaxCommits
  /\ SetData("rollup", new_data)
  /\ \E v \in {er.data, new_data} :
       commits' = Append(commits, [data |-> v, undelegate |-> FALSE])
  /\ UNCHANGED requests

\* The delegation program becomes the owner; the rollup clones the account.  The
\* handler does not look at the account's owner: the runtime refuses to reassign
\* an account the program does not own.
Delegate ==
  /\ OwnedOn("base")
  /\ base' = [base EXCEPT !.delegated = TRUE]
  /\ er' = [data |-> base.data, locked |-> FALSE]
  /\ held' = {base.data}
  /\ UNCHANGED <<commits, requests, last>>

\* The last commit is scheduled and the rollup's copy leaves the program.
Undelegate ==
  /\ OwnedOn("rollup")
  /\ Len(commits) < MaxCommits
  /\ commits' = Append(commits, [data |-> er.data, undelegate |-> TRUE])
  /\ er' = [er EXCEPT !.locked = TRUE]
  /\ UNCHANGED <<base, requests, held, last>>

\* Faulty variant: a delegated account can be closed.
Close_Delegated ==
  /\ base # NoAccount
  /\ base' = NoAccount
  /\ last' = NoAccount
  /\ UNCHANGED <<er, commits, requests, held>>

Close ==
  /\ OwnedOn("base")
  /\ base' = NoAccount
  /\ last' = NoAccount
  /\ UNCHANGED <<er, commits, requests, held>>

\* request_randomness on the base layer, request_randomness_er in the rollup:
\* each names the oracle's queue of its ledger.
RequestRandomness(ledger) ==
  /\ OwnedOn(ledger)
  /\ requests[ledger] < MaxRequests
  /\ requests' = [requests EXCEPT ![ledger] = @ + 1]
  /\ UNCHANGED <<base, er, commits, held, last>>

\* Faulty variant: the callback takes any account of the rollup.
CallbackRandomness_Unchecked(ledger, rnd) ==
  /\ requests[ledger] > 0
  /\ IF ledger = "rollup" THEN er # NoAccount ELSE OwnedOn(ledger)
  /\ SetData(ledger, rnd)
  /\ requests' = [requests EXCEPT ![ledger] = @ - 1]
  /\ UNCHANGED commits

\* The oracle answers a request.  Nothing tells which, nor whether the account
\* has been updated, delegated and undelegated, or closed and created since.
\* A callback that fails leaves the request unanswered.
CallbackRandomness(ledger, rnd) ==
  /\ requests[ledger] > 0
  /\ OwnedOn(ledger)
  /\ SetData(ledger, rnd)
  /\ requests' = [requests EXCEPT ![ledger] = @ - 1]
  /\ UNCHANGED commits

-------------------------------------------------------------------------------
\* External, the oracle: an unanswered request is given up.
Expire(ledger) ==
  /\ requests[ledger] > 0
  /\ requests' = [requests EXCEPT ![ledger] = @ - 1]
  /\ UNCHANGED <<base, er, commits, held, last>>

\* External, the validator: the oldest commit reaches the base layer.  With
\* an undelegation the delegation program gives the account back, through the
\* instruction #[ephemeral] adds to the program.
Deliver ==
  /\ commits # <<>>
  /\ LET c == Head(commits)
     IN  /\ base' = [data |-> c.data,
                     delegated |-> base.delegated /\ ~c.undelegate]
         /\ er' = IF c.undelegate THEN NoAccount ELSE er
  /\ commits' = Tail(commits)
  /\ UNCHANGED <<requests, held, last>>

\* External, the validator: a commit that undelegates nothing fails.
Lose ==
  /\ commits # <<>>
  /\ ~Head(commits).undelegate
  /\ commits' = Tail(commits)
  /\ UNCHANGED <<base, er, requests, held, last>>

Next ==
  \/ Initialize \/ Delegate \/ Undelegate \/ Close \/ Deliver \/ Lose
  \/ \E v \in Data : UpdateCommit(v)
  \/ \E l \in Ledgers :
       \/ RequestRandomness(l) \/ Expire(l)
       \/ \E v \in Data : Update(l, v) \/ CallbackRandomness(l, v)

Spec == Init /\ [][Next]_vars

-------------------------------------------------------------------------------
\* Once an undelegation is scheduled nothing changes the rollup's copy, no
\* update and no late callback: the last commit under way carries it.
LockedIsFinal ==
  er # NoAccount /\ er.locked =>
    /\ commits # <<>>
    /\ commits[Len(commits)] = [data |-> er.data, undelegate |-> TRUE]

\* The base layer shows, and commits carry, only values the account really
\* held in the rollup since it was delegated.
CommittedWasHeld ==
  base # NoAccount /\ base.delegated =>
    /\ base.data \in held
    /\ \A i \in 1 .. Len(commits) : commits[i].data \in held

\* The ledger that may be written, or could until it was undelegated, has
\* the account.
current ==
  IF er # NoAccount THEN er.data
  ELSE IF base = NoAccount THEN NoAccount ELSE base.data

\* Both ledgers together are one account: what the last successful initialize,
\* update, callback or close left is never undone by a delegation, a late or
\* lost commit, or an undelegation.
LastWriteStands == current = last
===============================================================================
