---------------------------- MODULE ErAccountProofs ----------------------------
(***************************************************************************)
(* ErAccount keeps its invariants for every set of values and every bound  *)
(* on commits and requests under way.                                      *)
(*                                                                         *)
(* None of them is inductive by itself: that a commit never rolls a write  *)
(* back needs that the undelegation is the last commit under way, that the *)
(* rollup's copy does not change any more once it is, and that the base    *)
(* layer cannot be written meanwhile.                                      *)
(***************************************************************************)
EXTENDS ErAccount, SequenceTheorems, TLAPS

\* The rollup has a copy exactly while the base layer's account is delegated,
\* and commits are under way only then.
CopyWhileDelegated ==
  /\ er # NoAccount <=> base # NoAccount /\ base.delegated
  /\ er = NoAccount => commits = <<>>

\* An undelegation is the last commit, and freezes what it carries.
UndelegationIsLast ==
  \A i \in 1 .. Len(commits) : commits[i].undelegate =>
    i = Len(commits) /\ er.locked /\ commits[i].data = er.data

\* What is in the rollup, shown or under way was held there.
AllHeld ==
  er # NoAccount =>
    /\ er.data \in held /\ base.data \in held
    /\ \A i \in 1 .. Len(commits) : commits[i].data \in held

Inv ==
  /\ TypeOK
  /\ CopyWhileDelegated
  /\ UndelegationIsLast
  /\ LockedIsFinal
  /\ AllHeld
  /\ LastWriteStands

-------------------------------------------------------------------------------
\* One more commit under way.
LEMMA Appended ==
  ASSUME commits \in Seq(Commit), NEW c \in Commit, commits' = Append(commits, c)
  PROVE  /\ commits' \in Seq(Commit) /\ commits' # <<>>
         /\ Len(commits) \in Nat /\ Len(commits') = Len(commits) + 1
         /\ commits'[Len(commits')] = c
         /\ \A i \in 1 .. Len(commits') :
              i # Len(commits') => i \in 1 .. Len(commits) /\ commits'[i] = commits[i]
<1>1. /\ Append(commits, c) \in Seq(Commit) /\ Append(commits, c) # <<>>
      /\ Len(Append(commits, c)) = Len(commits) + 1
      /\ \A i \in 1 .. Len(commits) : Append(commits, c)[i] = commits[i]
      /\ Append(commits, c)[Len(commits) + 1] = c
  BY AppendProperties
<1>2. Len(commits) \in Nat
  BY LenProperties, Zenon
<1> DEFINE n == Len(commits)
           m == Len(commits')
<1>3. m = n + 1 /\ n \in Nat
  BY <1>1, <1>2
<1>4. \A i \in 1 .. m : i # m => i \in 1 .. n
  <2> HIDE DEF n, m
  <2> QED
    BY <1>3
<1>5. commits'[m] = c
  BY <1>1, <1>2
<1> QED
  BY <1>1, <1>3, <1>4, <1>5

\* The oldest commit is no longer under way.
LEMMA Removed ==
  ASSUME commits \in Seq(Commit), commits # <<>>, commits' = Tail(commits)
  PROVE  /\ Head(commits) \in Commit /\ Head(commits) = commits[1]
         /\ 1 \in 1 .. Len(commits)
         /\ commits' \in Seq(Commit)
         /\ Len(commits) = 1 => commits' = <<>>
         /\ Len(commits) # 1 => commits' # <<>>
         /\ Len(commits') \in Nat /\ Len(commits) = Len(commits') + 1
         /\ \A i \in 1 .. Len(commits') :
              i + 1 \in 1 .. Len(commits) /\ commits'[i] = commits[i + 1]
<1>1. /\ Head(commits) \in Commit /\ Tail(commits) \in Seq(Commit)
      /\ Len(Tail(commits)) = Len(commits) - 1
      /\ \A i \in 1 .. Len(Tail(commits)) : Tail(commits)[i] = commits[i + 1]
  BY HeadTailProperties, Zenon
<1>2. Len(commits) \in Nat \ {0} /\ Len(<<>>) = 0
  BY EmptySeq, Zenon
<1>3. \A s \in Seq(Commit) : s # <<>> => Len(s) \in Nat \ {0}
  BY EmptySeq, Zenon
<1>4. Head(commits) = commits[1]
  OBVIOUS
<1> DEFINE n == Len(commits)
           m == Len(commits')
<1>5. n \in Nat \ {0} /\ m = n - 1
  BY <1>1, <1>2
<1>6. m \in Nat /\ n = m + 1 /\ 1 \in 1 .. n /\ \A i \in 1 .. m : i + 1 \in 1 .. n
  <2> HIDE DEF n, m
  <2> QED
    BY <1>5
<1>7. n = 1 <=> m = 0
  <2> HIDE DEF n, m
  <2> QED
    BY <1>5
<1> QED
  BY <1>1, <1>2, <1>3, <1>4, <1>6, <1>7

\* What the invariant says of a ledger the program may write.
LEMMA Owned ==
  ASSUME Inv
  PROVE  /\ OwnedOn("base") =>
              /\ base \in BaseAccount /\ base # NoAccount /\ ~ base.delegated
              /\ er = NoAccount /\ commits = <<>>
         /\ OwnedOn("rollup") =>
              /\ er \in ErCopy /\ er # NoAccount /\ ~ er.locked
              /\ base \in BaseAccount /\ base # NoAccount /\ base.delegated
              /\ \A i \in 1 .. Len(commits) : ~ commits[i].undelegate
<1> USE DEF Inv, TypeOK, CopyWhileDelegated, UndelegationIsLast, OwnedOn
<1>1. "rollup" # "base"
  OBVIOUS
<1>2. OwnedOn("base") => base \in BaseAccount /\ base # NoAccount /\ ~ base.delegated
  BY <1>1
<1>3. OwnedOn("rollup") => er \in ErCopy /\ er # NoAccount /\ ~ er.locked
  BY <1>1
<1> QED
  BY <1>2, <1>3

\* A write on one ledger leaves the other alone.
LEMMA SetDataStep ==
  ASSUME Inv, NEW ledger \in Ledgers, NEW v \in Data, OwnedOn(ledger), SetData(ledger, v)
  PROVE  /\ last' = v /\ v # NoAccount
         /\ \/ /\ ledger = "base" /\ er = NoAccount /\ commits = <<>> /\ ~ base.delegated
               /\ base' \in BaseAccount /\ base' # NoAccount
               /\ base'.data = v /\ ~ base'.delegated
               /\ er' = er /\ held' = held
            \/ /\ ledger = "rollup" /\ er \in ErCopy /\ er # NoAccount /\ ~ er.locked
               /\ er' \in ErCopy /\ er' # NoAccount
               /\ er'.data = v /\ ~ er'.locked
               /\ base \in BaseAccount /\ base # NoAccount /\ base.delegated
               /\ base' = base /\ held' = held \cup {v}
               /\ \A i \in 1 .. Len(commits) : ~ commits[i].undelegate
<1>1. v # NoAccount /\ \A x \in BaseAccount \cup ErCopy : x # NoAccount
  BY DataAssumption
<1>2. CASE ledger = "base"
  <2>1. base' = [base EXCEPT !.data = v] /\ last' = v /\ er' = er /\ held' = held
    BY <1>2 DEF SetData
  <2>2. base \in BaseAccount /\ ~ base.delegated /\ er = NoAccount /\ commits = <<>>
    BY <1>2, Owned
  <2>3. base' \in BaseAccount /\ base'.data = v /\ ~ base'.delegated
    BY <2>1, <2>2 DEF BaseAccount
  <2> QED
    BY <1>1, <1>2, <2>1, <2>2, <2>3
<1>3. CASE ledger = "rollup"
  <2>1. er' = [er EXCEPT !.data = v] /\ last' = v /\ base' = base /\ held' = held \cup {v}
    BY <1>3 DEF SetData
  <2>2. /\ er \in ErCopy /\ er # NoAccount /\ ~ er.locked
        /\ base \in BaseAccount /\ base # NoAccount /\ base.delegated
        /\ \A i \in 1 .. Len(commits) : ~ commits[i].undelegate
    BY <1>3, Owned
  <2>3. er' \in ErCopy /\ er'.data = v /\ ~ er'.locked
    BY <2>1, <2>2 DEF ErCopy
  <2> QED
    BY <1>1, <1>3, <2>1, <2>2, <2>3
<1> QED
  BY <1>2, <1>3 DEF Ledgers

-------------------------------------------------------------------------------
LEMMA InvInit == Init => Inv
<1> SUFFICES ASSUME Init PROVE Inv
  OBVIOUS
<1>1. Len(commits) = 0 /\ commits \in Seq(Commit)
  BY DEF Init
<1>2. \A i \in 1 .. Len(commits) : FALSE
  BY <1>1
<1> QED
  BY <1>1, <1>2
  DEF Init, Inv, TypeOK, CopyWhileDelegated, UndelegationIsLast, LockedIsFinal,
      AllHeld, LastWriteStands, current

LEMMA InitializeStep == Inv /\ Initialize => Inv'
<1> SUFFICES ASSUME Inv, Initialize PROVE Inv'
  OBVIOUS
<1>1. /\ base = NoAccount /\ base' = [data |-> Zero, delegated |-> FALSE] /\ last' = Zero
      /\ UNCHANGED <<er, commits, requests, held>>
  BY DEF Initialize
<1>2. /\ base' \in BaseAccount /\ base' # NoAccount
      /\ base'.data = Zero /\ ~ base'.delegated /\ Zero \in Data
  <2>1. Zero \in Data /\ \A x \in BaseAccount : x # NoAccount
    BY DataAssumption
  <2>2. base' \in BaseAccount /\ base'.data = Zero /\ ~ base'.delegated
    BY <1>1, <2>1 DEF BaseAccount
  <2> QED
    BY <2>1, <2>2
<1>3. er = NoAccount /\ commits = <<>>
  BY <1>1 DEF Inv, CopyWhileDelegated
<1>4. TypeOK'
  BY <1>1, <1>2 DEF Inv, TypeOK
<1> QED
  BY <1>1, <1>2, <1>3, <1>4
  DEF Inv, CopyWhileDelegated, UndelegationIsLast, LockedIsFinal, AllHeld,
      LastWriteStands, current

\* update and the callback: a write that commits nothing.
LEMMA WriteStep ==
  ASSUME Inv, NEW ledger \in Ledgers, NEW v \in Data, OwnedOn(ledger),
         SetData(ledger, v), UNCHANGED commits, requests' \in [Ledgers -> Nat]
  PROVE  Inv'
<1>1. /\ last' = v /\ v # NoAccount
      /\ \/ /\ ledger = "base" /\ er = NoAccount /\ commits = <<>> /\ ~ base.delegated
            /\ base' \in BaseAccount /\ base' # NoAccount
            /\ base'.data = v /\ ~ base'.delegated
            /\ er' = er /\ held' = held
         \/ /\ ledger = "rollup" /\ er \in ErCopy /\ er # NoAccount /\ ~ er.locked
            /\ er' \in ErCopy /\ er' # NoAccount
            /\ er'.data = v /\ ~ er'.locked
            /\ base \in BaseAccount /\ base # NoAccount /\ base.delegated
            /\ base' = base /\ held' = held \cup {v}
            /\ \A i \in 1 .. Len(commits) : ~ commits[i].undelegate
  BY SetDataStep
<1>2. TypeOK'
  BY <1>1 DEF Inv, TypeOK
<1> QED
  BY <1>1, <1>2
  DEF Inv, CopyWhileDelegated, UndelegationIsLast, LockedIsFinal, AllHeld,
      LastWriteStands, current

LEMMA UpdateCommitStep ==
  ASSUME Inv, NEW new_data \in Data, UpdateCommit(new_data)
  PROVE  Inv'
<1>1. /\ OwnedOn("rollup") /\ SetData("rollup", new_data) /\ UNCHANGED requests
      /\ "rollup" \in Ledgers
  BY DEF UpdateCommit, Ledgers
<1>2. /\ last' = new_data
      /\ er \in ErCopy /\ er # NoAccount /\ ~ er.locked
      /\ er' \in ErCopy /\ er' # NoAccount /\ er'.data = new_data /\ ~ er'.locked
      /\ base \in BaseAccount /\ base # NoAccount /\ base.delegated
      /\ base' = base /\ held' = held \cup {new_data}
      /\ \A i \in 1 .. Len(commits) : ~ commits[i].undelegate
  BY <1>1, SetDataStep
<1>3. er.data \in Data /\ er.data \in held
  BY <1>2 DEF ErCopy, Inv, AllHeld
<1>4. PICK v \in {er.data, new_data} :
        commits' = Append(commits, [data |-> v, undelegate |-> FALSE])
  BY DEF UpdateCommit
<1> DEFINE c == [data |-> v, undelegate |-> FALSE]
<1>5. c \in Commit /\ c.data \in held' /\ ~ c.undelegate
  BY <1>2, <1>3 DEF Commit
<1>6. commits \in Seq(Commit) /\ commits' = Append(commits, c)
  BY <1>4 DEF Inv, TypeOK
<1> HIDE DEF c
<1>7. /\ commits' \in Seq(Commit) /\ commits' # <<>>
      /\ commits'[Len(commits')] = c
      /\ \A i \in 1 .. Len(commits') :
           i # Len(commits') => i \in 1 .. Len(commits) /\ commits'[i] = commits[i]
  BY <1>5, <1>6, Appended
<1>8. TypeOK'
  BY <1>1, <1>2, <1>7 DEF Inv, TypeOK
<1>9. UndelegationIsLast'
  BY <1>2, <1>5, <1>7 DEF UndelegationIsLast
<1>10. AllHeld'
  BY <1>2, <1>5, <1>7 DEF Inv, AllHeld
<1> QED
  BY <1>2, <1>8, <1>9, <1>10
  DEF Inv, CopyWhileDelegated, LockedIsFinal, LastWriteStands, current

LEMMA DelegateStep == Inv /\ Delegate => Inv'
<1> SUFFICES ASSUME Inv, Delegate PROVE Inv'
  OBVIOUS
<1>1. /\ base \in BaseAccount /\ base # NoAccount /\ er = NoAccount /\ commits = <<>>
  BY Owned DEF Delegate
<1>2. /\ base' = [base EXCEPT !.delegated = TRUE]
      /\ er' = [data |-> base.data, locked |-> FALSE]
      /\ held' = {base.data}
      /\ UNCHANGED <<commits, requests, last>>
  BY DEF Delegate
<1>3. base' \in BaseAccount /\ base'.data = base.data /\ base'.delegated /\ base.data \in Data
  BY <1>1, <1>2 DEF BaseAccount
<1>4. er' \in ErCopy /\ er'.data = base.data /\ ~ er'.locked
  BY <1>2, <1>3 DEF ErCopy
<1>5. base' # NoAccount /\ er' # NoAccount
  BY <1>3, <1>4, DataAssumption
<1>6. commits' = <<>> /\ \A i \in 1 .. Len(commits') : FALSE
  BY <1>1, <1>2
<1>7. TypeOK'
  BY <1>2, <1>3, <1>4, <1>5 DEF Inv, TypeOK
<1> QED
  BY <1>1, <1>2, <1>3, <1>4, <1>5, <1>6, <1>7
  DEF Inv, CopyWhileDelegated, UndelegationIsLast, LockedIsFinal, AllHeld,
      LastWriteStands, current

LEMMA UndelegateStep == Inv /\ Undelegate => Inv'
<1> SUFFICES ASSUME Inv, Undelegate PROVE Inv'
  OBVIOUS
<1> DEFINE c == [data |-> er.data, undelegate |-> TRUE]
<1>1. /\ er \in ErCopy /\ er # NoAccount /\ ~ er.locked
      /\ base \in BaseAccount /\ base # NoAccount /\ base.delegated
      /\ \A i \in 1 .. Len(commits) : ~ commits[i].undelegate
  BY Owned DEF Undelegate
<1>2. /\ commits' = Append(commits, c)
      /\ er' = [er EXCEPT !.locked = TRUE]
      /\ UNCHANGED <<base, requests, held, last>>
  BY DEF Undelegate
<1>3. er' \in ErCopy /\ er'.data = er.data /\ er'.locked /\ er.data \in Data
  BY <1>1, <1>2 DEF ErCopy
<1>4. er' # NoAccount
  BY <1>3, DataAssumption
<1>5. c \in Commit /\ c.data = er.data /\ c.undelegate
  BY <1>3 DEF Commit
<1>6. c = [data |-> er'.data, undelegate |-> TRUE]
  BY <1>3
<1> HIDE DEF c
<1>7. /\ commits' \in Seq(Commit) /\ commits' # <<>>
      /\ commits'[Len(commits')] = c
      /\ \A i \in 1 .. Len(commits') :
           i # Len(commits') => i \in 1 .. Len(commits) /\ commits'[i] = commits[i]
  <2>1. commits \in Seq(Commit)
    BY DEF Inv, TypeOK
  <2> QED
    BY <1>2, <1>5, <2>1, Appended
<1>8. TypeOK'
  BY <1>1, <1>2, <1>3, <1>7 DEF Inv, TypeOK
<1>9. UndelegationIsLast'
  BY <1>1, <1>3, <1>5, <1>7 DEF UndelegationIsLast
<1>10. AllHeld'
  BY <1>1, <1>2, <1>3, <1>5, <1>7 DEF Inv, AllHeld
<1>11. LockedIsFinal'
  BY <1>6, <1>7 DEF LockedIsFinal
<1> QED
  BY <1>1, <1>2, <1>3, <1>4, <1>8, <1>9, <1>10, <1>11
  DEF Inv, CopyWhileDelegated, LastWriteStands, current

LEMMA CloseStep == Inv /\ Close => Inv'
<1> SUFFICES ASSUME Inv, Close PROVE Inv'
  OBVIOUS
<1>1. er = NoAccount /\ commits = <<>>
  BY Owned DEF Close
<1>2. base' = NoAccount /\ last' = NoAccount /\ UNCHANGED <<er, commits, requests, held>>
  BY DEF Close
<1>3. \A i \in 1 .. Len(commits) : FALSE
  BY <1>1
<1> QED
  BY <1>1, <1>2, <1>3
  DEF Inv, TypeOK, CopyWhileDelegated, UndelegationIsLast, LockedIsFinal, AllHeld,
      LastWriteStands, current

\* Requests come and go without touching the account.
LEMMA RequestStep ==
  ASSUME Inv, NEW ledger \in Ledgers, NEW n \in Nat,
         requests' = [requests EXCEPT ![ledger] = n],
         UNCHANGED <<base, er, commits, held, last>>
  PROVE  Inv'
<1>1. requests' \in [Ledgers -> Nat]
  BY DEF Inv, TypeOK
<1> QED
  BY <1>1
  DEF Inv, TypeOK, CopyWhileDelegated, UndelegationIsLast, LockedIsFinal, AllHeld,
      LastWriteStands, current

-------------------------------------------------------------------------------
\* What is under way when the oldest commit leaves: a frozen copy keeps its
\* last commit, and nothing is left behind an undelegation.
LEMMA OldestLeaves ==
  ASSUME Inv, commits # <<>>, commits' = Tail(commits)
  PROVE  /\ Head(commits) \in Commit
         /\ er \in ErCopy /\ er # NoAccount
         /\ base \in BaseAccount /\ base # NoAccount /\ base.delegated
         /\ Head(commits).data \in held
         /\ commits' \in Seq(Commit)
         /\ Head(commits).undelegate =>
              er.locked /\ Head(commits).data = er.data /\ commits' = <<>>
         /\ ~ Head(commits).undelegate /\ er' = er =>
              UndelegationIsLast' /\ LockedIsFinal'
         /\ \A i \in 1 .. Len(commits') : commits'[i].data \in held
<1>1. commits \in Seq(Commit) /\ Len(commits) \in Nat
  BY LenProperties DEF Inv, TypeOK
<1>2. /\ Head(commits) \in Commit /\ Head(commits) = commits[1]
      /\ 1 \in 1 .. Len(commits)
      /\ commits' \in Seq(Commit)
      /\ Len(commits) = 1 => commits' = <<>>
      /\ Len(commits) # 1 => commits' # <<>>
      /\ Len(commits') \in Nat /\ Len(commits) = Len(commits') + 1
      /\ \A i \in 1 .. Len(commits') :
           i + 1 \in 1 .. Len(commits) /\ commits'[i] = commits[i + 1]
  BY <1>1, Removed
<1>3. /\ er \in ErCopy /\ er # NoAccount
      /\ base \in BaseAccount /\ base # NoAccount /\ base.delegated
  BY DEF Inv, TypeOK, CopyWhileDelegated
<1>4. \A i \in 1 .. Len(commits) : commits[i].data \in held
  BY <1>3 DEF Inv, AllHeld
<1>5. Head(commits).undelegate =>
        er.locked /\ Head(commits).data = er.data /\ commits' = <<>>
  BY <1>2 DEF Inv, UndelegationIsLast
<1>6. ASSUME ~ Head(commits).undelegate, er' = er
      PROVE  UndelegationIsLast'
  <2> SUFFICES ASSUME NEW i \in 1 .. Len(commits'), commits'[i].undelegate
               PROVE  i = Len(commits') /\ er.locked /\ commits'[i].data = er.data
    BY <1>6 DEF UndelegationIsLast
  <2>1. i + 1 \in 1 .. Len(commits) /\ commits'[i] = commits[i + 1]
    BY <1>2
  <2>2. i + 1 = Len(commits) /\ er.locked /\ commits'[i].data = er.data
    BY <2>1 DEF Inv, UndelegationIsLast
  <2>3. i = Len(commits')
    <3>1. i \in Nat /\ Len(commits') \in Nat /\ Len(commits) = Len(commits') + 1
      BY <1>2
    <3>2. i + 1 = Len(commits') + 1
      BY <2>2, <3>1
    <3>3. \A a, b \in Nat : a + 1 = b + 1 => a = b
      OBVIOUS
    <3> QED
      BY <3>1, <3>2, <3>3, Zenon
  <2> QED
    BY <2>2, <2>3
<1>7. ASSUME ~ Head(commits).undelegate, er' = er
      PROVE  LockedIsFinal'
  <2> SUFFICES ASSUME er.locked
               PROVE  /\ commits' # <<>>
                      /\ commits'[Len(commits')] = [data |-> er.data, undelegate |-> TRUE]
    BY <1>7 DEF LockedIsFinal
  <2>1. commits[Len(commits)] = [data |-> er.data, undelegate |-> TRUE]
    BY <1>3 DEF Inv, LockedIsFinal
  <2>2. Len(commits) # 1
    <3> SUFFICES ASSUME Len(commits) = 1 PROVE FALSE
      OBVIOUS
    <3>1. Head(commits) = [data |-> er.data, undelegate |-> TRUE]
      BY <1>2, <2>1
    <3> QED
      BY <1>7, <3>1
  <2>3. Len(commits') \in 1 .. Len(commits')
    BY <1>2, <2>2
  <2>4. commits'[Len(commits')] = commits[Len(commits)]
    BY <1>2, <2>3
  <2> QED
    BY <1>2, <2>1, <2>2, <2>4
<1>8. \A i \in 1 .. Len(commits') : commits'[i].data \in held
  BY <1>2, <1>4
<1> QED
  BY <1>2, <1>3, <1>4, <1>5, <1>6, <1>7, <1>8

LEMMA DeliverStep == Inv /\ Deliver => Inv'
<1> SUFFICES ASSUME Inv, Deliver PROVE Inv'
  OBVIOUS
<1> DEFINE c == Head(commits)
<1>1. /\ commits # <<>> /\ commits' = Tail(commits)
      /\ base' = [data |-> c.data, delegated |-> base.delegated /\ ~ c.undelegate]
      /\ er' = IF c.undelegate THEN NoAccount ELSE er
      /\ UNCHANGED <<requests, held, last>>
  BY DEF Deliver
<1>2. /\ c \in Commit
      /\ er \in ErCopy /\ er # NoAccount
      /\ base \in BaseAccount /\ base # NoAccount /\ base.delegated
      /\ c.data \in held
      /\ commits' \in Seq(Commit)
      /\ c.undelegate => er.locked /\ c.data = er.data /\ commits' = <<>>
      /\ ~ c.undelegate /\ er' = er => UndelegationIsLast' /\ LockedIsFinal'
      /\ \A i \in 1 .. Len(commits') : commits'[i].data \in held
  BY <1>1, OldestLeaves
<1> HIDE DEF c
<1>3. c.data \in Data /\ c.undelegate \in BOOLEAN
  BY <1>2 DEF Commit
<1>4. /\ base' \in BaseAccount /\ base'.data = c.data
      /\ base'.delegated <=> base.delegated /\ ~ c.undelegate
  BY <1>1, <1>3 DEF BaseAccount
<1>5. base' # NoAccount
  BY <1>4, DataAssumption
<1>6. TypeOK'
  BY <1>1, <1>2, <1>4, <1>5 DEF Inv, TypeOK
<1>7. CASE c.undelegate
  <2>1. er' = NoAccount /\ ~ base'.delegated /\ commits' = <<>> /\ base'.data = er.data
    BY <1>1, <1>2, <1>4, <1>7
  <2>2. \A i \in 1 .. Len(commits') : FALSE
    BY <2>1
  <2> QED
    BY <1>1, <1>2, <1>5, <1>6, <2>1, <2>2
    DEF Inv, CopyWhileDelegated, UndelegationIsLast, LockedIsFinal, AllHeld,
        LastWriteStands, current
<1>8. CASE ~ c.undelegate
  <2>1. er' = er /\ base'.delegated
    BY <1>1, <1>2, <1>4, <1>8
  <2>2. UndelegationIsLast' /\ LockedIsFinal'
    BY <1>2, <1>8, <2>1
  <2> QED
    BY <1>1, <1>2, <1>4, <1>5, <1>6, <2>1, <2>2
    DEF Inv, CopyWhileDelegated, AllHeld, LastWriteStands, current
<1> QED
  BY <1>7, <1>8

LEMMA LoseStep == Inv /\ Lose => Inv'
<1> SUFFICES ASSUME Inv, Lose PROVE Inv'
  OBVIOUS
<1>1. /\ commits # <<>> /\ commits' = Tail(commits) /\ ~ Head(commits).undelegate
      /\ UNCHANGED <<base, er, requests, held, last>>
  BY DEF Lose
<1>2. /\ er # NoAccount /\ commits' \in Seq(Commit)
      /\ UndelegationIsLast' /\ LockedIsFinal'
      /\ \A i \in 1 .. Len(commits') : commits'[i].data \in held
  BY <1>1, OldestLeaves
<1> QED
  BY <1>1, <1>2 DEF Inv, TypeOK, CopyWhileDelegated, AllHeld, LastWriteStands, current

-------------------------------------------------------------------------------
LEMMA InvStep == Inv /\ [Next]_vars => Inv'
<1> SUFFICES ASSUME Inv, [Next]_vars PROVE Inv'
  OBVIOUS
<1>1. requests \in [Ledgers -> Nat]
  BY DEF Inv, TypeOK
<1>2. ASSUME NEW v \in Data, UpdateCommit(v) PROVE Inv'
  BY <1>2, UpdateCommitStep
<1>3. ASSUME NEW l \in Ledgers, RequestRandomness(l) PROVE Inv'
  <2>1. requests[l] + 1 \in Nat
    BY <1>1
  <2> QED
    BY <1>3, <2>1, RequestStep DEF RequestRandomness
<1>4. ASSUME NEW l \in Ledgers, Expire(l) PROVE Inv'
  <2>1. requests[l] - 1 \in Nat
    BY <1>1, <1>4 DEF Expire
  <2> QED
    BY <1>4, <2>1, RequestStep DEF Expire
<1>5. ASSUME NEW l \in Ledgers, NEW v \in Data, Update(l, v) PROVE Inv'
  BY <1>1, <1>5, WriteStep DEF Update
<1>6. ASSUME NEW l \in Ledgers, NEW v \in Data, CallbackRandomness(l, v) PROVE Inv'
  <2>1. requests[l] - 1 \in Nat
    BY <1>1, <1>6 DEF CallbackRandomness
  <2>2. requests' \in [Ledgers -> Nat]
    BY <1>1, <1>6, <2>1 DEF CallbackRandomness
  <2> QED
    BY <1>6, <2>2, WriteStep DEF CallbackRandomness
<1>7. CASE UNCHANGED vars
  BY <1>7
  DEF vars, Inv, TypeOK, CopyWhileDelegated, UndelegationIsLast, LockedIsFinal, AllHeld,
      LastWriteStands, current
<1> QED
  BY <1>2, <1>3, <1>4, <1>5, <1>6, <1>7, InitializeStep, DelegateStep, UndelegateStep,
     CloseStep, DeliverStep, LoseStep
  DEF Next

LEMMA InvHolds == Spec => []Inv
BY InvInit, InvStep, PTL DEF Spec

\* The account, its copy and the commits keep their layouts, and a copy exists
\* only while the account does.
THEOREM TypeCorrect == Spec => []TypeOK
<1>1. Inv => TypeOK
  BY DEF Inv
<1> QED
  BY <1>1, InvHolds, PTL

\* After undelegate no instruction and no callback changes what the last
\* commit carries.
THEOREM LockedStaysFinal == Spec => []LockedIsFinal
<1>1. Inv => LockedIsFinal
  BY DEF Inv
<1> QED
  BY <1>1, InvHolds, PTL

\* The base layer never shows a value the account did not hold in the rollup.
THEOREM AlwaysCommittedWasHeld == Spec => []CommittedWasHeld
<1>1. Inv => CommittedWasHeld
  BY DEF Inv, CopyWhileDelegated, AllHeld, CommittedWasHeld
<1> QED
  BY <1>1, InvHolds, PTL

\* What the last instruction that writes the account left is never undone,
\* whatever is committed late, lost or undelegated.
THEOREM LastWriteAlwaysStands == Spec => []LastWriteStands
<1>1. Inv => LastWriteStands
  BY DEF Inv
<1> QED
  BY <1>1, InvHolds, PTL
===============================================================================
