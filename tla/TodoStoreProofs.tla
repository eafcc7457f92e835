---------------------------- MODULE TodoStoreProofs ----------------------------
(***************************************************************************)
(* The file of the todo tool, for any number of processes and files, with  *)
(* kills and losses of power at any time.                                  *)
(*                                                                         *)
(* The invariant has a part that always holds (types, and that the file    *)
(* does not disappear) and a part that holds until two saves overlap: then *)
(* at most one process writes, what it writes has a name only as the       *)
(* temporary file, and everything that is or may become the file is whole. *)
(***************************************************************************)
EXTENDS TodoStore, FiniteSetTheorems, SequenceTheorems, WellFoundedInduction, TLAPS

\* A whole file: the encoding of a queue that a run saved.
Whole(units) == Decodes(units) /\ Decoded(units) \in saved

Consecutive(queue) == \A i \in DOMAIN queue : queue[i].id = queue[1].id + i - 1

\* What a save has written so far.
Written(units, queue, n) ==
  Len(units) = n /\ \A i \in 1 .. n : units[i] = Encoding(queue)[i]

\* The list in the file after a loss of power.
DiskQueue ==
  IF diskMain = None \/ diskContent[diskMain] = <<>> THEN <<>>
  ELSE Decoded(diskContent[diskMain])

-------------------------------------------------------------------------------
Offsets ==
  \A p \in Procs :
    /\ proc[p].pc = "create" => proc[p].offset = 0
    /\ proc[p].pc = "write" => proc[p].offset <= Len(proc[p].queue)

\* Two processes never save at once.
OneSaver == \A p, q \in Procs : Saving(p) /\ Saving(q) => p = q

\* The temporary file is neither the file, nor what the disk has under the
\* file's name, nor read by anybody.
Apart ==
  /\ tmp # None =>
       /\ tmp # main /\ tmp # diskMain
       /\ \A p \in Procs : proc[p].pc = "read" => proc[p].fd # tmp
  /\ diskTmp # None => diskTmp # diskMain

FilesWhole ==
  /\ main # None => Whole(content[main])
  /\ diskMain # None => Whole(diskContent[diskMain])
  /\ \A p \in Procs : proc[p].pc = "read" => Whole(content[proc[p].fd])

\* Who saves writes to the temporary file, from its start.
SaverOwnsTmp ==
  \A p \in Procs :
    /\ proc[p].pc = "write" =>
         /\ tmp # None /\ proc[p].fd = tmp
         /\ Written(content[tmp], proc[p].queue, proc[p].offset)
    /\ proc[p].pc = "rename" =>
         /\ tmp # None
         /\ Written(content[tmp], proc[p].queue, Len(proc[p].queue) + 1)
    /\ Saving(p) => proc[p].queue \in saved

Numbered ==
  /\ \A queue \in saved : Consecutive(queue)
  /\ \A p \in Procs : Consecutive(proc[p].queue)

\* Whoever nobody overtook works on what the file holds.
Isolated ==
  \A p \in Procs \ stale :
    /\ proc[p].pc = "read" => proc[p].fd = main
    /\ proc[p].pc \in {"create", "write", "rename"} =>
         /\ Saves(proc[p].cmd, FileQueue)
         /\ proc[p].queue = Changed(proc[p].cmd, FileQueue)

\* The history knows what a loss of power can bring back.
Remembered == FileQueue \in held /\ DiskQueue \in held /\ <<>> \in held

Safe ==
  OneSaver /\ Apart /\ FilesWhole /\ SaverOwnsTmp /\ Numbered /\ Isolated /\ Remembered

\* One process never overlaps or overtakes itself.
Alone == (\A p, q \in Procs : p = q) => ~ overlapped /\ stale = {}

Inv ==
  /\ TypeOK
  /\ OpenNeverFails
  /\ Offsets
  /\ ~ overlapped => Safe
  /\ Alone

-------------------------------------------------------------------------------
(***************************************************************************)
(* The queue.                                                              *)
(***************************************************************************)
\* A set of naturals that is not empty has a least element.
LEMMA LeastElement ==
  ASSUME NEW T, T \subseteq Nat, T # {}
  PROVE  \E x \in T : \A y \in T : x <= y
<1> DEFINE R == OpToRel(<, Nat)
<1>1. IsWellFoundedOn(R, Nat)
  BY NatLessThanWellFounded
<1>2. \A x, y \in Nat : y < x => <<y, x>> \in R
  BY DEF OpToRel
<1> HIDE DEF R
<1>3. PICK x \in T : \A y \in T : ~ (<<y, x>> \in R)
  BY <1>1, WFMin
<1>4. ASSUME NEW y \in T PROVE x <= y
  <2>1. x \in Nat /\ y \in Nat /\ ~ (<<y, x>> \in R)
    BY <1>3
  <2>2. ~ (y < x)
    BY <1>2, <2>1
  <2> QED
    BY <2>1, <2>2
<1> QED
  BY <1>4

\* Induction, in the form the provers can use: over a set.
LEMMA InductionOnSet ==
  ASSUME NEW S, 0 \in S, \A n \in Nat : n \in S => n + 1 \in S
  PROVE  Nat \subseteq S
<1> SUFFICES ASSUME Nat \ S # {} PROVE FALSE
  OBVIOUS
<1>1. PICK x \in Nat \ S : \A y \in Nat \ S : x <= y
  BY LeastElement
<1>2. x # 0 /\ x - 1 \in Nat /\ (x - 1) + 1 = x
  BY <1>1
<1>3. x - 1 \in S
  BY <1>1, <1>2
<1> QED
  BY <1>1, <1>2, <1>3

LEMMA IdType ==
  ASSUME NEW queue \in Seq(TodoType), NEW i \in 1 .. Len(queue)
  PROVE  queue[i].id \in Nat
<1>1. queue[i] \in TodoType
  BY ElementOfSeq
<1> QED
  BY <1>1 DEF TodoType

\* Every queue that is not empty has a largest id.
LEMMA LargestId ==
  ASSUME NEW queue \in Seq(TodoType), queue # <<>>
  PROVE  \E m \in {queue[i].id : i \in DOMAIN queue} : \A i \in DOMAIN queue : queue[i].id <= m
<1> DEFINE len == Len(queue)
           HasMax(n) == \E j \in 1 .. n : \A i \in 1 .. n : queue[i].id <= queue[j].id
           S == {n \in Nat : n + 1 <= len => HasMax(n + 1)}
<1>1. len \in Nat \ {0} /\ DOMAIN queue = 1 .. len
  BY EmptySeq, LenProperties
<1>2. \A i \in 1 .. len : queue[i].id \in Nat
  BY IdType
<1> HIDE DEF len
<1>3. 0 \in S
  <2>1. \A i \in 1 .. 1 : i = 1
    OBVIOUS
  <2>2. 1 <= len => HasMax(1)
    BY <1>2, <2>1
  <2> QED
    BY <2>2
<1>4. ASSUME NEW n \in Nat, n \in S
      PROVE  n + 1 \in S
  <2> SUFFICES ASSUME n + 2 <= len PROVE HasMax(n + 2)
    OBVIOUS
  <2>1. PICK j \in 1 .. n + 1 : \A i \in 1 .. n + 1 : queue[i].id <= queue[j].id
    BY <1>4, <1>1
  <2>2. j \in 1 .. len /\ n + 2 \in 1 .. len /\ \A i \in 1 .. n + 2 : i = n + 2 \/ i \in 1 .. n + 1
    BY <1>1
  <2>3. queue[j].id \in Nat /\ queue[n + 2].id \in Nat
    BY <1>2, <2>2
  <2>4. CASE queue[n + 2].id <= queue[j].id
    <3>1. j \in 1 .. n + 2
      OBVIOUS
    <3> QED
      BY <2>1, <2>2, <2>4, <3>1
  <2>5. CASE queue[j].id <= queue[n + 2].id
    <3>1. \A i \in 1 .. n + 2 : queue[i].id <= queue[n + 2].id
      <4> SUFFICES ASSUME NEW i \in 1 .. n + 2 PROVE queue[i].id <= queue[n + 2].id
        OBVIOUS
      <4>1. i \in 1 .. len
        BY <1>1
      <4> QED
        BY <1>2, <2>1, <2>2, <2>3, <2>5, <4>1
    <3> QED
      BY <3>1
  <2>6. queue[n + 2].id <= queue[j].id \/ queue[j].id <= queue[n + 2].id
    BY <2>3
  <2> QED
    BY <2>4, <2>5, <2>6
<1>5. Nat \subseteq S
  <2> HIDE DEF S
  <2> QED
    BY <1>3, <1>4, InductionOnSet
<1>6. HasMax(len)
  <2>1. len - 1 \in Nat /\ (len - 1) + 1 = len
    BY <1>1
  <2>2. len - 1 \in S
    BY <1>5, <2>1
  <2> QED
    BY <1>1, <2>1, <2>2
<1> QED
  BY <1>1, <1>6

LEMMA NextIdType ==
  ASSUME NEW queue \in Seq(TodoType)
  PROVE  next_id(queue) \in Nat
<1>1. CASE queue = <<>>
  BY <1>1 DEF next_id
<1>2. CASE queue # <<>>
  <2> DEFINE Max(m) == \A i \in DOMAIN queue : queue[i].id <= m
             ids == {queue[i].id : i \in DOMAIN queue}
  <2>1. \E m \in ids : Max(m)
    BY <1>2, LargestId
  <2>2. (CHOOSE m \in ids : Max(m)) \in ids
    BY <2>1
  <2>3. ids \subseteq Nat
    BY IdType, LenProperties
  <2>4. next_id(queue) = (CHOOSE m \in ids : Max(m)) + 1
    BY <1>2 DEF next_id
  <2> DEFINE m == CHOOSE m \in ids : Max(m)
  <2>5. m \in Nat
    BY <2>2, <2>3
  <2>6. next_id(queue) = m + 1
    BY <2>4
  <2> HIDE DEF m
  <2> QED
    BY <2>5, <2>6
<1> QED
  BY <1>1, <1>2

\* In a queue numbered without gaps the largest id is the last.
LEMMA NextIdConsecutive ==
  ASSUME NEW queue \in Seq(TodoType), queue # <<>>, Consecutive(queue)
  PROVE  next_id(queue) = queue[Len(queue)].id + 1
<1> DEFINE len == Len(queue)
           Max(m) == \A i \in DOMAIN queue : queue[i].id <= m
           ids == {queue[i].id : i \in DOMAIN queue}
           m == CHOOSE m \in ids : Max(m)
           last == queue[len].id
<1>1. /\ len \in Nat \ {0} /\ DOMAIN queue = 1 .. len
      /\ 1 \in DOMAIN queue /\ len \in DOMAIN queue
  BY EmptySeq, LenProperties
<1>2. \A i \in DOMAIN queue : queue[i].id \in Nat
  BY <1>1, IdType
<1>3. \A i \in DOMAIN queue : queue[i].id <= last
  <2> SUFFICES ASSUME NEW i \in DOMAIN queue PROVE queue[i].id <= last
    OBVIOUS
  <2>1. queue[i].id = queue[1].id + i - 1 /\ last = queue[1].id + len - 1
    BY <1>1 DEF Consecutive
  <2> DEFINE a == queue[i].id
             b == queue[1].id
  <2>2. a = b + i - 1 /\ last = b + len - 1 /\ b \in Nat /\ i \in 1 .. len /\ len \in Nat
    BY <1>1, <1>2, <2>1
  <2>3. a <= last
    <3> HIDE DEF a, b, last, len
    <3> QED
      BY <2>2
  <2> QED
    BY <2>3
<1>4. m \in ids /\ Max(m)
  <2>1. \E n \in ids : Max(n)
    BY LargestId
  <2> HIDE DEF ids, Max
  <2> QED
    BY <2>1
<1>5. next_id(queue) = m + 1
  BY DEF next_id
<1>6. last \in Nat /\ last <= m
  BY <1>1, <1>2, <1>4
<1>7. m \in Nat /\ m <= last
  <2> HIDE DEF m
  <2> QED
    BY <1>2, <1>3, <1>4
<1>8. m = last
  <2> HIDE DEF m, last
  <2> QED
    BY <1>6, <1>7
<1> QED
  BY <1>5, <1>8

\* `add` appends a todo, and numbers on where the queue ends.
LEMMA EnqueuedFacts ==
  ASSUME NEW queue \in Seq(TodoType), NEW description \in Descriptions
  PROVE  /\ Enqueued(queue, description) \in Seq(TodoType)
         /\ Consecutive(queue) => Consecutive(Enqueued(queue, description))
<1> DEFINE todo == Todo(next_id(queue), description)
           new == Append(queue, todo)
           len == Len(queue)
<1>1. todo \in TodoType /\ todo.id = next_id(queue)
  BY NextIdType DEF Todo, TodoType
<1> HIDE DEF todo
<1>2. /\ new \in Seq(TodoType) /\ Len(new) = len + 1
      /\ \A i \in 1 .. len : new[i] = queue[i]
      /\ new[len + 1] = todo
  BY <1>1, AppendProperties
<1>3. len \in Nat /\ DOMAIN queue = 1 .. len /\ DOMAIN new = 1 .. len + 1
  BY <1>2, LenProperties
<1>4. ASSUME Consecutive(queue) PROVE Consecutive(new)
  <2>1. CASE queue = <<>>
    <3>1. len = 0 /\ todo.id = 1
      BY <1>1, <2>1 DEF next_id
    <3>2. \A i \in DOMAIN new : i = 1 /\ new[i].id = 1
      BY <1>2, <1>3, <3>1
    <3> HIDE DEF new
    <3> QED
      BY <3>2 DEF Consecutive
  <2>2. CASE queue # <<>>
    <3>1. todo.id = queue[len].id + 1
      BY <1>1, <1>4, <2>2, NextIdConsecutive
    <3>2. len \in 1 .. len /\ 1 \in 1 .. len
      BY <1>3, <2>2, EmptySeq
    <3>3. \A i \in 1 .. len : queue[i].id = queue[1].id + i - 1
      BY <1>3, <1>4 DEF Consecutive
    <3> DEFINE b == queue[1].id
    <3>4. b \in Nat /\ new[1].id = b
      BY <1>2, <3>2, IdType
    <3>5. new[len + 1].id = b + (len + 1) - 1
      <4>1. queue[len].id = b + len - 1
        BY <3>2, <3>3
      <4>2. (b + len - 1) + 1 = b + (len + 1) - 1
        <5> HIDE DEF b, len
        <5> QED
          BY <1>3, <3>4
      <4> QED
        BY <1>2, <3>1, <4>1, <4>2
    <3>6. \A i \in 1 .. len : new[i].id = b + i - 1
      BY <1>2, <3>3
    <3>7. \A i \in DOMAIN new : i \in 1 .. len \/ i = len + 1
      BY <1>3
    <3> HIDE DEF new, b, len
    <3> QED
      BY <3>4, <3>5, <3>6, <3>7 DEF Consecutive
  <2> QED
    BY <2>1, <2>2
<1>5. Enqueued(queue, description) = new
  BY DEF Enqueued, todo
<1> QED
  BY <1>2, <1>4, <1>5

\* `done` takes the first todo away; the others keep their ids.
LEMMA DequeuedFacts ==
  ASSUME NEW queue \in Seq(TodoType), queue # <<>>
  PROVE  /\ Dequeued(queue) \in Seq(TodoType)
         /\ Consecutive(queue) => Consecutive(Dequeued(queue))
<1> DEFINE rest == Tail(queue)
           len == Len(queue)
           n == Len(rest)
<1>1. /\ rest \in Seq(TodoType) /\ n = len - 1
      /\ \A i \in 1 .. n : rest[i] = queue[i + 1]
  BY HeadTailProperties
<1>2. /\ len \in Nat \ {0} /\ n \in Nat
      /\ DOMAIN queue = 1 .. len /\ DOMAIN rest = 1 .. n
  BY <1>1, EmptySeq, LenProperties
<1>3. ASSUME Consecutive(queue) PROVE Consecutive(rest)
  <2> SUFFICES ASSUME NEW i \in 1 .. n PROVE rest[i].id = rest[1].id + i - 1
    BY <1>2 DEF Consecutive
  <2> DEFINE b == queue[1].id
  <2>1. 1 \in 1 .. n /\ i + 1 \in 1 .. len /\ 2 \in 1 .. len /\ 1 \in 1 .. len
    <3> HIDE DEF n, len
    <3> QED
      BY <1>1, <1>2
  <2>2. rest[i].id = b + (i + 1) - 1 /\ rest[1].id = b + 2 - 1
    <3>1. rest[i] = queue[i + 1] /\ rest[1] = queue[1 + 1] /\ 1 + 1 = 2
      BY <1>1, <2>1
    <3>2. \A j \in 1 .. len : queue[j].id = b + j - 1
      BY <1>2, <1>3 DEF Consecutive
    <3> QED
      BY <2>1, <3>1, <3>2
  <2>3. b \in Nat
    BY <2>1, IdType
  <2>4. b + (i + 1) - 1 = (b + 2 - 1) + i - 1
    <3> HIDE DEF b
    <3> QED
      BY <2>3
  <2> QED
    BY <2>2, <2>4
<1> QED
  BY <1>1, <1>3 DEF Dequeued

LEMMA ChangedFacts ==
  ASSUME NEW queue \in Seq(TodoType), NEW cmd \in Commands, Saves(cmd, queue)
  PROVE  /\ Changed(cmd, queue) \in Seq(TodoType)
         /\ Consecutive(queue) => Consecutive(Changed(cmd, queue))
<1>1. CASE cmd.op = "add"
  <2>1. cmd.description \in Descriptions
    BY <1>1 DEF Commands
  <2> QED
    BY <1>1, <2>1, EnqueuedFacts DEF Changed
<1>2. CASE cmd.op # "add"
  BY <1>2, DequeuedFacts DEF Changed, Saves
<1> QED
  BY <1>1, <1>2

-------------------------------------------------------------------------------
(***************************************************************************)
(* Files.                                                                  *)
(***************************************************************************)
\* An encoding is the header and then the queue; it decodes to the queue.
LEMMA EncodingFacts ==
  ASSUME NEW queue \in Seq(TodoType)
  PROVE  /\ Encoding(queue) \in Seq(TodoType) /\ Encoding(queue) # <<>>
         /\ Len(Encoding(queue)) = Len(queue) + 1
         /\ \A i \in 1 .. Len(queue) + 1 : Encoding(queue)[i] \in TodoType
         /\ Decodes(Encoding(queue))
         /\ Decoded(Encoding(queue)) = queue
<1> DEFINE len == Len(queue)
           h == Header(len)
           units == Encoding(queue)
<1>1. len \in Nat /\ queue \in [1 .. len -> TodoType]
  BY LenProperties
<1>2. h \in TodoType /\ h.id = len
  BY <1>1 DEF Header, Todo, TodoType
<1>3. <<h>> \in Seq(TodoType) /\ Len(<<h>>) = 1 /\ <<h>>[1] = h
  BY <1>2
<1>4. units = <<h>> \o queue
  BY DEF Encoding
<1> HIDE DEF h, units
<1>5. /\ units \in Seq(TodoType) /\ Len(units) = 1 + len
      /\ \A i \in 1 .. 1 + len : units[i] = IF i <= 1 THEN <<h>>[i] ELSE queue[i - 1]
  <2> DEFINE head == <<h>>
  <2>1. head \in Seq(TodoType) /\ Len(head) = 1 /\ units = head \o queue
    BY <1>3, <1>4
  <2> HIDE DEF head
  <2>2. /\ head \o queue \in Seq(TodoType)
        /\ Len(head \o queue) = Len(head) + Len(queue)
        /\ \A i \in 1 .. Len(head) + Len(queue) :
             (head \o queue)[i] = IF i <= Len(head) THEN head[i] ELSE queue[i - Len(head)]
    BY <2>1, ConcatProperties
  <2>3. /\ units \in Seq(TodoType) /\ Len(units) = 1 + len
        /\ \A i \in 1 .. 1 + len : units[i] = IF i <= 1 THEN head[i] ELSE queue[i - 1]
    BY <2>1, <2>2
  <2> QED
    BY <2>3 DEF head
<1>6. Len(units) = len + 1
  <2> HIDE DEF len
  <2> QED
    BY <1>1, <1>5
<1>7. units[1] = h
  <2>1. 1 \in 1 .. 1 + len /\ 1 <= 1
    <3> HIDE DEF len
    <3> QED
      BY <1>1
  <2> QED
    BY <1>3, <1>5, <2>1
<1>8. \A i \in 1 .. len : units[i + 1] = queue[i]
  <2> SUFFICES ASSUME NEW i \in 1 .. len PROVE units[i + 1] = queue[i]
    OBVIOUS
  <2>1. i + 1 \in 1 .. 1 + len /\ ~ (i + 1 <= 1) /\ (i + 1) - 1 = i
    <3> HIDE DEF len
    <3> QED
      BY <1>1
  <2> QED
    BY <1>5, <2>1
<1>9. units # <<>>
  <2>1. Len(<<>>) = 0
    OBVIOUS
  <2>2. len + 1 # 0
    <3> HIDE DEF len
    <3> QED
      BY <1>1
  <2> QED
    BY <1>6, <2>1, <2>2
<1>10. \A i \in 1 .. len + 1 : units[i] \in TodoType
  BY <1>5, <1>6, ElementOfSeq
<1>11. Decodes(units)
  <2>1. units[1].id = len /\ Len(units) = len + 1
    BY <1>2, <1>6, <1>7
  <2>2. (len + 1) - 1 = len
    <3> HIDE DEF len
    <3> QED
      BY <1>1
  <2> QED
    BY <1>9, <2>1, <2>2 DEF Decodes
<1>12. Decoded(units) = queue
  <2> DEFINE rest == Tail(units)
  <2>1. /\ rest \in Seq(TodoType) /\ Len(rest) = Len(units) - 1
        /\ \A i \in 1 .. Len(rest) : rest[i] = units[i + 1]
    BY <1>5, <1>9, HeadTailProperties
  <2>2. (len + 1) - 1 = len
    <3> HIDE DEF len
    <3> QED
      BY <1>1
  <2> HIDE DEF rest
  <2>3. Len(rest) = Len(queue) /\ \A i \in 1 .. Len(rest) : rest[i] = queue[i]
    BY <1>6, <1>8, <2>1, <2>2
  <2>4. rest = queue
    BY <2>1, <2>3, SeqEqual
  <2> QED
    BY <2>4 DEF Decoded, rest
<1> QED
  BY <1>5, <1>6, <1>9, <1>10, <1>11, <1>12 DEF units

\* A file that holds all that a save writes is the queue's encoding.
LEMMA WrittenAll ==
  ASSUME NEW units \in Seq(TodoType), NEW queue \in Seq(TodoType),
         Written(units, queue, Len(queue) + 1)
  PROVE  units = Encoding(queue)
<1> DEFINE e == Encoding(queue)
<1>1. e \in Seq(TodoType) /\ Len(e) = Len(queue) + 1
  BY EncodingFacts
<1>2. Len(units) = Len(e) /\ \A i \in 1 .. Len(units) : units[i] = e[i]
  BY <1>1 DEF Written
<1> HIDE DEF e
<1>3. units = e
  BY <1>1, <1>2, SeqEqual
<1> QED
  BY <1>3 DEF e

\* Writing at the end of a file makes it one unit longer.
LEMMA WriteAtFacts ==
  ASSUME NEW units \in Seq(TodoType), NEW k \in Nat \ {0}, NEW unit \in TodoType
  PROVE  /\ WriteAt(units, k, unit) \in Seq(TodoType)
         /\ k = Len(units) + 1 =>
              /\ Len(WriteAt(units, k, unit)) = k
              /\ WriteAt(units, k, unit)[k] = unit
              /\ \A i \in 1 .. Len(units) : WriteAt(units, k, unit)[i] = units[i]
<1> DEFINE len == Len(units)
           n == IF k > len THEN k ELSE len
           new == WriteAt(units, k, unit)
<1>1. len \in Nat /\ n \in Nat
  BY LenProperties
<1>2. Hole \in TodoType
  BY DEF Hole, Todo, TodoType
<1>3. new = [i \in 1 .. n |-> IF i = k THEN unit ELSE IF i <= len THEN units[i] ELSE Hole]
  BY DEF WriteAt
<1>4. \A i \in 1 .. n : i <= len => units[i] \in TodoType
  <2> SUFFICES ASSUME NEW i \in 1 .. n, i <= len PROVE units[i] \in TodoType
    OBVIOUS
  <2>1. i \in 1 .. Len(units)
    BY <1>1
  <2> QED
    BY <2>1, ElementOfSeq
<1> HIDE DEF len, n, new
<1>5. new \in [1 .. n -> TodoType]
  BY <1>2, <1>3, <1>4
<1>6. new \in Seq(TodoType) /\ Len(new) = n
  BY <1>1, <1>5
<1>7. ASSUME k = len + 1
      PROVE  /\ Len(new) = k /\ new[k] = unit
             /\ \A i \in 1 .. len : new[i] = units[i]
  <2>1. n = k /\ k \in 1 .. n /\ \A i \in 1 .. len : i \in 1 .. n /\ i # k /\ i <= len
    BY <1>1, <1>7 DEF n
  <2> QED
    BY <1>3, <1>6, <2>1
<1> QED
  BY <1>6, <1>7 DEF len, new

\* A new file can always be created: at most three files have a name, and at
\* most one per process is open.
LEMMA FreeInodeExists ==
  ASSUME TypeOK, tmp = None
  PROVE  (CHOOSE i \in FreeInodes : TRUE) \in FreeInodes
<1> DEFINE Fds == {proc[p].fd : p \in Procs}
           names == {main, diskMain, diskTmp}
           used == ({None} \cup names) \cup Fds
<1>1. IsFiniteSet(Fds) /\ Cardinality(Fds) <= Cardinality(Procs)
  <2> DEFINE f == [p \in Procs |-> proc[p].fd]
  <2>1. f \in Surjection(Procs, Fds)
    BY DEF Surjection
  <2> HIDE DEF f, Fds
  <2> QED
    BY <2>1, InodesAssumption, FS_Surjection
<1>2. IsFiniteSet(names) /\ Cardinality(names) \in Nat /\ Cardinality(names) <= 3
  <2> DEFINE one == {main}
             two == one \cup {diskMain}
  <2>1. IsFiniteSet({}) /\ Cardinality({}) = 0
    BY FS_EmptySet
  <2>2. IsFiniteSet(one) /\ Cardinality(one) = 1
    BY FS_Singleton
  <2>3. IsFiniteSet(two) /\ Cardinality(two) <= 2 /\ Cardinality(two) \in Nat
    <3> HIDE DEF one
    <3>1. /\ IsFiniteSet(two)
          /\ Cardinality(two) =
               IF diskMain \in one THEN Cardinality(one) ELSE Cardinality(one) + 1
      BY <2>2, FS_AddElement
    <3> QED
      BY <2>2, <3>1
  <2>4. names = two \cup {diskTmp}
    OBVIOUS
  <2> HIDE DEF two, names
  <2>5. /\ IsFiniteSet(names)
        /\ Cardinality(names) =
             IF diskTmp \in two THEN Cardinality(two) ELSE Cardinality(two) + 1
    BY <2>3, <2>4, FS_AddElement
  <2> QED
    BY <2>3, <2>5
<1>3. Inodes \ used # {}
  <2> SUFFICES ASSUME Inodes \subseteq names \cup Fds PROVE FALSE
    BY InodesAssumption
  <2> HIDE DEF names, Fds
  <2> DEFINE others == names \cup Fds
  <2>1. /\ IsFiniteSet(others) /\ Cardinality(others) \in Nat
        /\ Cardinality(others) <= Cardinality(names) + Cardinality(Fds)
    <3>1. /\ IsFiniteSet(others)
          /\ Cardinality(others) = Cardinality(names) + Cardinality(Fds) - Cardinality(names \cap Fds)
      BY <1>1, <1>2, FS_Union
    <3>2. IsFiniteSet(names \cap Fds)
      BY <1>1, FS_Subset
    <3>3. Cardinality(others) \in Nat /\ Cardinality(names \cap Fds) \in Nat /\ Cardinality(Fds) \in Nat
      BY <1>1, <3>1, <3>2, FS_CardinalityType
    <3> DEFINE a == Cardinality(names)
               b == Cardinality(Fds)
               c == Cardinality(names \cap Fds)
               d == Cardinality(others)
    <3>4. a \in Nat /\ b \in Nat /\ c \in Nat /\ d = a + b - c
      BY <1>2, <3>1, <3>3
    <3>5. d <= a + b
      <4> HIDE DEF a, b, c, d
      <4> QED
        BY <3>4
    <3> QED
      BY <3>1, <3>3, <3>5
  <2> HIDE DEF others
  <2>2. Cardinality(Inodes) <= Cardinality(others)
    BY <2>1, FS_Subset DEF others
  <2>3. Cardinality(Procs) \in Nat /\ Cardinality(Inodes) \in Nat /\ Cardinality(Fds) \in Nat
    BY <1>1, InodesAssumption, FS_CardinalityType
  <2> QED
    BY <1>1, <1>2, <2>1, <2>2, <2>3, InodesAssumption
<1>4. Inodes \ used \subseteq FreeInodes
  BY DEF FreeInodes
<1>5. FreeInodes # {}
  BY <1>3, <1>4
<1> QED
  BY <1>5

-------------------------------------------------------------------------------
(***************************************************************************)
(* Processes.                                                              *)
(***************************************************************************)
PCs == {"idle", "open", "read", "create", "write", "rename"}

ProcState ==
  [pc : PCs, cmd : Commands, queue : Seq(TodoType), fd : Inodes \cup {None}, offset : Nat]

\* A process has a file open exactly while it reads or writes.
FdOK(state) == state.pc \in {"read", "write"} <=> state.fd # None

LEMMA ProcFields ==
  ASSUME TypeOK, NEW p \in Procs
  PROVE  /\ proc[p] \in ProcState /\ FdOK(proc[p])
         /\ proc[p].pc \in PCs /\ proc[p].cmd \in Commands
         /\ proc[p].queue \in Seq(TodoType)
         /\ proc[p].fd \in Inodes \cup {None} /\ proc[p].offset \in Nat
<1>1. proc[p] \in ProcState
  BY DEF TypeOK, ProcState, PCs
<1> QED
  BY <1>1 DEF TypeOK, ProcState, FdOK

LEMMA ProcessType ==
  ASSUME NEW pc \in PCs, NEW cmd \in Commands, NEW queue \in Seq(TodoType),
         NEW fd \in Inodes \cup {None}, NEW offset \in Nat
  PROVE  Process(pc, cmd, queue, fd, offset) \in ProcState
BY DEF Process, ProcState

LEMMA IdleType ==
  /\ Idle \in ProcState /\ FdOK(Idle)
  /\ Idle.pc = "idle" /\ Idle.queue = <<>> /\ Consecutive(Idle.queue)
<1>1. NoCommand \in Commands
  BY DEF NoCommand, Commands
<1>2. <<>> \in Seq(TodoType) /\ "idle" \in PCs /\ None \in Inodes \cup {None} /\ 0 \in Nat
  BY DEF PCs
<1>3. Idle \in ProcState
  BY <1>1, <1>2, ProcessType DEF Idle
<1>4. Idle.pc = "idle" /\ Idle.queue = <<>> /\ Idle.fd = None
  BY DEF Idle, Process
<1>5. Consecutive(<<>>)
  BY DEF Consecutive
<1> QED
  BY <1>3, <1>4, <1>5 DEF FdOK

\* One process changes its state.
LEMMA ProcChange ==
  ASSUME TypeOK, NEW p \in Procs, NEW new \in ProcState, FdOK(new),
         proc' = [proc EXCEPT ![p] = new]
  PROVE  /\ proc' \in [Procs -> ProcState]
         /\ proc'[p] = new
         /\ \A q \in Procs : q # p => proc'[q] = proc[q]
         /\ \A q \in Procs : FdOK(proc'[q])
<1>1. proc \in [Procs -> ProcState]
  BY DEF TypeOK, ProcState, PCs
<1> QED
  BY <1>1, ProcFields

\* A step that touches no file and takes a process to no save.
LEMMA ProcStep ==
  ASSUME Inv, NEW p \in Procs, NEW new \in ProcState, FdOK(new),
         proc' = [proc EXCEPT ![p] = new],
         new.pc \in {"idle", "open", "read", "create"},
         UNCHANGED <<files, disk, saved, held, overlapped>>,
         runs' \in 0 .. MaxRuns,
         stale' \in {stale, stale \ {p}},
         new.pc = "open" => main # None,
         new.pc = "create" => new.offset = 0,
         ~ overlapped => Consecutive(new.queue),
         ~ overlapped /\ new.pc = "read" => Whole(content[new.fd]) /\ new.fd # tmp,
         ~ overlapped /\ p \notin stale' /\ new.pc = "read" => new.fd = main,
         ~ overlapped /\ p \notin stale' /\ new.pc = "create" =>
           Saves(new.cmd, FileQueue) /\ new.queue = Changed(new.cmd, FileQueue)
  PROVE  Inv'
<1>1. /\ proc' \in [Procs -> ProcState]
      /\ proc'[p] = new
      /\ \A q \in Procs : q # p => proc'[q] = proc[q]
      /\ \A q \in Procs : FdOK(proc'[q])
  BY ProcChange DEF Inv
<1>2. /\ main' = main /\ tmp' = tmp /\ content' = content
      /\ diskMain' = diskMain /\ diskTmp' = diskTmp /\ diskContent' = diskContent
      /\ saved' = saved /\ held' = held /\ overlapped' = overlapped
      /\ stale' \subseteq stale /\ \A q \in Procs \ {p} : q \in stale' <=> q \in stale
  BY DEF files, disk
<1>3. FileQueue' = FileQueue /\ DiskQueue' = DiskQueue
  BY <1>2 DEF FileQueue, DiskQueue
<1>4. TypeOK'
  BY <1>1, <1>2 DEF Inv, TypeOK, ProcState, PCs, FdOK
<1>5. OpenNeverFails'
  BY <1>1, <1>2 DEF Inv, OpenNeverFails
<1>6. Offsets'
  BY <1>1 DEF Inv, Offsets
<1>7. ASSUME ~ overlapped PROVE Safe'
  <2>1. Safe
    BY <1>7 DEF Inv
  <2>2. ~ Saving(p)' /\ \A q \in Procs : Saving(q)' => q # p /\ Saving(q)
    BY <1>1 DEF Saving
  <2>3. OneSaver'
    BY <2>1, <2>2 DEF Safe, OneSaver
  <2>4. Apart'
    BY <1>1, <1>2, <1>7, <2>1 DEF Safe, Apart
  <2>5. FilesWhole'
    BY <1>1, <1>2, <1>7, <2>1 DEF Safe, FilesWhole, Whole
  <2>6. SaverOwnsTmp'
    BY <1>1, <1>2, <2>1, <2>2 DEF Safe, SaverOwnsTmp, Saving
  <2>7. Numbered'
    BY <1>1, <1>2, <1>7, <2>1 DEF Safe, Numbered
  <2>8. Isolated'
    BY <1>1, <1>2, <1>3, <1>7, <2>1 DEF Safe, Isolated
  <2>9. Remembered'
    BY <1>2, <1>3, <2>1 DEF Safe, Remembered
  <2> QED
    BY <2>3, <2>4, <2>5, <2>6, <2>7, <2>8, <2>9 DEF Safe
<1>8. Alone'
  BY <1>2 DEF Inv, Alone
<1> QED
  BY <1>2, <1>4, <1>5, <1>6, <1>7, <1>8 DEF Inv

\* What a command is about to do once it has its queue.
LEMMA RunFacts ==
  ASSUME NEW cmd \in Commands, NEW queue \in Seq(TodoType),
         NEW new, new = IF Saves(cmd, queue)
                        THEN Process("create", cmd, Changed(cmd, queue), None, 0)
                        ELSE Idle
  PROVE  /\ new \in ProcState /\ FdOK(new)
         /\ new.pc \in {"idle", "create"}
         /\ new.pc = "create" =>
              /\ new.offset = 0
              /\ Saves(cmd, queue) /\ new.cmd = cmd /\ new.queue = Changed(cmd, queue)
         /\ Consecutive(queue) => Consecutive(new.queue)
<1>1. CASE Saves(cmd, queue)
  <2> DEFINE after == Changed(cmd, queue)
  <2>1. after \in Seq(TodoType) /\ (Consecutive(queue) => Consecutive(after))
    BY <1>1, ChangedFacts
  <2>2. new = Process("create", cmd, after, None, 0)
    BY <1>1
  <2> HIDE DEF after
  <2>3. new \in ProcState
    BY <2>1, <2>2, ProcessType DEF PCs
  <2>4. /\ new.pc = "create" /\ new.offset = 0 /\ new.cmd = cmd
        /\ new.queue = after /\ new.fd = None
    BY <2>2 DEF Process
  <2> QED
    BY <1>1, <2>1, <2>3, <2>4 DEF FdOK, after
<1>2. CASE ~ Saves(cmd, queue)
  BY <1>2, IdleType
<1> QED
  BY <1>1, <1>2

\* The list in the file, as it is loaded from a whole file or from none.
LEMMA FileQueueFacts ==
  ASSUME Inv
  PROVE  /\ FileQueue \in Seq(TodoType)
         /\ ~ overlapped => Consecutive(FileQueue)
<1>1. CASE main = None \/ content[main] = <<>>
  BY <1>1 DEF FileQueue, Consecutive
<1>2. CASE main # None /\ content[main] # <<>>
  <2>1. content[main] \in Seq(TodoType) /\ FileQueue = Tail(content[main])
    BY <1>2 DEF Inv, TypeOK, FileQueue, Decoded
  <2>2. FileQueue \in Seq(TodoType)
    BY <1>2, <2>1, HeadTailProperties
  <2>3. ASSUME ~ overlapped PROVE Consecutive(FileQueue)
    <3>1. FileQueue \in saved
      BY <1>2, <2>1, <2>3 DEF Inv, Safe, FilesWhole, Whole, Decoded
    <3> QED
      BY <2>3, <3>1 DEF Inv, Safe, Numbered
  <2> QED
    BY <2>2, <2>3
<1> QED
  BY <1>1, <1>2

-------------------------------------------------------------------------------
(***************************************************************************)
(* The system calls of the tool.                                           *)
(***************************************************************************)
LEMMA InvInit == Init => Inv
<1> SUFFICES ASSUME Init PROVE Inv
  OBVIOUS
<1>1. proc = [p \in Procs |-> Idle] /\ Idle \in ProcState /\ FdOK(Idle)
  BY IdleType DEF Init
<1>2. \A p \in Procs : proc[p].pc = "idle" /\ proc[p].queue = <<>> /\ FdOK(proc[p])
  BY <1>1, IdleType
<1>3. Consecutive(<<>>)
  BY DEF Consecutive
<1>4. <<>> \in Seq(TodoType) /\ 0 \in 0 .. MaxRuns
  BY MaxRunsAssumption
<1>5. proc \in [Procs -> ProcState]
  BY <1>1
<1>6. TypeOK
  BY <1>2, <1>4, <1>5 DEF Init, TypeOK, ProcState, PCs, FdOK
<1>7. Safe
  BY <1>2, <1>3
  DEF Init, Safe, OneSaver, Apart, FilesWhole, SaverOwnsTmp, Numbered, Isolated, Remembered,
      Saving, FileQueue, DiskQueue
<1> QED
  BY <1>2, <1>6, <1>7 DEF Init, Inv, OpenNeverFails, Offsets, Alone

\* A command goes on with the queue that it found.
LEMMA RunStep ==
  ASSUME Inv, NEW p \in Procs, NEW cmd \in Commands, NEW queue \in Seq(TodoType),
         Run(p, cmd, queue),
         UNCHANGED <<files, disk, saved, held, overlapped>>,
         runs' \in 0 .. MaxRuns,
         stale' \in {stale, stale \ {p}},
         ~ overlapped => Consecutive(queue),
         ~ overlapped /\ p \notin stale' => queue = FileQueue
  PROVE  Inv'
<1> DEFINE new == IF Saves(cmd, queue)
                  THEN Process("create", cmd, Changed(cmd, queue), None, 0) ELSE Idle
<1>1. proc' = [proc EXCEPT ![p] = new]
  BY DEF Run
<1>2. /\ new \in ProcState /\ FdOK(new)
      /\ new.pc \in {"idle", "create"}
      /\ new.pc = "create" =>
           /\ new.offset = 0
           /\ Saves(cmd, queue) /\ new.cmd = cmd /\ new.queue = Changed(cmd, queue)
      /\ Consecutive(queue) => Consecutive(new.queue)
  <2> HIDE DEF new
  <2>1. new = IF Saves(cmd, queue)
              THEN Process("create", cmd, Changed(cmd, queue), None, 0) ELSE Idle
    BY DEF new
  <2> QED
    BY <2>1, RunFacts
<1> HIDE DEF new
<1> QED
  BY <1>1, <1>2, ProcStep

LEMMA StartMissingStep ==
  ASSUME Inv, NEW p \in Procs, NEW cmd \in Commands, StartMissing(p, cmd)
  PROVE  Inv'
<1> DEFINE empty == <<>>
<1>1. /\ main = None /\ runs < MaxRuns /\ runs' = runs + 1
      /\ Run(p, cmd, empty) /\ stale' = stale \ {p}
      /\ UNCHANGED <<files, disk, saved, held, overlapped>>
  BY DEF StartMissing
<1>2. empty \in Seq(TodoType) /\ FileQueue = empty /\ Consecutive(empty)
  BY <1>1 DEF FileQueue, Consecutive
<1>3. runs' \in 0 .. MaxRuns
  BY <1>1, MaxRunsAssumption DEF Inv, TypeOK
<1> HIDE DEF empty
<1> QED
  BY <1>1, <1>2, <1>3, RunStep

LEMMA StartExistsStep ==
  ASSUME Inv, NEW p \in Procs, NEW cmd \in Commands, StartExists(p, cmd)
  PROVE  Inv'
<1> DEFINE new == Process("open", cmd, <<>>, None, 0)
<1>1. /\ main # None /\ runs < MaxRuns /\ runs' = runs + 1
      /\ proc' = [proc EXCEPT ![p] = new] /\ stale' = stale
      /\ UNCHANGED <<files, disk, saved, held, overlapped>>
  BY DEF StartExists, ghost
<1>2. <<>> \in Seq(TodoType) /\ Consecutive(<<>>)
  BY DEF Consecutive
<1>3. /\ new \in ProcState /\ FdOK(new)
      /\ new.pc = "open" /\ new.queue = <<>>
  <2>1. new \in ProcState
    BY <1>2, ProcessType DEF PCs
  <2> QED
    BY <2>1 DEF Process, FdOK
<1> HIDE DEF new
<1>4. runs' \in 0 .. MaxRuns
  BY <1>1, MaxRunsAssumption DEF Inv, TypeOK
<1> QED
  BY <1>1, <1>2, <1>3, <1>4, ProcStep

LEMMA OpenStep ==
  ASSUME Inv, NEW p \in Procs, Open(p)
  PROVE  Inv'
<1> DEFINE new == [proc[p] EXCEPT !.pc = "read", !.fd = main]
<1>1. /\ proc[p].pc = "open" /\ main # None
      /\ proc' = [proc EXCEPT ![p].pc = "read", ![p].fd = main] /\ stale' = stale \ {p}
      /\ UNCHANGED <<files, disk, runs, saved, held, overlapped>>
  BY DEF Open
<1>2. /\ proc[p] \in ProcState /\ main \in Inodes /\ runs \in 0 .. MaxRuns
      /\ proc \in [Procs -> ProcState]
  BY <1>1, ProcFields DEF Inv, TypeOK, ProcState, PCs
<1>3. proc' = [proc EXCEPT ![p] = new]
  BY <1>1, <1>2
<1>4. /\ new \in ProcState /\ FdOK(new)
      /\ new.pc = "read" /\ new.fd = main /\ new.queue = proc[p].queue
  BY <1>1, <1>2, InodesAssumption DEF ProcState, PCs, FdOK
<1> HIDE DEF new
<1>5. ~ overlapped => Consecutive(new.queue) /\ Whole(content[new.fd]) /\ new.fd # tmp
  BY <1>1, <1>4 DEF Inv, Safe, Numbered, FilesWhole, Apart
<1> QED
  BY <1>1, <1>2, <1>3, <1>4, <1>5, ProcStep

LEMMA ReadStep ==
  ASSUME Inv, NEW p \in Procs, Read(p)
  PROVE  Inv'
<1> DEFINE units == content[proc[p].fd]
           cmd == proc[p].cmd
<1>1. /\ proc[p].pc = "read"
      /\ UNCHANGED <<files, disk, saved, held, overlapped>>
      /\ runs' = runs /\ stale' = stale
  BY DEF Read, ghost
<1>2. /\ cmd \in Commands /\ proc[p].fd \in Inodes /\ runs \in 0 .. MaxRuns
      /\ units \in Seq(TodoType)
  BY <1>1, ProcFields DEF Inv, TypeOK
<1>3. ~ overlapped /\ p \notin stale => proc[p].fd = main /\ main # None
  BY <1>1, <1>2, InodesAssumption DEF Inv, Safe, Isolated
<1>4. ~ overlapped => Whole(units)
  BY <1>1 DEF Inv, Safe, FilesWhole
<1>5. CASE units = <<>> /\ Run(p, cmd, <<>>)
  <2> DEFINE empty == <<>>
  <2>1. empty \in Seq(TodoType) /\ Consecutive(empty) /\ Run(p, cmd, empty)
    BY <1>5 DEF Consecutive
  <2>2. ~ overlapped /\ p \notin stale => FileQueue = empty
    BY <1>3, <1>5 DEF FileQueue
  <2> HIDE DEF cmd, units, empty
  <2> QED
    BY <1>1, <1>2, <2>1, <2>2, RunStep
<1>6. CASE Decodes(units) /\ Run(p, cmd, Decoded(units))
  <2> DEFINE queue == Decoded(units)
  <2>1. units # <<>> /\ Run(p, cmd, queue)
    BY <1>6 DEF Decodes
  <2>2. queue \in Seq(TodoType)
    <3> HIDE DEF units
    <3> QED
      BY <1>2, <2>1, HeadTailProperties DEF Decoded
  <2>3. ~ overlapped => Consecutive(queue)
    <3> HIDE DEF units
    <3> QED
      BY <1>4 DEF Inv, Safe, Numbered, Whole
  <2>4. ~ overlapped /\ p \notin stale => FileQueue = queue
    BY <1>3, <2>1 DEF FileQueue
  <2> HIDE DEF cmd, units, queue
  <2> QED
    BY <1>1, <1>2, <2>1, <2>2, <2>3, <2>4, RunStep
<1>7. CASE proc' = [proc EXCEPT ![p] = Idle]
  BY <1>1, <1>2, <1>7, IdleType, ProcStep
<1> QED
  BY <1>5, <1>6, <1>7 DEF Read

LEMMA KillStep ==
  ASSUME Inv, NEW p \in Procs, Kill(p)
  PROVE  Inv'
<1>1. /\ proc' = [proc EXCEPT ![p] = Idle]
      /\ UNCHANGED <<files, disk, saved, held, overlapped>>
      /\ runs' = runs /\ stale' = stale /\ runs \in 0 .. MaxRuns
  BY DEF Kill, ghost, Inv, TypeOK
<1> QED
  BY <1>1, IdleType, ProcStep

\* The queue in the file is a matter of the file alone.
LEMMA QueuesSame ==
  ASSUME UNCHANGED <<main, disk>>, main # None => content'[main] = content[main]
  PROVE  FileQueue' = FileQueue /\ DiskQueue' = DiskQueue
BY DEF disk, FileQueue, DiskQueue

\* Without overlapping saves nothing but a save uses the file that it opens.
LEMMA OpenedForSave ==
  ASSUME Inv, NEW inode, inode = IF tmp # None THEN tmp ELSE CHOOSE i \in FreeInodes : TRUE
  PROVE  /\ inode \in Inodes
         /\ ~ overlapped =>
              /\ inode # main /\ inode # diskMain
              /\ \A q \in Procs : proc[q].pc = "read" => proc[q].fd # inode
<1>1. CASE tmp # None
  BY <1>1 DEF Inv, TypeOK, Safe, Apart
<1>2. CASE tmp = None
  <2>1. inode \in FreeInodes
    BY <1>2, FreeInodeExists DEF Inv
  <2> QED
    BY <2>1 DEF FreeInodes
<1> QED
  BY <1>1, <1>2

LEMMA CreateTmpStep ==
  ASSUME Inv, NEW p \in Procs, CreateTmp(p)
  PROVE  Inv'
<1> DEFINE inode == IF tmp # None THEN tmp ELSE CHOOSE i \in FreeInodes : TRUE
           new == [proc[p] EXCEPT !.pc = "write", !.fd = inode]
<1>1. /\ proc[p].pc = "create" /\ tmp' = inode
      /\ content' = [content EXCEPT ![inode] = <<>>]
      /\ proc' = [proc EXCEPT ![p].pc = "write", ![p].fd = inode]
      /\ saved' = saved \cup {proc[p].queue}
      /\ overlapped' = (overlapped \/ \E other \in Procs : Saving(other))
      /\ UNCHANGED <<main, disk, runs, held, stale>>
  BY DEF CreateTmp
<1>2. TypeOK /\ proc \in [Procs -> ProcState] /\ proc[p] \in ProcState
  BY ProcFields DEF Inv, TypeOK, ProcState, PCs
<1>3. /\ inode \in Inodes
      /\ ~ overlapped =>
           /\ inode # main /\ inode # diskMain
           /\ \A q \in Procs : proc[q].pc = "read" => proc[q].fd # inode
  BY OpenedForSave
<1> HIDE DEF inode
<1>4. proc' = [proc EXCEPT ![p] = new]
  BY <1>1, <1>2
<1>5. /\ new \in ProcState /\ FdOK(new)
      /\ new.pc = "write" /\ new.fd = inode
      /\ new.queue = proc[p].queue /\ new.cmd = proc[p].cmd /\ new.offset = proc[p].offset
  BY <1>2, <1>3, InodesAssumption DEF ProcState, PCs, FdOK
<1> HIDE DEF new
<1>6. /\ proc' \in [Procs -> ProcState]
      /\ proc'[p] = new
      /\ \A q \in Procs : q # p => proc'[q] = proc[q]
      /\ \A q \in Procs : FdOK(proc'[q])
  BY <1>2, <1>4, <1>5, ProcChange
<1>7. new.offset = 0 /\ proc[p].queue \in Seq(TodoType) /\ Len(proc[p].queue) \in Nat
  BY <1>1, <1>2, <1>5, ProcFields, LenProperties DEF Inv, Offsets
<1>8. content'[inode] = <<>> /\ \A i \in Inodes : i # inode => content'[i] = content[i]
  BY <1>1, <1>2, <1>3 DEF TypeOK
<1>9. TypeOK'
  <2>1. <<>> \in Seq(TodoType)
    OBVIOUS
  <2>2. content' \in [Inodes -> Seq(TodoType)]
    BY <1>1, <1>2, <2>1 DEF TypeOK
  <2>3. /\ {main', tmp', diskMain', diskTmp'} \subseteq Inodes \cup {None}
        /\ diskContent' \in [Inodes -> Seq(TodoType)]
        /\ runs' \in 0 .. MaxRuns /\ overlapped' \in BOOLEAN /\ stale' \subseteq Procs
    BY <1>1, <1>2, <1>3 DEF TypeOK, disk
  <2>4. saved' \cup held' \subseteq Seq(TodoType)
    BY <1>1, <1>2, <1>7 DEF TypeOK
  <2> QED
    BY <1>6, <2>2, <2>3, <2>4 DEF TypeOK, ProcState, PCs, FdOK
<1>10. OpenNeverFails'
  BY <1>1, <1>5, <1>6 DEF Inv, OpenNeverFails
<1>11. Offsets'
  BY <1>5, <1>6, <1>7 DEF Inv, Offsets
<1>12. ASSUME ~ overlapped' PROVE Safe'
  <2>1. ~ overlapped /\ Safe /\ \A q \in Procs : ~ Saving(q)
    BY <1>1, <1>12 DEF Inv
  <2>2. \A q \in Procs : Saving(q)' => q = p
    BY <1>6, <2>1 DEF Saving
  <2>3. FileQueue' = FileQueue /\ DiskQueue' = DiskQueue
    BY <1>1, <1>2, <1>3, <1>8, <2>1, QueuesSame DEF TypeOK
  <2>4. OneSaver'
    BY <2>2 DEF OneSaver
  <2>5. Apart'
    BY <1>1, <1>3, <1>5, <1>6, <2>1 DEF Safe, Apart, disk
  <2>6. FilesWhole'
    <3>1. main # None => Whole(content[main])'
      BY <1>1, <1>2, <1>3, <1>8, <2>1 DEF TypeOK, Safe, FilesWhole, Whole
    <3>2. diskMain # None => Whole(diskContent[diskMain])'
      BY <1>1, <2>1 DEF Safe, FilesWhole, Whole, disk
    <3>3. ASSUME NEW q \in Procs, proc'[q].pc = "read"
          PROVE  Whole(content[proc[q].fd])'
      <4>1. q # p /\ proc'[q] = proc[q] /\ proc[q].fd \in Inodes
        BY <1>2, <1>5, <1>6, <3>3, ProcFields, InodesAssumption DEF TypeOK
      <4>2. content'[proc'[q].fd] = content[proc[q].fd]
        BY <1>3, <1>8, <2>1, <3>3, <4>1
      <4> QED
        BY <1>1, <2>1, <3>3, <4>1, <4>2 DEF Safe, FilesWhole, Whole
    <3> QED
      BY <1>1, <3>1, <3>2, <3>3 DEF FilesWhole, disk
  <2>7. SaverOwnsTmp'
    <3>1. Written(<<>>, proc[p].queue, 0)
      BY DEF Written
    <3>2. inode # None /\ proc[p].queue \in saved'
      BY <1>1, <1>3, InodesAssumption
    <3> QED
      BY <1>1, <1>5, <1>6, <1>7, <1>8, <2>2, <3>1, <3>2 DEF SaverOwnsTmp, Saving
  <2>8. Numbered'
    BY <1>1, <1>5, <1>6, <2>1 DEF Safe, Numbered
  <2>9. Isolated'
    BY <1>1, <1>5, <1>6, <2>1, <2>3 DEF Safe, Isolated
  <2>10. Remembered'
    BY <1>1, <2>1, <2>3 DEF Safe, Remembered
  <2> QED
    BY <2>4, <2>5, <2>6, <2>7, <2>8, <2>9, <2>10 DEF Safe
<1>13. Alone'
  BY <1>1 DEF Inv, Alone, Saving
<1> QED
  BY <1>9, <1>10, <1>11, <1>12, <1>13 DEF Inv

\* A save writes on where it stopped.
LEMMA WriteOn ==
  ASSUME NEW units \in Seq(TodoType), NEW queue \in Seq(TodoType),
         NEW n \in Nat, n <= Len(queue), Written(units, queue, n)
  PROVE  Written(WriteAt(units, n + 1, Encoding(queue)[n + 1]), queue, n + 1)
<1> DEFINE e == Encoding(queue)
           k == n + 1
           unit == e[k]
           new == WriteAt(units, k, unit)
<1>1. k \in Nat \ {0} /\ k \in 1 .. Len(queue) + 1
  BY LenProperties
<1>2. unit \in TodoType
  BY <1>1, EncodingFacts
<1>3. Len(units) = n /\ \A i \in 1 .. n : units[i] = e[i]
  BY DEF Written
<1>4. /\ Len(new) = k /\ new[k] = unit
      /\ \A i \in 1 .. n : new[i] = units[i]
  <2> HIDE DEF unit, e, k
  <2>1. k = Len(units) + 1
    BY <1>3 DEF k
  <2>2. k \in Nat \ {0}
    BY <1>1
  <2>3. /\ Len(new) = k /\ new[k] = unit
        /\ \A i \in 1 .. Len(units) : new[i] = units[i]
    BY <1>2, <2>1, <2>2, WriteAtFacts
  <2> QED
    BY <1>3, <2>3
<1> HIDE DEF e
<1>5. \A i \in 1 .. k : i = k \/ i \in 1 .. n
  OBVIOUS
<1> HIDE DEF new
<1>6. Len(new) = k /\ \A i \in 1 .. k : new[i] = e[i]
  BY <1>3, <1>4, <1>5
<1> QED
  BY <1>6 DEF Written, e, new

LEMMA WriteStep ==
  ASSUME Inv, NEW p \in Procs, Write(p)
  PROVE  Inv'
<1> DEFINE queue == proc[p].queue
           fd == proc[p].fd
           units == Encoding(queue)
           k == proc[p].offset + 1
           written == WriteAt(content[fd], k, units[k])
           new == IF k < Len(units) THEN [proc[p] EXCEPT !.offset = k]
                  ELSE Process("rename", proc[p].cmd, queue, None, 0)
<1>1. /\ proc[p].pc = "write"
      /\ content' = [content EXCEPT ![fd] = written]
      /\ proc' = [proc EXCEPT ![p] = new]
      /\ UNCHANGED <<main, tmp, disk, runs, saved, held, overlapped, stale>>
  <2>1. TypeOK
    BY DEF Inv
  <2> QED
    BY <2>1 DEF Write, ghost, TypeOK
<1>2. TypeOK /\ proc \in [Procs -> ProcState] /\ proc[p] \in ProcState
  BY ProcFields DEF Inv, TypeOK, ProcState, PCs
<1>3. /\ queue \in Seq(TodoType) /\ Len(queue) \in Nat
      /\ fd \in Inodes /\ content[fd] \in Seq(TodoType)
      /\ k \in Nat \ {0} /\ k <= Len(queue) + 1
  <2>1. queue \in Seq(TodoType) /\ proc[p].offset \in Nat /\ fd \in Inodes
    BY <1>1, <1>2, ProcFields DEF TypeOK
  <2>2. proc[p].offset <= Len(queue) /\ Len(queue) \in Nat
    BY <1>1, <2>1, LenProperties DEF Inv, Offsets
  <2> QED
    BY <1>2, <2>1, <2>2 DEF TypeOK
<1>4. Len(units) = Len(queue) + 1 /\ units[k] \in TodoType
  <2> HIDE DEF k, queue
  <2>1. k \in 1 .. Len(queue) + 1
    BY <1>3
  <2> QED
    BY <1>3, <2>1, EncodingFacts
<1>5. written \in Seq(TodoType)
  BY <1>3, <1>4, WriteAtFacts
<1>6. /\ new \in ProcState /\ FdOK(new)
      /\ new.pc \in {"write", "rename"}
      /\ new.queue = queue /\ new.cmd = proc[p].cmd
      /\ new.pc = "write" => new.offset = k /\ k <= Len(queue) /\ new.fd = fd
      /\ new.pc = "rename" => k = Len(queue) + 1
  <2>1. CASE k < Len(units)
    <3>1. new = [proc[p] EXCEPT !.offset = k]
      BY <2>1
    <3>2. FdOK(proc[p]) /\ k <= Len(queue)
      BY <1>2, <1>3, <1>4, <2>1, ProcFields
    <3> HIDE DEF new, k
    <3> QED
      BY <1>1, <1>2, <1>3, <3>1, <3>2 DEF ProcState, FdOK
  <2>2. CASE ~ (k < Len(units))
    <3>1. new = Process("rename", proc[p].cmd, queue, None, 0) /\ k = Len(queue) + 1
      BY <1>3, <1>4, <2>2
    <3> DEFINE cmd == proc[p].cmd
    <3>2. cmd \in Commands /\ None \in Inodes \cup {None} /\ 0 \in Nat /\ "rename" \in PCs
      BY <1>2, ProcFields DEF PCs
    <3> HIDE DEF new, k, queue, fd, cmd
    <3>3. new = Process("rename", cmd, queue, None, 0)
      BY <3>1 DEF cmd
    <3>4. new \in ProcState
      BY <1>3, <3>2, <3>3, ProcessType
    <3> QED
      BY <3>1, <3>3, <3>4 DEF FdOK, Process, cmd
  <2> QED
    BY <2>1, <2>2
<1> HIDE DEF new, written, units
<1>7. /\ proc' \in [Procs -> ProcState]
      /\ proc'[p] = new
      /\ \A q \in Procs : q # p => proc'[q] = proc[q]
      /\ \A q \in Procs : FdOK(proc'[q])
  BY <1>1, <1>2, <1>6, ProcChange
<1>8. content'[fd] = written /\ \A i \in Inodes : i # fd => content'[i] = content[i]
  BY <1>1, <1>2, <1>3 DEF TypeOK
<1>9. TypeOK'
  <2>1. content' \in [Inodes -> Seq(TodoType)]
    BY <1>1, <1>2, <1>5 DEF TypeOK
  <2>2. /\ {main', tmp', diskMain', diskTmp'} \subseteq Inodes \cup {None}
        /\ diskContent' \in [Inodes -> Seq(TodoType)]
        /\ saved' \cup held' \subseteq Seq(TodoType)
        /\ runs' \in 0 .. MaxRuns /\ overlapped' \in BOOLEAN /\ stale' \subseteq Procs
    BY <1>1, <1>2 DEF TypeOK, disk
  <2> QED
    BY <1>7, <2>1, <2>2 DEF TypeOK, ProcState, PCs, FdOK
<1>10. OpenNeverFails'
  BY <1>1, <1>6, <1>7 DEF Inv, OpenNeverFails
<1>11. Offsets'
  BY <1>6, <1>7 DEF Inv, Offsets
<1>12. ASSUME ~ overlapped PROVE Safe'
  <2>1. Safe
    BY <1>12 DEF Inv
  <2>2. \A q \in Procs : Saving(q)' => q = p
    <3>1. \A q \in Procs : Saving(q) => q = p
      BY <1>1, <2>1 DEF Safe, OneSaver, Saving
    <3> QED
      BY <1>7, <3>1 DEF Saving
  <2>3. /\ tmp # None /\ fd = tmp /\ Written(content[tmp], queue, proc[p].offset)
        /\ queue \in saved
    BY <1>1, <2>1 DEF Safe, SaverOwnsTmp, Saving
  <2>4. Written(written, queue, k)
    <3>1. proc[p].offset \in Nat /\ proc[p].offset <= Len(queue)
      BY <1>1, <1>2, ProcFields DEF Inv, Offsets
    <3> QED
      BY <1>3, <2>3, <3>1, WriteOn DEF written, units
  <2>5. /\ fd # main /\ fd # diskMain
        /\ \A q \in Procs : proc[q].pc = "read" => proc[q].fd # fd
    BY <2>1, <2>3 DEF Safe, Apart
  <2>6. FileQueue' = FileQueue /\ DiskQueue' = DiskQueue
    BY <1>1, <1>2, <1>8, <2>5, QueuesSame DEF TypeOK
  <2>7. OneSaver'
    BY <2>2 DEF OneSaver
  <2>8. Apart'
    BY <1>1, <1>6, <1>7, <2>1 DEF Safe, Apart, disk
  <2>9. FilesWhole'
    <3>1. main # None => Whole(content[main])'
      BY <1>1, <1>2, <1>8, <2>1, <2>5 DEF TypeOK, Safe, FilesWhole, Whole
    <3>2. diskMain # None => Whole(diskContent[diskMain])'
      BY <1>1, <2>1 DEF Safe, FilesWhole, Whole, disk
    <3>3. ASSUME NEW q \in Procs, proc'[q].pc = "read"
          PROVE  Whole(content[proc[q].fd])'
      <4>1. q # p /\ proc'[q] = proc[q] /\ proc[q].fd \in Inodes
        BY <1>2, <1>6, <1>7, <3>3, ProcFields, InodesAssumption DEF TypeOK
      <4>2. content'[proc'[q].fd] = content[proc[q].fd]
        BY <1>8, <2>5, <3>3, <4>1
      <4> QED
        BY <1>1, <2>1, <3>3, <4>1, <4>2 DEF Safe, FilesWhole, Whole
    <3> QED
      BY <1>1, <3>1, <3>2, <3>3 DEF FilesWhole, disk
  <2>10. SaverOwnsTmp'
    <3>1. /\ proc'[p].queue = queue /\ content'[tmp] = written /\ tmp' = tmp /\ saved' = saved
          /\ proc'[p].pc = "write" => proc'[p].fd = tmp /\ proc'[p].offset = k
          /\ proc'[p].pc = "rename" => k = Len(queue) + 1
      BY <1>1, <1>6, <1>7, <1>8, <2>3
    <3> HIDE DEF queue, fd, k
    <3> QED
      BY <2>2, <2>3, <2>4, <3>1 DEF SaverOwnsTmp, Saving
  <2>11. Numbered'
    BY <1>1, <1>6, <1>7, <2>1 DEF Safe, Numbered
  <2>12. Isolated'
    BY <1>1, <1>6, <1>7, <2>1, <2>6 DEF Safe, Isolated
  <2>13. Remembered'
    BY <1>1, <2>1, <2>6 DEF Safe, Remembered
  <2> QED
    BY <2>7, <2>8, <2>9, <2>10, <2>11, <2>12, <2>13 DEF Safe
<1>13. Alone'
  BY <1>1 DEF Inv, Alone
<1> QED
  BY <1>1, <1>9, <1>10, <1>11, <1>12, <1>13 DEF Inv

\* Without overlapping saves a rename puts the saver's whole queue in place.
LEMMA RenamePublishes ==
  ASSUME Inv, ~ overlapped, NEW p \in Procs, Rename(p)
  PROVE  /\ tmp # None /\ main' = tmp /\ tmp' = None /\ content' = content
         /\ Whole(content[tmp])
         /\ FileQueue' = proc[p].queue
<1> DEFINE queue == proc[p].queue
           units == content[tmp]
<1>1. proc[p].pc = "rename" /\ content' = content
  BY DEF Rename
<1>2. TypeOK /\ Safe
  BY DEF Inv
<1>3. tmp # None /\ Written(units, queue, Len(queue) + 1) /\ queue \in saved
  BY <1>1, <1>2 DEF Safe, SaverOwnsTmp, Saving
<1>4. main' = tmp /\ tmp' = None
  BY <1>3 DEF Rename
<1>5. queue \in Seq(TodoType) /\ units \in Seq(TodoType)
  BY <1>2, <1>3, ProcFields DEF TypeOK
<1>6. units = Encoding(queue)
  <2> HIDE DEF queue, units
  <2> QED
    BY <1>3, <1>5, WrittenAll
<1>7. Decodes(units) /\ Decoded(units) = queue /\ units # <<>>
  <2> HIDE DEF queue, units
  <2> QED
    BY <1>5, <1>6, EncodingFacts
<1>8. Whole(units)
  BY <1>3, <1>7 DEF Whole
<1>9. FileQueue' = Decoded(content[tmp])
  BY <1>1, <1>3, <1>4, <1>7 DEF FileQueue
<1> QED
  BY <1>1, <1>3, <1>4, <1>7, <1>8, <1>9

LEMMA RenameStep ==
  ASSUME Inv, NEW p \in Procs, Rename(p)
  PROVE  Inv'
<1>1. /\ proc[p].pc = "rename"
      /\ (tmp = None /\ main' = main /\ tmp' = tmp) \/ (tmp # None /\ main' = tmp /\ tmp' = None)
      /\ proc' = [proc EXCEPT ![p] = Idle]
      /\ UNCHANGED <<content, disk, runs, saved, overlapped>>
      /\ held' = held \cup {FileQueue'}
      /\ stale' \in {stale, stale \cup (Loaded \ {p})}
      /\ tmp # None => stale' = stale \cup (Loaded \ {p})
  BY DEF Rename
<1>2. TypeOK
  BY DEF Inv
<1>3. /\ proc' \in [Procs -> ProcState]
      /\ proc'[p] = Idle
      /\ \A q \in Procs : q # p => proc'[q] = proc[q]
      /\ \A q \in Procs : FdOK(proc'[q])
  BY <1>1, <1>2, IdleType, ProcChange
<1>4. FileQueue' \in Seq(TodoType)
  <2>1. CASE main' = None \/ content'[main'] = <<>>
    BY <2>1 DEF FileQueue
  <2>2. CASE main' # None /\ content'[main'] # <<>>
    <3> DEFINE units == content'[main']
    <3>1. FileQueue' = Tail(units)
      BY <2>2 DEF FileQueue, Decoded
    <3>2. units \in Seq(TodoType) /\ units # <<>>
      BY <1>1, <1>2, <2>2 DEF TypeOK
    <3> HIDE DEF units
    <3> QED
      BY <3>1, <3>2, HeadTailProperties
  <2> QED
    BY <2>1, <2>2
<1>5. TypeOK'
  BY <1>1, <1>2, <1>3, <1>4 DEF TypeOK, ProcState, PCs, FdOK, disk, Loaded
<1>6. OpenNeverFails'
  BY <1>1, <1>3, IdleType DEF Inv, OpenNeverFails
<1>7. Offsets'
  BY <1>3, IdleType DEF Inv, Offsets
<1>8. ASSUME ~ overlapped PROVE Safe'
  <2>1. Safe
    BY <1>8 DEF Inv
  <2>2. \A q \in Procs : ~ Saving(q)'
    <3>1. \A q \in Procs : Saving(q) => q = p
      BY <1>1, <2>1 DEF Safe, OneSaver, Saving
    <3> QED
      BY <1>3, <3>1, IdleType DEF Saving
  <2>3. main' = tmp /\ tmp' = None /\ Whole(content[tmp]) /\ tmp # None
    BY <1>8, RenamePublishes
  <2>4. OneSaver'
    BY <2>2 DEF OneSaver
  <2>5. Apart'
    BY <1>1, <2>1, <2>3 DEF Safe, Apart, disk
  <2>6. FilesWhole'
    BY <1>1, <1>3, <2>1, <2>3, IdleType DEF Safe, FilesWhole, Whole, disk
  <2>7. SaverOwnsTmp'
    BY <2>2 DEF SaverOwnsTmp, Saving
  <2>8. Numbered'
    BY <1>1, <1>3, <2>1, IdleType DEF Safe, Numbered
  <2>9. Isolated'
    <3>1. ASSUME NEW q \in Procs \ stale' PROVE proc'[q].pc \in {"idle", "open"}
      BY <1>1, <1>3, <2>3, IdleType DEF Loaded
    <3> QED
      BY <3>1 DEF Isolated
  <2>10. Remembered'
    BY <1>1, <2>1 DEF Safe, Remembered, DiskQueue, disk
  <2> QED
    BY <2>4, <2>5, <2>6, <2>7, <2>8, <2>9, <2>10 DEF Safe
<1>9. Alone'
  BY <1>1 DEF Inv, Alone, Loaded
<1> QED
  BY <1>1, <1>5, <1>6, <1>7, <1>8, <1>9 DEF Inv

-------------------------------------------------------------------------------
(***************************************************************************)
(* The disk.                                                               *)
(***************************************************************************)
LEMMA WriteBackStep ==
  ASSUME Inv, NEW i \in {main, tmp} \ {None}, WriteBack(i)
  PROVE  Inv'
<1>1. /\ diskContent' = [diskContent EXCEPT ![i] = content[i]]
      /\ UNCHANGED <<main, tmp, content, proc, diskMain, diskTmp, runs, saved, held, overlapped, stale>>
  BY DEF WriteBack, files, ghost
<1>2. TypeOK /\ i \in Inodes
  BY DEF Inv, TypeOK
<1>3. /\ diskContent' \in [Inodes -> Seq(TodoType)] /\ diskContent'[i] = content[i]
      /\ \A j \in Inodes : j # i => diskContent'[j] = diskContent[j]
  BY <1>1, <1>2 DEF TypeOK
<1>4. TypeOK'
  BY <1>1, <1>2, <1>3 DEF TypeOK
<1>5. OpenNeverFails' /\ Offsets' /\ Alone'
  BY <1>1 DEF Inv, OpenNeverFails, Offsets, Alone
<1>6. FileQueue' = FileQueue
  BY <1>1 DEF FileQueue
<1>7. ASSUME ~ overlapped PROVE Safe'
  <2>1. Safe
    BY <1>7 DEF Inv
  <2>2. i = diskMain => i = main
    BY <2>1 DEF Safe, Apart
  <2>3. OneSaver' /\ Apart' /\ SaverOwnsTmp' /\ Numbered'
    BY <1>1, <2>1 DEF Safe, OneSaver, Apart, SaverOwnsTmp, Numbered, Saving
  <2>4. diskMain # None => Whole(diskContent[diskMain])'
    BY <1>1, <1>2, <1>3, <2>1, <2>2 DEF TypeOK, Safe, FilesWhole, Whole
  <2>5. FilesWhole'
    BY <1>1, <2>1, <2>4 DEF Safe, FilesWhole, Whole
  <2>6. Isolated'
    BY <1>1, <1>6, <2>1 DEF Safe, Isolated
  <2>7. DiskQueue' \in {DiskQueue, FileQueue}
    BY <1>1, <1>2, <1>3, <2>2 DEF TypeOK, DiskQueue, FileQueue
  <2>8. Remembered'
    BY <1>1, <1>6, <2>1, <2>7 DEF Safe, Remembered
  <2> QED
    BY <2>3, <2>5, <2>6, <2>8 DEF Safe
<1> QED
  BY <1>1, <1>4, <1>5, <1>7 DEF Inv

LEMMA CommitDirectoryStep ==
  ASSUME Inv, CommitDirectory
  PROVE  Inv'
<1>1. /\ main # None => diskContent[main] = content[main]
      /\ diskMain' = main /\ diskTmp' = tmp
      /\ UNCHANGED <<main, tmp, content, proc, diskContent, runs, saved, held, overlapped, stale>>
  BY DEF CommitDirectory, files, ghost
<1>2. TypeOK'
  BY <1>1 DEF Inv, TypeOK
<1>3. OpenNeverFails' /\ Offsets' /\ Alone'
  BY <1>1 DEF Inv, OpenNeverFails, Offsets, Alone
<1>4. FileQueue' = FileQueue /\ DiskQueue' = FileQueue
  BY <1>1 DEF FileQueue, DiskQueue
<1>5. ASSUME ~ overlapped PROVE Safe'
  <2>1. Safe
    BY <1>5 DEF Inv
  <2>2. OneSaver' /\ Apart' /\ FilesWhole'
    BY <1>1, <2>1 DEF Safe, OneSaver, Apart, FilesWhole, Saving, Whole
  <2>3. SaverOwnsTmp' /\ Numbered' /\ Isolated' /\ Remembered'
    BY <1>1, <1>4, <2>1 DEF Safe, SaverOwnsTmp, Numbered, Isolated, Remembered, Saving
  <2> QED
    BY <2>2, <2>3 DEF Safe
<1> QED
  BY <1>1, <1>2, <1>3, <1>5 DEF Inv

LEMMA PowerLossStep ==
  ASSUME Inv, PowerLoss
  PROVE  Inv'
<1>1. /\ main' = diskMain /\ tmp' = diskTmp /\ content' = diskContent
      /\ proc' = [p \in Procs |-> Idle]
      /\ UNCHANGED <<diskMain, diskTmp, diskContent, runs, saved, held, overlapped, stale>>
  BY DEF PowerLoss, disk, ghost
<1>2. \A p \in Procs : proc'[p] = Idle
  BY <1>1
<1>3. proc' \in [Procs -> ProcState] /\ \A p \in Procs : FdOK(proc'[p])
  BY <1>1, IdleType
<1>4. TypeOK'
  BY <1>1, <1>3 DEF Inv, TypeOK, ProcState, PCs, FdOK
<1>5. OpenNeverFails' /\ Offsets' /\ Alone'
  BY <1>1, <1>2, IdleType DEF Inv, OpenNeverFails, Offsets, Alone
<1>6. FileQueue' = DiskQueue /\ DiskQueue' = DiskQueue
  BY <1>1 DEF FileQueue, DiskQueue
<1>7. ASSUME ~ overlapped PROVE Safe'
  <2>1. Safe
    BY <1>7 DEF Inv
  <2>2. OneSaver' /\ SaverOwnsTmp' /\ Isolated'
    BY <1>2, IdleType DEF OneSaver, SaverOwnsTmp, Isolated, Saving
  <2>3. Apart' /\ FilesWhole'
    BY <1>1, <1>2, <2>1, IdleType DEF Safe, Apart, FilesWhole, Whole
  <2>4. Numbered' /\ Remembered'
    BY <1>1, <1>2, <1>6, <2>1, IdleType DEF Safe, Numbered, Remembered
  <2> QED
    BY <2>2, <2>3, <2>4 DEF Safe
<1> QED
  BY <1>1, <1>4, <1>5, <1>7 DEF Inv

-------------------------------------------------------------------------------
(***************************************************************************)
(* The invariant and what follows from it.                                 *)
(***************************************************************************)
LEMMA InvStuttering ==
  ASSUME Inv, UNCHANGED vars
  PROVE  Inv'
<1>1. UNCHANGED <<main, tmp, content, proc, diskMain, diskTmp, diskContent,
                  runs, saved, held, overlapped, stale>>
  BY DEF vars, files, disk, ghost
<1>2. TypeOK' /\ OpenNeverFails' /\ Offsets' /\ Alone'
  BY <1>1 DEF Inv, TypeOK, OpenNeverFails, Offsets, Alone
<1>3. FileQueue' = FileQueue /\ DiskQueue' = DiskQueue
  BY <1>1 DEF FileQueue, DiskQueue
<1>4. ASSUME ~ overlapped PROVE Safe'
  <2>1. Safe
    BY <1>4 DEF Inv
  <2>2. OneSaver' /\ Apart' /\ FilesWhole'
    BY <1>1, <2>1 DEF Safe, OneSaver, Apart, FilesWhole, Saving, Whole
  <2>3. SaverOwnsTmp' /\ Numbered' /\ Isolated' /\ Remembered'
    BY <1>1, <1>3, <2>1 DEF Safe, SaverOwnsTmp, Numbered, Isolated, Remembered, Saving
  <2> QED
    BY <2>2, <2>3 DEF Safe
<1> QED
  BY <1>1, <1>2, <1>4 DEF Inv

LEMMA InvStep == Inv /\ [Next \/ DiskStep]_vars => Inv'
<1> SUFFICES ASSUME Inv, [Next \/ DiskStep]_vars PROVE Inv'
  OBVIOUS
<1>1. ASSUME NEW p \in Procs, ToolStep(p) PROVE Inv'
  <2>1. ASSUME NEW cmd \in Commands, StartMissing(p, cmd) \/ StartExists(p, cmd) PROVE Inv'
    BY <2>1, StartMissingStep, StartExistsStep
  <2>2. CASE Open(p)
    BY <2>2, OpenStep
  <2>3. CASE Read(p)
    BY <2>3, ReadStep
  <2>4. CASE CreateTmp(p)
    BY <2>4, CreateTmpStep
  <2>5. CASE Write(p)
    BY <2>5, WriteStep
  <2>6. CASE Rename(p)
    BY <2>6, RenameStep
  <2> QED
    BY <1>1, <2>1, <2>2, <2>3, <2>4, <2>5, <2>6 DEF ToolStep
<1>2. ASSUME NEW p \in Procs, Kill(p) PROVE Inv'
  BY <1>2, KillStep
<1>3. CASE DiskStep
  BY <1>3, WriteBackStep, CommitDirectoryStep, PowerLossStep DEF DiskStep
<1>4. CASE UNCHANGED vars
  BY <1>4, InvStuttering
<1> QED
  BY <1>1, <1>2, <1>3, <1>4 DEF Next

LEMMA InvHolds == SpecDisk => []Inv
<1>1. Init => Inv
  BY InvInit
<1>2. Inv /\ [Next \/ DiskStep]_vars => Inv'
  BY InvStep
<1> QED
  BY <1>1, <1>2, PTL DEF SpecDisk

\* What holds with a disk that loses power holds without one.
LEMMA WithoutPowerLoss == Spec => SpecDisk
<1>1. [Next]_vars => [Next \/ DiskStep]_vars
  OBVIOUS
<1> QED
  BY <1>1, PTL DEF Spec, SpecDisk

\* Names always refer to files, files and queues hold todos, and a process has
\* a file open exactly while it reads or writes one.
THEOREM TypeCorrect == SpecDisk => []TypeOK
<1>1. Inv => TypeOK
  BY DEF Inv
<1> QED
  BY <1>1, InvHolds, PTL

\* However many processes run, are killed or lose power: as long as no two
\* saves overlapped, the file is a whole encoding of a queue that was saved.
THEOREM WholeWithoutOverlap == SpecDisk => []WholeUnlessOverlapped
<1>1. Inv => WholeUnlessOverlapped
  BY DEF Inv, Safe, FilesWhole, Whole, WholeUnlessOverlapped, MainWhole
<1> QED
  BY <1>1, InvHolds, PTL

\* As long as no two saves overlapped, the temporary file that a save is about
\* to rename is there.
THEOREM RenameSucceeds == SpecDisk => []RenameSucceedsUnlessOverlapped
<1>1. Inv => RenameSucceedsUnlessOverlapped
  BY DEF Inv, Safe, SaverOwnsTmp, RenameSucceedsUnlessOverlapped
<1> QED
  BY <1>1, InvHolds, PTL

\* Overlapping saves or not: a file that load found is there when load opens it.
THEOREM OpenSucceeds == SpecDisk => []OpenNeverFails
<1>1. Inv => OpenNeverFails
  BY DEF Inv
<1> QED
  BY <1>1, InvHolds, PTL

\* As long as no two saves overlapped, the ids in the file are consecutive:
\* max + 1 never gives an id that is taken.
THEOREM IdsStayConsecutive == SpecDisk => []IdsConsecutive
<1>1. Inv => IdsConsecutive
  BY FileQueueFacts DEF IdsConsecutive, Consecutive
<1> QED
  BY <1>1, InvHolds, PTL

\* One process at a time, killed anywhere, and power lost at any time: the file
\* is always whole.
THEOREM OneProcessWhole ==
  ASSUME \A p, q \in Procs : p = q
  PROVE  SpecDisk => []MainWhole
<1>1. Inv => MainWhole
  BY DEF Inv, Alone, Safe, FilesWhole, Whole, MainWhole
<1> QED
  BY <1>1, InvHolds, PTL

-------------------------------------------------------------------------------
(***************************************************************************)
(* Where a queue that is about to be saved comes from.                     *)
(***************************************************************************)
\* Until saves overlap, every run works on a list that the file held, if not on
\* the one that it holds now.
Based ==
  \A p \in Procs :
    /\ proc[p].pc = "read" => Decoded(content[proc[p].fd]) \in held
    /\ proc[p].pc \in {"create", "write", "rename"} =>
         \E list \in held :
           Saves(proc[p].cmd, list) /\ proc[p].queue = Changed(proc[p].cmd, list)

BasedInv == Inv /\ (~ overlapped => Based)

\* It is enough to look at the process that steps, if the files that others
\* read stay as they are.
LEMMA BasedKept ==
  ASSUME Based, NEW p \in Procs, held \subseteq held',
         \A q \in Procs : q # p => proc'[q] = proc[q],
         \A q \in Procs : proc[q].pc = "read" => content'[proc[q].fd] = content[proc[q].fd],
         proc'[p].pc = "read" => Decoded(content'[proc'[p].fd]) \in held,
         proc'[p].pc \in {"create", "write", "rename"} =>
           \E list \in held :
             Saves(proc'[p].cmd, list) /\ proc'[p].queue = Changed(proc'[p].cmd, list)
  PROVE  Based'
<1>1. ASSUME NEW q \in Procs, proc'[q].pc = "read"
      PROVE  Decoded(content'[proc'[q].fd]) \in held'
  BY <1>1 DEF Based
<1>2. ASSUME NEW q \in Procs, proc'[q].pc \in {"create", "write", "rename"}
      PROVE  \E list \in held' :
               Saves(proc'[q].cmd, list) /\ proc'[q].queue = Changed(proc'[q].cmd, list)
  <2>1. CASE q = p
    BY <1>2, <2>1
  <2>2. CASE q # p
    <3>1. PICK list \in held : Saves(proc[q].cmd, list) /\ proc[q].queue = Changed(proc[q].cmd, list)
      BY <1>2, <2>2 DEF Based
    <3>2. list \in held' /\ proc'[q] = proc[q]
      BY <2>2
    <3> QED
      BY <3>1, <3>2
  <2> QED
    BY <2>1, <2>2
<1> QED
  BY <1>1, <1>2 DEF Based

\* A command that has just got its queue is based on it.
LEMMA RunBased ==
  ASSUME Inv, Based, NEW p \in Procs, NEW cmd \in Commands,
         NEW queue \in Seq(TodoType), queue \in held,
         Run(p, cmd, queue), UNCHANGED <<content, held>>
  PROVE  Based'
<1> DEFINE new == IF Saves(cmd, queue)
                  THEN Process("create", cmd, Changed(cmd, queue), None, 0) ELSE Idle
<1>1. proc' = [proc EXCEPT ![p] = new]
  BY DEF Run
<1>2. /\ new \in ProcState /\ FdOK(new)
      /\ new.pc \in {"idle", "create"}
      /\ new.pc = "create" =>
           Saves(cmd, queue) /\ new.cmd = cmd /\ new.queue = Changed(cmd, queue)
  <2> HIDE DEF new
  <2>1. new = IF Saves(cmd, queue)
              THEN Process("create", cmd, Changed(cmd, queue), None, 0) ELSE Idle
    BY DEF new
  <2> QED
    BY <2>1, RunFacts
<1> HIDE DEF new
<1>3. proc'[p] = new /\ \A q \in Procs : q # p => proc'[q] = proc[q]
  BY <1>1, <1>2, ProcChange DEF Inv
<1>4. /\ held \subseteq held'
      /\ \A q \in Procs : proc[q].pc = "read" => content'[proc[q].fd] = content[proc[q].fd]
  OBVIOUS
<1>5. proc'[p].pc # "read" /\ proc'[p].pc \notin {"write", "rename"}
  BY <1>2, <1>3
<1>6. proc'[p].pc = "create" =>
        Saves(proc'[p].cmd, queue) /\ proc'[p].queue = Changed(proc'[p].cmd, queue)
  BY <1>2, <1>3
<1> QED
  BY <1>3, <1>4, <1>5, <1>6, BasedKept

\* A whole file holds a list that the file held, when a run opens it.
LEMMA LoadBased ==
  ASSUME Inv, Based, ~ overlapped, NEW p \in Procs,
         \/ \E cmd \in Commands : StartMissing(p, cmd) \/ StartExists(p, cmd)
         \/ Open(p)
         \/ Read(p)
  PROVE  Based'
<1>1. TypeOK /\ Safe /\ held' = held /\ content' = content
  BY DEF Inv, StartMissing, StartExists, Open, Read, files, ghost
<1>2. \A q \in Procs : proc[q].pc = "read" => content'[proc[q].fd] = content[proc[q].fd]
  BY <1>1
<1>3. ASSUME NEW cmd \in Commands, StartMissing(p, cmd) PROVE Based'
  <2> DEFINE empty == <<>>
  <2>1. Run(p, cmd, empty) /\ empty \in Seq(TodoType) /\ empty \in held
    BY <1>1, <1>3 DEF StartMissing, Safe, Remembered
  <2> HIDE DEF empty
  <2> QED
    BY <1>1, <2>1, RunBased
<1>4. ASSUME NEW cmd \in Commands, StartExists(p, cmd) PROVE Based'
  <2>1. /\ proc' = [proc EXCEPT ![p] = Process("open", cmd, <<>>, None, 0)]
        /\ p \in DOMAIN proc
    BY <1>1, <1>4 DEF StartExists, TypeOK
  <2>2. proc'[p].pc = "open" /\ \A q \in Procs : q # p => proc'[q] = proc[q]
    BY <1>1, <2>1 DEF Process, TypeOK
  <2> QED
    BY <1>1, <1>2, <2>2, BasedKept
<1>5. CASE Open(p)
  <2>1. /\ main # None
        /\ proc' = [proc EXCEPT ![p].pc = "read", ![p].fd = main]
    BY <1>5 DEF Open
  <2>2. /\ proc'[p].pc = "read" /\ proc'[p].fd = main
        /\ \A q \in Procs : q # p => proc'[q] = proc[q]
    <3>1. proc[p] \in ProcState /\ p \in DOMAIN proc
      BY <1>1, ProcFields DEF TypeOK
    <3> QED
      BY <1>1, <2>1, <3>1 DEF ProcState, TypeOK
  <2>3. Decoded(content[main]) \in held
    BY <1>1, <2>1 DEF Safe, FilesWhole, Whole, Decodes, Remembered, FileQueue
  <2> QED
    BY <1>1, <1>2, <2>2, <2>3, BasedKept
<1>6. CASE Read(p)
  <2> DEFINE units == content[proc[p].fd]
             cmd == proc[p].cmd
             queue == Decoded(units)
  <2>1. proc[p].pc = "read" /\ Whole(units) /\ queue \in held
    BY <1>1, <1>6 DEF Read, Safe, FilesWhole, Based
  <2>2. Run(p, cmd, queue)
    BY <1>6, <2>1 DEF Read, Whole, Decodes
  <2>3. cmd \in Commands /\ queue \in Seq(TodoType)
    BY <1>1, <2>1, ProcFields DEF TypeOK
  <2> HIDE DEF cmd, queue
  <2> QED
    BY <1>1, <2>1, <2>2, <2>3, RunBased
<1> QED
  BY <1>3, <1>4, <1>5, <1>6

\* Saving changes no file that a run has loaded or is loading.
LEMMA SaveBased ==
  ASSUME Inv, Based, ~ overlapped, NEW p \in Procs, CreateTmp(p) \/ Write(p)
  PROVE  Based'
<1>1. TypeOK /\ Safe
  BY DEF Inv
<1>2. PICK list \in held : Saves(proc[p].cmd, list) /\ proc[p].queue = Changed(proc[p].cmd, list)
  <2>1. proc[p].pc \in {"create", "write", "rename"}
    BY DEF CreateTmp, Write
  <2> QED
    BY <2>1 DEF Based
<1>3. /\ held' = held
      /\ \A q \in Procs : q # p => proc'[q] = proc[q]
      /\ proc'[p].pc \in {"write", "rename"}
      /\ proc'[p].cmd = proc[p].cmd /\ proc'[p].queue = proc[p].queue
  <2>1. proc[p] \in ProcState /\ p \in DOMAIN proc
    BY <1>1, ProcFields DEF TypeOK
  <2>2. CASE CreateTmp(p)
    <3>1. /\ held' = held
          /\ \E inode : proc' = [proc EXCEPT ![p].pc = "write", ![p].fd = inode]
      BY <2>2 DEF CreateTmp
    <3> QED
      BY <1>1, <2>1, <3>1 DEF ProcState, TypeOK
  <2>3. CASE Write(p)
    <3> DEFINE k == proc[p].offset + 1
               units == Encoding(proc[p].queue)
    <3>1. /\ held' = held /\ proc[p].pc = "write"
          /\ proc' = [proc EXCEPT ![p] =
                        IF k < Len(units) THEN [proc[p] EXCEPT !.offset = k]
                        ELSE Process("rename", proc[p].cmd, proc[p].queue, None, 0)]
      BY <1>1, <2>3 DEF Write, ghost, TypeOK
    <3> HIDE DEF k, units
    <3>2. proc'[p] = IF k < Len(units) THEN [proc[p] EXCEPT !.offset = k]
                     ELSE Process("rename", proc[p].cmd, proc[p].queue, None, 0)
      BY <2>1, <3>1
    <3> QED
      BY <1>1, <2>1, <3>1, <3>2 DEF ProcState, Process, TypeOK
  <2> QED
    BY <2>2, <2>3
<1>4. ASSUME NEW q \in Procs, proc[q].pc = "read"
      PROVE  content'[proc[q].fd] = content[proc[q].fd]
  <2>1. proc[q].fd \in Inodes
    BY <1>1, <1>4, ProcFields DEF TypeOK
  <2>2. \E i, units : content' = [content EXCEPT ![i] = units] /\ proc[q].fd # i
    <3>1. CASE CreateTmp(p)
      <4> DEFINE inode == IF tmp # None THEN tmp ELSE CHOOSE i \in FreeInodes : TRUE
      <4>1. content' = [content EXCEPT ![inode] = <<>>]
        BY <3>1 DEF CreateTmp
      <4>2. proc[q].fd # inode
        BY <1>4, OpenedForSave
      <4> HIDE DEF inode
      <4> QED
        BY <4>1, <4>2
    <3>2. CASE Write(p)
      <4> DEFINE k == proc[p].offset + 1
                 new == WriteAt(content[proc[p].fd], k, Encoding(proc[p].queue)[k])
      <4>1. proc[p].pc = "write" /\ content' = [content EXCEPT ![proc[p].fd] = new]
        BY <1>1, <3>2 DEF Write, TypeOK
      <4>2. proc[q].fd # proc[p].fd
        BY <1>1, <1>4, <4>1 DEF Safe, SaverOwnsTmp, Apart
      <4> HIDE DEF new
      <4> QED
        BY <4>1, <4>2
    <3> QED
      BY <3>1, <3>2
  <2> QED
    BY <1>1, <2>1, <2>2 DEF TypeOK
<1>5. \E old \in held : Saves(proc'[p].cmd, old) /\ proc'[p].queue = Changed(proc'[p].cmd, old)
  BY <1>2, <1>3
<1> QED
  BY <1>3, <1>4, <1>5, BasedKept

\* A run that ends, by itself or killed, leaves the others what they read.
LEMMA EndBased ==
  ASSUME Inv, Based, NEW p \in Procs, Rename(p) \/ Kill(p)
  PROVE  Based'
<1>1. /\ proc' = [proc EXCEPT ![p] = Idle]
      /\ content' = content /\ held \subseteq held'
  BY DEF Rename, Kill, files, ghost
<1>2. proc'[p].pc = "idle" /\ \A q \in Procs : q # p => proc'[q] = proc[q]
  BY <1>1, IdleType DEF Inv, TypeOK
<1> QED
  BY <1>1, <1>2, BasedKept

LEMMA BasedHolds == SpecDisk => []BasedInv
<1>1. Init => BasedInv
  <2>1. Init => Based
    BY IdleType DEF Init, Based
  <2> QED
    BY <2>1, InvInit DEF BasedInv
<1>2. BasedInv /\ [Next \/ DiskStep]_vars => BasedInv'
  <2> SUFFICES ASSUME Inv, ~ overlapped => Based, [Next \/ DiskStep]_vars, ~ overlapped'
               PROVE  Based'
    BY InvStep DEF BasedInv
  <2>1. ASSUME NEW p \in Procs, ToolStep(p) \/ Kill(p) PROVE Based'
    <3>1. ~ overlapped
      BY <2>1 DEF ToolStep, StartMissing, StartExists, Open, Read, CreateTmp, Write, Rename, Kill, ghost
    <3>2. Based
      BY <3>1
    <3> QED
      BY <2>1, <3>1, <3>2, LoadBased, SaveBased, EndBased DEF ToolStep
  <2>2. CASE DiskStep \/ UNCHANGED vars
    <3>1. CASE PowerLoss
      <4>1. \A p \in Procs : proc'[p].pc = "idle"
        BY <3>1, IdleType DEF PowerLoss
      <4> QED
        BY <4>1 DEF Based
    <3>2. CASE \/ \E i \in {main, tmp} \ {None} : WriteBack(i)
               \/ CommitDirectory
               \/ UNCHANGED vars
      <4>1. UNCHANGED <<proc, content, held, overlapped>>
        BY <3>2 DEF WriteBack, CommitDirectory, vars, files, ghost
      <4> QED
        BY <4>1 DEF Based
    <3> QED
      BY <2>2, <3>1, <3>2 DEF DiskStep
  <2> QED
    BY <2>1, <2>2 DEF Next
<1> QED
  BY <1>1, <1>2, PTL DEF SpecDisk

\* Until saves overlap, opening and writing the temporary file leave the list.
LEMMA SaveKeepsFile ==
  ASSUME Inv, ~ overlapped, NEW p \in Procs, CreateTmp(p) \/ Write(p)
  PROVE  UNCHANGED <<FileQueue, held>>
<1>1. TypeOK /\ Safe
  BY DEF Inv
<1>2. CASE CreateTmp(p)
  <2> DEFINE inode == IF tmp # None THEN tmp ELSE CHOOSE i \in FreeInodes : TRUE
  <2>1. main' = main /\ held' = held /\ content' = [content EXCEPT ![inode] = <<>>]
    BY <1>2 DEF CreateTmp
  <2>2. inode \in Inodes /\ inode # main
    BY OpenedForSave
  <2> HIDE DEF inode
  <2>3. main # None => content'[main] = content[main]
    BY <1>1, <2>1, <2>2 DEF TypeOK
  <2> QED
    BY <2>1, <2>3 DEF FileQueue
<1>3. CASE Write(p)
  <2> DEFINE fd == proc[p].fd
  <2>1. main' = main /\ held' = held /\ \E new : content' = [content EXCEPT ![fd] = new]
    <3>1. main' = main /\ held' = held
      BY <1>3 DEF Write, ghost
    <3>2. content' = [content EXCEPT ![fd] =
            WriteAt(content[fd], proc[p].offset + 1, Encoding(proc[p].queue)[proc[p].offset + 1])]
      BY <1>3, <1>1 DEF Write, TypeOK
    <3> QED
      BY <3>1, <3>2
  <2>2. fd # main
    BY <1>1, <1>3 DEF Write, Safe, SaverOwnsTmp, Apart
  <2>3. main # None => content'[main] = content[main]
    BY <1>1, <2>1, <2>2 DEF TypeOK
  <2> QED
    BY <2>1, <2>3 DEF FileQueue
<1> QED
  BY <1>2, <1>3

\* Until saves overlap, only a rename changes the file while the power is on.
LEMMA OnlyRename ==
  ASSUME Inv, ~ overlapped, Next, FileQueue' # FileQueue \/ main' # main
  PROVE  \E p \in Procs : Rename(p)
<1>1. PICK p \in Procs : ToolStep(p) \/ Kill(p)
  BY DEF Next
<1>2. CASE CreateTmp(p) \/ Write(p)
  <2>1. main' = main
    BY <1>2 DEF CreateTmp, Write
  <2> QED
    BY <1>2, <2>1, SaveKeepsFile
<1>3. CASE \/ \E cmd \in Commands : StartMissing(p, cmd) \/ StartExists(p, cmd)
           \/ Open(p) \/ Read(p) \/ Kill(p)
  <2>1. UNCHANGED <<main, content>>
    BY <1>3 DEF StartMissing, StartExists, Open, Read, Kill, files, ghost
  <2> QED
    BY <2>1 DEF FileQueue
<1>4. CASE Rename(p)
  BY <1>4
<1> QED
  BY <1>1, <1>2, <1>3, <1>4 DEF ToolStep

\* A rename brings a command on a list that the file held, and on what it holds
\* if nobody overtook the run.
LEMMA RenameBased ==
  ASSUME BasedInv, ~ overlapped, NEW p \in Procs, Rename(p)
  PROVE  \E list \in held :
           /\ Saves(proc[p].cmd, list)
           /\ FileQueue' = Changed(proc[p].cmd, list)
           /\ p \notin stale => list = FileQueue
<1>1. Inv /\ Based /\ Safe
  BY DEF BasedInv, Inv
<1>2. proc[p].pc = "rename" /\ FileQueue' = proc[p].queue
  BY <1>1, RenamePublishes DEF Rename
<1>3. CASE p \notin stale
  <2>1. /\ FileQueue \in held
        /\ Saves(proc[p].cmd, FileQueue) /\ proc[p].queue = Changed(proc[p].cmd, FileQueue)
    BY <1>1, <1>2, <1>3 DEF Safe, Isolated, Remembered
  <2> QED
    BY <1>2, <2>1
<1>4. CASE p \in stale
  <2>1. PICK list \in held : Saves(proc[p].cmd, list) /\ proc[p].queue = Changed(proc[p].cmd, list)
    BY <1>1, <1>2 DEF Based
  <2> QED
    BY <1>2, <1>4, <2>1
<1> QED
  BY <1>3, <1>4

\* As long as no two saves overlapped, what a run brings into the file is its
\* command on a whole list that the file held; and on the one that it holds
\* unless somebody replaced the file since the run looked for it.
THEOREM UpdatesAreIsolated == Spec => UpdatesInIsolation
<1> DEFINE Isolation ==
      \A p \in Procs :
        ~ overlapped /\ proc[p].pc = "rename" /\ main' # main
          => \E list \in held :
               /\ Saves(proc[p].cmd, list)
               /\ FileQueue' = Changed(proc[p].cmd, list)
               /\ p \notin stale => list = FileQueue
<1>1. BasedInv /\ [Next]_vars => [Isolation]_vars
  <2> SUFFICES ASSUME BasedInv, Next, NEW p \in Procs,
                      ~ overlapped, proc[p].pc = "rename", main' # main
               PROVE  \E list \in held :
                        /\ Saves(proc[p].cmd, list)
                        /\ FileQueue' = Changed(proc[p].cmd, list)
                        /\ p \notin stale => list = FileQueue
    OBVIOUS
  <2>1. Inv /\ Safe
    BY DEF BasedInv, Inv
  <2>2. PICK q \in Procs : Rename(q)
    BY <2>1, OnlyRename
  <2>3. q = p
    BY <2>1, <2>2 DEF Rename, Safe, OneSaver, Saving
  <2> QED
    BY <2>2, <2>3, RenameBased
<1>2. UpdatesInIsolation <=> [][Isolation]_vars
  BY DEF UpdatesInIsolation
<1> HIDE DEF Isolation
<1> QED
  BY <1>1, <1>2, BasedHolds, WithoutPowerLoss, PTL DEF Spec

\* As long as no two saves overlapped: whatever a loss of power or a lost update
\* brings, the list in the file changes to a whole command on a list that the
\* file held, or back to one.  Lists are lost, but never mixed or made up.
WholeUpdates ==
  [][~ overlapped /\ FileQueue' # FileQueue =>
       \/ PowerLoss /\ FileQueue' \in held
       \/ \E p \in Procs, list \in held :
            /\ proc[p].pc = "rename" /\ Saves(proc[p].cmd, list)
            /\ FileQueue' = Changed(proc[p].cmd, list)]_vars

THEOREM UpdatesAreWhole == SpecDisk => WholeUpdates
<1> DEFINE WholeUpdate ==
      ~ overlapped /\ FileQueue' # FileQueue =>
        \/ PowerLoss /\ FileQueue' \in held
        \/ \E p \in Procs, list \in held :
             /\ proc[p].pc = "rename" /\ Saves(proc[p].cmd, list)
             /\ FileQueue' = Changed(proc[p].cmd, list)
<1>1. BasedInv /\ [Next \/ DiskStep]_vars => [WholeUpdate]_vars
  <2> SUFFICES ASSUME BasedInv, Next \/ DiskStep, ~ overlapped, FileQueue' # FileQueue
               PROVE  \/ PowerLoss /\ FileQueue' \in held
                      \/ \E p \in Procs, list \in held :
                           /\ proc[p].pc = "rename" /\ Saves(proc[p].cmd, list)
                           /\ FileQueue' = Changed(proc[p].cmd, list)
    OBVIOUS
  <2>1. Inv /\ Safe
    BY DEF BasedInv, Inv
  <2>2. CASE Next
    <3>1. PICK p \in Procs : Rename(p)
      BY <2>1, <2>2, OnlyRename
    <3>2. proc[p].pc = "rename"
      BY <3>1 DEF Rename
    <3>3. PICK list \in held :
            Saves(proc[p].cmd, list) /\ FileQueue' = Changed(proc[p].cmd, list)
      BY <3>1, RenameBased
    <3> QED
      BY <3>2, <3>3
  <2>3. CASE PowerLoss
    <3>1. FileQueue' = DiskQueue
      BY <2>3 DEF PowerLoss, FileQueue, DiskQueue
    <3> QED
      BY <2>1, <2>3, <3>1 DEF Safe, Remembered
  <2>4. CASE (\E i \in {main, tmp} \ {None} : WriteBack(i)) \/ CommitDirectory
    <3>1. UNCHANGED <<main, content>>
      BY <2>4 DEF WriteBack, CommitDirectory, files
    <3> QED
      BY <3>1 DEF FileQueue
  <2> QED
    BY <2>2, <2>3, <2>4 DEF DiskStep
<1>2. WholeUpdates <=> [][WholeUpdate]_vars
  BY DEF WholeUpdates
<1> HIDE DEF WholeUpdate
<1> QED
  BY <1>1, <1>2, BasedHolds, PTL DEF SpecDisk

-------------------------------------------------------------------------------
(***************************************************************************)
(* Every command ends: the part of CommandsFinish that is safety.  A call  *)
(* of a command that is under way can always be made, each one takes it    *)
(* closer to its end, and no other process takes it back.  With the        *)
(* fairness that schedules it, it ends.                                    *)
(***************************************************************************)
\* How many kinds of calls a command still has before it.
Stage(p) ==
  CASE proc[p].pc = "idle"   -> 0
    [] proc[p].pc = "rename" -> 1
    [] proc[p].pc = "write"  -> 2
    [] proc[p].pc = "create" -> 3
    [] proc[p].pc = "read"   -> 4
    [] proc[p].pc = "open"   -> 5

\* One more unit of a queue that has an end.
WritesOn(p) ==
  /\ proc[p].pc = "write" /\ proc'[p].pc = "write"
  /\ proc'[p].queue = proc[p].queue
  /\ proc'[p].offset = proc[p].offset + 1
  /\ proc'[p].offset <= Len(proc[p].queue)

CommandsAdvance ==
  [][\A p \in Procs :
       proc[p].pc # "idle" /\ proc'[p] # proc[p] => Stage(p)' < Stage(p) \/ WritesOn(p)]_vars

\* What the next call of a command needs is there: the file that load found,
\* and a file for the save.
NextCallPossible ==
  \A p \in Procs :
    /\ proc[p].pc = "open" => main # None
    /\ proc[p].pc = "create" => tmp # None \/ FreeInodes # {}

\* No step of a process touches another's command.
LEMMA OneProcessSteps ==
  ASSUME TypeOK, NEW p \in Procs, NEW q \in Procs, q # p, ToolStep(p) \/ Kill(p)
  PROVE  proc'[q] = proc[q]
<1>1. \E new : proc' = [proc EXCEPT ![p] = new]
  <2>1. CASE Open(p)
    <3>1. proc' = [proc EXCEPT ![p] = [proc[p] EXCEPT !.pc = "read", !.fd = main]]
      BY <2>1 DEF Open, TypeOK
    <3> QED
      BY <3>1
  <2>2. CASE CreateTmp(p)
    <3> DEFINE inode == IF tmp # None THEN tmp ELSE CHOOSE i \in FreeInodes : TRUE
    <3>1. proc' = [proc EXCEPT ![p].pc = "write", ![p].fd = inode]
      BY <2>2 DEF CreateTmp
    <3> HIDE DEF inode
    <3>2. proc' = [proc EXCEPT ![p] = [proc[p] EXCEPT !.pc = "write", !.fd = inode]]
      BY <3>1 DEF TypeOK
    <3> QED
      BY <3>2
  <2>3. CASE Write(p)
    <3> DEFINE k == proc[p].offset + 1
               units == Encoding(proc[p].queue)
    <3>1. proc' = [proc EXCEPT ![p] =
                     IF k < Len(units) THEN [proc[p] EXCEPT !.offset = k]
                     ELSE Process("rename", proc[p].cmd, proc[p].queue, None, 0)]
      BY <2>3 DEF Write, TypeOK
    <3> QED
      BY <3>1
  <2>4. CASE Read(p)
    <3> DEFINE empty == <<>>
               queue == Decoded(content[proc[p].fd])
    <3>1. \/ Run(p, proc[p].cmd, empty)
          \/ Run(p, proc[p].cmd, queue)
          \/ proc' = [proc EXCEPT ![p] = Idle]
      BY <2>4 DEF Read
    <3> HIDE DEF empty, queue
    <3> QED
      BY <3>1 DEF Run
  <2>5. CASE \E cmd \in Commands : StartMissing(p, cmd)
    <3>1. PICK cmd \in Commands : StartMissing(p, cmd)
      BY <2>5
    <3> DEFINE empty == <<>>
    <3>2. Run(p, cmd, empty)
      BY <3>1 DEF StartMissing
    <3> HIDE DEF empty
    <3> QED
      BY <3>2 DEF Run
  <2>6. CASE \E cmd \in Commands : StartExists(p, cmd)
    BY <2>6 DEF StartExists
  <2>7. CASE Rename(p) \/ Kill(p)
    BY <2>7 DEF Rename, Kill
  <2> QED
    BY <2>1, <2>2, <2>3, <2>4, <2>5, <2>6, <2>7 DEF ToolStep
<1> QED
  BY <1>1 DEF TypeOK

\* A call of a command that is under way is followed by a later one, or by the
\* next unit of the same save.
LEMMA CallAdvances ==
  ASSUME Inv, NEW p \in Procs, proc[p].pc # "idle", ToolStep(p) \/ Kill(p)
  PROVE  Stage(p)' < Stage(p) \/ WritesOn(p)
<1>1. TypeOK /\ proc[p] \in ProcState /\ p \in DOMAIN proc
  BY ProcFields DEF Inv, TypeOK
<1>2. CASE Open(p)
  <2>1. proc[p].pc = "open" /\ proc'[p].pc = "read"
    BY <1>1, <1>2 DEF Open, ProcState
  <2> QED
    BY <2>1 DEF Stage
<1>3. CASE Read(p)
  <2> DEFINE empty == <<>>
             units == content[proc[p].fd]
             queue == Decoded(units)
             cmd == proc[p].cmd
  <2>1. /\ proc[p].pc = "read" /\ cmd \in Commands
        /\ units \in Seq(TodoType)
    BY <1>1, <1>3, ProcFields DEF Read, TypeOK
  <2>2. empty \in Seq(TodoType) /\ (Decodes(units) => queue \in Seq(TodoType))
    <3> HIDE DEF units
    <3> QED
      BY <2>1, HeadTailProperties DEF Decodes, Decoded
  <2>3. \/ Run(p, cmd, empty)
        \/ Decodes(units) /\ Run(p, cmd, queue)
        \/ proc' = [proc EXCEPT ![p] = Idle]
    BY <1>3 DEF Read
  <2> HIDE DEF empty, units, queue, cmd
  <2>4. ASSUME NEW list \in Seq(TodoType), Run(p, cmd, list)
        PROVE  proc'[p].pc \in {"idle", "create"}
    <3> DEFINE new == IF Saves(cmd, list)
                      THEN Process("create", cmd, Changed(cmd, list), None, 0) ELSE Idle
    <3>1. proc' = [proc EXCEPT ![p] = new]
      BY <2>4 DEF Run
    <3>2. new.pc \in {"idle", "create"}
      BY IdleType DEF Process
    <3> HIDE DEF new
    <3> QED
      BY <1>1, <3>1, <3>2
  <2>5. proc'[p].pc \in {"idle", "create"}
    BY <1>1, <2>2, <2>3, <2>4, IdleType
  <2> QED
    BY <2>1, <2>5 DEF Stage
<1>4. CASE CreateTmp(p)
  <2>1. /\ proc[p].pc = "create"
        /\ \E inode : proc' = [proc EXCEPT ![p].pc = "write", ![p].fd = inode]
    BY <1>4 DEF CreateTmp
  <2>2. proc'[p].pc = "write"
    BY <1>1, <2>1 DEF ProcState
  <2> QED
    BY <2>1, <2>2 DEF Stage
<1>5. CASE Write(p)
  <2> DEFINE k == proc[p].offset + 1
             queue == proc[p].queue
             units == Encoding(queue)
  <2>1. /\ proc[p].pc = "write"
        /\ proc' = [proc EXCEPT ![p] =
                      IF k < Len(units) THEN [proc[p] EXCEPT !.offset = k]
                      ELSE Process("rename", proc[p].cmd, queue, None, 0)]
    BY <1>1, <1>5 DEF Write, TypeOK
  <2>2. queue \in Seq(TodoType) /\ Len(queue) \in Nat /\ k \in Nat
    BY <1>1, ProcFields, LenProperties
  <2>3. Len(units) = Len(queue) + 1
    <3> HIDE DEF queue
    <3> QED
      BY <2>2, EncodingFacts
  <2>4. CASE k < Len(units)
    <3>1. proc'[p] = [proc[p] EXCEPT !.offset = k]
      BY <1>1, <2>1, <2>4
    <3>2. k <= Len(queue)
      BY <2>2, <2>3, <2>4
    <3> QED
      BY <1>1, <2>1, <3>1, <3>2 DEF ProcState, WritesOn
  <2>5. CASE ~ (k < Len(units))
    <3>1. proc'[p] = Process("rename", proc[p].cmd, queue, None, 0)
      BY <1>1, <2>1, <2>5
    <3>2. proc'[p].pc = "rename"
      BY <3>1 DEF Process
    <3> QED
      BY <2>1, <3>2 DEF Stage
  <2> QED
    BY <2>4, <2>5
<1>6. CASE Rename(p) \/ Kill(p)
  <2>1. proc'[p].pc = "idle"
    BY <1>1, <1>6, IdleType DEF Rename, Kill
  <2> QED
    BY <1>1, <2>1 DEF Stage, ProcState, PCs
<1> QED
  BY <1>2, <1>3, <1>4, <1>5, <1>6 DEF ToolStep, StartMissing, StartExists

\* Every step of a command that is under way, its own or not, leaves it where it
\* is or takes it on: to a later call, to the next unit of a save, or to its end.
THEOREM CommandsOnlyAdvance == SpecDisk => CommandsAdvance
<1> DEFINE Advance ==
      \A p \in Procs :
        proc[p].pc # "idle" /\ proc'[p] # proc[p] => Stage(p)' < Stage(p) \/ WritesOn(p)
<1>1. Inv /\ [Next \/ DiskStep]_vars => [Advance]_vars
  <2> SUFFICES ASSUME Inv, Next \/ DiskStep,
                      NEW p \in Procs, proc[p].pc # "idle", proc'[p] # proc[p]
               PROVE  Stage(p)' < Stage(p) \/ WritesOn(p)
    OBVIOUS
  <2>1. CASE Next
    <3>1. PICK q \in Procs : ToolStep(q) \/ Kill(q)
      BY <2>1 DEF Next
    <3>2. q = p
      BY <3>1, OneProcessSteps DEF Inv
    <3> QED
      BY <3>1, <3>2, CallAdvances
  <2>2. CASE PowerLoss
    <3>1. proc'[p].pc = "idle" /\ proc[p].pc \in PCs
      BY <2>2, IdleType, ProcFields DEF PowerLoss, Inv
    <3> QED
      BY <3>1 DEF Stage, PCs
  <2>3. CASE (\E i \in {main, tmp} \ {None} : WriteBack(i)) \/ CommitDirectory
    BY <2>3 DEF WriteBack, CommitDirectory
  <2> QED
    BY <2>1, <2>2, <2>3 DEF DiskStep
<1>2. CommandsAdvance <=> [][Advance]_vars
  BY DEF CommandsAdvance
<1> HIDE DEF Advance
<1> QED
  BY <1>1, <1>2, InvHolds, PTL DEF SpecDisk

\* Whatever killed commands left behind: the next call of a command finds what
\* it needs.
THEOREM CommandsNeverStuck == SpecDisk => []NextCallPossible
<1>1. Inv => NextCallPossible
  BY FreeInodeExists DEF Inv, OpenNeverFails, NextCallPossible
<1> QED
  BY <1>1, InvHolds, PTL

-------------------------------------------------------------------------------
(***************************************************************************)
(* The file of one process implements the list.                            *)
(***************************************************************************)
LEMMA ListOperators ==
  ASSUME NEW queue, NEW description
  PROVE  /\ List!Enqueued(queue, description) = Enqueued(queue, description)
         /\ List!Dequeued(queue) = Dequeued(queue)
<1>1. List!next_id(queue) = next_id(queue)
  BY DEF List!next_id, next_id
<1> QED
  BY <1>1 DEF List!Enqueued, Enqueued, List!Dequeued, Dequeued, List!Todo, Todo

\* The rename of a run that nobody overtook is its command on the list.
LEMMA RenameIsCommand ==
  ASSUME Inv, ~ overlapped, NEW p \in Procs, p \notin stale, Rename(p)
  PROVE  List!Next
<1> DEFINE cmd == proc[p].cmd
           new == proc[p].queue
<1>1. FileQueue' = new /\ held' = held \cup {FileQueue'} /\ proc[p].pc = "rename"
  BY RenamePublishes DEF Rename
<1>2. Saves(cmd, FileQueue) /\ new = Changed(cmd, FileQueue) /\ cmd \in Commands
  BY <1>1, ProcFields DEF Inv, Safe, Isolated
<1> HIDE DEF cmd, new
<1>3. CASE cmd.op = "add"
  <2>1. cmd.description \in Descriptions
    BY <1>2, <1>3 DEF Commands
  <2>2. new = List!Enqueued(FileQueue, cmd.description)
    BY <1>2, <1>3, ListOperators DEF Changed
  <2>3. List!Add(cmd.description)
    BY <1>1, <2>2 DEF List!Add, List!Becomes
  <2> QED
    BY <2>1, <2>3 DEF List!Next
<1>4. CASE cmd.op # "add"
  <2>1. FileQueue # <<>> /\ new = List!Dequeued(FileQueue)
    BY <1>2, <1>4, ListOperators DEF Saves, Changed
  <2>2. List!Done
    BY <1>1, <2>1 DEF List!Done, List!Becomes
  <2> QED
    BY <2>2 DEF List!Next
<1> QED
  BY <1>3, <1>4

\* One process at a time, killed anywhere, and power lost at any time: every
\* step changes the list by one whole command, takes it back to an earlier list
\* (a loss of power) or leaves it.
THEOREM FileImplementsTodoList ==
  ASSUME \A p, q \in Procs : p = q
  PROVE  SpecDisk => ImplementsTodoList
<1>1. Init => List!Init
  BY DEF Init, List!Init, FileQueue
<1>2. Inv /\ [Next \/ DiskStep]_vars => [List!Next]_(List!vars)
  <2> SUFFICES ASSUME Inv, [Next \/ DiskStep]_vars
               PROVE  List!Next \/ UNCHANGED <<FileQueue, held>>
    BY DEF List!vars
  <2>1. ~ overlapped /\ stale = {} /\ Safe
    BY DEF Inv, Alone
  <2>2. ASSUME NEW p \in Procs, ToolStep(p) \/ Kill(p)
        PROVE  List!Next \/ UNCHANGED <<FileQueue, held>>
    <3>1. CASE CreateTmp(p) \/ Write(p)
      BY <2>1, <3>1, SaveKeepsFile
    <3>2. CASE Rename(p)
      BY <2>1, <3>2, RenameIsCommand
    <3>3. CASE \/ \E cmd \in Commands : StartMissing(p, cmd) \/ StartExists(p, cmd)
               \/ Open(p) \/ Read(p) \/ Kill(p)
      <4>1. UNCHANGED <<main, content, held>>
        BY <3>3 DEF StartMissing, StartExists, Open, Read, Kill, files, ghost
      <4> QED
        BY <4>1 DEF FileQueue
    <3> QED
      BY <2>2, <3>1, <3>2, <3>3 DEF ToolStep
  <2>3. CASE PowerLoss
    <3>1. FileQueue' = DiskQueue /\ held' = held
      BY <2>3 DEF PowerLoss, FileQueue, DiskQueue, ghost
    <3>2. List!LosePower
      BY <2>1, <3>1 DEF List!LosePower, Safe, Remembered
    <3> QED
      BY <3>2 DEF List!Next
  <2>4. CASE (\E i \in {main, tmp} \ {None} : WriteBack(i)) \/ CommitDirectory
    <3>1. UNCHANGED <<main, content, held>>
      BY <2>4 DEF WriteBack, CommitDirectory, files, ghost
    <3> QED
      BY <3>1 DEF FileQueue
  <2>5. CASE UNCHANGED vars
    BY <2>5 DEF vars, files, ghost, FileQueue
  <2> QED
    BY <2>2, <2>3, <2>4, <2>5 DEF Next, DiskStep
<1> QED
  BY <1>1, <1>2, InvHolds, PTL DEF SpecDisk, ImplementsTodoList, List!Spec
===============================================================================
