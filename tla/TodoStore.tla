------------------------------- MODULE TodoStore -------------------------------
(***************************************************************************)
(* The todo tool on a file system (src/persistent-todo-queue, store.rs and *)
(* main.rs).  A run of the tool loads the queue from the file, changes it  *)
(* in memory and saves it: it writes a temporary file and renames it over  *)
(* the file.  There is one temporary file name, no lock and no fsync.      *)
(*                                                                         *)
(* A step is a system call.  Several runs may be under way at once, a run  *)
(* may be killed between any two calls, and (in the specifications with a  *)
(* disk) the machine may lose power.                                       *)
(*                                                                         *)
(* A file is a sequence of units: a header that counts the todos, then the *)
(* todos, as Borsh encodes a vector.  write_all writes them in order, in   *)
(* any split.                                                              *)
(***************************************************************************)
EXTENDS TodoQueue, FiniteSets

CONSTANTS
  Procs,         \* processes that run the tool, one command at a time
  Descriptions,  \* the descriptions passed to add
  Inodes,        \* the files the file system can hold at once
  MaxRuns,       \* bound: commands started in all
  None           \* no file

ASSUME InodesAssumption ==
  /\ IsFiniteSet(Procs)
  /\ IsFiniteSet(Inodes)
  /\ Cardinality(Inodes) >= Cardinality(Procs) + 4
  /\ None \notin Inodes

ASSUME MaxRunsAssumption == MaxRuns \in Nat

VARIABLES
  main, tmp,     \* the directory: the inode under each name, or None
  content,       \* the units of each inode, as processes read them
  proc,          \* what each process is doing
  diskMain, diskTmp, diskContent,  \* what a loss of power leaves
  runs,          \* commands started so far
  saved,         \* history: every queue a run began to save
  held,          \* history: every queue the file has held
  overlapped,    \* history: a save began while another was under way
  stale          \* history: processes whose file was replaced since they
                 \* looked for it

files == <<main, tmp, content>>
disk  == <<diskMain, diskTmp, diskContent>>
ghost == <<saved, held, overlapped, stale>>
vars  == <<files, proc, disk, runs, ghost>>

-------------------------------------------------------------------------------
(***************************************************************************)
(* Encoding.                                                               *)
(***************************************************************************)
Blank == ""

Header(n) == Todo(n, Blank)

\* A unit nobody wrote: zero bytes.
Hole == Todo(0, Blank)

\* borsh::to_vec
Encoding(queue) == <<Header(Len(queue))>> \o queue

\* try_from_slice: as many todos as the header says and nothing after them.
Decodes(units) == units # <<>> /\ units[1].id = Len(units) - 1

Decoded(units) == Tail(units)

\* The list in the file; none is an empty list.
FileQueue ==
  IF main = None \/ content[main] = <<>> THEN <<>> ELSE Decoded(content[main])

\* One unit written at a file position; a gap before it reads as zeros.
WriteAt(units, k, unit) ==
  [i \in 1 .. (IF k > Len(units) THEN k ELSE Len(units)) |->
     IF i = k THEN unit ELSE IF i <= Len(units) THEN units[i] ELSE Hole]

-------------------------------------------------------------------------------
Commands ==
  [op : {"add"}, description : Descriptions]
    \cup [op : {"done", "list"}, description : {Blank}]

\* done on an empty queue and list save nothing.
Saves(cmd, queue) == cmd.op = "add" \/ (cmd.op = "done" /\ queue # <<>>)

Changed(cmd, queue) ==
  IF cmd.op = "add" THEN Enqueued(queue, cmd.description) ELSE Dequeued(queue)

NoCommand == [op |-> "list", description |-> Blank]

Process(pc, cmd, queue, fd, offset) ==
  [pc |-> pc, cmd |-> cmd, queue |-> queue, fd |-> fd, offset |-> offset]

Idle == Process("idle", NoCommand, <<>>, None, 0)

\* A process past the opening of the temporary file and before its rename.
Saving(p) == proc[p].pc \in {"write", "rename"}

\* The processes that have found the file, or none, and are not done with it.
Loaded == {p \in Procs : proc[p].pc \notin {"idle", "open"}}

\* Faulty variant: the command saves first and changes the queue after.
Run_SavesFirst(p, cmd, queue) ==
  proc' = [proc EXCEPT ![p] =
             IF Saves(cmd, queue) THEN Process("create", cmd, queue, None, 0)
             ELSE Idle]

\* The rest of a command once the queue is loaded, up to the next system call.
Run(p, cmd, queue) ==
  proc' = [proc EXCEPT ![p] =
             IF Saves(cmd, queue)
             THEN Process("create", cmd, Changed(cmd, queue), None, 0)
             ELSE Idle]

\* The files a new one may reuse: no name and no process refers to them.
FreeInodes ==
  Inodes \ ({main, tmp, diskMain, diskTmp} \cup {proc[p].fd : p \in Procs})

-------------------------------------------------------------------------------
(***************************************************************************)
(* Faulty variants: what a plausible slip or a well-meant change would     *)
(* make of the calls below.  No specification uses them.                   *)
(***************************************************************************)
OpenForWriting(p, inode, units) ==
  /\ proc[p].pc = "create"
  /\ content' = [content EXCEPT ![inode] = units]
  /\ proc' = [proc EXCEPT ![p].pc = "write", ![p].fd = inode]
  /\ saved' = saved \cup {proc[p].queue}
  /\ overlapped' = (overlapped \/ \E other \in Procs : Saving(other))
  /\ UNCHANGED <<disk, runs, held, stale>>

NewInode == CHOOSE i \in FreeInodes : TRUE

\* A left-over temporary file is not emptied.
CreateTmp_KeepsOld(p) ==
  /\ tmp' = IF tmp # None THEN tmp ELSE NewInode
  /\ OpenForWriting(p, tmp', IF tmp # None THEN content[tmp] ELSE <<>>)
  /\ UNCHANGED main

\* A left-over temporary file counts as a lock.
CreateTmp_Exclusive(p) ==
  /\ tmp = None
  /\ tmp' = NewInode
  /\ OpenForWriting(p, tmp', <<>>)
  /\ UNCHANGED main

\* The file itself is opened: no temporary file, the rename fails.
CreateTmp_InPlace(p) ==
  /\ main' = IF main # None THEN main ELSE NewInode
  /\ OpenForWriting(p, main', <<>>)
  /\ UNCHANGED tmp

\* The temporary file is still open when it is renamed.
Write_LeavesOpen(p) ==
  LET units == Encoding(proc[p].queue)
      k     == proc[p].offset + 1
  IN  /\ proc[p].pc = "write"
      /\ content' = [content EXCEPT ![proc[p].fd] = WriteAt(@, k, units[k])]
      /\ proc' = [proc EXCEPT ![p] =
                    IF k < Len(units)
                    THEN [@ EXCEPT !.offset = k]
                    ELSE [@ EXCEPT !.pc = "rename"]]
      /\ UNCHANGED <<main, tmp, disk, runs, ghost>>

\* The old file is removed before the rename.
Rename_RemovesFirst(p) ==
  /\ proc[p].pc = "rename"
  /\ IF main # None
     THEN main' = None /\ UNCHANGED <<tmp, proc>>
     ELSE /\ main' = tmp /\ tmp' = None
          /\ proc' = [proc EXCEPT ![p] = Idle]
  /\ UNCHANGED <<content, disk, runs, ghost>>

\* Left-over temporary files are cleaned up when a command starts.
StartExists_CleansUp(p, cmd) ==
  /\ proc[p].pc = "idle"
  /\ runs < MaxRuns
  /\ main # None
  /\ tmp' = None
  /\ proc' = [proc EXCEPT ![p] = Process("open", cmd, <<>>, None, 0)]
  /\ runs' = runs + 1
  /\ UNCHANGED <<main, content, disk, ghost>>

-------------------------------------------------------------------------------
Init ==
  /\ main = None /\ tmp = None
  /\ content = [i \in Inodes |-> <<>>]
  /\ proc = [p \in Procs |-> Idle]
  /\ diskMain = None /\ diskTmp = None
  /\ diskContent = [i \in Inodes |-> <<>>]
  /\ runs = 0
  /\ saved = {<<>>}
  /\ held = {<<>>}
  /\ overlapped = FALSE
  /\ stale = {}

\* load: path.exists() is false, the queue is empty.
StartMissing(p, cmd) ==
  /\ proc[p].pc = "idle"
  /\ runs < MaxRuns
  /\ main = None
  /\ Run(p, cmd, <<>>)
  /\ runs' = runs + 1
  /\ stale' = stale \ {p}
  /\ UNCHANGED <<files, disk, saved, held, overlapped>>

\* load: path.exists() is true.
StartExists(p, cmd) ==
  /\ proc[p].pc = "idle"
  /\ runs < MaxRuns
  /\ main # None
  /\ proc' = [proc EXCEPT ![p] = Process("open", cmd, <<>>, None, 0)]
  /\ runs' = runs + 1
  /\ UNCHANGED <<files, disk, ghost>>

\* fs::read opens the file.  It would fail if the file were gone by now.
Open(p) ==
  /\ proc[p].pc = "open"
  /\ main # None
  /\ proc' = [proc EXCEPT ![p].pc = "read", ![p].fd = main]
  /\ stale' = stale \ {p}
  /\ UNCHANGED <<files, disk, runs, saved, held, overlapped>>

\* fs::read reads it: an empty file is an empty queue, anything that is not
\* an encoding is an error and ends the command.
Read(p) ==
  LET units == content[proc[p].fd]
  IN  /\ proc[p].pc = "read"
      /\ \/ /\ units = <<>>
            /\ Run(p, proc[p].cmd, <<>>)
         \/ /\ Decodes(units)
            /\ Run(p, proc[p].cmd, Decoded(units))
         \/ /\ units # <<>> /\ ~ Decodes(units)
            /\ proc' = [proc EXCEPT ![p] = Idle]
      /\ UNCHANGED <<files, disk, runs, ghost>>

\* fs::write opens the temporary file: created if missing, emptied if not.
CreateTmp(p) ==
  /\ proc[p].pc = "create"
  /\ LET inode == IF tmp # None THEN tmp ELSE CHOOSE i \in FreeInodes : TRUE
     IN  /\ tmp' = inode
         /\ content' = [content EXCEPT ![inode] = <<>>]
         /\ proc' = [proc EXCEPT ![p].pc = "write", ![p].fd = inode]
  /\ saved' = saved \cup {proc[p].queue}
  /\ overlapped' = (overlapped \/ \E other \in Procs : Saving(other))
  /\ UNCHANGED <<main, disk, runs, held, stale>>

\* fs::write writes the next unit to the file it opened, whatever its name is
\* by now.
Write(p) ==
  LET units == Encoding(proc[p].queue)
      k     == proc[p].offset + 1
  IN  /\ proc[p].pc = "write"
      /\ content' = [content EXCEPT ![proc[p].fd] = WriteAt(@, k, units[k])]
      /\ proc' = [proc EXCEPT ![p] =
                    IF k < Len(units)
                    THEN [@ EXCEPT !.offset = k]
                    ELSE Process("rename", @.cmd, @.queue, None, 0)]
      /\ UNCHANGED <<main, tmp, disk, runs, ghost>>

\* fs::rename: whatever the temporary name refers to becomes the file.  It
\* fails if another process has renamed it away.
Rename(p) ==
  /\ proc[p].pc = "rename"
  /\ IF tmp = None
     THEN UNCHANGED <<main, tmp>>
     ELSE main' = tmp /\ tmp' = None
  /\ proc' = [proc EXCEPT ![p] = Idle]
  /\ UNCHANGED <<content, disk, runs, saved, overlapped>>
  /\ held' = held \cup {FileQueue'}
  /\ stale' = IF tmp = None THEN stale ELSE stale \cup (Loaded \ {p})

\* External: a process is killed.
Kill(p) ==
  /\ proc[p].pc # "idle"
  /\ proc' = [proc EXCEPT ![p] = Idle]
  /\ UNCHANGED <<files, disk, runs, ghost>>

ToolStep(p) ==
  \/ \E cmd \in Commands : StartMissing(p, cmd) \/ StartExists(p, cmd)
  \/ Open(p)
  \/ Read(p)
  \/ CreateTmp(p)
  \/ Write(p)
  \/ Rename(p)

Next == \E p \in Procs : ToolStep(p) \/ Kill(p)

Spec == Init /\ [][Next]_vars

\* A command that is under way is scheduled until it ends.
Fairness ==
  \A p \in Procs :
    WF_vars(Open(p) \/ Read(p) \/ CreateTmp(p) \/ Write(p) \/ Rename(p))

FairSpec == Spec /\ Fairness

-------------------------------------------------------------------------------
(***************************************************************************)
(* The disk.  External: the kernel writes files and directory back when it *)
(* likes (the tool never syncs); a loss of power leaves what it wrote.     *)
(***************************************************************************)
WriteBack(i) ==
  /\ diskContent[i] # content[i]
  /\ diskContent' = [diskContent EXCEPT ![i] = content[i]]
  /\ UNCHANGED <<files, proc, diskMain, diskTmp, runs, ghost>>

\* The file system is one that writes a file's data before the rename that
\* publishes it.
CommitDirectory ==
  /\ main # None => diskContent[main] = content[main]
  /\ <<diskMain, diskTmp>> # <<main, tmp>>
  /\ diskMain' = main
  /\ diskTmp' = tmp
  /\ UNCHANGED <<files, proc, diskContent, runs, ghost>>

PowerLoss ==
  /\ main' = diskMain
  /\ tmp' = diskTmp
  /\ content' = diskContent
  /\ proc' = [p \in Procs |-> Idle]
  /\ UNCHANGED <<disk, runs, ghost>>

DiskStep ==
  \/ \E i \in {main, tmp} \ {None} : WriteBack(i)
  \/ CommitDirectory
  \/ PowerLoss

SpecDisk == Init /\ [][Next \/ DiskStep]_vars

-------------------------------------------------------------------------------
(***************************************************************************)
(* Properties.                                                             *)
(***************************************************************************)
TodoType == [id : Nat, description : Descriptions \cup {Blank}]

\* Names refer to files, files and queues hold todos, and a process has a file
\* open exactly while it reads or writes one.
TypeOK ==
  /\ {main, tmp, diskMain, diskTmp} \subseteq Inodes \cup {None}
  /\ content \in [Inodes -> Seq(TodoType)]
  /\ diskContent \in [Inodes -> Seq(TodoType)]
  /\ proc \in [Procs ->
       [pc : {"idle", "open", "read", "create", "write", "rename"},
        cmd : Commands, queue : Seq(TodoType), fd : Inodes \cup {None}, offset : Nat]]
  /\ \A p \in Procs : proc[p].pc \in {"read", "write"} <=> proc[p].fd # None
  /\ runs \in 0 .. MaxRuns
  /\ saved \cup held \subseteq Seq(TodoType)
  /\ overlapped \in BOOLEAN
  /\ stale \subseteq Procs

\* The file, once there is one, is a complete encoding of a queue that some
\* command saved: never a prefix, never a mixture.
MainWhole ==
  main # None => Decodes(content[main]) /\ Decoded(content[main]) \in saved

\* Refuted (README.md:39-40: "a crash mid-save cannot leave a partially written
\* file"): once no command is under way, ended or killed, the file is whole.
WholeAtRest == (\A p \in Procs : proc[p].pc = "idle") => MainWhole

\* As long as no two saves have overlapped in time, the file is whole,
\* whatever commands ran at once and wherever they were killed.
WholeUnlessOverlapped == ~ overlapped => MainWhole

\* Without overlapping saves the rename of a save cannot fail.
RenameSucceedsUnlessOverlapped ==
  ~ overlapped => \A p \in Procs : proc[p].pc = "rename" => tmp # None

\* load tests for the file and opens it in two calls: between them the file
\* does not disappear, not even while other processes replace it.
OpenNeverFails == \A p \in Procs : proc[p].pc = "open" => main # None

\* Nothing locks the file between load and save.  What a run brings into the
\* file is its command on a whole list that the file held, whatever was killed
\* before and whoever reads at the same time; and it is its command on what the
\* file holds unless another run replaced the file in between, the only way to
\* lose an update.
UpdatesInIsolation ==
  [][\A p \in Procs :
       ~ overlapped /\ proc[p].pc = "rename" /\ main' # main
         => \E list \in held :
              /\ Saves(proc[p].cmd, list)
              /\ FileQueue' = Changed(proc[p].cmd, list)
              /\ p \notin stale => list = FileQueue]_vars

\* Ids in the file are consecutive, so that each names one todo: max + 1 is
\* enough although commands restart from what they find in the file.
IdsConsecutive ==
  ~ overlapped =>
    \A i \in DOMAIN FileQueue : FileQueue[i].id = FileQueue[1].id + i - 1

\* A command that is not killed ends: nothing a killed command left behind can
\* block a later one.
CommandsFinish ==
  \A p \in Procs : proc[p].pc # "idle" ~> proc[p].pc = "idle"

\* One process at a time, killed anywhere, and power lost at any time: the file
\* is the list of TodoList, changed by whole commands in one step each.
List == INSTANCE TodoList WITH todos <- FileQueue, earlier <- held

ImplementsTodoList == List!Spec
================================================================================
