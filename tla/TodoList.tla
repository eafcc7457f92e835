------------------------------- MODULE TodoList --------------------------------
(***************************************************************************)
(* What the command-line tool promises, without files: one list, and each  *)
(* command changes it at once or (killed, or nothing to do) not at all.  A *)
(* loss of power may take back the latest commands, whole commands only.   *)
(***************************************************************************)
EXTENDS TodoQueue

CONSTANT Descriptions

VARIABLES
  todos,    \* the list
  earlier   \* every list there has been

vars == <<todos, earlier>>

Init == todos = <<>> /\ earlier = {<<>>}

Becomes(list) == todos' = list /\ earlier' = earlier \cup {list}

Add(description) == Becomes(Enqueued(todos, description))

Done == todos # <<>> /\ Becomes(Dequeued(todos))

LosePower == todos' \in earlier /\ UNCHANGED earlier

Next == Done \/ LosePower \/ \E description \in Descriptions : Add(description)

Spec == Init /\ [][Next]_vars
================================================================================
